----------------------------- MODULE ToolServers ------------------------------
(***************************************************************************)
(* External tool servers: MCPManager (tools/mcp_client.py) with its event  *)
(* loop on a thread of its own, the registry its tools are mounted into    *)
(* (tools/registry.py, Harness.add_mcp_server and remove_mcp_server), and  *)
(* the /config mcp chain of the app, whose connection test starts a server *)
(* from yet another thread (tui/app.py, tui/screens/mcp_test.py).          *)
(*                                                                         *)
(* A connection is one run of MCPManager._serve.  The dictionaries of the  *)
(* manager are keyed by the name of a server, so two connections of one    *)
(* name share their entries.                                               *)
(***************************************************************************)
EXTENDS Integers, FiniteSets

CONSTANTS
  Names,      (* names of servers                                           *)
  Tools,      (* names of tools, as the registry has them                   *)
  Offers,     (* what a server may list.  A name is made safe and cut to 64 *)
              (* characters, so that two servers may list the same one      *)
  Testers,    (* threads of connection tests                                *)
  MaxStarts   (* bound: connections of a behaviour                          *)

ASSUME ServerAssumption ==
  /\ Offers \in [Names -> SUBSET Tools]
  /\ MaxStarts \in Nat
  /\ "ui" \notin Testers /\ "none" \notin Names /\ "none" \notin Testers

None    == "none"
Callers == {"ui"} \cup Testers
Connections == 1..MaxStarts

VARIABLES
  saved,      (* the configuration: absent, disabled or enabled             *)
  owned,      (* MCPManager._tasks and _close_events: a connection, or 0    *)
  session,    (* MCPManager._sessions: a connection, or 0                   *)
  listed,     (* MCPManager._server_tools                                   *)
  serve,      (* the _serve tasks                                           *)
  starts,     (* how many of them there have been                           *)
  registry,   (* ToolRegistry._tools: the server that owns each tool        *)
  job,        (* what each thread waits for inside the manager              *)
  ui,         (* where the app stands in a chain                            *)
  left,       (* servers the app has yet to start, or to stop               *)
  timedOut,   (* history: connections whose start was given up too early    *)
  hasty       (* history: a test was left, or the app, before it reported    *)

manager == <<owned, session, listed>>
vars == <<saved, owned, session, listed, serve, starts, registry, job, ui,
          left, timedOut, hasty>>

past == <<timedOut, hasty>>

NoJob  == [at |-> "idle", server |-> None, conn |-> 0]
AtRest == [at |-> "idle", draft |-> None, original |-> None,
           started |-> FALSE, tester |-> None, shown |-> "connecting"]

Idle(c) == job[c].at = "idle"
Resting == ui.at = "idle" /\ Idle("ui")

(* The harness is being built: the enabled servers are started one by one.  *)
Init ==
  /\ saved \in [Names -> {"absent", "disabled", "enabled"}]
  /\ left = {n \in Names : saved[n] = "enabled"}
  /\ owned = [n \in Names |-> 0] /\ session = [n \in Names |-> 0]
  /\ listed = [n \in Names |-> {}]
  /\ serve = [i \in Connections |->
                [server |-> None, state |-> "unused", close |-> FALSE]]
  /\ starts = 0
  /\ registry = [t \in Tools |-> None]
  /\ job = [c \in Callers |-> NoJob]
  /\ ui = [AtRest EXCEPT !.at = "boot"]
  /\ timedOut = {} /\ hasty = FALSE

-----------------------------------------------------------------------------
(* stop_server: the entries of the name are dropped and the task is told to *)
(* unwind; without an entry there is nothing to wait for.                   *)
StopServer(c, n, then) ==
  LET i == owned[n]
  IN /\ owned' = [owned EXCEPT ![n] = 0]
     /\ listed' = [listed EXCEPT ![n] = {}]
     /\ IF i = 0
        THEN UNCHANGED <<serve, job>>
        ELSE /\ serve' = [serve EXCEPT ![i].close = TRUE]
             /\ job' = [job EXCEPT ![c] = [at |-> then, server |-> n, conn |-> i]]

(* _launch: a new task, entered under the name of its server.               *)
Launch(c, n) ==
  /\ starts < MaxStarts
  /\ starts' = starts + 1
  /\ serve' = [serve EXCEPT ![starts + 1] =
                 [server |-> n, state |-> "opening", close |-> FALSE]]
  /\ owned' = [owned EXCEPT ![n] = starts + 1]
  /\ job' = [job EXCEPT ![c] =
               [at |-> "starting", server |-> n, conn |-> starts + 1]]

(* A start that leaves what runs under the name alone.                      *)
StartServerOver(c, n) == Launch(c, n) /\ UNCHANGED <<session, listed>>

(* A start that stops what runs under the name and leaves it at that.       *)
StartServerStops(c, n) ==
  IF owned[n] = 0
  THEN Launch(c, n) /\ UNCHANGED <<session, listed>>
  ELSE StopServer(c, n, "stopping") /\ UNCHANGED <<session, starts>>

(* start_server: what runs under the name is stopped first.                 *)
StartServer(c, n) ==
  IF owned[n] = 0
  THEN Launch(c, n) /\ UNCHANGED <<session, listed>>
  ELSE StopServer(c, n, "replacing") /\ UNCHANGED <<session, starts>>

(* The result of a connection test reaches its modal if that is still up.   *)
Shown(c, result) ==
  ui' = IF ui.at = "test" /\ ui.tester = c THEN [ui EXCEPT !.shown = result]
        ELSE ui

(* A wait that trusts the server to go away.                                *)
StopReturnsWhenGone(c) ==
  /\ \/ job[c].at = "stopping"
     \/ job[c].at = "replacing" /\ ui.at = "closed"
  /\ serve[job[c].conn].state \in {"ended", "failed"}
  /\ session' = [session EXCEPT ![job[c].server] = 0]
  /\ job' = [job EXCEPT ![c] = NoJob]
  /\ UNCHANGED <<saved, owned, listed, serve, starts, registry, ui, left,
                 past>>

(* The wait of stop_server is over: the task ended, or the wait timed out.  *)
(* A start that finds the loop gone fails.                                  *)
StopReturns(c) ==
  /\ \/ job[c].at = "stopping"
     \/ job[c].at = "replacing" /\ ui.at = "closed"
  /\ session' = [session EXCEPT ![job[c].server] = 0]
  /\ job' = [job EXCEPT ![c] = NoJob]
  /\ UNCHANGED <<saved, owned, listed, serve, starts, registry, ui, left,
                 past>>

(* The same inside start_server, which goes on to the new connection.       *)
Replaces(c) ==
  /\ job[c].at = "replacing" /\ ui.at # "closed"
  /\ Launch(c, job[c].server)
  /\ session' = [session EXCEPT ![job[c].server] = 0]
  /\ UNCHANGED <<saved, listed, registry, ui, left, past>>

StartSucceeds(c) ==
  /\ job[c].at = "starting" /\ serve[job[c].conn].state \in {"parked", "ended"}
  /\ job' = [job EXCEPT ![c] = NoJob]
  /\ Shown(c, "connected")
  /\ UNCHANGED <<saved, manager, serve, starts, registry, left, past>>

(* The connection failed, or its 30 seconds are over; in the second case    *)
(* the task goes on, and nothing refers to it any more.                     *)
StartFails(c) ==
  LET n == job[c].server
  IN /\ job[c].at = "starting"
     /\ serve[job[c].conn].state \in {"opening", "failed"}
     /\ owned' = [owned EXCEPT ![n] = 0]
     /\ listed' = [listed EXCEPT ![n] = {}]
     /\ timedOut' = IF serve[job[c].conn].state = "opening"
                    THEN timedOut \cup {job[c].conn} ELSE timedOut
     /\ job' = [job EXCEPT ![c] = NoJob]
     /\ Shown(c, "failed")
     /\ UNCHANGED <<saved, session, serve, starts, registry, left, hasty>>

-----------------------------------------------------------------------------
Running == ui.at # "closed"

(* _serve, on the loop: the transport is open and the tools are listed.     *)
Connects(i) ==
  LET n == serve[i].server
  IN /\ Running /\ serve[i].state = "opening"
     /\ serve' = [serve EXCEPT ![i].state = "parked"]
     /\ session' = [session EXCEPT ![n] = i]
     /\ \E ts \in SUBSET Offers[n] : listed' = [listed EXCEPT ![n] = ts]
     /\ UNCHANGED <<saved, owned, starts, registry, job, ui, left, past>>

(* An end of _serve that leaves the session where it was.                   *)
ServeEndsQuietly(i, state) ==
  /\ serve' = [serve EXCEPT ![i].state = state, ![i].close = TRUE]
  /\ UNCHANGED <<saved, manager, starts, registry, job, ui, left, past>>

(* The end of _serve leaves no session under its name.  To tell an ended    *)
(* task to close means nothing more, so it counts as told.                  *)
ServeEnds(i, state) ==
  /\ serve' = [serve EXCEPT ![i].state = state, ![i].close = TRUE]
  /\ session' = [session EXCEPT ![serve[i].server] = 0]
  /\ UNCHANGED <<saved, owned, listed, starts, registry, job, ui, left,
                 past>>

OpenFails(i) ==
  /\ Running /\ serve[i].state = "opening"
  /\ ServeEnds(i, "failed")

(* The close event is set and the stack unwinds, or the server goes away.   *)
ServerGone(i) ==
  /\ Running /\ serve[i].state = "parked"
  /\ ServeEnds(i, "ended")

-----------------------------------------------------------------------------
(* start: the servers are started one after the other, each to its own      *)
(* success or note.                                                         *)
BootNext ==
  /\ ui.at = "boot" /\ Idle("ui")
  /\ \E n \in left : StartServer("ui", n) /\ left' = left \ {n}
  /\ UNCHANGED <<saved, registry, ui, past>>

(* default_registry: every listed tool is mounted, one of those that want   *)
(* the same name.                                                           *)
BootMounts ==
  /\ ui.at = "boot" /\ Idle("ui") /\ left = {}
  /\ registry' \in [Tools -> Names \cup {None}]
  /\ \A t \in Tools :
       LET wanted == {n \in Names : t \in listed[n]}
       IN IF wanted = {} THEN registry'[t] = None ELSE registry'[t] \in wanted
  /\ ui' = AtRest
  /\ UNCHANGED <<saved, manager, serve, starts, job, left, past>>

-----------------------------------------------------------------------------
(* A connection test: the modal is up and its thread starts the server.     *)
OpenTest(draft, original) ==
  /\ Resting
  /\ starts + Cardinality({c \in Testers : job[c].at = "replacing"}) < MaxStarts
  /\ \E c \in Testers :
       /\ Idle(c)
       /\ StartServer(c, draft)
       /\ ui' = [AtRest EXCEPT !.at = "test", !.draft = draft,
                               !.original = original, !.tester = c]
  /\ UNCHANGED <<saved, registry, left, past>>

Add(n)    == saved[n] = "absent" /\ OpenTest(n, None)
Enable(n) == saved[n] = "disabled" /\ OpenTest(n, None)

(* The form refuses a name that is taken by another server.                 *)
Edit(n, m) ==
  /\ saved[n] # "absent" /\ (m = n \/ saved[m] = "absent")
  /\ OpenTest(m, n)

(* Escape, Cancel or the timeout of the modal: nothing is stopped.          *)
TestLeft ==
  /\ ui.at = "test"
  /\ hasty' = (hasty \/ ui.shown = "connecting")
  /\ ui' = AtRest
  /\ UNCHANGED <<saved, manager, serve, starts, registry, job, left, timedOut>>

(* Mounting what a test found before the user has confirmed it.             *)
TestContinuesMounted ==
  /\ ui.at = "test" /\ ui.shown # "connecting"
  /\ ui' = [ui EXCEPT !.at = "diff", !.started = (ui.shown = "connected")]
  /\ registry' = [t \in Tools |->
       IF t \in listed[ui.draft] /\ registry[t] = None THEN ui.draft
       ELSE registry[t]]
  /\ UNCHANGED <<saved, manager, serve, starts, job, left, past>>

(* Continue after a success, or Save anyway after a failure.                *)
TestContinues ==
  /\ ui.at = "test" /\ ui.shown # "connecting"
  /\ ui' = [ui EXCEPT !.at = "diff", !.started = (ui.shown = "connected")]
  /\ UNCHANGED <<saved, manager, serve, starts, registry, job, left, past>>

(* The save is cancelled, and a server the test left running is stopped.    *)
SaveCancelled ==
  /\ ui.at = "diff" /\ Idle("ui")
  /\ ui' = [ui EXCEPT !.at = "stopping"]
  /\ IF ui.started
     THEN StopServer("ui", ui.draft, "stopping")
     ELSE UNCHANGED <<owned, listed, serve, job>>
  /\ UNCHANGED <<saved, session, starts, registry, left, past>>

(* The file could not be written.                                           *)
SaveFails ==
  /\ ui.at \in {"diff", "unmount"} /\ Idle("ui")
  /\ ui' = AtRest
  /\ UNCHANGED <<saved, manager, serve, starts, registry, job, left, past>>

(* remove_mcp_server: the tools the manager lists are unregistered and the  *)
(* server is stopped.                                                       *)
RemoveServer(n) ==
  /\ registry' = [t \in Tools |-> IF t \in listed[n] THEN None ELSE registry[t]]
  /\ StopServer("ui", n, "stopping")

(* A new name replaces the old one.  Only the text of a new server can say  *)
(* that it is disabled; an edit always enables.                             *)
DraftIsWritten ==
  \E s \in {"enabled", "disabled"} :
    /\ s = "disabled" => ui.original = None /\ saved[ui.draft] = "absent"
    /\ saved' = [n \in Names |->
         CASE n = ui.draft -> s
           [] n = ui.original /\ n # ui.draft -> "absent"
           [] OTHER -> saved[n]]

(* The edit is on disk; a server that was edited is removed first.          *)
SaveConfirmed ==
  /\ ui.at = "diff" /\ Idle("ui")
  /\ DraftIsWritten
  /\ ui' = [ui EXCEPT !.at = "saving"]
  /\ IF ui.original = None
     THEN UNCHANGED <<owned, listed, serve, job, registry>>
     ELSE RemoveServer(ui.original)
  /\ UNCHANGED <<session, starts, left, past>>

(* add_mcp_server: the tools of the tested server join the registry, except *)
(* those whose name is taken.                                               *)
Mounts ==
  /\ ui.at = "saving" /\ Idle("ui")
  /\ registry' = [t \in Tools |->
       IF ui.started /\ t \in listed[ui.draft] /\ registry[t] = None
       THEN ui.draft ELSE registry[t]]
  /\ ui' = AtRest
  /\ UNCHANGED <<saved, manager, serve, starts, job, left, past>>

-----------------------------------------------------------------------------
(* Remove and disable show the change of the configuration first.           *)
AskUnmount(n) ==
  /\ Resting /\ saved[n] # "absent"
  /\ ui' = [AtRest EXCEPT !.at = "unmount", !.draft = n]
  /\ UNCHANGED <<saved, manager, serve, starts, registry, job, left, past>>

UnmountCancelled ==
  /\ ui.at = "unmount" /\ Idle("ui")
  /\ ui' = AtRest
  /\ UNCHANGED <<saved, manager, serve, starts, registry, job, left, past>>

UnmountConfirmed ==
  /\ ui.at = "unmount" /\ Idle("ui")
  /\ \E s \in {"absent", "disabled"} :
       /\ s = "disabled" => saved[ui.draft] = "enabled"
       /\ saved' = [saved EXCEPT ![ui.draft] = s]
  /\ RemoveServer(ui.draft)
  /\ ui' = [ui EXCEPT !.at = "stopping"]
  /\ UNCHANGED <<session, starts, left, past>>

(* The app has waited for the server it stopped.                            *)
Stopped ==
  /\ ui.at = "stopping" /\ Idle("ui")
  /\ ui' = AtRest
  /\ UNCHANGED <<saved, manager, serve, starts, registry, job, left, past>>

-----------------------------------------------------------------------------
(* An end of the app that goes by the sessions it could still call.         *)
QuitBySessions ==
  /\ ui.at \in {"idle", "test", "diff", "unmount"} /\ Idle("ui")
  /\ hasty' = (hasty \/ (ui.at = "test" /\ ui.shown = "connecting"))
  /\ ui' = [AtRest EXCEPT !.at = "closing"]
  /\ left' = {n \in Names : session[n] # 0}
  /\ UNCHANGED <<saved, manager, serve, starts, registry, job, timedOut>>

(* close: every server that is owned is stopped, and then the loop.         *)
Quit ==
  /\ ui.at \in {"idle", "test", "diff", "unmount"} /\ Idle("ui")
  /\ hasty' = (hasty \/ (ui.at = "test" /\ ui.shown = "connecting"))
  /\ ui' = [AtRest EXCEPT !.at = "closing"]
  /\ left' = {n \in Names : owned[n] # 0}
  /\ UNCHANGED <<saved, manager, serve, starts, registry, job, timedOut>>

CloseNext ==
  /\ ui.at = "closing" /\ Idle("ui")
  /\ \E n \in left : StopServer("ui", n, "stopping") /\ left' = left \ {n}
  /\ UNCHANGED <<saved, session, starts, registry, ui, past>>

CloseDone ==
  /\ ui.at = "closing" /\ Idle("ui") /\ left = {}
  /\ owned' = [n \in Names |-> 0] /\ session' = [n \in Names |-> 0]
  /\ listed' = [n \in Names |-> {}]
  /\ ui' = [AtRest EXCEPT !.at = "closed"]
  /\ UNCHANGED <<saved, serve, starts, registry, job, left, past>>

-----------------------------------------------------------------------------
Returns(c) ==
  StopReturns(c) \/ Replaces(c) \/ StartSucceeds(c) \/ StartFails(c)

(* What the thread of the app does without being asked.                     *)
UiContinues ==
  BootNext \/ BootMounts \/ Mounts \/ Stopped \/ CloseNext \/ CloseDone

Loop(i) == Connects(i) \/ OpenFails(i) \/ ServerGone(i)

User ==
  \/ \E n \in Names : Add(n) \/ Enable(n) \/ AskUnmount(n)
  \/ \E n, m \in Names : Edit(n, m)
  \/ TestLeft \/ TestContinues \/ SaveCancelled \/ SaveFails \/ SaveConfirmed
  \/ UnmountCancelled \/ UnmountConfirmed \/ Quit

Next ==
  \/ UiContinues \/ User
  \/ \E c \in Callers : Returns(c)
  \/ \E i \in Connections : Loop(i)

Spec == Init /\ [][Next]_vars

(* The app's thread runs, and each of its waits has a timeout.  No server   *)
(* has to connect, to answer or to go away.                                 *)
FairSpec == Spec /\ WF_vars(UiContinues) /\ WF_vars(Returns("ui"))
-----------------------------------------------------------------------------
TypeOK ==
  /\ saved \in [Names -> {"absent", "disabled", "enabled"}]
  /\ owned \in [Names -> 0..starts] /\ session \in [Names -> 0..starts]
  /\ \A n \in Names : listed[n] \subseteq Offers[n]
  /\ \A i \in Connections :
       /\ serve[i].state \in {"unused", "opening", "parked", "ended", "failed"}
       /\ serve[i].state = "unused" <=> i > starts
  /\ registry \in [Tools -> Names \cup {None}]
  /\ \A t \in Tools : registry[t] # None => t \in Offers[registry[t]]
  /\ \A c \in Callers :
       /\ job[c].at \in {"idle", "stopping", "replacing", "starting"}
       /\ job[c].conn \in 0..starts
       /\ c # "ui" => job[c].at # "stopping"
  /\ ui.at \in {"boot", "idle", "test", "diff", "unmount", "saving",
               "stopping", "closing", "closed"}
  /\ left \subseteq Names /\ starts \in 0..MaxStarts

(* Whoever finds a session under a name (MCPTool.run looks it up for every  *)
(* call) finds one of that server whose task has not ended, whatever old    *)
(* tasks, timed-out starts and stops of the same name are still under way.  *)
SessionsAreOpen ==
  \A n \in Names : session[n] # 0 =>
    serve[session[n]].server = n /\ serve[session[n]].state = "parked"

(* As long as every test modal stays up until its test reports, a server    *)
(* that runs is one the manager can stop under its name, or one that        *)
(* connected after its start was given up at its timeout: those run on      *)
(* without a handle, and nothing else does.                                 *)
StrayIsLate ==
  (~hasty /\ ui.at # "closed") =>
    \A i \in Connections :
      (serve[i].state = "parked" /\ ~serve[i].close) =>
        owned[serve[i].server] = i \/ i \in timedOut

(* Then a server that was tested is still owned when its save mounts it,    *)
(* if it is new or has a new name: removing the server it replaces does not *)
(* take it away.                                                            *)
NewServerIsMounted ==
  (~hasty /\ ui.at = "saving" /\ ui.started /\ ui.original # ui.draft) =>
    owned[ui.draft] # 0

(* Only a start that timed out costs the manager its handle on a server.    *)
LostOnlyByTimeout == StrayIsLate /\ NewServerIsMounted

(* When the app has closed, every server that was still starting or running *)
(* has been told to close, whatever old tasks of its name have ended since; *)
(* but for those whose start was given up at its timeout.                   *)
CloseStopsServers ==
  (~hasty /\ ui.at = "closed") =>
    \A i \in Connections :
      serve[i].state \in {"opening", "parked"} =>
        serve[i].close \/ i \in timedOut

(* The tools of a server reach the model only once its configuration is     *)
(* saved, not while it is tested or its change is shown.                    *)
OnlySavedAreMounted ==
  [][\A t \in Tools : (registry'[t] # registry[t] /\ registry'[t] # None) =>
       saved[registry'[t]] # "absent"]_vars

(* A server that neither connects nor goes away never holds up the start,   *)
(* a save, a removal or the end of the app.                                 *)
UiReturns ==
  (ui.at \in {"boot", "saving", "stopping", "closing"}) ~>
    (ui.at \in {"idle", "closed"})

-----------------------------------------------------------------------------
(* README.md: "after saving, the server's tools are mounted into the        *)
(* running session without a restart".                                      *)
SavedServerIsMounted ==
  (~hasty /\ ui.at = "saving" /\ ui.started) => owned[ui.draft] # 0

===============================================================================
