-------------------------- MODULE ToolServersProofs --------------------------
(***************************************************************************)
(* Theorems about ToolServers, for every set of servers, tools and test    *)
(* threads, and for every number of connections.                           *)
(***************************************************************************)
EXTENDS ToolServers, TLAPS

(* The manager: connections are numbered as they start, and a thread that   *)
(* waits waits for one of them.                                             *)
Connection == [server : Names \cup {None}, close : BOOLEAN,
               state : {"unused", "opening", "parked", "ended", "failed"}]
Job == [at : {"idle", "stopping", "replacing", "starting"},
        server : Names \cup {None}, conn : 0..MaxStarts]

ServeInv ==
  /\ serve \in [Connections -> Connection]
  /\ \A i \in Connections :
       /\ serve[i].state = "unused" <=> i > starts
       /\ i <= starts => serve[i].server \in Names

JobInv ==
  /\ job \in [Callers -> Job]
  /\ \A c \in Callers :
       /\ job[c].conn <= starts
       /\ job[c].at # "idle" => job[c].server \in Names /\ job[c].conn > 0
       /\ c # "ui" => job[c].at # "stopping"

EntryInv ==
  /\ owned \in [Names -> 0..starts] /\ session \in [Names -> 0..starts]
  /\ listed \in [Names -> SUBSET Tools]
  /\ \A n \in Names : listed[n] \subseteq Offers[n]

ManagerInv == starts \in 0..MaxStarts /\ ServeInv /\ JobInv /\ EntryInv

(* The app: every screen of a chain has a server to talk about.             *)
Places == {"boot", "idle", "test", "diff", "unmount", "saving", "stopping",
           "closing", "closed"}
UiInv ==
  /\ ui \in [at : Places, draft : Names \cup {None},
             original : Names \cup {None}, started : BOOLEAN,
             tester : Testers \cup {None},
             shown : {"connecting", "connected", "failed"}]
  /\ ui.at \in {"test", "diff", "unmount", "saving"} => ui.draft \in Names
  /\ left \subseteq Names

RegistryInv ==
  /\ registry \in [Tools -> Names \cup {None}]
  /\ \A t \in Tools : registry[t] # None => t \in Offers[registry[t]]

SavedInv == saved \in [Names -> {"absent", "disabled", "enabled"}]

TypeInv == ManagerInv /\ UiInv /\ RegistryInv /\ SavedInv

(* The state invariant the runs check follows.                              *)
LEMMA TypeInvImpliesTypeOK == TypeInv => TypeOK
BY ServerAssumption DEF TypeInv, ManagerInv, ServeInv, JobInv, EntryInv, UiInv,
   Places, RegistryInv, SavedInv, TypeOK, Connection, Job, Connections

-----------------------------------------------------------------------------
(* What the steps inside the manager leave of its state.                    *)
LEMMA LaunchKeeps ==
  ASSUME ManagerInv, NEW c \in Callers, NEW n \in Names, Launch(c, n),
         session' = session \/ session' = [session EXCEPT ![n] = 0],
         listed' = listed
  PROVE  ManagerInv'
<1>1. starts \in 0..MaxStarts /\ starts < MaxStarts /\ MaxStarts \in Nat
      /\ starts' = starts + 1
  BY ServerAssumption DEF ManagerInv, Launch
<1>2. starts + 1 \in Connections /\ starts' \in 0..MaxStarts
  BY <1>1 DEF Connections
<1>3. ServeInv'
  BY <1>1, <1>2 DEF ManagerInv, ServeInv, Launch, Connection, Connections
<1>4. JobInv'
  BY <1>1, <1>2 DEF ManagerInv, JobInv, Launch, Job
<1>5. EntryInv'
  BY <1>1, <1>2 DEF ManagerInv, EntryInv, Launch
<1> QED
  BY <1>2, <1>3, <1>4, <1>5 DEF ManagerInv

(* stop_server keeps the dictionaries of the manager well formed.           *)
LEMMA StopServerKeeps ==
  ASSUME ManagerInv, NEW c \in Callers, NEW n \in Names,
         NEW then \in {"stopping", "replacing"}, StopServer(c, n, then),
         then = "stopping" => c = "ui",
         UNCHANGED <<session, starts>>
  PROVE  ManagerInv'
<1>1. starts \in 0..MaxStarts /\ MaxStarts \in Nat /\ owned[n] \in 0..starts
  BY ServerAssumption DEF ManagerInv, EntryInv
<1>2. EntryInv'
  BY <1>1 DEF ManagerInv, EntryInv, StopServer
<1>3. ServeInv'
  <2>1. CASE owned[n] = 0
    BY <2>1 DEF ManagerInv, ServeInv, StopServer
  <2>2. ASSUME NEW i \in 1..starts, i = owned[n] PROVE ServeInv'
    <3>1. serve' = [serve EXCEPT ![i] = [serve[i] EXCEPT !.close = TRUE]]
      BY <1>1, <2>2 DEF StopServer
    <3>2. i \in Connections
      BY <1>1 DEF Connections
    <3>3. [serve[i] EXCEPT !.close = TRUE] \in Connection
      BY <3>2 DEF ManagerInv, ServeInv, Connection
    <3>4. /\ serve' \in [Connections -> Connection]
          /\ \A k \in Connections : /\ serve'[k].state = serve[k].state
                                    /\ serve'[k].server = serve[k].server
      BY <3>1, <3>2, <3>3 DEF ManagerInv, ServeInv, Connection
    <3> QED
      BY <3>4 DEF ManagerInv, ServeInv
  <2> QED
    BY <1>1, <2>1, <2>2
<1>4. JobInv'
  BY <1>1 DEF ManagerInv, JobInv, StopServer, Job
<1> QED
  BY <1>1, <1>2, <1>3, <1>4 DEF ManagerInv

(* So does start_server.                                                    *)
LEMMA StartServerKeeps ==
  ASSUME ManagerInv, NEW c \in Callers, NEW n \in Names, StartServer(c, n)
  PROVE  ManagerInv'
BY LaunchKeeps, StopServerKeeps DEF StartServer

(* A thread that no longer waits, an entry that is dropped.                 *)
LEMMA JobDoneKeeps ==
  ASSUME JobInv, NEW c \in Callers, job' = [job EXCEPT ![c] = NoJob],
         starts' = starts, starts \in Nat
  PROVE  JobInv'
BY ServerAssumption DEF JobInv, Job, NoJob

(* So does the end of a connection.                                         *)
LEMMA ServeEndsKeeps ==
  ASSUME ManagerInv, NEW i \in Connections, NEW state \in {"ended", "failed"},
         serve[i].state # "unused", ServeEnds(i, state)
  PROVE  ManagerInv'
<1>1. i <= starts /\ starts \in Nat
  BY DEF ManagerInv, ServeInv, Connections
<1>2. ServeInv'
  BY <1>1 DEF ManagerInv, ServeInv, ServeEnds, manager, Connection
<1>3. EntryInv'
  BY <1>1 DEF ManagerInv, EntryInv, ServeInv, ServeEnds
<1> QED
  BY <1>1, <1>2, <1>3 DEF ManagerInv, JobInv, ServeEnds

-----------------------------------------------------------------------------
(* A harness that is being built.                                           *)
LEMMA InitTypes == Init => TypeInv
<1> SUFFICES ASSUME Init PROVE TypeInv
  OBVIOUS
<1>1. ManagerInv
  BY ServerAssumption DEF Init, ManagerInv, ServeInv, JobInv, EntryInv,
     Connection, Connections, Job, NoJob
<1>2. UiInv
  BY DEF Init, UiInv, AtRest, Places
<1> QED
  BY <1>1, <1>2 DEF Init, TypeInv, RegistryInv, SavedInv

(* The steps of a thread that waits inside the manager.                     *)
LEMMA ReturnsKeeps ==
  ASSUME TypeInv, NEW c \in Callers, Returns(c)
  PROVE  TypeInv'
<1>0. starts \in Nat /\ 0 \in 0..starts /\ {} \in SUBSET Tools
  BY DEF TypeInv, ManagerInv
<1>1. CASE StopReturns(c)
  <2>1. JobInv'
    BY <1>0, <1>1, JobDoneKeeps DEF StopReturns, TypeInv, ManagerInv
  <2>2. EntryInv'
    BY <1>0, <1>1 DEF StopReturns, TypeInv, ManagerInv, EntryInv
  <2> QED
    BY <1>1, <2>1, <2>2 DEF StopReturns, TypeInv, ManagerInv, ServeInv, UiInv,
       RegistryInv, SavedInv, past
<1>2. CASE Replaces(c)
  <2>1. job[c].server \in Names
    BY <1>2 DEF Replaces, TypeInv, ManagerInv, JobInv
  <2>2. ManagerInv'
    BY <1>2, <2>1, LaunchKeeps DEF Replaces, TypeInv
  <2> QED
    BY <1>2, <2>2 DEF Replaces, TypeInv, UiInv, RegistryInv, SavedInv, past
<1>3. CASE StartSucceeds(c)
  <2>1. JobInv'
    BY <1>0, <1>3, JobDoneKeeps DEF StartSucceeds, TypeInv, ManagerInv
  <2>2. UiInv'
    BY <1>3 DEF StartSucceeds, Shown, TypeInv, UiInv
  <2> QED
    BY <1>3, <2>1, <2>2 DEF StartSucceeds, TypeInv, ManagerInv, ServeInv,
       EntryInv, RegistryInv, SavedInv, manager, past
<1>4. CASE StartFails(c)
  <2>1. JobInv'
    BY <1>0, <1>4, JobDoneKeeps DEF StartFails, TypeInv, ManagerInv
  <2>2. UiInv'
    BY <1>4 DEF StartFails, Shown, TypeInv, UiInv
  <2>3. EntryInv'
    BY <1>0, <1>4 DEF StartFails, TypeInv, ManagerInv, EntryInv
  <2> QED
    BY <1>4, <2>1, <2>2, <2>3 DEF StartFails, TypeInv, ManagerInv, ServeInv,
       RegistryInv, SavedInv
<1> QED
  BY <1>1, <1>2, <1>3, <1>4 DEF Returns

(* The steps of the event loop.                                             *)
LEMMA LoopKeeps ==
  ASSUME TypeInv, NEW i \in Connections, Loop(i)
  PROVE  TypeInv'
<1>1. CASE Connects(i)
  <2>1. i \in 1..starts /\ serve[i].server \in Names
    BY <1>1 DEF Connects, TypeInv, ManagerInv, ServeInv, Connections
  <2>2. serve' = [serve EXCEPT ![i] = [serve[i] EXCEPT !.state = "parked"]]
    BY <1>1 DEF Connects
  <2>3. ServeInv'
    BY <1>1, <2>1, <2>2 DEF Connects, TypeInv, ManagerInv, ServeInv, Connection
  <2>4. PICK ts \in SUBSET Offers[serve[i].server] :
          listed' = [listed EXCEPT ![serve[i].server] = ts]
    BY <1>1 DEF Connects
  <2>5. Offers[serve[i].server] \subseteq Tools
    BY <2>1, ServerAssumption
  <2>6. EntryInv'
    BY <1>1, <2>1, <2>4, <2>5 DEF Connects, TypeInv, ManagerInv, EntryInv
  <2> QED
    BY <1>1, <2>3, <2>6 DEF Connects, TypeInv, ManagerInv, JobInv, UiInv,
       RegistryInv, SavedInv, past
<1>2. ASSUME NEW state \in {"ended", "failed"}, serve[i].state # "unused",
             ServeEnds(i, state)
      PROVE  TypeInv'
  BY <1>2, ServeEndsKeeps DEF ServeEnds, TypeInv, UiInv, RegistryInv,
     SavedInv, past
<1>3. CASE OpenFails(i)
  BY <1>2, <1>3 DEF OpenFails
<1>4. CASE ServerGone(i)
  BY <1>2, <1>4 DEF ServerGone
<1> QED
  BY <1>1, <1>3, <1>4 DEF Loop

(* A chain that goes on or ends, and touches nothing else.                  *)
LEMMA UiAloneKeeps ==
  ASSUME TypeInv, UiInv',
         UNCHANGED <<saved, manager, serve, starts, registry, job>>
  PROVE  TypeInv'
BY DEF TypeInv, ManagerInv, ServeInv, JobInv, EntryInv, RegistryInv, SavedInv,
   manager

(* remove_mcp_server keeps them and the registry well formed.               *)
LEMMA RemoveServerKeeps ==
  ASSUME TypeInv, NEW n \in Names, RemoveServer(n), UNCHANGED <<session, starts>>
  PROVE  ManagerInv' /\ RegistryInv'
<1>1. ManagerInv'
  BY StopServerKeeps DEF RemoveServer, TypeInv, Callers
<1> QED
  BY <1>1 DEF RemoveServer, TypeInv, RegistryInv

(* What the app does without being asked.                                   *)
LEMMA UiContinuesKeeps ==
  ASSUME TypeInv, UiContinues
  PROVE  TypeInv'
<1>0. "ui" \in Callers
  BY DEF Callers
<1>1. CASE BootNext
  <2>1. PICK n \in left : StartServer("ui", n) /\ left' = left \ {n}
    BY <1>1 DEF BootNext
  <2>2. ManagerInv'
    BY <1>0, <2>1, StartServerKeeps DEF TypeInv, UiInv
  <2> QED
    BY <1>1, <2>1, <2>2 DEF BootNext, TypeInv, UiInv, RegistryInv, SavedInv,
       past
<1>2. CASE BootMounts
  <2>1. RegistryInv'
    <3>1. \A n \in Names : listed[n] \subseteq Offers[n]
      BY DEF TypeInv, ManagerInv, EntryInv
    <3> QED
      BY <1>2, <3>1 DEF BootMounts, RegistryInv
  <2>2. UiInv'
    BY <1>2 DEF BootMounts, AtRest, TypeInv, UiInv, Places
  <2> QED
    BY <1>2, <2>1, <2>2 DEF BootMounts, TypeInv, ManagerInv, ServeInv, JobInv,
       EntryInv, SavedInv, manager, past
<1>3. CASE Mounts
  <2>1. ui.draft \in Names /\ listed[ui.draft] \subseteq Offers[ui.draft]
    BY <1>3 DEF Mounts, TypeInv, UiInv, ManagerInv, EntryInv
  <2>2. RegistryInv'
    BY <1>3, <2>1 DEF Mounts, TypeInv, RegistryInv
  <2>3. UiInv'
    BY <1>3 DEF Mounts, AtRest, TypeInv, UiInv, Places
  <2> QED
    BY <1>3, <2>2, <2>3 DEF Mounts, TypeInv, ManagerInv, ServeInv, JobInv,
       EntryInv, SavedInv, manager, past
<1>4. CASE Stopped
  <2>1. UiInv'
    BY <1>4 DEF Stopped, AtRest, TypeInv, UiInv, Places
  <2> QED
    BY <1>4, <2>1, UiAloneKeeps DEF Stopped, past
<1>5. CASE CloseNext
  <2>1. PICK n \in left : StopServer("ui", n, "stopping") /\ left' = left \ {n}
    BY <1>5 DEF CloseNext
  <2>2. ManagerInv'
    BY <1>0, <1>5, <2>1, StopServerKeeps DEF CloseNext, TypeInv, UiInv
  <2> QED
    BY <1>5, <2>1, <2>2 DEF CloseNext, TypeInv, UiInv, RegistryInv, SavedInv
<1>6. CASE CloseDone
  <2>1. EntryInv'
    BY <1>6 DEF CloseDone, TypeInv, ManagerInv, EntryInv
  <2>2. UiInv'
    BY <1>6 DEF CloseDone, AtRest, TypeInv, UiInv, Places
  <2> QED
    BY <1>6, <2>1, <2>2 DEF CloseDone, TypeInv, ManagerInv, ServeInv, JobInv,
       RegistryInv, SavedInv
<1> QED
  BY <1>1, <1>2, <1>3, <1>4, <1>5, <1>6 DEF UiContinues

(* What the user decides.                                                   *)
LEMMA OpenTestKeeps ==
  ASSUME TypeInv, NEW draft \in Names, NEW original \in Names \cup {None},
         OpenTest(draft, original)
  PROVE  TypeInv'
<1>1. PICK c \in Testers :
        /\ StartServer(c, draft)
        /\ ui' = [AtRest EXCEPT !.at = "test", !.draft = draft,
                                !.original = original, !.tester = c]
  BY DEF OpenTest
<1>2. ManagerInv'
  BY <1>1, StartServerKeeps DEF TypeInv, Callers
<1>3. UiInv'
  BY <1>1 DEF OpenTest, AtRest, TypeInv, UiInv, Places
<1> QED
  BY <1>2, <1>3 DEF OpenTest, TypeInv, RegistryInv, SavedInv, past

(* What the user does keeps the types.                                      *)
LEMMA UserKeeps ==
  ASSUME TypeInv, User
  PROVE  TypeInv'
<1>0. "ui" \in Callers
  BY DEF Callers
<1>1. ASSUME NEW n \in Names, Add(n) \/ Enable(n) PROVE TypeInv'
  BY <1>1, OpenTestKeeps DEF Add, Enable
<1>2. ASSUME NEW n \in Names, NEW m \in Names, Edit(n, m) PROVE TypeInv'
  BY <1>2, OpenTestKeeps DEF Edit
<1>3. ASSUME NEW n \in Names, AskUnmount(n) PROVE TypeInv'
  <2>1. UiInv'
    BY <1>3 DEF AskUnmount, AtRest, TypeInv, UiInv, Places
  <2> QED
    BY <1>3, <2>1, UiAloneKeeps DEF AskUnmount
<1>4. CASE TestLeft
  <2>1. UiInv'
    BY <1>4 DEF TestLeft, AtRest, TypeInv, UiInv, Places
  <2> QED
    BY <1>4, <2>1, UiAloneKeeps DEF TestLeft
<1>5. CASE TestContinues
  <2>1. UiInv'
    BY <1>5 DEF TestContinues, TypeInv, UiInv, Places
  <2> QED
    BY <1>5, <2>1, UiAloneKeeps DEF TestContinues
<1>6. CASE SaveCancelled
  <2>1. ui.draft \in Names
    BY <1>6 DEF SaveCancelled, TypeInv, UiInv
  <2>2. ManagerInv'
    <3>1. CASE ui.started
      BY <1>0, <1>6, <2>1, <3>1, StopServerKeeps DEF SaveCancelled, TypeInv
    <3>2. CASE ~ui.started
      BY <1>6, <3>2 DEF SaveCancelled, TypeInv, ManagerInv, ServeInv, JobInv,
         EntryInv
    <3> QED
      BY <3>1, <3>2
  <2>3. UiInv'
    BY <1>6 DEF SaveCancelled, TypeInv, UiInv, Places
  <2> QED
    BY <1>6, <2>2, <2>3 DEF SaveCancelled, TypeInv, RegistryInv, SavedInv
<1>7. CASE SaveFails
  <2>1. UiInv'
    BY <1>7 DEF SaveFails, AtRest, TypeInv, UiInv, Places
  <2> QED
    BY <1>7, <2>1, UiAloneKeeps DEF SaveFails
<1>8. CASE SaveConfirmed
  <2>1. ui.draft \in Names /\ ui.original \in Names \cup {None}
    BY <1>8 DEF SaveConfirmed, TypeInv, UiInv
  <2>2. SavedInv'
    BY <1>8, <2>1 DEF SaveConfirmed, DraftIsWritten, TypeInv, SavedInv
  <2>3. UiInv'
    BY <1>8 DEF SaveConfirmed, TypeInv, UiInv, Places
  <2>4. ManagerInv' /\ RegistryInv'
    <3>1. CASE ui.original = None
      BY <1>8, <3>1 DEF SaveConfirmed, TypeInv, ManagerInv, ServeInv, JobInv,
         EntryInv, RegistryInv
    <3>2. CASE ui.original # None
      BY <1>8, <2>1, <3>2, RemoveServerKeeps DEF SaveConfirmed
    <3> QED
      BY <3>1, <3>2
  <2> QED
    BY <2>2, <2>3, <2>4 DEF TypeInv
<1>9. CASE UnmountCancelled
  <2>1. UiInv'
    BY <1>9 DEF UnmountCancelled, AtRest, TypeInv, UiInv, Places
  <2> QED
    BY <1>9, <2>1, UiAloneKeeps DEF UnmountCancelled
<1>10. CASE UnmountConfirmed
  <2>1. ui.draft \in Names
    BY <1>10 DEF UnmountConfirmed, TypeInv, UiInv
  <2>2. SavedInv'
    BY <1>10, <2>1 DEF UnmountConfirmed, TypeInv, SavedInv
  <2>3. UiInv'
    BY <1>10 DEF UnmountConfirmed, TypeInv, UiInv, Places
  <2>4. ManagerInv' /\ RegistryInv'
    BY <1>10, <2>1, RemoveServerKeeps DEF UnmountConfirmed
  <2> QED
    BY <2>2, <2>3, <2>4 DEF TypeInv
<1>11. CASE Quit
  <2>1. UiInv'
    BY <1>11 DEF Quit, AtRest, TypeInv, UiInv, Places
  <2> QED
    BY <1>11, <2>1, UiAloneKeeps DEF Quit
<1> QED
  BY <1>1, <1>2, <1>3, <1>4, <1>5, <1>6, <1>7, <1>8, <1>9, <1>10, <1>11
     DEF User

(* Every step keeps the types.                                              *)
LEMMA TypesKept == TypeInv /\ [Next]_vars => TypeInv'
<1> SUFFICES ASSUME TypeInv, [Next]_vars PROVE TypeInv'
  OBVIOUS
<1>1. CASE UiContinues
  BY <1>1, UiContinuesKeeps
<1>2. CASE User
  BY <1>2, UserKeeps
<1>3. ASSUME NEW c \in Callers, Returns(c) PROVE TypeInv'
  BY <1>3, ReturnsKeeps
<1>4. ASSUME NEW i \in Connections, Loop(i) PROVE TypeInv'
  BY <1>4, LoopKeeps
<1>5. CASE UNCHANGED vars
  BY <1>5 DEF vars, TypeInv, ManagerInv, ServeInv, JobInv, EntryInv, UiInv,
     RegistryInv, SavedInv
<1> QED
  BY <1>1, <1>2, <1>3, <1>4, <1>5 DEF Next

(* The dictionaries of the manager, the registry and the chain stay well    *)
(* formed: connections are numbered as they start, an entry refers to one   *)
(* that has started, a tool is owned by a server that offers it.            *)
THEOREM ServersTypeCorrect == Spec => []TypeOK
<1>1. Spec => []TypeInv
  BY InitTypes, TypesKept, PTL DEF Spec
<1> QED
  BY <1>1, TypeInvImpliesTypeOK, PTL

-----------------------------------------------------------------------------
(* Sessions stay open as long as entries only go and tasks stay as they are.*)
LEMMA SessionsKept ==
  ASSUME TypeInv, SessionsAreOpen,
         \A n \in Names : session'[n] \in {0, session[n]},
         \A k \in 1..starts : /\ serve'[k].state = serve[k].state
                              /\ serve'[k].server = serve[k].server
  PROVE  SessionsAreOpen'
<1>1. \A n \in Names : session[n] \in 0..starts
  BY DEF TypeInv, ManagerInv, EntryInv
<1> QED
  BY <1>1 DEF SessionsAreOpen

(* A launch leaves the earlier tasks alone.                                 *)
LEMMA LaunchTasks ==
  ASSUME TypeInv, NEW c, NEW n, Launch(c, n)
  PROVE  \A k \in 1..starts : /\ serve'[k].state = serve[k].state
                              /\ serve'[k].server = serve[k].server
<1>1. starts \in Nat /\ 1..starts \subseteq Connections
      /\ serve \in [Connections -> Connection]
  BY ServerAssumption DEF TypeInv, ManagerInv, ServeInv, Connections
<1> QED
  BY <1>1 DEF Launch

(* A stop asks a task to end, and does not end it.                          *)
LEMMA StopServerTasks ==
  ASSUME TypeInv, NEW c, NEW n, NEW then, StopServer(c, n, then)
  PROVE  \A k \in 1..starts : /\ serve'[k].state = serve[k].state
                              /\ serve'[k].server = serve[k].server
<1>1. 1..starts \subseteq Connections /\ serve \in [Connections -> Connection]
  BY ServerAssumption DEF TypeInv, ManagerInv, ServeInv, Connections
<1>2. CASE owned[n] = 0
  BY <1>2 DEF StopServer
<1>3. ASSUME NEW i, i = owned[n], i # 0
      PROVE  \A k \in 1..starts : /\ serve'[k].state = serve[k].state
                                  /\ serve'[k].server = serve[k].server
  <2>1. serve' = [serve EXCEPT ![i] = [serve[i] EXCEPT !.close = TRUE]]
    BY <1>3 DEF StopServer
  <2> QED
    BY <1>1, <2>1 DEF Connection
<1> QED
  BY <1>2, <1>3

(* After every step the sessions are open ones of their servers.            *)
LEMMA SessionsAfterStep ==
  ASSUME TypeInv, SessionsAreOpen, [Next]_vars
  PROVE  SessionsAreOpen'
<1> DEFINE Tasks == \A k \in 1..starts : /\ serve'[k].state = serve[k].state
                                         /\ serve'[k].server = serve[k].server
<1>0. session \in [Names -> 0..starts] /\ starts \in Nat
      /\ serve \in [Connections -> Connection]
  BY DEF TypeInv, ManagerInv, EntryInv, ServeInv
<1>1. ASSUME session' = session, Tasks PROVE SessionsAreOpen'
  BY <1>1, SessionsKept
<1>2. ASSUME session' = session, serve' = serve PROVE SessionsAreOpen'
  BY <1>2 DEF SessionsAreOpen
<1>3. ASSUME NEW c, NEW n, StartServer(c, n) PROVE SessionsAreOpen'
  BY <1>1, <1>3, LaunchTasks, StopServerTasks DEF StartServer
<1>4. ASSUME NEW c, NEW n, NEW then, StopServer(c, n, then),
             session' = session
      PROVE  SessionsAreOpen'
  BY <1>1, <1>4, StopServerTasks
<1>5. ASSUME NEW c \in Callers, Returns(c) PROVE SessionsAreOpen'
  <2>1. CASE StopReturns(c)
    BY <1>0, <2>1, SessionsKept DEF StopReturns
  <2>2. CASE Replaces(c)
    BY <1>0, <2>2, LaunchTasks, SessionsKept DEF Replaces
  <2>3. CASE StartSucceeds(c)
    BY <1>2, <2>3 DEF StartSucceeds, manager
  <2>4. CASE StartFails(c)
    BY <1>2, <2>4 DEF StartFails
  <2> QED
    BY <1>5, <2>1, <2>2, <2>3, <2>4 DEF Returns
<1>6. ASSUME NEW i \in Connections, Loop(i) PROVE SessionsAreOpen'
  <2>1. CASE Connects(i)
    <3>1. serve' = [serve EXCEPT ![i] = [serve[i] EXCEPT !.state = "parked"]]
          /\ serve[i].state = "opening"
          /\ session' = [session EXCEPT ![serve[i].server] = i]
      BY <2>1 DEF Connects
    <3>2. serve'[i].state = "parked" /\ serve'[i].server = serve[i].server
          /\ \A k \in Connections \ {i} : serve'[k] = serve[k]
      BY <1>0, <3>1 DEF Connection
    <3>3. 1..starts \subseteq Connections
      BY ServerAssumption DEF TypeInv, ManagerInv, Connections
    <3> QED
      BY <1>0, <3>1, <3>2, <3>3 DEF SessionsAreOpen
  <2>2. ASSUME NEW state, ServeEnds(i, state) PROVE SessionsAreOpen'
    <3>1. \A k \in Connections \ {i} : serve'[k] = serve[k]
      BY <1>0, <2>2 DEF ServeEnds
    <3>2. 1..starts \subseteq Connections
      BY ServerAssumption DEF TypeInv, ManagerInv, Connections
    <3>3. session' = [session EXCEPT ![serve[i].server] = 0]
      BY <2>2 DEF ServeEnds
    <3> QED
      BY <1>0, <3>1, <3>2, <3>3 DEF SessionsAreOpen
  <2> QED
    BY <1>6, <2>1, <2>2 DEF Loop, OpenFails, ServerGone
<1>7. CASE UiContinues
  <2>1. CASE BootNext
    BY <1>3, <2>1 DEF BootNext
  <2>2. CASE CloseNext
    BY <1>4, <2>2 DEF CloseNext
  <2>3. CASE CloseDone
    BY <2>3 DEF CloseDone, SessionsAreOpen
  <2>4. CASE BootMounts \/ Mounts \/ Stopped
    BY <1>2, <2>4 DEF BootMounts, Mounts, Stopped, manager
  <2> QED
    BY <1>7, <2>1, <2>2, <2>3, <2>4 DEF UiContinues
<1>8. CASE User
  <2>1. ASSUME NEW n, NEW m, OpenTest(n, m) PROVE SessionsAreOpen'
    BY <1>3, <2>1 DEF OpenTest
  <2>2. CASE SaveCancelled
    BY <1>2, <1>4, <2>2 DEF SaveCancelled
  <2>3. CASE SaveConfirmed
    BY <1>2, <1>4, <2>3 DEF SaveConfirmed, RemoveServer
  <2>4. CASE UnmountConfirmed
    BY <1>4, <2>4 DEF UnmountConfirmed, RemoveServer
  <2>5. CASE TestLeft \/ TestContinues \/ SaveFails \/ UnmountCancelled \/ Quit
    BY <1>2, <2>5 DEF TestLeft, TestContinues, SaveFails, UnmountCancelled,
       Quit, manager
  <2>6. ASSUME NEW n, AskUnmount(n) PROVE SessionsAreOpen'
    BY <1>2, <2>6 DEF AskUnmount, manager
  <2> QED
    BY <1>8, <2>1, <2>2, <2>3, <2>4, <2>5, <2>6 DEF User, Add, Enable, Edit
<1>9. CASE UNCHANGED vars
  BY <1>2, <1>9 DEF vars, manager
<1> QED
  BY <1>5, <1>6, <1>7, <1>8, <1>9 DEF Next

(* Whatever old tasks, timed-out starts and stops of a name are under way,  *)
(* a session that is found under it belongs to that server and to a task    *)
(* that has not ended.                                                      *)
THEOREM SessionsOpen == Spec => []SessionsAreOpen
<1>1. Init => SessionsAreOpen
  BY DEF Init, SessionsAreOpen
<1>2. TypeInv /\ SessionsAreOpen /\ [Next]_vars => SessionsAreOpen'
  BY SessionsAfterStep
<1> QED
  BY <1>1, <1>2, InitTypes, TypesKept, PTL DEF Spec

-----------------------------------------------------------------------------
(* What may be mounted comes from the configuration: at the start because   *)
(* only its servers are started, after a save because it was just written.  *)
InConfig(n) == saved[n] # "absent"

BootInv ==
  ui.at = "boot" =>
    /\ \A t \in Tools : registry[t] = None
    /\ \A n \in left : InConfig(n)
    /\ \A i \in 1..starts : InConfig(serve[i].server)
    /\ \A n \in Names : listed[n] # {} => InConfig(n)
    /\ \A c \in Callers : job[c].at # "idle" => InConfig(job[c].server)

MountInv == BootInv /\ (ui.at = "saving" => InConfig(ui.draft))

(* At the start the harness is built, and nothing has been started yet.     *)
LEMMA MountInvInit == Init => MountInv
<1> SUFFICES ASSUME Init PROVE MountInv
  OBVIOUS
<1>1. ui.at = "boot" /\ starts = 0
  BY DEF Init, AtRest
<1> QED
  BY <1>1 DEF Init, MountInv, BootInv, InConfig, NoJob

(* A step that leaves the app elsewhere than at the start and at a save.    *)
LEMMA MountInvElsewhere ==
  ASSUME ui'.at \notin {"boot", "saving"}
  PROVE  MountInv'
BY DEF MountInv, BootInv

(* Steps of the manager while the harness is being built.                   *)
LEMMA BootStarts ==
  ASSUME TypeInv, MountInv, NEW c \in Callers, NEW n \in Names, InConfig(n),
         Launch(c, n), UNCHANGED <<saved, registry, ui, listed>>,
         left' \subseteq left
  PROVE  MountInv'
<1>1. starts \in Nat /\ starts + 1 \in Connections /\ starts' = starts + 1
      /\ serve \in [Connections -> Connection] /\ job \in [Callers -> Job]
  BY ServerAssumption DEF TypeInv, ManagerInv, ServeInv, JobInv, Connections,
     Launch
<1>2. \A i \in 1..starts' : i # starts + 1 => i \in 1..starts
  BY <1>1
<1>3. serve'[starts + 1].server = n
  BY <1>1 DEF Launch
<1>4. \A i \in 1..starts : serve'[i].server = serve[i].server
  BY LaunchTasks
<1>5. \A d \in Callers : d # c => job'[d] = job[d]
  BY <1>1 DEF Launch
<1>6. job'[c].server = n
  BY <1>1 DEF Launch
<1> QED
  BY <1>2, <1>3, <1>4, <1>5, <1>6 DEF MountInv, BootInv, InConfig

(* A stop while servers of the configuration are started keeps the          *)
(* invariant.                                                               *)
LEMMA BootStops ==
  ASSUME TypeInv, MountInv, NEW c \in Callers, NEW n \in Names, InConfig(n),
         NEW then, StopServer(c, n, then),
         UNCHANGED <<saved, registry, ui, starts>>, left' \subseteq left
  PROVE  MountInv'
<1>1. \A i \in 1..starts : serve'[i].server = serve[i].server
  BY StopServerTasks
<1>2. \A m \in Names : listed'[m] \in {{}, listed[m]}
  BY DEF StopServer, TypeInv, ManagerInv, EntryInv
<1>3. \A d \in Callers : job'[d] = job[d] \/ job'[d].server = n
  BY DEF StopServer, TypeInv, ManagerInv, JobInv
<1> QED
  BY <1>1, <1>2, <1>3 DEF MountInv, BootInv, InConfig

(* A thread that no longer waits.                                           *)
LEMMA BootJobDone ==
  ASSUME TypeInv, MountInv, NEW c \in Callers, job' = [job EXCEPT ![c] = NoJob],
         UNCHANGED <<saved, registry, serve, starts, left>>,
         \A m \in Names : listed'[m] \in {{}, listed[m]},
         ui'.at = ui.at, ui'.draft = ui.draft
  PROVE  MountInv'
<1>1. \A d \in Callers : job'[d] = job[d] \/ job'[d].at = "idle"
  BY DEF TypeInv, ManagerInv, JobInv, NoJob
<1> QED
  BY <1>1 DEF MountInv, BootInv, InConfig

(* So does a wait that ends.                                                *)
LEMMA MountInvReturns ==
  ASSUME TypeInv, MountInv, NEW c \in Callers, Returns(c)
  PROVE  MountInv'
<1>0. listed \in [Names -> SUBSET Tools]
  BY DEF TypeInv, ManagerInv, EntryInv
<1>1. CASE StopReturns(c)
  BY <1>1, BootJobDone DEF StopReturns
<1>2. CASE Replaces(c)
  <2>1. job[c].server \in Names
    BY <1>2 DEF Replaces, TypeInv, ManagerInv, JobInv
  <2>2. CASE ui.at = "boot"
    <3>1. InConfig(job[c].server)
      BY <1>2, <2>2 DEF Replaces, MountInv, BootInv
    <3> QED
      BY <1>2, <2>1, <3>1, BootStarts DEF Replaces
  <2>3. CASE ui.at # "boot"
    BY <1>2, <2>3 DEF Replaces, MountInv, BootInv, InConfig
  <2> QED
    BY <2>2, <2>3
<1>3. ASSUME NEW result, Shown(c, result)
      PROVE  ui'.at = ui.at /\ ui'.draft = ui.draft
  BY <1>3 DEF Shown, TypeInv, UiInv
<1>4. CASE StartSucceeds(c)
  BY <1>3, <1>4, BootJobDone DEF StartSucceeds, manager
<1>5. CASE StartFails(c)
  <2>1. \A m \in Names : listed'[m] \in {{}, listed[m]}
    BY <1>0, <1>5 DEF StartFails
  <2> QED
    BY <1>3, <1>5, <2>1, BootJobDone DEF StartFails
<1> QED
  BY <1>1, <1>2, <1>4, <1>5 DEF Returns

(* So does a step of the event loop.                                        *)
LEMMA MountInvLoop ==
  ASSUME TypeInv, MountInv, NEW i \in Connections, Loop(i)
  PROVE  MountInv'
<1>0. serve \in [Connections -> Connection] /\ listed \in [Names -> SUBSET Tools]
      /\ 1..starts \subseteq Connections
  BY ServerAssumption
     DEF TypeInv, ManagerInv, ServeInv, EntryInv, Connections
<1>1. CASE Connects(i)
  <2>1. serve' = [serve EXCEPT ![i] = [serve[i] EXCEPT !.state = "parked"]]
    BY <1>1 DEF Connects
  <2>2. \A k \in 1..starts : serve'[k].server = serve[k].server
    BY <1>0, <2>1 DEF Connection
  <2>3. i \in 1..starts
    BY <1>1 DEF Connects, TypeInv, ManagerInv, ServeInv, Connections
  <2>4. \A m \in Names : m # serve[i].server => listed'[m] = listed[m]
    BY <1>0, <1>1 DEF Connects
  <2> QED
    BY <1>1, <2>2, <2>3, <2>4 DEF Connects, MountInv, BootInv, InConfig
<1>2. ASSUME NEW state, ServeEnds(i, state) PROVE MountInv'
  <2>1. \A k \in 1..starts : serve'[k].server = serve[k].server
    <3>1. serve' = [serve EXCEPT ![i] =
                     [[serve[i] EXCEPT !.state = state] EXCEPT !.close = TRUE]]
      BY <1>0, <1>2 DEF ServeEnds, Connection
    <3> QED
      BY <1>0, <3>1 DEF Connection
  <2> QED
    BY <1>2, <2>1 DEF ServeEnds, MountInv, BootInv, InConfig
<1> QED
  BY <1>1, <1>2 DEF Loop, OpenFails, ServerGone

(* So does a step of the app.                                               *)
LEMMA MountInvApp ==
  ASSUME TypeInv, MountInv, UiContinues \/ User
  PROVE  MountInv'
<1>0. "ui" \in Callers
  BY DEF Callers
<1>1. CASE BootNext
  <2>1. PICK n \in left : StartServer("ui", n) /\ left' = left \ {n}
    BY <1>1 DEF BootNext
  <2>2. n \in Names /\ InConfig(n)
    BY <1>1, <2>1 DEF BootNext, TypeInv, UiInv, MountInv, BootInv
  <2> QED
    BY <1>0, <1>1, <2>1, <2>2, BootStarts, BootStops DEF BootNext, StartServer
<1>2. CASE CloseNext
  BY <1>2 DEF CloseNext, MountInv, BootInv
<1>3. CASE BootMounts \/ Mounts \/ Stopped \/ CloseDone
  BY <1>3, MountInvElsewhere DEF BootMounts, Mounts, Stopped, CloseDone, AtRest
<1>4. CASE SaveConfirmed
  <2>1. ui.draft \in Names /\ ui'.at = "saving" /\ ui'.draft = ui.draft
    BY <1>4 DEF SaveConfirmed, TypeInv, UiInv
  <2>2. saved'[ui.draft] # "absent"
    BY <1>4, <2>1 DEF SaveConfirmed, DraftIsWritten
  <2> QED
    BY <2>1, <2>2 DEF MountInv, BootInv, InConfig
<1>5. ASSUME NEW n, NEW m, OpenTest(n, m) PROVE MountInv'
  BY <1>5, MountInvElsewhere DEF OpenTest, AtRest
<1>6. CASE TestContinues \/ SaveCancelled \/ UnmountConfirmed
  <2>1. ui'.at \in {"diff", "stopping"}
    BY <1>6 DEF TestContinues, SaveCancelled, UnmountConfirmed, TypeInv, UiInv
  <2> QED
    BY <2>1, MountInvElsewhere
<1>7. CASE TestLeft \/ SaveFails \/ UnmountCancelled \/ Quit
  BY <1>7, MountInvElsewhere DEF TestLeft, SaveFails, UnmountCancelled, Quit,
     AtRest
<1>8. ASSUME NEW n, AskUnmount(n) PROVE MountInv'
  BY <1>8, MountInvElsewhere DEF AskUnmount, AtRest
<1> QED
  BY <1>1, <1>2, <1>3, <1>4, <1>5, <1>6, <1>7, <1>8
     DEF UiContinues, User, Add, Enable, Edit

(* So does every step.                                                      *)
LEMMA MountInvKept ==
  ASSUME TypeInv, MountInv, [Next]_vars
  PROVE  MountInv'
<1>1. CASE UNCHANGED vars
  BY <1>1 DEF vars, manager, MountInv, BootInv, InConfig
<1> QED
  BY <1>1, MountInvApp, MountInvReturns, MountInvLoop DEF Next

(* What may be mounted is in the configuration in every state.              *)
LEMMA MountInvAlways == Spec => [](TypeInv /\ MountInv)
<1>1. Init => TypeInv /\ MountInv
  BY InitTypes, MountInvInit
<1>2. TypeInv /\ MountInv /\ [Next]_vars => (TypeInv /\ MountInv)'
  BY TypesKept, MountInvKept
<1> QED
  BY <1>1, <1>2, PTL DEF Spec

(* Only three steps touch the registry.                                     *)
LEMMA RegistrySteps ==
  ASSUME [Next]_vars
  PROVE  \/ registry' = registry
         \/ BootMounts \/ Mounts
         \/ \E n : RemoveServer(n)
<1>1. ASSUME NEW c, Returns(c) PROVE registry' = registry
  BY <1>1 DEF Returns, StopReturns, Replaces, StartSucceeds, StartFails
<1>2. ASSUME NEW i, Loop(i) PROVE registry' = registry
  BY <1>2 DEF Loop, Connects, OpenFails, ServerGone, ServeEnds
<1>3. CASE UiContinues
  BY <1>3 DEF UiContinues, BootNext, Stopped, CloseNext, CloseDone
<1>4. ASSUME NEW n, NEW m, OpenTest(n, m) PROVE registry' = registry
  BY <1>4 DEF OpenTest
<1>5. CASE SaveConfirmed \/ UnmountConfirmed
  BY <1>5 DEF SaveConfirmed, UnmountConfirmed
<1>6. CASE TestLeft \/ TestContinues \/ SaveCancelled \/ SaveFails
           \/ UnmountCancelled \/ Quit \/ \E n \in Names : AskUnmount(n)
  BY <1>6 DEF TestLeft, TestContinues, SaveCancelled, SaveFails,
     UnmountCancelled, Quit, AskUnmount
<1>7. CASE User
  BY <1>4, <1>5, <1>6, <1>7 DEF User, Add, Enable, Edit
<1>8. CASE UNCHANGED vars
  BY <1>8 DEF vars
<1> QED
  BY <1>1, <1>2, <1>3, <1>7, <1>8 DEF Next

(* No server's tools reach the model before its configuration is saved: not *)
(* while it is tested, not while its change is shown, not by a late thread. *)
THEOREM SavedIsMounted == Spec => OnlySavedAreMounted
<1> DEFINE Ok == \A t \in Tools :
                   (registry'[t] # registry[t] /\ registry'[t] # None) =>
                     saved[registry'[t]] # "absent"
<1>1. ASSUME TypeInv, MountInv, [Next]_vars PROVE Ok
  <2>1. CASE BootMounts
    BY <1>1, <2>1 DEF BootMounts, MountInv, BootInv, InConfig
  <2>2. CASE Mounts
    BY <1>1, <2>2 DEF Mounts, MountInv, InConfig, TypeInv, RegistryInv
  <2>3. ASSUME NEW n, RemoveServer(n) PROVE Ok
    BY <1>1, <2>3 DEF RemoveServer, TypeInv, RegistryInv
  <2> QED
    BY <1>1, <2>1, <2>2, <2>3, RegistrySteps
<1>2. TypeInv /\ MountInv /\ [Next]_vars => [Ok]_vars
  BY <1>1
<1> QED
  BY <1>2, MountInvAlways, PTL DEF Spec, OnlySavedAreMounted

-----------------------------------------------------------------------------
(* A server that runs can be reached because there is never more than one   *)
(* start under way: the app starts its servers one after the other, and a   *)
(* test modal that stays up until its test reports keeps the next one, and  *)
(* the end of the app, away.                                                *)
Starts(c) == job[c].at \in {"starting", "replacing"}

OneStart == \A c, d \in Callers : Starts(c) /\ Starts(d) => c = d

(* Who starts a server, and what is owned under its name meanwhile.         *)
StarterInv ==
  \A c \in Callers : Starts(c) =>
    /\ \/ ui.at = "boot" /\ c = "ui"
       \/ /\ ui.at = "test" /\ ui.tester = c /\ ui.shown = "connecting"
          /\ job[c].server = ui.draft
    /\ job[c].at = "replacing" => owned[job[c].server] = 0
    /\ job[c].at = "starting" => owned[job[c].server] = job[c].conn

(* A task nobody gave up and nobody told to close is owned.                 *)
Live(i) == /\ serve[i].state \in {"opening", "parked"} /\ ~serve[i].close
           /\ i \notin timedOut

LiveInv == \A i \in 1..starts : Live(i) => owned[serve[i].server] = i

(* A server whose test succeeded is owned until its save mounts it, unless  *)
(* the save removes a server of the same name.                              *)
TestedInv ==
  (\/ ui.at = "test" /\ ui.shown = "connected"
   \/ ui.at = "diff" /\ ui.started
   \/ ui.at = "saving" /\ ui.started /\ ui.original # ui.draft)
     => owned[ui.draft] # 0

Patient == ~hasty /\ ui.at # "closed"

(* The app that closes goes through everything that is owned, and then      *)
(* nothing lives that was not told to close.                                *)
ClosingInv == ui.at = "closing" => \A n \in Names : owned[n] # 0 => n \in left

ReachInv ==
  Patient => OneStart /\ StarterInv /\ LiveInv /\ TestedInv /\ ClosingInv

ClosedInv == ~hasty /\ ui.at = "closed" => \A i \in 1..starts : ~Live(i)

(* The numbers of the connections, and what they are under.                 *)
LEMMA ReachTypes ==
  ASSUME TypeInv
  PROVE  /\ starts \in Nat /\ 1..starts \subseteq Connections
         /\ owned \in [Names -> 0..starts] /\ job \in [Callers -> Job]
         /\ serve \in [Connections -> Connection]
         /\ \A i \in 1..starts : serve[i].server \in Names
         /\ \A c \in Callers : Starts(c) =>
              job[c].server \in Names /\ job[c].conn \in 1..starts
         /\ "ui" \in Callers /\ "ui" \notin Testers /\ Testers \subseteq Callers
BY ServerAssumption DEF TypeInv, ManagerInv, ServeInv, JobInv, EntryInv, Job,
   Connections, Callers, Starts

(* A launch under a name that owns nothing.                                 *)
LEMMA LiveLaunch ==
  ASSUME TypeInv, LiveInv, NEW c \in Callers, NEW n \in Names, Launch(c, n),
         owned[n] = 0, UNCHANGED timedOut
  PROVE  /\ LiveInv' /\ owned'[n] = starts + 1
         /\ \A m \in Names : m # n => owned'[m] = owned[m]
<1>1. /\ starts' = starts + 1 /\ starts + 1 \in Connections
      /\ serve' = [serve EXCEPT ![starts + 1] =
                     [server |-> n, state |-> "opening", close |-> FALSE]]
      /\ owned' = [owned EXCEPT ![n] = starts + 1]
  BY ServerAssumption, ReachTypes DEF Launch, Connections, TypeInv, ManagerInv
<1>2. /\ serve'[starts + 1].server = n
      /\ \A i \in 1..starts : serve'[i] = serve[i]
  BY <1>1, ReachTypes
<1>3. /\ owned'[n] = starts + 1
      /\ \A m \in Names : m # n => owned'[m] = owned[m]
  BY <1>1, ReachTypes
<1>4. ASSUME NEW i \in 1..starts', Live(i)' PROVE owned'[serve'[i].server] = i
  <2>1. CASE i = starts + 1
    BY <1>2, <1>3, <2>1
  <2>2. CASE i \in 1..starts
    <3>1. Live(i)
      BY <1>2, <1>4, <2>2 DEF Live
    <3>2. owned[serve[i].server] = i /\ serve[i].server \in Names /\ i # 0
      BY <2>2, <3>1, ReachTypes DEF LiveInv
    <3> QED
      BY <1>2, <1>3, <2>2, <3>2
  <2> QED
    BY <1>1, <2>1, <2>2, ReachTypes
<1> QED
  BY <1>3, <1>4 DEF LiveInv

(* A stop tells what the name owns to close.                                *)
LEMMA LiveStop ==
  ASSUME TypeInv, LiveInv, NEW c \in Callers, NEW n \in Names, NEW then,
         StopServer(c, n, then), UNCHANGED <<starts, timedOut>>
  PROVE  /\ LiveInv' /\ owned'[n] = 0
         /\ \A m \in Names : m # n => owned'[m] = owned[m]
<1>1. /\ owned'[n] = 0 /\ \A m \in Names : m # n => owned'[m] = owned[m]
  BY ReachTypes DEF StopServer
<1>2. ASSUME NEW i \in 1..starts, Live(i)'
      PROVE  Live(i) /\ serve'[i].server = serve[i].server /\ owned[n] # i
  <2>1. CASE owned[n] = 0
    BY <1>2, <2>1 DEF StopServer, Live
  <2>2. CASE owned[n] # 0
    <3>1. /\ owned[n] \in Connections /\ i \in Connections
          /\ serve[owned[n]] \in Connection /\ serve[i] \in Connection
      BY <2>2, ReachTypes
    <3>2. serve' = [serve EXCEPT ![owned[n]] = [serve[owned[n]] EXCEPT !.close = TRUE]]
      BY <2>2 DEF StopServer
    <3>3. CASE i = owned[n]
      <4>1. serve'[i].close = TRUE
        BY <3>1, <3>2, <3>3, ReachTypes DEF Connection
      <4> QED
        BY <1>2, <4>1 DEF Live
    <3>4. CASE i # owned[n]
      <4>1. serve'[i] = serve[i]
        BY <3>1, <3>2, <3>4, ReachTypes
      <4> QED
        BY <1>2, <3>4, <4>1 DEF Live
    <3> QED
      BY <3>3, <3>4
  <2> QED
    BY <2>1, <2>2
<1>3. ASSUME NEW i \in 1..starts', Live(i)' PROVE owned'[serve'[i].server] = i
  <2>1. Live(i) /\ serve'[i].server = serve[i].server /\ owned[n] # i
    BY <1>2, <1>3
  <2>2. owned[serve[i].server] = i /\ serve[i].server \in Names
    BY <1>3, <2>1, ReachTypes DEF LiveInv
  <2> QED
    BY <1>1, <2>1, <2>2
<1> QED
  BY <1>1, <1>3 DEF LiveInv

(* A step in which no task comes to life and no entry changes.              *)
LEMMA LiveKept ==
  ASSUME LiveInv, UNCHANGED <<owned, starts>>, timedOut \subseteq timedOut',
         \A i \in 1..starts : /\ serve'[i].server = serve[i].server
                              /\ serve'[i].close = serve[i].close \/ serve'[i].close
                              /\ serve'[i].state \in {"opening", "parked"} =>
                                    serve[i].state \in {"opening", "parked"}
  PROVE  LiveInv'
BY DEF LiveInv, Live

(* No thread starts anything.                                               *)
LEMMA NobodyStarts ==
  ASSUME \A c \in Callers : ~Starts(c)
  PROVE  OneStart /\ StarterInv
BY DEF OneStart, StarterInv

(* A thread comes back from the manager.                                    *)
LEMMA ReachReturns ==
  ASSUME TypeInv, Patient, ReachInv, NEW c \in Callers, Returns(c)
  PROVE  OneStart' /\ StarterInv' /\ LiveInv' /\ TestedInv'
<1>1. OneStart /\ StarterInv /\ LiveInv /\ TestedInv /\ ui.at # "closed"
  BY DEF ReachInv, Patient
<1>2. /\ owned \in [Names -> 0..starts] /\ job \in [Callers -> Job]
      /\ ui.at \in Places
  BY ReachTypes DEF TypeInv, UiInv
<1>3. CASE StopReturns(c)
  <2>1. \A d \in Callers : job'[d] = job[d] \/ ~Starts(d)'
    BY <1>2, <1>3 DEF StopReturns, NoJob, Starts
  <2>2. UNCHANGED <<owned, serve, starts, ui, timedOut>>
    BY <1>3 DEF StopReturns, past
  <2>3. OneStart' /\ StarterInv'
    BY <1>1, <2>1, <2>2 DEF OneStart, StarterInv, Starts
  <2> QED
    BY <1>1, <2>2, <2>3, LiveKept DEF TestedInv
<1>4. CASE Replaces(c)
  <2> DEFINE n == job[c].server
  <2>1. /\ Launch(c, n) /\ UNCHANGED <<ui, timedOut>>
        /\ job[c].at = "replacing" /\ Starts(c)
    BY <1>4 DEF Replaces, past, Starts
  <2>2. n \in Names /\ owned[n] = 0
    BY <1>1, <2>1, ReachTypes DEF StarterInv
  <2>3. /\ LiveInv' /\ owned'[n] = starts + 1
        /\ \A m \in Names : m # n => owned'[m] = owned[m]
    BY <1>1, <2>1, <2>2, LiveLaunch
  <2>4. job' = [job EXCEPT ![c] = [at |-> "starting", server |-> n,
                                   conn |-> starts + 1]]
    BY <2>1 DEF Launch
  <2>5. \A d \in Callers : d # c => job'[d] = job[d] /\ ~Starts(d)'
    BY <1>1, <1>2, <2>1, <2>4 DEF OneStart, Starts
  <2>6. /\ job'[c].at = "starting" /\ job'[c].server = n
        /\ job'[c].conn = starts + 1
    BY <1>2, <2>4
  <2>7. OneStart' /\ StarterInv'
    BY <1>1, <2>1, <2>3, <2>5, <2>6 DEF OneStart, StarterInv
  <2>8. TestedInv'
    BY <1>1, <2>1 DEF StarterInv, TestedInv
  <2> QED
    BY <2>3, <2>7, <2>8
<1>5. CASE StartSucceeds(c)
  <2>1. \A d \in Callers : ~Starts(d)'
    BY <1>1, <1>2, <1>5 DEF StartSucceeds, NoJob, OneStart, Starts
  <2>2. /\ UNCHANGED <<owned, serve, starts, timedOut>> /\ Shown(c, "connected")
        /\ job[c].at = "starting"
    BY <1>5 DEF StartSucceeds, manager, past
  <2>3. TestedInv'
    <3>1. CASE ui.at = "test" /\ ui.tester = c
      <4>1. ui' = [ui EXCEPT !.shown = "connected"]
        BY <2>2, <3>1 DEF Shown
      <4>2. ui'.draft = ui.draft
        BY <4>1 DEF TypeInv, UiInv
      <4>3. owned[ui.draft] = job[c].conn /\ job[c].conn \in 1..starts
        BY <1>1, <2>2, <3>1, ReachTypes DEF StarterInv, Starts
      <4> QED
        BY <2>2, <4>2, <4>3 DEF TestedInv
    <3>2. CASE ~(ui.at = "test" /\ ui.tester = c)
      BY <1>1, <2>2, <3>2 DEF Shown, TestedInv
    <3> QED
      BY <3>1, <3>2
  <2> QED
    BY <1>1, <2>1, <2>2, <2>3, LiveKept DEF OneStart, StarterInv
<1>6. CASE StartFails(c)
  <2> DEFINE n == job[c].server
             i == job[c].conn
  <2>1. /\ job[c].at = "starting" /\ Starts(c) /\ Shown(c, "failed")
        /\ owned' = [owned EXCEPT ![n] = 0] /\ job' = [job EXCEPT ![c] = NoJob]
        /\ serve[i].state \in {"opening", "failed"}
        /\ timedOut' = IF serve[i].state = "opening" THEN timedOut \cup {i}
                       ELSE timedOut
        /\ UNCHANGED <<serve, starts>>
    BY <1>6 DEF StartFails, Starts
  <2>2. \A d \in Callers : ~Starts(d)'
    BY <1>1, <1>2, <2>1 DEF NoJob, OneStart, Starts
  <2>3. n \in Names /\ owned[n] = i
    BY <1>1, <2>1, ReachTypes DEF StarterInv
  <2>4. LiveInv'
    <3> SUFFICES ASSUME NEW k \in 1..starts, Live(k)'
                 PROVE  owned'[serve[k].server] = k
      BY <2>1 DEF LiveInv
    <3>1. Live(k) /\ k # i
      BY <2>1 DEF Live
    <3>2. owned[serve[k].server] = k /\ serve[k].server \in Names /\ k # 0
      BY <1>1, <3>1, ReachTypes DEF LiveInv
    <3>3. serve[k].server # n
      BY <2>3, <3>1, <3>2
    <3> QED
      BY <1>2, <2>1, <3>2, <3>3
  <2>5. TestedInv'
    <3>1. CASE ui.at = "test"
      <4>1. ui.tester = c /\ ui.shown = "connecting"
        BY <1>1, <2>1, <3>1 DEF StarterInv
      <4>2. ui'.at = "test" /\ ui'.shown = "failed"
        BY <2>1, <3>1, <4>1 DEF Shown, TypeInv, UiInv
      <4> QED
        BY <4>2 DEF TestedInv
    <3>2. CASE ui.at # "test"
      <4>1. ui' = ui /\ ui.at = "boot"
        BY <1>1, <2>1, <3>2 DEF Shown, StarterInv
      <4> QED
        BY <4>1 DEF TestedInv
    <3> QED
      BY <3>1, <3>2
  <2> QED
    BY <2>2, <2>4, <2>5 DEF OneStart, StarterInv
<1> QED
  BY <1>3, <1>4, <1>5, <1>6 DEF Returns

(* A step of the event loop: a task ends, or becomes a session.             *)
LEMMA ReachLoop ==
  ASSUME TypeInv, Patient, ReachInv, NEW i \in Connections, Loop(i)
  PROVE  OneStart' /\ StarterInv' /\ LiveInv' /\ TestedInv'
<1>1. OneStart /\ StarterInv /\ LiveInv /\ TestedInv
  BY DEF ReachInv
<1>2. UNCHANGED <<owned, starts, job, ui, timedOut>>
  BY DEF Loop, Connects, OpenFails, ServerGone, ServeEnds, past
<1>3. \A k \in 1..starts : /\ serve'[k].server = serve[k].server
                           /\ serve'[k].close = serve[k].close \/ serve'[k].close
                           /\ serve'[k].state \in {"opening", "parked"} =>
                                serve[k].state \in {"opening", "parked"}
  <2>1. \A k \in 1..starts : k \in Connections /\ serve[k] \in Connection
    BY ReachTypes
  <2>2. CASE Connects(i)
    <3>1. serve' = [serve EXCEPT ![i] = [serve[i] EXCEPT !.state = "parked"]]
          /\ serve[i].state = "opening"
      BY <2>2 DEF Connects
    <3> QED
      BY <2>1, <3>1, ReachTypes DEF Connection
  <2>3. ASSUME NEW s \in {"ended", "failed"}, ServeEnds(i, s)
        PROVE  \A k \in 1..starts :
                 /\ serve'[k].server = serve[k].server
                 /\ serve'[k].close = serve[k].close \/ serve'[k].close
                 /\ serve'[k].state \in {"opening", "parked"} =>
                      serve[k].state \in {"opening", "parked"}
    <3>1. serve' = [serve EXCEPT ![i] =
                      [serve[i] EXCEPT !.state = s, !.close = TRUE]]
      BY <2>3, ReachTypes DEF ServeEnds, Connection
    <3> QED
      BY <2>1, <3>1, ReachTypes DEF Connection
  <2> QED
    BY <2>2, <2>3 DEF Loop, OpenFails, ServerGone
<1> QED
  BY <1>1, <1>2, <1>3, LiveKept DEF OneStart, StarterInv, Starts, TestedInv

(* A start when no other is under way.                                      *)
LEMMA ReachStart ==
  ASSUME TypeInv, LiveInv, NEW c \in Callers, NEW n \in Names,
         \A d \in Callers : ~Starts(d), StartServer(c, n), UNCHANGED timedOut
  PROVE  /\ LiveInv' /\ OneStart' /\ \A d \in Callers : Starts(d)' => d = c
         /\ job'[c].server = n
         /\ job'[c].at = "replacing" => owned'[n] = 0
         /\ job'[c].at = "starting" => owned'[n] = job'[c].conn
<1>1. CASE owned[n] = 0
  <2>1. Launch(c, n)
    BY <1>1 DEF StartServer
  <2>2. LiveInv' /\ owned'[n] = starts + 1
    BY <1>1, <2>1, LiveLaunch
  <2>3. job' = [job EXCEPT ![c] = [at |-> "starting", server |-> n,
                                   conn |-> starts + 1]]
    BY <2>1 DEF Launch
  <2> QED
    BY <2>2, <2>3, ReachTypes DEF OneStart, Starts
<1>2. CASE owned[n] # 0
  <2>1. StopServer(c, n, "replacing") /\ UNCHANGED <<session, starts>>
    BY <1>2 DEF StartServer
  <2>2. LiveInv' /\ owned'[n] = 0
    BY <2>1, LiveStop
  <2>3. job' = [job EXCEPT ![c] = [at |-> "replacing", server |-> n,
                                   conn |-> owned[n]]]
    BY <1>2, <2>1 DEF StopServer
  <2> QED
    BY <2>2, <2>3, ReachTypes DEF OneStart, Starts
<1> QED
  BY <1>1, <1>2

(* A stop starts nothing.                                                   *)
LEMMA ReachStop ==
  ASSUME TypeInv, LiveInv, NEW c \in Callers, NEW n \in Names,
         StopServer(c, n, "stopping"), UNCHANGED <<starts, timedOut>>
  PROVE  /\ LiveInv' /\ owned'[n] = 0
         /\ \A m \in Names : m # n => owned'[m] = owned[m]
         /\ \A d \in Callers : Starts(d)' => job'[d] = job[d] /\ Starts(d)
<1>1. /\ LiveInv' /\ owned'[n] = 0
      /\ \A m \in Names : m # n => owned'[m] = owned[m]
  BY LiveStop
<1>2. \A d \in Callers : Starts(d)' => job'[d] = job[d] /\ Starts(d)
  BY ReachTypes DEF StopServer, Starts
<1> QED
  BY <1>1, <1>2

(* What the app does without being asked.                                   *)
LEMMA ReachUi ==
  ASSUME TypeInv, Patient, ReachInv, UiContinues, Patient'
  PROVE  OneStart' /\ StarterInv' /\ LiveInv' /\ TestedInv'
<1>1. OneStart /\ StarterInv /\ LiveInv /\ TestedInv
  BY DEF ReachInv
<1>2. "ui" \in Callers /\ left \subseteq Names
  BY ReachTypes DEF TypeInv, UiInv
<1>3. ASSUME ui.at \in {"boot", "saving", "stopping"}, Idle("ui")
      PROVE  \A d \in Callers : ~Starts(d)
  BY <1>1, <1>3 DEF StarterInv, Idle, Starts
<1>4. CASE BootNext
  <2>1. PICK n \in left : StartServer("ui", n)
    BY <1>4 DEF BootNext
  <2>2. ui.at = "boot" /\ Idle("ui") /\ UNCHANGED <<ui, timedOut>>
    BY <1>4 DEF BootNext, past
  <2>3. /\ LiveInv' /\ OneStart' /\ \A d \in Callers : Starts(d)' => d = "ui"
        /\ job'["ui"].server = n
        /\ job'["ui"].at = "replacing" => owned'[n] = 0
        /\ job'["ui"].at = "starting" => owned'[n] = job'["ui"].conn
    BY <1>1, <1>2, <1>3, <2>1, <2>2, ReachStart
  <2> QED
    BY <2>2, <2>3 DEF StarterInv, TestedInv
<1>5. CASE BootMounts \/ Mounts \/ Stopped
  <2>1. /\ ui.at \in {"boot", "saving", "stopping"} /\ Idle("ui") /\ ui' = AtRest
        /\ UNCHANGED <<owned, serve, starts, job, timedOut>>
    BY <1>5 DEF BootMounts, Mounts, Stopped, manager, past
  <2>2. LiveInv'
    BY <1>1, <2>1, LiveKept
  <2> QED
    BY <1>3, <2>1, <2>2 DEF OneStart, StarterInv, Starts, TestedInv, AtRest
<1>6. CASE CloseNext
  <2>1. PICK n \in left : StopServer("ui", n, "stopping")
    BY <1>6 DEF CloseNext
  <2>2. ui.at = "closing" /\ UNCHANGED <<starts, timedOut, ui>>
    BY <1>6 DEF CloseNext, past
  <2>3. /\ LiveInv' /\ owned'[n] = 0
        /\ \A m \in Names : m # n => owned'[m] = owned[m]
        /\ \A d \in Callers : Starts(d)' => job'[d] = job[d] /\ Starts(d)
    BY <1>1, <1>2, <2>1, <2>2, ReachStop
  <2>4. \A d \in Callers : ~Starts(d)'
    BY <1>1, <2>2, <2>3 DEF StarterInv
  <2> QED
    BY <2>2, <2>3, <2>4 DEF OneStart, StarterInv, TestedInv
<1>7. CASE CloseDone
  BY <1>7 DEF CloseDone, Patient, AtRest
<1> QED
  BY <1>4, <1>5, <1>6, <1>7 DEF UiContinues

(* Only a test modal and the app's closing live with a start of a thread,   *)
(* so that a chain the user goes on with meets none.                        *)
LEMMA ReachUser ==
  ASSUME TypeInv, Patient, ReachInv, User, Patient'
  PROVE  OneStart' /\ StarterInv' /\ LiveInv' /\ TestedInv'
<1>1. OneStart /\ StarterInv /\ LiveInv /\ TestedInv
  BY DEF ReachInv
<1>2. "ui" \in Callers
  BY ReachTypes
<1>3. ASSUME \/ ui.at \in {"idle", "diff", "unmount"}
             \/ ui.at = "test" /\ ui.shown # "connecting"
      PROVE  \A d \in Callers : ~Starts(d)
  BY <1>1, <1>3 DEF StarterInv
<1>4. ASSUME \A d \in Callers : ~Starts(d),
             UNCHANGED <<owned, serve, starts, job, timedOut>>
      PROVE  OneStart' /\ StarterInv' /\ LiveInv'
  BY <1>1, <1>4, LiveKept DEF OneStart, StarterInv, Starts
<1>5. ASSUME NEW n \in Names, \A d \in Callers : ~Starts(d),
             StopServer("ui", n, "stopping"), UNCHANGED <<starts, timedOut>>
      PROVE  /\ OneStart' /\ StarterInv' /\ LiveInv'
             /\ \A m \in Names : m # n => owned'[m] = owned[m]
  BY <1>1, <1>2, <1>5, ReachStop DEF OneStart, StarterInv
<1>6. ASSUME NEW draft \in Names, NEW original \in Names \cup {None},
             OpenTest(draft, original)
      PROVE  OneStart' /\ StarterInv' /\ LiveInv' /\ TestedInv'
  <2>1. PICK c \in Testers :
          /\ StartServer(c, draft)
          /\ ui' = [AtRest EXCEPT !.at = "test", !.draft = draft,
                                  !.original = original, !.tester = c]
    BY <1>6 DEF OpenTest
  <2>2. ui.at = "idle" /\ UNCHANGED timedOut /\ c \in Callers
    BY <1>6, ReachTypes DEF OpenTest, Resting, past
  <2>3. /\ LiveInv' /\ OneStart' /\ \A d \in Callers : Starts(d)' => d = c
        /\ job'[c].server = draft
        /\ job'[c].at = "replacing" => owned'[draft] = 0
        /\ job'[c].at = "starting" => owned'[draft] = job'[c].conn
    BY <1>1, <1>3, <2>1, <2>2, ReachStart
  <2>4. /\ ui'.at = "test" /\ ui'.draft = draft /\ ui'.tester = c
        /\ ui'.shown = "connecting"
    BY <2>1 DEF AtRest
  <2> QED
    BY <2>3, <2>4 DEF StarterInv, TestedInv
<1>7. CASE TestLeft
  <2>1. ui.at = "test" /\ ui.shown # "connecting" /\ ui' = AtRest
    BY <1>7 DEF TestLeft, Patient
  <2>2. UNCHANGED <<owned, serve, starts, job, timedOut>>
    BY <1>7 DEF TestLeft, manager
  <2> QED
    BY <1>3, <1>4, <2>1, <2>2 DEF TestedInv, AtRest
<1>8. CASE TestContinues
  <2>1. /\ ui.at = "test" /\ ui.shown # "connecting"
        /\ UNCHANGED <<owned, serve, starts, job, timedOut>>
    BY <1>8 DEF TestContinues, manager, past
  <2>2. ui'.at = "diff" /\ ui'.draft = ui.draft
        /\ ui'.started = (ui.shown = "connected")
    BY <1>8 DEF TestContinues, TypeInv, UiInv
  <2>3. TestedInv'
    BY <1>1, <2>1, <2>2 DEF TestedInv
  <2> QED
    BY <1>3, <1>4, <2>1, <2>3
<1>9. CASE SaveCancelled
  <2>1. ui.at = "diff" /\ ui.draft \in Names /\ UNCHANGED <<starts, timedOut>>
    BY <1>9 DEF SaveCancelled, past, TypeInv, UiInv
  <2>2. ui'.at = "stopping"
    BY <1>9 DEF SaveCancelled, TypeInv, UiInv
  <2>3. OneStart' /\ StarterInv' /\ LiveInv'
    <3>1. CASE ui.started
      BY <1>3, <1>5, <1>9, <2>1, <3>1 DEF SaveCancelled
    <3>2. CASE ~ui.started
      BY <1>3, <1>4, <1>9, <2>1, <3>2 DEF SaveCancelled
    <3> QED
      BY <3>1, <3>2
  <2> QED
    BY <2>2, <2>3 DEF TestedInv
<1>10. CASE SaveFails \/ UnmountCancelled
  <2>1. /\ ui.at \in {"diff", "unmount"} /\ ui' = AtRest
        /\ UNCHANGED <<owned, serve, starts, job, timedOut>>
    BY <1>10 DEF SaveFails, UnmountCancelled, manager, past
  <2> QED
    BY <1>3, <1>4, <2>1 DEF TestedInv, AtRest
<1>11. CASE SaveConfirmed
  <2>1. /\ ui.at = "diff" /\ ui.draft \in Names
        /\ ui.original \in Names \cup {None} /\ UNCHANGED <<starts, timedOut>>
    BY <1>11 DEF SaveConfirmed, past, TypeInv, UiInv
  <2>2. /\ ui'.at = "saving" /\ ui'.draft = ui.draft
        /\ ui'.original = ui.original /\ ui'.started = ui.started
    BY <1>11 DEF SaveConfirmed, TypeInv, UiInv
  <2>3. CASE ui.original = None
    <3>1. UNCHANGED <<owned, serve, job>>
      BY <1>11, <2>3 DEF SaveConfirmed
    <3> QED
      BY <1>1, <1>3, <1>4, <2>1, <2>2, <3>1 DEF TestedInv
  <2>4. CASE ui.original # None
    <3>1. StopServer("ui", ui.original, "stopping") /\ ui.original \in Names
      BY <1>11, <2>1, <2>4 DEF SaveConfirmed, RemoveServer
    <3>2. /\ OneStart' /\ StarterInv' /\ LiveInv'
          /\ \A m \in Names : m # ui.original => owned'[m] = owned[m]
      BY <1>3, <1>5, <2>1, <3>1
    <3> QED
      BY <1>1, <2>1, <2>2, <3>2 DEF TestedInv
  <2> QED
    BY <2>3, <2>4
<1>12. CASE UnmountConfirmed
  <2>1. /\ ui.at = "unmount" /\ ui.draft \in Names
        /\ UNCHANGED <<starts, timedOut>>
        /\ StopServer("ui", ui.draft, "stopping")
    BY <1>12 DEF UnmountConfirmed, RemoveServer, past, TypeInv, UiInv
  <2>2. ui'.at = "stopping"
    BY <1>12 DEF UnmountConfirmed, TypeInv, UiInv
  <2> QED
    BY <1>3, <1>5, <2>1, <2>2 DEF TestedInv
<1>13. CASE Quit
  <2>1. /\ \/ ui.at \in {"idle", "diff", "unmount"}
           \/ ui.at = "test" /\ ui.shown # "connecting"
        /\ ui'.at = "closing"
        /\ UNCHANGED <<owned, serve, starts, job, timedOut>>
    <3>1. ~hasty'
      BY DEF Patient
    <3>2. ~(ui.at = "test" /\ ui.shown = "connecting")
      BY <1>13, <3>1, Zenon DEF Quit
    <3> QED
      BY <1>13, <3>2 DEF Quit, AtRest, manager
  <2> QED
    BY <1>3, <1>4, <2>1 DEF TestedInv
<1>14. ASSUME NEW n \in Names, AskUnmount(n)
       PROVE  OneStart' /\ StarterInv' /\ LiveInv' /\ TestedInv'
  <2>1. /\ ui.at = "idle" /\ ui'.at = "unmount"
        /\ UNCHANGED <<owned, serve, starts, job, timedOut>>
    BY <1>14 DEF AskUnmount, Resting, AtRest, manager, past
  <2> QED
    BY <1>3, <1>4, <2>1 DEF TestedInv
<1> QED
  BY <1>6, <1>7, <1>8, <1>9, <1>10, <1>11, <1>12, <1>13, <1>14
     DEF User, Add, Enable, Edit

(* Neither a test that was left early nor the end of the app is undone.     *)
LEMMA PatientBefore ==
  ASSUME TypeInv, [Next]_vars, Patient'
  PROVE  Patient
<1>1. ASSUME UNCHANGED <<ui, hasty>> PROVE Patient
  BY <1>1 DEF Patient
<1>2. ASSUME NEW c, Returns(c) PROVE Patient
  <2>1. hasty' = hasty /\ (ui' = ui \/ ui.at = "test")
    BY <1>2 DEF Returns, StopReturns, Replaces, StartSucceeds, StartFails,
       Shown, past
  <2> QED
    BY <2>1 DEF Patient
<1>3. ASSUME NEW i, Loop(i) PROVE Patient
  BY <1>1, <1>3 DEF Loop, Connects, OpenFails, ServerGone, ServeEnds, past
<1>4. CASE UiContinues
  <2>1. ui.at # "closed" /\ hasty' = hasty
    BY <1>4 DEF UiContinues, BootNext, BootMounts, Mounts, Stopped, CloseNext,
       CloseDone, past
  <2> QED
    BY <2>1 DEF Patient
<1>5. ASSUME NEW n, NEW m, OpenTest(n, m) PROVE Patient
  BY <1>5 DEF OpenTest, Resting, past, Patient
<1>6. CASE User
  <2>1. CASE \/ TestLeft \/ TestContinues \/ SaveCancelled \/ SaveFails
             \/ SaveConfirmed \/ UnmountCancelled \/ UnmountConfirmed \/ Quit
             \/ \E n \in Names : AskUnmount(n)
    <3>1. CASE TestLeft \/ Quit
      <4>1. ui.at # "closed"
        BY <3>1 DEF TestLeft, Quit
      <4>2. ~hasty'
        BY DEF Patient
      <4>3. ~hasty
        BY <3>1, <4>2, Zenon DEF TestLeft, Quit
      <4> QED
        BY <4>1, <4>3 DEF Patient
    <3>2. CASE \/ TestContinues \/ SaveCancelled \/ SaveFails
               \/ SaveConfirmed \/ UnmountCancelled \/ UnmountConfirmed
               \/ \E n \in Names : AskUnmount(n)
      <4>1. ui.at # "closed" /\ hasty' = hasty
        BY <3>2 DEF TestContinues, SaveCancelled, SaveFails, SaveConfirmed,
           UnmountCancelled, UnmountConfirmed, AskUnmount, Resting, past
      <4> QED
        BY <4>1 DEF Patient
    <3> QED
      BY <2>1, <3>1, <3>2
  <2> QED
    BY <1>5, <1>6, <2>1 DEF User, Add, Enable, Edit
<1> QED
  BY <1>1, <1>2, <1>3, <1>4, <1>6 DEF Next, vars

(* While the app closes, nothing is started, and what is stopped was owned. *)
LEMMA ClosingKept ==
  ASSUME TypeInv, Patient, ReachInv, [Next]_vars, Patient'
  PROVE  ClosingInv'
<1>0. OneStart /\ StarterInv /\ ClosingInv
  BY DEF ReachInv
<1>1. ASSUME UNCHANGED <<owned, left>>, ui'.at = ui.at PROVE ClosingInv'
  BY <1>0, <1>1 DEF ClosingInv
<1>2. ASSUME ui'.at # "closing" PROVE ClosingInv'
  BY <1>2 DEF ClosingInv
<1>3. ASSUME NEW c \in Callers, Returns(c) PROVE ClosingInv'
  <2>1. ui'.at = ui.at
    BY <1>3 DEF Returns, StopReturns, Replaces, StartSucceeds, StartFails,
       Shown, TypeInv, UiInv
  <2>2. CASE StopReturns(c) \/ StartSucceeds(c)
    BY <1>1, <2>1, <2>2 DEF StopReturns, StartSucceeds, manager
  <2>3. CASE Replaces(c) \/ StartFails(c)
    <3>1. Starts(c)
      BY <2>3 DEF Replaces, StartFails, Starts
    <3> QED
      BY <1>0, <1>2, <2>1, <3>1 DEF StarterInv
  <2> QED
    BY <1>3, <2>2, <2>3 DEF Returns
<1>4. ASSUME NEW i \in Connections, Loop(i) PROVE ClosingInv'
  <2>1. UNCHANGED <<owned, left, ui>>
    BY <1>4 DEF Loop, Connects, OpenFails, ServerGone, ServeEnds
  <2> QED
    BY <1>1, <2>1
<1>5. CASE UiContinues
  <2>1. CASE CloseNext
    <3>1. PICK n \in left : /\ StopServer("ui", n, "stopping")
                            /\ left' = left \ {n}
      BY <2>1 DEF CloseNext
    <3>2. owned' = [owned EXCEPT ![n] = 0] /\ ui' = ui
      BY <2>1, <3>1 DEF CloseNext, StopServer
    <3>3. \A m \in Names : owned'[m] # 0 => m # n /\ owned[m] # 0
      BY <3>2, ReachTypes
    <3> QED
      BY <1>0, <3>1, <3>2, <3>3 DEF ClosingInv
  <2>2. CASE CloseDone
    BY <2>2 DEF CloseDone, AtRest, Patient
  <2>3. CASE BootNext
    BY <1>2, <2>3 DEF BootNext
  <2>4. CASE BootMounts \/ Mounts \/ Stopped
    BY <1>2, <2>4 DEF BootMounts, Mounts, Stopped, AtRest
  <2> QED
    BY <1>5, <2>1, <2>2, <2>3, <2>4 DEF UiContinues
<1>6. ASSUME NEW n, NEW m, OpenTest(n, m) PROVE ClosingInv'
  BY <1>2, <1>6 DEF OpenTest, AtRest
<1>7. CASE User
  <2>1. CASE Quit
    BY <2>1 DEF Quit, manager, ClosingInv
  <2>2. CASE TestLeft \/ SaveFails \/ UnmountCancelled
    BY <1>2, <2>2 DEF TestLeft, SaveFails, UnmountCancelled, AtRest
  <2>3. ASSUME NEW n, AskUnmount(n) PROVE ClosingInv'
    BY <1>2, <2>3 DEF AskUnmount, AtRest
  <2>4. CASE \/ TestContinues \/ SaveCancelled \/ SaveConfirmed
             \/ UnmountConfirmed
    BY <1>2, <2>4 DEF TestContinues, SaveCancelled, SaveConfirmed,
       UnmountConfirmed, TypeInv, UiInv
  <2> QED
    BY <1>6, <1>7, <2>1, <2>2, <2>3, <2>4 DEF User, Add, Enable, Edit
<1> QED
  BY <1>1, <1>3, <1>4, <1>5, <1>7 DEF Next, vars, manager

(* Only the last step of its end closes the app, and then nothing runs.     *)
LEMMA ClosedKept ==
  ASSUME TypeInv, ReachInv, ClosedInv, [Next]_vars
  PROVE  ClosedInv'
<1> SUFFICES ASSUME ~hasty', ui'.at = "closed", NEW i \in 1..starts', Live(i)'
             PROVE  FALSE
  BY DEF ClosedInv
<1>1. ASSUME ui.at = "closed", ~hasty, UNCHANGED <<serve, starts>>,
             timedOut \subseteq timedOut'
      PROVE  FALSE
  BY <1>1 DEF ClosedInv, Live
<1>2. ASSUME ui'.at # "closed" PROVE FALSE
  BY <1>2
<1>3. ASSUME NEW c \in Callers, Returns(c) PROVE FALSE
  <2>1. ui'.at = ui.at /\ hasty' = hasty
    BY <1>3 DEF Returns, StopReturns, Replaces, StartSucceeds, StartFails,
       Shown, TypeInv, UiInv, past
  <2>2. CASE StopReturns(c) \/ StartSucceeds(c) \/ StartFails(c)
    <3>1. UNCHANGED <<serve, starts>> /\ timedOut \subseteq timedOut'
      BY <2>2 DEF StopReturns, StartSucceeds, StartFails, past
    <3> QED
      BY <1>1, <2>1, <3>1, Zenon
  <2>3. CASE Replaces(c)
    BY <2>1, <2>3 DEF Replaces
  <2> QED
    BY <1>3, <2>2, <2>3 DEF Returns
<1>4. ASSUME NEW k \in Connections, Loop(k) PROVE FALSE
  <2>1. ui' = ui /\ ui.at # "closed"
    BY <1>4 DEF Loop, Connects, OpenFails, ServerGone, ServeEnds, Running
  <2> QED
    BY <2>1
<1>5. CASE CloseDone
  <2>1. /\ ui.at = "closing" /\ left = {} /\ hasty' = hasty
        /\ UNCHANGED <<serve, starts, timedOut>>
    BY <1>5 DEF CloseDone, past
  <2>2. ~hasty
    BY <2>1, Zenon
  <2>3. LiveInv /\ ClosingInv
    BY <2>1, <2>2 DEF ReachInv, Patient
  <2>4. i \in 1..starts /\ Live(i)
    BY <2>1 DEF Live
  <2>5. owned[serve[i].server] = i /\ serve[i].server \in Names /\ i # 0
    BY <2>3, <2>4, ReachTypes DEF LiveInv
  <2> QED
    BY <2>1, <2>3, <2>5 DEF ClosingInv
<1>6. CASE UiContinues
  <2>1. CASE BootNext \/ CloseNext
    BY <1>2, <2>1 DEF BootNext, CloseNext
  <2>2. CASE BootMounts \/ Mounts \/ Stopped
    BY <1>2, <2>2 DEF BootMounts, Mounts, Stopped, AtRest
  <2> QED
    BY <1>5, <1>6, <2>1, <2>2 DEF UiContinues
<1>7. ASSUME NEW n, NEW m, OpenTest(n, m) PROVE FALSE
  BY <1>2, <1>7 DEF OpenTest, AtRest
<1>8. CASE User
  <2>1. CASE TestLeft \/ SaveFails \/ UnmountCancelled \/ Quit
    BY <1>2, <2>1 DEF TestLeft, SaveFails, UnmountCancelled, Quit, AtRest
  <2>2. ASSUME NEW n, AskUnmount(n) PROVE FALSE
    BY <1>2, <2>2 DEF AskUnmount, AtRest
  <2>3. CASE \/ TestContinues \/ SaveCancelled \/ SaveConfirmed
             \/ UnmountConfirmed
    BY <1>2, <2>3 DEF TestContinues, SaveCancelled, SaveConfirmed,
       UnmountConfirmed, TypeInv, UiInv
  <2> QED
    BY <1>7, <1>8, <2>1, <2>2, <2>3 DEF User, Add, Enable, Edit
<1>9. CASE UNCHANGED vars
  <2>1. UNCHANGED <<serve, starts, timedOut, ui, hasty>>
    BY <1>9 DEF vars
  <2> QED
    BY <1>1, <2>1, Zenon
<1> QED
  BY <1>3, <1>4, <1>6, <1>8, <1>9 DEF Next

(* A task that opens or runs is one that was started.                       *)
LEMMA RunsAreStarted ==
  ASSUME TypeInv, NEW i \in Connections,
         serve[i].state \in {"opening", "parked"}
  PROVE  i \in 1..starts
<1>1. i \in Int /\ i >= 1 /\ starts \in Nat
  BY ReachTypes, ServerAssumption DEF Connections
<1>2. ~(i > starts)
  BY DEF TypeInv, ManagerInv, ServeInv
<1> QED
  BY <1>1, <1>2

(* At the start no server runs.                                             *)
LEMMA ReachInit ==
  ASSUME Init
  PROVE  ReachInv
<1>1. starts = 0 /\ \A c \in Callers : ~Starts(c)
  BY DEF Init, NoJob, Starts
<1>2. LiveInv /\ TestedInv /\ ClosingInv
  BY <1>1 DEF Init, LiveInv, TestedInv, ClosingInv, AtRest
<1> QED
  BY <1>1, <1>2, NobodyStarts DEF ReachInv

(* Every step keeps the servers that run on purpose within reach.           *)
LEMMA ReachKept ==
  ASSUME TypeInv, ReachInv, [Next]_vars
  PROVE  ReachInv'
<1> SUFFICES ASSUME Patient'
             PROVE  OneStart' /\ StarterInv' /\ LiveInv' /\ TestedInv'
  BY PatientBefore, ClosingKept DEF ReachInv
<1>1. Patient
  BY PatientBefore
<1>2. CASE UNCHANGED vars
  <2>1. UNCHANGED <<owned, serve, starts, job, ui, timedOut>>
    BY <1>2 DEF vars
  <2> QED
    BY <1>1, <2>1 DEF ReachInv, OneStart, StarterInv, Starts, LiveInv, Live,
       TestedInv
<1> QED
  BY <1>1, <1>2, ReachReturns, ReachLoop, ReachUi, ReachUser DEF Next

(* Only a start that was given up at its timeout leaves a server running    *)
(* that nothing can stop, as long as test modals stay up until they report; *)
(* and a server that was tested is still there when its save mounts it.     *)
THEOREM HandlesLostOnlyByTimeout == Spec => []LostOnlyByTimeout
<1>1. ASSUME TypeInv, ReachInv PROVE LostOnlyByTimeout
  <2>1. StrayIsLate
    <3> SUFFICES ASSUME ~hasty, ui.at # "closed", NEW i \in Connections,
                        serve[i].state = "parked", ~serve[i].close,
                        i \notin timedOut
                 PROVE  owned[serve[i].server] = i
      BY DEF StrayIsLate
    <3>1. i \in 1..starts
      BY <1>1, RunsAreStarted
    <3> QED
      BY <1>1, <3>1 DEF ReachInv, Patient, LiveInv, Live
  <2>2. NewServerIsMounted
    BY <1>1 DEF NewServerIsMounted, ReachInv, Patient, TestedInv
  <2> QED
    BY <2>1, <2>2 DEF LostOnlyByTimeout
<1>2. Init => TypeInv /\ ReachInv
  BY InitTypes, ReachInit
<1>3. TypeInv /\ ReachInv /\ [Next]_vars => (TypeInv /\ ReachInv)'
  BY TypesKept, ReachKept
<1> QED
  BY <1>1, <1>2, <1>3, PTL DEF Spec

(* The end of the app tells every server that runs or still starts to       *)
(* close, but for those whose start was given up at its timeout.            *)
THEOREM CloseLeavesOnlyLate == Spec => []CloseStopsServers
<1>1. ASSUME TypeInv, ClosedInv PROVE CloseStopsServers
  <2> SUFFICES ASSUME ~hasty, ui.at = "closed", NEW i \in Connections,
                      serve[i].state \in {"opening", "parked"},
                      ~serve[i].close, i \notin timedOut
               PROVE  FALSE
    BY DEF CloseStopsServers
  <2>1. i \in 1..starts
    BY <1>1, RunsAreStarted
  <2> QED
    BY <1>1, <2>1 DEF ClosedInv, Live
<1>2. Init => TypeInv /\ ReachInv /\ ClosedInv
  <2>1. Init => ClosedInv
    BY DEF Init, AtRest, ClosedInv
  <2> QED
    BY <2>1, InitTypes, ReachInit
<1>3. TypeInv /\ ReachInv /\ ClosedInv /\ [Next]_vars
        => (TypeInv /\ ReachInv /\ ClosedInv)'
  BY TypesKept, ReachKept, ClosedKept
<1> QED
  BY <1>1, <1>2, <1>3, PTL DEF Spec
=============================================================================
