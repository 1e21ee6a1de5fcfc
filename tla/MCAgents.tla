-------------------------------- MODULE MCAgents --------------------------------
(***************************************************************************)
(* What a step of a turn waits for: a model call, the delegation that is   *)
(* built from such calls, and the tools that change the workspace.  A      *)
(* behaviour is that of one of the three, the focus, and the others rest:  *)
(* Delegation needs of a call only what CallContract promises, that it     *)
(* ends with its completion or fails, and of a tool that it returns.       *)
(***************************************************************************)
EXTENDS Delegation

CONSTANTS
  Adapters, RetryAfters, NoHeader, MaxRetries, MaxItems,   (* ProviderStream *)
  Absent, Tokens, Newline, Files, Others, Changes,         (* Workspace      *)
  MaxCalls                                                 (* of both        *)

ASSUME CallAssumption ==
  /\ Adapters \subseteq {"openai", "ollama", "anthropic"}
  /\ RetryAfters \subseteq Int
  /\ MaxRetries \in Nat /\ MaxItems \in Nat /\ MaxCalls \in Nat

VARIABLES
  focus,
  adapter, picky, known, phase, plain, attempt, waited, parts, frags, shown,
  answer, calls,
  disk, pc, call, shownDiff, seen, report, touched, child, kids, missed,
  container, handled

Stream == INSTANCE ProviderStream
Work   == INSTANCE Workspace WITH shown <- shownDiff, calls <- handled

ASSUME WorkAssumption ==
  /\ Newline \in {"lf", "crlf"}
  /\ Files \cup Others \subseteq Work!File /\ Changes \subseteq Work!Call

(* Files with each line ending and with both, with a byte order mark, with  *)
(* one match of a token and with two, and one that is not UTF-8.            *)
Text(tokens, ends) == [i \in DOMAIN tokens |-> [text |-> tokens[i], end |-> ends[i]]]
WorkFiles ==
  {[lines |-> Text(t, e), bom |-> b, utf8 |-> TRUE] :
     t \in {<<"a", "b">>, <<"a", "a">>},
     e \in {<<"lf", "lf">>, <<"crlf", "crlf">>, <<"crlf", "lf">>}, b \in BOOLEAN}
  \cup {[lines |-> <<>>, bom |-> FALSE, utf8 |-> u] : u \in BOOLEAN}
WorkChanges ==
  [tool : {"edit_file"}, inside : BOOLEAN, old : {"a", "b", "empty string"},
   new : {<<"b">>, <<"c", "b">>}, every : BOOLEAN]
  \cup [tool : {"write_file"}, inside : BOOLEAN, content : {<<"a", "b">>, <<"c">>}]
  \cup [tool : {"run_command"}, docker : BOOLEAN]

WorkOthers == {f \in WorkFiles : f.bom = (Len(f.lines) = 2)}

streamVars == <<adapter, picky, known, phase, plain, attempt, waited, parts,
                frags, shown, answer, calls>>
workVars   == <<disk, pc, call, shownDiff, seen, report, touched, child, kids,
                missed, container, handled>>

AgentsInit ==
  /\ focus \in {"call", "delegation", "tools"}
  /\ Stream!Init /\ Init /\ Work!Init
  /\ focus # "call" => ~picky /\ adapter = CHOOSE a \in Adapters : TRUE
  /\ focus # "tools" => disk = Absent

CallSteps  == focus = "call" /\ Stream!Next /\ UNCHANGED <<focus, vars, workVars>>
AgentSteps == focus = "delegation" /\ Next /\ UNCHANGED <<focus, streamVars, workVars>>
WorkSteps  == focus = "tools" /\ Work!Next /\ UNCHANGED <<focus, streamVars, vars>>

(* The fairness of the two that state one: the server is heard, or timed    *)
(* out; a command's pipes close, or its time is up.                         *)
CallProgress == focus = "call" /\ Stream!Progress /\ UNCHANGED <<focus, vars, workVars>>
ClockTicks   == focus = "tools" /\ Work!Clock /\ UNCHANGED <<focus, streamVars, vars>>

all == <<focus, streamVars, vars, workVars>>
AgentsSpec ==
  /\ AgentsInit /\ [][CallSteps \/ AgentSteps \/ WorkSteps]_all
  /\ WF_all(CallProgress) /\ WF_all(ClockTicks)

(* Each of the three in its types.                                          *)
AgentsTypeOK == Stream!TypeOK /\ TypeOK /\ Work!TypeOK

(* Through failures, retries, corrections and a consumer that leaves, a     *)
(* model call ends, its completion is the text that was shown, and what is  *)
(* shown is never shown twice (retry.py and the adapters); it waits no      *)
(* longer than the cap on Retry-After for each retry.                       *)
KeepsCallContract == Stream!KeepsCallContract /\ []Stream!WaitIsBounded

(* An edit makes the change its preview showed, and leaves the encoding, the *)
(* line endings and the other lines of the file alone (files.py).           *)
EditsAreFaithful == []Work!DiffShownIsDiffMade /\ Work!EditKeepsTheRest

(* A command returns, whatever it leaves running (subprocess_exec.py).      *)
CommandsReturn == Work!CommandsReturn

(* A command that timed out leaves nothing of its process group behind      *)
(* (subprocess_exec.py).                                                    *)
TimeoutKillsTheTree == Work!TimeoutKillsTheTree
=============================================================================
