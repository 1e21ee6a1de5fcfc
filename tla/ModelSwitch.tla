------------------------------ MODULE ModelSwitch ------------------------------
(***************************************************************************)
(* Choosing a model in the app (tui/app.py, its screens, and the harness's *)
(* set_model and router): "/model" with a reference, the picker, and the   *)
(* "/config model" dialogs that take a key, test it and store it.  Model   *)
(* catalogs are fetched by worker threads, and their answers come back to  *)
(* the app as messages, in any order and whatever is on screen by then.    *)
(***************************************************************************)
EXTENDS Integers, Sequences, SequencesExt, FiniteSets

CONSTANTS
  Providers,   (* [providers.<section>] names                               *)
  Gateways,    (* those whose adapter calls itself "openai"                 *)
  Keyless,     (* those without api_key_env                                 *)
  Models,      (* model ids                                                 *)
  Listing,     (* the models of each provider                               *)
  Routes,      (* references the router chooses from while nothing is pinned *)
  Stored,      (* providers whose key is in the environment or the keyring  *)
  MaxUses      (* bound: what the user enters at the prompt: "/model" lines, *)
               (* pickers, provider managers and turns                      *)

Ref  == [name : Providers, model : Models]

(* Every configuration has a section "openai": it starts from the defaults. *)
ASSUME ModelSwitchAssumption ==
  /\ Gateways \cup Keyless \cup Stored \subseteq Providers
  /\ Gateways # {} => "openai" \in Providers
  /\ Listing \in [Providers -> SUBSET Models]
  /\ Routes \subseteq Ref
  /\ MaxUses \in Nat

Bare == "bare"                  (* a reference without a provider we know   *)
Adapter(name) == IF name \in Gateways THEN "openai" ELSE name

(* A key typed for a provider, or the one it had, is right or wrong for it. *)
Key   == [for : Providers, right : BOOLEAN]
NoKey == [for |-> Bare, right |-> FALSE]
NoRow == Bare

VARIABLES
  provider,  (* harness.provider, as its config_name and model              *)
  forced,    (* router.forced is set                                        *)
  turn,      (* the model the running turn began with, or {}                *)
  cache,     (* _catalog_cache, {} for a provider without an entry          *)
  fetching,  (* catalog fetches under way                                   *)
  queue,     (* CatalogReady messages the app has not handled               *)
  inflight,  (* _model_fetch_inflight                                       *)
  pending,   (* _pending_model: its entries, in the order of their lines    *)
  screens,   (* the stack of modals, the active one last                    *)
  chain,     (* _pending_row, _pending_key and _pending_ref                 *)
  keyring,   (* the key each provider resolves to                           *)
  uses,      (* how often so far                                            *)
  typed,     (* history: the "/model" lines                                 *)
  answered,  (* history: how many answers each of them got                  *)
  trusted,   (* history: keys that passed a test, or were saved in spite of *)
             (* it, each with the provider that was tested                  *)
  mixed      (* history: a manager was opened with an earlier fetch of its  *)
             (* kind still to be answered                                   *)

vars == <<provider, forced, turn, cache, fetching, queue, inflight, pending,
          screens, chain, keyring, uses, typed, answered, trusted, mixed>>
model    == <<provider, forced>>
catalogs == <<cache, fetching, queue>>
lines    == <<inflight, pending, typed, answered>>
dialogs  == <<screens, chain, keyring, trusted, mixed>>

Init ==
  /\ provider \in Routes /\ forced = FALSE /\ turn = {}
  /\ cache = [n \in Providers |-> {}] /\ fetching = {} /\ queue = <<>>
  /\ inflight = {} /\ pending = {} /\ screens = <<>>
  /\ chain = [row |-> NoRow, key |-> NoKey, ref |-> {}]
  /\ keyring = [n \in Providers |->
                  IF n \in Stored THEN [for |-> n, right |-> TRUE] ELSE NoKey]
  /\ uses = 0
  /\ typed = {} /\ answered = [i \in 1..MaxUses |-> 0] /\ trusted = {} /\ mixed = FALSE

(* A line is entered at the prompt, which no modal covers and no turn holds. *)
Enters == screens = <<>> /\ turn = {} /\ uses < MaxUses /\ uses' = uses + 1
Usable(name) == name \in Keyless \/ keyring[name] # NoKey

-----------------------------------------------------------------------------
(* set_model: a provider that can be built is pinned; else nothing changes. *)
SetModel(ref) ==
  IF Usable(ref.name) THEN provider' = ref /\ forced' = TRUE ELSE UNCHANGED model

(* The catalog of the active provider, whatever is asked for.               *)
RequestCatalogOfActive(name, purpose) ==
  IF cache[provider.name] # {}
  THEN /\ queue' = Append(queue, [name |-> name, entries |-> cache[provider.name],
                                  purpose |-> purpose])
       /\ UNCHANGED <<cache, fetching>>
  ELSE /\ fetching' = fetching \cup
            {[name |-> name, purpose |-> purpose, id |-> uses]}
       /\ UNCHANGED <<cache, queue>>

(* _request_catalog: from the session's cache, or by a worker.              *)
RequestCatalog(name, purpose) ==
  IF cache[name] # {}
  THEN /\ queue' = Append(queue, [name |-> name, entries |-> cache[name],
                                  purpose |-> purpose])
       /\ UNCHANGED <<cache, fetching>>
  ELSE /\ fetching' = fetching \cup
            {[name |-> name, purpose |-> purpose, id |-> uses]}
       /\ UNCHANGED <<cache, queue>>

(* _dispatch_model: strictly first; a reference that names no provider is   *)
(* looked up in the catalog of the active one, at once or when it is there. *)
TypeModel(ref) ==
  LET line   == uses + 1
      active == Adapter(provider.name)
  IN /\ Enters /\ typed' = typed \cup {line}
     /\ \/ /\ ref.name # Bare
           /\ SetModel(ref) /\ answered' = [answered EXCEPT ![line] = @ + 1]
           /\ UNCHANGED <<pending, inflight, catalogs>>
        \/ /\ ref.name = Bare /\ cache[active] # {}
           /\ IF ref.model \in cache[active]
              THEN SetModel([ref EXCEPT !.name = active]) ELSE UNCHANGED model
           /\ answered' = [answered EXCEPT ![line] = @ + 1]
           /\ UNCHANGED <<pending, inflight, catalogs>>
        \/ /\ ref.name = Bare /\ cache[active] = {}
           /\ pending' = pending \cup {[line |-> line, model |-> ref.model,
                                        name |-> active, under |-> provider.name]}
           /\ inflight' = inflight \cup {active}
           /\ IF active \in inflight THEN UNCHANGED catalogs
              ELSE RequestCatalog(active, "fallback")
           /\ UNCHANGED <<model, answered>>
     /\ UNCHANGED <<turn, dialogs>>

(* "/model" alone: the picker, once there is a catalog of the active one.   *)
Picker(name, entries) ==
  [kind |-> "models", name |-> name,
   choices |-> Routes \cup {[name |-> name, model |-> m] : m \in entries}]

OpenPicker ==
  LET active == provider.name
  IN /\ Enters
     /\ IF cache[active] # {}
        THEN screens' = Append(screens, Picker(active, cache[active]))
             /\ UNCHANGED catalogs
        ELSE RequestCatalog(active, "picker") /\ UNCHANGED screens
     /\ UNCHANGED <<model, turn, lines, chain, keyring, trusted, mixed>>

Awaits(purpose) ==
  \/ \E f \in fetching : f.purpose = purpose
  \/ \E i \in DOMAIN queue : queue[i].purpose = purpose

(* "/config model": the chain begins anew.                                  *)
OpenManager ==
  /\ Enters
  /\ chain' = [row |-> NoRow, key |-> NoKey, ref |-> {}]
  /\ screens' = Append(screens, [kind |-> "rows"])
  /\ mixed' = (mixed \/ Awaits("manager"))
  /\ UNCHANGED <<model, turn, catalogs, lines, keyring, trusted>>

-----------------------------------------------------------------------------
(* A fetch ends with the catalog, or with an error, which is an empty one:  *)
(* fetch_catalog raises when it finds no model.                             *)
FetchEnds(f) ==
  /\ fetching' = fetching \ {f}
  /\ \E entries \in {Listing[f.name], {}} :
       queue' = Append(queue, [name |-> f.name, entries |-> entries,
                               purpose |-> f.purpose])
  /\ UNCHANGED <<model, turn, cache, lines, dialogs, uses>>

(* Nobody asks whether the catalog lists the model.                         *)
ResolvedUnvouched(message) ==
  LET hits == {w \in pending : w.name = message.name}
  IN IF hits = {} THEN UNCHANGED model
     ELSE \E last \in hits : SetModel([name |-> message.name, model |-> last.model])

(* The lines that wait for this provider are resolved in turn, and the last *)
(* one that is listed decides.                                              *)
Resolved(message) ==
  LET hits == {w \in pending : w.name = message.name /\ w.model \in message.entries}
  IN IF hits = {} THEN UNCHANGED model
     ELSE \E last \in hits :
            /\ \A w \in hits : w.line <= last.line
            /\ SetModel([name |-> message.name, model |-> last.model])

(* All lines are taken off, answered or not.                                *)
StrandedDropped(message) == {}

(* The others stay, and each must have a fetch of its own under way.        *)
Stranded(message) == {w \in pending : w.name # message.name}

(* A provider once fetched for stays marked.                                *)
StillMarked(message) == inflight

(* The arrival takes the mark off its provider.                             *)
StillInflight(message) == inflight \ {message.name}

(* on_catalog_ready.  A catalog is empty just when the message has an error *)
(* in it, and then it is not kept.                                          *)
CatalogReady ==
  LET message == Head(queue)
      stays   == Stranded(message)
      again   == {w.name : w \in stays} \ StillInflight(message)
  IN /\ queue # <<>>
     /\ cache' = IF message.entries = {} THEN cache
                 ELSE [cache EXCEPT ![message.name] = message.entries]
     /\ queue' = Tail(queue)
     /\ \/ /\ message.purpose = "picker"
           /\ screens' = Append(screens, Picker(provider.name, message.entries))
           /\ UNCHANGED <<model, lines, fetching>>
        \/ /\ message.purpose = "manager"
           /\ screens' = Append(screens, [kind |-> "catalog", name |-> message.name])
           /\ UNCHANGED <<model, lines, fetching>>
        \/ /\ message.purpose = "fallback"
           /\ Resolved(message) /\ pending' = stays
           /\ answered' = [i \in DOMAIN answered |->
                answered[i] + Cardinality({w \in pending :
                                w.line = i /\ w.name = message.name})]
           /\ inflight' = StillInflight(message) \cup again
           /\ fetching' = fetching \cup
                {[name |-> n, purpose |-> "fallback", id |-> 0] : n \in again}
           /\ UNCHANGED <<typed, screens>>
     /\ UNCHANGED <<turn, chain, keyring, uses, trusted, mixed>>

-----------------------------------------------------------------------------
Top == Last(screens)
On(kind) == screens # <<>> /\ Top.kind = kind
Below == Front(screens)

(* A modal dismissed without an answer.  A cancelled test leaves the key in *)
(* memory.                                                                  *)
Dismiss ==
  /\ screens # <<>> /\ screens' = Below
  /\ UNCHANGED <<model, turn, catalogs, lines, chain, keyring, uses, trusted, mixed>>

ModelPicked(ref) ==
  /\ On("models") /\ ref \in Top.choices
  /\ SetModel(ref) /\ screens' = Below
  /\ UNCHANGED <<turn, catalogs, lines, chain, keyring, uses, trusted, mixed>>

(* _on_provider_row: to the catalog, or to the key first.                   *)
RowPicked(name) ==
  /\ On("rows") /\ chain' = [chain EXCEPT !.row = name]
  /\ IF Usable(name)
     THEN RequestCatalog(name, "manager") /\ screens' = Below
     ELSE screens' = Append(Below, [kind |-> "key", name |-> name])
          /\ UNCHANGED catalogs
  /\ UNCHANGED <<model, turn, lines, keyring, uses, trusted, mixed>>

(* Storing the key when it is typed.                                        *)
KeyEnteredAndStored(right) ==
  /\ On("key") /\ screens' = Below
  /\ chain' = [chain EXCEPT !.key = [for |-> Top.name, right |-> right]]
  /\ keyring' = [keyring EXCEPT ![Top.name] = [for |-> Top.name, right |-> right]]
  /\ RequestCatalog(chain.row, "manager")
  /\ UNCHANGED <<model, turn, lines, uses, trusted, mixed>>

KeyEntered(right) ==
  /\ On("key") /\ screens' = Below
  /\ chain' = [chain EXCEPT !.key = [for |-> Top.name, right |-> right]]
  /\ RequestCatalog(chain.row, "manager")
  /\ UNCHANGED <<model, turn, lines, keyring, uses, trusted, mixed>>

(* _on_catalog_picked: the test takes the key of the chain, or resolves one. *)
CatalogPicked(m) ==
  /\ On("catalog") /\ chain' = [chain EXCEPT !.ref = {[name |-> Top.name, model |-> m]}]
  /\ screens' = Append(Below,
       [kind |-> "test", name |-> Top.name, failed |-> FALSE,
        key |-> IF chain.key # NoKey THEN chain.key ELSE keyring[Top.name]])
  /\ UNCHANGED <<model, turn, catalogs, lines, keyring, uses, trusted, mixed>>

(* The probe fails, and the modal offers to save all the same; a timeout    *)
(* dismisses it instead.                                                    *)
ProbeFails ==
  /\ On("test") /\ ~Top.failed
  /\ screens' = Append(Below, [Top EXCEPT !.failed = TRUE])
  /\ UNCHANGED <<model, turn, catalogs, lines, chain, keyring, uses, trusted, mixed>>

(* A probe that passes needs the right key, where one is needed at all.     *)
Accepts(name, k) == name \in Keyless \/ k = [for |-> name, right |-> TRUE]

(* _on_test_done with an outcome that is ok, or to be saved anyway: the key *)
(* of the chain is stored for the row of the chain, the model is switched   *)
(* if the test passed, and the diff to save is shown.  The keyring may      *)
(* refuse.                                                                  *)
TestDone(ok) ==
  /\ On("test") /\ IF ok THEN ~Top.failed /\ Accepts(Top.name, Top.key) ELSE Top.failed
  /\ trusted' = trusted \cup {<<Top.name, Top.key>>}
  /\ IF chain.key # NoKey
     THEN /\ chain' = [chain EXCEPT !.key = NoKey]
          /\ \/ keyring' = [keyring EXCEPT ![chain.row] = chain.key]
             \/ UNCHANGED keyring
     ELSE UNCHANGED <<chain, keyring>>
  /\ screens' = Append(Below, [kind |-> "save"])
  /\ IF ok /\ (\A ref \in chain.ref : Usable(ref.name)')
     THEN provider' \in chain.ref /\ forced' = TRUE
     ELSE UNCHANGED model
  /\ UNCHANGED <<turn, catalogs, lines, uses, mixed>>

-----------------------------------------------------------------------------
(* A turn takes the pinned model, or the one the router chooses; each of    *)
(* its model calls takes the harness's provider of that moment.             *)
StartTurn ==
  /\ Enters
  /\ provider' \in IF forced THEN {provider} ELSE Routes
  /\ turn' = {provider'}
  /\ UNCHANGED <<forced, catalogs, lines, dialogs>>

EndTurn ==
  /\ turn # {} /\ turn' = {}
  /\ UNCHANGED <<model, catalogs, lines, dialogs, uses>>

Next ==
  \/ \E ref \in [name : Providers \cup {Bare}, model : Models] : TypeModel(ref)
  \/ OpenPicker \/ OpenManager \/ CatalogReady \/ Dismiss
  \/ \E f \in fetching : FetchEnds(f)
  \/ \E ref \in Ref : ModelPicked(ref)
  \/ \E name \in Providers : RowPicked(name)
  \/ \E right \in BOOLEAN : KeyEntered(right)
  \/ \E m \in Models : CatalogPicked(m)
  \/ ProbeFails \/ (\E ok \in BOOLEAN : TestDone(ok))
  \/ StartTurn \/ EndTurn

(* A fetch has a timeout, and the app handles its messages.                 *)
Fairness ==
  /\ \A n \in Providers : WF_vars(\E f \in fetching : f.name = n /\ FetchEnds(f))
  /\ WF_vars(CatalogReady)

Spec == Init /\ [][Next]_vars /\ Fairness

-----------------------------------------------------------------------------
TypeOK ==
  /\ provider \in Ref /\ turn \subseteq Ref /\ cache \in [Providers -> SUBSET Models]
  /\ \A f \in fetching : f.name \in Providers
  /\ \A i \in DOMAIN queue : queue[i].entries \subseteq Listing[queue[i].name]
  /\ inflight \subseteq Providers /\ chain.row \in Providers \cup {NoRow}
  /\ keyring \in [Providers -> Key \cup {NoKey}]
  /\ chain.key \in Key \cup {NoKey} /\ chain.ref \subseteq Ref

Waiting(line) == \E w \in pending : w.line = line

(* on_catalog_ready's "never a silent drop": a "/model" line is answered    *)
(* once, or it waits and a fetch for its own provider is under way; lines   *)
(* of several providers never answer for each other, however the active     *)
(* provider changes and the catalogs arrive.                                *)
OneAnswerPerLine ==
  \A line \in 1..MaxUses :
    /\ answered[line] = IF Waiting(line) \/ line \notin typed THEN 0 ELSE 1
    /\ \A w \in pending : w.line = line =>
         /\ w.name \in inflight
         /\ \/ \E f \in fetching : f.purpose = "fallback" /\ f.name = w.name
            \/ \E k \in DOMAIN queue : /\ queue[k].purpose = "fallback"
                                       /\ queue[k].name = w.name

(* And the wait ends, with or without a catalog: with the bound on what the *)
(* user enters, for every line there is.                                    *)
LinesAreAnswered == (pending # {}) ~> (pending = {})

(* _dispatch_model: a bare reference is retried "as <active-provider>:<arg>" *)
(* with the provider that was active when it was typed, and only when the   *)
(* catalog of the provider it is retried with lists it, whichever one is    *)
(* active when the catalog comes.  Of a gateway the code knows the name of  *)
(* the adapter only, so which provider it asks there is left open here; see *)
(* ResolvesWithTheActive.                                                   *)
ResolvesWhereTyped ==
  [][(CatalogReady /\ provider' # provider) =>
       \E w \in pending :
         /\ w.under \notin Gateways => provider'.name = w.under
         /\ provider'.model = w.model
         /\ w.model \in Listing[provider'.name]]_vars

Tested(name) == keyring[name] = NoKey \/ <<name, keyring[name]>> \in trusted

(* A key that was typed is in the keyring only after a test of its provider *)
(* with that key, or after the user chose to save it in spite of the test,  *)
(* through every order of picks, failures and cancels.  Two managers with a *)
(* fetch of the first still under way may mix their rows and keys.          *)
StoredKeyWasTested ==
  ~mixed => \A n \in Providers \ Stored : Tested(n)

-----------------------------------------------------------------------------
(* The docstring of _dispatch_model: "retry as `<active-provider>:<arg>`    *)
(* ONLY when ... the active provider's catalog vouches for `arg` verbatim". *)
ResolvesWithTheActive ==
  [][(CatalogReady /\ provider' # provider) =>
       \E w \in pending : provider' = [name |-> w.under, model |-> w.model]]_vars

=============================================================================
