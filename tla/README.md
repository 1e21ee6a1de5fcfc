# agent86: TLA+ models, checks and proofs

agent86 is a terminal agent: a user types an ask, a *harness* drives a language
model through a Reason -> Act -> Observe loop, runs the tools the model asks
for, and keeps the conversation in a session that survives the process. This
directory models the parts of it whose correctness depends on order, on another
thread, on a limit or on a crash.

All paths below are relative to `src/src/agent86/` unless they begin with
`src/`.

## The system

| Component | State it keeps | Operations | Talks to |
|---|---|---|---|
| **Turn loop** `orchestration/loop.py`, `circuit.py`, `state.py` | `AgentState` (messages, phase, usage, last turn), the cancel event, the sub-agents' accumulator; per turn: the breaker, where the turn and a continued answer began | `run_turn`, `cancel`, `new_session`, `resume`, `set_model`, `add_mcp_server`, `remove_mcp_server`, `spawn_subagent` | provider (stream), batch, working memory, store, recorder; driven as a generator by the REPL or by a worker thread |
| **Context window** `memory/working.py`, `cognitive/base.py`, `capabilities.py` | the current budget | `conversation_budget`, `fit`, `compaction_cut`, `apply_summary`, `count_tokens` | called by the loop before each request |
| **Tool batch** `loop.py`, `tools/registry.py`, `tools/base.py`, `guardrails/policy.py` | the registry, the approval mode, the active skill of the shared context | `_execute_batch`, `_resolve_call`, `decide`, `dispatch`, `activate_skill` | a pool of at most four threads, a human through the gate |
| **TUI turn** `tui/app.py`, `tui/turn_bridge.py` | running and cancel flags, pending approvals, screen stack; shared with the worker: cancel and closing events, one answer box and event per approval | keys, messages from the worker, shutdown | the worker posts to the app's queue and blocks on an event of an approval |
| **TUI transcript** `tui/app.py`, `tui/turn_bridge.py`, `tui/widgets/` | the entries, the log on screen, the reply that streams, the pending blocks | deltas, announces, outcomes, re-rendering, `load_session` | messages of the worker; the stored conversation |
| **Sub-agents** `agents/`, `tools/builtin/delegate.py` | a private conversation and breaker; the bus of the supervisor | `SubAgent.run`, `fan_out` | provider, registry; its cost comes back through the harness |
| **Providers and retries** `cognitive/*_provider.py`, `retry.py` | the attempt, the text of it, what the session learnt of the endpoint | `stream`, `complete` | HTTP |
| **Router, model switch, catalogs** `orchestration/router.py`, `tui/app.py`, `tui/commands.py`, `cognitive/catalog.py`, `secrets.py` | the pinned model, the cache of providers and of catalogs, the queue of `/model` lines, fetches in flight, the dialogs with their row and key | `select_model`, `_dispatch_model`, `on_catalog_ready`, the `/config model` chain | fetch threads post to the app's queue; the keyring |
| **Tool servers** `tools/mcp_client.py`, `tools/registry.py`, `loop.add_mcp_server`, the `/config mcp` chain of `tui/app.py` | tasks, sessions, close events and tools per server name; the registry; the draft and the server a test left running | start, stop, call, close; test, save, remove, disable | an asyncio loop on a thread of its own; test threads; the app's thread waits for both |
| **Built-in tools and sandbox** `tools/builtin/`, `tools/sandbox/` | the workspace; a child process or a container while a command runs | `edit_file`, `write_file` and their previews, `run_command` | the approval gate shows the preview; other programs write the same files |
| **Session store, memory** `memory/` | SQLite rows | save, load, titles, retention, episodes, `memory prune` | all processes on the same file |
| **Recorder** `observability/recorder.py` | the live trace file and its size, older generations | `event`, rotation, `read_events` | all processes on the same files |
| **Configuration** `config.py`, `config_writer.py`, `tui/screens/save_diff.py` | two TOML files and what was resolved from them | `plan_edit`, `apply_edit` | the dialog shows the diff and confirms; an editor writes the same files |
| **Prompt history** `ui/history.py`, `tui/widgets/prompt_input.py` | entries in memory and on disk, the walk of the composer | `append`, `load`, up and down | other sessions on the same file |
| Guardrail scanners, skill loader, CLI output, mentions, gateway | none that outlives a call, or layout only | | |

### What is hard here

* **Another thread cancels.** `cancel()` sets an event at any moment; the loop
  looks at it at four safe points, and clears it when a turn starts.
* **A history that is rewritten while positions into it are held.** Compaction
  and the collapse of a continued answer replace parts of `state.messages`,
  while `turn_start` and `cont_start` are positions taken earlier.
* **A protocol of the provider.** A tool result must follow the call it answers,
  through trimming, compaction, cancels, aborts and resumes.
* **Money and steps in several accounts.** Steps, summaries and sub-agents charge
  the breaker, the read-out and the session by different paths.
* **Concurrent tools and a human in the middle.** Reads share a pool, writes do
  not, approvals block the turn's thread, and the mode can change meanwhile.
* **Two threads in the TUI** that must neither block each other for ever nor let
  a tool run nobody approved.
* **Servers known by name** to three threads: a start that timed out may still
  connect, and an old connection may end, under a name that is in use again.
* **Answers that come late.** Catalogs arrive in any order, after the active
  provider, the dialog or the row they were asked for has changed.
* **Text that was already shown** must not be sent again by a retry, and a result
  must be shown in the block of its own call although it carries only a name.
* **Work inside work.** A sub-agent runs inside a tool call, may delegate again,
  has a breaker of its own, and its cost belongs to the turn.
* **Files that others write too**: the trace, the prompt history, the
  configuration, the database and the workspace.
* **A process that dies** between two saves, in a rotation or in a write.

### What correctness means, per component

* *Turn loop:* every result is anchored to its call; a finished turn left no
  call unanswered; the accounts agree; a closed turn is durable; a cancel costs
  no more than the step it falls into; a turn is bounded by the limits; a
  continued answer is whole; no ask is forgotten without a summary; every turn
  ends unless a call of it never returns.
* *Context window:* a request fits the budget and the budget fits the window;
  nothing is dropped in vain; what is sent is a history a provider accepts; the
  recent messages survive compaction.
* *Tool batch:* a call with effects runs once, alone, approved and in call
  order; a cancel stops the rest; each call is answered exactly once.
* *TUI turn:* no yes is invented; turns do not overlap; the prompt comes back;
  quitting never hangs.
* *Tool servers:* a session under a name is alive; only a server whose start
  timed out runs without a handle, and the end of the app reaches every other one;
  tools are mounted only from a saved configuration; a server that does not
  answer holds nothing up.
* *Model switch:* every `/model` line is answered once, for the provider it was
  typed under; a typed key is stored only after a test of it.
* *Transcript:* a block shows the result of its call; the log shows the entries;
  a resumed conversation shows what it showed before.
* *Model call:* it ends; what was shown is never shown again and is the text of
  the completion; the wait between attempts is bounded.
* *Sub-agents:* no nesting is deeper or longer than the limits allow; what they
  spend is on the bill of the turn; every request on the bus has its reply.
* *Built-in tools:* the change that was shown is the change that was made, and
  nothing else of the file; a command returns, and its tree dies with it.
* *Store:* a turn that ended is in its session or in an episode; a name stays;
  pruning takes the oldest.
* *Recorder:* a session reads back its last events without a hole; no file grows
  past its cap for each process.
* *Configuration:* a save changes the settings its diff showed, in that file; no
  crash breaks a file.
* *Prompt history:* the order stays; a walk never costs the draft.

## The modules

| Module | Models | Built on |
|---|---|---|
| `Conversation` | messages, and what it means for a result to be anchored | |
| `WorkingMemory` | the budget, the trim, the cut and the merge, as pure operators | `Conversation` |
| `HarnessTurn` | one session of `run_turn`, step by step | `WorkingMemory` |
| `ContextWindow` | request after request with sizes and changing budgets | `WorkingMemory` |
| `BatchContract` | what a batch promises the loop that observes it | |
| `ToolBatch` | `_execute_batch` with the gate, the pool and the skill | implements `BatchContract` |
| `TuiTurn` | the app and the worker thread | |
| `Transcript` | what the app shows of a turn | |
| `ModelSwitch` | `/model`, the picker, the `/config model` chain and the fetch threads | |
| `ToolServers` | the manager of tool servers, its loop, the test threads and the `/config mcp` chain | |
| `CallContract` | what a model call promises its consumer | |
| `ProviderStream` | a call of an adapter with its retries and corrections | implements `CallContract` |
| `Delegation` | a turn, its sub-agents, theirs, and the fan-out of the supervisor | |
| `Workspace` | edits with their previews, and commands with their processes | |
| `Recorder`, `History`, `ConfigFile`, `Store` | the trace, the prompt history, the configuration and the database | |
| `HarnessTurnProofs`, `ContextWindowProofs`, `ToolBatchProofs`, `TuiTurnProofs`, `ToolServersProofs`, `AppProofs`, `AgentsProofs`, `HomeProofs` | lemmas and theorems | the modules above, `TLAPS` |
| `AppInvariant` | the inductive invariants that `AppProofs` proves, and what they are said with | `MCApp` |
| `MCStep`, `MCHome`, `MCApp`, `MCAgents` | instances that put components side by side | the modules they name |
| the other `MC...` | the instances TLC checks | one module each |

`MCStep` (`ContextWindow` and `ToolBatch`), `MCHome`, `MCApp` and `MCAgents` each hold
components that share no variable. A
behaviour is that of one of them (`focus`) while the others rest: their product
would say no more about any of them. Where components do interact, the module
itself holds both sides (`TuiTurn`, `ToolServers`, `Delegation`, `ModelSwitch`) or
the inner one implements a contract that the outer one is built on: a batch of
`HarnessTurn` is `BatchContract`, a model call of `HarnessTurn` and of
`Delegation` is `CallContract`.

`MCApp` and `MCAgents` extend a module they have theorems about (`ModelSwitch`,
`Delegation`), so that a run checks the very definitions that are proved;
`AppProofs`, `AgentsProofs` and `HomeProofs` prove the specifications of `MCApp`,
`MCAgents` and `MCHome` themselves, with all the components that share them.

The properties of a run are conjunctions of named parts, and each part is a
definition with a comment of its own in its module: `HistoryIsSound`, for
example, is what the history owes to the provider, to the cancel, to the
continuation and to the user.

The definitions whose names end in what goes wrong (`CutIndexNoWalkBack`,
`CloseTurnUnsaved`, ...) stand in front of the definition they vary. No action
uses them; each one is a plausible bug, and replacing the definition by it makes
the property it belongs to fail. They show that the properties can fail.

### How the state corresponds to the code

**`HarnessTurn`.** `messages`, `phase`, `usage` and `lastTurn` are the fields of
`AgentState`; `db` is the row the last `_persist` wrote; `cancel` and `subUsage`
are fields of `Harness`. `breaker`, `loc` (`turn_start`, `cont_start`, the
number of `cont_parts`, `continuations`), `step`, `results` and `observed` are
the locals of `_run_turn`, and `pc` is the place where the thread stands. The
thread is sequential, so a step of the model reaches from one place where
something else can come in between to the next: the top of the loop, the
summarizer's call, the stream, each tool, each `yield`. `turn`, `ended`,
`requests`, `late`, `baseUsage`, `pieces` and `crashes` only record history.

| Action | Code (`loop.py`) |
|---|---|
| `StartBlocked`, `StartRouteFails`, `StartTurn` | 604-648 |
| `TopCancelled`, `TopTrips`, `TopProceeds` | 651-661, `circuit.py` 47-54 |
| `CompactSkipped`, `BeginSummary`, `SummaryFails`, `CompactSucceeds` | 481-564, 665-692 |
| `StreamFails`, `StreamCancelled`, `StreamCompletes` | 695-752 |
| `AddAssistant` | 754-785 |
| `Continue`, `Finish` | 787-828 |
| `DecideCancelled`, `DecideTools` | 830-847 |
| `RunCall` | 847; the details are `ToolBatch` |
| `ObserveResult`, `ObserveTrips` | 849-868 |
| `BatchCancelled`, `BatchRecorded` | 870-878 |
| `Cancel`, `Abandon`, `CrashAndResume` | 238-245, 592-599, 361-371 |

Token counts are not part of this module: a history may be over budget at any
step, so compaction may happen at any step where the cut is positive. The cut
itself is the one of `working.py`. Text is abstracted to its kind; an assistant
message carries the number of its calls and a result the number of the call it
answers, which stands for `tool_call_id`.

**`ContextWindow`** keeps the sizes. Its history grows by asks, answers and
results, `SendRequest` is one pass of the loop from `_compact_if_needed` to
`_build_request`, and `Reconfigure` changes the window and the overhead as
`/model`, a skill or a tool server do. `turnStart` is taken where the code takes
it and, as in the code, is not moved by a compaction.

**`ToolBatch`** starts where `_execute_batch` is called and ends where it
returns. `settled`, `todo`, `queue` and `collected` are its locals, `running`
the calls inside `dispatch`. A call is abstracted to the five kinds the code
tells apart. Approval happens where the code asks: before each call in the
sequential path, before all of them in the concurrent one. The branch of
`Launch` for fewer than two cleared reads is as in the code; a read is always
cleared, so it is taken only if a tool disappears from the registry in between.

**`TuiTurn`** keeps the fields of `Agent86App` that concern a turn, the events
and boxes both threads touch, and the queue, which belongs to Textual and is
taken to be FIFO. The turn is a worker that posts deltas, asks, notices a cancel
or not, and ends.

**`ToolServers`.** `owned` is `_tasks` and `_close_events`, which the code always
sets and drops together; `session` and `listed` are `_sessions` and
`_server_tools`; `serve` holds the `_serve` tasks, each a connection with a
number of its own, because the dictionaries forget which connection an entry was
made by. `registry` maps a tool name to the server that owns it. `job` is what a
thread waits for inside `start_server` or `stop_server`; `ui` is where the app
stands in a chain, with `_mcp_draft`, `_mcp_started` and the name that was
edited. `saved` is the configuration on disk. A wait with a timeout has no clock:
it may end at any moment, whether the other side is ready or not.

| Action | Code |
|---|---|
| `StartServer`, `Launch`, `StartSucceeds`, `StartFails` | `mcp_client.py` 163-196 |
| `StopServer`, `StopReturns`, `Replaces` | `mcp_client.py` 244-260, 177-180 |
| `Connects`, `OpenFails`, `ServerGone` | `_serve`, 198-242, on the loop |
| `BootNext`, `BootMounts` | `start`, 268-279; `default_registry` |
| `Add`, `Edit`, `Enable`, `TestLeft`, `TestContinues` | `app.py` 901-1006, `mcp_test.py` |
| `SaveCancelled`, `SaveFails`, `SaveConfirmed`, `Mounts` | `app.py` 1035-1069, `loop.py` 321-357 |
| `AskUnmount`, `UnmountCancelled`, `UnmountConfirmed`, `Stopped` | `app.py` 1071-1121 |
| `Quit`, `CloseNext`, `CloseDone` | `mcp_client.py` 297-316 |

A chain opens on an app that rests; a test that was left keeps its thread. The
hop from `start_server` to the loop, which enters the task, is one step. Tools
of the built-ins are not among `Tools`: their names can never be mounted over.

**`ModelSwitch`** keeps `harness.provider` and whether the router is pinned,
`_catalog_cache`, `_model_fetch_inflight`, `_pending_model`, the stack of modals
and the chain (`_pending_row`, `_pending_key`, `_pending_ref`). Fetch threads are
the set `fetching`; each ends in a `CatalogReady` message. A key is abstracted
to the provider it was typed for and whether it is right. A waiting line (an
entry of `_pending_model`) carries its number, which gives the order of the
list; `under` is the section that was active when it was typed, and `name` the
one the code asks, which is the name of the adapter (`Gateways` are the sections
whose adapter calls itself "openai").

| Action | Code (`tui/app.py` unless named) |
|---|---|
| `TypeModel`, `SetModel` | `_dispatch_model`; `loop.set_model`, `router.py` |
| `OpenPicker`, `OpenManager`, `RequestCatalog` | `/model`, `/config model`, `_request_catalog` |
| `FetchEnds`, `CatalogReady` | `_fetch_catalog`, `on_catalog_ready` 1216-1247 |
| `RowPicked`, `KeyEntered`, `CatalogPicked` | `_on_provider_row` ... `_on_catalog_picked` |
| `ProbeFails`, `TestDone` | `tui/screens/connection_test.py`, `_on_test_done` |

**`Transcript`** has the two sides of the queue: the worker (`stage`, what the
model has `said`, the calls of the batch) and the app's `view` (entries, log,
the reply that streams, the pending blocks, the buffer). A piece of text is a
number and a sort; a call is an id, a name and whether its arguments hold an
arrow, which is what `turn_bridge` takes an outcome line by.

**`ProviderStream`** is one adapter at a time; `attempt`, `parts`, `frags` and
`shown` are the locals of `stream`, `picky`/`known` the parameter an endpoint may
refuse and what the session learnt of it. Each piece of text carries the number
of the attempt it came in, so that a repetition is visible. Time is the sum of
the seconds waited.

**`Delegation`** holds the frames of the call stack, the root at the bottom;
each frame has a breaker and the calls and results of its last completion.
`owed` is `_subagent_usage`. A model call costs one unit. The streak of errors is
defined by its end (`Streak`), which is what counting result by result comes to.

**`Workspace`** has one file of lines (a text and an ending), a byte order mark
and whether it decodes. `pc` follows a call from the gate to its result;
`Meddle` is any other program. A command is its direct child, the processes it
spawned (in the group or not, holding the pipes or not) or a container.

**`Recorder`** keeps names and files apart, because an open file stays open under
the name another process's rotation gives it; one step per rename. **`History`**
has the file, the entries of each session and the composer's box. **`ConfigFile`**
reduces a file to its settings, or to *broken*; the text of an edit is kept from
the diff to the confirmation as in the code. **`Store`** has the two log tables;
a statement with its commit is one step that succeeds or is refused; the clock
ticks with the rows that are written, so an age is an order of rows.

## The runs

| Run | Question | Result |
|---|---|---|
| `turn` | is a session well formed, accounted for, durable and bounded, whatever happens in two turns? | holds |
| `step` | does every request fit, carry what it can and stay acceptable to a provider; do the effects of a batch happen once, alone, approved and in order, and does it implement its contract? | yes |
| `tui_turn` | can the threads hang, overlap or run a tool nobody approved? | they cannot |
| `tool_servers` | does a name ever lead to a dead session, does the app lose a server other than by a timeout, does a server outlive the app, is one mounted unsaved, can one hold the app up? | no, while no test is left |
| `home` | do the four kinds of files keep their promises under several processes, crashes and refused writes? | they do |
| `app` | are `/model` lines answered once and for their provider, keys tested before they are stored, and does the transcript show what happened? | yes |
| `agents` | does a call implement its contract, does delegation stay within its limits and on the bill, do edits and commands do what was shown and return? | yes |
| `ask_compacted` | is the current turn never compacted, as the README says? | violated |
| `cancel_lost` | does Ctrl+C cancel the running turn, as the README says? | violated |
| `saved_server` | are a server's tools mounted after its save, as the README says? | violated |
| `resolved_active` | is a bare model name looked up with the active provider, as the docstring says? | violated |
| `timed_out_tree` | does a timeout kill the whole process tree, as the module doc says? | violated |

**The violations.** (1) `turn_start` is taken once and compaction shortens the
list it points into, so the second compaction of a turn may take the turn's own
ask. (2) `run_turn` clears the cancel flag on the worker after the app shows the
turn as running; a cancel in between is lost, and the app takes the next press
for a quit. (3) A server that is edited under its own name is started for its
test, and then stopped by the save, which removes the server it replaces under
the same name. (4) `_dispatch_model` takes the name of the adapter for the active
provider (`app.py` 613). openrouter and groq use the adapter of openai, so a bare
name typed under one of them is looked up in the catalog of openai and takes the
session there, where the docstring (`app.py` 600-602) has "the active provider's
catalog". (5) The kill of a timed-out command does nothing when the shell has
exited and a background child still holds the output.

### What the models show besides

These are in the models as the code has them, and the properties are stated
around them: each is excused by name in the property it would break.

*The history.* A cancel after the answer arrived and before its batch, or an
error streak inside it, saves a call without a result (`UnansweredOnlyWhenStopped`
says this is the only way). A single result that fills the budget is sent without
its call (`RequestAnchored`). A continued answer whose turn was compacted may keep
a partial answer in front of the joined one, because the position it began at is
not moved (`AnswerWhole` is about turns without a compaction). When routing fails,
a turn that was recorded as started has no recorded end (`StartRouteFails`).

*The cancel.* The loop is to "never start another model call once cancelled"
(`loop.py` 651). It looks at the flag at the top (653) and not again before the
summarizer's call (528) and the request of the step (692), so a cancel in that gap
is followed by up to one of each; the answer of the request is thrown away at its
first delta (697). A sub-agent never looks at the flag: the delegated task that is
under way runs to its end. `CancelEndsTheStep` says that this is all.

*Approvals and servers.* A modal that the shutdown has denied is still up, and a
late yes overwrites the answer (`TuiTurn`). Escape at the report of a good test
drops the draft and leaves its server running, and so does a save that cannot be
written; the removal of a server takes every tool name it lists from the registry,
those of other servers included. A server that connects after its start was given
up at the timeout runs without a handle: no stop and no close reaches it
(`StrayIsLate`, `LostOnlyByTimeout`). The end of an old connection takes the
session of a newer one of its name with it, whose tools answer from then on that
the server is not connected, while its task can still be told to end
(`CloseStopsServers`). All of this is in `ToolServers`, and the properties that
follow servers through a test are about users who wait for its report (`hasty`). `use_skill`, and `remember` and `recall`, share the pool of the
reads, though the batch calls the context read-only and the store expects one
thread at a time (`ToolBatch`, `memory/store.py` 92-95).

*Models.* With a second manager opened while a fetch of the first is under way,
a key can be stored for another row or without its test (`mixed`, `app.py` 809).
A picker's catalog that comes late is offered under the provider that is active
by then (`app.py` 766). A switch of the model takes effect in the middle of a
running turn. `ResolvesWhereTyped` leaves open which provider is asked for a gateway,
see (4) above. An empty catalog never arrives: `fetch_catalog` raises on one
(`catalog.py` 107-108), so `FetchEnds` ends in models or in an error.

*The transcript.* A re-rendering while a reply streams shows its last text twice
until the turn ends (`stirred`). A call with an arrow in its arguments is
announced as text, and the ids of the calls announced after it are counted from
there (`kept`).

*Delegation.* What a sub-agent
had spent when its provider raised is lost (`raised`); what nested ones spend
reaches the turn only after the whole batch, so that no breaker between them
counts it. The supervisor runs its tasks at depth 1 without asking for the depth,
also where `max_depth` is 0 (`DelegatesOnlyTighten` excepts it).

*The workspace.* A file that does not decode is previewed by `write_file` as new;
an overwrite that changes only line endings or a byte order mark previews as no
change; a write that fails after the file was opened leaves it empty; what
another program writes between the read and the write of an edit is lost.

*The home directory.* A rotation that finds a file held by another program
overwrites or skips a generation, and so do two at a time (`raced`). A session
that reaches the cap of the prompt history drops what others appended
(`disturbed`); a prompt typed with a space in front is kept by the composer,
which strips it first, and not by the plain loop. A change made to a
configuration file between the diff and the confirmation is lost (`moved`).
`/resume` finds an exact id only among the newest sessions (`ListLimit`). Two
processes in one session overwrite each other (`shared`).

### Bounds, and why they are enough

* `turn`: two turns, so that a turn meets the history, the cancel flag, the open
  summary and the saved row another one left; two model calls and a cost cap of
  three units, so that the step bound, the cost bound and a compaction each can
  be what ends a turn; two calls in a batch, so that a streak of errors can end
  in the middle of one; one continuation, so that an answer is joined from two
  parts; two kept messages, so that a cut lands on a result and inside a turn;
  one crash anywhere. `WallClock` is off: with it on, every turn may end at its
  top, which hides nothing and shows nothing more.
* `step`, the window: six messages of 3 or 9 characters, windows of 4 and 8 tokens
  and overheads of 0 and 2: budgets below, at and above one message, with the
  floor, the cap and the clamp of the headroom each deciding in some state.
* `step`, the batch: all batches of up to three calls of the five kinds, and those of
  four in which two that may share the pool meet two that may not: the smallest
  concurrent batches in which two effects have an order. Two workers, so that a
  read can wait for one. One mode change and one cancel at any moment.
* `tui_turn`: three turns, two deltas each and three approvals in all, so that
  an approval, a cancel or an end of one turn can be late for the next.
* `home`: for the trace, two kept generations, files of two events, five events
  and three files, so that two processes rotate each other's open file, with one
  file held once; for the history, a cap of two and five prompts, one private and
  one of two lines, with a composer and a plain loop; for the configuration, two
  processes, two settings, two scopes and three edits or dialogs, so that a scope
  is switched while the other file changes; for the store, two sessions, two asks,
  two processes and one fault, with a cap of one session and two episodes, so
  that retention at a start drops what another process has open. `ByAge` is off
  for the start of a process; `memory prune` has every cutoff.
* `app`: three providers, openai with a key, a gateway without one that uses the
  adapter of openai, and a local one that lists nothing; three uses of the prompt,
  so that two fetches and a switch between them overlap; for the
  transcript two tool names and four turns, pieces and calls in all, so that two
  calls of one name, or a call beside text, are cut short.
* `agents`: three adapters, two retries, Retry-After inside, at zero and beyond
  the cap, two calls so that what a session learnt is used; two levels of
  sub-agents with two calls a completion and a cost cap of three, two turns or
  fan-outs so that what one leaves is met by the next; two tool calls, each on a
  file of either ending, both, a mark or none.
* `tool_servers`: two servers that list the same tool, absent, disabled or enabled
  at the start; two connections in all, so that one can be late, ending or
  replaced while another of its name or of the other name is used; two test
  threads, so that a test that was left can overlap the next.

### Fairness

`HarnessTurn` assumes weak fairness of what the thread of a turn does by itself
(`Proceed`): a provider's stream and the summarizer end or time out (the HTTP clients
have timeouts), and the consumer keeps consuming or lets go. Of a call of a batch
(`RunCall`) nothing is assumed: it may wait for an approval, and neither the gate
(`loop.py` 905) nor the bridge (`turn_bridge.py` 131) has a timeout. That is why the
property is "ends unless a call hangs". Nothing is assumed of the user: no turn has
to start, no cancel has to come. `MCStep` assumes it of the thread of a batch and of
the pool, and not of the human, so a batch may wait at its prompt for ever; that is
why the property is "ends or asks". `TuiTurn` assumes it of the worker, of the app's message handlers and of
the exit of a loop that was told to end, and of no key. `ToolServers` assumes it of
the app's thread, whose waits for a server all have a timeout; no server has to
connect, to answer or to go away, and no key has to be pressed.

`ModelSwitch` assumes that a fetch for a provider ends (`http_timeouts.py` gives
it a timeout) and that the app handles its messages; `ProviderStream` that a call
that waits hears something, or times out; `Workspace` that a command whose pipes
are closed, or whose time is up, goes on. `Transcript`, `Delegation` and the four
modules of `MCHome` state safety only and no fairness.

## What is proved

Each theorem holds for every value of the constants under the assumption its
module names (`TurnAssumption`, `WindowAssumption`, `BatchAssumption`,
`TuiAssumption`, `ServerAssumption`, `ModelSwitchAssumption`,
`ShowsAssumption`, `DelegationAssumption`, `CallAssumption`, `WorkAssumption`,
`HomeAssumption`):
limits are numbers, sets are sets, the bounds are any number. The runs evaluate
every one of them. Each theorem has the same shape: an invariant that says more
than the property, a lemma that every step keeps it, with one step per action,
and the usual temporal step. What is worth reading is the strengthening.

| Module | Theorem | States | Inductive invariant |
|---|---|---|---|
| `HarnessTurnProofs` | `TypeCorrect` | `[]TypeOK` | `TypeInv` |
| | `TurnBounds` | `[]TurnIsBounded` | `BoundInv` |
| | `AccountsSettle` | `[]AccountsAgree` | `SoundInv` (`BoundInv` and `AuditInv`) |
| | `ClosedIsSaved` | `[]ClosedTurnIsDurable` | `SoundInv` |
| | `CancelIsPrompt` | `[]CancelEndsTheStep` | `SoundInv` |
| | `HistoryStaysSound` | `[]HistoryIsSound` | `HistoryInv`, by where the thread stands |
| `ContextWindowProofs` | `RequestsAreSound` | `[]RequestIsSound` | `WindowInv` |
| | `CompactionsAreSound` | `CompactionIsSound` | `WindowInv`, `RecentKept` |
| `ToolBatchProofs` | `BatchTypeCorrect`, `BatchIsSafe` | `[]TypeOK`, `[]EffectsAreSafe` | `BatchInv` |
| | `BatchKeepsContract` | `Contract!SafeSpec` | `BatchInv` |
| `TuiTurnProofs` | `ScreenTypeCorrect`, `TurnsAreApart` | `[]TypeOK`, `[]TurnsStayApart` | `ScreenInv`, `EndIsLast`, `AnswerInv` |
| `ToolServersProofs` | `ServersTypeCorrect`, `SessionsOpen` | `[]TypeOK`, `[]SessionsAreOpen` | `TypeInv` |
| | `SavedIsMounted` | `OnlySavedAreMounted` | `MountInv` |
| | `HandlesLostOnlyByTimeout` | `[]LostOnlyByTimeout` | `ReachInv` |
| | `CloseLeavesOnlyLate` | `[]CloseStopsServers` | `ReachInv`, `ClosingInv`, `ClosedInv` |
| `AppProofs` | `LinesAnsweredOnce` | `[]OneAnswerPerLine` | `SwitchInv`: `PendingInv` |
| | `KeysAreTested` | `[]StoredKeyWasTested` | `SwitchInv`: `ChainInv` |
| | `BareNamesResolve` | `ResolvesWhereTyped` | `SwitchInv`: `PendingInv` |
| | `ModelIsComposed` | the `Spec` of `ModelSwitch` | |
| | `AppTypeCorrect` | `[]AppTypeOK` | `SwitchTypes`, `TypesInv` |
| | `TranscriptStaysFaithful` | `[]TranscriptIsFaithful` | `FaithInv`: `LogInv`, `ConvInv`, `KeptInv` |
| `AgentsProofs` | `CallsKeepContract` | `CallContract`'s `SafeSpec` | `CallInv` |
| | `EditsAreMadeAsShown` | `EditsAreFaithful` | `WorkInv` |
| | `StackTypeCorrect`, `DelegatesContained` | `[]TypeOK`, `[]DelegationIsContained` | `DelegationInv`: `BusInv`, `DelegatesOnlyTighten` |
| | `DelegatesAreBilled` | `SpendIsCounted` | `DelegationInv`: `SpendInv` |
| | `DelegationIsComposed` | the `Spec` of `Delegation` | |
| | `AgentsTypeCorrect` | `[]AgentsTypeOK` | `CallInv`, `WorkInv`, `SentInv`, `DelegationInv` |
| `HomeProofs` | `TraceIsReadBack` | `[]TraceReadsBack` | `ReadInv`: `TraceInv`, `EventsInv`, `NamesInv` |
| | `PromptsSurvive` | `PromptsAreKept` | `HistoryInv`: `FilesInv`, `WalksInv` |
| | `SavesAreConfirmed` | `ConfigurationIsKept` | `ConfigInv`: `DialogInv` |
| | `SessionsSurvive` | `SessionsAreKept` | `StoreInv` |
| | `HomeTypeCorrect` | `[]TypeOK` | `HomeInv`, all of these |

**The turn.** `TypeOK` says that a batch has no more results than calls and that
a turn is open in the ledger while its frame exists, which is not inductive as it
stands: `TypeInv` adds `FrameInv`, which ties the fields of the frame to the
place where the thread stands. For the bounds, the cap is checked before a step
and charged in it, so the overrun has to be followed through the step: requests
are the steps counted plus the one in flight (`StepsInv`), and the money is
bounded by where the thread stands (`CostInv`). That the accounts agree needs the
same bookkeeping with equality: at each place it is known what the breaker, the
read-out and the session have not seen yet. A closed turn is durable because
every way to close one saves first; a cancel ends the step because between two
looks at the flag there is one call of the summarizer and one request, or one batch,
so that the late calls are those of the place the cancel found the thread at.

**The history.** For `HistoryStaysSound` the positions the frame holds have to
mean something in a history that is rewritten under them: where the turn and a
continued answer began, that what lies behind them was written by this turn, and
that a turn that is not running is closed. What is saved is sound as well, or a
resume after a crash would not be. A compaction keeps the anchors because its cut
never lies in front of a result: the first part of the module proves what the
operators of `WorkingMemory` return, for every history.

**The window.** The trim and the token count are recursive functions of the code's
loops, so the lemmas about them are inductions over the length of the history:
what is kept is a suffix, it fits or is one message, the one in front of it would
not have fitted, and it starts with no result. The invariant joins the last
request to the history it was cut from, which stays what it was until its answer
comes (`WindowInv`). For a compaction, that the last `KeepRecent` messages are
still the last ones, and only the first of them may be longer by a summary
(`RecentKept`): the merge in front of a kept ask moves every position by the
same amount.

**A batch.** A batch is concurrent or it is not, from its beginning to its end,
and the invariant has a part for each. Alone, the calls behind the one at hand
are answered and have begun in order. In a concurrent batch every call without an
answer waits in exactly one place: still to be resolved, queued, running, or on
the list of the calls that run alone, which is in call order and holds no read.
From the same invariant every step is a step of `BatchContract` or leaves its
variables alone (`BatchKeepsContract`): `HarnessTurn` may rely on it for batches
of any length over a pool of any size. `SafeSpec` is the contract without its
fairness.

**The TUI.** The argument is about the queue: the worker posts nothing while it
waits for an answer and nothing after the end of its turn, and the app handles the
messages in order. So a question is always the last message, the end of a turn is
too, and an app that takes a prompt has nothing left to handle. While the app is
not closing there is one question at most, and nobody has answered it.

**The tool servers.** A session is entered by its own task, and every end of a
task clears its name, so a step that leaves the tasks alone may only drop entries
(`SessionsKept`). Only three steps touch the registry (`RegistrySteps`), and what
they mount is in the configuration because of `MountInv`: while the harness is
built, whatever is started, waited for or listed comes from the configuration
(`BootInv`), and at a save the draft was just written. That a server is lost only by a
timeout (`ReachInv`) rests on there being one start at a time while the app waits for its
threads: the task of a name that nobody waits for is the one `owned` knows, and
the one under test is the one of the chain on screen. A task that lives and was not
told to end is then owned or was given up at a timeout. The app that closes goes
through all it owns (`ClosingInv`), so nothing else is left when it is done
(`ClosedInv`). Where the user leaves a test, or the app, before the test reports
(`hasty`), nothing is claimed, as in the properties.

**The model.** For the lines: numbers of waiting lines differ, each waits for a
provider that is marked as being fetched, each mark has a fetch or a message, and
the answers given are the lines typed less those that wait. For the keys: as long
as no manager was opened over a fetch of another (`~mixed`) there is one chain at
a time, whatever is on screen or on its way belongs to its row, and its key is
for that row. `BareNamesResolve` follows from what each waiting line remembers:
the name it waits for is the one its own provider's adapter gives.

**The transcript.** `TranscriptIsFaithful` has three parts, none of which is
inductive. That the log shows every entry (`LogInv`) needs the order of things: an
entry that is still growing is the last one, what it has not shown is in the buffer,
and the calls that wait are behind everything the log shows, so that their marks come
in the order of the entries as long as the log was not written to past an unfinished
one (`stirred`, in the property too). That a block shows its own result needs more than names, because
two calls of one tool look alike: the calls of a conversation are numbered in the
order they are made (`ConvInv`), and the calls announced and not yet answered are
exactly those the worker has still to report, in that order (`Due`), so that the
oldest block of that name is the one whose outcome comes next. That a resumed
conversation shows the same is a balance (`Tells`): what the entries say, then what
the messages on their way to the screen will add, is what the conversation says, then
the reply under way. Each action moves a piece from one side of it to the other,
and at the prompt nothing is on its way. A continued answer is many streamed
replies and one message; what they say is the same because both are concatenations
(`Cat`, `FlatMap`), and the lemmas about `FlattenSeq` are inductions over the
length of a sequence. While the model is being chosen, the transcript rests
(`TypesAlways`, `FaithAlways`).

**A model call.** While it is under way, what was shown is exactly what its
attempt has received, so an attempt that showed anything is never given up for
another (`CallInv`). With that, each step is one of `CallContract`: the text of
the completion is the text that was shown, whatever the budget of retries.

**Edits.** A preview is compared with the file the tool reads later: the two are
the same file unless somebody wrote it (`ShownIsCurrent`, `ReadIsCurrent` in
`WorkInv`). That the lines an edit does not name come out as they were is
followed through `str.replace` and the change of line endings line by line.

**Delegation.** Money lies in three places while sub-agents are under way, and a
sub-agent three levels down pays into an accumulator its caller does not look at.
`SpendInv` adds up what the frames hold, from the bottom of the stack to its top:
there is a function of partial sums (`Held`), which a push extends, a pop cuts and
a call changes at its last value, so that no induction over the stack is needed.
What was paid for is what is counted, waits in the accumulator, was lost or is
held, and the accumulator is empty unless the turn has a result to observe. The
bus is in pairs, and the supervisor is alone exactly between two of them
(`BusInv`). The limits (`DelegatesOnlyTighten`) are inductive with the types. In `MCAgents`
the module's steps are taken while it has the focus and nothing else touches its
variables, so that what is proved of it holds there (`DelegationIsComposed`).

**The trace.** A session reads its events back from the oldest generation to the
live file. Events of one session rise in each file, and from an older file to a
newer one (`FilesRise`, `SessionsRise`), names are given to files in the order of
their age (`NamesDescend`, `LiveIsLast`), and every event that was written is in
its file as long as that has a name (`AllKept`). That is enough for the order and
for the newest of them, whatever processes do. For *without a hole* it takes more:
no file between two that have a name is without one, and the name a rotation gives
next is free (`NoneBetween`, `NextIsFree`), which holds until two rotations overlap
or one finds a file held (`raced`). The cap rests on each process counting what it
wrote itself: its size is never less than its events in the file it has open, and
one that has moved the live file away has nothing in the one made since
(`CapsHold`).

**The prompt history.** What each session has in memory, and the file, is in the
order of all that was sent (`InOrder`, a matching of positions), and as long as no
session went over its cap the file is all of it. The draft is safe because a
composer that walks shows an entry and keeps what was typed (`Walks`).

**The configuration.** A dialog holds the text of its file with the edit made in
it, and that file is still the one on the disk if nobody wrote it (`DialogInv`).

**The store.** What the row of a session holds is in the memory of the process
that has it open, or archived, or excused by what the property names
(`Remembered`); an ask that was answered has its episode (`Covered`). With these,
a save that overwrites a row, a compaction and a retention at a start lose nothing.

### Only model-checked

Liveness under fairness (`TurnsEndUnlessACallHangs`, `EndsOrAsks`, `PromptComesBack`,
`QuitEndsWorker`, `UiReturns`, `LinesAreAnswered`, `CommandsReturn`) is out of
the prover's reach, and so is the liveness of the two refinements
(`KeepsContract`, `KeepsCallContract`): their safety is proved. Every other
property of a passing run is stated by a theorem.

## What is not modelled, and why

* Text: prompts, the wording of notices, redaction, rendering, mentions, the
  parsing of TOML and of wire formats.
* Numbers that are data: prices, embeddings and their ranking, model tables.
* The guardrail scanners and the skill loader: pure functions of text and of
  files read at the start. Reading, listing, searching and web tools: they
  answer a call and keep nothing.
* Semantic memories: rows added and removed one at a time by the user or by the
  model, never by retention.
* Which paths a sandbox admits is an input of `Workspace` (`inside`).
* llama.cpp: in the process, without a retry.
* The active skill of a sub-agent: it works on a copy of the harness's context,
  and one it delegates to starts from the harness's again and not from its
  caller's (`subagent.py` 50-53).
* `MessageBus.receive`, `drain` and `pending`, which nothing calls.
* A commit that fails after its statement succeeded (`Store` refuses the two as
  one), and a cap of zero rows in `memory prune`, which is the cutoff of now.
* Calls of a tool server's tools, its secrets and the text of its configuration.
* What HTTP, asyncio, Textual, the keyring and docker do inside.
* The slash commands and CLI commands that only print.

## The plan

Modelled and checked: the turn and its window (`HarnessTurn`, `ContextWindow`),
its batches (`ToolBatch`), its threads (`TuiTurn`, `Transcript`), its servers
(`ToolServers`), its model (`ModelSwitch`, `ProviderStream`), its delegates
(`Delegation`), its tools (`Workspace`) and its files (`MCHome`).
Everything a run checks of them is proved for every value of the constants, but
for what has to happen eventually. The next parts would be the guardrail scanners
and the skill loader, which keep no state.
