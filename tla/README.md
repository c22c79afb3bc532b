# ASRI in TLA+

A verification project for the backend of ASRI, the agent service under
`src/backend`: TLA+ modules for the parts of it whose correctness depends on
the order in which things happen, TLC runs that check them on small instances,
and proofs, checked by TLAPS, of what must hold for every instance. Line
numbers refer to the sources beside this directory; `backend/apps/` is left out
of paths.

## 1. The system

ASRI serves chat sessions. A request enters over HTTP, server-sent events,
long polling or a WebSocket; `ChatService` loads the context of the session,
builds a `ChatAgent` and forwards what it streams; the agent drives a pipeline
of processors that alternate between an LLM stream and tool calls; hooks may
stop, change or hold up a tool until the user confirms it. Everything runs on
one asyncio loop per process. State is either in the database (rows written
through `sync_to_async`, so every access is an await) or in module-level
dictionaries of the process.

### Components

| component | state | operations | talks to | what is hard | what makes it correct |
|---|---|---|---|---|---|
| Chat streams (`services/chat_service.py`) | `_streaming_sessions`, `_stream_done_events` (by session id), the context row, the assistant message and its `stream_status` | `stream_chat`, `stream_chat_with_snapshot`, `interrupt_session`, `batch_chat`, `chat_with_snapshot`, `chat` | session store, agent, hooks | a new request interrupts and awaits the old one; 5 s time-out; disconnects and failing writes at every await; requests that do not register | no turn is lost, the registry names a live stream, messages get a final status, every request ends |
| LLM/tool round (`agent/pipeline/processors/full_duplex_llm_processor.py`, `agent/pipeline/state_machine.py`, `agent/agent/chat_agent.py`) | message list, calls and results of the round, pending set and counter, condition, state machine | the loop of `_handle_llm_call`, `on_tool_call`, `_handle_tool_result`, the consumer's `stream` | executor, LLM provider | tools end while the model streams, while the loop waits, or after the run; handlers that raise | calls and results stay paired, the waiter is woken, a run ends |
| Tool executor (`agent/pipeline/processors/async_executor.py`) | tasks, queue, `_is_executing` | dispatch, queue worker, retry, time-out | handlers, processor | worker start and stop race dispatch | one end frame per call, nothing stranded |
| Tool confirmation (`agent/hooks/confirmation_*.py`, `agent/executor/action_executor.py`) | store of entries, confirm queue | ask, wait, respond | stream, client | answers race two time-outs and come by two ways | nothing runs unapproved, the model is told the truth |
| Long polling (`services/long_poll_service.py`, `api/http/poll_chat.py`) | tasks by message id: chunks, status, two events | start, run, poll, cancel | `stream_chat`, client loop | polls share events; status changes after the last chunk; lost answers; restart | each chunk once, in order; the client stops with all of them |
| Hooks (`agent/hooks/base.py`, `registry.py`, `tool_rule_deny_hook.py`) | instances per tenant, rows | dispatch, load, save, invalidate | ORM, tool calls | cache filled across an await, saves in threads | a saved configuration is used; what a rule forbids does not run |
| Version snapshots (`services/version_service.py`) | version rows, the entity | create, activate, delete, and the views that edit the entity | ORM | queries of concurrent requests, half of them in transactions | unique numbers, one active version, which is what the entity holds |
| Session snapshots (`services/snapshot_service.py`) | frozen configuration | capture, delete, resolve, restore | ORM, live registries | capture across awaits, edits of everything it names | a chat gets what was frozen |
| Output extractors (`agent/parsers/`) | buffer, open tag, tool text | feed a chunk, flush | processor | a tag cut by a chunk boundary | result independent of the cuts |
| LLM providers (`integrations/llm/*_provider.py`, `response_parser.py`) | one HTTP response | stream | processor | interleaved deltas, several things in one chunk, early ends | each call whole, once |
| MCP (`integrations/mcp/`) | configuration and shared client, pending futures, a subprocess | register, connect, call, unregister, exit | remote servers | several callers and loops, late answers, exits | a caller gets its own answer, and some answer |
| Tool registry and reload (`integrations/tool/`, `tenant/registry.py`, `api/http/admin_config_sync.py`, `mcp_config.py`, `tool_config.py`) | rows, `config_json`, `TenantRegistry`, hash, registries | enable, put, toggle, delete, refresh, reload | ORM, MCP | four copies in step, requests in threads, one lock | registered exactly if the row is active |
| LLM configuration (`api/http/llm_config.py`, `integrations/llm/registry.py`) | rows, copy in `config_json`, its cache | create, put, delete, enable, disable, look up | ORM, chats | several queries per request, no transaction | one default; no chat gets a model that was off |
| Skills (`api/http/skill.py`, `integrations/skill/`) | directories with SKILL.md, registry | create, upload, put, enable, delete, refresh | file system | names in files, case, failing writes | the registry is what a scan would find |
| Session store (`services/session_service.py`) | sessions, messages, contexts | CRUD | ORM | `create_session` checks, then inserts | one session per external id |
| Prompts, built-in tools, RAG, memory, other REST views, frontend | none of their own worth a model | | | | |

`PROJECT.json` lists every component with its sources and status, and 40
hazards, each at its line with the properties that cover it or the reason why
none does.

## 2. Modules

```
StreamSession ------ StreamSessionProofs        MCStreamSession
ToolConfirmation --- ToolConfirmationProofs     MCToolConfirmation
LongPoll ----------- LongPollProofs             MCLongPoll

ToolCallPath ------- ToolCallPathProofs         MCToolCallPath
  LlmStream
  TagExtractor                                  MCTagExtractor, MCAnswerTexts
  ToolRound -------- ToolRoundProofs            MCToolRound
    implements ToolCalls
  ToolExecutor ----- ToolExecutorProofs         MCToolExecutor
    implements ToolCalls
  McpServer -------- McpServerProofs

TenantConfig ------- TenantConfigProofs         MCTenantConfig
  Hooks (uses DenyRules)
  VersionSnapshots
  SessionSnapshots
  ToolCatalog
  LlmProviders
  SkillFiles
```

In every module an action is the code between two awaits that can suspend, or
one database query where requests run in threads, and a program counter names
the place at which a request, task or tool stands. Messages are reduced to what
the properties tell apart. Where a module shows an operator named like another
with a suffix, preceded by "Mutant of", it is a plausible bug in that operator;
no specification uses it. It documents which change of the code each property
would notice.

`ToolCallPath` and `TenantConfig` put components side by side, each an INSTANCE
over variables of its own. In one behaviour one of them (`part`, `area`) moves
and the others stay at rest in one initial state: they share no state in the
code, what they promise each other is the abstract `ToolCalls` (or nothing), and
so their product would only multiply states. One run answers for all of them.
`ToolCallPath` instantiates the modules of proofs of its components instead of
the components themselves, which adds nothing to the model but lets its own
theorems cite their lemmas.

### StreamSession - the streams of one session

`pc[r]` is the await at which request `r` is suspended; `registered` is the
owner of the two events stored under the session id (they are written and
popped together); `intr` and `doneSet` are those events; `ctx` is the set of
turns in the persisted context, `history[r]` what `r` loaded, and saving writes
`history[r] \cup {r}`. `stream_chat` and its snapshot twin have the same
control; one set of actions stands for both.

* entering (509-527): `StartFresh`, `StartBehind`, `Wake`, `TimeOut`;
* preparing (529-632): `LoadContext`, `CreateRows`, `Admit`, `Refuse`;
* the loop (634-765): `AgentBegins`, `InterruptSeen`, `StopSeen`, `Answer`,
  `DoneSeen`, in the order in which the code tests;
* leaving (642-701, 778-794): `InterruptSave`, `InterruptMark`, `StopMark`,
  `DoneMark`, `FinalSave`;
* the finally block (796-837): `FinallySave`, `FinallyMark`, `Release`;
* `Kill` (disconnect, cancellation or an exception of the agent, at any await,
  the finally block included) and `WriteFails` (a database write raises);
* `InterruptSession`, and `PlainLoad`, `PlainSave` for the requests that do not
  register.

`crowded` and `timedOut` are history variables that define `Quiet`: no request
arrived while another waited, and no wait timed out. The strong properties hold
in a quiet session and are stated so; `stream_one_active` shows why the
hypothesis is needed. `RegistryLive` needs none.

### ToolCalls, ToolRound, ToolExecutor - tools under a streaming model

`ToolCalls` is the contract between them: a call is made once and ends once,
later or within the dispatch itself. `ToolExecutor` implements it from the side
of the executor (both modes, the queue, its 0.5 s idle wait, the retry of an
empty result, an unknown function); `ToolRound` uses it from the side of the
loop. The refinement mappings are in the modules (`ImplementsToolCalls`,
`UsesToolCalls`).

In `ToolRound`, `asked` and `replied` are the calls in the assistant messages
and the tool messages of `_generic_messages`; `buffered` is
`_pending_tool_results`; `count` is the counter of the condition and `pending`
the set of the state machine, two books of the same thing kept in different
places. `Abandon` and `Close` are a consumer that stops iterating: the context
is read first and the generator closed some time later, while tools run on.
`_send_async_tool_calls` (578-637) and the branch at 491-541 are not reachable
(every call goes through `on_tool_call`), and no code sends
`FunctionCallCancelFrame`.

### LlmStream - from lines to calls

A plan is what a model answers: pieces of text and of reasoning, and calls,
whose arguments are cut into pieces (deltas). A chunk carries any of these at
once; the parsers of `response_parser.py` keep the first kind they find, so a
delta that shares its chunk with text is lost, and `incomplete` records it.
`buffers` is `tool_call_buffers`, by index, `sentIds` the ids already
dispatched. `StreamEnds` covers `[DONE]` and a response that just ends;
`StreamBreaks` an error status or a broken connection; `BadLine` what the
gateway's provider, unlike the other two, does not catch. The interrupt of a
tool (`Chunk`, last choice of phase) leaves the loop and flushes what has come.

### TagExtractor - calls in text

The alphabet is symbols: `<`, `/`, `>`, a back-tick, braces, words. `Read` takes
a chunk of any length; then the drain loop runs, one action per branch of
`_drain_outside` and `_drain_inside`. `said` is what the mapper passed on, by
key, `parsed` the tool calls it parsed from `toolText` (`_tool_buffer`, which is
never emptied between two calls with one key). `Meant` is the reference: it
knows the segments the answer was written from. `cut` says that a chunk ended
inside a closing tag.

A reference needs answers with one reading (`Readable`, in the module's named
assumption): a tag in a body stands between two back-ticks of the body, nobody
puts a back-tick right before a tag that is meant, a text outside begins no close
tag, a tag that only the next one ends holds no lone bracket, and the text of a
call parses. Two segments could otherwise make up a tag together, or a cut decide
whether a tag is escaped (the extractor takes the end of the buffer for a
back-tick when one stands before the tag).

### McpServer - one server, several callers

The configuration may be registered again and removed; `published` is the
client in it, `link` the state of each client ever made, `running` its process,
`futures` the pending requests with their loops, `requests` what the process
has been asked. Callers share a client if they run on its loop; `Threadings`
says which callers have loops of their own. A client is published before it is
connected, so a caller may find one that is not. A caller that has connected its
own reads `published` again (`Initialized`): a caller of another loop may have
put its client there, in whatever state, and then the call goes out on that one,
from a second thread. There the increment of the id is no one step (`Numbers`),
and two requests may get one id; the later future then takes the place of the
earlier. `torn` names the clients this has happened to, and `OwnAnswer` claims
nothing of calls over them. `OwnMessage` is a server that sends a request of its
own with an id of ours; `ProcessExits`, time-outs and cancellation happen at any
point.

### ToolConfirmation - the user in the loop

One stream, calls with at most two attempts (the executor repeats an empty
result), a confirmation per attempt. The time-out of the confirmation and the
executor's, which began earlier and covers it, may both fire while the call
waits. An answer by HTTP request arrives at once; an answer on the WebSocket
that carries the stream is received only when the consumer has returned from
the message that started the stream (`api/websocket/chat_consumer.py:126,
174-182`). `accepted` records the answers for which `respond` returned true,
`executed` the attempts whose tool ran.

### LongPoll - one polling task

`Poll` are requests in flight, of which the client waits for at most one;
giving up leaves the others running. The client is the loop of
`docs/chat-api_en.md:749-769`. `woken[p]` is true when an event fired after `p`
began to wait; `PollWaits` clears the shared event, which can take a wake-up
from nobody because an event that was set has already woken its waiters.
`Restart` forgets the task ("gone"); `chunks` then remembers what the client
can no longer ask for.

### Hooks, DenyRules - what stands before a tool call

`hookRows` are the rows of one tenant in priority order (`Hook` lists them newest
first, the order of the query); `instances` is the cache. A chat looks up, reads
the rows across an await, fills the cache row by row and walks its own list
(`loaded`), each hook allowing, denying, rewriting the arguments or raising, which
counts as allowing (`HookRaises`). Editors save
rows, then invalidate, in a thread. `suspect` says that a save overtook a load,
after which the cache is stale until the next save. `DenyRules` is the rule
language as functions of the arguments: paths with wildcards through lists and
objects, the comparison, and what text that is no JSON does to both. A rule may
be `faulty`: a message that cannot be filled in, or something else than texts
among its values, so that it may raise where it finds a value, and then what it
forbids runs. `RulesHold` is about the rules without a fault, among and behind
those with one; for a rule with one the docstring of the class ("any single
condition in any rule being triggered results in DENY") does not hold, and
nothing is claimed.

### VersionSnapshots, SessionSnapshots - what was, kept

In `VersionSnapshots` `stored` is the row of each entity, `versions` the list of
version rows ever made, `place[r]` the query a request stands before, `held` what
it has read. Requests read the entity before their transaction; deletion checks
and deletes separately; restoring a skill fails, always, after the version was
made active, and rolls back. `crossed` marks entities on which two requests
overlapped, `failed` those where one was cut short; only the last conjunct of
`VersionsSound` is limited to the others.

In `SessionSnapshots` `row` and `live` are tools and skills in the database and
in the registries, `template` and `model` the active prompt and the providers.
The capture awaits between its parts; `during[i]` is every value an item had
while it ran. A chat restores strictly (`use_snapshot_config`), where the frozen
names are looked up in the live registries, or tolerantly, where the frozen
contents are used and what the snapshot lacks comes from the live configuration.
Either way a provider with `auto_tools` (`AutoTools`) sends the model the tools of the
live registry instead of the agent's list (`SentLive`). `reloaded` names what has
changed in the registries. `FrozenStaysFrozen` says that everything is as it was
captured, except such changed items where a chat takes them from the registries;
the documented promise of `chat_with_snapshot` (`chat_service.py:955-957`: skills
and tools frozen, no live configuration) is kept up to that exception only.

### ToolCatalog, LlmProviders - rows and their copies

`ToolCatalog` follows a tool from its row to `config_json`, the
`TenantRegistry`, the hash and the registry of instances, one query or one
stretch between awaits at a time, and MCP servers by their own short-cut. The
periodic reload holds the registry's lock; it ends "stuck" if the interval is
over again before it lists the tenants. `LlmProviders` does the same for the
model of a tenant, with the chats that look for one between the queries.
`overlapped`, `interleaved`, `unsynced`, `bypassed` mark the behaviours in which
the code does lose updates, `lapsed` those in which a request has failed after its
first save or its reload has raised and been swallowed (`RequestFails`,
`ReloadFails`); the properties are about all others. A load may be unable to make
any of the configured tools and goes on without them; they are `unloaded`, and
"registered exactly if the row is active" is claimed of the rest.

### SkillFiles - directories and the registry scanned from them

A file is none, a directory without a readable SKILL.md, or one with a name and
a content. Every request that scans registers what it finds under the lower-case
name in the file, whatever the directory is called. `drifted` names the ways in
which registry and files part: a failed write, a directory that shares its key.

## 3. Runs

| run | instance | checks | expected |
|---|---|---|---|
| `stream_overlap` | 3 streams (symmetric), time-outs, no failures | `RegistryLive`, `SerialWhenQuiet`, `DoneMeansEnded`, `SuccessorSeesPredecessor` | pass, 1.4 million states |
| `stream_faults` | 2 streams, 1 unregistered request, time-outs, one failure | `TypeOK`, `TurnsKept`, `SettledUnlessMarkFails`, `CompletedStays`, `InterruptTakesEffect`, `EveryRequestEnds` | pass, 0.4 million |
| `stream_one_active` | 3 streams, no time-out, no failure | `OneActiveRequest` | violated |
| `calls` | see the bounds below | `PathTypes`; stream and text: `CutsDoNotMatter`; round: `CountsAgree`, `NoLostWakeup`, `CalledWithWholeRounds`, `ResultsBehindCalls`, `HandedWhole`, `OneDone`, `UsesToolCalls`, `RunEnds`; executor: `OneAtATimeUnlessHasty`, `ImplementsToolCalls`; MCP: `OwnAnswer`, `CallsReturn` | pass, 0.18 million |
| `tool_semantic` | 2 tools, strategy semantic_complete | `LastReturnInterrupts` | violated |
| `tool_sequential` | 2 calls | `OneAtATime` | violated |
| `split_close` | one call in tags | `SplitTagsWork` | violated |
| `confirmation` | 2 calls, 2 attempts each | `TypeOK`, `OnlyApprovedRuns`, `OutcomeIsTrue`, `EveryCallEnds` | pass, 0.27 million |
| `confirmation_late` | 1 call | `AcceptedOnlyWhileWaiting` | violated |
| `long_poll` | 3 polls, 3 chunks, 2 lost answers | `TypeOK`, `ExactlyOnce`, `StopsWithEverything`, `NoLostWakeup`, `LoopEnds` | pass, 0.26 million |
| `long_poll_status` | the same | `StatusIsDocumented` | violated |
| `admin` | see the bounds below | `ConfigTypes`; hooks: `HookCacheFresh`, `RulesHold`; versions: `VersionsSound`; snapshots: `FrozenStaysFrozen`; tools and models: `CatalogFollowsRows`; skills: `SkillsFollowFiles` | pass, 2.9 million |

Run one with `tlc -workers 2 -config stream_overlap.cfg MCStreamSession.tla`.

**Bounds.** Three streams are the least for every overlap that differs: one
that runs, one that waits, one that arrives or waits too. One failure per
behaviour (`fault`): the code promises to survive one, and a second failure of
the last-resort write loses the turn by design. Two streams suffice with
failures because only the owner of a turn and the request after it are
concerned. Three tools give a round with one result before the end of the
stream, one during the wait and one that raises; two iterations give a first
round, a last one and the iteration limit. Two confirmations per call are not a
bound but the executor's limit. Five plans hold what a
model can do to its calls (three pieces with text and reasoning in between,
indexes out of order, an id missing, repeated ids, repeated indexes); answers in
tags are two segments, with lone and escaped brackets inside, and every cut of
them is tried. Two callers share a client, or one has a loop of its own, and the
server is configured twice: once to be removed under a caller and once more to
be found by the other. Three polls allow one that waits, one that was
given up and still runs, and one that repeats; three chunks allow a lost prefix,
a repeated one and news. In `admin`, two chats, one
editor and two hooks let a save come between the queries of two loads; three
requests on a prompt and a skill let a creation, an activation and a deletion
overlap; a rule with a fault, one without, a hook that rewrites and one that cannot be
made stand before and behind each other; two edits fit between any two awaits
of a capture or a restore, one of the two providers' values has `auto_tools`; two
administrators and the periodic reload can overlap in every way; two models and
two requests with a chat between their queries give two purposes and every
order of enabling; of the three skill names two differ in case only. `MaxEdits`,
`MaxSaves`, `MaxConfigs`, `MaxIter`, `MaxChunks`, `MaxLosses` are the bounds that
are not in the code. Symmetry is used only in `stream_overlap`, which checks
invariants alone. `admin` alone switches deadlock detection off: requests run out
there, and the modules have no fairness to speak of; elsewhere the states in
which everything is over stutter by a named action (`AllServed`, `Over`).

**Fairness.** The event loop runs what can run, so every continuation after a
satisfied wait is weakly fair, and so are its timers: the 5 s of a waiting
stream, the executor's 30 s, the worker's 0.5 s. `EveryRequestEnds` needs the
first: after a time-out a stream's done event may be popped by another stream
and never be set for the request that waits for it. A running agent goes on to
its last chunk: its iterations are bounded by `max_iterations`, and the executor
bounds each tool by `timeout_seconds` (full_duplex_llm_processor.py:430). New
requests, interrupts, cancels, answers of users and failures are never assumed
to happen. In `LongPoll` the client goes on asking, as its loop does, and the
stream ends, which is `EveryRequestEnds` of `StreamSession`. In `McpServer`
fair are what the event loop and its timers do (a start that works or fails, an
answer or its time-out, the end of a clean-up); nothing is assumed of the server.
Administrators' requests are not assumed to go on; the areas of `TenantConfig`
have safety properties only.

## 4. What the violated runs show

Six statements of the documentation, a docstring or a test do not hold of the
code; `PROJECT.json` quotes them under "findings".

* `stream_one_active`: two requests that wait for the same stream start
  together, each with the same context, and the later save overwrites the other
  turn. Neither time-outs nor failures are needed.
* `tool_semantic`: the strategy compares the counter before the decrement, so
  the last tool's return does not interrupt the model.
* `tool_sequential`: `_is_executing` is set by the worker, not by whoever
  creates it; two calls queued at once run in parallel.
* `confirmation_late`: a request that timed out still accepts an answer and
  confirms it to the client.
* `split_close`: a chunk that ends inside a closing tag passes the text on as
  incomplete, and the rest of the tag completes nothing; the tool call in it is
  never parsed.
* `long_poll_status`: a cancelled task answers "cancelled", which the
  documented client loop does not end on.

## 5. Proofs

All theorems are about the specifications as they are, for every value of the
constants that satisfies the named assumption of the module. Each module first
proves its types, then an inductive invariant, then what follows from it.

**StreamSessionProofs.** `TypeCorrect` is inductive alone. `RegInv` proves
`RegistryLive`, `SerialWhenQuiet` and `DoneMeansEnded`: none is inductive, since
waking a second waiter, or releasing while somebody else is registered, must be
excluded. `QuietInv` adds that whoever is inside owns the registration, that
at most one request waits, and that it waits for the only stream inside; then a
wake-up finds nobody there. Steps are split into those that leave the registry
alone (`Inner`) and the six that do not (`Outer`). `MarkInv` ties the status of
a message to the program counter and the failure, and gives
`SettledUnlessMarkFails` and `CompletedStays`. `TurnInv` builds on both: in a
quiet session only the registered stream writes the context, and what it writes
contains what is there (`ContextGrows`), so a turn once saved stays; it gives
`TurnsKept` and `SuccessorSeesPredecessor`.

**ToolConfirmationProofs.** `ApprovalInv` says that a confirmation leaves no
trace before its attempt (`Fresh`), that only shown ones are answered (`Seen`),
that an entry is exactly what was accepted (`Recorded`: hence never two
contradicting answers), and that the phase of a call tells whether its current
attempt ran (`Executed`). `OnlyApprovedRuns` and `OutcomeIsTrue` follow.

**LongPollProofs.** `PollInv` says that the client holds a prefix of the chunks
and waits for the rest (`Asked`), that every answer is a slice of the chunks
whose final status comes with the last of them (`Sliced`), and that a stopped
client has everything (`Complete`). The lemmas about `SubSeq` (a slice of a
longer sequence, two adjacent slices) are proved once. `ExactlyOnce`,
`StopsWithEverything`, `NoLostWakeup` and `FinalStays` follow.

**ToolRoundProofs.** `RoundInv` has a part for each book the code keeps.
`Sorted` says that the calls of a round are the pending ones and those with a
result; `Accounted` that a call of the run is pending, answered in the context,
or its result buffered, and that between rounds the context is whole; `Counted`
that the counter is the number of pending calls and of broken ones; `Ending` in
which states a run ends. `NoLostWakeup` is inductive beside them. The one step
that moves a whole set between two books is the flush of the buffer, which has a
lemma of its own (`FlushAccounts`). `RoundKeepsPromise` is the safety part of
`UsesToolCalls`.

**ToolExecutorProofs.** `Alone` says that of the tasks that may take from the
queue at most one is alive, unless one was created hastily; with it
`QueueRunsOneCall` is inductive. `Waiting` says that what is in the queue is
called, not begun, not ended, and there once; it gives
`CallsBeginOnce` and `ExecutorKeepsPromise`, the safety part of
`ImplementsToolCalls`. Neither needs the number of calls.

**McpServerProofs.** A future meets its request under an id of one client. Ids
grow and no future or request has one that is still to come (`Numbered`); on a
client that gave no id twice, a request and the future under its id are of the
same caller (`Owned`); a caller waits for one future at a time, whoever's client
it is on (`Single`); what it was told it has asked (`Told`). The entry a caller
connects to names a client, its own or by then another's (`Entered`). That the ids stay below two per caller is `Few`,
which counts the callers that may have sent their first and their second
request; cardinalities are why the set of callers must be finite.

**ToolCallPathProofs.** Every step of the path is a step of a component or
leaves its variables alone, so the invariants above are invariants of the path,
and so are the properties the run `calls` checks of them. Two components have
their proofs here. For the stream `StreamInv` gives `DeltasMakeCalls`: a buffer
holds, in order, pieces of one call (`Owned`), all that have come where none was
lost (`AllThere`); no id is sent twice whatever the model answers (`IdsOnce`);
and while buffers are flushed, what is sent is below all that is left
(`Flushing`). That deltas are gathered as `AllThere` says is an induction over the
deltas of a chunk.

For the extractor `ExtractorInv` adds to the types why they
hold: a loop that drains has something to drain, and a call that is parsed has
left two symbols in the tool buffer, so that no second one can be (the buffer is
never emptied, so it does not parse again). `PlaceInv` says where in the answer
the loop stands: `Layouts` gives every answer the places of its segments in its
text and in its meaning, and `Place(g, k, p)` says that p symbols of the body of
segment k are behind the buffer (`Come`) and have been passed on (`Spoke`), and
which tag is open. Each action has a lemma that finds the next place
(`TextOutsideMoves` ... `FlushMoves`). They rest on what the buffer can hold:
`Inside` says what is written behind the body of a tag, so that an escaped tag is
in the body however it was cut (`SparedIsEscaped`) and the close tag that was
written is never taken for an escaped one (`EndIsNotEscaped`), and is seen as
soon as it has come (`CloseIsSeen`). `Waits` is why the end of the stream leaves
nothing: a buffer that waits holds no tag. `Tools` and `CutNoted` say that the
text of the first call is passed on whole unless a cut in its close tag was noted.
`CutsMakeNoDifference` follows for both halves. `TypesHold` is the type
invariant of all five.

**TenantConfigProofs.** One invariant per area, and `TypesHold` for all.
`RegistryFollowsFiles`: requests that scan are right by
the scan; the one that does not is DELETE, and `DeleteScans` shows that the
bucket without the directory's key is a scan of what is left when nobody else's
file is registered under it. `AgentsAreFrozen`: `Gathered` says that whatever a
capture has read was there while it ran, `Sound` that a snapshot holds nothing
else, and `Restored` follows a chat from the row it has read to its agent: what
is not `Made` from the frozen data, or from registries whose entry has not
changed since, is never answered with.

`VersionsAreSound`: a version is numbered no higher than its place among all ever
made (`Numbered`, so that the next number is new), one is active (`OneActive`),
and an entity nobody has crossed is booked by one request at most, which says how
far row and active version are apart at each of its queries (`Booked`,
`Working`). `CatalogIsFollowed` has two halves of that form: `Followed` names, for
each place of a request at work alone, the copies that are still `Behind`;
`Enabled` and `Synced` do it for the rows of the models, `MayUse` follows a chat
from its question to the model it is given. `HookCacheIsFresh`: what a load has
put into the cache is, row by row, what the rows make (`Loading`), unless a save
overtook it. `RulesAreKept`: no rule without a fault stands against the arguments
of a call as far as it has come through its hooks (`Calling`); a hook that
rewrites them is why only unmodified ones are compared. `RulesAreExact` says that the resolver of
paths, which goes level by level, denies exactly what the reference definition
forbids, for every rule and every value.

**Induction over data.** `RulesAreExact`, the next version number, the rows a load
keeps and the deltas of a chunk need induction, which no library theorem gives
here. `LeastNat` derives it from the well-foundedness of the naturals and
`SetInduction` states it of a set of numbers, not of an operator; recursive
functions are shown to satisfy their equations before they are used.

**Assumptions.** They are named in the modules and TLC evaluates them. Beyond
sizes and types: `None` is no value of the program and names of different kinds
differ (the model's encoding); a tenant's hooks have different names
(hook_config.py:50-53); rules are stored with their paths as lists; plans and
answers are well formed, that is, a call has at least one delta, tags are words,
and answers are made of segments and have one reading (`TagAssumption`).

**Only model-checked.** Liveness (`EveryRequestEnds`, `InterruptTakesEffect`,
`RunEnds`, `EveryCallEnds`, `LoopEnds`, `CallsReturn`) and with it the fair part
of the two refinements: TLAPS has no reasoning about fairness and ENABLED here.
Every invariant a passing run checks is a theorem.

### Met on the way

Modelling showed more than the runs single out. These are in the models as the
code has them; the properties are stated around them, and the history variables
named above say where.

* Text: the second tool call of an answer in tags is appended to the text of the
  first and fails to parse; an unknown tag inside a tag ends it; an answer whose
  chunk ends in a back-tick shows a closing tag.
* Deltas that share a chunk with text or reasoning are lost; calls without an
  index are merged; a stream that ends early has its truncated arguments
  dispatched as `{"raw": ...}`. A malformed line breaks the gateway's stream and
  is skipped by the other providers.
* A tool that could not be made is not tried again: the hash is stored all the
  same (`reload_manager.py:132` says "after successful reload").
* Hooks: a rule that raises while it denies lets the call through; a load that a
  save overtakes fills the cache with old rows until the next save; a hook that
  fails to load is skipped; what a pre-hook rewrites is dropped (`base.py:32`
  describes MODIFY, `_dispatch_pre` returns ALLOW).
* Versions: activating a version of a skill always fails (`version_service.py:413`
  calls a method `SkillService` does not have); a version read before an edit may
  be committed after it; the active version can be deleted; PUT and disable save
  whole rows and bring deleted ones back.
* Session snapshots keep a reference to the model's row, not its contents; the
  capture may be torn by edits; the strict way reads live registries, and so does
  a provider with `auto_tools` either way, though the strict way (`chat_service.py:955`)
  "fully honours the frozen snapshot configuration including skills and tools".
* Tools and models: concurrent requests lose updates of `config_json`; PUT and
  DELETE of tools and PUT and POST of servers synchronise nothing; refreshing a
  server's tools saves a stale row; PUT and POST make a second model active or
  default for a purpose; disabling any model removes the tenant's copy even when
  it is of another one; the periodic reload can wait for its own lock.
* Skills: two names that differ in case share a key, deleting one removes the
  other; a failed creation leaves a directory that blocks its name; a failed
  write empties the SKILL.md.
* MCP: a failed connect leaves an unconnected client published; a caller may end
  up on another loop's client, whose counter two threads then increment; ids of
  the server's own requests are taken for answers.

## 6. Not modelled

* `ChatService.chat` (198-360) reads an undefined name at 286 and never reaches
  its save; it has no model.
* The plain path of `WebSocketService` (69-75) passes an argument `stream_chat`
  does not have; the consumer is modelled for the path that streams.
* Several processes: registry, store and tasks are per process, and an
  interrupt, answer or poll that reaches another process finds nothing. Only
  long polling has that case, as `Restart`.
* What the texts of prompts, messages and results say; attachments, tokens and
  usage, latency accounting.
* Cancellation of tool tasks, clean-up of old tasks and entries: the code
  exists, nothing calls it.
* The JSON and ReAct extractors, the hook points that no tool call passes,
  export and import of session snapshots, tool mocks, skills from remote
  sources, listing of tools by the SSE client, requests to a model that do not
  stream.
* Built-in tools, RAG, memory, other views, migrations, frontend: leaf
  functions, single-row queries or user interface.

## 7. Plan

1. `StreamSession`, the tool path (`ToolCalls`, `ToolRound`, `ToolExecutor`,
   `ToolConfirmation`), `LongPoll`, with their proofs: done.
2. What a call passes before and after the round (`LlmStream`, `TagExtractor`,
   `McpServer`), composed as `ToolCallPath`: done.
3. What administrators change under running chats (`Hooks`, `DenyRules`,
   `VersionSnapshots`, `SessionSnapshots`, `ToolCatalog`, `LlmProviders`,
   `SkillFiles`), composed as `TenantConfig`: done.
4. Proofs of the tool path and of every area of `TenantConfig`: done.
5. Open: `LongPoll` with `create_and_start_task` and repeated init requests; the
   JSON and ReAct extractors beside `TagExtractor`.
