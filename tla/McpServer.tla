----------------------------- MODULE McpServer -----------------------------
(***************************************************************************)
(* One entry of MCPServerRegistry and the clients made for it              *)
(* (integrations/mcp/mcp_server_registry.py, mcp_client.py).  Callers look *)
(* the entry up, share the client published in config._client or make one, *)
(* and send requests over it; the subprocess of a stdio client answers in  *)
(* any order, late, or never.  A client is named by the call that made it. *)
(* Callers of other loops run in threads of their own.  What a thread does *)
(* between two awaits is one step, but for the increment of _request_id,   *)
(* which two threads may do at once.                                       *)
(***************************************************************************)
EXTENDS Naturals, FiniteSets

CONSTANTS Caller,        \* callers: tool tasks and discoveries
          Threadings,  \* which callers may have an event loop of their own
          MaxConfigs,  \* bound: how often the server is registered
          None

VARIABLES
    threaded,    \* callers that run in an event loop of their own (asyncio.run)
    kind,        \* what the configuration names: a command, an endpoint, neither
    configs,     \* how many MCPServerConfig objects have been registered
    registered,  \* whether the last of them is still in _servers
    published,   \* config._client of each of them
    link,        \* state of the client a call has made
    running,     \* its subprocess answers, and its maker's loop reads that
    lastId,      \* its _request_id
    futures,     \* its _pending_requests: id -> whose future
    requests,    \* requests its subprocess has read and not answered
    torn,        \* history: clients that gave one id to two requests
    place,       \* where a call is suspended
    entry,       \* the MCPServerConfig it has looked up
    uses,        \* the client it uses
    number,      \* the id of the request it waits for
    got,         \* what its future has been resolved with
    ending       \* how it ended

entryVars  == <<threaded, kind, configs, registered, published>>
clientVars == <<link, running, lastId, futures, requests, torn>>
callVars   == <<place, entry, uses, number, got, ending>>
mcpVars    == <<entryVars, clientVars, callVars>>

MaxId == 2 * Cardinality(Caller)  \* a call sends two requests at most
RequestId == 1 .. MaxId

\* What resolves a future: the answer to a request, an error object, or a
\* message of the server's own numbering that carries the same id.
Reply == [for: Caller, what: {"initialize", "call"}]
           \cup [for: {None}, what: {"error", "own"}]

TypeOK ==
    /\ threaded \in Threadings
    /\ kind \in {"stdio", "custom", "unknown"}
    /\ configs \in 1 .. MaxConfigs
    /\ registered \in BOOLEAN
    /\ published \in [1 .. MaxConfigs -> Caller \cup {None}]
    /\ link \in [Caller -> {"none", "starting", "started", "ready", "closing", "dead"}]
    /\ running \in [Caller -> BOOLEAN]
    /\ lastId \in [Caller -> 0 .. MaxId]
    /\ futures \in [Caller -> [RequestId -> Caller \cup {None}]]
    /\ requests \in [Caller -> SUBSET [id: RequestId, for: Caller, what: {"initialize", "call"}]]
    /\ torn \subseteq Caller
    /\ place \in [Caller -> {"idle", "starting", "init", "closing", "call", "post", "done"}]
    /\ entry \in [Caller -> 1 .. MaxConfigs]
    /\ uses \in [Caller -> Caller \cup {None}]
    /\ number \in [Caller -> 0 .. MaxId]
    /\ got \in [Caller -> Reply \cup {None}]
    /\ ending \in [Caller -> {"none", "result", "failed"}]

Init ==
    /\ threaded \in Threadings
    /\ kind \in {"stdio", "custom", "unknown"}
    /\ configs = 1 /\ registered = TRUE
    /\ published = [g \in 1 .. MaxConfigs |-> None]
    /\ link = [c \in Caller |-> "none"]
    /\ running = [c \in Caller |-> FALSE]
    /\ lastId = [c \in Caller |-> 0]
    /\ futures = [c \in Caller |-> [i \in RequestId |-> None]]
    /\ requests = [c \in Caller |-> {}]
    /\ torn = {}
    /\ place = [c \in Caller |-> "idle"]
    /\ entry = [c \in Caller |-> 1]
    /\ uses = [c \in Caller |-> None]
    /\ number = [c \in Caller |-> 0]
    /\ got = [c \in Caller |-> None]
    /\ ending = [c \in Caller |-> "none"]

-----------------------------------------------------------------------------
(* The registry *)

\* register_server replaces the entry by one without a client.
RegisterServer ==
    /\ configs < MaxConfigs
    /\ configs' = configs + 1 /\ registered' = TRUE
    /\ UNCHANGED <<threaded, kind, published, clientVars, callVars>>

\* unregister_server and clear: neither reaches the clean-up of the client. A
\* view's thread has no event loop, and run_until_complete raises inside a
\* running one; both errors are caught.
UnregisterServer ==
    /\ registered /\ registered' = FALSE
    /\ UNCHANGED <<threaded, kind, configs, published, clientVars, callVars>>

SameLoop(c, k) == c = k \/ {c, k} \cap threaded = {}

Fail(c) ==
    /\ place' = [place EXCEPT ![c] = "done"]
    /\ ending' = [ending EXCEPT ![c] = "failed"]

NotRegistered(c) ==
    /\ place[c] = "idle" /\ ~registered
    /\ Fail(c)
    /\ UNCHANGED <<entryVars, clientVars, entry, uses, number, got>>

-----------------------------------------------------------------------------
(* Requests over a stdio client *)

\* Mutant of Numbers: ids count the open requests, so a late answer meets a
\* new request under its id.
NumbersReusingIds(k, c, id) ==
    /\ id = Cardinality({i \in RequestId : futures[k][i] # None}) + 1
    /\ lastId' = [lastId EXCEPT ![k] = IF id > @ THEN id ELSE @]
    /\ UNCHANGED torn

\* _request_id += 1 and the reading of it. A thread that does both while the
\* thread of the last request does the same gets the id of that request.
Numbers(k, c, id) ==
    \/ /\ id = lastId[k] + 1
       /\ lastId' = [lastId EXCEPT ![k] = id]
       /\ UNCHANGED torn
    \/ /\ id = lastId[k] /\ id > 0
       /\ futures[k][id] # None /\ ~SameLoop(c, futures[k][id])
       /\ torn' = torn \cup {k}
       /\ UNCHANGED lastId

\* A request of c on client k: an id, a future under it (in place of a future
\* that had the same), a line to the subprocess.
Request(k, c, what) == \E id \in RequestId :
    /\ Numbers(k, c, id)
    /\ number' = [number EXCEPT ![c] = id]
    /\ futures' = [futures EXCEPT ![k][id] = c]
    /\ requests' = IF running'[k]
                THEN [requests EXCEPT ![k] = @ \cup {[id |-> id, for |-> c, what |-> what]}]
                ELSE requests

\* call_tool or list_tools of c on client k. The pipe of a process that has
\* exited may break, and a full pipe of another loop's cannot be waited for;
\* the future then stays in _pending_requests.
SendCall(c, k) ==
    /\ UNCHANGED running
    /\ Request(k, c, "call")
    /\ got' = [got EXCEPT ![c] = None]
    /\ \/ place' = [place EXCEPT ![c] = "call"] /\ UNCHANGED ending
       \/ (~running[k] \/ ~SameLoop(c, k)) /\ Fail(c)

\* What is found under the id goes, be it of another caller by now.
Forget(c, k) == futures' = [futures EXCEPT ![k][number[c]] = None]

\* _read_responses: a message with an id resolves the future found under it,
\* unless its owner has gone.
Resolve(k, id, answer) ==
    LET c == futures[k][id] IN
    /\ futures' = [futures EXCEPT ![k][id] = None]
    /\ got' = IF c # None /\ place[c] \in {"init", "call"} /\ got[c] = None
              THEN [got EXCEPT ![c] = answer] ELSE got

Reading(k) == running[k] /\ link[k] \in {"started", "ready"}

Answer(k) ==
    /\ Reading(k)
    /\ \E r \in requests[k] :
         /\ requests' = [requests EXCEPT ![k] = @ \ {r}]
         /\ \/ Resolve(k, r.id, [for |-> r.for, what |-> r.what])
            \/ Resolve(k, r.id, [for |-> None, what |-> "error"])
    /\ UNCHANGED <<entryVars, link, running, lastId, torn, place, entry, uses, number, ending>>

\* A request of the server's own, a ping say, carries an id of its numbering.
OwnMessage(k) ==
    /\ Reading(k)
    /\ \E id \in RequestId : futures[k][id] # None /\ Resolve(k, id, [for |-> None, what |-> "own"])
    /\ UNCHANGED <<entryVars, link, running, lastId, requests, torn, place, entry, uses, number, ending>>

\* The subprocess ends, or the loop that reads its answers.
ProcessExits(k) ==
    /\ running[k]
    /\ running' = [running EXCEPT ![k] = FALSE]
    /\ requests' = [requests EXCEPT ![k] = {}]
    /\ UNCHANGED <<entryVars, link, lastId, futures, torn, callVars>>

-----------------------------------------------------------------------------
(* A call: _get_or_create_client, connect, then the request *)

\* A client made in another event loop, or none: the call makes its own and
\* publishes it before it is connected.
Create(c) ==
    /\ place[c] = "idle" /\ registered
    /\ published[configs] = None \/ ~SameLoop(c, published[configs])
    /\ published' = [published EXCEPT ![configs] = c]
    /\ entry' = [entry EXCEPT ![c] = configs]
    /\ uses' = [uses EXCEPT ![c] = c]
    /\ \/ /\ kind = "stdio"
          /\ link' = [link EXCEPT ![c] = "starting"]
          /\ place' = [place EXCEPT ![c] = "starting"]
          /\ UNCHANGED ending
       \/ /\ kind = "custom"
          /\ link' = [link EXCEPT ![c] = "ready"]
          /\ place' = [place EXCEPT ![c] = "post"]
          /\ UNCHANGED ending
       \/ /\ kind = "unknown"
          /\ link' = [link EXCEPT ![c] = "dead"]
          /\ Fail(c)
    /\ UNCHANGED <<threaded, kind, configs, registered, running, lastId, futures, requests, torn, number, got>>

\* call_tool or list_tools on a stdio client as it is found, connected or not:
\* without a process it raises.
CallOver(c, k) ==
    \/ /\ link[k] \in {"starting", "dead"}
       /\ Fail(c)
       /\ UNCHANGED <<running, lastId, futures, requests, torn, number, got>>
    \/ link[k] \in {"started", "ready", "closing"} /\ SendCall(c, k)

\* A client of the same loop is used as it is.
Share(c) ==
    /\ place[c] = "idle" /\ registered
    /\ entry' = [entry EXCEPT ![c] = configs]
    /\ LET k == published[configs] IN
       /\ k # None /\ SameLoop(c, k)
       /\ uses' = [uses EXCEPT ![c] = k]
       /\ \/ /\ kind = "custom"
             /\ place' = [place EXCEPT ![c] = "post"]
             /\ UNCHANGED <<running, lastId, futures, requests, torn, number, got, ending>>
          \/ kind # "custom" /\ CallOver(c, k)
    /\ UNCHANGED <<entryVars, link>>

\* The subprocess has started: the reader task, then initialize.
Started(c) ==
    /\ place[c] = "starting"
    /\ link' = [link EXCEPT ![c] = "started"]
    /\ running' = [running EXCEPT ![c] = TRUE]
    /\ Request(c, c, "initialize")
    /\ place' = [place EXCEPT ![c] = "init"]
    /\ UNCHANGED <<entryVars, entry, uses, got, ending>>

StartFails(c) ==
    /\ place[c] = "starting"
    /\ link' = [link EXCEPT ![c] = "dead"]
    /\ Fail(c)
    /\ UNCHANGED <<entryVars, running, lastId, futures, requests, torn, entry, uses, number, got>>

\* cleanup after a failed initialize: the reader is cancelled and the process
\* terminated, then waited for.
CleanUp(c) ==
    /\ link' = [link EXCEPT ![c] = "closing"]
    /\ running' = [running EXCEPT ![c] = FALSE]
    /\ requests' = [requests EXCEPT ![c] = {}]
    /\ place' = [place EXCEPT ![c] = "closing"]

CleanedUp(c) ==
    /\ place[c] = "closing"
    /\ link' = [link EXCEPT ![c] = "dead"]
    /\ futures' = [futures EXCEPT ![c] = [i \in RequestId |-> None]]
    /\ Fail(c)
    /\ UNCHANGED <<entryVars, running, lastId, requests, torn, entry, uses, number, got>>

\* initialize has been answered; what the answer says is not looked at. The
\* call goes out on config._client as it is read now: a caller of another loop
\* may have published its own there meanwhile.
Initialized(c) ==
    /\ place[c] = "init" /\ got[c] # None /\ got[c].what # "error"
    /\ LET k == published[entry[c]] IN
       /\ link' = [link EXCEPT ![c] = "ready"]
       /\ uses' = [uses EXCEPT ![c] = k]
       /\ \/ k = c /\ SendCall(c, c)
          \/ k # c /\ CallOver(c, k)
    /\ UNCHANGED <<entryVars, entry>>

InitializeRefused(c) ==
    /\ place[c] = "init" /\ got[c] # None /\ got[c].what = "error"
    /\ CleanUp(c)
    /\ UNCHANGED <<entryVars, lastId, futures, torn, entry, uses, number, got, ending>>

\* The request of c has been answered. An error object raises, and so does a
\* message without a result.
Answered(c) ==
    /\ place[c] = "call" /\ got[c] # None
    /\ \/ /\ got[c].for # None
          /\ place' = [place EXCEPT ![c] = "done"]
          /\ ending' = [ending EXCEPT ![c] = "result"]
       \/ got[c].for = None /\ Fail(c)
    /\ UNCHANGED <<entryVars, clientVars, entry, uses, number, got>>

\* Mutant of RequestTimeout: no time-out; a request waits for its answer.
RequestTimeoutNever(c) ==
    /\ place[c] = "init" /\ Forget(c, uses[c])
    /\ CleanUp(c)
    /\ UNCHANGED <<entryVars, lastId, torn, entry, uses, number, got, ending>>

\* wait_for gives up after config.timeout, even if the answer has just come.
RequestTimeout(c) ==
    /\ place[c] \in {"init", "call"} /\ Forget(c, uses[c])
    /\ \/ place[c] = "init" /\ CleanUp(c) /\ UNCHANGED ending
       \/ place[c] = "call" /\ Fail(c) /\ UNCHANGED <<link, running, requests>>
    /\ UNCHANGED <<entryVars, lastId, torn, entry, uses, number, got>>

\* CustomMCPClient: an HTTP request of its own per call.
Posted(c) ==
    /\ place[c] = "post"
    /\ place' = [place EXCEPT ![c] = "done"]
    /\ \E o \in {"result", "failed"} : ending' = [ending EXCEPT ![c] = o]
    /\ UNCHANGED <<entryVars, clientVars, entry, uses, number, got>>

\* The executor cancels a tool task after its 30 s: no handler of this code
\* catches that, so nothing is taken back.
Cancel(c) ==
    /\ c \notin threaded
    /\ place[c] \notin {"idle", "done"}
    /\ Fail(c)
    /\ UNCHANGED <<entryVars, clientVars, entry, uses, number, got>>

Over == (\A c \in Caller : place[c] = "done") /\ UNCHANGED mcpVars

Next ==
    \/ RegisterServer \/ UnregisterServer
    \/ \E k \in Caller : Answer(k) \/ OwnMessage(k) \/ ProcessExits(k)
    \/ \E c \in Caller :
         \/ NotRegistered(c) \/ Create(c) \/ Share(c) \/ Started(c) \/ StartFails(c)
         \/ CleanedUp(c) \/ Initialized(c) \/ InitializeRefused(c) \/ Answered(c)
         \/ RequestTimeout(c) \/ Posted(c) \/ Cancel(c)
    \/ Over

\* What the event loop and its timers see to: a subprocess starts or does not,
\* a request is answered or times out, a terminated process is reaped or killed.
Fairness == \A c \in Caller :
    /\ WF_mcpVars(Started(c) \/ StartFails(c))
    /\ WF_mcpVars(Initialized(c) \/ InitializeRefused(c) \/ Answered(c) \/ RequestTimeout(c))
    /\ WF_mcpVars(CleanedUp(c)) /\ WF_mcpVars(Posted(c))

Spec == Init /\ [][Next]_mcpVars /\ Fairness

-----------------------------------------------------------------------------
\* A call over stdio that returns a result returns the server's answer to that
\* very call: whatever is late, refused, cancelled, sent by the server of its
\* own accord, shared between callers or left to another loop's client
\* (mcp_client.py:292-350, mcp_server_registry.py:226-248). It is not claimed of
\* a client whose counter two threads have incremented at once (torn).
OwnAnswer ==
    \A c \in Caller : ending[c] = "result" /\ kind = "stdio" /\ uses[c] \notin torn
                      => got[c] = [for |-> c, what |-> "call"]

\* Every call that has begun ends, although an exiting process and a clean-up
\* leave futures that nobody resolves, one id may stand for two futures, and a
\* client may be another loop's (mcp_client.py:293-321, 413-421): the time-out
\* runs in the caller's own loop.
CallsReturn == \A c \in Caller : place[c] # "idle" ~> place[c] = "done"
=============================================================================
