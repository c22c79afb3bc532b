-------------------------- MODULE ToolConfirmation --------------------------
(***************************************************************************)
(* Tools that need the user's approval: ToolConfirmationHook inside the    *)
(* tool task, ConfirmationStore, the confirm queue of the chat stream, and *)
(* the two ways in which an answer comes back - an HTTP request of its own *)
(* or a message on the WebSocket that carries the stream, whose consumer   *)
(* handles one message at a time and is busy while it streams.             *)
(*                                                                         *)
(* A call has at most two attempts (the executor retries an empty result), *)
(* each with a confirmation of its own: Id is the set of confirmations.    *)
(***************************************************************************)
EXTENDS Naturals

CONSTANT Call   \* calls of tools on the confirmation list

Id     == Call \X {1, 2}
Answer == {"approved", "rejected"}
Way    == {"request", "socket"}   \* how an answer travels

VARIABLES
    stream,    \* is the chat stream (and with it the socket's handler) running?
    phase,     \* where the task of a call stands
    attempt,   \* attempts begun
    outcome,   \* what the LLM is told
    entry,     \* entries of the store: "open" is approved = None
    queued,    \* confirmations in _confirm_queue
    shown,     \* confirmations the client has received
    inbox,     \* answers sent on the socket, not yet received
    accepted,  \* history: the answers for which respond returned True, and
               \*          the way they came
    executed   \* history: confirmations whose tool was executed

toolVars   == <<phase, attempt, outcome>>
clientVars == <<shown, inbox>>
vars == <<stream, toolVars, entry, queued, clientVars, accepted, executed>>

-----------------------------------------------------------------------------
(* The tool task: handler, ActionExecutor, hook.                           *)

Current(c) == <<c, attempt[c]>>

MoveTo(c, p) == phase' = [phase EXCEPT ![c] = p]

Conclude(c, o) == MoveTo(c, "over") /\ outcome' = [outcome EXCEPT ![c] = o]

\* create an entry, notify the stream, wait.
Ask(c) ==
    /\ MoveTo(c, "asking")
    /\ attempt' = [attempt EXCEPT ![c] = @ + 1]
    /\ entry' = [entry EXCEPT ![<<c, attempt[c] + 1>>] = "open"]
    /\ queued' = queued \cup {<<c, attempt[c] + 1>>}
    /\ UNCHANGED outcome

\* The stream may be gone by then: nobody cancels the tools of a round.
Begin(c) ==
    /\ phase[c] = "idle"
    /\ Ask(c)
    /\ UNCHANGED <<stream, clientVars, accepted, executed>>

\* Mutant of Wake: a set event is taken for an approval.
WakeOnEvent(c) ==
    /\ phase[c] = "asking"
    /\ entry[Current(c)] \in Answer
    /\ MoveTo(c, "executing")
    /\ executed' = executed \cup {Current(c)}
    /\ UNCHANGED <<stream, attempt, outcome, entry, queued, clientVars, accepted>>

\* The event is set and the waiter runs: the hook allows or denies.
Wake(c) ==
    /\ phase[c] = "asking"
    /\ entry[Current(c)] \in Answer
    /\ IF entry[Current(c)] = "approved"
       THEN /\ MoveTo(c, "executing")
            /\ executed' = executed \cup {Current(c)}
            /\ UNCHANGED outcome
       ELSE Conclude(c, "denied") /\ UNCHANGED executed
    /\ UNCHANGED <<stream, attempt, entry, queued, clientVars, accepted>>

\* Mutant of ConfirmTimeout: the timer is not stopped by the answer.
ConfirmTimeoutAnyway(c) ==
    /\ phase[c] \in {"asking", "executing"}
    /\ Conclude(c, "denied")
    /\ UNCHANGED <<stream, attempt, entry, queued, clientVars, accepted, executed>>

\* The wait times out, possibly after the event was set; the entry stays.
ConfirmTimeout(c) ==
    /\ phase[c] = "asking"
    /\ Conclude(c, "denied")
    /\ UNCHANGED <<stream, attempt, entry, queued, clientVars, accepted, executed>>

\* Mutant of ExecutorTimeout: the timer starts with the execution.
ExecutorTimeoutLate(c) ==
    /\ phase[c] = "executing"
    /\ Conclude(c, "timeout")
    /\ UNCHANGED <<stream, attempt, entry, queued, clientVars, accepted, executed>>

\* The executor's own time-out covers the wait and the execution.
ExecutorTimeout(c) ==
    /\ phase[c] \in {"asking", "executing"}
    /\ Conclude(c, "timeout")
    /\ UNCHANGED <<stream, attempt, entry, queued, clientVars, accepted, executed>>

ToolReturns(c) ==
    /\ phase[c] = "executing"
    /\ Conclude(c, "result")
    /\ UNCHANGED <<stream, attempt, entry, queued, clientVars, accepted, executed>>

\* Mutant of ToolReturnsEmpty: every empty result is retried.
ToolReturnsEmptyAgain(c) ==
    /\ phase[c] = "executing"
    /\ Ask(c)
    /\ UNCHANGED <<stream, clientVars, accepted, executed>>

\* The first result is empty: the handler runs again from the start.
ToolReturnsEmpty(c) ==
    /\ phase[c] = "executing"
    /\ attempt[c] = 1
    /\ Ask(c)
    /\ UNCHANGED <<stream, clientVars, accepted, executed>>

-----------------------------------------------------------------------------
(* The store and the client.                                               *)

Respond(id, answer, way) ==
    IF entry[id] = "open"
    THEN /\ entry' = [entry EXCEPT ![id] = answer]
         /\ accepted' = accepted \cup {<<id, answer, way>>}
    ELSE UNCHANGED <<entry, accepted>>

\* _interleave_agent_and_confirm yields the request while the agent waits.
Deliver(id) ==
    /\ stream
    /\ id \in queued
    /\ queued' = queued \ {id}
    /\ shown' = shown \cup {id}
    /\ UNCHANGED <<stream, toolVars, entry, inbox, accepted, executed>>

AnswerByRequest(id, answer) ==
    /\ id \in shown
    /\ Respond(id, answer, "request")
    /\ UNCHANGED <<stream, toolVars, queued, clientVars, executed>>

AnswerOnSocket(id, answer) ==
    /\ id \in shown
    /\ inbox' = inbox \cup {<<id, answer>>}
    /\ UNCHANGED <<stream, toolVars, entry, queued, shown, accepted, executed>>

\* The consumer has returned from the message that started the stream.
ReceiveOnSocket(id, answer) ==
    /\ ~stream
    /\ <<id, answer>> \in inbox
    /\ inbox' = inbox \ {<<id, answer>>}
    /\ Respond(id, answer, "socket")
    /\ UNCHANGED <<stream, toolVars, queued, shown, executed>>

\* The agent is done, or the stream was interrupted and leaves its tools
\* behind.
StreamEnds ==
    /\ stream
    /\ stream' = FALSE
    /\ UNCHANGED <<toolVars, entry, queued, clientVars, accepted, executed>>

-----------------------------------------------------------------------------
Init ==
    /\ stream = TRUE
    /\ phase = [c \in Call |-> "idle"]
    /\ attempt = [c \in Call |-> 0]
    /\ outcome = [c \in Call |-> "none"]
    /\ entry = [id \in Id |-> "none"]
    /\ queued = {}
    /\ shown = {}
    /\ inbox = {}
    /\ accepted = {}
    /\ executed = {}

ToolStep(c) ==
    \/ Begin(c) \/ Wake(c) \/ ConfirmTimeout(c) \/ ExecutorTimeout(c)
    \/ ToolReturns(c) \/ ToolReturnsEmpty(c)

\* Nothing is left to do.
Over ==
    /\ ~stream
    /\ \A c \in Call : phase[c] \in {"idle", "over"}
    /\ UNCHANGED vars

Next ==
    \/ \E c \in Call : ToolStep(c)
    \/ \E id \in Id : Deliver(id)
    \/ \E id \in Id, answer \in Answer :
          \/ AnswerByRequest(id, answer)
          \/ AnswerOnSocket(id, answer)
          \/ ReceiveOnSocket(id, answer)
    \/ StreamEnds
    \/ Over

\* The loop runs a task whose event is set, and its timers fire.  Clients
\* and tools owe nothing.
Fairness == \A c \in Call : WF_vars(Wake(c)) /\ WF_vars(ExecutorTimeout(c))

Spec == Init /\ [][Next]_vars /\ Fairness

-----------------------------------------------------------------------------
(* Properties.                                                             *)

\* Every variable has its type.
TypeOK ==
    /\ stream \in BOOLEAN
    /\ phase \in [Call -> {"idle", "asking", "executing", "over"}]
    /\ attempt \in [Call -> 0 .. 2]
    /\ outcome \in [Call -> {"none", "denied", "timeout", "result"}]
    /\ entry \in [Id -> {"none", "open"} \cup Answer]
    /\ queued \subseteq Id
    /\ shown \subseteq Id
    /\ inbox \subseteq Id \X Answer
    /\ accepted \subseteq Id \X Answer \X Way
    /\ executed \subseteq Id

\* A tool runs only on the user's word: each execution has an accepted
\* approval of its own, given after the client saw that very request and not
\* contradicted by another accepted answer, whatever time-outs, retries and
\* late or repeated answers do.
OnlyApprovedRuns ==
    \A id \in executed :
        /\ id \in shown
        /\ \E way \in Way : <<id, "approved", way>> \in accepted
        /\ \A way \in Way : <<id, "rejected", way>> \notin accepted

\* The LLM is told "denied" only if the tool did not run in the attempt that
\* was denied, and it is given a result only if it did.
OutcomeIsTrue ==
    \A c \in Call :
        /\ outcome[c] = "denied" => Current(c) \notin executed
        /\ outcome[c] = "result" => Current(c) \in executed

\* A tool call never hangs on the user: it is over in the end even if nobody
\* answers, the request is not delivered or the stream has gone.
EveryCallEnds == \A c \in Call : phase[c] = "asking" ~> phase[c] = "over"

\* confirmation_store.py:77 says "Returns True if the response was processed,
\* False if already resolved or not found".  A request that timed out (and
\* was rejected for that) still accepts an answer.
AcceptedOnlyWhileWaiting ==
    [][\A id \in Id :
         entry[id] = "open" /\ entry'[id] # "open"
           => phase[id[1]] = "asking" /\ Current(id[1]) = id]_vars
=============================================================================
