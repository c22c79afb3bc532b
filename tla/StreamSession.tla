---------------------------- MODULE StreamSession ----------------------------
(***************************************************************************)
(* The life of the streaming requests of ONE chat session:                 *)
(* ChatService.stream_chat and stream_chat_with_snapshot (their control is *)
(* the same), interrupt_session, and the requests that touch the same      *)
(* SessionContext row without registering themselves (batch_chat and       *)
(* chat_with_snapshot).                                                    *)
(*                                                                         *)
(* All requests run on one asyncio loop, so everything between two awaits  *)
(* (or yields) is one step.  The value of pc[r] names the await at which   *)
(* request r is suspended.  A turn stands for a user message and the reply *)
(* to it; a context is the set of the turns whose messages it holds.       *)
(***************************************************************************)
EXTENDS FiniteSets

CONSTANTS
    Stream,      \* the streaming requests made on the session
    Plain,       \* the requests answered without a stream
    None,        \* no stream
    CanTimeOut,  \* can the five seconds of the auto-interrupt wait elapse?
    CanFail      \* can a request be killed, or a database write fail?

ASSUME StreamAssumption ==
    /\ None \notin Stream \cup Plain
    /\ Stream \cap Plain = {}
    /\ CanTimeOut \in BOOLEAN
    /\ CanFail \in BOOLEAN

VARIABLES
    pc,          \* where each request stands
    registered,  \* owner of the events in _streaming_sessions / _stream_done_events
    intr,        \* is a stream's interrupt_event set?
    doneSet,     \* is a stream's done_event set?
    waitsOn,     \* the stream whose done_event a request waited for (old_done)
    timedOut,    \* did a request stop waiting because five seconds elapsed?
    crowded,     \* history: did a request arrive while another was waiting?
    ctx,         \* the turns in the persisted SessionContext
    history,     \* the turns a request loaded before running its agent
    began,       \* has the agent put the user query into its own context?
    answered,    \* is full_response non-empty?
    status,      \* stream_status of the assistant message
    saved,       \* the local context_saved
    fault        \* the one failure of a behaviour: which request, at which await

regVars  == <<registered, intr, doneSet, waitsOn, timedOut, crowded>>
turnVars == <<ctx, history, began, answered, saved>>
vars     == <<pc, regVars, turnVars, status, fault>>

-----------------------------------------------------------------------------
\* Awaits inside the try block but before the agent exists, and after.
Preparing == {"entered", "loaded", "hooks"}
Running   == {"looping", "intr_save", "intr_mark", "stop_mark",
              "done_mark", "ctx_save"}
Cleaning  == {"fin_save", "fin_mark", "release"}
Inside    == Preparing \cup Running \cup Cleaning

PlainPC  == {"idle", "plain_loaded", "ended"}
StreamPC == {"idle", "waiting", "ended"} \cup Inside

Status == {"none", "streaming", "completed", "interrupted", "stopped_by_hook"}

NoFault == [who |-> None, at |-> "none"]

Goto(r, label) == pc' = [pc EXCEPT ![r] = label]

\* Mutant of LeaveTry: no fallback save in the finally block.
LeaveTryNoFallback(r, isSaved) == Goto(r, "release")

\* The finally block: its fallback runs only when there is an agent whose
\* context has not been saved.
LeaveTry(r, isSaved) == Goto(r, IF isSaved THEN "release" ELSE "fin_save")

WriteContext(r) == ctx' = history[r] \cup {r}

-----------------------------------------------------------------------------
(* Entering: auto-interrupt of the registered stream, then registration.   *)

Enter(r) ==
    /\ registered' = r
    /\ Goto(r, "entered")

\* No stream is registered: nothing is awaited before registration.
StartFresh(r) ==
    /\ pc[r] = "idle"
    /\ registered = None
    /\ Enter(r)
    /\ crowded' = (crowded \/ \E w \in Stream : pc[w] = "waiting")
    /\ UNCHANGED <<intr, doneSet, waitsOn, timedOut, turnVars, status, fault>>

\* A stream is registered: signal it and wait for its done event.
StartBehind(r) ==
    /\ pc[r] = "idle"
    /\ registered # None
    /\ intr' = [intr EXCEPT ![registered] = TRUE]
    /\ waitsOn' = [waitsOn EXCEPT ![r] = registered]
    /\ Goto(r, "waiting")
    /\ crowded' = (crowded \/ \E w \in Stream : pc[w] = "waiting")
    /\ UNCHANGED <<registered, doneSet, timedOut, turnVars, status, fault>>

\* Mutant of Wake: the waiting request does not look at the done event.
WakeUnchecked(r) ==
    /\ pc[r] = "waiting"
    /\ Enter(r)
    /\ UNCHANGED <<intr, doneSet, waitsOn, timedOut, crowded, turnVars,
                   status, fault>>

\* Registration overwrites whatever is registered by now.
Wake(r) ==
    /\ pc[r] = "waiting"
    /\ doneSet[waitsOn[r]]
    /\ Enter(r)
    /\ UNCHANGED <<intr, doneSet, waitsOn, timedOut, crowded, turnVars,
                   status, fault>>

TimeOut(r) ==
    /\ CanTimeOut
    /\ pc[r] = "waiting"
    /\ ~doneSet[waitsOn[r]]
    /\ Enter(r)
    /\ timedOut' = [timedOut EXCEPT ![r] = TRUE]
    /\ UNCHANGED <<intr, doneSet, waitsOn, crowded, turnVars, status, fault>>

-----------------------------------------------------------------------------
(* Preparing: context, message rows, hooks, agent.                         *)

LoadContext(r) ==
    /\ pc[r] = "entered"
    /\ history' = [history EXCEPT ![r] = ctx]
    /\ Goto(r, "loaded")
    /\ UNCHANGED <<regVars, ctx, began, answered, saved, status, fault>>

\* The user message, then the assistant placeholder.
CreateRows(r) ==
    /\ pc[r] = "loaded"
    /\ status' = [status EXCEPT ![r] = "streaming"]
    /\ Goto(r, "hooks")
    /\ UNCHANGED <<regVars, turnVars, fault>>

\* on_user_message answers ALLOW or MODIFY and the agent is built.
Admit(r) ==
    /\ pc[r] = "hooks"
    /\ Goto(r, "looping")
    /\ UNCHANGED <<regVars, turnVars, status, fault>>

\* on_user_message answers DENY or STOP, or the snapshot gives no agent:
\* return with agent = None, so the finally block saves and marks nothing.
Refuse(r) ==
    /\ pc[r] = "hooks"
    /\ Goto(r, "release")
    /\ UNCHANGED <<regVars, turnVars, status, fault>>

-----------------------------------------------------------------------------
(* The chunk loop.  The agent task puts the query into its context before  *)
(* the first chunk; every chunk meets the interrupt check, then the stop   *)
(* check.                                                                  *)

AgentBegins(r) ==
    /\ pc[r] = "looping"
    /\ ~began[r]
    /\ began' = [began EXCEPT ![r] = TRUE]
    /\ UNCHANGED <<pc, regVars, ctx, history, answered, saved, status, fault>>

ChunkArrives(r) == pc[r] = "looping" /\ began[r]

InterruptSeen(r) ==
    /\ ChunkArrives(r)
    /\ intr[r]
    /\ Goto(r, "intr_save")
    /\ UNCHANGED <<regVars, turnVars, status, fault>>

\* Mutant of StopSeen: the stop check comes before the interrupt check.
StopSeenFirst(r) ==
    /\ ChunkArrives(r)
    /\ Goto(r, "stop_mark")
    /\ UNCHANGED <<regVars, turnVars, status, fault>>

\* A hook set _stop_agent while the chunk was produced.
StopSeen(r) ==
    /\ ChunkArrives(r)
    /\ ~intr[r]
    /\ Goto(r, "stop_mark")
    /\ UNCHANGED <<regVars, turnVars, status, fault>>

\* An answer chunk.  (Trace, card and confirmation chunks are forwarded and
\* change nothing kept here.)
Answer(r) ==
    /\ ChunkArrives(r)
    /\ ~intr[r]
    /\ answered' = [answered EXCEPT ![r] = TRUE]
    /\ UNCHANGED <<pc, regVars, ctx, history, began, saved, status, fault>>

\* The done chunk, the on_agent_stop hooks and the cache statistics.
DoneSeen(r) ==
    /\ ChunkArrives(r)
    /\ ~intr[r]
    /\ Goto(r, "done_mark")
    /\ UNCHANGED <<regVars, turnVars, status, fault>>

-----------------------------------------------------------------------------
(* The ways out of the loop.                                               *)

InterruptSave(r) ==
    /\ pc[r] = "intr_save"
    /\ WriteContext(r)
    /\ saved' = [saved EXCEPT ![r] = TRUE]
    /\ Goto(r, "intr_mark")
    /\ UNCHANGED <<regVars, history, began, answered, status, fault>>

InterruptMark(r) ==
    /\ pc[r] = "intr_mark"
    /\ status' = [status EXCEPT ![r] = "interrupted"]
    /\ LeaveTry(r, saved[r])
    /\ UNCHANGED <<regVars, turnVars, fault>>

StopMark(r) ==
    /\ pc[r] = "stop_mark"
    /\ status' = [status EXCEPT ![r] = "stopped_by_hook"]
    /\ LeaveTry(r, FALSE)
    /\ UNCHANGED <<regVars, turnVars, fault>>

\* Mutant of DoneMark: the done event is set with the done chunk.
DoneMarkEarlyEvent(r) ==
    /\ pc[r] = "done_mark"
    /\ status' = [status EXCEPT ![r] = "completed"]
    /\ doneSet' = [doneSet EXCEPT ![r] = TRUE]
    /\ Goto(r, "ctx_save")
    /\ UNCHANGED <<registered, intr, waitsOn, timedOut, crowded, turnVars, fault>>

DoneMark(r) ==
    /\ pc[r] = "done_mark"
    /\ status' = [status EXCEPT ![r] = "completed"]
    /\ Goto(r, "ctx_save")
    /\ UNCHANGED <<regVars, turnVars, fault>>

\* Mutant of FinalSave: context_saved is not set.
FinalSaveUnflagged(r) ==
    /\ pc[r] = "ctx_save"
    /\ WriteContext(r)
    /\ LeaveTry(r, FALSE)
    /\ UNCHANGED <<regVars, history, began, answered, saved, status, fault>>

FinalSave(r) ==
    /\ pc[r] = "ctx_save"
    /\ WriteContext(r)
    /\ saved' = [saved EXCEPT ![r] = TRUE]
    /\ LeaveTry(r, TRUE)
    /\ UNCHANGED <<regVars, history, began, answered, status, fault>>

-----------------------------------------------------------------------------
(* The finally block.                                                      *)

\* Mutant of AfterFallback: the fallback does not settle the message.
AfterFallbackNoMark(r) == "release"

AfterFallback(r) == IF answered[r] THEN "fin_mark" ELSE "release"

\* Mutant of FinallySave: only the message is settled, the context is not.
FinallySaveNothing(r) ==
    /\ pc[r] = "fin_save"
    /\ Goto(r, AfterFallback(r))
    /\ UNCHANGED <<regVars, turnVars, status, fault>>

\* An agent that has not begun has an empty context, which is not saved.
FinallySave(r) ==
    /\ pc[r] = "fin_save"
    /\ IF began[r] THEN WriteContext(r) ELSE UNCHANGED ctx
    /\ Goto(r, AfterFallback(r))
    /\ UNCHANGED <<regVars, history, began, answered, saved, status, fault>>

\* Mutant of FinallyMark: a status no reader knows.
FinallyMarkError(r) ==
    /\ pc[r] = "fin_mark"
    /\ status' = [status EXCEPT ![r] = "error"]
    /\ Goto(r, "release")
    /\ UNCHANGED <<regVars, turnVars, fault>>

FinallyMark(r) ==
    /\ pc[r] = "fin_mark"
    /\ status' = [status EXCEPT ![r] = "interrupted"]
    /\ Goto(r, "release")
    /\ UNCHANGED <<regVars, turnVars, fault>>

\* Mutant of Release: the done event is set but nothing is popped.
ReleaseUnpopped(r) ==
    /\ pc[r] = "release"
    /\ doneSet' = IF registered = None THEN doneSet
                  ELSE [doneSet EXCEPT ![registered] = TRUE]
    /\ Goto(r, "ended")
    /\ UNCHANGED <<registered, intr, waitsOn, timedOut, crowded, turnVars,
                   status, fault>>

\* Both events are popped by session id, whoever registered them, and the
\* popped done event is set.
Release(r) ==
    /\ pc[r] = "release"
    /\ registered' = None
    /\ doneSet' = IF registered = None THEN doneSet
                  ELSE [doneSet EXCEPT ![registered] = TRUE]
    /\ Goto(r, "ended")
    /\ UNCHANGED <<intr, waitsOn, timedOut, crowded, turnVars, status, fault>>

-----------------------------------------------------------------------------
(* Failures: at most one in a behaviour.                                   *)

Fail(r) ==
    /\ CanFail
    /\ fault = NoFault
    /\ fault' = [who |-> r, at |-> pc[r]]

\* The client goes away, the task is cancelled or the agent raises: the try
\* block is left at the current await.  A request still waiting to register
\* has no finally block.  A cancellation inside the finally block skips the
\* rest of the fallback, but not the inner finally with the two pops.
\* (A write that had already been sent is the behaviour in which the kill
\* arrives at the next await.)
Kill(r) ==
    /\ Fail(r)
    /\ \/ pc[r] = "waiting" /\ Goto(r, "ended")
       \/ pc[r] \in Preparing /\ Goto(r, "release")
       \/ pc[r] \in Running /\ LeaveTry(r, saved[r])
       \/ pc[r] \in {"fin_save", "fin_mark"} /\ Goto(r, "release")
    /\ UNCHANGED <<regVars, turnVars, status>>

\* Mutant of WriteFails: a failing write escapes from the finally block.
WriteFailsUncaught(r) ==
    /\ Fail(r)
    /\ pc[r] \in {"intr_save", "fin_save", "fin_mark"}
    /\ Goto(r, "ended")
    /\ UNCHANGED <<regVars, turnVars, status>>

\* A database write raises.  In the interrupt path and in the finally block
\* the exception is caught and the next statement runs; the remaining
\* writes of the try block leave it as Kill does.
WriteFails(r) ==
    /\ Fail(r)
    /\ \/ pc[r] = "intr_save" /\ Goto(r, "intr_mark")
       \/ pc[r] = "fin_save" /\ Goto(r, AfterFallback(r))
       \/ pc[r] = "fin_mark" /\ Goto(r, "release")
    /\ UNCHANGED <<regVars, turnVars, status>>

-----------------------------------------------------------------------------
(* The other users of the session.                                         *)

\* interrupt_session finds a registered event.
InterruptSession ==
    /\ registered # None
    /\ intr' = [intr EXCEPT ![registered] = TRUE]
    /\ UNCHANGED <<pc, registered, doneSet, waitsOn, timedOut, crowded,
                   turnVars, status, fault>>

\* batch_chat and chat_with_snapshot load and save the context around the
\* agent's run; they neither register nor interrupt.
PlainLoad(p) ==
    /\ pc[p] = "idle"
    /\ history' = [history EXCEPT ![p] = ctx]
    /\ Goto(p, "plain_loaded")
    /\ UNCHANGED <<regVars, ctx, began, answered, saved, status, fault>>

PlainSave(p) ==
    /\ pc[p] = "plain_loaded"
    /\ WriteContext(p)
    /\ Goto(p, "ended")
    /\ UNCHANGED <<regVars, history, began, answered, saved, status, fault>>

-----------------------------------------------------------------------------
Init ==
    /\ pc = [r \in Stream \cup Plain |-> "idle"]
    /\ registered = None
    /\ intr = [r \in Stream |-> FALSE]
    /\ doneSet = [r \in Stream |-> FALSE]
    /\ waitsOn = [r \in Stream |-> None]
    /\ timedOut = [r \in Stream |-> FALSE]
    /\ crowded = FALSE
    /\ ctx = {}
    /\ history = [r \in Stream \cup Plain |-> {}]
    /\ began = [r \in Stream |-> FALSE]
    /\ answered = [r \in Stream |-> FALSE]
    /\ status = [r \in Stream |-> "none"]
    /\ saved = [r \in Stream |-> FALSE]
    /\ fault = NoFault

Arrive(r)  == StartFresh(r) \/ StartBehind(r)
Proceed(r) == Wake(r) \/ TimeOut(r) \/ LoadContext(r) \/ CreateRows(r)
Loop(r)    == AgentBegins(r) \/ InterruptSeen(r) \/ StopSeen(r) \/ Answer(r)
                \/ DoneSeen(r)
Leave(r)   == InterruptSave(r) \/ InterruptMark(r) \/ StopMark(r)
                \/ DoneMark(r) \/ FinalSave(r)
Cleanup(r) == FinallySave(r) \/ FinallyMark(r) \/ Release(r)

StreamStep(r) ==
    Arrive(r) \/ Proceed(r) \/ Admit(r) \/ Refuse(r) \/ Loop(r) \/ Leave(r)
      \/ Cleanup(r) \/ Kill(r) \/ WriteFails(r)

\* Every request has been served: nothing more happens.
AllServed ==
    /\ \A r \in Stream \cup Plain : pc[r] = "ended"
    /\ UNCHANGED vars

Next ==
    \/ \E r \in Stream : StreamStep(r)
    \/ InterruptSession
    \/ \E p \in Plain : PlainLoad(p) \/ PlainSave(p)
    \/ AllServed

\* The event loop runs every request that can run, and its timer fires.  A
\* running agent begins and keeps producing chunks up to its done chunk
\* (its iterations are bounded); clients need not send anything.
Fairness ==
    \A r \in Stream :
        /\ WF_vars(Proceed(r))
        /\ WF_vars(Admit(r) \/ Refuse(r))
        /\ WF_vars(AgentBegins(r))
        /\ WF_vars(InterruptSeen(r))
        /\ WF_vars(DoneSeen(r) \/ StopSeen(r))
        /\ WF_vars(Leave(r))
        /\ WF_vars(Cleanup(r))

Spec == Init /\ [][Next]_vars /\ Fairness

-----------------------------------------------------------------------------
(* Properties.                                                             *)

\* Every variable has its type.
TypeOK ==
    /\ pc \in [Stream \cup Plain -> StreamPC \cup PlainPC]
    /\ registered \in Stream \cup {None}
    /\ intr \in [Stream -> BOOLEAN]
    /\ doneSet \in [Stream -> BOOLEAN]
    /\ waitsOn \in [Stream -> Stream \cup {None}]
    /\ timedOut \in [Stream -> BOOLEAN]
    /\ crowded \in BOOLEAN
    /\ ctx \subseteq Stream \cup Plain
    /\ history \in [Stream \cup Plain -> SUBSET (Stream \cup Plain)]
    /\ began \in [Stream -> BOOLEAN]
    /\ answered \in [Stream -> BOOLEAN]
    /\ status \in [Stream -> Status]
    /\ saved \in [Stream -> BOOLEAN]
    /\ fault \in [who : Stream \cup {None}, at : StreamPC \cup {"none"}]

\* Whatever the overlaps and the time-outs, the registered events belong to
\* a stream that is still inside its try/finally: interrupt_session never
\* reports success for a stream that has ended, although every stream pops
\* the registry without looking at whose events it removes.
RegistryLive == registered # None => pc[registered] \in Inside

\* Nobody waited in vain and nobody arrived while another request waited.
Quiet == ~crowded /\ \A r \in Stream : ~timedOut[r]

\* In a quiet session, auto-interrupt serialises the streams: two are never
\* between registration and release at the same time.
SerialWhenQuiet ==
    Quiet => \A a, b \in Stream :
                pc[a] \in Inside /\ pc[b] \in Inside => a = b

\* In a quiet session a done event means what its comment says: the stream
\* it belongs to has finished its cleanup.
DoneMeansEnded ==
    Quiet => \A r \in Stream : doneSet[r] => pc[r] = "ended"

\* The turn of r cannot be expected in the context: its agent never began,
\* or the last-resort write of the finally block itself failed.
Excused(r) == ~began[r] \/ fault = [who |-> r, at |-> "fin_save"]

\* In a quiet session without unregistered requests no turn is ever lost:
\* once a stream has ended, by whatever path and after any single failure,
\* its turn is in the persisted context and stays there.
TurnsKept ==
    Quiet /\ (\A p \in Plain : pc[p] = "idle")
        => \A r \in Stream : pc[r] = "ended" => r \in ctx \/ Excused(r)

\* In such a session the agent of a stream that waited for another begins
\* with a context that already holds the other's turn.
SuccessorSeesPredecessor ==
    Quiet /\ (\A p \in Plain : pc[p] = "idle")
        => \A r \in Stream :
             waitsOn[r] # None /\ began[r]
                => waitsOn[r] \in history[r] \/ Excused(waitsOn[r])

\* A stream that showed part of an answer does not leave its message in
\* status "streaming", unless the very write of the final status failed or
\* the fallback that would have written it was cut short.
SettledUnlessMarkFails ==
    \A r \in Stream :
        pc[r] = "ended" /\ answered[r] /\ status[r] = "streaming"
            => fault.who = r /\ fault.at \in {"intr_mark", "fin_save", "fin_mark"}

\* A completed message is downgraded only when saving its context failed.
CompletedStays ==
    [][\A r \in Stream :
         status[r] = "completed" /\ status'[r] # "completed"
            => fault = [who |-> r, at |-> "ctx_save"]]_vars

\* An interrupt that reaches a stream inside its chunk loop ends it, and the
\* message says so unless the stream failed on the way.
InterruptTakesEffect ==
    \A r \in Stream :
        pc[r] = "looping" /\ intr[r]
            ~> pc[r] = "ended" /\ (status[r] = "interrupted" \/ fault.who = r)

\* Every request that reached the service is served and leaves the registry.
EveryRequestEnds ==
    \A r \in Stream : pc[r] # "idle" ~> pc[r] = "ended" /\ registered # r

\* docs/chat-api_en.md:864 says "Only one active AI generation request per
\* session at a time".  The code does not ensure it: see Quiet.
OneActiveRequest ==
    \A a, b \in Stream : pc[a] \in Inside /\ pc[b] \in Inside => a = b
=============================================================================
