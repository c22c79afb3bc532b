------------------------------ MODULE ToolRound ------------------------------
(***************************************************************************)
(* One run of the agent: FullDuplexLLMProcessor alternates between reading *)
(* an LLM stream, dispatching the tool calls it finds while it reads, and  *)
(* waiting for their results, under the eyes of the consumer of its output *)
(* queue (ChatAgent.stream).  Tools end whenever they like, also after the *)
(* run.                                                                    *)
(*                                                                         *)
(* All of it runs on one asyncio loop: a step is what happens between two  *)
(* awaits that really suspend.  A message list is reduced to the calls     *)
(* made in its assistant messages (asked) and the calls answered by its    *)
(* tool messages (replied).                                                *)
(***************************************************************************)
EXTENDS Integers, FiniteSets

CONSTANTS
    Tool,       \* identifiers of the tool calls the model may make
    MaxIter,    \* max_iterations
    Strategy,   \* interrupt_strategy
    CanBreak    \* may a tool return a card_result whose card_data is no object?

VARIABLES
    pc,         \* the pipeline task: "streaming" awaits a chunk, "drain" the tools
    iter,       \* _iteration_count
    sm,         \* state of the LLMStateMachine
    calls,      \* streamed_tool_calls of the current round
    pending,    \* dispatched calls without an end frame (_pending_tools)
    count,      \* _pending_tool_count
    notified,   \* has the waiter on _pending_tools_condition been woken?
    results,    \* _current_round_tool_results
    buffered,   \* _pending_tool_results
    asked,      \* calls in the assistant messages of _generic_messages
    replied,    \* calls answered by the tool messages of _generic_messages
    skip,       \* _skip_post_tool_llm
    interrupt,  \* _interrupt_requested
    done,       \* LLMFullResponseEndFrames pushed
    consumer,   \* ChatAgent.stream
    handed,     \* the context messages the consumer handed on
    broken      \* history: calls whose end frame made the handler raise

roundVars == <<calls, pending, count, results, buffered, skip, interrupt>>
ctxVars   == <<asked, replied>>
outVars   == <<consumer, handed>>
vars == <<pc, iter, sm, roundVars, notified, ctxVars, done, outVars, broken>>

-----------------------------------------------------------------------------
State == {"IDLE", "LLM_CALLING", "WAITING_FOR_TOOLS", "TOOL_EXECUTING",
          "ERROR", "COMPLETED"}

ValidTransitions ==
    [s \in State |->
       CASE s = "IDLE" -> {"LLM_CALLING"}
         [] s = "LLM_CALLING" -> {"WAITING_FOR_TOOLS", "TOOL_EXECUTING",
                                  "COMPLETED", "ERROR"}
         [] s = "WAITING_FOR_TOOLS" -> {"TOOL_EXECUTING", "LLM_CALLING",
                                        "COMPLETED", "ERROR"}
         [] s = "TOOL_EXECUTING" -> {"WAITING_FOR_TOOLS", "LLM_CALLING",
                                     "COMPLETED", "ERROR"}
         [] OTHER -> {"IDLE"}]

\* A transition the code makes outside every handler of InvalidStateTransition.
Transition(s) == s \in ValidTransitions[sm] /\ sm' = s

\* ERROR, unless the machine refuses it.
ToError == sm' = IF "ERROR" \in ValidTransitions[sm] THEN "ERROR" ELSE sm

-----------------------------------------------------------------------------
(* The loop of _handle_llm_call.                                           *)

BeginRound ==
    /\ iter' = iter + 1
    /\ sm' = "LLM_CALLING"
    /\ calls' = {}
    /\ results' = {}
    /\ skip' = TRUE
    /\ interrupt' = FALSE
    /\ pc' = "streaming"
    /\ UNCHANGED done

\* Mutant of Finish: the state machine is not completed.
FinishUnmarked ==
    /\ done' = done + 1
    /\ pc' = "ended"
    /\ UNCHANGED <<iter, sm, calls, results, skip, interrupt>>

Finish ==
    /\ done' = done + 1
    /\ Transition("COMPLETED")
    /\ pc' = "ended"
    /\ UNCHANGED <<iter, calls, results, skip, interrupt>>

\* Mutant of AfterTools: one iteration too many.
AfterToolsOnceMore ==
    IF ~skip /\ iter <= MaxIter
    THEN "LLM_CALLING" \in ValidTransitions[sm] /\ BeginRound
    ELSE Finish

\* No tool is pending: stop, call the model again, or give up.
AfterTools ==
    IF ~skip /\ iter < MaxIter
    THEN "LLM_CALLING" \in ValidTransitions[sm] /\ BeginRound
    ELSE Finish

Start ==
    /\ pc = "idle"
    /\ BeginRound
    /\ UNCHANGED <<pending, count, buffered, notified, ctxVars, outVars, broken>>

\* Mutant of Dispatch: a call that was already sent is sent again.
DispatchAgain(t) ==
    /\ pc = "streaming"
    /\ t \notin asked
    /\ IF calls = {} THEN Transition("TOOL_EXECUTING") ELSE UNCHANGED sm
    /\ calls' = calls \cup {t}

\* on_tool_call: the machine moves with the first call of the round.
Dispatch(t) ==
    /\ pc = "streaming"
    /\ t \notin asked \cup calls
    /\ IF calls = {} THEN Transition("TOOL_EXECUTING") ELSE UNCHANGED sm
    /\ calls' = calls \cup {t}

\* Mutant of Call: only the first call of a round is counted.
CallUncounted(t) ==
    /\ Dispatch(t)
    /\ pending' = pending \cup {t}
    /\ count' = IF calls = {} THEN count + 1 ELSE count
    /\ UNCHANGED <<pc, iter, notified, results, buffered, skip, interrupt,
                   ctxVars, done, outVars, broken>>

Call(t) ==
    /\ Dispatch(t)
    /\ pending' = pending \cup {t}
    /\ count' = count + 1
    /\ UNCHANGED <<pc, iter, notified, results, buffered, skip, interrupt,
                   ctxVars, done, outVars, broken>>

\* Mutant of StreamEndsWithTools: nobody waits for the tools.
StreamEndsUnwaited ==
    /\ pc = "streaming"
    /\ calls # {}
    /\ asked' = asked \cup calls
    /\ replied' = replied \cup buffered
    /\ buffered' = {}
    /\ notified' = FALSE
    /\ AfterTools
    /\ UNCHANGED <<pending, count, outVars, broken>>

\* The text content of the round is over, or the interrupt check after a
\* chunk broke off the stream; the calls of the round become a message.
StreamEndsWithTools ==
    /\ pc = "streaming"
    /\ calls # {}
    /\ asked' = asked \cup calls
    /\ replied' = replied \cup buffered
    /\ buffered' = {}
    /\ notified' = FALSE
    /\ IF count = 0
       THEN AfterTools
       ELSE pc' = "drain" /\ UNCHANGED <<iter, sm, calls, results, skip,
                                         interrupt, done>>
    /\ UNCHANGED <<pending, count, outVars, broken>>

StreamEndsWithoutTools ==
    /\ pc = "streaming"
    /\ calls = {}
    /\ Finish
    /\ UNCHANGED <<pending, count, buffered, notified, ctxVars, outVars, broken>>

\* An exception in the round; its calls and results never become messages.
StreamFails ==
    /\ pc = "streaming"
    /\ ToError
    /\ done' = done + 1
    /\ pc' = "ended"
    /\ UNCHANGED <<iter, roundVars, notified, ctxVars, outVars, broken>>

\* Mutant of Resume: results that arrived during the wait are not flushed.
ResumeUnflushed ==
    /\ pc = "drain"
    /\ notified
    /\ notified' = FALSE
    /\ IF count > 0
       THEN UNCHANGED <<pc, iter, sm, calls, results, skip, interrupt, done>>
       ELSE AfterTools
    /\ UNCHANGED <<pending, count, buffered, ctxVars, outVars, broken>>

\* _wait_for_tools_complete checks the counter again after every wake-up.
Resume ==
    /\ pc = "drain"
    /\ notified
    /\ notified' = FALSE
    /\ IF count > 0
       THEN UNCHANGED <<pc, iter, sm, calls, results, buffered, skip,
                        interrupt, ctxVars, done>>
       ELSE /\ replied' = replied \cup buffered
            /\ buffered' = {}
            /\ AfterTools
            /\ UNCHANGED asked
    /\ UNCHANGED <<pending, count, outVars, broken>>

-----------------------------------------------------------------------------
(* _handle_tool_result, run in the task of the tool.                       *)

\* The counter is compared before it is decremented.
StrategyAsksStop ==
    \/ Strategy = "immediate"
    \/ Strategy = "semantic_complete" /\ count = 0

Receive(t) ==
    /\ results' = results \cup {t}
    /\ buffered' = buffered \cup {t}
    /\ interrupt' = (interrupt \/ StrategyAsksStop)

\* Mutant of ToolEnds: the waiter is notified before the decrement.
ToolEndsNotifyFirst(t, needsLLM) ==
    /\ t \in pending
    /\ pending' = pending \ {t}
    /\ Receive(t)
    /\ skip' = (skip /\ ~needsLLM)
    /\ count' = IF count > 0 THEN count - 1 ELSE 0
    /\ notified' = (notified \/ (pc = "drain" /\ count = 0))
    /\ UNCHANGED <<pc, iter, sm, calls, ctxVars, done, outVars, broken>>

\* Mutant of ToolEnds: the result goes straight into the context.
ToolEndsUncached(t, needsLLM) ==
    /\ t \in pending
    /\ pending' = pending \ {t}
    /\ results' = results \cup {t}
    /\ replied' = replied \cup {t}
    /\ interrupt' = (interrupt \/ StrategyAsksStop)
    /\ skip' = (skip /\ ~needsLLM)
    /\ count' = IF count > 0 THEN count - 1 ELSE 0
    /\ notified' = (notified \/ (pc = "drain" /\ count' = 0))
    /\ UNCHANGED <<pc, iter, sm, calls, asked, buffered, done, outVars, broken>>

\* needsLLM: the tool failed or timed out, is unknown to the registry or has
\* requires_llm set.
ToolEnds(t, needsLLM) ==
    /\ t \in pending
    /\ pending' = pending \ {t}
    /\ Receive(t)
    /\ skip' = (skip /\ ~needsLLM)
    /\ count' = IF count > 0 THEN count - 1 ELSE 0
    /\ notified' = (notified \/ (pc = "drain" /\ count' = 0))
    /\ UNCHANGED <<pc, iter, sm, calls, ctxVars, done, outVars, broken>>

\* Mutant of ToolBreaks: the error is only logged.
ToolBreaksSilently(t) ==
    /\ CanBreak
    /\ t \in pending
    /\ pending' = pending \ {t}
    /\ Receive(t)
    /\ broken' = broken \cup {t}
    /\ UNCHANGED <<pc, iter, sm, calls, count, notified, skip, ctxVars, done,
                   outVars>>

\* The handler raises on the card; process_frame reports an error and a done
\* frame, and the counter is never decremented.
ToolBreaks(t) ==
    /\ CanBreak
    /\ t \in pending
    /\ pending' = pending \ {t}
    /\ Receive(t)
    /\ broken' = broken \cup {t}
    /\ ToError
    /\ done' = done + 1
    /\ UNCHANGED <<pc, iter, calls, count, notified, skip, ctxVars, outVars>>

\* The executor has no handler: the error comes back inside the dispatch.
CallUnknown(t) ==
    /\ Dispatch(t)
    /\ results' = results \cup {t}
    /\ buffered' = buffered \cup {t}
    /\ interrupt' = (interrupt \/ Strategy = "immediate")
    /\ skip' = FALSE
    /\ UNCHANGED <<pc, iter, pending, count, notified, ctxVars, done, outVars,
                   broken>>

-----------------------------------------------------------------------------
(* ChatAgent.stream.                                                       *)

Context == [asked |-> asked, replied |-> replied]

\* The consumer meets a done chunk, cancels a pipeline that still runs and
\* hands on the context.  (It skips the None sentinel.)
ConsumerLeaves ==
    /\ consumer = "reading"
    /\ done > 0
    /\ consumer' = "left"
    /\ pc' = IF pc = "ended" THEN pc ELSE "cancelled"
    /\ handed' = Context
    /\ UNCHANGED <<iter, sm, roundVars, notified, ctxVars, done, broken>>

\* stream_chat stops iterating (interrupt, stop hook, disconnect) after it
\* has read the context; the generator is closed some time later.
Abandon ==
    /\ consumer = "reading"
    /\ pc # "idle"
    /\ consumer' = "abandoned"
    /\ handed' = Context
    /\ UNCHANGED <<pc, iter, sm, roundVars, notified, ctxVars, done, broken>>

Close ==
    /\ consumer = "abandoned"
    /\ pc \in {"streaming", "drain"}
    /\ pc' = "cancelled"
    /\ UNCHANGED <<iter, sm, roundVars, notified, ctxVars, done, outVars, broken>>

-----------------------------------------------------------------------------
Init ==
    /\ pc = "idle"
    /\ iter = 0
    /\ sm = "IDLE"
    /\ calls = {}
    /\ pending = {}
    /\ count = 0
    /\ notified = FALSE
    /\ results = {}
    /\ buffered = {}
    /\ asked = {}
    /\ replied = {}
    /\ skip = TRUE
    /\ interrupt = FALSE
    /\ done = 0
    /\ consumer = "reading"
    /\ handed = Context
    /\ broken = {}

StreamOver == StreamEndsWithTools \/ StreamEndsWithoutTools \/ StreamFails

\* A tool may be cancelled by nobody: no code sends FunctionCallCancelFrame.
ToolOver(t) == (\E needsLLM \in BOOLEAN : ToolEnds(t, needsLLM)) \/ ToolBreaks(t)

\* The run is over and no tool is left.
Over ==
    /\ pc \in {"ended", "cancelled"}
    /\ consumer # "reading"
    /\ pending = {}
    /\ UNCHANGED vars

Next ==
    \/ Start
    \/ \E t \in Tool : Call(t) \/ CallUnknown(t) \/ ToolOver(t)
    \/ StreamOver
    \/ Resume
    \/ ConsumerLeaves
    \/ Abandon
    \/ Close
    \/ Over

\* An LLM stream ends or fails, the executor's time-out ends every tool, and
\* the loop runs the tasks that are ready.
Fairness ==
    /\ WF_vars(StreamOver)
    /\ WF_vars(Resume)
    /\ WF_vars(ConsumerLeaves)
    /\ WF_vars(Close)
    /\ \A t \in Tool : WF_vars(ToolOver(t))

Spec == Init /\ [][Next]_vars /\ Fairness

-----------------------------------------------------------------------------
(* Properties.                                                             *)

Live == pc \in {"streaming", "drain"}

\* Every variable has its type.
TypeOK ==
    /\ pc \in {"idle", "streaming", "drain", "ended", "cancelled"}
    /\ iter \in 0 .. MaxIter
    /\ sm \in State
    /\ calls \subseteq Tool
    /\ pending \subseteq Tool
    /\ count \in Nat
    /\ notified \in BOOLEAN
    /\ results \subseteq Tool
    /\ buffered \subseteq Tool
    /\ asked \subseteq Tool
    /\ replied \subseteq Tool
    /\ skip \in BOOLEAN
    /\ interrupt \in BOOLEAN
    /\ done \in Nat
    /\ consumer \in {"reading", "abandoned", "left"}
    /\ handed \in [asked : SUBSET Tool, replied : SUBSET Tool]
    /\ broken \subseteq Tool

\* The counter of the condition and the set kept by the state machine, updated
\* in different places by different tasks, agree as long as the run lasts: the
\* counter exceeds the set only by the calls whose handling raised.
CountsAgree == Live => count = Cardinality(pending \cup broken)

\* A waiter whose last tool has ended has been woken, however the end of the
\* stream and the ends of the tools interleave.
NoLostWakeup == pc = "drain" /\ count = 0 => notified

\* The model is called again only with whole rounds: every call of the last
\* round has its result in the prompt (tool_ans), every call in the context is
\* answered there, and no result waits to be put into it.
CalledWithWholeRounds ==
    [][iter' # iter => /\ results = calls
                       /\ asked' = replied'
                       /\ buffered' = {}]_vars

\* A result is in the context only behind the assistant message that asks
\* for it, also when the tool ends before the message exists.
ResultsBehindCalls == replied \subseteq asked

\* A run that is read to its end hands on a context in which every tool call
\* is answered, whether it ends with an answer, without a last call, at the
\* iteration limit or with an LLM error.  (An abandoned run does not.)
HandedWhole ==
    consumer = "left" /\ broken = {} => handed.asked = handed.replied

\* A run read to its end pushed one done frame and left its state machine in
\* a final state, unless the handling of a result raised.
OneDone ==
    consumer = "left" /\ broken = {} => done = 1 /\ sm \in {"COMPLETED", "ERROR"}

\* The consumer of a run is always released, even when the handling of a
\* result raised and the pipeline waits for a counter that never reaches zero.
RunEnds == pc = "streaming" ~> pc \in {"ended", "cancelled"} /\ consumer # "reading"

\* The run uses tools as ToolCalls says.
Calls == INSTANCE ToolCalls WITH called <- asked \cup calls,
                                 ended <- (asked \cup calls) \ pending
UsesToolCalls == Calls!Spec

\* test_tool_interrupt_strategy.py:178 says "Last tool return should trigger
\* interrupt" under semantic_complete.  The code never does.
LastReturnInterrupts ==
    Strategy = "semantic_complete" /\ pc = "streaming" /\ calls # {}
        => (results = calls => interrupt)
=============================================================================
