--------------------------- MODULE ToolRoundProofs ---------------------------
(***************************************************************************)
(* What ToolRound guarantees for every set of tool calls, every iteration  *)
(* limit and every strategy: types, a counter that agrees with the set, no *)
(* lost wake-up, results behind their calls, and a context that is whole   *)
(* whenever the model is called or a run read to its end hands it on.      *)
(*                                                                         *)
(* RoundInv accounts for every call: one of the current round is pending   *)
(* or has a result (Sorted), one of the whole run is pending, flushed into *)
(* the context or buffered (Accounted).  The counter says when none is     *)
(* pending (Counted), and only then does the pipeline go on.               *)
(***************************************************************************)
EXTENDS ToolRound, FiniteSetTheorems, TLAPS

-----------------------------------------------------------------------------
(* Type correctness.                                                       *)

Numbers ==
    /\ iter \in 0 .. MaxIter /\ count \in Nat /\ done \in Nat
    /\ pc = "idle" => iter = 0

Flags == notified \in BOOLEAN /\ skip \in BOOLEAN /\ interrupt \in BOOLEAN

Others ==
    /\ pc \in {"idle", "streaming", "drain", "ended", "cancelled"}
    /\ sm \in State
    /\ calls \subseteq Tool /\ pending \subseteq Tool /\ results \subseteq Tool
    /\ buffered \subseteq Tool /\ asked \subseteq Tool /\ replied \subseteq Tool
    /\ consumer \in {"reading", "abandoned", "left"}
    /\ handed \in [asked : SUBSET Tool, replied : SUBSET Tool]
    /\ broken \subseteq Tool

RoundTypes == Numbers /\ Flags /\ Others

LEMMA TypeParts == RoundTypes => TypeOK
  BY DEF RoundTypes, TypeOK, Numbers, Flags, Others

LEMMA RoundTypeInit == ASSUME MaxIter \in Nat \ {0}, Init PROVE RoundTypes
  <1>1. Numbers
    BY DEF Init, Numbers
  <1>2. Flags
    BY Zenon DEF Init, Flags
  <1>3. Others
    BY DEF Init, Others, State, Context
  <1>4. QED
    BY <1>1, <1>2, <1>3 DEF RoundTypes

LEMMA NumbersStep ==
    ASSUME MaxIter \in Nat \ {0}, Numbers, [Next]_vars PROVE Numbers'
  <1> USE DEF Numbers, roundVars, ctxVars, outVars
  <1>1. CASE Start
    BY <1>1 DEF Start, BeginRound
  <1>2. ASSUME NEW t \in Tool, Call(t) \/ CallUnknown(t) \/ ToolBreaks(t) PROVE Numbers'
    BY <1>2 DEF Call, CallUnknown, ToolBreaks
  <1>3. ASSUME NEW t \in Tool, NEW needsLLM \in BOOLEAN, ToolEnds(t, needsLLM)
        PROVE  Numbers'
    BY <1>3 DEF ToolEnds
  <1>4. CASE StreamEndsWithTools
    BY <1>4 DEF StreamEndsWithTools, AfterTools, BeginRound, Finish
  <1>5. CASE StreamEndsWithoutTools \/ StreamFails
    BY <1>5 DEF StreamEndsWithoutTools, Finish, StreamFails
  <1>6. CASE Resume
    BY <1>6 DEF Resume, AfterTools, BeginRound, Finish
  <1>7. CASE ConsumerLeaves \/ Abandon \/ Close
    BY <1>7 DEF ConsumerLeaves, Abandon, Close
  <1>8. CASE UNCHANGED vars
    BY <1>8 DEF vars
  <1>9. QED
    BY <1>1, <1>2, <1>3, <1>4, <1>5, <1>6, <1>7, <1>8 DEF Next, StreamOver, ToolOver, Over

LEMMA FlagsStep == ASSUME Flags, [Next]_vars PROVE Flags'
  <1> USE DEF Flags, roundVars, ctxVars, outVars
  <1>1. CASE Start
    BY <1>1, Zenon DEF Start, BeginRound
  <1>2. ASSUME NEW t \in Tool, Call(t) PROVE Flags'
    BY <1>2, Zenon DEF Call
  <1>3. ASSUME NEW t \in Tool, CallUnknown(t) PROVE Flags'
    BY <1>3, Zenon DEF CallUnknown
  <1>4. ASSUME NEW t \in Tool, ToolOver(t) PROVE Flags'
    BY <1>4, Zenon DEF ToolOver, ToolEnds, ToolBreaks, Receive
  <1>5. CASE StreamEndsWithTools
    BY <1>5, Zenon DEF StreamEndsWithTools, AfterTools, BeginRound, Finish
  <1>6. CASE StreamEndsWithoutTools \/ StreamFails
    BY <1>6, Zenon DEF StreamEndsWithoutTools, Finish, StreamFails
  <1>7. CASE Resume
    BY <1>7, Zenon DEF Resume, AfterTools, BeginRound, Finish
  <1>8. CASE ConsumerLeaves \/ Abandon \/ Close
    BY <1>8, Zenon DEF ConsumerLeaves, Abandon, Close
  <1>9. CASE UNCHANGED vars
    BY <1>9, Zenon DEF vars
  <1>10. QED
    BY <1>1, <1>2, <1>3, <1>4, <1>5, <1>6, <1>7, <1>8, <1>9 DEF Next, StreamOver, Over

LEMMA OthersStep == ASSUME Others, [Next]_vars PROVE Others'
  <1> USE DEF Others, State, roundVars, ctxVars, outVars
  <1>1. CASE Start
    BY <1>1 DEF Start, BeginRound
  <1>2. ASSUME NEW t \in Tool, Call(t) PROVE Others'
    BY <1>2 DEF Call, Dispatch, Transition
  <1>3. ASSUME NEW t \in Tool, CallUnknown(t) PROVE Others'
    BY <1>3 DEF CallUnknown, Dispatch, Transition
  <1>4. ASSUME NEW t \in Tool, ToolOver(t) PROVE Others'
    BY <1>4 DEF ToolOver, ToolEnds, ToolBreaks, Receive, ToError
  <1>5. CASE StreamEndsWithTools
    BY <1>5 DEF StreamEndsWithTools, AfterTools, BeginRound, Finish, Transition
  <1>6. CASE StreamEndsWithoutTools \/ StreamFails
    BY <1>6 DEF StreamEndsWithoutTools, Finish, Transition, StreamFails, ToError
  <1>7. CASE Resume
    BY <1>7 DEF Resume, AfterTools, BeginRound, Finish, Transition
  <1>8. CASE ConsumerLeaves \/ Abandon \/ Close
    BY <1>8 DEF ConsumerLeaves, Abandon, Close, Context
  <1>9. CASE UNCHANGED vars
    BY <1>9 DEF vars
  <1>10. QED
    BY <1>1, <1>2, <1>3, <1>4, <1>5, <1>6, <1>7, <1>8, <1>9 DEF Next, StreamOver, Over

LEMMA RoundTypeStep ==
    ASSUME MaxIter \in Nat \ {0}, RoundTypes, [Next]_vars PROVE RoundTypes'
  BY NumbersStep, FlagsStep, OthersStep DEF RoundTypes

\* Every variable has its type.
THEOREM RoundTypeCorrect == ASSUME MaxIter \in Nat \ {0} PROVE Spec => []TypeOK
  <1>1. Init => RoundTypes
    BY RoundTypeInit
  <1>2. RoundTypes /\ [Next]_vars => RoundTypes'
    BY RoundTypeStep
  <1>3. QED
    BY <1>1, <1>2, TypeParts, PTL DEF Spec

-----------------------------------------------------------------------------
(* Where the calls are.                                                    *)

\* A call of the round is pending or has a result.
Sorted ==
    /\ pending \cup broken \cup buffered \subseteq calls
    /\ results = calls \ pending
    /\ pending \cap broken = {}

\* A call of the run is pending, in the context with its result, or its result
\* is buffered; between rounds the context is whole.
Accounted ==
    /\ asked \cup calls = pending \cup replied \cup buffered
    /\ replied \subseteq asked
    /\ pc = "idle" => calls = {}
    /\ pc = "drain" => calls \subseteq asked
    /\ pc \in {"idle", "streaming", "ended"} => asked = replied

Counted ==
    /\ IsFiniteSet(pending \cup broken)
    /\ count = Cardinality(pending \cup broken)

LEMMA NonePending == ASSUME Counted, count = 0 PROVE pending = {} /\ broken = {}
  BY FS_EmptySet DEF Counted

LEMMA CountedStep == ASSUME Counted, Sorted, [Next]_vars PROVE Counted'
  <1> USE DEF Counted, Sorted, roundVars, ctxVars, outVars
  <1>1. ASSUME NEW t \in Tool, Call(t) PROVE Counted'
    <2>1. pending' \cup broken' = (pending \cup broken) \cup {t} /\ t \notin pending \cup broken
      BY <1>1 DEF Call, Dispatch
    <2>2. count' = count + 1
      BY <1>1 DEF Call
    <2>3. QED
      BY <2>1, <2>2, FS_AddElement
  <1>2. ASSUME NEW t \in Tool, NEW needsLLM \in BOOLEAN, ToolEnds(t, needsLLM)
        PROVE  Counted'
    <2>1. pending' \cup broken' = (pending \cup broken) \ {t} /\ t \in pending \cup broken
      BY <1>2 DEF ToolEnds
    <2>2. count \in Nat \ {0}
      BY <2>1, FS_EmptySet, FS_CardinalityType
    <2>3. count' = count - 1
      BY <1>2, <2>2 DEF ToolEnds
    <2>4. QED
      BY <2>1, <2>3, FS_RemoveElement
  <1>3. ASSUME NEW t \in Tool, ToolBreaks(t) PROVE Counted'
    <2>1. pending' \cup broken' = pending \cup broken /\ count' = count
      BY <1>3 DEF ToolBreaks
    <2>2. QED
      BY <2>1
  <1>4. CASE UNCHANGED <<pending, count, broken>>
    BY <1>4
  <1>5. QED
    BY <1>1, <1>2, <1>3, <1>4
       DEF Next, StreamOver, ToolOver, Over, vars, Start, CallUnknown, StreamEndsWithTools,
           StreamEndsWithoutTools, StreamFails, Resume, ConsumerLeaves, Abandon, Close

\* A round begins, or the run ends, when no tool is pending.
LEMMA AfterToolsSorted ==
    ASSUME Counted, count = 0, Sorted, AfterTools, buffered' = {},
           UNCHANGED <<pending, broken>>
    PROVE  Sorted' /\ calls' \subseteq calls
  <1>1. pending = {} /\ broken = {}
    BY NonePending
  <1>2. QED
    BY <1>1 DEF Sorted, AfterTools, BeginRound, Finish

LEMMA SortedStep ==
    ASSUME Sorted, Accounted, Counted, [Next]_vars PROVE Sorted'
  <1> USE DEF Sorted, roundVars, ctxVars, outVars
  <1>1. CASE Start
    BY <1>1 DEF Start, BeginRound, Accounted
  <1>2. ASSUME NEW t \in Tool, Call(t) PROVE Sorted'
    BY <1>2 DEF Call, Dispatch
  <1>3. ASSUME NEW t \in Tool, CallUnknown(t) PROVE Sorted'
    BY <1>3 DEF CallUnknown, Dispatch
  <1>4. ASSUME NEW t \in Tool, ToolOver(t) PROVE Sorted'
    BY <1>4 DEF ToolOver, ToolEnds, ToolBreaks, Receive
  <1>5. CASE StreamEndsWithTools
    BY <1>5, AfterToolsSorted DEF StreamEndsWithTools
  <1>6. CASE StreamEndsWithoutTools \/ StreamFails
    BY <1>6 DEF StreamEndsWithoutTools, StreamFails, Finish
  <1>7. CASE Resume
    <2>1. CASE count > 0
      BY <1>7, <2>1 DEF Resume
    <2>2. CASE ~(count > 0)
      <3>1. count = 0
        BY <2>2, FS_CardinalityType DEF Counted
      <3>2. QED
        BY <1>7, <2>2, <3>1, AfterToolsSorted DEF Resume
    <2>3. QED
      BY <2>1, <2>2
  <1>8. CASE ConsumerLeaves \/ Abandon \/ Close
    BY <1>8 DEF ConsumerLeaves, Abandon, Close
  <1>9. CASE UNCHANGED vars
    BY <1>9 DEF vars
  <1>10. QED
    BY <1>1, <1>2, <1>3, <1>4, <1>5, <1>6, <1>7, <1>8, <1>9 DEF Next, StreamOver, Over

\* What flushing the buffer after the last tool makes of the context.
LEMMA FlushAccounts ==
    ASSUME Sorted, Accounted, Counted, count = 0, pc \in {"streaming", "drain"},
           asked' = asked \cup calls, replied' = replied \cup buffered, buffered' = {},
           AfterTools, UNCHANGED pending
    PROVE  Accounted' /\ asked' = replied' /\ results = calls
  <1>1. pending = {}
    BY NonePending
  <1>2. asked' = replied' /\ results = calls
    BY <1>1 DEF Accounted, Sorted
  <1>3. calls' \subseteq asked' /\ pc' \in {"streaming", "ended"}
    BY DEF AfterTools, BeginRound, Finish
  <1>4. QED
    BY <1>1, <1>2, <1>3 DEF Accounted

LEMMA AccountedStep ==
    ASSUME Sorted, Accounted, Counted, [Next]_vars PROVE Accounted'
  <1> USE DEF Accounted, Sorted, roundVars, ctxVars, outVars
  <1>1. CASE Start
    BY <1>1 DEF Start, BeginRound
  <1>2. ASSUME NEW t \in Tool, Call(t) PROVE Accounted'
    BY <1>2 DEF Call, Dispatch
  <1>3. ASSUME NEW t \in Tool, CallUnknown(t) PROVE Accounted'
    BY <1>3 DEF CallUnknown, Dispatch
  <1>4. ASSUME NEW t \in Tool, ToolOver(t) PROVE Accounted'
    BY <1>4 DEF ToolOver, ToolEnds, ToolBreaks, Receive
  <1>5. CASE StreamEndsWithTools
    <2>1. CASE count = 0
      BY <1>5, <2>1, FlushAccounts DEF StreamEndsWithTools
    <2>2. CASE count # 0
      BY <1>5, <2>2 DEF StreamEndsWithTools
    <2>3. QED
      BY <2>1, <2>2
  <1>6. CASE StreamEndsWithoutTools \/ StreamFails
    BY <1>6 DEF StreamEndsWithoutTools, StreamFails, Finish
  <1>7. CASE Resume
    <2>1. CASE count > 0
      BY <1>7, <2>1 DEF Resume
    <2>2. CASE ~(count > 0)
      <3>1. count = 0
        BY <2>2, FS_CardinalityType DEF Counted
      <3>2. asked' = asked \cup calls
        BY <1>7, <2>2 DEF Resume
      <3>3. QED
        BY <1>7, <2>2, <3>1, <3>2, FlushAccounts DEF Resume
    <2>3. QED
      BY <2>1, <2>2
  <1>8. CASE ConsumerLeaves \/ Abandon \/ Close
    BY <1>8 DEF ConsumerLeaves, Abandon, Close
  <1>9. CASE UNCHANGED vars
    BY <1>9 DEF vars
  <1>10. QED
    BY <1>1, <1>2, <1>3, <1>4, <1>5, <1>6, <1>7, <1>8, <1>9 DEF Next, StreamOver, Over

-----------------------------------------------------------------------------
(* How a run ends.                                                         *)

\* As long as no result made its handler raise, the done frame is pushed when
\* the pipeline ends, and who left before has not read the run to its end.
Ending ==
    broken = {} =>
        /\ done = IF pc = "ended" THEN 1 ELSE 0
        /\ pc \in {"streaming", "drain"} => sm \in {"LLM_CALLING", "TOOL_EXECUTING"}
        /\ pc = "ended" => sm \in {"COMPLETED", "ERROR"}
        /\ consumer = "left" => pc = "ended" /\ handed.asked = handed.replied

LEMMA EndingStep ==
    ASSUME Ending, Accounted, [Next]_vars PROVE Ending'
  <1> SUFFICES ASSUME broken' = {} PROVE Ending'
    BY DEF Ending
  <1> USE DEF Ending, roundVars, ctxVars, outVars
  <1>0. broken = {}
    BY DEF Next, StreamOver, ToolOver, Over, vars, Start, Call, CallUnknown, ToolEnds,
           ToolBreaks, StreamEndsWithTools, StreamEndsWithoutTools, StreamFails, Resume,
           ConsumerLeaves, Abandon, Close
  <1>1. CASE Start
    BY <1>0, <1>1 DEF Start, BeginRound
  <1>2. ASSUME NEW t \in Tool, Call(t) PROVE Ending'
    BY <1>0, <1>2 DEF Call, Dispatch, Transition
  <1>3. ASSUME NEW t \in Tool, CallUnknown(t) PROVE Ending'
    BY <1>0, <1>3 DEF CallUnknown, Dispatch, Transition
  <1>4. ASSUME NEW t \in Tool, NEW needsLLM \in BOOLEAN, ToolEnds(t, needsLLM)
        PROVE  Ending'
    BY <1>0, <1>4 DEF ToolEnds
  <1>5. ASSUME NEW t \in Tool, ToolBreaks(t) PROVE Ending'
    BY <1>5 DEF ToolBreaks
  <1>6. CASE StreamEndsWithTools
    BY <1>0, <1>6 DEF StreamEndsWithTools, AfterTools, BeginRound, Finish, Transition
  <1>7. CASE StreamEndsWithoutTools
    BY <1>0, <1>7 DEF StreamEndsWithoutTools, Finish, Transition
  <1>8. CASE StreamFails
    BY <1>0, <1>8 DEF StreamFails, ToError, ValidTransitions, State
  <1>9. CASE Resume
    BY <1>0, <1>9 DEF Resume, AfterTools, BeginRound, Finish, Transition
  <1>10. CASE ConsumerLeaves
    <2>1. pc = "ended"
      BY <1>0, <1>10 DEF ConsumerLeaves
    <2>2. QED
      BY <1>0, <1>10, <2>1 DEF ConsumerLeaves, Context, Accounted
  <1>11. CASE Abandon \/ Close
    BY <1>0, <1>11 DEF Abandon, Close
  <1>12. CASE UNCHANGED vars
    BY <1>0, <1>12 DEF vars
  <1>13. QED
    BY <1>1, <1>2, <1>3, <1>4, <1>5, <1>6, <1>7, <1>8, <1>9, <1>10, <1>11, <1>12
       DEF Next, StreamOver, ToolOver, Over

LEMMA WokenStep == ASSUME NoLostWakeup, Counted, [Next]_vars PROVE NoLostWakeup'
  <1> USE DEF NoLostWakeup, roundVars, ctxVars, outVars
  <1>1. count \in Nat
    BY FS_CardinalityType DEF Counted
  <1>2. CASE Start
    BY <1>2 DEF Start, BeginRound
  <1>3. ASSUME NEW t \in Tool, Call(t) \/ CallUnknown(t) PROVE NoLostWakeup'
    BY <1>3 DEF Call, CallUnknown, Dispatch
  <1>4. ASSUME NEW t \in Tool, ToolOver(t) PROVE NoLostWakeup'
    BY <1>1, <1>4 DEF ToolOver, ToolEnds, ToolBreaks, Receive
  <1>5. CASE StreamEndsWithTools
    BY <1>5 DEF StreamEndsWithTools, AfterTools, BeginRound, Finish
  <1>6. CASE StreamEndsWithoutTools \/ StreamFails
    BY <1>6 DEF StreamEndsWithoutTools, StreamFails, Finish
  <1>7. CASE Resume
    BY <1>1, <1>7 DEF Resume, AfterTools, BeginRound, Finish
  <1>8. CASE ConsumerLeaves \/ Abandon \/ Close
    BY <1>8 DEF ConsumerLeaves, Abandon, Close
  <1>9. CASE UNCHANGED vars
    BY <1>9 DEF vars
  <1>10. QED
    BY <1>2, <1>3, <1>4, <1>5, <1>6, <1>7, <1>8, <1>9 DEF Next, StreamOver, Over

-----------------------------------------------------------------------------
RoundInv == Sorted /\ Accounted /\ Counted /\ Ending /\ NoLostWakeup

LEMMA RoundInit == Init => RoundInv
  <1>1. Init => Counted
    BY FS_EmptySet DEF Init, Counted
  <1>2. Init => Sorted /\ Accounted /\ Ending /\ NoLostWakeup
    BY DEF Init, Sorted, Accounted, Ending, NoLostWakeup
  <1>3. QED
    BY <1>1, <1>2 DEF RoundInv

LEMMA RoundStep == RoundInv /\ [Next]_vars => RoundInv'
  BY SortedStep, AccountedStep, CountedStep, EndingStep, WokenStep DEF RoundInv

LEMMA RoundHolds == Spec => []RoundInv
  BY RoundInit, RoundStep, PTL DEF Spec

\* full_duplex_llm_processor.py: the counter of the condition is the number of
\* pending tools and of those whose handling raised, whichever task updates it.
THEOREM CounterAgrees == Spec => []CountsAgree
  <1>1. RoundInv => CountsAgree
    BY DEF RoundInv, Counted, CountsAgree
  <1>2. QED
    BY <1>1, RoundHolds, PTL

\* _wait_for_tools_complete: whoever waits for tools that have all ended has
\* been woken.
THEOREM WaiterIsWoken == Spec => []NoLostWakeup
  <1>1. RoundInv => NoLostWakeup
    BY DEF RoundInv
  <1>2. QED
    BY <1>1, RoundHolds, PTL

\* _flush_pending_tool_results: no result comes into the context before the
\* assistant message with its call.
THEOREM ResultsFollowCalls == Spec => []ResultsBehindCalls
  <1>1. RoundInv => ResultsBehindCalls
    BY DEF RoundInv, Accounted, ResultsBehindCalls
  <1>2. QED
    BY <1>1, RoundHolds, PTL

\* ChatAgent.stream: what it hands on of a run read to its end is whole,
\* however the run ends.
THEOREM ContextIsWhole == Spec => []HandedWhole
  <1>1. RoundInv => HandedWhole
    BY DEF RoundInv, Ending, HandedWhole
  <1>2. QED
    BY <1>1, RoundHolds, PTL

\* A run read to its end pushed one done frame and is in a final state.
THEOREM RunEndsOnce == Spec => []OneDone
  <1>1. RoundInv => OneDone
    BY DEF RoundInv, Ending, OneDone
  <1>2. QED
    BY <1>1, RoundHolds, PTL

\* A new round begins with the last one whole.
LEMMA WholeRoundStep ==
    RoundInv /\ [Next]_vars =>
      [iter' # iter => results = calls /\ asked' = replied' /\ buffered' = {}]_vars
  <1>1. ASSUME RoundInv, [Next]_vars, iter' # iter
        PROVE  results = calls /\ asked' = replied' /\ buffered' = {}
    <2> USE <1>1 DEF RoundInv, roundVars, ctxVars, outVars
    <2>1. CASE Start
      BY <2>1 DEF Start, Sorted, Accounted
    <2>2. CASE StreamEndsWithTools
      <3>1. count = 0
        BY <2>2 DEF StreamEndsWithTools
      <3>2. QED
        BY <2>2, <3>1, FlushAccounts DEF StreamEndsWithTools
    <2>3. CASE Resume
      <3>1. ~(count > 0)
        BY <2>3 DEF Resume
      <3>2. count = 0 /\ asked' = asked \cup calls
        BY <2>3, <3>1, FS_CardinalityType DEF Resume, Counted, Accounted
      <3>3. QED
        BY <2>3, <3>1, <3>2, FlushAccounts DEF Resume
    <2>4. QED
      BY <2>1, <2>2, <2>3
         DEF Next, vars, StreamOver, ToolOver, Over, Call, CallUnknown, ToolEnds, ToolBreaks,
             StreamEndsWithoutTools, Finish, StreamFails, ConsumerLeaves, Abandon, Close
  <1>2. QED
    BY <1>1

\* _handle_llm_call: the model is called again only with whole rounds.
THEOREM RoundsAreWhole == Spec => CalledWithWholeRounds
  BY WholeRoundStep, RoundHolds, PTL DEF Spec, CalledWithWholeRounds

\* The safety part of UsesToolCalls: every call is dispatched once and ends
\* once, after its dispatch, whatever the run and its consumer do meanwhile.
THEOREM RoundKeepsPromise == Spec => Calls!Init /\ [][Calls!Next]_(Calls!vars)
  <1>1. Init => Calls!Init
    BY DEF Init, Calls!Init
  <1>2. RoundInv /\ [Next]_vars => [Calls!Next]_(Calls!vars)
    <2> SUFFICES ASSUME Sorted, Accounted, Counted, [Next]_vars
                 PROVE  [Calls!Next]_(Calls!vars)
      BY DEF RoundInv
    <2> USE DEF Calls!Next, Calls!vars, roundVars, ctxVars, outVars
    <2>1. ASSUME NEW t \in Tool, Call(t) PROVE Calls!Call(t)
      BY <2>1 DEF Call, Dispatch, Calls!Call, Sorted
    <2>2. ASSUME NEW t \in Tool, CallUnknown(t) PROVE Calls!CallAndEnd(t)
      BY <2>2 DEF CallUnknown, Dispatch, Calls!CallAndEnd, Sorted
    <2>3. ASSUME NEW t \in Tool, ToolOver(t) PROVE Calls!End(t)
      BY <2>3 DEF ToolOver, ToolEnds, ToolBreaks, Calls!End, Sorted
    <2>4. CASE Start
      BY <2>4 DEF Start, BeginRound, Accounted
    <2>5. CASE StreamEndsWithTools
      BY <2>5 DEF StreamEndsWithTools, AfterTools, BeginRound, Finish
    <2>6. CASE Resume
      BY <2>6 DEF Resume, AfterTools, BeginRound, Finish, Accounted
    <2>7. CASE StreamEndsWithoutTools \/ StreamFails
      BY <2>7 DEF StreamEndsWithoutTools, StreamFails, Finish
    <2>8. CASE ConsumerLeaves \/ Abandon \/ Close \/ UNCHANGED vars
      BY <2>8 DEF ConsumerLeaves, Abandon, Close, vars
    <2>9. QED
      BY <2>1, <2>2, <2>3, <2>4, <2>5, <2>6, <2>7, <2>8 DEF Next, StreamOver, Over
  <1>3. QED
    BY <1>1, <1>2, RoundInit, RoundHolds, PTL DEF Spec
=============================================================================
