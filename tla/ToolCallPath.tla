---------------------------- MODULE ToolCallPath ----------------------------
(***************************************************************************)
(* Components a tool call goes through, side by side: the stream that      *)
(* brings it from the model, the extractor that finds it in text, the      *)
(* round that dispatches it and waits, the executor that runs it, the MCP  *)
(* server that may serve it.                                               *)
(* What round and executor promise each other is ToolCalls, which both     *)
(* implement; here each component moves on its own with the others at      *)
(* rest, so that one run answers for all of them: part says which.         *)
(***************************************************************************)
EXTENDS Naturals, Sequences, FiniteSets

CONSTANTS Plans, Ids,                     \* of LlmStream
          Known, Word, Answers, Outside,   \* of TagExtractor
          Tool, MaxIter, Strategy, CanBreak,  \* of ToolRound, ToolExecutor
          Caller, Threadings, MaxConfigs,    \* of McpServer
          None

VARIABLES
    part,  \* the component under examination
    plan, server, words, thoughts, came, buffers, spoken, sentIds, dispatched, phase,
    incomplete,
    answer, rest, buffer, state, prev, toolText, said, parsed, mode, cut,
    pc, iter, sm, calls, pending, count, notified, results, buffered, asked,
    replied, skip, interrupt, done, consumer, handed, broken,
    concurrent, called, ended, attempt, queue, executing, worker, job, hasty,
    threaded, kind, configs, registered, published, link, running, lastId,
    futures, requests, torn, place, entry, uses, number, got, ending

streamVars == <<plan, server, words, thoughts, came, buffers, spoken, sentIds, dispatched,
                phase, incomplete>>
extractorVars == <<answer, rest, buffer, state, prev, toolText, said, parsed, mode, cut>>
roundVars == <<pc, iter, sm, calls, pending, count, notified, results, buffered, asked,
               replied, skip, interrupt, done, consumer, handed, broken>>
executorVars == <<concurrent, called, ended, attempt, queue, executing, worker, job, hasty>>
mcpVars == <<threaded, kind, configs, registered, published, link, running, lastId,
             futures, requests, torn, place, entry, uses, number, got, ending>>
pathVars == <<part, streamVars, extractorVars, roundVars, executorVars, mcpVars>>

Stream    == INSTANCE LlmStream
Extractor == INSTANCE TagExtractor
Round     == INSTANCE ToolRoundProofs
Executor  == INSTANCE ToolExecutorProofs
Mcp       == INSTANCE McpServerProofs

ASSUME PathAssumption ==
    /\ Plans \subseteq Stream!Plan /\ Plans # {}
    /\ None \notin Ids \cup Stream!Buffer
    /\ Extractor!TagAssumption
    /\ IsFiniteSet(Tool) /\ None \notin Tool
    /\ MaxIter \in Nat \ {0}
    /\ Strategy \in {"none", "immediate", "semantic_complete"}
    /\ CanBreak \in BOOLEAN
    /\ Mcp!CallerAssumption /\ Threadings \subseteq SUBSET Caller

AtRest(p) == part # p

PathInit ==
    /\ part \in {"stream", "extractor", "round", "executor", "mcp"}
    /\ Round!Init
    /\ Stream!Init    /\ (AtRest("stream") => plan = CHOOSE p \in Plans : TRUE)
                      /\ (AtRest("stream") => server = "openai")
    /\ Extractor!Init /\ (AtRest("extractor") => answer = CHOOSE a \in Answers : TRUE)
    /\ Executor!Init  /\ (AtRest("executor") => concurrent)
    /\ Mcp!Init       /\ (AtRest("mcp") => threaded = {} /\ kind = "stdio")

PathNext ==
    \/ /\ part = "stream" /\ Stream!Next
       /\ UNCHANGED <<part, extractorVars, roundVars, executorVars, mcpVars>>
    \/ /\ part = "extractor" /\ Extractor!Next
       /\ UNCHANGED <<part, streamVars, roundVars, executorVars, mcpVars>>
    \/ /\ part = "round" /\ Round!Next
       /\ UNCHANGED <<part, streamVars, extractorVars, executorVars, mcpVars>>
    \/ /\ part = "executor" /\ Executor!Next
       /\ UNCHANGED <<part, streamVars, extractorVars, roundVars, mcpVars>>
    \/ /\ part = "mcp" /\ Mcp!Next
       /\ UNCHANGED <<part, streamVars, extractorVars, roundVars, executorVars>>

\* Fairness binds no component at rest: none of its fair actions is enabled.
PathSpec ==
    /\ PathInit /\ [][PathNext]_pathVars
    /\ Round!Fairness /\ Executor!Fairness /\ Mcp!Fairness

-----------------------------------------------------------------------------
\* Every variable of every component has its type.
PathTypes ==
    /\ Stream!TypeOK /\ Extractor!TypeOK /\ Round!TypeOK /\ Executor!TypeOK /\ Mcp!TypeOK

\* The properties of the components, stated and explained where they belong:
\* the deltas and the text of the model, wherever they are cut
\* (full_duplex_llm_processor.py, mapper.py, xml_tag_extractor.py),
CutsDoNotMatter == Stream!CallsAreWhole /\ Extractor!CutsDoNotMatter

\* the round of calls and results (full_duplex_llm_processor.py, chat_agent.py),
CountsAgree           == Round!CountsAgree
NoLostWakeup          == Round!NoLostWakeup
CalledWithWholeRounds == Round!CalledWithWholeRounds
ResultsBehindCalls    == Round!ResultsBehindCalls
HandedWhole           == Round!HandedWhole
OneDone               == Round!OneDone
RunEnds               == Round!RunEnds
UsesToolCalls         == Round!UsesToolCalls

\* the tasks and the queue of the executor (async_executor.py),
OneAtATimeUnlessHasty == Executor!OneAtATimeUnlessHasty
ImplementsToolCalls   == Executor!ImplementsToolCalls

\* and requests to an MCP server (mcp_client.py, mcp_server_registry.py).
OwnAnswer   == Mcp!OwnAnswer
CallsReturn == Mcp!CallsReturn
=============================================================================
