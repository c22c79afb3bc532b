-------------------------- MODULE SessionSnapshots --------------------------
(***************************************************************************)
(* One session snapshot, from its capture to the agents made from it,      *)
(* while the configuration it was taken of goes on changing                *)
(* (services/snapshot_service.py, services/chat_service.py:102-146 and     *)
(* 843-942, api/http/snapshot.py, agent/prompts, integrations/llm,         *)
(* agent/agent/chat_agent.py:359-480).  A step is one query, or the code   *)
(* between two awaits.                                                     *)
(***************************************************************************)
EXTENDS Naturals

CONSTANTS Tool,      \* names of tools
          Skill,     \* names of skills
          Provider,  \* LLMProviderConfig rows; views delete them softly
          Value,     \* what a tool, a skill, a template or a provider can be
          AutoTools, \* of these, the ones of a provider with auto_tools
          User,      \* chat requests that name the snapshot
          MaxEdits,  \* bound: edits of the configuration
          None

Item == Tool \cup Skill

VARIABLES
    row,       \* active ToolConfig and Skill rows, None for the others
    live,      \* ToolRegistry and SkillRegistry
    template,  \* the tenant's active PromptTemplate
    model,     \* what a provider's row configures
    default,   \* the provider that is active and is_default
    edits,     \* how many edits there have been
    reloaded,  \* history: what has changed in the registries
    capture,   \* what create_from_session has read, and how far it is
    snapshot,  \* the SessionSnapshot row
    during,    \* history: what everything was while the capture ran
    stage,     \* where a chat request is
    strict,    \* whether it asks for use_snapshot_config
    frozen,    \* the snapshot_data it has read
    agent      \* the ChatAgent it makes

configVars   == <<row, live, template, model, default, edits, reloaded>>
captureVars  == <<capture, snapshot, during>>
requestVars  == <<stage, strict, frozen, agent>>
snapshotVars == <<configVars, captureVars, requestVars>>

Maybe(S) == S \cup {None}

\* "unread" stands for what a capture has not come to yet.
Data == [provider : Maybe(Provider) \cup {"unread"}, template : Maybe(Value) \cup {"unread"},
         tools : {"unread", "read"}, skills : {"unread", "read"}, items : [Item -> Maybe(Value)]]

Unread == [provider |-> "unread", template |-> "unread", tools |-> "unread",
           skills |-> "unread", items |-> [i \in Item |-> None]]

\* "own" lists are the agent's; the others it takes from the registries.
Agent == [model : Maybe(Value), template : Maybe(Value), own : SUBSET {Tool, Skill},
          items : [Item -> Maybe(Value)]]

NoAgent == [model |-> None, template |-> None, own |-> {}, items |-> [i \in Item |-> None]]

TypeOK ==
    /\ row \in [Item -> Maybe(Value)] /\ live \in [Item -> Maybe(Value)]
    /\ template \in Maybe(Value)
    /\ model \in [Provider -> Value] /\ default \in Maybe(Provider)
    /\ edits \in 0 .. MaxEdits /\ reloaded \subseteq Item
    /\ capture \in Data
    /\ snapshot \in Maybe([data : Data, active : BOOLEAN])
    /\ during \in [Item \cup {"template"} -> SUBSET Maybe(Value)]
    /\ stage \in [User -> {"idle", "fetch", "llm", "build", "prompt", "default", "active",
                           "load", "answered", "refused"}]
    /\ strict \in [User -> BOOLEAN]
    /\ frozen \in [User -> Maybe(Data)]
    /\ agent \in [User -> Agent]

\* The registries agree with the rows; a capture is about to begin.
Init ==
    /\ row \in [Item -> Maybe(Value)] /\ live = row
    /\ template \in Maybe(Value)
    /\ model \in [Provider -> Value] /\ default \in Maybe(Provider)
    /\ edits = 0 /\ reloaded = {}
    /\ capture = Unread /\ snapshot = None
    /\ during = [x \in Item \cup {"template"} |-> {IF x = "template" THEN template ELSE row[x]}]
    /\ stage = [u \in User |-> "idle"]
    /\ strict = [u \in User |-> FALSE]
    /\ frozen = [u \in User |-> None]
    /\ agent = [u \in User |-> NoAgent]

-----------------------------------------------------------------------------
(* Edits, by views, reloads and the files of skills *)

Edit ==
    /\ edits < MaxEdits /\ edits' = edits + 1
    /\ UNCHANGED <<capture, snapshot, requestVars>>

Was(x, value) ==
    during' = IF snapshot = None THEN [during EXCEPT ![x] = @ \cup {value}] ELSE during

EditRow(i) ==
    /\ Edit
    /\ \E v \in Maybe(Value) : row' = [row EXCEPT ![i] = v] /\ Was(i, v)
    /\ UNCHANGED <<live, reloaded, template, model, default>>

\* A reload of tools follows their rows; skills live in files.
EditLive(i) ==
    /\ Edit
    /\ \E v \in Maybe(Value) :
         /\ i \in Tool => v = row[i]
         /\ live' = [live EXCEPT ![i] = v]
         /\ reloaded' = IF v = live[i] THEN reloaded ELSE reloaded \cup {i}
    /\ UNCHANGED <<row, template, model, default, during>>

EditTemplate ==
    /\ Edit
    /\ \E v \in Maybe(Value) : template' = v /\ Was("template", v)
    /\ UNCHANGED <<row, live, reloaded, model, default>>

\* LLMProviderDetailView.put and delete.
EditProvider(p) ==
    /\ Edit
    /\ \/ \E v \in Value : model' = [model EXCEPT ![p] = v] /\ UNCHANGED default
       \/ default' = (IF default = p THEN None ELSE p) /\ UNCHANGED model
    /\ UNCHANGED <<row, live, reloaded, template, during>>

-----------------------------------------------------------------------------
(* create_from_session: two gathers, then the row *)

Capturing == snapshot = None /\ UNCHANGED <<configVars, snapshot, during, requestVars>>

FirstGathered == capture.provider # "unread" /\ capture.template # "unread"

\* A provider of its own is what no session has.  Without a default one the
\* reference holds no id.
CaptureLlm ==
    /\ Capturing /\ capture.provider = "unread"
    /\ capture' = [capture EXCEPT !.provider = default]

CapturePrompt ==
    /\ Capturing /\ capture.template = "unread"
    /\ capture' = [capture EXCEPT !.template = template]

CaptureTools ==
    /\ Capturing /\ FirstGathered /\ capture.tools = "unread"
    /\ capture' = [capture EXCEPT !.tools = "read",
                     !.items = [i \in Item |-> IF i \in Tool THEN row[i] ELSE @[i]]]

CaptureSkills ==
    /\ Capturing /\ FirstGathered /\ capture.skills = "unread"
    /\ capture' = [capture EXCEPT !.skills = "read",
                     !.items = [i \in Item |-> IF i \in Skill THEN row[i] ELSE @[i]]]

CreateSnapshot ==
    /\ snapshot = None /\ capture.tools = "read" /\ capture.skills = "read"
    /\ snapshot' = [data |-> capture, active |-> TRUE]
    /\ UNCHANGED <<configVars, capture, during, requestVars>>

\* Soft; a second one is answered alike.
DeleteSnapshot ==
    /\ snapshot # None
    /\ snapshot' = [snapshot EXCEPT !.active = FALSE]
    /\ UNCHANGED <<configVars, capture, during, requestVars>>

-----------------------------------------------------------------------------
(* A chat with the snapshot *)

To(u, place) == stage' = [stage EXCEPT ![u] = place]

Ask(u) ==
    /\ stage[u] = "idle" /\ snapshot # None
    /\ \E b \in BOOLEAN : strict' = [strict EXCEPT ![u] = b]
    /\ To(u, "fetch")
    /\ UNCHANGED <<configVars, captureVars, frozen, agent>>

\* Without a usable snapshot, use_snapshot_config fails, and the ordinary chat
\* takes the live configuration.
GiveUp(u) == To(u, IF strict[u] THEN "refused" ELSE "default")

\* get_frozen_config: the row, then the provider its reference names.
FetchSnapshot(u) ==
    /\ stage[u] = "fetch"
    /\ \/ ~snapshot.active /\ GiveUp(u) /\ UNCHANGED frozen
       \/ /\ snapshot.active
          /\ frozen' = [frozen EXCEPT ![u] = snapshot.data]
          /\ IF snapshot.data.provider = None THEN GiveUp(u) ELSE To(u, "llm")
    /\ UNCHANGED <<configVars, captureVars, strict, agent>>

\* The provider as its row is now, whether or not it is still active.
FetchLlm(u) ==
    /\ stage[u] = "llm"
    /\ agent' = [agent EXCEPT ![u].model = model[frozen[u].provider]]
    /\ To(u, IF strict[u] /\ frozen[u].template = None THEN "prompt" ELSE "build")
    /\ UNCHANGED <<configVars, captureVars, strict, frozen>>

\* A list the snapshot has nothing in is not frozen.
Lists(data) == {L \in {Tool, Skill} : \E i \in L : data.items[i] # None}

Built(u, items) ==
    agent' = [agent EXCEPT ![u].items = items, ![u].own = Lists(frozen[u]),
                           ![u].template = IF frozen[u].template = None THEN @
                                           ELSE frozen[u].template]

\* Mutant of Restore: names are looked up in the registries.
RestoreLive(u) ==
    /\ stage[u] = "build" /\ ~strict[u]
    /\ Built(u, [i \in Item |-> IF frozen[u].items[i] = None THEN None ELSE live[i]])
    /\ To(u, IF frozen[u].template = None THEN "prompt" ELSE "load")
    /\ UNCHANGED <<configVars, captureVars, strict, frozen>>

\* create_agent_from_snapshot: tools, skills and prompt of the snapshot.
Restore(u) ==
    /\ stage[u] = "build" /\ ~strict[u]
    /\ Built(u, frozen[u].items)
    /\ To(u, IF frozen[u].template = None THEN "prompt" ELSE "load")
    /\ UNCHANGED <<configVars, captureVars, strict, frozen>>

\* _resolve_snapshot_config: of the registries, what has a frozen name.
Resolve(u) ==
    /\ stage[u] = "build" /\ strict[u]
    /\ Built(u, [i \in Item |-> IF frozen[u].items[i] = None THEN None ELSE live[i]])
    /\ To(u, "load")
    /\ UNCHANGED <<configVars, captureVars, strict, frozen>>

\* Without a frozen prompt the live one is asked for: before the registries by
\* the one, after the frozen lists by the other.  There may be none.
LivePrompt(u) ==
    /\ stage[u] = "prompt"
    /\ agent' = [agent EXCEPT ![u].template = template]
    /\ To(u, IF template = None THEN "refused" ELSE IF strict[u] THEN "build" ELSE "load")
    /\ UNCHANGED <<configVars, captureVars, strict, frozen>>

\* _create_agent from the live configuration: provider, then prompt.  Without a
\* default provider the tenant's own configuration may have a model, or not.
LiveLlm(u) ==
    /\ stage[u] = "default"
    /\ frozen' = [frozen EXCEPT ![u] = None]
    /\ \/ /\ To(u, "active")
          /\ agent' = [agent EXCEPT ![u].model = IF default = None THEN None ELSE model[default]]
       \/ default = None /\ To(u, "refused") /\ UNCHANGED agent
    /\ UNCHANGED <<configVars, captureVars, strict>>

LiveAgent(u) ==
    /\ stage[u] = "active"
    /\ agent' = [agent EXCEPT ![u].template = template]
    /\ To(u, IF template = None THEN "refused" ELSE "load")
    /\ UNCHANGED <<configVars, captureVars, strict, frozen>>

\* With auto_tools the API is sent the tools of the registry (build_tool_schemas),
\* and the list of the agent is dropped.
SentLive(u, L) == L = Tool /\ agent[u].model \in AutoTools

\* _build_pipeline: else the agent's own lists, where it has them
\* (_load_tool_schemas, _load_skills), and the live ones where it has not.
Load(u) ==
    /\ stage[u] = "load"
    /\ agent' = [agent EXCEPT ![u].items =
                   [i \in Item |-> IF \E L \in agent[u].own : i \in L /\ ~SentLive(u, L)
                                   THEN @[i] ELSE live[i]]]
    /\ To(u, "answered")
    /\ UNCHANGED <<configVars, captureVars, strict, frozen>>

Next ==
    \/ \E i \in Item : EditRow(i) \/ EditLive(i)
    \/ EditTemplate \/ \E p \in Provider : EditProvider(p)
    \/ CaptureLlm \/ CapturePrompt \/ CaptureTools \/ CaptureSkills
    \/ CreateSnapshot \/ DeleteSnapshot
    \/ \E u \in User :
         \/ Ask(u) \/ FetchSnapshot(u) \/ FetchLlm(u) \/ Restore(u) \/ Resolve(u)
         \/ LivePrompt(u) \/ LiveLlm(u) \/ LiveAgent(u) \/ Load(u)

Spec == Init /\ [][Next]_snapshotVars

-----------------------------------------------------------------------------
AsCaptured(u, i) == agent[u].items[i] \in during[i]

FromSnapshot(u) == stage[u] = "answered" /\ frozen[u] # None

\* An agent made from a snapshot has the prompt of the time of its capture and,
\* of every list the capture found something in, tells the model exactly what it
\* was then, whatever has been edited, deleted or reloaded since
\* (snapshot_service.py:549-576) - except what has changed in the registries, if
\* it is taken from them: with use_snapshot_config (chat_service.py:901-930),
\* although that is documented to honour the frozen skills and tools
\* (chat_service.py:955-957), and for the tools of a provider with auto_tools
\* (chat_agent.py:463-477). Of the latter alone there may be more than was found.
FrozenStaysFrozen ==
    \A u \in User : FromSnapshot(u) =>
        /\ frozen[u].template # None => agent[u].template \in during["template"]
        /\ \A L \in Lists(frozen[u]) : \A i \in L :
             /\ AsCaptured(u, i) \/ (i \in reloaded /\ (strict[u] \/ SentLive(u, L)))
             /\ agent[u].items[i] # None => during[i] # {None} \/ SentLive(u, L)
=============================================================================
