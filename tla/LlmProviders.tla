---------------------------- MODULE LlmProviders ----------------------------
(***************************************************************************)
(* Which model the chats of a tenant use: LLMProviderConfig rows, the copy *)
(* of one of them in the tenant's config_json, and the TenantRegistry that *)
(* caches it (api/http/llm_config.py, api/http/admin_config_sync.py:76-100 *)
(* and 159-228, entities/llm_provider.py, integrations/llm/registry.py,    *)
(* tenant/registry.py).  Admin requests run in threads, without            *)
(* transactions; a step is one query.                                      *)
(***************************************************************************)
EXTENDS FiniteSets, Naturals

CONSTANTS Llm,       \* LLMProviderConfig rows
          Admin,     \* threads of admin requests
          Talk,      \* chats that ask for their model, once each
          MaxSaves,  \* bound: admin requests
          None

VARIABLES
    llms,        \* the rows
    copy,        \* config_json["model"]: the row it was copied of
    cachedCopy,  \* the same in TenantRegistry
    saves,       \* how many admin requests there have been
    turn,        \* where a request is
    asked,       \* what it asks for
    read,        \* the row it has read, as it will save it
    target,      \* the "model" of the config_json it is about to save
    look,        \* where a chat is
    using,       \* the model it has
    usable,      \* history: models some moment since the chat began had active
    interleaved, \* history: two admin requests were under way at once
    bypassed     \* history: a view that synchronises nothing saved a row

rowVars     == <<llms, copy, cachedCopy>>
adminVars   == <<saves, turn, asked, read, target>>
talkVars    == <<look, using, usable>>
pastVars    == <<interleaved, bypassed>>
llmVars     == <<rowVars, adminVars, talkVars, pastVars>>

Purpose == {"chatbot", "copilot"}
Row     == [purpose : Purpose, active : BOOLEAN, default : BOOLEAN]
Absent  == [purpose |-> "none", active |-> FALSE, default |-> FALSE]
Kinds   == {"create", "put", "delete", "enable", "disable"}

TypeOK ==
    /\ llms \in [Llm -> Row \cup {Absent}]
    /\ copy \in Llm \cup {None} /\ cachedCopy \in Llm \cup {None}
    /\ saves \in 0 .. MaxSaves
    /\ turn \in [Admin -> {"idle", "others", "default", "save", "sync", "tenant", "force"}]
    /\ asked \in [Admin -> [kind : Kinds, of : Llm] \cup {None}]
    /\ read \in [Admin -> Row \cup {Absent}]
    /\ target \in [Admin -> Llm \cup {None}]
    /\ look \in [Talk -> {"idle", "rows", "copy", "answered", "refused"}]
    /\ using \in [Talk -> Llm \cup {None}]
    /\ usable \in [Talk -> SUBSET Llm]
    /\ interleaved \in BOOLEAN /\ bypassed \in BOOLEAN

\* Rows there may be, and one of them may have been enabled.
Init ==
    /\ \E rows \in SUBSET Llm : \E p \in [Llm -> Purpose] : \E on \in rows \cup {None} :
         /\ llms = [l \in Llm |-> IF l \in rows
                                  THEN [purpose |-> p[l], active |-> l = on, default |-> l = on]
                                  ELSE Absent]
         /\ copy = on /\ cachedCopy = on
    /\ saves = 0
    /\ turn = [a \in Admin |-> "idle"]
    /\ asked = [a \in Admin |-> None]
    /\ read = [a \in Admin |-> Absent]
    /\ target = [a \in Admin |-> None]
    /\ look = [t \in Talk |-> "idle"]
    /\ using = [t \in Talk |-> None]
    /\ usable = [t \in Talk |-> {}]
    /\ interleaved = FALSE /\ bypassed = FALSE

-----------------------------------------------------------------------------
Turn(a, place) == turn' = [turn EXCEPT ![a] = place]

Forget(a) == asked' = [asked EXCEPT ![a] = None]

Active == {l \in Llm : llms[l].active}

\* Whatever is saved is active now or was before.
Saved(now) ==
    /\ llms' = now
    /\ usable' = [t \in Talk |-> IF look[t] \in {"rows", "copy"}
                                 THEN usable[t] \cup {l \in Llm : now[l].active}
                                 ELSE usable[t]]

\* The row as it will be: PUT and POST take their fields from the request,
\* DELETE is soft and leaves is_default.
Edited(kind, row) ==
    CASE kind = "create"  -> Row
      [] kind = "put"     -> Row
      [] kind = "delete"  -> {[row EXCEPT !.active = FALSE]}
      [] kind = "enable"  -> {[row EXCEPT !.active = TRUE, !.default = TRUE]}
      [] kind = "disable" -> {[row EXCEPT !.active = FALSE, !.default = FALSE]}

\* A request reads its row; a name is created once, and without a row there is
\* nothing else to do.
Get(a) ==
    /\ turn[a] = "idle" /\ saves < MaxSaves /\ saves' = saves + 1
    /\ \E k \in Kinds, l \in Llm :
         /\ (llms[l] = Absent) = (k = "create")
         /\ asked' = [asked EXCEPT ![a] = [kind |-> k, of |-> l]]
         /\ bypassed' = (bypassed \/ k \in {"create", "put", "delete"})
         /\ \E row \in Edited(k, llms[l]) :
              /\ read' = [read EXCEPT ![a] = row]
              /\ Turn(a, IF k = "enable" THEN "others"
                         ELSE IF row.default THEN "default" ELSE "save")
    /\ interleaved' = (interleaved \/ \E b \in Admin : turn[b] # "idle")
    /\ UNCHANGED <<rowVars, target, talkVars>>

\* Mutant of DisableOthers: only of the model itself.
DisableOthersNot(a) ==
    /\ turn[a] = "others"
    /\ Saved(llms)
    /\ Turn(a, "default")
    /\ UNCHANGED <<copy, cachedCopy, saves, asked, read, target, look, using, pastVars>>

\* ModelEnableView: the other active models of the same purpose.
DisableOthers(a) ==
    /\ turn[a] = "others"
    /\ LET others == {l \in Active \ {asked[a].of} : llms[l].purpose = read[a].purpose} IN
       Saved([l \in Llm |-> IF l \in others
                            THEN [llms[l] EXCEPT !.active = FALSE, !.default = FALSE]
                            ELSE llms[l]])
    /\ Turn(a, "default")
    /\ UNCHANGED <<copy, cachedCopy, saves, asked, read, target, look, using, pastVars>>

\* LLMProviderConfig.save of a default row takes the flag from all others,
\* whatever their purpose, and then saves every field of its own.
ClearDefaults(a) ==
    /\ turn[a] = "default"
    /\ Saved([l \in Llm |-> IF l = asked[a].of THEN llms[l]
                            ELSE [llms[l] EXCEPT !.default = FALSE]])
    /\ Turn(a, "save")
    /\ UNCHANGED <<copy, cachedCopy, saves, asked, read, target, look, using, pastVars>>

SaveRow(a) ==
    /\ turn[a] = "save"
    /\ Saved([llms EXCEPT ![asked[a].of] = read[a]])
    /\ read' = [read EXCEPT ![a] = Absent]
    /\ \/ /\ asked[a].kind \in {"enable", "disable"}
          /\ Turn(a, "sync") /\ UNCHANGED asked
       \/ /\ asked[a].kind \notin {"enable", "disable"}
          /\ Turn(a, "idle") /\ Forget(a)
    /\ UNCHANGED <<copy, cachedCopy, saves, target, look, using, pastVars>>

\* sync_active_model_to_tenant: the model is taken in, or "model" is taken out,
\* whichever model it was a copy of.
SyncModel(a) ==
    /\ turn[a] = "sync"
    /\ target' = [target EXCEPT ![a] = IF llms[asked[a].of].active THEN asked[a].of ELSE None]
    /\ Forget(a)
    /\ Turn(a, "tenant")
    /\ UNCHANGED <<rowVars, saves, read, talkVars, pastVars>>

SaveTenant(a) ==
    /\ turn[a] = "tenant"
    /\ copy' = target[a]
    /\ target' = [target EXCEPT ![a] = None]
    /\ Turn(a, "force")
    /\ UNCHANGED <<llms, cachedCopy, saves, asked, read, talkVars, pastVars>>

\* _trigger_tool_reload, as far as the registry goes.
ForceReload(a) ==
    /\ turn[a] = "force"
    /\ cachedCopy' = copy
    /\ Turn(a, "idle")
    /\ UNCHANGED <<llms, copy, saves, asked, read, target, talkVars, pastVars>>

\* The registry finds itself older than 15 s.
Refresh ==
    /\ cachedCopy # copy /\ cachedCopy' = copy
    /\ UNCHANGED <<llms, copy, adminVars, talkVars, pastVars>>

-----------------------------------------------------------------------------
(* get_provider_from_config *)

\* A model an unfinished request is about to switch off may still be used.
StartTalk(t) ==
    /\ look[t] = "idle"
    /\ look' = [look EXCEPT ![t] = "rows"]
    /\ usable' = [usable EXCEPT ![t] =
                    Active \cup IF \A a \in Admin : turn[a] = "idle" THEN {} ELSE Llm]
    /\ UNCHANGED <<rowVars, adminVars, using, pastVars>>

\* The first of the rows that are active and default.
FindDefault(t) ==
    /\ look[t] = "rows"
    /\ LET rows == {l \in Active : llms[l].default} IN
       \/ /\ rows = {} /\ look' = [look EXCEPT ![t] = "copy"] /\ UNCHANGED using
       \/ \E l \in rows : /\ using' = [using EXCEPT ![t] = l]
                          /\ look' = [look EXCEPT ![t] = "answered"]
    /\ UNCHANGED <<rowVars, adminVars, usable, pastVars>>

\* Else the model of the tenant's configuration, else none.
UseCopy(t) ==
    /\ look[t] = "copy"
    /\ using' = [using EXCEPT ![t] = cachedCopy]
    /\ look' = [look EXCEPT ![t] = IF cachedCopy = None THEN "refused" ELSE "answered"]
    /\ UNCHANGED <<rowVars, adminVars, usable, pastVars>>

Next ==
    \/ \E a \in Admin :
         \/ Get(a) \/ DisableOthers(a) \/ ClearDefaults(a) \/ SaveRow(a)
         \/ SyncModel(a) \/ SaveTenant(a) \/ ForceReload(a)
    \/ Refresh
    \/ \E t \in Talk : StartTalk(t) \/ FindDefault(t) \/ UseCopy(t)

Spec == Init /\ [][Next]_llmVars

-----------------------------------------------------------------------------
AtMostOne(S) == Cardinality(S) <= 1

Quiet == \A a \in Admin : turn[a] = "idle"

\* Unless two requests have overlapped, one model at most is the default when
\* nobody is at work (entities/llm_provider.py:84-90).  If all went through
\* enable and disable, one at most is active for each purpose
\* (admin_config_sync.py:162-165), the tenant's copy, wherever it is kept, is
\* of the default model or of none, and no chat is given a model that was
\* switched off when it began and has been ever since.
ModelsFollowRows ==
    ~interleaved =>
        /\ Quiet => AtMostOne({l \in Llm : llms[l].default})
        /\ (Quiet /\ ~bypassed) =>
             /\ \A p \in Purpose : AtMostOne({l \in Active : llms[l].purpose = p})
             /\ {copy, cachedCopy} \subseteq {None} \cup {l \in Active : llms[l].default}
        /\ ~bypassed => \A t \in Talk : using[t] # None => using[t] \in usable[t]
=============================================================================
