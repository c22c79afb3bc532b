---------------------------- MODULE ToolCatalog ----------------------------
(***************************************************************************)
(* The tools of one tenant: rows in the database, the tenant's config_json *)
(* copied from them, the TenantRegistry that caches it, the hash of the    *)
(* last load and the instances in ToolRegistry                             *)
(* (api/http/admin_config_sync.py, api/http/mcp_config.py,                 *)
(* api/http/tool_config.py, tenant/registry.py,                            *)
(* integrations/tool/{reload_manager,loader,base,builtin_registry}.py).    *)
(* Admin requests run in threads; a step is one query, or the code between *)
(* two awaits of a reload.                                                 *)
(***************************************************************************)
EXTENDS FiniteSets

CONSTANTS Tool,       \* configured tools
          Server,     \* MCP servers; each stands for the tools it offers too
          Builtin,    \* built-in tool classes
          Admin,      \* admin requests, one edit each
          Refresher,  \* the request that finds the registry older than 15 s
          None

Actor == Admin \cup {Refresher}

VARIABLES
    rows,      \* ToolConfig rows with is_active
    servers,   \* McpServerConfig rows with is_active
    tenant,    \* Tenant.config_json: TOOLS, and what BUILTIN_TOOLS disables
    lock,      \* holder of TenantRegistry._lock
    cached,    \* TenantRegistry._tenant_configs of the tenant
    off,       \* BuiltInToolRegistry._enabled_cache: what is disabled
    hash,      \* ToolReloadManager._config_hashes: the TOOLS it was computed of
    bucket,    \* ToolRegistry._tools of the tenant
    known,     \* MCPServerRegistry._servers of the tenant
    pc,        \* where a request is
    edit,      \* what an admin request asks for
    seen,      \* what it has read: the config_json it is about to save
    cfg,       \* the TOOLS a reload works with
    found,     \* the server rows a refresh of tools has read
    unloaded,  \* history: tools of the last load that could not be made
    overlapped, \* history: two requests were under way at once
    unsynced,  \* history: a row was edited by a view that syncs nothing
    lapsed     \* history: a request or its reload has failed on the way

dbVars     == <<rows, servers, tenant>>
memoryVars == <<cached, off, hash, bucket, known>>
actorVars  == <<edit, seen, cfg, found>>
historyVars == <<overlapped, unsynced, lapsed>>
catalogVars == <<dbVars, lock, memoryVars, pc, actorVars, unloaded, historyVars>>

Config == [tools: SUBSET Tool, off: SUBSET Builtin]

Edits == [kind: {"enable", "disable", "put"}, of: Tool]
         \cup [kind: {"builtin"}, of: Builtin]
         \cup [kind: {"toggle", "delete", "put server", "refresh"}, of: Server]

Places == {"idle", "row", "tenant", "collect", "save", "force", "config", "clear",
           "query", "load", "builtin", "find", "drop", "asking", "reload", "mcp", "stuck", "done"}

TypeOK ==
    /\ rows \subseteq Tool /\ servers \subseteq Server
    /\ tenant \in Config /\ cached \in Config
    /\ lock \in Actor \cup {None}
    /\ off \subseteq Builtin
    /\ hash \subseteq Tool
    /\ bucket \subseteq Tool \cup Server
    /\ known \subseteq Server
    /\ pc \in [Actor -> Places]
    /\ edit \in [Admin -> Edits \cup {None}]
    /\ seen \in [Admin -> Config]
    /\ cfg \in [Actor -> SUBSET Tool]
    /\ found \in [Admin -> SUBSET Server]
    /\ unloaded \subseteq Tool
    /\ overlapped \in BOOLEAN /\ unsynced \in BOOLEAN /\ lapsed \in BOOLEAN

Empty == [tools |-> {}, off |-> {}]

\* The application has started: every cache agrees with the database, but for
\* tools that could not be made and servers that did not answer.
Init ==
    /\ rows \in SUBSET Tool /\ servers \in SUBSET Server
    /\ tenant = [tools |-> rows, off |-> {}]
    /\ lock = None
    /\ cached = tenant /\ off = {} /\ hash = rows
    /\ unloaded \in SUBSET rows
    /\ \E up \in SUBSET servers : bucket = (rows \ unloaded) \cup up
    /\ known = servers
    /\ pc = [a \in Actor |-> "idle"]
    /\ edit = [a \in Admin |-> None]
    /\ seen = [a \in Admin |-> Empty]
    /\ cfg = [a \in Actor |-> {}]
    /\ found = [a \in Admin |-> {}]
    /\ overlapped = FALSE /\ unsynced = FALSE /\ lapsed = FALSE

-----------------------------------------------------------------------------
Goto(a, place) == pc' = [pc EXCEPT ![a] = place]

Finish(a) == Goto(a, "done") /\ edit' = [edit EXCEPT ![a] = None]

Busy(a) == pc[a] \notin {"idle", "done"}

Begin(a, place) ==
    /\ pc[a] = "idle"
    /\ Goto(a, place)
    /\ overlapped' = (overlapped \/ \E b \in Actor : Busy(b))

Toggled(set, x) == IF x \in set THEN set \ {x} ELSE set \cup {x}

(* Edits of rows *)

FirstStep(kind) ==
    CASE kind \in {"enable", "disable", "put"} -> "row"
      [] kind = "builtin" -> "tenant"
      [] kind \in {"toggle", "put server", "refresh"} -> "row"
      [] kind = "delete" -> "drop"

Ask(a) ==
    /\ \E e \in Edits :
         /\ edit' = [edit EXCEPT ![a] = e]
         /\ Begin(a, FirstStep(e.kind))
    /\ UNCHANGED <<dbVars, lock, memoryVars, seen, cfg, found, unloaded, unsynced, lapsed>>

\* ToolEnableView and ToolDisableView save the row, then synchronise.
SaveRow(a) ==
    /\ pc[a] = "row" /\ edit[a].kind \in {"enable", "disable"}
    /\ rows' = IF edit[a].kind = "enable" THEN rows \cup {edit[a].of} ELSE rows \ {edit[a].of}
    /\ Goto(a, "tenant")
    /\ UNCHANGED <<servers, tenant, lock, memoryVars, actorVars, unloaded, historyVars>>

\* ToolDetailView puts or deletes the row and synchronises nothing.
PutRow(a) ==
    /\ pc[a] = "row" /\ edit[a].kind = "put"
    /\ rows' = Toggled(rows, edit[a].of)
    /\ unsynced' = TRUE
    /\ Finish(a)
    /\ UNCHANGED <<servers, tenant, lock, memoryVars, seen, cfg, found, unloaded, overlapped, lapsed>>

\* The tenant's config_json is read; the query for the active tools runs when
\* it is iterated, after that.
ReadTenant(a) ==
    /\ pc[a] = "tenant"
    /\ \/ /\ edit[a].kind = "builtin"
          /\ seen' = [seen EXCEPT ![a] = [tenant EXCEPT !.off = Toggled(@, edit[a].of)]]
          /\ Goto(a, "save")
       \/ /\ edit[a].kind # "builtin"
          /\ seen' = [seen EXCEPT ![a] = tenant]
          /\ Goto(a, "collect")
    /\ UNCHANGED <<dbVars, lock, memoryVars, edit, cfg, found, unloaded, historyVars>>

CollectTools(a) ==
    /\ pc[a] = "collect"
    /\ seen' = [seen EXCEPT ![a].tools = rows]
    /\ Goto(a, "save")
    /\ UNCHANGED <<dbVars, lock, memoryVars, edit, cfg, found, unloaded, historyVars>>

\* The whole config_json is written back.
SaveTenant(a) ==
    /\ pc[a] = "save"
    /\ tenant' = seen[a]
    /\ seen' = [seen EXCEPT ![a] = Empty]
    /\ Goto(a, "force")
    /\ UNCHANGED <<rows, servers, lock, memoryVars, edit, cfg, found, unloaded, historyVars>>

\* A query of a view fails and the view answers 500: what it has saved stays.
RequestFails(a) ==
    /\ pc[a] \in {"row", "tenant", "collect", "save"}
    /\ lapsed' = (lapsed \/ pc[a] # "row")
    /\ seen' = [seen EXCEPT ![a] = Empty]
    /\ Finish(a)
    /\ UNCHANGED <<dbVars, lock, memoryVars, cfg, found, unloaded, overlapped, unsynced>>

-----------------------------------------------------------------------------
(* _trigger_tool_reload: registry, then tools *)

\* Mutant of ForceReload: the cache is believed to be fresh.
ForceReloadNot(a) ==
    /\ pc[a] = "force" /\ lock = None
    /\ Goto(a, "config")
    /\ UNCHANGED <<dbVars, lock, memoryVars, actorVars, unloaded, historyVars>>

\* force_reload reads the tenants under the lock, which it does not keep; if
\* that fails, the reload goes on with what is cached.
ForceReload(a) ==
    /\ pc[a] = "force" /\ lock = None
    /\ \/ cached' = tenant /\ UNCHANGED lapsed
       \/ lapsed' = TRUE /\ UNCHANGED cached
    /\ Goto(a, "config")
    /\ UNCHANGED <<dbVars, lock, off, hash, bucket, known, actorVars, unloaded, overlapped,
                   unsynced>>

TakeConfig(a) ==
    /\ pc[a] = "config"
    /\ cfg' = [cfg EXCEPT ![a] = cached.tools]
    /\ Goto(a, "clear")
    /\ UNCHANGED <<dbVars, lock, memoryVars, edit, seen, found, unloaded, historyVars>>

\* reload_if_needed: the tenant's servers and instances are dropped.
ClearTools(a) ==
    /\ pc[a] = "clear"
    /\ bucket' = {} /\ known' = {}
    /\ Goto(a, "query")
    /\ UNCHANGED <<dbVars, lock, cached, off, hash, actorVars, unloaded, historyVars>>

\* A failing query is logged, as is a server that cannot be registered.
QueryServers(a) ==
    /\ pc[a] = "query"
    /\ \E some \in SUBSET servers : known' = known \cup some
    /\ Goto(a, "load")
    /\ UNCHANGED <<dbVars, lock, cached, off, hash, bucket, actorVars, unloaded, historyVars>>

\* Where a request goes on when its reload is over.
AfterReload(a) ==
    \/ a = Refresher /\ Goto(a, "mcp") /\ UNCHANGED edit
    \/ a # Refresher /\ edit[a].kind = "builtin" /\ Goto(a, "builtin") /\ UNCHANGED edit
    \/ a # Refresher /\ edit[a].kind # "builtin" /\ Finish(a)

\* Discovery asks every registered server; one that fails is logged and left
\* out. So is a configured tool without a class, or whose constructor raises.
\* Then the hash, whatever has failed.
LoadTools(a) ==
    /\ pc[a] = "load"
    /\ \E up \in SUBSET known, made \in SUBSET cfg[a] :
         /\ bucket' = bucket \cup up \cup made
         /\ unloaded' = cfg[a] \ made
    /\ hash' = cfg[a]
    /\ cfg' = [cfg EXCEPT ![a] = {}]
    /\ AfterReload(a)
    /\ UNCHANGED <<dbVars, lock, cached, off, known, seen, found, historyVars>>

\* Whatever else a reload raises is logged, by _trigger_tool_reload and by
\* _do_tool_reload; what it has dropped stays dropped.
ReloadFails(a) ==
    /\ pc[a] \in {"clear", "query", "load"}
    /\ lapsed' = TRUE
    /\ cfg' = [cfg EXCEPT ![a] = {}]
    /\ \/ a = Refresher /\ Goto(a, "done") /\ lock' = None /\ UNCHANGED edit
       \/ a # Refresher /\ AfterReload(a) /\ UNCHANGED lock
    /\ UNCHANGED <<dbVars, memoryVars, seen, found, unloaded, overlapped, unsynced>>

\* BuiltInToolRegistry.reload forces the registry again, and takes what it has.
ReloadBuiltin(a) ==
    /\ pc[a] = "builtin" /\ lock = None
    /\ \/ cached' = tenant /\ UNCHANGED lapsed
       \/ lapsed' = TRUE /\ UNCHANGED cached
    /\ off' = cached'.off
    /\ Finish(a)
    /\ UNCHANGED <<dbVars, lock, hash, bucket, known, seen, cfg, found, unloaded, overlapped,
                   unsynced>>

-----------------------------------------------------------------------------
(* mcp_server_toggle and DELETE of mcp_server_detail *)

Remove(s) == bucket' = bucket \ {s} /\ known' = known \ {s}

\* The new state of the row decides which way the registries follow.
ToggleServer(a) ==
    /\ pc[a] = "row" /\ edit[a].kind = "toggle"
    /\ servers' = Toggled(servers, edit[a].of)
    /\ Goto(a, IF edit[a].of \in servers THEN "drop" ELSE "find")
    /\ UNCHANGED <<rows, tenant, lock, memoryVars, actorVars, unloaded, historyVars>>

\* _reload_server_tools registers the server; discovery may fail.
FindTools(a) ==
    /\ pc[a] = "find"
    /\ known' = known \cup {edit[a].of}
    /\ \/ bucket' = bucket \cup {edit[a].of}
       \/ UNCHANGED bucket
    /\ Finish(a)
    /\ UNCHANGED <<dbVars, lock, cached, off, hash, seen, cfg, found, unloaded, historyVars>>

\* A deleted server leaves the registries before its row goes.
DropTools(a) ==
    /\ pc[a] = "drop"
    /\ Remove(edit[a].of)
    /\ \/ edit[a].kind = "delete" /\ Goto(a, "row") /\ UNCHANGED edit
       \/ edit[a].kind # "delete" /\ Finish(a)
    /\ UNCHANGED <<dbVars, lock, cached, off, hash, seen, cfg, found, unloaded, historyVars>>

DeleteServer(a) ==
    /\ pc[a] = "row" /\ edit[a].kind = "delete"
    /\ servers' = servers \ {edit[a].of}
    /\ Finish(a)
    /\ UNCHANGED <<rows, tenant, lock, memoryVars, seen, cfg, found, unloaded, historyVars>>

\* POST of mcp_servers and PUT of mcp_server_detail leave the registries alone.
PutServer(a) ==
    /\ pc[a] = "row" /\ edit[a].kind = "put server"
    /\ servers' = Toggled(servers, edit[a].of)
    /\ unsynced' = TRUE
    /\ Finish(a)
    /\ UNCHANGED <<rows, tenant, lock, memoryVars, seen, cfg, found, unloaded, overlapped, lapsed>>

\* mcp_server_refresh_tools asks the server for its tools between reading the
\* row and saving all of it, is_active included; the server may not answer.
ReadServer(a) ==
    /\ pc[a] = "row" /\ edit[a].kind = "refresh"
    /\ found' = [found EXCEPT ![a] = servers]
    /\ Goto(a, "asking")
    /\ UNCHANGED <<dbVars, lock, memoryVars, edit, seen, cfg, unloaded, historyVars>>

SaveServer(a) ==
    /\ pc[a] = "asking"
    /\ \/ servers' = (servers \ {edit[a].of}) \cup ({edit[a].of} \cap found[a])
       \/ UNCHANGED servers
    /\ found' = [found EXCEPT ![a] = {}]
    /\ Finish(a)
    /\ UNCHANGED <<rows, tenant, lock, memoryVars, seen, cfg, unloaded, historyVars>>

-----------------------------------------------------------------------------
(* TenantRegistry._do_reload: the lock is held for the whole tool reload *)

RefreshBegins ==
    /\ lock = None /\ lock' = Refresher
    /\ Begin(Refresher, "reload")
    /\ cached' = tenant
    /\ UNCHANGED <<dbVars, off, hash, bucket, known, actorVars, unloaded, unsynced, lapsed>>

\* The tenants cannot be read: the caches stay as they are.
RefreshFails ==
    /\ lock = None
    /\ Begin(Refresher, "done")
    /\ UNCHANGED <<dbVars, lock, memoryVars, actorVars, unloaded, unsynced, lapsed>>

\* Without force, tools are loaded again only if the hash differs.
RefreshCompares ==
    /\ pc[Refresher] = "reload"
    /\ cfg' = [cfg EXCEPT ![Refresher] = cached.tools]
    /\ Goto(Refresher, IF hash = cached.tools THEN "mcp" ELSE "clear")
    /\ UNCHANGED <<dbVars, lock, memoryVars, edit, seen, found, unloaded, historyVars>>

\* reload_mcp_if_needed reloads nothing: discover_tools does not take the
\* server_name it is given. But it lists the tenants first, and if by then the
\* 15 s are over again, or there is no tenant, that call waits for the lock its
\* own thread holds.
RefreshEnds ==
    /\ pc[Refresher] = "mcp"
    /\ \/ Goto(Refresher, "done") /\ lock' = None
       \/ Goto(Refresher, "stuck") /\ UNCHANGED lock
    /\ UNCHANGED <<dbVars, memoryVars, actorVars, unloaded, historyVars>>

AdminStep(a) ==
    \/ SaveRow(a) \/ PutRow(a) \/ ReadTenant(a) \/ CollectTools(a) \/ SaveTenant(a)
    \/ RequestFails(a) \/ ForceReload(a) \/ TakeConfig(a) \/ ReloadBuiltin(a)
    \/ ToggleServer(a) \/ FindTools(a) \/ DropTools(a) \/ DeleteServer(a)
    \/ PutServer(a) \/ ReadServer(a) \/ SaveServer(a)

ReloadStep(a) == ClearTools(a) \/ QueryServers(a) \/ LoadTools(a) \/ ReloadFails(a)

Next ==
    \/ \E a \in Admin : Ask(a) \/ AdminStep(a)
    \/ \E a \in Actor : ReloadStep(a)
    \/ RefreshBegins \/ RefreshFails \/ RefreshCompares \/ RefreshEnds

Spec == Init /\ [][Next]_catalogVars

-----------------------------------------------------------------------------
\* When no two requests overlapped, no row was edited behind the sync's back, no
\* request failed after its first save and nobody is at work, a tool is
\* registered exactly if its row is active and the last load could make it, no
\* server's tools outlive its row, and every cache on the way agrees.
CatalogFollowsRows ==
    (~overlapped /\ ~unsynced /\ ~lapsed /\ \A a \in Actor : ~Busy(a)) =>
        /\ bucket \cap Tool = rows \ unloaded
        /\ bucket \cap Server \subseteq servers
        /\ hash = rows /\ cached = tenant /\ off = tenant.off
=============================================================================
