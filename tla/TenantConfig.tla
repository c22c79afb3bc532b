---------------------------- MODULE TenantConfig ----------------------------
(***************************************************************************)
(* What administrators change while chats use it, side by side: hooks,     *)
(* versions of prompts and skills, session snapshots, the catalogue of     *)
(* tools, the models, the files of skills.  Each keeps copies in several   *)
(* places (rows, a JSON column, caches of the process, files) that its     *)
(* operations must keep together.  Each is examined on its own, with the   *)
(* others at rest, so that one run answers for all: area says which.       *)
(***************************************************************************)
EXTENDS Naturals, Sequences, FiniteSets

CONSTANTS Hook, HookConf, Arguments, Chat, Editor,       \* of Hooks
          Prompt, Skill, Content, Request,               \* of VersionSnapshots
          Tool, Provider, Value, AutoTools, User, MaxEdits,   \* of SessionSnapshots
          Server, Builtin, Admin, Refresher,             \* of ToolCatalog
          Llm, Talk, MaxSaves,                           \* of LlmProviders
          Name, Lower,                                   \* of SkillFiles
          None

VARIABLES
    area,  \* what is examined
    hookRows, instances, at, loaded, upTo, args, ran, given, wanted, tainted, suspect,
    stored, versions, place, op, held, crossed, failed,
    row, live, template, model, default, edits, reloaded, capture, snapshot, during, stage,
    strict, frozen, agent,
    rows, servers, tenant, lock, cached, off, hash, bucket, known, pc, edit, seen, cfg,
    found, unloaded, overlapped, unsynced, lapsed,
    llms, copy, cachedCopy, saves, turn, asked, read, target, look, using, usable,
    interleaved, bypassed,
    files, skills, drifted

hookVars == <<hookRows, instances, at, loaded, upTo, args, ran, given, wanted, tainted,
              suspect>>
versionVars == <<stored, versions, place, op, held, crossed, failed>>
snapshotVars == <<row, live, template, model, default, edits, reloaded, capture, snapshot,
                  during, stage, strict, frozen, agent>>
catalogVars == <<rows, servers, tenant, lock, cached, off, hash, bucket, known, pc, edit,
                 seen, cfg, found, unloaded, overlapped, unsynced, lapsed>>
llmVars == <<llms, copy, cachedCopy, saves, turn, asked, read, target, look, using,
             usable, interleaved, bypassed>>
skillVars == <<files, skills, drifted>>
configVars == <<area, hookVars, versionVars, snapshotVars, catalogVars, llmVars,
                skillVars>>

H == INSTANCE Hooks
V == INSTANCE VersionSnapshots
S == INSTANCE SessionSnapshots
C == INSTANCE ToolCatalog
L == INSTANCE LlmProviders
F == INSTANCE SkillFiles

ASSUME ConfigAssumption ==
    /\ Hook \in Seq(H!HookName) /\ \A i, j \in DOMAIN Hook : Hook[i] = Hook[j] => i = j
    /\ \A c \in HookConf : c.kind \in {"rule", "rewrite", "bad"}
    /\ \A c \in HookConf : c.kind = "rule" =>
          Len(c.path) \in Nat /\ c.faulty \in BOOLEAN
    /\ \A c \in HookConf : c.kind = "rewrite" => c.to \in Arguments
    /\ Prompt \cap Skill = {} /\ Tool \cap Skill = {} /\ Tool \cap Server = {}
    /\ \A e \in Prompt \cup Skill : e \notin Nat
    /\ "template" \notin Tool \cup Skill /\ AutoTools \subseteq Value
    /\ Refresher \notin Admin /\ Chat \cap Editor = {}
    /\ None \notin HookConf \cup Arguments \cup Content \cup Value \cup Provider \cup Llm
    /\ None \notin Admin \cup {Refresher}
    /\ None \notin [data : S!Data, active : BOOLEAN] \cup V!Row
    /\ MaxEdits \in Nat /\ MaxSaves \in Nat
    /\ Lower \in [Name -> Name]

AtRest(a) == area # a

ConfigInit ==
    /\ area \in {"hooks", "versions", "snapshots", "catalog", "models", "skills"}
    /\ H!Init /\ (AtRest("hooks") => \A n \in DOMAIN hookRows : hookRows[n] = None)
    /\ V!Init /\ (AtRest("versions") => \A e \in DOMAIN stored : stored[e] = None)
    /\ S!Init /\ (AtRest("snapshots") =>
                    /\ template = None /\ default = None
                    /\ \A i \in DOMAIN row : row[i] = None
                    /\ model = [p \in Provider |-> CHOOSE v \in Value : TRUE])
    /\ C!Init /\ (AtRest("catalog") => rows = {} /\ servers = {})
    /\ L!Init /\ (AtRest("models") => \A l \in Llm : llms[l] = L!Absent)
    /\ F!Init /\ (AtRest("skills") => \A n \in Name : files[n].kind = "none")

ConfigNext ==
    \/ /\ area = "hooks" /\ H!Next
       /\ UNCHANGED <<area, versionVars, snapshotVars, catalogVars, llmVars, skillVars>>
    \/ /\ area = "versions" /\ V!Next
       /\ UNCHANGED <<area, hookVars, snapshotVars, catalogVars, llmVars, skillVars>>
    \/ /\ area = "snapshots" /\ S!Next
       /\ UNCHANGED <<area, hookVars, versionVars, catalogVars, llmVars, skillVars>>
    \/ /\ area = "catalog" /\ C!Next
       /\ UNCHANGED <<area, hookVars, versionVars, snapshotVars, llmVars, skillVars>>
    \/ /\ area = "models" /\ L!Next
       /\ UNCHANGED <<area, hookVars, versionVars, snapshotVars, catalogVars, skillVars>>
    \/ /\ area = "skills" /\ F!Next
       /\ UNCHANGED <<area, hookVars, versionVars, snapshotVars, catalogVars, llmVars>>

ConfigSpec == ConfigInit /\ [][ConfigNext]_configVars

-----------------------------------------------------------------------------
\* Every variable has its type.
ConfigTypes == H!TypeOK /\ V!TypeOK /\ S!TypeOK /\ C!TypeOK /\ L!TypeOK /\ F!TypeOK

\* The properties of the areas, stated and explained where they belong: the
\* hooks (agent/hooks/registry.py, tool_rule_deny_hook.py),
HookCacheFresh == H!HookCacheFresh
RulesHold      == H!RulesHold

\* the versions (version_service.py),
VersionsSound == V!VersionsSound

\* session snapshots (snapshot_service.py),
FrozenStaysFrozen == S!FrozenStaysFrozen

\* the tools and the models of the tenant (reload_manager.py,
\* admin_config_sync.py),
CatalogFollowsRows == C!CatalogFollowsRows /\ L!ModelsFollowRows

\* and the files of skills (api/http/skill.py).
SkillsFollowFiles == F!SkillsFollowFiles
=============================================================================
