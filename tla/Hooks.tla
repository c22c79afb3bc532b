-------------------------------- MODULE Hooks --------------------------------
(***************************************************************************)
(* The hooks of one tenant: HookConfig rows, the instances HookRegistry    *)
(* caches of them, and what HookManager makes of one tool call of a        *)
(* request (agent/hooks/{registry,base,tool_rule_deny_hook}.py,            *)
(* entities/hook_config.py, api/http/hook_config.py,                       *)
(* services/chat_service.py:147-196, agent/executor/action_executor.py).   *)
(* Requests run on the event loop; the views that edit rows run in threads *)
(* beside it.                                                              *)
(***************************************************************************)
EXTENDS Naturals, Sequences, DenyRules

CONSTANTS Hook,       \* sequence of hook names, newest row first
          HookConf,   \* what hook_type and config_json of a row amount to
          Arguments,  \* the arguments of tool calls
          Chat,       \* chat requests, with one tool call each
          Editor,     \* admin requests
          None

HookName == {Hook[i] : i \in DOMAIN Hook}

\* Kinds of HookConf: "rule", a ToolRuleDenyHook; "rewrite", a hook that answers
\* MODIFY; "bad", of an unknown type, or one the constructor refuses.  What a
\* hook that asks the user does is in ToolConfirmation.
VARIABLES
    hookRows,   \* HookConfig rows: conf and is_active, None when there is none
    instances,  \* HookRegistry._instances of the tenant: a dict in its order
    at,         \* where a request or an editor is
    loaded,     \* what a chat request has: rows queried, then its hooks
    upTo,       \* how far it has come in them
    args,       \* the arguments hooks have made of those of the call
    ran,        \* the arguments the tool ran with
    given,      \* the arguments the model gave
    wanted,     \* the row an editor has read, changed and is to save
    tainted,    \* history: chats whose load an edit has overtaken
    suspect     \* history: one of them has put a hook into the cache

hookVars == <<hookRows, instances, at, loaded, upTo, args, ran, given, wanted,
              tainted, suspect>>

HookRow == [conf : HookConf, active : BOOLEAN]
Instance == [name : HookName, conf : HookConf]

TypeOK ==
    /\ hookRows \in [HookName -> HookRow \cup {None}]
    /\ instances \in Seq(Instance)
    /\ at \in [Chat \cup Editor ->
                 {"idle", "query", "fill", "call", "pre", "read", "save", "clear", "done"}]
    /\ loaded \in [Chat -> Seq(Instance)]
    /\ upTo \in [Chat -> Nat]
    /\ args \in [Chat -> Arguments \cup {None}]
    /\ ran \in [Chat -> Arguments \cup {None}]
    /\ given \in [Chat -> Arguments \cup {None}]
    /\ wanted \in [Editor -> [name : HookName, row : HookRow, new : BOOLEAN] \cup {None}]
    /\ tainted \subseteq Chat /\ suspect \in BOOLEAN

Init ==
    /\ hookRows \in [HookName -> [conf : HookConf, active : {TRUE}] \cup {None}]
    /\ instances = <<>>
    /\ at = [a \in Chat \cup Editor |-> "idle"]
    /\ loaded = [c \in Chat |-> <<>>]
    /\ upTo = [c \in Chat |-> 0]
    /\ args = [c \in Chat |-> None]
    /\ ran = [c \in Chat |-> None]
    /\ given = [c \in Chat |-> None]
    /\ wanted = [e \in Editor |-> None]
    /\ tainted = {} /\ suspect = FALSE

-----------------------------------------------------------------------------
Go(a, place) == at' = [at EXCEPT ![a] = place]

\* What of each prefix of a sequence is in a set, in its order, and of all of it.
Kept(sequence, set) ==
    LET kept[i \in 0 .. Len(sequence)] ==
          IF i = 0 THEN <<>>
          ELSE IF sequence[i] \in set THEN Append(kept[i - 1], sequence[i]) ELSE kept[i - 1]
    IN kept

Only(sequence, set) == Kept(sequence, set)[Len(sequence)]

\* The rows a query returns: ordering = ['-gmt_create'].
ActiveRows ==
    LET active == Only(Hook, {h \in HookName : hookRows[h] # None /\ hookRows[h].active})
    IN [i \in DOMAIN active |-> [name |-> active[i], conf |-> hookRows[active[i]].conf]]

\* The rows that make a hook.
Usable(hooks) == Only(hooks, {x \in Instance : x.conf.kind # "bad"})

\* dict assignment: a key keeps its place, a new one comes last.
Put(dict, x) ==
    IF \E i \in DOMAIN dict : dict[i].name = x.name
    THEN [i \in DOMAIN dict |-> IF dict[i].name = x.name THEN x ELSE dict[i]]
    ELSE Append(dict, x)

\* The for loop of a load has no await: no other chat runs meanwhile.
LoopIsFree(c) == \A d \in Chat \ {c} : ~(at[d] = "fill" /\ upTo[d] > 0)

(* get_hooks_for_tenant *)

\* The cache answers unless it has nothing.
LookUp(c) ==
    /\ at[c] = "idle" /\ LoopIsFree(c)
    /\ IF instances # <<>>
       THEN Go(c, "call") /\ loaded' = [loaded EXCEPT ![c] = instances]
       ELSE Go(c, "query") /\ UNCHANGED loaded
    /\ UNCHANGED <<hookRows, instances, upTo, args, ran, given, wanted, tainted, suspect>>

\* The query runs in a thread while the request awaits it.
QueryRows(c) ==
    /\ at[c] = "query"
    /\ loaded' = [loaded EXCEPT ![c] = ActiveRows]
    /\ Go(c, "fill")
    /\ UNCHANGED <<hookRows, instances, upTo, args, ran, given, wanted, tainted, suspect>>

\* One turn of the loop; a row that makes no hook is skipped.
FillOne(c) ==
    LET x == loaded[c][upTo[c] + 1] IN
    /\ at[c] = "fill" /\ upTo[c] < Len(loaded[c]) /\ LoopIsFree(c)
    /\ upTo' = [upTo EXCEPT ![c] = @ + 1]
    /\ IF x.conf.kind = "bad"
       THEN UNCHANGED <<instances, suspect>>
       ELSE /\ instances' = Put(instances, x)
            /\ suspect' = (suspect \/ c \in tainted)
    /\ UNCHANGED <<hookRows, at, loaded, args, ran, given, wanted, tainted>>

Filled(c) ==
    /\ at[c] = "fill" /\ upTo[c] = Len(loaded[c]) /\ LoopIsFree(c)
    /\ Go(c, "call")
    /\ loaded' = [loaded EXCEPT ![c] = Usable(@)]
    /\ upTo' = [upTo EXCEPT ![c] = 0]
    /\ tainted' = tainted \ {c}
    /\ UNCHANGED <<hookRows, instances, args, ran, given, wanted, suspect>>

(* execute_tool_pre_hooks, one await per hook *)

CallTool(c) ==
    /\ at[c] = "call" /\ LoopIsFree(c)
    /\ \E a \in Arguments :
         args' = [args EXCEPT ![c] = a] /\ given' = [given EXCEPT ![c] = a]
    /\ Go(c, "pre")
    /\ UNCHANGED <<hookRows, instances, loaded, upTo, ran, wanted, tainted, suspect>>

Asked(c) == loaded[c][upTo[c] + 1].conf

HookDue(c) == at[c] = "pre" /\ upTo[c] < Len(loaded[c]) /\ LoopIsFree(c)

\* The call is over and its locals are gone; with which hooks a tool ran is kept
\* for RulesHold.
Leave(c, hooks) ==
    /\ Go(c, "done")
    /\ loaded' = [loaded EXCEPT ![c] = hooks]
    /\ upTo' = [upTo EXCEPT ![c] = 0]
    /\ args' = [args EXCEPT ![c] = None] /\ given' = [given EXCEPT ![c] = None]

\* DENY or STOP of the first hook that says so ends the call.
HookDenies(c) ==
    /\ HookDue(c)
    /\ Asked(c).kind = "rule" /\ Denied(Asked(c), args[c])
    /\ Leave(c, <<>>)
    /\ UNCHANGED <<hookRows, instances, ran, wanted, tainted, suspect>>

\* ALLOW, and MODIFY, which the next hooks see.
HookAllows(c) ==
    /\ HookDue(c)
    /\ Asked(c).kind = "rule" => ~Denied(Asked(c), args[c])
    /\ upTo' = [upTo EXCEPT ![c] = @ + 1]
    /\ args' = [args EXCEPT ![c] = IF Asked(c).kind = "rewrite" THEN Asked(c).to ELSE @]
    /\ UNCHANGED <<hookRows, instances, at, loaded, ran, given, wanted, tainted, suspect>>

\* An exception of a hook counts as ALLOW, also one raised in the course of a
\* denial: the next hooks decide.
HookRaises(c) ==
    /\ HookDue(c)
    /\ Asked(c).kind = "rule" => MayRaise(Asked(c), args[c])
    /\ upTo' = [upTo EXCEPT ![c] = @ + 1]
    /\ UNCHANGED <<hookRows, instances, at, loaded, args, ran, given, wanted, tainted,
                   suspect>>

\* _dispatch_pre answers ALLOW with the modified arguments; _execute_tool takes
\* them only when the answer is MODIFY, and runs the tool with its own.
RunTool(c) ==
    /\ at[c] = "pre" /\ upTo[c] = Len(loaded[c]) /\ LoopIsFree(c)
    /\ ran' = [ran EXCEPT ![c] = given[c]]
    /\ Leave(c, loaded[c])
    /\ UNCHANGED <<hookRows, instances, wanted, tainted, suspect>>

(* HookConfig views, in threads *)

\* PUT, toggle and delete read a row; POST looks whether the name is free.
EditRow(e) ==
    /\ at[e] = "idle"
    /\ \E i \in DOMAIN Hook, row \in HookRow :
         /\ hookRows[Hook[i]] = None => \A j \in 1 .. i : hookRows[Hook[j]] = None
         /\ wanted' = [wanted EXCEPT ![e] = [name |-> Hook[i], row |-> row,
                                            new |-> hookRows[Hook[i]] = None]]
    /\ Go(e, "save")
    /\ UNCHANGED <<hookRows, instances, loaded, upTo, args, ran, given, tainted, suspect>>

\* Loads that have their rows, or are about to put them into the cache.
HaveRows == {c \in Chat : at[c] = "fill"}

\* super().save(): all of the row, as it was read and changed.  A second row of
\* the same name is refused, and then nothing is invalidated.
SaveRow(e) ==
    /\ at[e] = "save"
    /\ IF wanted[e].new /\ hookRows[wanted[e].name] # None
       THEN Go(e, "done") /\ UNCHANGED <<hookRows, tainted>>
       ELSE /\ hookRows' = [hookRows EXCEPT ![wanted[e].name] = wanted[e].row]
            /\ tainted' = tainted \cup HaveRows
            /\ Go(e, "clear")
    /\ wanted' = [wanted EXCEPT ![e] = None]
    /\ UNCHANGED <<instances, loaded, upTo, args, ran, given, suspect>>

\* Mutant of Invalidate: saving a row leaves the cache alone.
InvalidateNot(e) ==
    /\ at[e] = "clear"
    /\ Go(e, "done")
    /\ UNCHANGED <<hookRows, instances, loaded, upTo, args, ran, given, wanted, tainted, suspect>>

\* invalidate_cache: what a load had put there before is gone, what it puts
\* there afterwards is not.
Invalidate(e) ==
    /\ at[e] = "clear"
    /\ instances' = <<>>
    /\ suspect' = FALSE
    /\ tainted' = tainted \cup {c \in HaveRows : upTo[c] > 0}
    /\ Go(e, "done")
    /\ UNCHANGED <<hookRows, loaded, upTo, args, ran, given, wanted>>

\* The process dies: requests end where they are and the cache is empty.
Restart ==
    /\ instances' = <<>> /\ suspect' = FALSE /\ tainted' = {}
    /\ at' = [a \in Chat \cup Editor |-> IF at[a] = "idle" THEN "idle" ELSE "done"]
    /\ loaded' = [c \in Chat |-> IF ran[c] # None THEN loaded[c] ELSE <<>>]
    /\ upTo' = [c \in Chat |-> 0]
    /\ args' = [c \in Chat |-> None] /\ given' = [c \in Chat |-> None]
    /\ wanted' = [e \in Editor |-> None]
    /\ UNCHANGED <<hookRows, ran>>

Next ==
    \/ \E c \in Chat :
         \/ LookUp(c) \/ QueryRows(c) \/ FillOne(c) \/ Filled(c)
         \/ CallTool(c) \/ HookDenies(c) \/ HookAllows(c) \/ HookRaises(c)
         \/ RunTool(c)
    \/ \E e \in Editor : EditRow(e) \/ SaveRow(e) \/ Invalidate(e)
    \/ Restart

Spec == Init /\ [][Next]_hookVars

-----------------------------------------------------------------------------
Filling == \E c \in Chat : at[c] = "fill" /\ upTo[c] > 0

\* When no save is on its way to the invalidation and no load is in its loop,
\* the cache is empty or holds exactly the active rows, although loads and
\* saves interleave (registry.py:57-76, 98-100, hook_config.py:67-71) - except
\* after a load that a save overtook: it fills the cache with what it had read,
\* and that stays until the next save.  `suspect' says that this has happened.
HookCacheFresh ==
    (~suspect /\ ~Filling /\ \A e \in Editor : at[e] # "clear") =>
        instances = <<>> \/ instances = Usable(ActiveRows)

Modified(c) == \E i \in DOMAIN loaded[c] : loaded[c][i].conf.kind = "rewrite"

\* Unless a hook rewrites arguments, no tool runs with arguments that a rule
\* without a fault forbids, if its request has loaded the rule: wherever in them
\* the value is, wherever in the chain the rule is, and whatever other hooks
\* raise (base.py:175-229, tool_rule_deny_hook.py:44-111, 128-174).
RulesHold ==
    \A c \in Chat : ran[c] # None /\ ~Modified(c) =>
        \A i \in DOMAIN loaded[c] :
            /\ loaded[c][i].conf.kind = "rule" /\ ~loaded[c][i].conf.faulty
            => ~Forbidden(loaded[c][i].conf, ran[c])
=============================================================================
