------------------------------ MODULE DenyRules ------------------------------
(***************************************************************************)
(* The rules of ToolRuleDenyHook (agent/hooks/tool_rule_deny_hook.py):     *)
(* a rule looks at the values a path leads to in the arguments of a call.  *)
(* Arguments are trees; a text is the set of the words in it.              *)
(***************************************************************************)
EXTENDS Naturals, Sequences

Leaf(text)  == [kind |-> "leaf", text |-> text]
Object(at)  == [kind |-> "object", at |-> at]
Array(items) == [kind |-> "array", items |-> items]
Unparsed    == [kind |-> "unparsed"]   \* a string json.loads rejects

Elements(x) == {x.items[i] : i \in DOMAIN x.items}

\* Mutant of Descend: a wildcard takes the first element.
DescendFirst(x, part) ==
    IF part = "*"
    THEN IF x.kind = "array" /\ x.items # <<>> THEN {x.items[1]} ELSE {}
    ELSE IF x.kind = "object" /\ part \in DOMAIN x.at THEN {x.at[part]} ELSE {}

\* The values one part of a path leads to.
Descend(x, part) ==
    IF part = "*"
    THEN IF x.kind = "array" THEN Elements(x) ELSE {}
    ELSE IF x.kind = "object" /\ part \in DOMAIN x.at THEN {x.at[part]} ELSE {}

\* resolve_path: level by level; an empty path leads to the arguments.
ResolvePath(data, path) ==
    LET level[i \in 0 .. Len(path)] ==
          IF i = 0 THEN {data} ELSE UNION {Descend(x, path[i]) : x \in level[i - 1]}
    IN level[Len(path)]

\* str(value): what is not a text prints with its brackets, so that it equals
\* no text of a rule.
Brackets == "brackets"

Printed(x) ==
    LET Text(y) == IF y.kind = "leaf" THEN y.text ELSE {}
    IN CASE x.kind = "leaf" -> x.text
         [] x.kind = "object" -> {Brackets} \cup UNION {Text(x.at[k]) : k \in DOMAIN x.at}
         [] x.kind = "array" -> {Brackets} \cup UNION {Text(y) : y \in Elements(x)}

Violates(x, op, target) ==
    \/ op = "not_in" /\ Printed(x) \notin target
    \/ op = "in" /\ Printed(x) \in target
    \/ op = "contains" /\ \E keyword \in target : keyword \subseteq Printed(x)

\* A rule with one condition; a path that leads nowhere triggers nothing, not
\* even under "not_in".  Arguments that do not parse are denied.
Denied(rule, data) ==
    \/ data.kind = "unparsed"
    \/ \E x \in ResolvePath(data, rule.path) : Violates(x, rule.op, rule.target)

\* A rule whose configuration is at fault may raise where it finds a value: when
\* it compares it with something else than texts, or when it denies and fills in
\* a deny_message with other braces. Whether it does depends on values and order.
MayRaise(rule, data) ==
    rule.faulty /\ data.kind # "unparsed" /\ ResolvePath(data, rule.path) # {}

-----------------------------------------------------------------------------
Below(x) == CASE x.kind = "object" -> {x.at[k] : k \in DOMAIN x.at}
              [] x.kind = "array" -> Elements(x)
              [] OTHER -> {}

\* The values at most so far down in a tree.
Subtrees(data, depth) ==
    LET within[i \in 0 .. depth] ==
          IF i = 0 THEN {data} ELSE within[i - 1] \cup UNION {Below(x) : x \in within[i - 1]}
    IN within[depth]

\* What a rule is documented to forbid (tool_rule_deny_hook.py:27-30, 44-48),
\* said without resolving a path: some chain of values, each in the one before
\* at the place its part of the path names, any index for a star, ends in a
\* value the condition is about.
Forbidden(rule, data) ==
    \E chain \in [0 .. Len(rule.path) -> Subtrees(data, Len(rule.path))] :
        /\ chain[0] = data
        /\ \A i \in 1 .. Len(rule.path) :
             LET x == chain[i - 1] IN
             \/ /\ rule.path[i] = "*" /\ x.kind = "array"
                /\ \E j \in DOMAIN x.items : chain[i] = x.items[j]
             \/ /\ rule.path[i] # "*" /\ x.kind = "object"
                /\ rule.path[i] \in DOMAIN x.at /\ chain[i] = x.at[rule.path[i]]
        /\ Violates(chain[Len(rule.path)], rule.op, rule.target)
=============================================================================
