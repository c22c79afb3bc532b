------------------------------ MODULE ToolCalls ------------------------------
(***************************************************************************)
(* What the LLM processor and the tool executor promise each other: a tool *)
(* call is dispatched at most once, and every dispatched call is answered  *)
(* by exactly one FunctionCallEndFrame, whatever becomes of the tool.      *)
(***************************************************************************)

CONSTANT Tool   \* identifiers of the tool calls

VARIABLES called, ended

vars == <<called, ended>>

Init == called = {} /\ ended = {}

Call(t) == t \notin called /\ called' = called \cup {t} /\ UNCHANGED ended

End(t) == t \in called \ ended /\ ended' = ended \cup {t} /\ UNCHANGED called

\* An unknown function is answered while it is being dispatched.
CallAndEnd(t) ==
    t \notin called /\ called' = called \cup {t} /\ ended' = ended \cup {t}

Next == \E t \in Tool : Call(t) \/ End(t) \/ CallAndEnd(t)

Spec == Init /\ [][Next]_vars /\ \A t \in Tool : WF_vars(End(t))
=============================================================================
