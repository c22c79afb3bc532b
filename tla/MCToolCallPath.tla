---------------------------- MODULE MCToolCallPath ----------------------------
\* Model values for ToolCallPath.
EXTENDS ToolCallPath, MCAnswerTexts

CONSTANTS a, b, c1, c2, t1, t2, t3

MCCaller == {c1, c2}
MCTool == {t1, t2, t3}

\* Two calls with a text and reasoning; two in the wrong order, one without an
\* id; two with one id; two with one index; no call at all.
Cut(index, id, pieces) == [index |-> index, id |-> id, pieces |-> pieces]
Plan(text, reasoning, made) == [words |-> text, thoughts |-> reasoning, calls |-> made]
MCPlans ==
    {Plan(1, 1, <<Cut(0, a, 3), Cut(1, b, 2)>>), Plan(2, 0, <<Cut(1, a, 2), Cut(0, None, 1)>>),
     Plan(1, 0, <<Cut(0, a, 1), Cut(1, a, 1)>>), Plan(0, 0, <<Cut(0, a, 2), Cut(0, b, 1)>>),
     Plan(2, 1, <<>>)}
MCIds == {a, b}

\* All callers on one event loop, or one of them on a loop of its own.
MCThreadings == {{}, {c2}}
=============================================================================
