---------------------------- MODULE MCAnswerTexts ----------------------------
\* Answers of a model to be taken apart by TagExtractor; "content" is the key of
\* text outside every tag.  Words are one symbol each: "a" is no tag.

MCKnown == {"tool", "say"}
MCWord  == MCKnown \cup {"a"}

Seg(tag, body, closed) == [tag |-> tag, body |-> body, closed |-> closed]

ToolCall == Seg("tool", <<"{", "}">>, TRUE)

\* Texts with "<" that is no tag, tags that are not known, tags in back-ticks.
Bodies == {
    <<"a">>, <<"a", "<", "a">>, <<"<", "/", "a">>, <<"a", ">">>,
    <<"tick", "<", "say", ">", "tick", "a">>, <<"tick", "<", "/", "say", ">", "tick", "a">> }

Plain == {<<"a">>, <<"a", "<", "a">>, <<"<", "a", ">">>, <<"tick", "<", "say", ">", "tick", "a">>}

MCOneCall == {<<ToolCall>>}

First ==
    {Seg("content", b, FALSE) : b \in Plain}
    \cup {Seg("say", b, TRUE) : b \in Bodies}
    \cup {Seg("say", <<"a">>, FALSE), Seg("orphan", <<"<", "/", "a", ">">>, FALSE)}

Second == {ToolCall, Seg("say", <<"a">>, TRUE), Seg("say", <<"a">>, FALSE)}

MCAnswers ==
    {<<s, t>> : s \in First, t \in Second}
    \cup {<<ToolCall, ToolCall>>, <<ToolCall, Seg("content", <<"a">>, FALSE)>>}
=============================================================================
