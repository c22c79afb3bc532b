---------------------------- MODULE TagExtractor ----------------------------
(***************************************************************************)
(* How the text of a model that thinks, calls tools and answers in tags is *)
(* taken apart while it streams (agent/parsers/xml_tag_extractor.py, the   *)
(* streaming half, and agent/parsers/mapper.py).  A text is a sequence of  *)
(* symbols: the three characters of a tag, the back-tick, the names of     *)
(* tags, and others.  It comes in chunks cut between any two of them.      *)
(***************************************************************************)
EXTENDS Naturals, SequencesExt

CONSTANTS Known,   \* names of the tags of a prompt, "tool" among them
          Word,    \* symbols that match \w+, Known among them
          Answers, \* what the model may answer: sequences of segments
          Outside  \* default_type, the key of text outside every tag

\* A segment is a record of tag, body and closed: text in a tag of Known, closed
\* by its own tag or by the next one; text outside, tag = Outside; or the close
\* tag of a tag that is not open, tag = "orphan".
VARIABLES
    answer,    \* what the model answers
    rest,      \* its symbols that have not come yet
    buffer,    \* XMLTagExtractor._buffer
    state,     \* _state: the tag inside which it is
    prev,      \* _prev_char
    toolText,  \* OutputMapper._tool_buffer
    said,      \* what has been passed on: keys and symbols
    parsed,     \* how many tool calls have been passed on
    mode,     \* "read": waits for a chunk
    cut        \* history: a chunk ended inside the close tag of a call

tagVars == <<answer, rest, buffer, state, prev, toolText, said, parsed, mode, cut>>

Mark == {"<", "/", ">", "tick", "{", "}"}

Symbol == Word \cup Mark

Key == Known \cup {Outside}

Segment == [tag : Key \cup {"orphan"}, body : Seq(Symbol), closed : BOOLEAN]

TypeOK ==
    /\ answer \in Answers
    /\ rest \in Seq(Symbol) /\ buffer \in Seq(Symbol)
    /\ state \in Key
    /\ prev \in Symbol \cup {""}
    /\ toolText \in Seq(Symbol)
    /\ said \in Seq([key : Key, symbol : Symbol])
    /\ parsed \in {0, 1}
    /\ mode \in {"read", "drain", "ended"}
    /\ cut \in BOOLEAN

Parses(text) == text = <<"{", "}">>

\* In a body a tag stands between back-ticks, both in the body: at its end or its
\* beginning it would depend on the cuts whether it is escaped.
Spared(text, i, length) ==
    i > 1 /\ i + length \in DOMAIN text /\ text[i - 1] = "tick" /\ text[i + length] = "tick"

TagAt(text, i) ==
    i + 2 \in DOMAIN text /\ text[i] = "<" /\ text[i + 1] \in Word /\ text[i + 2] = ">"

CloseAt(text, i, t) ==
    /\ i + 3 \in DOMAIN text /\ text[i] = "<" /\ text[i + 1] = "/"
    /\ text[i + 2] = t /\ text[i + 3] = ">"

\* An answer with one reading: what its segments are does not change when they
\* are written one after another.
Readable(segments) ==
    \A k \in DOMAIN segments :
        LET s == segments[k]
            text == s.body
            last == k = Len(segments)
        IN
        /\ text # <<>> /\ (s.closed \/ ~last) => text[Len(text)] # "tick"
        /\ s.tag = Outside =>
             /\ text # <<>>
             /\ \A i \in DOMAIN text : TagAt(text, i) /\ text[i + 1] \in Known => Spared(text, i, 3)
             /\ \A i \in DOMAIN text : ~(i > 1 /\ text[i - 1] = "<" /\ text[i] = "/")
             /\ ~last => segments[k + 1].tag # Outside
        /\ s.tag = "orphan" =>
             /\ Len(text) > 2 /\ text[1] = "<" /\ text[2] = "/"
             /\ \A i \in DOMAIN text : text[i] = ">" <=> i = Len(text)
        /\ s.tag \in Known =>
             /\ \A i \in DOMAIN text : TagAt(text, i) => Spared(text, i, 3)
             /\ \A i \in DOMAIN text : CloseAt(text, i, s.tag) => Spared(text, i, 4)
             /\ ~s.closed /\ ~last =>
                  /\ segments[k + 1].tag \in Known
                  /\ \A i \in DOMAIN text : text[i] = "<" => TagAt(text, i)
        /\ s.tag = "tool" => s.closed /\ Parses(text)

Open(t)  == <<"<", t, ">">>
Close(t) == <<"<", "/", t, ">">>

Written(s) ==
    IF s.tag \in {Outside, "orphan"} THEN s.body
    ELSE Open(s.tag) \o s.body \o (IF s.closed THEN Close(s.tag) ELSE <<>>)

\* Tags are words, and told from the other symbols and from one another.
TagAssumption ==
    /\ "tool" \in Known /\ Known \subseteq Word /\ Word \cap Mark = {}
    /\ Outside \notin Known /\ "orphan" \notin Known \cup {Outside}
    /\ Answers # {} /\ \A a \in Answers : a \in Seq(Segment) /\ Readable(a)

Text(segments) == FlattenSeq([i \in DOMAIN segments |-> Written(segments[i])])

Init ==
    /\ answer \in Answers /\ rest = Text(answer)
    /\ buffer = <<>> /\ state = Outside /\ prev = ""
    /\ toolText = <<>> /\ said = <<>> /\ parsed = 0
    /\ mode = "read" /\ cut = FALSE

-----------------------------------------------------------------------------
From(s, i) == SubSeq(s, i, Len(s))

Upto(s, i) == SubSeq(s, 1, i)

Occurs(pattern, i) == IsPrefix(pattern, From(buffer, i))

Tagged(key, text) == [i \in DOMAIN text |-> [key |-> key, symbol |-> text[i]]]

\* A chunk that is not empty goes through map_stream.  The text of a call is
\* gathered until the chunk that completes it; nothing empties it afterwards.
Emit(key, text, complete) ==
    /\ said' = said \o Tagged(key, text)
    /\ toolText' = IF key = "tool" THEN toolText \o text ELSE toolText
    /\ parsed' = IF key = "tool" /\ text # <<>> /\ complete /\ Parses(toolText')
                THEN parsed + 1 ELSE parsed

\* _is_backtick_escaped.  At the end of the buffer the last symbol, the ">" of
\* the tag itself, decides that the tag is escaped.
Escaped(i, length) ==
    /\ IF i > 1 THEN buffer[i - 1] = "tick" ELSE prev = "tick"
    /\ i + length > Len(buffer) \/ buffer[i + length] = "tick"

LastOf(text) == IF text = <<>> THEN prev ELSE text[Len(text)]

\* What is left of the buffer after a turn of the loop in _drain.
Advance(left, last) ==
    /\ buffer' = left /\ prev' = last
    /\ mode' = IF left = <<>> THEN "read" ELSE "drain"
    /\ UNCHANGED <<answer, rest, cut>>

Wait == mode' = "read" /\ UNCHANGED <<answer, rest, buffer, state, prev, toolText, said, parsed, cut>>

-----------------------------------------------------------------------------
\* extract_stream
Read ==
    /\ mode = "read" /\ rest # <<>>
    /\ \E n \in 1 .. Len(rest) :
         /\ buffer' = buffer \o Upto(rest, n)
         /\ rest' = From(rest, n + 1)
    /\ mode' = "drain"
    /\ cut' = (cut \/ \E i \in 1 .. 3 :
                        /\ IsSuffix(Upto(Close("tool"), i), buffer')
                        /\ IsPrefix(From(Close("tool"), i + 1), rest'))
    /\ UNCHANGED <<answer, state, prev, toolText, said, parsed>>

\* flush_stream, when the stream has ended.
Flush ==
    /\ mode = "read" /\ rest = <<>>
    /\ Emit(state, buffer, TRUE)
    /\ buffer' = <<>> /\ state' = Outside /\ mode' = "ended"
    /\ UNCHANGED <<answer, rest, prev, cut>>

(* _drain_outside *)

Draining(inside) == mode = "drain" /\ (state # Outside) = inside

Places(symbol) == {i \in DOMAIN buffer : buffer[i] = symbol}

FirstOf(symbol) == IF Places(symbol) = {} THEN 0 ELSE Min(Places(symbol))

TextOutside ==
    /\ Draining(FALSE) /\ FirstOf("<") # 1
    /\ LET n == IF FirstOf("<") = 0 THEN Len(buffer) ELSE FirstOf("<") - 1 IN
       /\ Emit(Outside, Upto(buffer, n), FALSE)
       /\ Advance(From(buffer, n + 1), buffer[n])
    /\ UNCHANGED state

\* A close tag of nothing is dropped.
OrphanClose ==
    /\ Draining(FALSE) /\ Occurs(<<"<", "/">>, 1)
    /\ IF FirstOf(">") = 0 THEN Wait
       ELSE /\ Advance(From(buffer, FirstOf(">") + 1), prev)
            /\ UNCHANGED <<state, toolText, said, parsed>>

OpenTag ==
    /\ Draining(FALSE)
    /\ \E t \in Known :
         /\ Occurs(Open(t), 1)
         /\ Advance(From(buffer, 4), ">")
         /\ IF Escaped(1, 3)
            THEN Emit(Outside, Open(t), FALSE) /\ UNCHANGED state
            ELSE state' = t /\ UNCHANGED <<toolText, said, parsed>>

\* It may become a tag, or it is text.
LessThan ==
    /\ Draining(FALSE) /\ FirstOf("<") = 1
    /\ ~Occurs(<<"<", "/">>, 1) /\ \A t \in Known : ~Occurs(Open(t), 1)
    /\ IF \E t \in Known : IsPrefix(buffer, Open(t))
       THEN Wait
       ELSE /\ Emit(Outside, <<"<">>, FALSE)
            /\ Advance(Tail(buffer), "<")
            /\ UNCHANGED state

(* _drain_inside *)

\* A tag, known or not, at the first "<", which does not begin the close tag.
NewTag ==
    LET i == FirstOf("<") IN
    /\ i > 0
    /\ Len(buffer) >= i + 2 /\ buffer[i + 1] \in Word /\ buffer[i + 2] = ">"

\* Between back-ticks it is text; else it ends the tag that is open.
ImplicitClose ==
    /\ Draining(TRUE) /\ NewTag
    /\ LET i == FirstOf("<") IN
       IF Escaped(i, 3)
       THEN /\ Emit(state, Upto(buffer, i + 2), FALSE)
            /\ Advance(From(buffer, i + 3), ">")
            /\ UNCHANGED state
       ELSE /\ Emit(state, Upto(buffer, i - 1), FALSE)
            /\ Advance(From(buffer, i), LastOf(Upto(buffer, i - 1)))
            /\ state' = Outside

Closes == {i \in DOMAIN buffer : Occurs(Close(state), i)}

RealCloses == {i \in Closes : ~Escaped(i, 4)}

\* Only the chunk before the close tag, if there is one, completes the key.
CloseTag ==
    /\ Draining(TRUE) /\ ~NewTag /\ RealCloses # {}
    /\ LET i == Min(RealCloses) IN
       /\ Emit(state, Upto(buffer, i - 1), TRUE)
       /\ Advance(From(buffer, i + 4), LastOf(Upto(buffer, i - 1)))
       /\ state' = Outside

EscapedClose ==
    /\ Draining(TRUE) /\ ~NewTag /\ RealCloses = {} /\ Closes # {}
    /\ LET n == Max(Closes) + 3 IN
       /\ Emit(state, Upto(buffer, n), FALSE)
       /\ Advance(From(buffer, n + 1), ">")
    /\ UNCHANGED state

\* Mutant of HoldBack: everything is passed on.
HoldBackNot ==
    /\ Draining(TRUE) /\ ~NewTag /\ Closes = {}
    /\ Emit(state, buffer, FALSE)
    /\ Advance(<<>>, LastOf(buffer))
    /\ UNCHANGED state

\* What may be the beginning of the close tag is kept, the text before it is
\* passed on; without such a beginning all of it waits.
HoldBack ==
    /\ Draining(TRUE) /\ ~NewTag /\ Closes = {}
    /\ LET parts == {i \in 1 .. 3 : IsSuffix(Upto(Close(state), i), buffer)}
           n == Len(buffer) - Min(parts)
       IN IF parts = {} \/ n = 0
          THEN Wait
          ELSE /\ Emit(state, Upto(buffer, n), FALSE)
               /\ Advance(From(buffer, n + 1), buffer[n])
               /\ UNCHANGED state

Ended == mode = "ended"

Over == Ended /\ UNCHANGED tagVars

Next ==
    \/ Read \/ Flush \/ Over
    \/ TextOutside \/ OrphanClose \/ OpenTag \/ LessThan
    \/ ImplicitClose \/ CloseTag \/ EscapedClose \/ HoldBack

Spec == Init /\ [][Next]_tagVars

-----------------------------------------------------------------------------
\* What each symbol of an answer belongs to.
Meant(segments) ==
    FlattenSeq([i \in DOMAIN segments |->
        IF segments[i].tag = "orphan" THEN <<>> ELSE Tagged(segments[i].tag, segments[i].body)])

Calls(segments) == {i \in DOMAIN segments : segments[i].tag = "tool"}

\* However the text is cut, across tags and back-ticks, every symbol is passed
\* on once, in order, under the key of its tag (xml_tag_extractor.py:147-345),
\* and the first call of an answer becomes a tool call unless a chunk ended
\* inside its close tag.
CutsDoNotMatter ==
    /\ IsPrefix(said, Meant(answer)) /\ (Ended => said = Meant(answer))
    /\ Ended /\ ~cut /\ Calls(answer) # {} => parsed > 0

\* xml_tag_extractor.py:22 says of the streaming state machine that it "supports
\* tags split across chunks"; a call whose close tag is split is lost.
SplitTagsWork == Ended /\ Calls(answer) # {} => parsed > 0
=============================================================================
