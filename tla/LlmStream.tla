------------------------------ MODULE LlmStream ------------------------------
(***************************************************************************)
(* One streamed answer of a model, from the lines of the HTTP response to  *)
(* the tool calls that are dispatched (integrations/llm/                   *)
(* {openai,asri_gateway,ollama}_provider.py, response_parser.py, and       *)
(* FullDuplexLLMProcessor._call_llm_stream).  A model cuts the arguments   *)
(* of a call into pieces and interleaves them with those of other calls,   *)
(* with text and with reasoning; providers differ in what they make of a   *)
(* line.  A call is named by its place among the calls of the answer.      *)
(***************************************************************************)
EXTENDS Naturals, SequencesExt

CONSTANTS Plans,  \* what the model may answer
          Ids,    \* tool call ids
          None

\* A plan is a record: the pieces of text and of reasoning it has, and its
\* calls, each with the index and the id its deltas carry (0 and None when they
\* carry none) and how many pieces its arguments are cut into.
VARIABLES
    plan,      \* what the model answers
    server,    \* the API the provider speaks
    words,     \* pieces of text that have come
    thoughts,  \* pieces of reasoning that have come
    came,      \* deltas of each call that have come
    buffers,   \* tool_call_buffers
    spoken,    \* pieces of text that have been processed
    sentIds,   \* sent_tool_call_ids
    dispatched, \* the calls on_tool_call was called with
    phase,     \* "reading" lines, "flushing" buffers, then over
    incomplete \* history: a delta shared its chunk with text, or no more came

streamVars == <<plan, server, words, thoughts, came, buffers, spoken, sentIds, dispatched,
                phase, incomplete>>

Calls == DOMAIN plan.calls

\* What a model may answer at all: a call has at least one delta.
Plan == [words : Nat, thoughts : Nat,
         calls : Seq([index : Nat, id : Ids \cup {None}, pieces : Nat \ {0}])]

\* A piece of the arguments of a call.
Piece == [call : Nat, part : Nat]

\* Both fields are absent until a delta has them.
Buffer == [id : Ids \cup {None}, named : BOOLEAN, arguments : Seq(Piece)]

Indexes == UNION {{p.calls[c].index : c \in DOMAIN p.calls} : p \in Plans}

TypeOK ==
    /\ plan \in Plans
    /\ server \in {"openai", "gateway", "ollama"}
    /\ words \in 0 .. plan.words /\ thoughts \in 0 .. plan.thoughts
    /\ came \in [Calls -> Nat] /\ \A c \in Calls : came[c] <= plan.calls[c].pieces
    /\ buffers \in [Indexes -> Buffer \cup {None}]
    /\ spoken \in 0 .. words
    /\ sentIds \subseteq Ids
    /\ dispatched \in Seq([id : Ids \cup {None}, arguments : Seq(Piece)])
    /\ phase \in {"reading", "flushing", "ended", "failed"}
    /\ incomplete \in BOOLEAN

Init ==
    /\ plan \in Plans
    /\ server \in {"openai", "gateway", "ollama"}
    /\ server = "ollama" => plan.calls = <<>>
    /\ words = 0 /\ thoughts = 0 /\ came = [c \in Calls |-> 0]
    /\ buffers = [i \in Indexes |-> None]
    /\ spoken = 0 /\ sentIds = {} /\ dispatched = <<>>
    /\ phase = "reading" /\ incomplete = FALSE

-----------------------------------------------------------------------------
(* A line with a chunk *)

\* The next deltas of one or two calls, at most one of each.
Deltas == {s \in SeqOf({c \in Calls : came[c] < plan.calls[c].pieces}, 2) :
              \A j, k \in DOMAIN s : j # k => s[j] # s[k]}

NoBuffer == [id |-> None, named |-> FALSE, arguments |-> <<>>]

Buffered(buffer, c, part) ==
    [id        |-> IF part = 1 /\ plan.calls[c].id # None THEN plan.calls[c].id ELSE buffer.id,
     named     |-> buffer.named \/ part = 1,
     arguments |-> Append(buffer.arguments, [call |-> c, part |-> part])]

\* Mutant of Accumulate: a delta that comes second begins the buffer again.
AccumulateAnew(old, c) ==
    LET i == plan.calls[c].index IN
    [old EXCEPT ![i] = Buffered(NoBuffer, c, came[c] + 1)]

\* A delta goes to the buffer of its index; the first one has id and name.
Accumulate(old, c) ==
    LET i == plan.calls[c].index IN
    [old EXCEPT ![i] = Buffered(IF @ = None THEN NoBuffer ELSE @, c, came[c] + 1)]

\* The deltas of a chunk, one after another.
Accumulated(deltas) ==
    LET upTo[k \in 0 .. Len(deltas)] ==
            IF k = 0 THEN buffers ELSE Accumulate(upTo[k - 1], deltas[k])
    IN upTo[Len(deltas)]

Whole ==
    /\ words = plan.words /\ thoughts = plan.thoughts
    /\ \A c \in Calls : came[c] = plan.calls[c].pieces

\* parse_stream_chunk makes one chunk of a line: its reasoning if it has any,
\* else its text, else its deltas.
Chunk ==
    /\ phase = "reading"
    /\ UNCHANGED <<plan, server, sentIds, dispatched>>
    /\ \E thinks \in {0, 1}, says \in {0, 1}, deltas \in Deltas :
         /\ thoughts + thinks <= plan.thoughts /\ words + says <= plan.words
         /\ thinks + says + Len(deltas) > 0
         /\ thoughts' = thoughts + thinks /\ words' = words + says
         /\ came' = [c \in Calls |-> IF c \in ToSet(deltas) THEN came[c] + 1 ELSE came[c]]
         /\ LET taken == IF thinks = 1 THEN "reasoning" ELSE IF says = 1 THEN "content" ELSE "calls"
            IN /\ spoken' = IF taken = "content" THEN spoken + 1 ELSE spoken
               /\ buffers' = IF taken = "calls" THEN Accumulated(deltas)
                             ELSE buffers
               \* a tool of this very answer may have asked for the interrupt
               /\ \/ UNCHANGED phase
                  \/ taken = "content" /\ phase' = "flushing"
               /\ incomplete' = \/ incomplete \/ (phase' = "flushing" /\ ~Whole')
                                \/ taken # "calls" /\ deltas # <<>>
                                \/ taken = "reasoning" /\ says = 1

(* Lines without a chunk *)

\* A line that is no JSON, or whose delta is null: logged and skipped, except
\* that the gateway's provider catches nothing the parser raises.
BadLine ==
    /\ phase = "reading" /\ server = "gateway"
    /\ phase' = "failed"
    /\ UNCHANGED <<plan, server, words, thoughts, came, buffers, spoken, sentIds, dispatched,
                   incomplete>>

\* The last line, or the response ends without it, early perhaps: the answer
\* was as long as it may be.  Both end the loop.
StreamEnds ==
    /\ phase = "reading"
    /\ phase' = "flushing"
    /\ incomplete' = (incomplete \/ ~Whole)
    /\ UNCHANGED <<plan, server, words, thoughts, came, buffers, spoken, sentIds, dispatched>>

\* The status is an error, or the connection breaks.
StreamBreaks ==
    /\ phase = "reading" /\ phase' = "failed"
    /\ UNCHANGED <<plan, server, words, thoughts, came, buffers, spoken, sentIds, dispatched,
                   incomplete>>

-----------------------------------------------------------------------------
(* After the loop *)

Left == {i \in Indexes : buffers[i] # None}

\* Mutant of Dispatches: the ids are not remembered.
DispatchesAgain(buffer) == buffer.named

\* A buffer without a name is passed over, and an id that was sent already.
Dispatches(buffer) == buffer.named /\ buffer.id \notin sentIds

\* In the order of their indexes; a call without an id gets a fresh one.
FlushCall ==
    /\ phase = "flushing" /\ Left # {}
    /\ LET i == Min(Left) IN LET buffer == buffers[i] IN
       /\ IF Dispatches(buffer)
          THEN /\ dispatched' = Append(dispatched,
                                       [id |-> buffer.id, arguments |-> buffer.arguments])
               /\ sentIds' = sentIds \cup ({buffer.id} \ {None})
          ELSE UNCHANGED <<dispatched, sentIds>>
       /\ buffers' = [buffers EXCEPT ![i] = None]
    /\ UNCHANGED <<plan, server, words, thoughts, came, spoken, phase, incomplete>>

Flushed ==
    /\ phase = "flushing" /\ Left = {}
    /\ phase' = "ended"
    /\ UNCHANGED <<plan, server, words, thoughts, came, buffers, spoken, sentIds, dispatched,
                   incomplete>>

Over == phase \in {"ended", "failed"} /\ UNCHANGED streamVars

Next == Chunk \/ BadLine \/ StreamEnds \/ StreamBreaks \/ FlushCall \/ Flushed \/ Over

Spec == Init /\ [][Next]_streamVars

-----------------------------------------------------------------------------
\* The calls can be told apart.
Distinct ==
    \A c, d \in Calls : c # d => /\ plan.calls[c].index # plan.calls[d].index
                                 /\ plan.calls[c].id # plan.calls[d].id \/ plan.calls[c].id = None

Made(c) == [id |-> plan.calls[c].id,
            arguments |-> [p \in 1 .. plan.calls[c].pieces |-> [call |-> c, part |-> p]]]

\* What is dispatched for a call has its id, and pieces of its own in order.
MadeOf(c, made) ==
    /\ made.id = plan.calls[c].id
    /\ \A j \in DOMAIN made.arguments : made.arguments[j].call = c
    /\ \A j \in DOMAIN made.arguments, k \in DOMAIN made.arguments :
         j < k => made.arguments[j].part < made.arguments[k].part

\* Hence no call is dispatched twice.
InOrder ==
    \A j \in DOMAIN dispatched, k \in DOMAIN dispatched, c \in Calls, d \in Calls :
        j < k /\ dispatched[j] = Made(c) /\ dispatched[k] = Made(d)
          => plan.calls[c].index < plan.calls[d].index

\* However a model interleaves its calls with each other and with text, every
\* call that can be told from the others is dispatched with its own arguments
\* and no other's; and all of them are, once each, whole, in the order of their
\* indexes and with all of the text, if the stream came to its end and no delta
\* shared its chunk with text or reasoning (full_duplex_llm_processor.py:
\* 932-1007, response_parser.py:290-298).  An id is never dispatched twice.
CallsAreWhole ==
    /\ \A j, k \in DOMAIN dispatched :
         j # k => dispatched[j].id # dispatched[k].id \/ dispatched[j].id = None
    /\ Distinct =>
         /\ \A k \in DOMAIN dispatched : \E c \in Calls : MadeOf(c, dispatched[k])
         /\ (phase = "ended" /\ ~incomplete) =>
              /\ spoken = plan.words
              /\ \A c \in Calls : \E k \in DOMAIN dispatched : dispatched[k] = Made(c)
              /\ \A k \in DOMAIN dispatched : \E c \in Calls : dispatched[k] = Made(c)
              /\ InOrder
=============================================================================
