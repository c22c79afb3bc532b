------------------------------- MODULE LongPoll -------------------------------
(***************************************************************************)
(* One long-polling task (LongPollService): a background task runs the     *)
(* stream and appends its chunks, poll requests hand out the chunks from   *)
(* an offset on, and a cancel request ends the task.                       *)
(*                                                                         *)
(* Requests and the background task share one asyncio loop.  The locks are *)
(* taken by the background task alone and never block, poll_chunks takes   *)
(* none, so a step goes from one await to the next.  The client is the     *)
(* loop of the API guide: it polls with the offset of the last answer it   *)
(* received until a status ends it, and asks again when an answer is lost. *)
(***************************************************************************)
EXTENDS Naturals, Sequences

CONSTANTS
    Poll,       \* the poll requests that can be open at the same time
    None,       \* no request
    MaxChunks,  \* bound: chunks of a stream
    MaxLosses   \* bound: answers the client gives up waiting for

ASSUME PollAssumption ==
    /\ None \notin Poll
    /\ MaxChunks \in Nat
    /\ MaxLosses \in Nat

VARIABLES
    status,     \* LongPollTask.status; "gone" once the process restarted
    chunks,     \* LongPollTask.chunks, also remembered after a restart
    request,    \* per poll request: where it stands and its last_offset
    woken,      \* has new_chunk_event or done_event fired for its wait?
    reply,      \* the answer a request has computed
    current,    \* the request the client is waiting for
    offset,     \* the client's last_offset
    got,        \* the chunks the client has received
    stopped,    \* the status that ended the client's loop, or "no"
    losses      \* answers given up so far

taskVars   == <<status, chunks>>
clientVars == <<offset, got, stopped, losses>>
vars == <<taskVars, request, woken, reply, current, clientVars>>

Kinds   == {"text", "done", "error"}
Final   == {"done", "error", "cancelled"}
Answers == {"running"} \cup Final

Idle    == [pc |-> "idle", from |-> 0]
NoReply == [status |-> "running", offset |-> 0, chunks |-> <<>>]

Open(p) == request[p].pc # "idle"

\* Both events wake every request that waits.
WakeAll == woken' = [p \in Poll |-> woken[p] \/ request[p].pc = "waiting"]

-----------------------------------------------------------------------------
(* The background task: _run_streaming.                                    *)

Append1(kind) ==
    /\ status = "running"
    /\ Len(chunks) < MaxChunks
    /\ \A i \in DOMAIN chunks : chunks[i] # "done"
    /\ chunks' = Append(chunks, kind)
    /\ WakeAll
    /\ UNCHANGED <<status, request, reply, current, clientVars>>

\* The stream yields a chunk; its done chunk is the last one, but the stream
\* still settles the message and saves the context afterwards.
Produce == \E kind \in {"text", "done"} : Append1(kind)

\* The stream is over.  An interrupted stream ends without a done chunk.
StreamEnds ==
    /\ status = "running"
    /\ status' = "done"
    /\ WakeAll
    /\ UNCHANGED <<chunks, request, reply, current, clientVars>>

\* Mutant of StreamRaises: the done event is not set.
StreamRaisesQuietly ==
    /\ status = "running"
    /\ status' = "error"
    /\ chunks' = Append(chunks, "error")
    /\ UNCHANGED <<request, woken, reply, current, clientVars>>

\* Mutant of StreamRaises: a status no client knows.
StreamRaisesFailed ==
    /\ status = "running"
    /\ status' = "failed"
    /\ chunks' = Append(chunks, "error")
    /\ WakeAll
    /\ UNCHANGED <<request, reply, current, clientVars>>

\* The stream raises: status and error chunk in one step.  The chunk does not
\* set new_chunk_event; the done event wakes the waiting requests.
StreamRaises ==
    /\ status = "running"
    /\ status' = "error"
    /\ chunks' = Append(chunks, "error")
    /\ WakeAll
    /\ UNCHANGED <<request, reply, current, clientVars>>

\* cancel_task.  The cancelled background task appends nothing more:
\* CancelledError is not an Exception.
Cancel ==
    /\ status = "running"
    /\ status' = "cancelled"
    /\ WakeAll
    /\ UNCHANGED <<chunks, request, reply, current, clientVars>>

\* The process restarts: the tasks live in its memory only, and the open
\* connections break.
Restart ==
    /\ status # "gone"
    /\ status' = "gone"
    /\ request' = [p \in Poll |-> Idle]
    /\ woken' = [p \in Poll |-> FALSE]
    /\ reply' = [p \in Poll |-> NoReply]
    /\ current' = None
    /\ UNCHANGED <<chunks, clientVars>>

-----------------------------------------------------------------------------
(* A poll request: poll_chunks.                                            *)

Answer(p, st, upTo, news) ==
    /\ reply' = [reply EXCEPT ![p] = [status |-> st, offset |-> upTo,
                                      chunks |-> news]]
    /\ request' = [request EXCEPT ![p].pc = "answered"]
    /\ woken' = [woken EXCEPT ![p] = FALSE]
    /\ UNCHANGED <<taskVars, current, clientVars>>

HasNews(p) == request[p].from < Len(chunks)

AnswerNews(p) ==
    Answer(p, status, Len(chunks),
           SubSeq(chunks, request[p].from + 1, Len(chunks)))

AnswerFinal(p) == Answer(p, status, Len(chunks), <<>>)

\* No such task: an error that leaves the offset alone.
PollNotFound(p) ==
    /\ request[p].pc = "called"
    /\ status = "gone"
    /\ Answer(p, "error", request[p].from, <<>>)

\* The fast path.
PollAtOnce(p) ==
    /\ request[p].pc = "called"
    /\ status # "gone"
    /\ HasNews(p)
    /\ AnswerNews(p)

\* Nothing new and the task is over.
PollFinished(p) ==
    /\ request[p].pc = "called"
    /\ status \in Final
    /\ ~HasNews(p)
    /\ AnswerFinal(p)

\* Mutant of PollWaits: the status is not looked at.
PollWaitsAnyway(p) ==
    /\ request[p].pc = "called"
    /\ status # "gone"
    /\ ~HasNews(p)
    /\ request' = [request EXCEPT ![p].pc = "waiting"]
    /\ UNCHANGED <<taskVars, woken, reply, current, clientVars>>

\* The slow path: new_chunk_event is cleared and both events are awaited.
\* Clearing takes nothing from another request: one that waits has already
\* been woken by whatever set the event.
PollWaits(p) ==
    /\ request[p].pc = "called"
    /\ status = "running"
    /\ ~HasNews(p)
    /\ request' = [request EXCEPT ![p].pc = "waiting"]
    /\ UNCHANGED <<taskVars, woken, reply, current, clientVars>>

\* Mutant of PollWakes: the chunks are not looked at again.
PollWakesFinal(p) ==
    /\ request[p].pc = "waiting"
    /\ woken[p]
    /\ AnswerFinal(p)

PollWakes(p) ==
    /\ request[p].pc = "waiting"
    /\ woken[p]
    /\ IF HasNews(p) THEN AnswerNews(p) ELSE AnswerFinal(p)

\* Mutant of PollTimesOut: the answer carries the status of the task.
PollTimesOutWithStatus(p) ==
    /\ request[p].pc = "waiting"
    /\ Answer(p, status, request[p].from, <<>>)

\* The wait times out, perhaps together with the event it waits for: the
\* answer says "running" and hands out nothing, whatever has happened.
PollTimesOut(p) ==
    /\ request[p].pc = "waiting"
    /\ Answer(p, "running", request[p].from, <<>>)

-----------------------------------------------------------------------------
(* The client.                                                             *)

ClientPolls(p) ==
    /\ current = None
    /\ stopped = "no"
    /\ ~Open(p)
    /\ request' = [request EXCEPT ![p] = [pc |-> "called", from |-> offset]]
    /\ current' = p
    /\ UNCHANGED <<taskVars, woken, reply, clientVars>>

Close(p) ==
    /\ request' = [request EXCEPT ![p] = Idle]
    /\ reply' = [reply EXCEPT ![p] = NoReply]

ClientReceives(p) ==
    /\ current = p
    /\ request[p].pc = "answered"
    /\ got' = got \o reply[p].chunks
    /\ offset' = reply[p].offset
    /\ stopped' = IF reply[p].status \in {"done", "error"}
                  THEN reply[p].status ELSE "no"
    /\ current' = None
    /\ Close(p)
    /\ UNCHANGED <<taskVars, woken, losses>>

\* The client gives up on a request, which goes on in the service.
ClientGivesUp ==
    /\ current # None
    /\ losses < MaxLosses
    /\ losses' = losses + 1
    /\ current' = None
    /\ UNCHANGED <<taskVars, request, woken, reply, offset, got, stopped>>

\* The answer to a request nobody waits for any more.
AnswerIsLost(p) ==
    /\ current # p
    /\ request[p].pc = "answered"
    /\ Close(p)
    /\ UNCHANGED <<taskVars, woken, current, clientVars>>

-----------------------------------------------------------------------------
Init ==
    /\ status = "running"
    /\ chunks = <<>>
    /\ request = [p \in Poll |-> Idle]
    /\ woken = [p \in Poll |-> FALSE]
    /\ reply = [p \in Poll |-> NoReply]
    /\ current = None
    /\ offset = 0
    /\ got = <<>>
    /\ stopped = "no"
    /\ losses = 0

Serve(p) == PollNotFound(p) \/ PollAtOnce(p) \/ PollFinished(p) \/ PollWaits(p)
              \/ PollWakes(p) \/ PollTimesOut(p)

\* The loop of the client has ended and every request is answered.
Over ==
    /\ stopped # "no"
    /\ \A p \in Poll : ~Open(p)
    /\ UNCHANGED vars

Next ==
    \/ Produce \/ StreamEnds \/ StreamRaises \/ Cancel \/ Restart
    \/ \E p \in Poll : Serve(p) \/ ClientPolls(p) \/ ClientReceives(p)
                         \/ AnswerIsLost(p)
    \/ ClientGivesUp
    \/ Over

\* Every stream ends (see EveryRequestEnds of StreamSession), the service
\* answers the requests it has, the timer included, and the client goes on
\* asking.  Nobody need cancel, restart or lose anything.
Fairness ==
    /\ WF_vars(StreamEnds \/ StreamRaises)
    /\ \A p \in Poll : WF_vars(Serve(p))
    /\ WF_vars(\E p \in Poll : ClientPolls(p))
    /\ WF_vars(\E p \in Poll : ClientReceives(p))
    /\ \A p \in Poll : WF_vars(AnswerIsLost(p))

Spec == Init /\ [][Next]_vars /\ Fairness

-----------------------------------------------------------------------------
(* Properties.                                                             *)

\* Every variable has its type.
TypeOK ==
    /\ status \in Answers \cup {"gone"}
    /\ chunks \in Seq(Kinds)
    /\ request \in [Poll -> [pc : {"idle", "called", "waiting", "answered"},
                             from : Nat]]
    /\ woken \in [Poll -> BOOLEAN]
    /\ reply \in [Poll -> [status : Answers, offset : Nat,
                           chunks : Seq(Kinds)]]
    /\ current \in Poll \cup {None}
    /\ offset \in Nat
    /\ got \in Seq(Kinds)
    /\ stopped \in {"no", "done", "error"}
    /\ losses \in 0 .. MaxLosses

\* Whatever answers are lost and asked for again, the client has received
\* each chunk once and in order, and its offset counts them.
ExactlyOnce ==
    /\ offset = Len(got)
    /\ Len(got) <= Len(chunks)
    /\ got = SubSeq(chunks, 1, Len(got))

\* A client whose loop ended with a status of the task itself has every chunk
\* of it, although polls read the chunks and the status without a lock and
\* the status changes after the last chunk.
StopsWithEverything ==
    stopped # "no" /\ status # "gone" => got = chunks

\* No request sleeps on a task that has something to tell it, although every
\* poll clears the event the others wait for.
NoLostWakeup ==
    \A p \in Poll :
        request[p].pc = "waiting" /\ (HasNews(p) \/ status # "running")
            => woken[p]

\* A task that is over stays as it is, until a restart forgets it: a late
\* cancel, or a cancel racing the end of the stream, changes no outcome.
FinalStays ==
    [][(status \in Final)
         => status' \in {status, "gone"} /\ chunks' = chunks]_vars

\* The client's loop ends, unless the task was cancelled.
LoopEnds == <>(stopped # "no" \/ status = "cancelled")

\* docs/chat-api_en.md:531-537 lists the "status values" an answer can have:
\* running, done and error.
StatusIsDocumented ==
    \A p \in Poll :
        request[p].pc = "answered"
            => reply[p].status \in {"running", "done", "error"}
=============================================================================
