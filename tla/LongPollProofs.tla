---------------------------- MODULE LongPollProofs ----------------------------
(***************************************************************************)
(* What LongPoll guarantees for every number of open requests, chunks and  *)
(* lost answers: types, delivery of every chunk exactly once and in order, *)
(* completeness when the client stops, and no lost wake-up.                *)
(*                                                                         *)
(* The argument is local to an answer: it carries the slice of the chunks  *)
(* from the offset it was asked for to the offset it reports, and a final  *)
(* status only together with the full length (Sliced).  The client asks    *)
(* with the offset of what it has (Asked), so slices fit together.         *)
(***************************************************************************)
EXTENDS LongPoll, SequenceTheorems, TLAPS

USE PollAssumption

-----------------------------------------------------------------------------
(* Slices.                                                                 *)

\* A slice of a sequence is a sequence.
LEMMA SliceType ==
    ASSUME NEW S, NEW s \in Seq(S), NEW m \in Nat, NEW n \in Nat,
           1 <= m, n <= Len(s)
    PROVE  SubSeq(s, m, n) \in Seq(S)
  <1>1. \A i \in m .. n : s[i] \in S
    OBVIOUS
  <1>2. QED
    BY <1>1, SubSeqProperties

\* Appending disturbs no slice.
LEMMA SliceOfAppend ==
    ASSUME NEW S, NEW s \in Seq(S), NEW e \in S, NEW m \in Nat, NEW n \in Nat,
           1 <= m, n <= Len(s)
    PROVE  SubSeq(Append(s, e), m, n) = SubSeq(s, m, n)
  <1>1. CASE n < m
    BY <1>1, SubSeqEmpty
  <1>2. CASE m <= n
    <2>1. m \in 1 .. Len(s) /\ n \in 1 .. Len(s) /\ <<e>> \in Seq(S)
      BY <1>2
    <2>2. SubSeq(s \o <<e>>, m, n) = SubSeq(s, m, n)
      BY <2>1, SubSeqOfConcat1
    <2>3. QED
      BY <2>2, AppendIsConcat
  <1>3. QED
    BY <1>1, <1>2

-----------------------------------------------------------------------------
(* The invariant.                                                          *)

\* The client has a prefix of the chunks, and waits for a request that asks
\* for the rest.
Asked ==
    /\ offset <= Len(chunks)
    /\ got = SubSeq(chunks, 1, offset)
    /\ current # None => Open(current) /\ request[current].from = offset
    /\ stopped # "no" => current = None

\* Every request asks for an offset that exists; what it answers is a slice.
Sliced(p) ==
    /\ request[p].from <= Len(chunks)
    /\ request[p].pc = "waiting" => status # "gone"
    /\ request[p].pc = "answered" =>
         /\ request[p].from <= reply[p].offset
         /\ reply[p].offset <= Len(chunks)
         /\ reply[p].chunks = SubSeq(chunks, request[p].from + 1,
                                     reply[p].offset)
         /\ reply[p].status # "running" /\ status # "gone"
              => reply[p].status = status /\ reply[p].offset = Len(chunks)

\* A stopped client had a final status together with the last chunk.
Complete ==
    stopped # "no" /\ status # "gone"
        => status \in Final /\ offset = Len(chunks)

PollInv == TypeOK /\ Asked /\ (\A p \in Poll : Sliced(p)) /\ Complete

LEMMA PollInit == Init => PollInv
  <1> SUFFICES ASSUME Init PROVE PollInv
    OBVIOUS
  <1>1. TypeOK
    BY DEF Init, TypeOK, Answers, Final, Idle, NoReply
  <1>2. SubSeq(chunks, 1, 0) = <<>>
    BY SubSeqEmpty
  <1>3. QED
    BY <1>1, <1>2 DEF Init, PollInv, Asked, Sliced, Complete, Idle

-----------------------------------------------------------------------------
(* The background task.                                                    *)

\* The task gets one chunk more, or a status, while it runs.
LEMMA TaskGrows ==
    ASSUME PollInv, NEW kind \in Kinds, status = "running",
           chunks' = Append(chunks, kind), status' \in {"running", "error"},
           WakeAll, UNCHANGED <<request, reply, current, clientVars>>
    PROVE  PollInv'
  <1> USE DEF PollInv, clientVars
  <1>1. /\ chunks \in Seq(Kinds) /\ chunks' \in Seq(Kinds)
        /\ Len(chunks) \in Nat
        /\ Len(chunks') = Len(chunks) + 1
    BY AppendProperties DEF TypeOK
  <1>2. \A m, n \in Nat :
           1 <= m /\ n <= Len(chunks)
             => SubSeq(chunks', m, n) = SubSeq(chunks, m, n)
    BY <1>1, SliceOfAppend
  <1>3. TypeOK' /\ Asked'
    <2>1. TypeOK'
      BY <1>1 DEF TypeOK, WakeAll, Answers, Final
    <2>2. SubSeq(chunks', 1, offset) = SubSeq(chunks, 1, offset)
      BY <1>2 DEF Asked, TypeOK
    <2>3. QED
      BY <1>1, <2>1, <2>2 DEF Asked, TypeOK, Open
  <1>4. ASSUME NEW p \in Poll PROVE Sliced(p)'
    <2>1. request[p].from \in Nat /\ reply[p].offset \in Nat
      BY DEF TypeOK
    <2>2. CASE request[p].pc = "answered"
      <3>1. SubSeq(chunks', request[p].from + 1, reply[p].offset)
              = SubSeq(chunks, request[p].from + 1, reply[p].offset)
        <4>1. request[p].from + 1 \in Nat /\ 1 <= request[p].from + 1
          BY <2>1
        <4>2. reply[p].offset <= Len(chunks)
          BY <2>2 DEF Sliced
        <4>3. QED
          BY <1>2, <2>1, <4>1, <4>2
      <3>2. reply[p].status = "running"
        BY <2>2 DEF Sliced, TypeOK, Answers, Final
      <3>3. QED
        BY <1>1, <2>1, <2>2, <3>1, <3>2 DEF Sliced
    <2>3. CASE request[p].pc # "answered"
      BY <1>1, <2>1, <2>3 DEF Sliced
    <2>4. QED
      BY <2>2, <2>3
  <1>5. Complete'
    BY DEF Complete, Final
  <1>6. QED
    BY <1>3, <1>4, <1>5

LEMMA TaskEnds ==
    ASSUME PollInv, status = "running", status' \in Final,
           WakeAll, UNCHANGED <<chunks, request, reply, current, clientVars>>
    PROVE  PollInv'
  <1> USE DEF PollInv, clientVars
  <1>1. TypeOK'
    BY DEF TypeOK, WakeAll, Answers
  <1>2. Asked'
    BY DEF Asked, Open
  <1>3. ASSUME NEW p \in Poll PROVE Sliced(p)'
    <2>1. request[p].pc = "answered" => reply[p].status = "running"
      BY DEF Sliced, Final
    <2>2. QED
      BY <2>1 DEF Sliced, Final
  <1>4. Complete'
    BY DEF Complete, Final
  <1>5. QED
    BY <1>1, <1>2, <1>3, <1>4

LEMMA TaskForgotten ==
    ASSUME PollInv, Restart
    PROVE  PollInv'
  <1> USE DEF PollInv, Restart, clientVars, Idle, NoReply
  <1>1. TypeOK'
    BY DEF TypeOK, Answers, Kinds
  <1>2. Asked'
    BY DEF Asked
  <1>3. ASSUME NEW p \in Poll PROVE Sliced(p)'
    BY DEF Sliced, TypeOK
  <1>4. Complete'
    BY DEF Complete
  <1>5. QED
    BY <1>1, <1>2, <1>3, <1>4

-----------------------------------------------------------------------------
(* The requests.                                                           *)

\* An answer is right if it is a slice up to the offset it reports, and final
\* only with the whole.
LEMMA AnswerInv ==
    ASSUME PollInv, NEW p \in Poll, Open(p),
           NEW st \in Answers, NEW upTo \in Nat, NEW news,
           Answer(p, st, upTo, news),
           request[p].from <= upTo, upTo <= Len(chunks),
           news = SubSeq(chunks, request[p].from + 1, upTo),
           st # "running" /\ status # "gone" => st = status /\ upTo = Len(chunks)
    PROVE  PollInv'
  <1> USE DEF PollInv, Answer, taskVars, clientVars
  <1>1. /\ request[p].from \in Nat
        /\ news \in Seq(Kinds)
    <2>1. request[p].from \in Nat /\ chunks \in Seq(Kinds)
      BY DEF TypeOK
    <2>2. request[p].from + 1 \in Nat /\ 1 <= request[p].from + 1
      BY <2>1
    <2>3. QED
      BY <2>1, <2>2, SliceType
  <1>2. /\ \A q \in Poll \ {p} : request'[q] = request[q] /\ reply'[q] = reply[q]
        /\ request'[p].pc = "answered" /\ request'[p].from = request[p].from
        /\ reply'[p].status = st
        /\ reply'[p].offset = upTo
        /\ reply'[p].chunks = news
    BY DEF TypeOK
  <1>3. TypeOK'
    BY <1>1 DEF TypeOK
  <1>4. Asked'
    BY <1>2 DEF Asked, Open, TypeOK
  <1>5. ASSUME NEW q \in Poll PROVE Sliced(q)'
    <2>1. Sliced(q) /\ Sliced(p)
      OBVIOUS
    <2>2. CASE q = p
      BY <1>2, <2>1, <2>2 DEF Sliced
    <2>3. CASE q # p
      BY <1>2, <2>1, <2>3 DEF Sliced
    <2>4. QED
      BY <2>2, <2>3
  <1>6. Complete'
    BY DEF Complete
  <1>7. QED
    BY <1>3, <1>4, <1>5, <1>6

LEMMA ServeInv ==
    ASSUME PollInv, NEW p \in Poll, Serve(p)
    PROVE  PollInv'
  <1>0. PICK from \in Nat : from = request[p].from
    BY DEF PollInv, TypeOK
  <1>1. /\ Len(chunks) \in Nat
        /\ from <= Len(chunks)
        /\ SubSeq(chunks, from + 1, from) = <<>>
    BY <1>0, SubSeqEmpty DEF PollInv, TypeOK, Sliced
  <1>2. ASSUME NEW st \in Answers, Open(p), Answer(p, st, from, <<>>),
               st # "running" /\ status # "gone"
                 => st = status /\ from = Len(chunks)
        PROVE  PollInv'
    <2>1. from <= from /\ <<>> = SubSeq(chunks, from + 1, from)
      BY <1>1
    <2>2. /\ request[p].from <= from
          /\ <<>> = SubSeq(chunks, request[p].from + 1, from)
      BY <1>0, <2>1
    <2>3. QED
      BY <1>1, <1>2, <2>2, AnswerInv
  <1>3. ASSUME status \in Answers, Open(p), AnswerNews(p)
        PROVE  PollInv'
    <2>1. /\ Answer(p, status, Len(chunks),
                    SubSeq(chunks, from + 1, Len(chunks)))
          /\ Len(chunks) <= Len(chunks)
      BY <1>0, <1>1, <1>3 DEF AnswerNews
    <2>2. QED
      BY <1>0, <1>1, <1>3, <2>1, AnswerInv
  <1>4. CASE PollNotFound(p)
    BY <1>0, <1>2, <1>4 DEF PollNotFound, Open, Answers, Final
  <1>5. CASE PollAtOnce(p)
    BY <1>3, <1>5 DEF PollAtOnce, PollInv, TypeOK, Open
  <1>6. CASE PollFinished(p)
    <2>1. from = Len(chunks)
      BY <1>0, <1>1, <1>6 DEF PollFinished, HasNews
    <2>2. QED
      BY <1>2, <1>6, <2>1 DEF PollFinished, AnswerFinal, Open, Answers
  <1>7. CASE PollWaits(p)
    <2>1. /\ \A q \in Poll \ {p} : request'[q] = request[q]
          /\ request'[p].pc = "waiting" /\ request'[p].from = request[p].from
      BY <1>7 DEF PollWaits, PollInv, TypeOK
    <2>2. TypeOK'
      BY <1>7 DEF PollWaits, PollInv, TypeOK, taskVars, clientVars
    <2>3. Asked' /\ Complete'
      BY <1>7, <2>1 DEF PollWaits, PollInv, Asked, Complete, Open, TypeOK,
                        taskVars, clientVars
    <2>4. ASSUME NEW q \in Poll PROVE Sliced(q)'
      BY <1>7, <2>1 DEF PollWaits, PollInv, Sliced, taskVars
    <2>5. QED
      BY <2>2, <2>3, <2>4 DEF PollInv
  <1>8. CASE PollWakes(p)
    <2>1. status \in Answers /\ Open(p)
      BY <1>8 DEF PollWakes, PollInv, Sliced, TypeOK, Open
    <2>2. CASE HasNews(p)
      BY <1>3, <1>8, <2>1, <2>2 DEF PollWakes
    <2>3. CASE ~HasNews(p)
      <3>1. from = Len(chunks)
        BY <1>0, <1>1, <2>3 DEF HasNews
      <3>2. QED
        BY <1>2, <1>8, <2>1, <2>3, <3>1 DEF PollWakes, AnswerFinal
    <2>4. QED
      BY <2>2, <2>3
  <1>9. CASE PollTimesOut(p)
    BY <1>0, <1>2, <1>9 DEF PollTimesOut, Open, Answers
  <1>10. QED
    BY <1>4, <1>5, <1>6, <1>7, <1>8, <1>9 DEF Serve

-----------------------------------------------------------------------------
(* The client.                                                             *)

LEMMA ClientPollsInv ==
    ASSUME PollInv, NEW p \in Poll, ClientPolls(p)
    PROVE  PollInv'
  <1> USE DEF PollInv, ClientPolls, taskVars, clientVars
  <1>1. /\ \A q \in Poll \ {p} : request'[q] = request[q]
        /\ request'[p] = [pc |-> "called", from |-> offset]
    BY DEF TypeOK
  <1>2. TypeOK'
    BY DEF TypeOK
  <1>3. Asked' /\ Complete'
    BY <1>1 DEF Asked, Complete, Open
  <1>4. ASSUME NEW q \in Poll PROVE Sliced(q)'
    BY <1>1 DEF Sliced, Asked
  <1>5. QED
    BY <1>2, <1>3, <1>4

\* The slice that arrives continues what the client has.
LEMMA ClientReceivesInv ==
    ASSUME PollInv, NEW p \in Poll, ClientReceives(p)
    PROVE  PollInv'
  <1> USE DEF PollInv, ClientReceives, Close, taskVars, clientVars
  <1> DEFINE upTo == reply[p].offset
  <1>1. /\ offset \in Nat /\ upTo \in Nat /\ Len(chunks) \in Nat
        /\ chunks \in Seq(Kinds)
        /\ offset <= upTo /\ upTo <= Len(chunks)
        /\ got = SubSeq(chunks, 1, offset)
        /\ reply[p].chunks = SubSeq(chunks, offset + 1, upTo)
    <2>1. Sliced(p) /\ request[p].from = offset /\ request[p].pc = "answered"
      BY DEF Asked, TypeOK
    <2>2. QED
      BY <2>1 DEF Asked, Sliced, TypeOK
  <1>2. got' = SubSeq(chunks, 1, upTo)
    <2>1. /\ 1 \in 1 .. Len(chunks) + 1
          /\ offset \in 1 - 1 .. Len(chunks)
          /\ upTo \in offset .. Len(chunks)
      BY <1>1
    <2>2. QED
      BY <1>1, <2>1, ConcatAdjacentSubSeq
  <1>3. got' \in Seq(Kinds)
    BY <1>1, <1>2, SliceType
  <1>4. /\ \A q \in Poll \ {p} : request'[q] = request[q] /\ reply'[q] = reply[q]
        /\ request'[p] = Idle
    BY DEF TypeOK
  <1>5. TypeOK'
    BY <1>1, <1>3 DEF TypeOK, Idle, NoReply, Answers, Kinds
  <1>6. Asked'
    BY <1>1, <1>2 DEF Asked, TypeOK
  <1>7. ASSUME NEW q \in Poll PROVE Sliced(q)'
    BY <1>1, <1>4 DEF Sliced, Idle
  <1>8. Complete'
    <2>1. stopped' # "no" => reply[p].status \in {"done", "error"}
      OBVIOUS
    <2>2. QED
      BY <2>1 DEF Complete, Sliced, Final
  <1>9. QED
    BY <1>5, <1>6, <1>7, <1>8

LEMMA ClientLosesInv ==
    ASSUME PollInv, ClientGivesUp \/ \E p \in Poll : AnswerIsLost(p)
    PROVE  PollInv'
  <1> USE DEF PollInv, taskVars, clientVars
  <1>1. CASE ClientGivesUp
    <2>1. TypeOK'
      BY <1>1 DEF ClientGivesUp, TypeOK
    <2>2. QED
      BY <1>1, <2>1 DEF ClientGivesUp, Asked, Sliced, Complete
  <1>2. ASSUME NEW p \in Poll, AnswerIsLost(p) PROVE PollInv'
    <2>1. /\ \A q \in Poll \ {p} :
                request'[q] = request[q] /\ reply'[q] = reply[q]
          /\ request'[p] = Idle
      BY <1>2 DEF AnswerIsLost, Close, TypeOK
    <2>2. TypeOK'
      BY <1>2 DEF AnswerIsLost, Close, TypeOK, Idle, NoReply, Answers, Kinds
    <2>3. Asked' /\ Complete'
      BY <1>2, <2>1 DEF AnswerIsLost, Asked, Complete, Open, TypeOK
    <2>4. ASSUME NEW q \in Poll PROVE Sliced(q)'
      <3>1. Sliced(q) /\ 0 <= Len(chunks)
        BY DEF TypeOK
      <3>2. CASE q = p
        BY <1>2, <2>1, <3>1, <3>2 DEF AnswerIsLost, Sliced, Idle
      <3>3. CASE q # p
        BY <1>2, <2>1, <3>1, <3>3 DEF AnswerIsLost, Sliced
      <3>4. QED
        BY <3>2, <3>3
    <2>5. QED
      BY <2>2, <2>3, <2>4
  <1>3. QED
    BY <1>1, <1>2

-----------------------------------------------------------------------------
(* The theorems.                                                           *)

LEMMA PollStep == PollInv /\ [Next]_vars => PollInv'
  <1> SUFFICES ASSUME PollInv, [Next]_vars PROVE PollInv'
    OBVIOUS
  <1>1. CASE Produce
    BY <1>1, TaskGrows DEF Produce, Append1, Kinds
  <1>2. CASE StreamRaises
    BY <1>2, TaskGrows DEF StreamRaises, Kinds
  <1>3. CASE StreamEnds \/ Cancel
    BY <1>3, TaskEnds DEF StreamEnds, Cancel, Final
  <1>4. CASE Restart
    BY <1>4, TaskForgotten
  <1>5. CASE \E p \in Poll : Serve(p) \/ ClientPolls(p) \/ ClientReceives(p)
    BY <1>5, ServeInv, ClientPollsInv, ClientReceivesInv
  <1>6. CASE ClientGivesUp \/ \E p \in Poll : AnswerIsLost(p)
    BY <1>6, ClientLosesInv
  <1>7. CASE UNCHANGED vars
    BY <1>7 DEF vars, taskVars, clientVars, PollInv, TypeOK, Asked, Open,
                Sliced, Complete
  <1>8. QED
    BY <1>1, <1>2, <1>3, <1>4, <1>5, <1>6, <1>7 DEF Next, Over

THEOREM PollInvariant == Spec => []PollInv
  BY PollInit, PollStep, PTL DEF Spec

\* Every variable keeps its type.
THEOREM PollTypes == Spec => []TypeOK
  <1>1. PollInv => TypeOK
    BY DEF PollInv
  <1>2. QED
    BY <1>1, PollInvariant, PTL

\* The client receives each chunk once and in order.
THEOREM DeliveredOnce == Spec => []ExactlyOnce
  <1>1. PollInv => ExactlyOnce
    <2> SUFFICES ASSUME PollInv PROVE ExactlyOnce
      OBVIOUS
    <2>1. /\ chunks \in Seq(Kinds) /\ offset \in Nat /\ offset <= Len(chunks)
          /\ got = SubSeq(chunks, 1, offset)
      BY DEF PollInv, Asked, TypeOK
    <2>2. Len(got) = offset
      <3>1. \A i \in 1 .. offset : chunks[i] \in Kinds
        BY <2>1
      <3>2. Len(SubSeq(chunks, 1, offset)) = IF 1 <= offset THEN offset ELSE 0
        BY <2>1, <3>1, SubSeqProperties
      <3>3. QED
        BY <2>1, <3>2
    <2>3. QED
      BY <2>1, <2>2 DEF ExactlyOnce
  <1>2. QED
    BY <1>1, PollInvariant, PTL

\* A client whose loop was ended by the task has all its chunks.
THEOREM StoppedWithEverything == Spec => []StopsWithEverything
  <1>1. PollInv => StopsWithEverything
    BY SubSeqFull DEF PollInv, Asked, Complete, StopsWithEverything, TypeOK
  <1>2. QED
    BY <1>1, PollInvariant, PTL

-----------------------------------------------------------------------------
(* Wake-ups and outcomes.                                                  *)

\* A step of one request leaves the others asleep for the same reason.
LEMMA OthersSleep ==
    ASSUME TypeOK, NoLostWakeup, NEW p \in Poll,
           \A q \in Poll \ {p} : request'[q] = request[q] /\ woken'[q] = woken[q],
           request'[p].pc # "waiting", UNCHANGED <<status, chunks>>
    PROVE  NoLostWakeup'
  BY DEF NoLostWakeup, HasNews

LEMMA WakeupStep == TypeOK /\ NoLostWakeup /\ [Next]_vars => NoLostWakeup'
  <1> SUFFICES ASSUME TypeOK, NoLostWakeup, [Next]_vars PROVE NoLostWakeup'
    OBVIOUS
  <1>1. CASE Produce \/ StreamEnds \/ StreamRaises \/ Cancel
    <2>1. WakeAll /\ request' = request
      BY <1>1 DEF Produce, Append1, StreamEnds, StreamRaises, Cancel
    <2>2. QED
      BY <2>1 DEF WakeAll, NoLostWakeup
  <1>2. CASE Restart
    BY <1>2 DEF Restart, Idle, NoLostWakeup
  <1>3. ASSUME NEW p \in Poll, Serve(p) PROVE NoLostWakeup'
    <2>1. CASE PollWaits(p)
      <3>1. /\ status' = "running" /\ chunks' = chunks
            /\ request[p].from >= Len(chunks)
            /\ request'[p].from = request[p].from
            /\ \A q \in Poll \ {p} :
                  request'[q] = request[q] /\ woken'[q] = woken[q]
        BY <2>1 DEF PollWaits, HasNews, taskVars, TypeOK
      <3>2. status = "running"
        BY <2>1 DEF PollWaits
      <3>3. ~HasNews(p)' /\ \A q \in Poll \ {p} : HasNews(q)' <=> HasNews(q)
        BY <2>1, <3>1 DEF HasNews, PollWaits
      <3>4. QED
        BY <3>1, <3>2, <3>3 DEF NoLostWakeup
    <2>2. CASE \E st, upTo, news : Answer(p, st, upTo, news)
      <3>1. /\ request' = [request EXCEPT ![p].pc = "answered"]
            /\ woken' = [woken EXCEPT ![p] = FALSE]
            /\ UNCHANGED <<status, chunks>>
        BY <2>2 DEF Answer, taskVars
      <3>2. /\ request'[p].pc = "answered"
            /\ \A q \in Poll \ {p} :
                  request'[q] = request[q] /\ woken'[q] = woken[q]
        BY <3>1 DEF TypeOK
      <3>3. QED
        BY <3>1, <3>2, OthersSleep
    <2>3. QED
      BY <1>3, <2>1, <2>2
      DEF Serve, PollNotFound, PollAtOnce, PollFinished, PollWakes,
          PollTimesOut, AnswerNews, AnswerFinal
  <1>4. ASSUME NEW p \in Poll, ClientPolls(p) PROVE NoLostWakeup'
    BY <1>4, OthersSleep DEF ClientPolls, taskVars, TypeOK
  <1>5. ASSUME NEW p \in Poll, ClientReceives(p) \/ AnswerIsLost(p)
        PROVE  NoLostWakeup'
    <2>1. /\ request' = [request EXCEPT ![p] = Idle]
          /\ UNCHANGED <<status, chunks, woken>>
      BY <1>5 DEF ClientReceives, AnswerIsLost, Close, taskVars
    <2>2. /\ request'[p].pc = "idle"
          /\ \A q \in Poll \ {p} :
                request'[q] = request[q] /\ woken'[q] = woken[q]
      BY <2>1 DEF TypeOK, Idle
    <2>3. QED
      BY <2>1, <2>2, OthersSleep
  <1>6. CASE ClientGivesUp \/ UNCHANGED vars
    BY <1>6 DEF ClientGivesUp, vars, taskVars, NoLostWakeup, HasNews
  <1>7. QED
    BY <1>1, <1>2, <1>3, <1>4, <1>5, <1>6 DEF Next, Over

\* No poll request sleeps on news.
THEOREM Wakeups == Spec => []NoLostWakeup
  <1>1. Init => NoLostWakeup
    BY DEF Init, NoLostWakeup, Idle
  <1>2. QED
    BY <1>1, WakeupStep, PollTypes, PTL DEF Spec

\* No step changes the outcome of a task, except a restart that forgets it.
THEOREM OutcomesStay == Spec => FinalStays
  <1>1. [Next]_vars
          => [(status \in Final)
                => status' \in {status, "gone"} /\ chunks' = chunks]_vars
    <2> SUFFICES ASSUME Next, status \in Final
                 PROVE  status' \in {status, "gone"} /\ chunks' = chunks
      OBVIOUS
    <2>1. CASE Restart
      BY <2>1 DEF Restart
    <2>2. CASE Produce \/ StreamEnds \/ StreamRaises \/ Cancel
      BY <2>2 DEF Produce, Append1, StreamEnds, StreamRaises, Cancel, Final
    <2>3. CASE \E p \in Poll : Serve(p)
      BY <2>3 DEF Serve, PollNotFound, PollAtOnce, PollFinished, PollWaits,
                  PollWakes, PollTimesOut, AnswerNews, AnswerFinal, Answer,
                  taskVars
    <2>4. CASE \/ ClientGivesUp \/ Over
               \/ \E p \in Poll :
                     ClientPolls(p) \/ ClientReceives(p) \/ AnswerIsLost(p)
      BY <2>4 DEF ClientGivesUp, Over, vars, ClientPolls, ClientReceives,
                  AnswerIsLost, taskVars
    <2>5. QED
      BY <2>1, <2>2, <2>3, <2>4 DEF Next
  <1>2. QED
    BY <1>1, PTL DEF Spec, FinalStays
=============================================================================
