----------------------- MODULE ToolConfirmationProofs -----------------------
(***************************************************************************)
(* What ToolConfirmation guarantees for every number of calls: types, that *)
(* no tool runs without an approval of its own, and that the LLM is told   *)
(* the truth about it.                                                     *)
(*                                                                         *)
(* Approval follows the path of a confirmation: an attempt that has not    *)
(* begun has left no trace (Fresh), only what has been shown is answered   *)
(* (Seen), the history of accepted answers is what the entries say         *)
(* (Recorded), and only approved entries have been executed (Executed).    *)
(***************************************************************************)
EXTENDS ToolConfirmation, TLAPS

-----------------------------------------------------------------------------
(* Type correctness.                                                       *)

\* The calls that have made no attempt are those that have not begun.
IdleInv == \A c \in Call : phase[c] = "idle" <=> attempt[c] = 0

TypeInv == TypeOK /\ IdleInv

LEMMA AskType ==
    ASSUME TypeInv, NEW c \in Call, Ask(c), attempt[c] \in {0, 1}
    PROVE  /\ phase' \in [Call -> {"idle", "asking", "executing", "over"}]
           /\ attempt' \in [Call -> 0 .. 2]
           /\ entry' \in [Id -> {"none", "open"} \cup Answer]
           /\ queued' \subseteq Id
           /\ UNCHANGED outcome
           /\ IdleInv'
  <1>1. attempt[c] + 1 \in {1, 2} /\ <<c, attempt[c] + 1>> \in Id
    BY DEF Id
  <1>2. QED
    BY <1>1 DEF TypeInv, TypeOK, IdleInv, Ask, MoveTo

LEMMA ConfirmationTypeStep == TypeInv /\ [Next]_vars => TypeInv'
  <1> SUFFICES ASSUME TypeInv, [Next]_vars PROVE TypeInv'
    OBVIOUS
  <1>1. ASSUME NEW c \in Call, ToolStep(c) PROVE TypeInv'
    <2> USE DEF TypeInv, TypeOK, IdleInv, MoveTo, Conclude
    <2>1. CASE Begin(c)
      BY <2>1, AskType DEF Begin, clientVars
    <2>2. CASE Wake(c)
      <3>1. Current(c) \in Id
        BY <2>2 DEF Wake, Current, Id
      <3>2. QED
        BY <2>2, <3>1 DEF Wake, clientVars
    <2>3. CASE ConfirmTimeout(c)
      BY <2>3 DEF ConfirmTimeout, clientVars
    <2>4. CASE ExecutorTimeout(c)
      BY <2>4 DEF ExecutorTimeout, clientVars
    <2>5. CASE ToolReturns(c)
      BY <2>5 DEF ToolReturns, clientVars
    <2>6. CASE ToolReturnsEmpty(c)
      BY <2>6, AskType DEF ToolReturnsEmpty, clientVars
    <2>7. QED
      BY <1>1, <2>1, <2>2, <2>3, <2>4, <2>5, <2>6 DEF ToolStep
  <1> USE DEF TypeInv, TypeOK, IdleInv, toolVars, clientVars
  <1>2. ASSUME NEW id \in Id, Deliver(id) PROVE TypeInv'
    BY <1>2 DEF Deliver
  <1>3. ASSUME NEW id \in Id, NEW answer \in Answer,
               AnswerByRequest(id, answer)
        PROVE  TypeInv'
    BY <1>3 DEF AnswerByRequest, Respond, Way
  <1>4. ASSUME NEW id \in Id, NEW answer \in Answer,
               AnswerOnSocket(id, answer)
        PROVE  TypeInv'
    BY <1>4 DEF AnswerOnSocket
  <1>5. ASSUME NEW id \in Id, NEW answer \in Answer,
               ReceiveOnSocket(id, answer)
        PROVE  TypeInv'
    BY <1>5 DEF ReceiveOnSocket, Respond, Way
  <1>6. CASE StreamEnds \/ UNCHANGED vars
    BY <1>6 DEF StreamEnds, vars
  <1>7. QED
    BY <1>1, <1>2, <1>3, <1>4, <1>5, <1>6 DEF Next, Over

LEMMA ConfirmationTypeInit == Init => TypeInv
  BY DEF Init, TypeInv, TypeOK, IdleInv

\* Every variable keeps its type.
THEOREM ConfirmationTypes == Spec => []TypeOK
  <1>1. Spec => []TypeInv
    BY ConfirmationTypeInit, ConfirmationTypeStep, PTL DEF Spec
  <1>2. TypeInv => TypeOK
    BY DEF TypeInv
  <1>3. QED
    BY <1>1, <1>2, PTL

-----------------------------------------------------------------------------
(* Approval.                                                               *)

\* No trace of an attempt that has not begun.
Fresh ==
    \A id \in Id :
        id[2] > attempt[id[1]]
            => entry[id] = "none" /\ id \notin queued /\ id \notin shown

\* Only what has been shown can be answered.
Seen ==
    /\ \A m \in inbox : m[1] \in shown
    /\ \A id \in Id : entry[id] \in Answer => id \in shown

\* The entries are the accepted answers.
Recorded ==
    \A id \in Id, answer \in Answer :
        (\E way \in Way : <<id, answer, way>> \in accepted)
            <=> entry[id] = answer

\* Where the task of a call stands says whether its attempt was executed.
Executed ==
    /\ \A id \in executed : entry[id] = "approved"
    /\ \A c \in Call :
          /\ phase[c] = "asking" => Current(c) \notin executed
          /\ phase[c] = "executing" => Current(c) \in executed

\* The LLM has been told something exactly of the calls that are over.
Told == \A c \in Call : phase[c] = "over" <=> outcome[c] # "none"

ApprovalInv ==
    Fresh /\ Seen /\ Recorded /\ Executed /\ Told /\ OutcomeIsTrue

\* A fresh confirmation disturbs none of the others.
LEMMA AskApproval ==
    ASSUME TypeInv, ApprovalInv, NEW c \in Call, Ask(c),
           attempt[c] \in {0, 1}, phase[c] \in {"idle", "executing"},
           UNCHANGED <<shown, inbox, accepted, executed>>
    PROVE  ApprovalInv'
  <1> DEFINE new == <<c, attempt[c] + 1>>
  <1>1. /\ new \in Id
        /\ \A d \in Call : attempt'[d] = IF d = c THEN attempt[c] + 1
                                                 ELSE attempt[d]
        /\ \A id \in Id : entry'[id] = IF id = new THEN "open" ELSE entry[id]
        /\ queued' = queued \cup {new}
        /\ outcome' = outcome
        /\ \A d \in Call : phase'[d] = IF d = c THEN "asking" ELSE phase[d]
    BY DEF Ask, MoveTo, TypeInv, TypeOK, Id
  <1>2. entry[new] = "none" /\ new \notin shown /\ new \notin executed
    BY <1>1 DEF ApprovalInv, Fresh, Executed, TypeInv, TypeOK, Id
  <1>3. Fresh'
    BY <1>1 DEF ApprovalInv, Fresh, TypeInv, TypeOK, Id
  <1>4. Seen'
    BY <1>1 DEF ApprovalInv, Seen, Answer
  <1>5. Recorded'
    BY <1>1, <1>2 DEF ApprovalInv, Recorded, Answer
  <1>6. Executed'
    <2>1. \A id \in executed : id # new /\ id \in Id
      BY <1>2 DEF TypeInv, TypeOK
    <2>2. \A id \in executed' : entry'[id] = "approved"
      BY <1>1, <2>1 DEF ApprovalInv, Executed
    <2>3. Current(c)' = new
      BY <1>1 DEF Current
    <2>4. \A d \in Call \ {c} : Current(d)' = Current(d)
      BY <1>1 DEF Current
    <2>5. QED
      BY <1>1, <1>2, <2>2, <2>3, <2>4 DEF ApprovalInv, Executed
  <1>7. OutcomeIsTrue'
    <2>1. \A d \in Call \ {c} : Current(d)' = Current(d)
      BY <1>1 DEF Current
    <2>2. outcome[c] = "none"
      BY DEF ApprovalInv, Told
    <2>3. QED
      BY <1>1, <2>1, <2>2 DEF ApprovalInv, OutcomeIsTrue
  <1>8. Told'
    BY <1>1 DEF ApprovalInv, Told
  <1>9. QED
    BY <1>3, <1>4, <1>5, <1>6, <1>7, <1>8 DEF ApprovalInv

\* The tool task ends: nothing but its phase and its outcome changes, and the
\* outcome is true of the attempt.
LEMMA ConcludeApproval ==
    ASSUME TypeInv, ApprovalInv, NEW c \in Call,
           NEW o \in {"denied", "timeout", "result"}, Conclude(c, o),
           o = "denied" => Current(c) \notin executed,
           o = "result" => Current(c) \in executed,
           UNCHANGED <<attempt, entry, queued, clientVars, accepted, executed>>
    PROVE  ApprovalInv'
  <1>1. /\ \A d \in Call : phase'[d] = IF d = c THEN "over" ELSE phase[d]
        /\ \A d \in Call : outcome'[d] = IF d = c THEN o ELSE outcome[d]
        /\ UNCHANGED <<attempt, entry, queued, shown, inbox, accepted, executed>>
    BY DEF Conclude, MoveTo, TypeInv, TypeOK, clientVars
  <1>2. Fresh' /\ Seen' /\ Recorded'
    BY <1>1 DEF ApprovalInv, Fresh, Seen, Recorded
  <1>3. Executed' /\ Told' /\ OutcomeIsTrue'
    BY <1>1 DEF ApprovalInv, Executed, Told, OutcomeIsTrue, Current
  <1>4. QED
    BY <1>2, <1>3 DEF ApprovalInv

LEMMA ToolStepApproval ==
    ASSUME TypeInv, ApprovalInv, NEW c \in Call, ToolStep(c)
    PROVE  ApprovalInv'
  <1>1. CASE Begin(c)
    BY <1>1, AskApproval DEF Begin, clientVars, TypeInv, IdleInv
  <1>2. CASE Wake(c)
    <2>1. CASE entry[Current(c)] = "approved"
      <3>1. /\ \A d \in Call :
                  phase'[d] = IF d = c THEN "executing" ELSE phase[d]
            /\ executed' = executed \cup {Current(c)}
            /\ UNCHANGED <<attempt, outcome, entry, queued, shown, inbox,
                           accepted>>
            /\ phase[c] = "asking"
        BY <1>2, <2>1 DEF Wake, MoveTo, TypeInv, TypeOK, clientVars
      <3>2. Fresh' /\ Seen' /\ Recorded'
        BY <3>1 DEF ApprovalInv, Fresh, Seen, Recorded
      <3>3. \A d \in Call \ {c} : Current(d) # Current(c)
        BY DEF Current
      <3>4. Executed' /\ Told' /\ OutcomeIsTrue'
        BY <2>1, <3>1, <3>3
        DEF ApprovalInv, Executed, Told, OutcomeIsTrue, Current
      <3>5. QED
        BY <3>2, <3>4 DEF ApprovalInv
    <2>2. CASE entry[Current(c)] # "approved"
      <3>1. Current(c) \notin executed
        BY <2>2 DEF ApprovalInv, Executed
      <3>2. QED
        BY <1>2, <2>2, <3>1, ConcludeApproval DEF Wake
    <2>3. QED
      BY <2>1, <2>2
  <1>3. CASE ConfirmTimeout(c)
    <2>1. Current(c) \notin executed
      BY <1>3 DEF ConfirmTimeout, ApprovalInv, Executed
    <2>2. QED
      BY <1>3, <2>1, ConcludeApproval DEF ConfirmTimeout
  <1>4. CASE ExecutorTimeout(c)
    BY <1>4, ConcludeApproval DEF ExecutorTimeout
  <1>5. CASE ToolReturns(c)
    <2>1. Current(c) \in executed
      BY <1>5 DEF ToolReturns, ApprovalInv, Executed
    <2>2. QED
      BY <1>5, <2>1, ConcludeApproval DEF ToolReturns
  <1>6. CASE ToolReturnsEmpty(c)
    BY <1>6, AskApproval DEF ToolReturnsEmpty, clientVars
  <1>7. QED
    BY <1>1, <1>2, <1>3, <1>4, <1>5, <1>6 DEF ToolStep

\* An answer that is accepted is given to a confirmation that was shown.
LEMMA RespondApproval ==
    ASSUME TypeInv, ApprovalInv, NEW id \in shown, NEW answer \in Answer,
           NEW way \in Way, Respond(id, answer, way), inbox' \subseteq inbox,
           UNCHANGED <<toolVars, queued, shown, executed>>
    PROVE  ApprovalInv'
  <1>1. CASE entry[id] = "open"
    <2>1. id \in Id /\ answer # "open" /\ answer # "none"
      BY DEF TypeInv, TypeOK, Answer
    <2>2. /\ \A i \in Id : entry'[i] = IF i = id THEN answer ELSE entry[i]
          /\ accepted' = accepted \cup {<<id, answer, way>>}
      BY <1>1, <2>1 DEF Respond, TypeInv, TypeOK
    <2>3. Fresh'
      BY <1>1, <2>1, <2>2 DEF ApprovalInv, Fresh, toolVars
    <2>4. Seen'
      BY <1>1, <2>1, <2>2 DEF ApprovalInv, Seen
    <2>5. Recorded'
      <3> SUFFICES ASSUME NEW i \in Id, NEW a \in Answer
                   PROVE  (\E w \in Way : <<i, a, w>> \in accepted')
                             <=> entry'[i] = a
        BY DEF Recorded
      <3>1. CASE i = id
        <4>1. \A w \in Way : <<id, a, w>> \notin accepted
          BY <1>1, <2>1 DEF ApprovalInv, Recorded, Answer
        <4>2. QED
          BY <2>2, <3>1, <4>1
      <3>2. CASE i # id
        BY <2>2, <3>2 DEF ApprovalInv, Recorded
      <3>3. QED
        BY <3>1, <3>2
    <2>6. Executed' /\ Told' /\ OutcomeIsTrue'
      <3>1. id \notin executed /\ executed \subseteq Id
        BY <1>1 DEF ApprovalInv, Executed, TypeInv, TypeOK
      <3>2. QED
        BY <2>2, <3>1
        DEF ApprovalInv, Executed, Told, OutcomeIsTrue, Current, toolVars
    <2>7. QED
      BY <2>3, <2>4, <2>5, <2>6 DEF ApprovalInv
  <1>2. CASE entry[id] # "open"
    <2>1. UNCHANGED <<entry, accepted>>
      BY <1>2 DEF Respond
    <2>2. QED
      BY <2>1 DEF ApprovalInv, Fresh, Seen, Recorded, Executed, Told,
                  OutcomeIsTrue, Current, toolVars
  <1>3. QED
    BY <1>1, <1>2

LEMMA ApprovalStep == TypeInv /\ ApprovalInv /\ [Next]_vars => ApprovalInv'
  <1> SUFFICES ASSUME TypeInv, ApprovalInv, [Next]_vars PROVE ApprovalInv'
    OBVIOUS
  <1>1. CASE \E c \in Call : ToolStep(c)
    BY <1>1, ToolStepApproval
  <1>2. ASSUME NEW id \in Id, Deliver(id) PROVE ApprovalInv'
    BY <1>2 DEF Deliver, toolVars, ApprovalInv, Fresh, Seen, Recorded,
                Executed, Told, OutcomeIsTrue, Current
  <1>3. ASSUME NEW id \in Id, NEW answer \in Answer,
               AnswerByRequest(id, answer)
        PROVE  ApprovalInv'
    BY <1>3, RespondApproval DEF AnswerByRequest, clientVars, Way
  <1>4. ASSUME NEW id \in Id, NEW answer \in Answer,
               AnswerOnSocket(id, answer)
        PROVE  ApprovalInv'
    BY <1>4 DEF AnswerOnSocket, toolVars, ApprovalInv, Fresh, Seen, Recorded,
                Executed, Told, OutcomeIsTrue, Current
  <1>5. ASSUME NEW id \in Id, NEW answer \in Answer,
               ReceiveOnSocket(id, answer)
        PROVE  ApprovalInv'
    <2>1. id \in shown
      BY <1>5 DEF ReceiveOnSocket, ApprovalInv, Seen
    <2>2. QED
      BY <1>5, <2>1, RespondApproval DEF ReceiveOnSocket, Way
  <1>6. CASE StreamEnds \/ UNCHANGED vars
    BY <1>6 DEF StreamEnds, vars, toolVars, clientVars, ApprovalInv, Fresh,
                Seen, Recorded, Executed, Told, OutcomeIsTrue, Current
  <1>7. QED
    BY <1>1, <1>2, <1>3, <1>4, <1>5, <1>6 DEF Next, Over

LEMMA ApprovalInit == Init => ApprovalInv
  BY DEF Init, ApprovalInv, Fresh, Seen, Recorded, Executed, Told,
         OutcomeIsTrue, Answer

THEOREM Approval == Spec => []ApprovalInv
  BY ConfirmationTypeInit, ConfirmationTypeStep, ApprovalInit, ApprovalStep,
     PTL DEF Spec

\* Every execution has an accepted approval of its own, given to a request
\* the client saw, and no accepted rejection.
THEOREM OnlyApproved == Spec => []OnlyApprovedRuns
  <1>1. TypeInv /\ ApprovalInv => OnlyApprovedRuns
    <2> SUFFICES ASSUME TypeInv, ApprovalInv, NEW id \in executed
                 PROVE  /\ id \in shown
                        /\ \E way \in Way : <<id, "approved", way>> \in accepted
                        /\ \A way \in Way :
                              <<id, "rejected", way>> \notin accepted
      BY DEF OnlyApprovedRuns
    <2>1. id \in Id /\ entry[id] = "approved"
      BY DEF TypeInv, TypeOK, ApprovalInv, Executed
    <2>2. QED
      BY <2>1 DEF ApprovalInv, Seen, Recorded, Answer
  <1>2. Spec => []TypeInv
    BY ConfirmationTypeInit, ConfirmationTypeStep, PTL DEF Spec
  <1>3. QED
    BY <1>1, <1>2, Approval, PTL

\* The LLM is told the truth about what was executed.
THEOREM Outcomes == Spec => []OutcomeIsTrue
  <1>1. ApprovalInv => OutcomeIsTrue
    BY DEF ApprovalInv
  <1>2. QED
    BY <1>1, Approval, PTL
=============================================================================
