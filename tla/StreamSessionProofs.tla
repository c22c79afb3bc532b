------------------------- MODULE StreamSessionProofs -------------------------
(***************************************************************************)
(* What StreamSession guarantees for every number of streaming and plain   *)
(* requests, whether or not waits time out and requests fail.              *)
(*                                                                         *)
(* Three inductive invariants, each built on the ones before it:           *)
(*   TypeOK    the types;                                                  *)
(*   RegInv    who may be registered, inside, waiting or signalled;        *)
(*   TurnInv   what the context holds while the session is quiet;          *)
(*   MarkInv   how far each stream's message status has got.               *)
(***************************************************************************)
EXTENDS StreamSession, TLAPS

USE StreamAssumption

-----------------------------------------------------------------------------
(* Type correctness.                                                       *)

PCs == StreamPC \cup PlainPC

LEMMA StreamStepType ==
    ASSUME TypeOK, NEW r \in Stream, StreamStep(r)
    PROVE  TypeOK'
  <1> USE DEF TypeOK, regVars, turnVars, Goto, StreamPC, PlainPC, Inside,
              Preparing, Running, Cleaning, Status
  <1>1. CASE Arrive(r) \/ Proceed(r)
    <2>1. CASE StartFresh(r)    BY <2>1 DEF StartFresh, Enter
    <2>2. CASE StartBehind(r)   BY <2>2 DEF StartBehind
    <2>3. CASE Wake(r)          BY <2>3 DEF Wake, Enter
    <2>4. CASE TimeOut(r)       BY <2>4 DEF TimeOut, Enter
    <2>5. CASE LoadContext(r)   BY <2>5 DEF LoadContext
    <2>6. CASE CreateRows(r)    BY <2>6 DEF CreateRows
    <2>7. QED  BY <1>1, <2>1, <2>2, <2>3, <2>4, <2>5, <2>6 DEF Arrive, Proceed
  <1>2. CASE Admit(r) \/ Refuse(r) \/ Loop(r)
    <2>1. CASE Admit(r)         BY <2>1 DEF Admit
    <2>2. CASE Refuse(r)        BY <2>2 DEF Refuse
    <2>3. CASE AgentBegins(r)   BY <2>3 DEF AgentBegins
    <2>4. CASE InterruptSeen(r) BY <2>4 DEF InterruptSeen
    <2>5. CASE StopSeen(r)      BY <2>5 DEF StopSeen
    <2>6. CASE Answer(r)        BY <2>6 DEF Answer
    <2>7. CASE DoneSeen(r)      BY <2>7 DEF DoneSeen
    <2>8. QED
      BY <1>2, <2>1, <2>2, <2>3, <2>4, <2>5, <2>6, <2>7 DEF Loop
  <1>3. CASE Leave(r)
    <2>1. CASE InterruptSave(r) BY <2>1 DEF InterruptSave, WriteContext
    <2>2. CASE InterruptMark(r) BY <2>2 DEF InterruptMark, LeaveTry
    <2>3. CASE StopMark(r)      BY <2>3 DEF StopMark, LeaveTry
    <2>4. CASE DoneMark(r)      BY <2>4 DEF DoneMark
    <2>5. CASE FinalSave(r)     BY <2>5 DEF FinalSave, WriteContext, LeaveTry
    <2>6. QED  BY <1>3, <2>1, <2>2, <2>3, <2>4, <2>5 DEF Leave
  <1>4. CASE Cleanup(r)
    <2>1. CASE FinallySave(r)
      BY <2>1 DEF FinallySave, WriteContext, AfterFallback
    <2>2. CASE FinallyMark(r)   BY <2>2 DEF FinallyMark
    <2>3. CASE Release(r)       BY <2>3 DEF Release
    <2>4. QED  BY <1>4, <2>1, <2>2, <2>3 DEF Cleanup
  <1>5. CASE Kill(r)            BY <1>5 DEF Kill, Fail, LeaveTry
  <1>6. CASE WriteFails(r)      BY <1>6 DEF WriteFails, Fail, AfterFallback
  <1>7. QED  BY <1>1, <1>2, <1>3, <1>4, <1>5, <1>6 DEF StreamStep

LEMMA TypeStep == TypeOK /\ [Next]_vars => TypeOK'
  <1> SUFFICES ASSUME TypeOK, [Next]_vars PROVE TypeOK'
    OBVIOUS
  <1>1. CASE \E r \in Stream : StreamStep(r)
    BY <1>1, StreamStepType
  <1>2. CASE InterruptSession
    BY <1>2 DEF InterruptSession, TypeOK, turnVars
  <1>3. ASSUME NEW p \in Plain, PlainLoad(p) PROVE TypeOK'
    BY <1>3 DEF PlainLoad, TypeOK, Goto, regVars, PlainPC
  <1>4. ASSUME NEW p \in Plain, PlainSave(p) PROVE TypeOK'
    BY <1>4 DEF PlainSave, WriteContext, TypeOK, Goto, regVars, PlainPC
  <1>5. CASE UNCHANGED vars
    BY <1>5 DEF vars, regVars, turnVars, TypeOK
  <1>6. QED
    BY <1>1, <1>2, <1>3, <1>4, <1>5 DEF Next, AllServed

LEMMA TypeInit == Init => TypeOK
  <1> SUFFICES ASSUME Init PROVE TypeOK
    OBVIOUS
  <1>1. pc \in [Stream \cup Plain -> StreamPC \cup PlainPC]
    BY DEF Init, StreamPC, PlainPC
  <1>2. fault \in [who : Stream \cup {None}, at : StreamPC \cup {"none"}]
    BY DEF Init, NoFault
  <1>3. ctx \subseteq Stream \cup Plain
    BY DEF Init
  <1>4. history \in [Stream \cup Plain -> SUBSET (Stream \cup Plain)]
    BY DEF Init
  <1>5. status \in [Stream -> Status]
    BY DEF Init, Status
  <1>6. QED
    BY <1>1, <1>2, <1>3, <1>4, <1>5 DEF Init, TypeOK

\* Every variable keeps its type.
THEOREM TypeCorrect == Spec => []TypeOK
  BY TypeInit, TypeStep, PTL DEF Spec

-----------------------------------------------------------------------------
(* The registry.  In a quiet session a stream that is inside is the        *)
(* registered one, done events belong to ended streams, and a request that *)
(* waits is alone in doing so: it waits for the only stream inside, if any *)
(* is.  The last two conjuncts are what makes the others inductive: they   *)
(* leave nobody inside when a waiting request wakes.                       *)

QuietInv ==
    /\ \A a \in Stream : pc[a] \in Inside => registered = a
    /\ \A a \in Stream : doneSet[a] => pc[a] = "ended"
    /\ \A a, b \in Stream : pc[a] = "waiting" /\ pc[b] = "waiting" => a = b
    /\ \A a, b \in Stream :
          pc[a] = "waiting" /\ pc[b] \in Inside => b = waitsOn[a]

RegInv ==
    /\ RegistryLive
    /\ \A a \in Stream : pc[a] = "waiting" => waitsOn[a] \in Stream
    /\ Quiet => QuietInv

\* A stream moves on within its try/finally and leaves the registry alone.
Inner(r) ==
    /\ pc[r] \in Inside
    /\ pc' = [pc EXCEPT ![r] = pc'[r]]
    /\ pc'[r] \in Inside
    /\ UNCHANGED regVars

\* The steps of a stream that touch the registry, or its waiting.
Outer(r) ==
    \/ StartFresh(r) \/ StartBehind(r) \/ Wake(r) \/ TimeOut(r) \/ Release(r)
    \/ pc[r] = "waiting" /\ Kill(r)

LEMMA InnerOrOuter ==
    ASSUME TypeOK, NEW r \in Stream, StreamStep(r)
    PROVE  Inner(r) \/ Outer(r)
  <1> USE DEF TypeOK, Goto, Inside, Preparing, Running, Cleaning
  <1>1. CASE Arrive(r) \/ Proceed(r)
    <2>1. CASE LoadContext(r)   BY <2>1 DEF LoadContext, Inner
    <2>2. CASE CreateRows(r)    BY <2>2 DEF CreateRows, Inner
    <2>3. QED  BY <1>1, <2>1, <2>2 DEF Arrive, Proceed, Outer
  <1>2. CASE Admit(r) \/ Refuse(r)
    BY <1>2 DEF Admit, Refuse, Inner
  <1>3. CASE Loop(r)
    <2>1. CASE AgentBegins(r)   BY <2>1 DEF AgentBegins, Inner
    <2>2. CASE Answer(r)        BY <2>2 DEF Answer, ChunkArrives, Inner
    <2>3. CASE InterruptSeen(r) \/ StopSeen(r) \/ DoneSeen(r)
      BY <2>3 DEF InterruptSeen, StopSeen, DoneSeen, ChunkArrives, Inner
    <2>4. QED  BY <1>3, <2>1, <2>2, <2>3 DEF Loop
  <1>4. CASE Leave(r)
    <2>1. CASE InterruptSave(r) BY <2>1 DEF InterruptSave, Inner
    <2>2. CASE InterruptMark(r) BY <2>2 DEF InterruptMark, LeaveTry, Inner
    <2>3. CASE StopMark(r)      BY <2>3 DEF StopMark, LeaveTry, Inner
    <2>4. CASE DoneMark(r)      BY <2>4 DEF DoneMark, Inner
    <2>5. CASE FinalSave(r)     BY <2>5 DEF FinalSave, LeaveTry, Inner
    <2>6. QED  BY <1>4, <2>1, <2>2, <2>3, <2>4, <2>5 DEF Leave
  <1>5. CASE Cleanup(r)
    <2>1. CASE FinallySave(r)   BY <2>1 DEF FinallySave, AfterFallback, Inner
    <2>2. CASE FinallyMark(r)   BY <2>2 DEF FinallyMark, Inner
    <2>3. QED  BY <1>5, <2>1, <2>2 DEF Cleanup, Outer
  <1>6. CASE Kill(r)
    <2>1. CASE pc[r] \in Preparing
      BY <1>6, <2>1 DEF Kill, Inner
    <2>2. CASE pc[r] \in Running
      BY <1>6, <2>2 DEF Kill, LeaveTry, Inner
    <2>3. CASE pc[r] \in {"fin_save", "fin_mark"}
      BY <1>6, <2>3 DEF Kill, LeaveTry, Inner
    <2>4. QED  BY <1>6, <2>1, <2>2, <2>3 DEF Kill, Outer
  <1>7. CASE WriteFails(r)      BY <1>7 DEF WriteFails, AfterFallback, Inner
  <1>8. QED
    BY <1>1, <1>2, <1>3, <1>4, <1>5, <1>6, <1>7 DEF StreamStep

LEMMA InnerReg ==
    ASSUME TypeOK, RegInv, NEW r \in Stream, Inner(r)
    PROVE  RegInv'
  <1>1. \A a \in Stream \ {r} : pc'[a] = pc[a]
    BY DEF Inner, TypeOK
  <1>2. \A a \in Stream :
           /\ pc'[a] \in Inside <=> pc[a] \in Inside
           /\ pc'[a] = "waiting" <=> pc[a] = "waiting"
           /\ pc[a] = "ended" => pc'[a] = "ended"
    BY <1>1 DEF Inner, Inside, Preparing, Running, Cleaning
  <1>3. UNCHANGED <<registered, doneSet, waitsOn, timedOut, crowded>>
    BY DEF Inner, regVars
  <1>4. RegistryLive'
    BY <1>2, <1>3 DEF RegInv, RegistryLive, TypeOK
  <1>5. Quiet' => QuietInv'
    BY <1>2, <1>3 DEF RegInv, Quiet, QuietInv
  <1>6. QED
    BY <1>2, <1>3, <1>4, <1>5 DEF RegInv

\* A request registers when nobody is inside and nobody else waits.
LEMMA EnterReg ==
    ASSUME TypeOK, RegInv, NEW r \in Stream, Enter(r),
           pc[r] \in {"idle", "waiting"},
           UNCHANGED <<doneSet, waitsOn>>,
           Quiet' => /\ Quiet
                     /\ \A a \in Stream : pc[a] \notin Inside
                     /\ \A a \in Stream \ {r} : pc[a] # "waiting"
    PROVE  RegInv'
  <1>1. /\ pc'[r] = "entered"
        /\ \A a \in Stream \ {r} : pc'[a] = pc[a]
    BY DEF Enter, Goto, TypeOK
  <1>2. RegistryLive'
    BY <1>1 DEF Enter, RegistryLive, Inside, Preparing
  <1>3. \A a \in Stream : pc'[a] = "waiting" => waitsOn'[a] \in Stream
    BY <1>1 DEF RegInv
  <1>4. Quiet' => QuietInv'
    <2> SUFFICES ASSUME Quiet' PROVE QuietInv'
      OBVIOUS
    <2>1. \A a \in Stream : pc'[a] \in Inside => a = r
      BY <1>1
    <2>2. \A a \in Stream : doneSet'[a] => pc'[a] = "ended"
      BY <1>1 DEF RegInv, QuietInv
    <2>3. \A a \in Stream : pc'[a] # "waiting"
      BY <1>1
    <2>4. QED
      BY <2>1, <2>2, <2>3 DEF QuietInv, Enter
  <1>5. QED
    BY <1>2, <1>3, <1>4 DEF RegInv

LEMMA OuterReg ==
    ASSUME TypeOK, RegInv, NEW r \in Stream, Outer(r)
    PROVE  RegInv'
  <1>1. CASE StartFresh(r)
    <2>1. Quiet' => /\ Quiet
                    /\ \A a \in Stream : pc[a] # "waiting"
      BY <1>1 DEF StartFresh, Quiet
    <2>2. Quiet => \A a \in Stream : pc[a] \notin Inside
      BY <1>1 DEF StartFresh, RegInv, QuietInv
    <2>3. QED
      BY <1>1, <2>1, <2>2, EnterReg DEF StartFresh
  <1>2. CASE StartBehind(r)
    <2>1. /\ pc'[r] = "waiting"
          /\ \A a \in Stream \ {r} : pc'[a] = pc[a]
          /\ waitsOn'[r] = registered
          /\ \A a \in Stream \ {r} : waitsOn'[a] = waitsOn[a]
          /\ registered \in Stream
          /\ registered' = registered
          /\ doneSet' = doneSet
      BY <1>2 DEF StartBehind, Goto, TypeOK
    <2>2. pc[r] = "idle" /\ registered # r
      BY <1>2 DEF StartBehind, RegInv, RegistryLive, Inside, Preparing,
                  Running, Cleaning
    <2>3. RegistryLive'
      BY <2>1, <2>2 DEF RegInv, RegistryLive
    <2>4. Quiet' => QuietInv'
      <3> SUFFICES ASSUME Quiet' PROVE QuietInv'
        OBVIOUS
      <3>1. Quiet /\ \A a \in Stream : pc[a] # "waiting"
        BY <1>2 DEF StartBehind, Quiet
      <3>2. QED
        BY <2>1, <2>2, <3>1
        DEF RegInv, QuietInv, Inside, Preparing, Running, Cleaning
    <2>5. QED
      BY <2>1, <2>3, <2>4 DEF RegInv
  <1>3. CASE Wake(r)
    <2>1. Quiet' <=> Quiet
      BY <1>3 DEF Wake, Quiet
    <2>2. Quiet => \A a \in Stream : pc[a] \notin Inside
      BY <1>3 DEF Wake, RegInv, QuietInv, Inside, Preparing, Running,
                  Cleaning
    <2>3. Quiet => \A a \in Stream \ {r} : pc[a] # "waiting"
      BY <1>3 DEF Wake, RegInv, QuietInv
    <2>4. QED
      BY <1>3, <2>1, <2>2, <2>3, EnterReg DEF Wake
  <1>4. CASE TimeOut(r)
    <2>1. ~Quiet'
      BY <1>4 DEF TimeOut, Quiet, TypeOK
    <2>2. QED
      BY <1>4, <2>1, EnterReg DEF TimeOut
  <1>5. CASE Release(r)
    <2>1. /\ pc'[r] = "ended" /\ pc[r] = "release"
          /\ \A a \in Stream \ {r} : pc'[a] = pc[a]
          /\ registered' = None
          /\ waitsOn' = waitsOn
          /\ Quiet' <=> Quiet
      BY <1>5 DEF Release, Goto, TypeOK, Quiet
    <2>2. Quiet => QuietInv'
      <3> SUFFICES ASSUME Quiet PROVE QuietInv'
        OBVIOUS
      <3>1. registered = r /\ \A a \in Stream \ {r} : pc[a] \notin Inside
        BY <2>1 DEF RegInv, QuietInv, Inside, Cleaning
      <3>2. doneSet' = [doneSet EXCEPT ![r] = TRUE]
        BY <1>5, <3>1 DEF Release
      <3>3. QED
        BY <2>1, <3>1, <3>2
        DEF RegInv, QuietInv, TypeOK, Inside, Preparing, Running, Cleaning
    <2>3. QED
      BY <2>1, <2>2 DEF RegInv, RegistryLive
  <1>6. CASE pc[r] = "waiting" /\ Kill(r)
    <2>1. /\ pc'[r] = "ended"
          /\ \A a \in Stream \ {r} : pc'[a] = pc[a]
          /\ UNCHANGED regVars
      BY <1>6 DEF Kill, Goto, TypeOK, Preparing, Running
    <2>2. registered # r
      BY <1>6 DEF RegInv, RegistryLive, Inside, Preparing, Running, Cleaning
    <2>3. RegistryLive'
      BY <2>1, <2>2 DEF RegInv, RegistryLive, regVars, TypeOK
    <2>4. Quiet' => QuietInv'
      BY <2>1 DEF RegInv, Quiet, QuietInv, regVars, Inside, Preparing,
                  Running, Cleaning
    <2>5. QED
      BY <2>1, <2>3, <2>4 DEF RegInv, regVars
  <1>7. QED
    BY <1>1, <1>2, <1>3, <1>4, <1>5, <1>6 DEF Outer

\* The steps of everybody else leave the streams and the registry alone.
LEMMA OtherReg ==
    ASSUME TypeOK, RegInv,
           \/ InterruptSession
           \/ \E p \in Plain : PlainLoad(p) \/ PlainSave(p)
           \/ UNCHANGED vars
    PROVE  RegInv'
  <1>1. /\ \A a \in Stream : pc'[a] = pc[a]
        /\ UNCHANGED <<registered, doneSet, waitsOn, timedOut, crowded>>
    BY DEF InterruptSession, PlainLoad, PlainSave, Goto, TypeOK, vars, regVars
  <1>2. QED
    BY <1>1 DEF RegInv, RegistryLive, Quiet, QuietInv, TypeOK

LEMMA RegStep == TypeOK /\ RegInv /\ [Next]_vars => RegInv'
  <1> SUFFICES ASSUME TypeOK, RegInv, [Next]_vars PROVE RegInv'
    OBVIOUS
  <1>1. CASE \E r \in Stream : StreamStep(r)
    BY <1>1, InnerOrOuter, InnerReg, OuterReg
  <1>2. QED
    BY <1>1, OtherReg DEF Next, AllServed

LEMMA RegInit == Init => RegInv
  BY DEF Init, RegInv, RegistryLive, QuietInv, Inside, Preparing, Running,
         Cleaning

THEOREM Registry == Spec => []RegInv
  BY RegInit, RegStep, TypeCorrect, PTL DEF Spec

\* Registered events always belong to a stream inside its try/finally.
THEOREM RegistryIsLive == Spec => []RegistryLive
  <1>1. RegInv => RegistryLive
    BY DEF RegInv
  <1>2. QED
    BY <1>1, Registry, PTL

\* Auto-interrupt serialises the streams of a quiet session.
THEOREM Serial == Spec => []SerialWhenQuiet
  <1>1. RegInv => SerialWhenQuiet
    BY DEF RegInv, QuietInv, SerialWhenQuiet
  <1>2. QED
    BY <1>1, Registry, PTL

\* In a quiet session a set done event belongs to an ended stream.
THEOREM DoneEvents == Spec => []DoneMeansEnded
  <1>1. RegInv => DoneMeansEnded
    BY DEF RegInv, QuietInv, DoneMeansEnded
  <1>2. QED
    BY <1>1, Registry, PTL

-----------------------------------------------------------------------------
(* The status of the messages: each stream on its own.                     *)

FailedMark(r) ==
    fault.who = r /\ fault.at \in {"intr_mark", "fin_save", "fin_mark"}

\* The finally block is about to downgrade a completed message.
Downgrading(r) ==
    pc[r] \in {"fin_save", "fin_mark"} /\ fault = [who |-> r, at |-> "ctx_save"]

MarkOf(r) ==
    /\ pc[r] \in {"idle", "waiting"} \cup Preparing
          => ~began[r] /\ ~answered[r]
    /\ saved[r] => pc[r] \in {"intr_mark", "release", "ended"}
    /\ pc[r] = "ctx_save" => status[r] = "completed"
    /\ status[r] = "completed"
          => pc[r] \in {"ctx_save", "release", "ended"} \/ Downgrading(r)
    /\ pc[r] \in {"release", "ended"} /\ answered[r]
         /\ status[r] = "streaming" => FailedMark(r)

MarkInv == \A r \in Stream : MarkOf(r)

\* A step of r changes no other request, and a recorded fault stays.
LEMMA Frame ==
    ASSUME TypeOK, NEW r \in Stream, StreamStep(r)
    PROVE  /\ \A a \in (Stream \cup Plain) \ {r} :
                 pc'[a] = pc[a] /\ history'[a] = history[a]
           /\ \A a \in Stream \ {r} :
                 /\ waitsOn'[a] = waitsOn[a]
                 /\ began'[a] = began[a]
                 /\ answered'[a] = answered[a]
                 /\ status'[a] = status[a]
                 /\ saved'[a] = saved[a]
           /\ fault # NoFault => fault' = fault
  <1> USE DEF TypeOK, regVars, turnVars, Goto, NoFault
  <1>1. CASE Arrive(r) \/ Proceed(r)
    BY <1>1 DEF Arrive, StartFresh, StartBehind, Enter, Proceed, Wake,
                TimeOut, LoadContext, CreateRows
  <1>2. CASE Admit(r) \/ Refuse(r) \/ Loop(r)
    BY <1>2 DEF Admit, Refuse, Loop, AgentBegins, InterruptSeen, StopSeen,
                Answer, DoneSeen
  <1>3. CASE Leave(r)
    BY <1>3 DEF Leave, InterruptSave, InterruptMark, StopMark, DoneMark,
                FinalSave, LeaveTry
  <1>4. CASE Cleanup(r)
    BY <1>4 DEF Cleanup, FinallySave, FinallyMark, Release
  <1>5. CASE Kill(r) \/ WriteFails(r)
    BY <1>5 DEF Kill, WriteFails, Fail, LeaveTry
  <1>6. QED
    BY <1>1, <1>2, <1>3, <1>4, <1>5 DEF StreamStep

LEMMA MarkSelf ==
    ASSUME TypeOK, MarkInv, NEW r \in Stream, StreamStep(r)
    PROVE  MarkOf(r)'
  <1> USE DEF TypeOK, MarkOf, Downgrading, FailedMark, Goto, Preparing,
              regVars, turnVars, NoFault
  <1>0. MarkOf(r)
    BY DEF MarkInv
  <1>1. CASE Arrive(r) \/ Wake(r) \/ TimeOut(r)
    BY <1>0, <1>1 DEF Arrive, StartFresh, StartBehind, Enter, Wake, TimeOut
  <1>2. CASE LoadContext(r)   BY <1>0, <1>2 DEF LoadContext
  <1>3. CASE CreateRows(r)    BY <1>0, <1>3 DEF CreateRows
  <1>4. CASE Admit(r) \/ Refuse(r)
    BY <1>0, <1>4 DEF Admit, Refuse
  <1>5. CASE Loop(r)
    BY <1>0, <1>5 DEF Loop, AgentBegins, InterruptSeen, StopSeen, Answer,
                      DoneSeen, ChunkArrives
  <1>6. CASE InterruptSave(r) BY <1>0, <1>6 DEF InterruptSave
  <1>7. CASE InterruptMark(r)
    BY <1>0, <1>7 DEF InterruptMark, LeaveTry, Status
  <1>8. CASE StopMark(r)      BY <1>0, <1>8 DEF StopMark, LeaveTry
  <1>9. CASE DoneMark(r)      BY <1>0, <1>9 DEF DoneMark
  <1>10. CASE FinalSave(r)    BY <1>0, <1>10 DEF FinalSave, LeaveTry
  <1>11. CASE FinallySave(r)
    BY <1>0, <1>11 DEF FinallySave, AfterFallback
  <1>12. CASE FinallyMark(r)  BY <1>0, <1>12 DEF FinallyMark
  <1>13. CASE Release(r)      BY <1>0, <1>13 DEF Release
  <1>14. CASE Kill(r)
    BY <1>0, <1>14 DEF Kill, Fail, LeaveTry, Running
  <1>15. CASE WriteFails(r)
    BY <1>0, <1>15 DEF WriteFails, Fail, AfterFallback
  <1>16. QED
    BY <1>1, <1>2, <1>3, <1>4, <1>5, <1>6, <1>7, <1>8, <1>9, <1>10, <1>11,
       <1>12, <1>13, <1>14, <1>15
    DEF StreamStep, Proceed, Leave, Cleanup

LEMMA MarkStep == TypeOK /\ MarkInv /\ [Next]_vars => MarkInv'
  <1> SUFFICES ASSUME TypeOK, MarkInv, [Next]_vars PROVE MarkInv'
    OBVIOUS
  <1>1. ASSUME NEW r \in Stream, StreamStep(r) PROVE MarkInv'
    <2>1. ASSUME NEW a \in Stream \ {r} PROVE MarkOf(a)'
      <3>1. MarkOf(a)
        BY DEF MarkInv
      <3>2. /\ pc'[a] = pc[a]           /\ began'[a] = began[a]
            /\ answered'[a] = answered[a] /\ status'[a] = status[a]
            /\ saved'[a] = saved[a]
            /\ Downgrading(a) => Downgrading(a)'
            /\ FailedMark(a) => FailedMark(a)'
        BY <1>1, Frame DEF Downgrading, FailedMark, NoFault
      <3>3. QED
        BY <3>1, <3>2 DEF MarkOf
    <2>2. QED
      BY <1>1, <2>1, MarkSelf DEF MarkInv
  <1>2. CASE InterruptSession
    BY <1>2 DEF InterruptSession, turnVars, MarkInv, MarkOf, Downgrading,
                FailedMark
  <1>3. CASE \E p \in Plain : PlainLoad(p) \/ PlainSave(p)
    <2>1. /\ \A a \in Stream : pc'[a] = pc[a]
          /\ UNCHANGED <<began, answered, status, saved, fault>>
      BY <1>3 DEF PlainLoad, PlainSave, Goto, TypeOK
    <2>2. QED
      BY <2>1 DEF MarkInv, MarkOf, Downgrading, FailedMark
  <1>4. CASE UNCHANGED vars
    BY <1>4 DEF vars, turnVars, MarkInv, MarkOf, Downgrading, FailedMark
  <1>5. QED
    BY <1>1, <1>2, <1>3, <1>4 DEF Next, AllServed

LEMMA MarkInit == Init => MarkInv
  BY DEF Init, MarkInv, MarkOf

THEOREM Marks == Spec => []MarkInv
  BY MarkInit, MarkStep, TypeCorrect, PTL DEF Spec

\* A stream that showed part of an answer ends with its message out of
\* status "streaming", unless the write of that status failed.
THEOREM Settled == Spec => []SettledUnlessMarkFails
  <1>1. MarkInv => SettledUnlessMarkFails
    BY DEF MarkInv, MarkOf, FailedMark, SettledUnlessMarkFails
  <1>2. QED
    BY <1>1, Marks, PTL

\* A completed message is only ever downgraded after the write of its
\* context failed.
THEOREM CompletedStaysSo == Spec => CompletedStays
  <1>1. ASSUME TypeOK, TypeOK', MarkInv, MarkInv', [Next]_vars, NEW r \in Stream,
               status[r] = "completed", status'[r] # "completed"
        PROVE  fault = [who |-> r, at |-> "ctx_save"]
    <2>1. StreamStep(r)
      <3>1. ~(\E a \in Stream \ {r} : StreamStep(a))
        BY <1>1, Frame
      <3>2. status' # status
        BY <1>1
      <3>3. QED
        BY <1>1, <3>1, <3>2
        DEF Next, InterruptSession, PlainLoad, PlainSave, AllServed, vars
    <2>2. CASE CreateRows(r)
      BY <1>1, <2>2 DEF CreateRows, MarkInv, MarkOf, Downgrading
    <2>3. CASE InterruptMark(r) \/ StopMark(r)
      BY <1>1, <2>3 DEF InterruptMark, StopMark, MarkInv, MarkOf, Downgrading
    <2>4. CASE FinallyMark(r)
      BY <1>1, <2>4 DEF FinallyMark, MarkInv, MarkOf, Downgrading
    <2>5. CASE DoneMark(r)
      BY <1>1, <2>5 DEF DoneMark, TypeOK
    <2>6. QED
      BY <1>1, <2>1, <2>2, <2>3, <2>4, <2>5
      DEF StreamStep, Arrive, StartFresh, StartBehind, Proceed, Wake,
          TimeOut, LoadContext, Admit, Refuse, Loop, AgentBegins,
          InterruptSeen, StopSeen, Answer, DoneSeen, Leave, InterruptSave,
          FinalSave, Cleanup, FinallySave, Release, Kill, WriteFails
  <1>2. TypeOK /\ TypeOK' /\ MarkInv /\ MarkInv' /\ [Next]_vars
          => [\A r \in Stream :
                status[r] = "completed" /\ status'[r] # "completed"
                  => fault = [who |-> r, at |-> "ctx_save"]]_vars
    BY <1>1
  <1>3. QED
    BY <1>2, TypeCorrect, Marks, PTL DEF Spec, CompletedStays

-----------------------------------------------------------------------------
(* The turns.  While the session is quiet and no plain request has run,    *)
(* only the registered stream can write the context, and what it writes    *)
(* (its history and its own turn) contains everything already there.       *)

Undisturbed == Quiet /\ \A p \in Plain : pc[p] = "idle"

Kept(r) == r \in ctx \/ Excused(r)

\* The awaits after which the turn of a stream must be settled, and those at
\* which it may still write the context it loaded.
Settling == {"fin_mark", "release", "ended"}
Loaded   == {"loaded", "hooks", "fin_save"} \cup Running

TurnOf(r) ==
    /\ pc[r] \in Settling => Kept(r)
    /\ saved[r] => r \in ctx
    /\ pc[r] \in Loaded => ctx \subseteq history[r] \cup {r}

Behind(r) ==
    LET w == waitsOn[r]
    IN  /\ pc[w] \in Inside \cup {"ended"} /\ w # r
        /\ began[r] \/ pc[r] \in {"loaded", "hooks", "looping"}
             => pc[w] = "ended" /\ (w \in history[r] \/ Excused(w))

TurnInv ==
    Undisturbed => \A r \in Stream :
                      TurnOf(r) /\ (waitsOn[r] # None => Behind(r))

\* Turns are only ever added: a write contains what was there before.
LEMMA ContextGrows ==
    ASSUME TypeOK, RegInv, MarkInv, TurnInv, Undisturbed,
           NEW r \in Stream, StreamStep(r)
    PROVE  /\ ctx \subseteq ctx'
           /\ ctx' # ctx => /\ ctx' = history[r] \cup {r}
                            /\ pc[r] \in Inside /\ history' = history
  <1>1. CASE InterruptSave(r) \/ FinalSave(r) \/ FinallySave(r)
    <2>1. pc[r] \in Loaded /\ pc[r] \in Inside /\ history' = history
      BY <1>1 DEF InterruptSave, FinalSave, FinallySave, Loaded, Inside,
                  Running, Cleaning
    <2>2. ctx' = ctx \/ ctx' = history[r] \cup {r}
      BY <1>1 DEF InterruptSave, FinalSave, FinallySave, WriteContext
    <2>3. QED
      BY <2>1, <2>2 DEF TurnInv, TurnOf
  <1>2. CASE ~(InterruptSave(r) \/ FinalSave(r) \/ FinallySave(r))
    BY <1>2 DEF StreamStep, Arrive, StartFresh, StartBehind, Proceed, Wake,
          TimeOut, LoadContext, CreateRows, Admit, Refuse, Loop, AgentBegins,
          InterruptSeen, StopSeen, Answer, DoneSeen, Leave, InterruptMark,
          StopMark, DoneMark, Cleanup, FinallyMark, Release, Kill,
          WriteFails, turnVars
  <1>3. QED
    BY <1>1, <1>2

\* Once a stream has ended its turn stays kept, and its agent's start too.
LEMMA EndedStays ==
    ASSUME TypeOK, RegInv, MarkInv, TurnInv, Undisturbed,
           NEW r \in Stream, StreamStep(r),
           NEW w \in Stream, pc[w] = "ended"
    PROVE  /\ w # r /\ pc'[w] = "ended"
           /\ Excused(w) => Excused(w)'
  <1>1. w # r
    BY DEF StreamStep, Arrive, StartFresh, StartBehind, Proceed, Wake,
          TimeOut, LoadContext, CreateRows, Admit, Refuse, Loop, AgentBegins,
          InterruptSeen, StopSeen, Answer, DoneSeen, ChunkArrives, Leave,
          InterruptSave, InterruptMark, StopMark, DoneMark, FinalSave,
          Cleanup, FinallySave, FinallyMark, Release, Kill, WriteFails,
          Preparing, Running
  <1>2. QED
    BY <1>1, Frame DEF Excused, NoFault

LEMMA TurnSelf ==
    ASSUME TypeOK, RegInv, MarkInv, TurnInv, Undisturbed,
           NEW r \in Stream, StreamStep(r)
    PROVE  TurnOf(r)'
  <1> USE DEF TypeOK, TurnOf, Settling, Loaded, Kept, Excused, Goto, Inside,
              Preparing, Running, Cleaning, regVars, turnVars
  <1>0. TurnOf(r) /\ MarkOf(r)
    BY DEF TurnInv, MarkInv
  <1>1. CASE Arrive(r) \/ Wake(r) \/ TimeOut(r)
    BY <1>0, <1>1 DEF Arrive, StartFresh, StartBehind, Enter, Wake, TimeOut
  <1>2. CASE LoadContext(r)   BY <1>0, <1>2 DEF LoadContext
  <1>3. CASE CreateRows(r)    BY <1>0, <1>3 DEF CreateRows
  <1>4. CASE Admit(r) \/ Refuse(r)
    BY <1>0, <1>4 DEF Admit, Refuse, MarkOf
  <1>5. CASE Loop(r)
    BY <1>0, <1>5 DEF Loop, AgentBegins, InterruptSeen, StopSeen, Answer,
                      DoneSeen, ChunkArrives
  <1>6. CASE InterruptSave(r)
    BY <1>0, <1>6 DEF InterruptSave, WriteContext
  <1>7. CASE InterruptMark(r) BY <1>0, <1>7 DEF InterruptMark, LeaveTry
  <1>8. CASE StopMark(r)      BY <1>0, <1>8 DEF StopMark, LeaveTry
  <1>9. CASE DoneMark(r)      BY <1>0, <1>9 DEF DoneMark
  <1>10. CASE FinalSave(r)
    BY <1>0, <1>10 DEF FinalSave, LeaveTry, WriteContext
  <1>11. CASE FinallySave(r)
    BY <1>0, <1>11 DEF FinallySave, AfterFallback, WriteContext
  <1>12. CASE FinallyMark(r)  BY <1>0, <1>12 DEF FinallyMark
  <1>13. CASE Release(r)      BY <1>0, <1>13 DEF Release
  <1>14. CASE Kill(r)
    BY <1>0, <1>14 DEF Kill, Fail, LeaveTry, MarkOf, NoFault
  <1>15. CASE WriteFails(r)
    BY <1>0, <1>15 DEF WriteFails, Fail, AfterFallback, NoFault
  <1>16. QED
    BY <1>1, <1>2, <1>3, <1>4, <1>5, <1>6, <1>7, <1>8, <1>9, <1>10, <1>11,
       <1>12, <1>13, <1>14, <1>15
    DEF StreamStep, Proceed, Leave, Cleanup

LEMMA BehindSelf ==
    ASSUME TypeOK, RegInv, MarkInv, TurnInv, Undisturbed,
           NEW r \in Stream, StreamStep(r), waitsOn'[r] # None
    PROVE  Behind(r)'
  <1> USE DEF TypeOK, Behind, Goto, Inside, Preparing, Running, Cleaning,
              regVars, turnVars
  <1>1. CASE StartBehind(r)
    <2>1. /\ waitsOn'[r] = registered /\ registered \in Stream
          /\ pc[registered] \in Inside /\ pc[r] = "idle"
      BY <1>1 DEF StartBehind, RegInv, RegistryLive
    <2>2. ~began'[r]
      BY <1>1, <2>1 DEF StartBehind, MarkInv, MarkOf
    <2>3. QED
      BY <1>1, <2>1, <2>2 DEF StartBehind
  <1>2. CASE ~StartBehind(r)
    <2>1. waitsOn'[r] = waitsOn[r]
      BY <1>2
      DEF StreamStep, Arrive, StartFresh, Enter, Proceed, Wake,
          TimeOut, LoadContext, CreateRows, Admit, Refuse, Loop, AgentBegins,
          InterruptSeen, StopSeen, Answer, DoneSeen, Leave, InterruptSave,
          InterruptMark, StopMark, DoneMark, FinalSave, Cleanup, FinallySave,
          FinallyMark, Release, Kill, WriteFails
    <2>0. waitsOn[r] \in Stream /\ Behind(r)
      BY <2>1 DEF TurnInv
    <2> PICK w \in Stream : w = waitsOn[r]
      BY <2>0
    <2>2. w # r /\ pc[w] \in Inside \cup {"ended"} /\ Behind(r)
      BY <2>0
    <2>3. pc'[w] = pc[w] /\ (Excused(w) => Excused(w)')
      BY <2>2, Frame DEF Excused, NoFault
    <2>4. CASE LoadContext(r)
      <3>1. registered = r
        BY <2>4 DEF LoadContext, Undisturbed, RegInv, QuietInv
      <3>2. pc[w] = "ended"
        BY <2>2, <3>1 DEF Undisturbed, RegInv, QuietInv
      <3>3. Kept(w) /\ history'[r] = ctx
        BY <2>2, <2>4, <3>2 DEF LoadContext, TurnInv, TurnOf, Settling
      <3>4. QED
        BY <2>1, <2>2, <2>3, <3>2, <3>3 DEF Kept
    <2>5. CASE ~LoadContext(r)
      <3>1. history'[r] = history[r]
        BY <2>5, <1>2
        DEF StreamStep, Arrive, StartFresh, Enter, Proceed, Wake,
          TimeOut, CreateRows, Admit, Refuse, Loop, AgentBegins,
          InterruptSeen, StopSeen, Answer, DoneSeen, Leave, InterruptSave,
          InterruptMark, StopMark, DoneMark, FinalSave, Cleanup, FinallySave,
          FinallyMark, Release, Kill, WriteFails
      <3>2. began'[r] \/ pc'[r] \in {"loaded", "hooks", "looping"}
              => began[r] \/ pc[r] \in {"loaded", "hooks", "looping"}
        BY <2>5, <1>2
        DEF StreamStep, Arrive, StartFresh, Enter, Proceed, Wake,
          TimeOut, CreateRows, Admit, Refuse, Loop, AgentBegins,
          InterruptSeen, StopSeen, Answer, DoneSeen, ChunkArrives, Leave,
          InterruptSave, InterruptMark, StopMark, DoneMark, FinalSave,
          Cleanup, FinallySave, AfterFallback, FinallyMark, Release, Kill,
          LeaveTry, WriteFails
      <3>3. QED
        BY <2>1, <2>2, <2>3, <3>1, <3>2
    <2>6. QED
      BY <2>4, <2>5
  <1>3. QED
    BY <1>1, <1>2

LEMMA TurnStep == TypeOK /\ RegInv /\ MarkInv /\ TurnInv /\ [Next]_vars
                    => TurnInv'
  <1> SUFFICES ASSUME TypeOK, RegInv, MarkInv, TurnInv, [Next]_vars,
                      Undisturbed'
               PROVE  \A a \in Stream :
                        TurnOf(a)' /\ (waitsOn'[a] # None => Behind(a)')
    BY DEF TurnInv
  <1>1. ASSUME NEW r \in Stream, StreamStep(r), NEW a \in Stream
        PROVE  TurnOf(a)' /\ (waitsOn'[a] # None => Behind(a)')
    <2>1. Undisturbed
      <3>1. \A p \in Plain : pc'[p] = pc[p]
        BY <1>1, Frame
      <3>2. Quiet' => Quiet
        BY <1>1 DEF StreamStep, Arrive, StartFresh, StartBehind, Proceed, Wake,
          TimeOut, LoadContext, CreateRows, Admit, Refuse, Loop, AgentBegins,
          InterruptSeen, StopSeen, Answer, DoneSeen, Leave, InterruptSave,
          InterruptMark, StopMark, DoneMark, FinalSave, Cleanup, FinallySave,
          FinallyMark, Release, Kill, WriteFails, regVars, Quiet, TypeOK
      <3>3. QED
        BY <3>1, <3>2 DEF Undisturbed
    <2>2. CASE a = r
      BY <1>1, <2>1, <2>2, TurnSelf, BehindSelf
    <2>3. CASE a # r
      <3>1. /\ pc'[a] = pc[a] /\ history'[a] = history[a]
            /\ waitsOn'[a] = waitsOn[a] /\ began'[a] = began[a]
            /\ saved'[a] = saved[a]
            /\ Excused(a) => Excused(a)'
        BY <1>1, <2>3, Frame DEF Excused, NoFault
      <3>2. TurnOf(a)'
        <4>1. TurnOf(a) /\ ctx \subseteq ctx'
          BY <1>1, <2>1, ContextGrows DEF TurnInv
        <4>2. CASE ctx' = ctx
          BY <3>1, <4>1, <4>2 DEF TurnOf, Kept
        <4>3. CASE ctx' # ctx
          <5>1. pc[r] \in Inside
            BY <1>1, <2>1, <4>3, ContextGrows
          <5>2. pc[a] \notin Loaded
            BY <2>1, <2>3, <5>1 DEF Undisturbed, RegInv, QuietInv, Inside,
                Loaded, Preparing, Running, Cleaning
          <5>3. QED
            BY <3>1, <4>1, <5>2 DEF TurnOf, Kept
        <4>4. QED
          BY <4>2, <4>3
      <3>3. ASSUME waitsOn[a] # None PROVE Behind(a)'
        <4>0. waitsOn[a] \in Stream /\ Behind(a)
          BY <2>1, <3>3 DEF TypeOK, TurnInv
        <4> PICK w \in Stream : w = waitsOn[a]
          BY <4>0
        <4>1. Behind(a)
          BY <4>0
        <4>2. pc'[w] \in Inside \cup {"ended"} /\ w # a
          <5>1. CASE w = r
            BY <1>1, <4>1, <5>1, InnerOrOuter
            DEF Behind, Inner, Outer, StartFresh, StartBehind, Wake, TimeOut,
                Release, Kill, Goto, TypeOK, Inside, Preparing, Running,
                Cleaning
          <5>2. CASE w # r
            BY <1>1, <4>1, <5>2, Frame DEF Behind
          <5>3. QED
            BY <5>1, <5>2
        <4>3. pc[w] = "ended"
                => pc'[w] = "ended" /\ (Excused(w) => Excused(w)')
          BY <1>1, <2>1, <4>1, EndedStays
        <4>4. QED
          BY <3>1, <4>1, <4>2, <4>3 DEF Behind
      <3>4. QED
        BY <3>1, <3>2, <3>3
    <2>4. QED
      BY <2>2, <2>3
  <1>2. CASE InterruptSession
    BY <1>2 DEF InterruptSession, turnVars, TurnInv, Undisturbed, Quiet,
                TurnOf, Behind, Kept, Excused
  <1>3. ASSUME NEW p \in Plain, PlainLoad(p) \/ PlainSave(p) PROVE FALSE
    BY <1>3 DEF PlainLoad, PlainSave, Goto, TypeOK, Undisturbed
  <1>4. CASE UNCHANGED vars
    BY <1>4 DEF vars, regVars, turnVars, TurnInv, Undisturbed, Quiet, TurnOf,
                Behind, Kept, Excused
  <1>5. QED
    BY <1>1, <1>2, <1>3, <1>4 DEF Next, AllServed

LEMMA TurnInit == Init => TurnInv
  BY DEF Init, TurnInv, TurnOf, Settling, Inside, Preparing, Running, Cleaning

THEOREM Turns == Spec => []TurnInv
  BY TurnInit, TurnStep, TypeCorrect, Registry, Marks, PTL DEF Spec

\* No turn of an undisturbed session is lost, whatever single failure hits
\* it, unless it hits the finally block's own write.
THEOREM NoTurnLost == Spec => []TurnsKept
  <1>1. TurnInv => TurnsKept
    BY DEF TurnInv, Undisturbed, TurnOf, Settling, Kept, TurnsKept
  <1>2. QED
    BY <1>1, Turns, PTL

\* A stream that waited for another begins with that stream's turn in its
\* history.
THEOREM SuccessorsSee == Spec => []SuccessorSeesPredecessor
  <1>1. TurnInv => SuccessorSeesPredecessor
    BY DEF TurnInv, Undisturbed, Behind, SuccessorSeesPredecessor
  <1>2. QED
    BY <1>1, Turns, PTL

=============================================================================
