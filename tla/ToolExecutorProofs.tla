------------------------- MODULE ToolExecutorProofs -------------------------
(***************************************************************************)
(* What ToolExecutor guarantees for every set of calls: types, one call at *)
(* a time in sequential mode unless a dispatch was hasty, one end frame    *)
(* per call, and no call that starts anew once it has begun.               *)
(*                                                                         *)
(* Sequential mode is safe as long as one queue task lives: what runs is   *)
(* the job it awaits (Alone).  That a second is created only while none is *)
(* executing and none waits for its first step is what hasty excludes.     *)
(***************************************************************************)
EXTENDS ToolExecutor, SequenceTheorems, TLAPS

-----------------------------------------------------------------------------
(* Type correctness.                                                       *)

LEMMA ExecutorTypeInit == Init => TypeOK
  <1> SUFFICES ASSUME Init PROVE TypeOK
    OBVIOUS
  <1>1. concurrent \in BOOLEAN /\ executing \in BOOLEAN /\ hasty \in BOOLEAN
    BY Zenon DEF Init
  <1>2. called \subseteq Tool /\ ended \subseteq Tool /\ queue \in Seq(Tool)
    BY DEF Init
  <1>3. /\ attempt \in [Tool -> 0 .. 2]
        /\ worker \in [Tool -> {"none", "created", "idle", "busy", "gone"}]
        /\ job \in [Tool -> Tool \cup {None}]
    BY DEF Init
  <1>4. QED
    BY <1>1, <1>2, <1>3 DEF TypeOK

LEMMA ExecutorTypeStep == TypeOK /\ [Next]_vars => TypeOK'
  <1> SUFFICES ASSUME TypeOK, [Next]_vars PROVE TypeOK'
    OBVIOUS
  <1> USE DEF TypeOK, queueVars, Dispatch, Begin
  <1>1. ASSUME NEW t \in Tool, DispatchUnknown(t) PROVE TypeOK'
    BY <1>1 DEF DispatchUnknown
  <1>2. ASSUME NEW t \in Tool, DispatchConcurrent(t) PROVE TypeOK'
    BY <1>2 DEF DispatchConcurrent
  <1>3. ASSUME NEW t \in Tool, Enqueue(t) PROVE TypeOK'
    BY <1>3, AppendProperties DEF Enqueue
  <1>4. ASSUME NEW w \in Tool, WorkerBegins(w) PROVE TypeOK'
    BY <1>4 DEF WorkerBegins
  <1>5. ASSUME NEW w \in Tool, WorkerTakes(w) PROVE TypeOK'
    <2>1. Head(queue) \in Tool /\ Tail(queue) \in Seq(Tool)
      BY <1>5, HeadTailProperties DEF WorkerTakes
    <2>2. QED
      BY <1>5, <2>1 DEF WorkerTakes
  <1>6. ASSUME NEW w \in Tool, WorkerGoesOn(w) PROVE TypeOK'
    BY <1>6 DEF WorkerGoesOn
  <1>7. ASSUME NEW w \in Tool, WorkerLeaves(w) PROVE TypeOK'
    BY <1>7 DEF WorkerLeaves
  <1>8. ASSUME NEW t \in Tool, Retry(t) PROVE TypeOK'
    BY <1>8 DEF Retry
  <1>9. ASSUME NEW t \in Tool, EndCall(t) PROVE TypeOK'
    BY <1>9 DEF EndCall
  <1>10. CASE UNCHANGED vars
    BY <1>10 DEF vars
  <1>11. QED
    BY <1>1, <1>2, <1>3, <1>4, <1>5, <1>6, <1>7, <1>8, <1>9, <1>10
       DEF Next, WorkerStep, Over

\* Every variable has its type.
THEOREM ExecutorTypeCorrect == Spec => []TypeOK
  BY ExecutorTypeInit, ExecutorTypeStep, PTL DEF Spec

-----------------------------------------------------------------------------
(* One call at a time.                                                     *)

\* At most one queue task lives, the flag is set while it works, and a call
\* that runs is the one it awaits.
Single  == \A v, w \in Tool : Alive(v) /\ Alive(w) => v = w
Flagged == \A w \in Tool : worker[w] \in {"idle", "busy"} => executing
Awaited == \A t \in Tool :
              IsRunning(t) => \E w \in Tool : worker[w] = "busy" /\ job[w] = t

Alone == ~concurrent /\ ~hasty => Single /\ Flagged /\ Awaited

LEMMA AloneInit == Init => Alone
  BY DEF Init, Alone, Single, Flagged, Awaited, Alive, IsRunning

LEMMA AloneStep == TypeOK /\ Alone /\ [Next]_vars => Alone'
  <1> SUFFICES ASSUME TypeOK, Alone, [Next]_vars, ~concurrent', ~hasty'
               PROVE  Single' /\ Flagged' /\ Awaited'
    BY DEF Alone
  <1> USE DEF TypeOK, queueVars, Dispatch, Begin, Alive, IsRunning
  <1>1. ~concurrent /\ ~hasty /\ Single /\ Flagged /\ Awaited
    BY DEF Alone, Next, vars, WorkerStep, Over, DispatchUnknown, DispatchConcurrent,
           Enqueue, WorkerBegins, WorkerTakes, WorkerGoesOn, WorkerLeaves, Retry, EndCall
  <1>2. ASSUME NEW t \in Tool, DispatchUnknown(t) PROVE Single' /\ Flagged' /\ Awaited'
    BY <1>1, <1>2 DEF DispatchUnknown, Single, Flagged, Awaited
  <1>3. ASSUME NEW t \in Tool, Enqueue(t) PROVE Single' /\ Flagged' /\ Awaited'
    <2>1. CASE executing
      BY <1>1, <1>3, <2>1 DEF Enqueue, Single, Flagged, Awaited
    <2>2. CASE ~executing
      <3>1. \A w \in Tool : ~Alive(w)
        BY <1>1, <1>3, <2>2 DEF Enqueue, Flagged
      <3>2. QED
        BY <1>1, <1>3, <2>2, <3>1 DEF Enqueue, Single, Flagged, Awaited
    <2>3. QED
      BY <2>1, <2>2
  <1>4. ASSUME NEW w \in Tool, WorkerBegins(w) PROVE Single' /\ Flagged' /\ Awaited'
    BY <1>1, <1>4 DEF WorkerBegins, Single, Flagged, Awaited
  <1>5. ASSUME NEW w \in Tool, WorkerTakes(w) PROVE Single' /\ Flagged' /\ Awaited'
    <2>1. Head(queue) \in Tool
      BY <1>5, HeadTailProperties DEF WorkerTakes
    <2>2. \A t \in Tool : ~IsRunning(t)
      BY <1>1, <1>5 DEF WorkerTakes, Single, Awaited
    <2>3. \A t \in Tool : IsRunning(t)' => t = Head(queue)
      BY <1>5, <2>1, <2>2 DEF WorkerTakes
    <2>4. worker'[w] = "busy" /\ job'[w] = Head(queue)
      BY <1>5, <2>1 DEF WorkerTakes
    <2>5. QED
      BY <1>1, <1>5, <2>3, <2>4 DEF WorkerTakes, Single, Flagged, Awaited
  <1>6. ASSUME NEW w \in Tool, WorkerGoesOn(w) PROVE Single' /\ Flagged' /\ Awaited'
    BY <1>1, <1>6 DEF WorkerGoesOn, Single, Flagged, Awaited
  <1>7. ASSUME NEW w \in Tool, WorkerLeaves(w) PROVE Single' /\ Flagged' /\ Awaited'
    BY <1>1, <1>7 DEF WorkerLeaves, Single, Flagged, Awaited
  <1>8. ASSUME NEW t \in Tool, Retry(t) PROVE Single' /\ Flagged' /\ Awaited'
    BY <1>1, <1>8 DEF Retry, Single, Flagged, Awaited
  <1>9. ASSUME NEW t \in Tool, EndCall(t) PROVE Single' /\ Flagged' /\ Awaited'
    BY <1>1, <1>9 DEF EndCall, Single, Flagged, Awaited
  <1>10. CASE UNCHANGED vars
    BY <1>1, <1>10 DEF vars, Single, Flagged, Awaited
  <1>11. QED
    BY <1>1, <1>2, <1>3, <1>4, <1>5, <1>6, <1>7, <1>8, <1>9, <1>10
       DEF Next, WorkerStep, Over, DispatchConcurrent

\* async_executor.py:165: sequential mode runs one call at a time, unless a call
\* is dispatched between the creation of a queue task and its first step.
THEOREM QueueRunsOneCall == Spec => []OneAtATimeUnlessHasty
  <1>1. Alone => OneAtATimeUnlessHasty
    BY DEF Alone, Single, Awaited, OneAtATimeUnlessHasty, Alive
  <1>2. QED
    BY <1>1, AloneInit, AloneStep, ExecutorTypeInit, ExecutorTypeStep, PTL DEF Spec

-----------------------------------------------------------------------------
(* Every call once.                                                        *)

\* A queued call waits for its first attempt, and is queued once; only what
\* was called runs or has ended.
Waiting ==
    /\ \A i \in 1 .. Len(queue) : queue[i] \in called \ ended /\ attempt[queue[i]] = 0
    /\ \A i, j \in 1 .. Len(queue) : queue[i] = queue[j] => i = j
    /\ \A t \in Tool : attempt[t] > 0 => t \in called
    /\ ended \subseteq called

LEMMA WaitingInit == Init => Waiting
  BY DEF Init, Waiting

LEMMA WaitingStep == TypeOK /\ Waiting /\ [Next]_vars => Waiting'
  <1> SUFFICES ASSUME TypeOK, Waiting, [Next]_vars PROVE Waiting'
    OBVIOUS
  <1> USE DEF TypeOK, Waiting, queueVars, Dispatch, Begin, IsRunning
  <1>1. \A i \in 1 .. Len(queue) : queue[i] \in Tool
    OBVIOUS
  <1>2. ASSUME NEW t \in Tool, DispatchUnknown(t) PROVE Waiting'
    BY <1>2 DEF DispatchUnknown
  <1>3. ASSUME NEW t \in Tool, DispatchConcurrent(t) PROVE Waiting'
    BY <1>1, <1>3 DEF DispatchConcurrent
  <1>4. ASSUME NEW t \in Tool, Enqueue(t) PROVE Waiting'
    <2>1. /\ Len(queue') = Len(queue) + 1 /\ queue'[Len(queue) + 1] = t
          /\ \A i \in 1 .. Len(queue) : queue'[i] = queue[i]
      BY <1>4, AppendProperties DEF Enqueue
    <2>2. attempt[t] = 0 /\ \A i \in 1 .. Len(queue) : queue[i] # t
      BY <1>4 DEF Enqueue
    <2>3. QED
      BY <1>4, <2>1, <2>2 DEF Enqueue
  <1>5. ASSUME NEW w \in Tool, WorkerTakes(w) PROVE Waiting'
    <2>1. /\ Len(queue') = Len(queue) - 1 /\ Len(queue) \in Nat \ {0}
          /\ \A i \in 1 .. Len(queue') : queue'[i] = queue[i + 1]
          /\ Head(queue) = queue[1]
      BY <1>5, HeadTailProperties DEF WorkerTakes
    <2>2. \A i \in 1 .. Len(queue') : queue'[i] # Head(queue)
      BY <2>1
    <2>3. \A i \in 1 .. Len(queue') : attempt'[queue'[i]] = 0 /\ queue'[i] \in called' \ ended'
      BY <1>1, <1>5, <2>1, <2>2 DEF WorkerTakes
    <2>4. \A i, j \in 1 .. Len(queue') : queue'[i] = queue'[j] => i = j
      BY <2>1
    <2>5. QED
      BY <1>5, <2>1, <2>3, <2>4 DEF WorkerTakes
  <1>6. ASSUME NEW w \in Tool, WorkerBegins(w) \/ WorkerGoesOn(w) \/ WorkerLeaves(w)
        PROVE  Waiting'
    BY <1>6 DEF WorkerBegins, WorkerGoesOn, WorkerLeaves
  <1>7. ASSUME NEW t \in Tool, Retry(t) PROVE Waiting'
    BY <1>1, <1>7 DEF Retry
  <1>8. ASSUME NEW t \in Tool, EndCall(t) PROVE Waiting'
    BY <1>8 DEF EndCall
  <1>9. CASE UNCHANGED vars
    BY <1>9 DEF vars
  <1>10. QED
    BY <1>2, <1>3, <1>4, <1>5, <1>6, <1>7, <1>8, <1>9 DEF Next, WorkerStep, Over

\* async_executor.py: a call that has begun never begins anew, and begins only
\* before its end frame, whichever queue task takes it and whenever.
NoCallBeginsTwice ==
    [][\A t \in Tool : attempt'[t] # attempt[t] =>
          t \notin ended /\ attempt'[t] = attempt[t] + 1]_vars

\* No queue task executes a call that another has begun or brought to its end.
THEOREM CallsBeginOnce == Spec => NoCallBeginsTwice
  <1>1. ASSUME TypeOK, Waiting, [Next]_vars, NEW t \in Tool, attempt'[t] # attempt[t]
        PROVE  t \notin ended /\ attempt'[t] = attempt[t] + 1
    <2> USE <1>1 DEF TypeOK, Waiting, queueVars, Dispatch, Begin, IsRunning
    <2>1. ASSUME NEW u \in Tool, DispatchConcurrent(u)
          PROVE  t \notin ended /\ attempt'[t] = attempt[t] + 1
      BY <2>1 DEF DispatchConcurrent
    <2>2. ASSUME NEW w \in Tool, WorkerTakes(w)
          PROVE  t \notin ended /\ attempt'[t] = attempt[t] + 1
      <3>1. Head(queue) = queue[1] /\ 1 \in 1 .. Len(queue)
        BY <2>2 DEF WorkerTakes
      <3>2. t = queue[1]
        BY <2>2, <3>1 DEF WorkerTakes
      <3>3. QED
        BY <2>2, <3>1, <3>2 DEF WorkerTakes
    <2>3. ASSUME NEW u \in Tool, Retry(u)
          PROVE  t \notin ended /\ attempt'[t] = attempt[t] + 1
      BY <2>3 DEF Retry
    <2>4. QED
      BY <2>1, <2>2, <2>3
         DEF Next, vars, WorkerStep, Over, DispatchUnknown, Enqueue, WorkerBegins,
             WorkerGoesOn, WorkerLeaves, EndCall
  <1>2. TypeOK /\ Waiting /\ [Next]_vars =>
          [\A t \in Tool : attempt'[t] # attempt[t] =>
              t \notin ended /\ attempt'[t] = attempt[t] + 1]_vars
    BY <1>1
  <1>3. QED
    BY <1>2, WaitingInit, WaitingStep, ExecutorTypeInit, ExecutorTypeStep, PTL
       DEF Spec, NoCallBeginsTwice

\* The safety part of ImplementsToolCalls (ToolCalls with called and ended as
\* they are here): one end frame per dispatched call, and none without.
THEOREM ExecutorKeepsPromise == Spec => Calls!Init /\ [][Calls!Next]_(Calls!vars)
  <1>1. Init => Calls!Init
    BY DEF Init, Calls!Init
  <1>2. TypeOK /\ Waiting /\ [Next]_vars => [Calls!Next]_(Calls!vars)
    <2> SUFFICES ASSUME TypeOK, Waiting, [Next]_vars PROVE [Calls!Next]_(Calls!vars)
      OBVIOUS
    <2> USE DEF Calls!Next, Calls!vars, queueVars, Dispatch
    <2>1. ASSUME NEW t \in Tool, DispatchUnknown(t) PROVE Calls!CallAndEnd(t)
      BY <2>1 DEF DispatchUnknown, Calls!CallAndEnd
    <2>2. ASSUME NEW t \in Tool, DispatchConcurrent(t) \/ Enqueue(t) PROVE Calls!Call(t)
      BY <2>2 DEF DispatchConcurrent, Enqueue, Calls!Call
    <2>3. ASSUME NEW t \in Tool, EndCall(t) PROVE Calls!End(t)
      BY <2>3 DEF EndCall, Calls!End, IsRunning, Waiting
    <2>4. ASSUME NEW t \in Tool, WorkerStep(t) \/ Retry(t) PROVE UNCHANGED Calls!vars
      BY <2>4 DEF WorkerStep, WorkerBegins, WorkerTakes, WorkerGoesOn, WorkerLeaves, Retry
    <2>5. QED
      BY <2>1, <2>2, <2>3, <2>4 DEF Next, vars, Over
  <1>3. QED
    BY <1>1, <1>2, WaitingInit, WaitingStep, ExecutorTypeInit, ExecutorTypeStep, PTL DEF Spec
=============================================================================
