---------------------------- MODULE ToolExecutor ----------------------------
(***************************************************************************)
(* AsyncExecutorProcessor: how a dispatched call is run.  In concurrent    *)
(* mode (execution_mode "interleaved") every call gets a task of its own;  *)
(* otherwise calls go through a queue that queue tasks (_process_queue)    *)
(* serve.  A queue task is named after the call whose dispatch created it. *)
(***************************************************************************)
EXTENDS Naturals, Sequences, FiniteSets

CONSTANTS Tool,   \* identifiers of the tool calls
          None    \* no call

VARIABLES
    concurrent,  \* _enable_concurrent, fixed when the pipeline is built
    called,      \* calls dispatched to the executor
    ended,       \* calls whose FunctionCallEndFrame has been pushed
    attempt,     \* how often the handler of a call has been started
    queue,       \* _task_queue
    executing,   \* _is_executing
    worker,      \* the queue tasks
    job,         \* the call whose task a queue task awaits
    hasty        \* history: a dispatch came before a new queue task had begun

queueVars == <<queue, executing, worker, job, hasty>>
vars == <<concurrent, called, ended, attempt, queueVars>>

-----------------------------------------------------------------------------
Begin(t) == attempt' = [attempt EXCEPT ![t] = 1]

IsRunning(t) == attempt[t] > 0 /\ t \notin ended

Alive(w) == worker[w] \in {"created", "idle", "busy"}

Dispatch(t) == t \notin called /\ called' = called \cup {t}

\* Mutant of DispatchUnknown: the error frame is forgotten.
DispatchUnknownSilently(t) ==
    /\ Dispatch(t)
    /\ UNCHANGED <<concurrent, ended, attempt, queueVars>>

\* No handler is registered for the function.
DispatchUnknown(t) ==
    /\ Dispatch(t)
    /\ ended' = ended \cup {t}
    /\ UNCHANGED <<concurrent, attempt, queueVars>>

DispatchConcurrent(t) ==
    /\ concurrent
    /\ Dispatch(t)
    /\ Begin(t)
    /\ UNCHANGED <<concurrent, ended, queueVars>>

\* A queue task is created unless one is executing; the flag is only set when
\* the new task first runs.
Enqueue(t) ==
    /\ ~concurrent
    /\ Dispatch(t)
    /\ queue' = Append(queue, t)
    /\ worker' = IF executing THEN worker ELSE [worker EXCEPT ![t] = "created"]
    /\ hasty' = (hasty \/ \E w \in Tool : worker[w] = "created")
    /\ UNCHANGED <<concurrent, ended, attempt, executing, job>>

-----------------------------------------------------------------------------
(* _process_queue.                                                         *)

WorkerBegins(w) ==
    /\ worker[w] = "created"
    /\ worker' = [worker EXCEPT ![w] = "idle"]
    /\ executing' = TRUE
    /\ UNCHANGED <<concurrent, called, ended, attempt, queue, job, hasty>>

\* Mutant of WorkerTakes: the task of the call is not awaited.
WorkerTakesUnawaited(w) ==
    /\ worker[w] = "idle"
    /\ queue # <<>>
    /\ queue' = Tail(queue)
    /\ Begin(Head(queue))
    /\ UNCHANGED <<concurrent, called, ended, executing, worker, job, hasty>>

WorkerTakes(w) ==
    /\ worker[w] = "idle"
    /\ queue # <<>>
    /\ queue' = Tail(queue)
    /\ worker' = [worker EXCEPT ![w] = "busy"]
    /\ job' = [job EXCEPT ![w] = Head(queue)]
    /\ Begin(Head(queue))
    /\ UNCHANGED <<concurrent, called, ended, executing, hasty>>

WorkerGoesOn(w) ==
    /\ worker[w] = "busy"
    /\ job[w] \in ended
    /\ worker' = [worker EXCEPT ![w] = "idle"]
    /\ job' = [job EXCEPT ![w] = None]
    /\ UNCHANGED <<concurrent, called, ended, attempt, queue, executing, hasty>>

\* Half a second has passed and the queue is empty.
WorkerLeaves(w) ==
    /\ worker[w] = "idle"
    /\ queue = <<>>
    /\ worker' = [worker EXCEPT ![w] = "gone"]
    /\ executing' = FALSE
    /\ UNCHANGED <<concurrent, called, ended, attempt, queue, job, hasty>>

-----------------------------------------------------------------------------
(* _execute_async.                                                         *)

\* An empty result is retried once.
Retry(t) ==
    /\ IsRunning(t)
    /\ attempt[t] = 1
    /\ attempt' = [attempt EXCEPT ![t] = 2]
    /\ UNCHANGED <<concurrent, called, ended, queueVars>>

\* Success, error or time-out of the current attempt.
EndCall(t) ==
    /\ IsRunning(t)
    /\ ended' = ended \cup {t}
    /\ UNCHANGED <<concurrent, called, attempt, queueVars>>

-----------------------------------------------------------------------------
Init ==
    /\ concurrent \in BOOLEAN
    /\ called = {}
    /\ ended = {}
    /\ attempt = [t \in Tool |-> 0]
    /\ queue = <<>>
    /\ executing = FALSE
    /\ worker = [t \in Tool |-> "none"]
    /\ job = [t \in Tool |-> None]
    /\ hasty = FALSE

WorkerStep(w) ==
    WorkerBegins(w) \/ WorkerTakes(w) \/ WorkerGoesOn(w) \/ WorkerLeaves(w)

\* All calls have been made, no call runs and the queue tasks are gone.  (That
\* every call has ended then is for ImplementsToolCalls to say.)
Over ==
    /\ called = Tool
    /\ \A t \in Tool : ~IsRunning(t) /\ ~Alive(t)
    /\ UNCHANGED vars

Next ==
    \/ \E t \in Tool :
          \/ DispatchUnknown(t) \/ DispatchConcurrent(t) \/ Enqueue(t)
          \/ WorkerStep(t)
          \/ Retry(t) \/ EndCall(t)
    \/ Over

\* The loop runs ready tasks and timers; wait_for ends every attempt.
Fairness == \A t \in Tool : WF_vars(WorkerStep(t)) /\ WF_vars(EndCall(t))

Spec == Init /\ [][Next]_vars /\ Fairness

-----------------------------------------------------------------------------
(* Properties.                                                             *)

\* Every variable has its type.
TypeOK ==
    /\ concurrent \in BOOLEAN
    /\ called \subseteq Tool
    /\ ended \subseteq Tool
    /\ attempt \in [Tool -> 0 .. 2]
    /\ queue \in Seq(Tool)
    /\ executing \in BOOLEAN
    /\ worker \in [Tool -> {"none", "created", "idle", "busy", "gone"}]
    /\ job \in [Tool -> Tool \cup {None}]
    /\ hasty \in BOOLEAN

\* As long as no call is dispatched between the creation of a queue task and
\* its first step, sequential mode runs one call at a time.
OneAtATimeUnlessHasty ==
    ~concurrent /\ ~hasty
        => \A s, t \in Tool : IsRunning(s) /\ IsRunning(t) => s = t

\* The executor gives what the processor counts on: one end frame per call,
\* and always one.
Calls == INSTANCE ToolCalls
ImplementsToolCalls == Calls!Spec

\* async_executor.py:165 says "Processes one task at a time from the queue".
\* Two calls of one chunk are dispatched before the first queue task runs.
OneAtATime ==
    ~concurrent => \A s, t \in Tool : IsRunning(s) /\ IsRunning(t) => s = t
=============================================================================
