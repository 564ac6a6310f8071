---------------------------- MODULE IoWorkerPool ----------------------------
(***************************************************************************)
(* gateway/src/runtime/io_worker_pool: a FIFO queue and a fixed number of  *)
(* worker threads.  Submit reads running_ without the mutex, then queues   *)
(* the task under it and notifies outside it; Stop clears running_ and     *)
(* notifies without ever taking the mutex; a worker drains the queue       *)
(* before it leaves.                                                       *)
(*                                                                         *)
(* A worker in position "asleep_next" has found nothing to do and holds the*)
(* mutex until cv_.wait puts it to sleep.                                  *)
(***************************************************************************)
EXTENDS Naturals, Sequences, FiniteSets

CONSTANTS
    Workers,    \* the threads
    Tasks,      \* the requests that are submitted
    None

ASSUME WorkerAssumption == Workers # {} /\ None \notin Workers /\ None \notin Tasks

VARIABLES
    running,    \* running_
    queue,      \* queue_
    worker,     \* WorkerLoop: position and task of every worker
    submit,     \* Submit: position of the thread that submits a task
    missed      \* history: a worker fell asleep after Stop had notified

poolVars == <<running, queue, worker, submit, missed>>

Worker == [pos : {"check", "asleep_next", "asleep", "run", "left"},
           task : Tasks \cup {None}]

Submit == {"idle", "check", "push", "notify_all", "notify_one", "inline", "done"}

WorkersInit ==
    /\ running = TRUE
    /\ queue = <<>>
    /\ worker = [w \in Workers |-> [pos |-> "check", task |-> None]]
    /\ submit = [t \in Tasks |-> "idle"]
    /\ missed = FALSE

\* mu_ is held by a worker between its test and cv_.wait.
MutexFree == \A w \in Workers : worker[w].pos # "asleep_next"

Asleep == {w \in Workers : worker[w].pos = "asleep"}

Wake(ws) == [w \in Workers |-> IF w \in ws THEN [worker[w] EXCEPT !.pos = "check"]
                                           ELSE worker[w]]

-----------------------------------------------------------------------------
\* Submit: a stopped pool runs the task in the caller's thread.
SubmitCheck(t) ==
    /\ submit[t] = "check"
    /\ submit' = [submit EXCEPT ![t] = IF running THEN "push" ELSE "inline"]
    /\ UNCHANGED <<running, queue, worker, missed>>

SubmitPush(t) ==
    /\ submit[t] = "push"
    /\ MutexFree
    /\ queue' = Append(queue, t)
    /\ submit' = [submit EXCEPT ![t] = IF queue = <<>> THEN "notify_all" ELSE "notify_one"]
    /\ UNCHANGED <<running, worker, missed>>

\* Faulty: a task is announced only when others wait already.
SubmitNotifyLater(t) ==
    /\ submit[t] \in {"notify_all", "notify_one"}
    /\ IF submit[t] = "notify_one" THEN worker' = Wake(Asleep) ELSE UNCHANGED worker
    /\ submit' = [submit EXCEPT ![t] = "done"]
    /\ UNCHANGED <<running, queue, missed>>

\* notify_all for the first task of an empty queue, notify_one otherwise.
SubmitNotify(t) ==
    /\ submit[t] \in {"notify_all", "notify_one"}
    /\ IF submit[t] = "notify_all" \/ Asleep = {}
         THEN worker' = Wake(Asleep)
         ELSE \E w \in Asleep : worker' = Wake({w})
    /\ submit' = [submit EXCEPT ![t] = "done"]
    /\ UNCHANGED <<running, queue, missed>>

-----------------------------------------------------------------------------
\* WorkerLoop, under the mutex: take a task, leave, or get ready to sleep.
WorkerCheck(w) ==
    /\ worker[w].pos = "check"
    /\ MutexFree
    /\ worker' = [worker EXCEPT ![w] =
           IF queue # <<>> THEN [pos |-> "run", task |-> Head(queue)]
           ELSE [pos |-> IF running THEN "asleep_next" ELSE "left", task |-> None]]
    /\ queue' = IF queue # <<>> THEN Tail(queue) ELSE queue
    /\ UNCHANGED <<running, submit, missed>>

\* cv_.wait releases the mutex and sleeps, whatever happened to running_.
WorkerSleep(w) ==
    /\ worker[w].pos = "asleep_next"
    /\ worker' = [worker EXCEPT ![w].pos = "asleep"]
    /\ UNCHANGED <<running, queue, submit, missed>>

\* A condition variable may wake up for no reason.
WorkerSpurious(w) ==
    /\ worker[w].pos = "asleep"
    /\ worker' = Wake({w})
    /\ UNCHANGED <<running, queue, submit, missed>>

\* The task has returned.
WorkerDone(w) == worker' = [worker EXCEPT ![w] = [pos |-> "check", task |-> None]]

-----------------------------------------------------------------------------
\* Stop: running_ is cleared ...
StopFlag ==
    /\ running' = FALSE
    /\ UNCHANGED <<queue, worker, submit, missed>>

\* Faulty: only one of the workers is woken.
StopNotifyOne ==
    /\ worker' = IF Asleep = {} THEN worker ELSE Wake({CHOOSE w \in Asleep : TRUE})
    /\ missed' = ~MutexFree
    /\ UNCHANGED <<running, queue, submit>>

\* ... and the workers that are asleep are woken; one that is about to fall
\* asleep does not hear of it.
StopNotify ==
    /\ worker' = Wake(Asleep)
    /\ missed' = ~MutexFree
    /\ UNCHANGED <<running, queue, submit>>

\* join
WorkersLeft == \A w \in Workers : worker[w].pos = "left"
=============================================================================
