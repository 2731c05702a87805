------------------------------ MODULE ThreadPool ------------------------------
(***************************************************************************)
(* Rsyn's thread pool (rsyn/util/ThreadPool.h): workers that take tasks    *)
(* from a queue, clients that add tasks and wait for them, and the         *)
(* destructor that stops the workers.                                      *)
(*                                                                         *)
(* A block under queue_mutex is one step unless another thread can tell    *)
(* its parts apart.  That is so in wait(): its predicate reads "running",  *)
(* which workers change without the mutex, so the check of the predicate   *)
(* and the blocking on the condition variable are two steps, with the      *)
(* mutex held in between.  The predicate of the workers reads only what    *)
(* the mutex protects.                                                     *)
(***************************************************************************)
EXTENDS Integers, Sequences, FiniteSets

CONSTANTS
  Workers,
  Clients,       \* the threads that call the public functions
  Owner,         \* the client that destroys the pool
  Tasks,
  NoTask,
  NoClient,
  MaxSpurious    \* bound: spurious wakeups of condition variables

ASSUME WorkersAssumption == Workers # {} /\ IsFiniteSet(Workers)
ASSUME ClientsAssumption == Owner \in Clients /\ NoClient \notin Clients
ASSUME TasksAssumption == NoTask \notin Tasks
ASSUME BoundAssumption == MaxSpurious \in Nat

VARIABLES
  mutex,     \* the client that keeps queue_mutex between two steps
  tasks,     \* the queue
  stop,
  running,
  worker,    \* worker[w]: where worker w is in its loop
  task,      \* task[w]: its local variable "task"
  client,    \* client[c]: the call that client c is in, and where
  added,     \* added[c]: the tasks that c has added
  runs,      \* runs[t]: how often task t has been executed
  spurious   \* spurious wakeups so far

vars == <<mutex, tasks, stop, running, worker, task, client, added, runs, spurious>>

WorkerPlaces ==
  {"idle",       \* before the mutual exclusion block
   "asleep",     \* blocked on "condition"
   "popped",     \* after the block
   "running",    \* after running++
   "executed",   \* after task()
   "finished",   \* after running--
   "exited"}

ClientPlaces ==
  {"ready",      \* in no call
   "notifying",  \* in addTask, before notify_one
   "inWait",     \* in wait, before the predicate is evaluated
   "checked",    \* in wait, the predicate was false
   "blocked",    \* in wait, blocked on "condition_wait_task"
   "stopping",   \* in stopWorkers, before notify_all
   "joining",    \* in stopWorkers, joining the workers
   "gone"}       \* the pool does not exist any more

Accepted == UNION {added[c] : c \in Clients}

-----------------------------------------------------------------------------

\* Slip in Init: "running" is not initialised.
InitUnset ==
  /\ mutex = NoClient
  /\ tasks = <<>>
  /\ stop = FALSE
  /\ running = NoTask
  /\ worker = [w \in Workers |-> "idle"]
  /\ task = [w \in Workers |-> NoTask]
  /\ client = [c \in Clients |-> "ready"]
  /\ added = [c \in Clients |-> {}]
  /\ runs = [t \in Tasks |-> 0]
  /\ spurious = 0

Init ==
  /\ mutex = NoClient
  /\ tasks = <<>>
  /\ stop = FALSE
  /\ running = 0
  /\ worker = [w \in Workers |-> "idle"]
  /\ task = [w \in Workers |-> NoTask]
  /\ client = [c \in Clients |-> "ready"]
  /\ added = [c \in Clients |-> {}]
  /\ runs = [t \in Tasks |-> 0]
  /\ spurious = 0

WorkerGoes(w, from, to) ==
  /\ worker[w] = from
  /\ worker' = [worker EXCEPT ![w] = to]

ClientGoes(c, from, to) ==
  /\ client[c] = from
  /\ client' = [client EXCEPT ![c] = to]

-----------------------------------------------------------------------------
\* The loop of a worker.

\* Slip in Sleep: the worker waits without looking at the queue.
SleepBlindly(w) ==
  /\ mutex = NoClient
  /\ ~stop
  /\ WorkerGoes(w, "idle", "asleep")
  /\ UNCHANGED <<mutex, tasks, stop, running, task, client, added, runs, spurious>>

\* condition.wait with a false predicate.
Sleep(w) ==
  /\ mutex = NoClient
  /\ ~stop /\ tasks = <<>>
  /\ WorkerGoes(w, "idle", "asleep")
  /\ UNCHANGED <<mutex, tasks, stop, running, task, client, added, runs, spurious>>

\* Slip in Exit: the worker leaves tasks behind.
ExitAtOnce(w) ==
  /\ mutex = NoClient
  /\ stop
  /\ WorkerGoes(w, "idle", "exited")
  /\ UNCHANGED <<mutex, tasks, stop, running, task, client, added, runs, spurious>>

Exit(w) ==
  /\ mutex = NoClient
  /\ stop /\ tasks = <<>>
  /\ WorkerGoes(w, "idle", "exited")
  /\ UNCHANGED <<mutex, tasks, stop, running, task, client, added, runs, spurious>>

\* Slips in Pop: the front is read and not popped; the back is read.
PopNothing(w) ==
  /\ mutex = NoClient
  /\ tasks # <<>>
  /\ WorkerGoes(w, "idle", "popped")
  /\ task' = [task EXCEPT ![w] = Head(tasks)]
  /\ UNCHANGED <<mutex, tasks, stop, running, client, added, runs, spurious>>

PopBack(w) ==
  /\ mutex = NoClient
  /\ tasks # <<>>
  /\ WorkerGoes(w, "idle", "popped")
  /\ task' = [task EXCEPT ![w] = tasks[Len(tasks)]]
  /\ tasks' = Tail(tasks)
  /\ UNCHANGED <<mutex, stop, running, client, added, runs, spurious>>

Pop(w) ==
  /\ mutex = NoClient
  /\ tasks # <<>>
  /\ WorkerGoes(w, "idle", "popped")
  /\ task' = [task EXCEPT ![w] = Head(tasks)]
  /\ tasks' = Tail(tasks)
  /\ UNCHANGED <<mutex, stop, running, client, added, runs, spurious>>

Start(w) ==
  /\ WorkerGoes(w, "popped", "running")
  /\ running' = running + 1
  /\ UNCHANGED <<mutex, tasks, stop, task, client, added, runs, spurious>>

Execute(w) ==
  /\ WorkerGoes(w, "running", "executed")
  /\ runs' = [runs EXCEPT ![task[w]] = @ + 1]
  /\ UNCHANGED <<mutex, tasks, stop, running, task, client, added, spurious>>

\* Slip in Finish: no decrement.
FinishUncounted(w) ==
  /\ WorkerGoes(w, "executed", "finished")
  /\ UNCHANGED <<mutex, tasks, stop, running, task, client, added, runs, spurious>>

Finish(w) ==
  /\ WorkerGoes(w, "executed", "finished")
  /\ running' = running - 1
  /\ UNCHANGED <<mutex, tasks, stop, task, client, added, runs, spurious>>

\* The client that condition_wait_task.notify_one wakes: any blocked one; a
\* notification that finds nobody blocked is lost.
NotifyWaiter ==
  LET blocked == {c \in Clients : client[c] = "blocked"}
  IN  IF blocked = {} THEN UNCHANGED client
      ELSE \E c \in blocked : ClientGoes(c, "blocked", "inWait")

\* The end of the loop body: notify, and the local task is destroyed.
Report(w) ==
  /\ WorkerGoes(w, "finished", "idle")
  /\ NotifyWaiter
  /\ task' = [task EXCEPT ![w] = NoTask]
  /\ UNCHANGED <<mutex, tasks, stop, running, added, runs, spurious>>

-----------------------------------------------------------------------------
\* The public functions.

\* addTask: push the task under the mutex.  On a stopped pool it throws and
\* changes nothing.
AddTask(c, t) ==
  /\ mutex = NoClient
  /\ ~stop
  /\ t \notin Accepted
  /\ ClientGoes(c, "ready", "notifying")
  /\ tasks' = Append(tasks, t)
  /\ added' = [added EXCEPT ![c] = @ \cup {t}]
  /\ UNCHANGED <<mutex, stop, running, worker, task, runs, spurious>>

\* Slip in NotifyWorker: the notification is left out.
NotifyNobody(c) ==
  /\ ClientGoes(c, "notifying", "ready")
  /\ UNCHANGED <<mutex, tasks, stop, running, worker, task, added, runs, spurious>>

\* addTask: condition.notify_one.
NotifyWorker(c) ==
  LET asleep == {w \in Workers : worker[w] = "asleep"}
  IN  /\ ClientGoes(c, "notifying", "ready")
      /\ IF asleep = {} THEN UNCHANGED worker
         ELSE \E w \in asleep : WorkerGoes(w, "asleep", "idle")
      /\ UNCHANGED <<mutex, tasks, stop, running, task, added, runs, spurious>>

\* A client calls wait.
Wait(c) ==
  /\ ~stop
  /\ ClientGoes(c, "ready", "inWait")
  /\ UNCHANGED <<mutex, tasks, stop, running, worker, task, added, runs, spurious>>

\* The predicate holds: wait returns.
WaitReturns(c) ==
  /\ mutex = NoClient
  /\ running = 0
  /\ ClientGoes(c, "inWait", "ready")
  /\ UNCHANGED <<mutex, tasks, stop, running, worker, task, added, runs, spurious>>

WaitChecks(c) ==
  /\ mutex = NoClient
  /\ running # 0
  /\ ClientGoes(c, "inWait", "checked")
  /\ mutex' = c
  /\ UNCHANGED <<tasks, stop, running, worker, task, added, runs, spurious>>

\* The condition variable blocks the client and releases the mutex.
WaitBlocks(c) ==
  /\ ClientGoes(c, "checked", "blocked")
  /\ mutex' = NoClient
  /\ UNCHANGED <<tasks, stop, running, worker, task, added, runs, spurious>>

\* The destructor, when no other client is in a call.
Stop ==
  /\ mutex = NoClient
  /\ \A c \in Clients : client[c] = "ready"
  /\ ClientGoes(Owner, "ready", "stopping")
  /\ stop' = TRUE
  /\ UNCHANGED <<mutex, tasks, running, worker, task, added, runs, spurious>>

\* Slip in NotifyAll: the sleeping workers are not woken.
NotifyNone ==
  /\ ClientGoes(Owner, "stopping", "joining")
  /\ UNCHANGED <<mutex, tasks, stop, running, worker, task, added, runs, spurious>>

NotifyAll ==
  /\ ClientGoes(Owner, "stopping", "joining")
  /\ worker' = [w \in Workers |-> IF worker[w] = "asleep" THEN "idle" ELSE worker[w]]
  /\ UNCHANGED <<mutex, tasks, stop, running, task, added, runs, spurious>>

Join ==
  /\ \A w \in Workers : worker[w] = "exited"
  /\ ClientGoes(Owner, "joining", "gone")
  /\ UNCHANGED <<mutex, tasks, stop, running, worker, task, added, runs, spurious>>

-----------------------------------------------------------------------------

\* A condition variable may wake a thread without any notification.
SpuriousWakeup ==
  /\ spurious < MaxSpurious
  /\ spurious' = spurious + 1
  /\ \/ \E w \in Workers : WorkerGoes(w, "asleep", "idle") /\ UNCHANGED client
     \/ \E c \in Clients : ClientGoes(c, "blocked", "inWait") /\ UNCHANGED worker
  /\ UNCHANGED <<mutex, tasks, stop, running, task, added, runs>>

WorkerStep(w) ==
  Sleep(w) \/ Exit(w) \/ Pop(w) \/ Start(w) \/ Execute(w) \/ Finish(w) \/ Report(w)

\* The steps a client takes inside a call.
ClientStep(c) == NotifyWorker(c) \/ WaitReturns(c) \/ WaitChecks(c) \/ WaitBlocks(c)

OwnerStep == NotifyAll \/ Join

Next ==
  \/ \E w \in Workers : WorkerStep(w)
  \/ \E c \in Clients : ClientStep(c) \/ Wait(c) \/ \E t \in Tasks : AddTask(c, t)
  \/ Stop \/ OwnerStep
  \/ SpuriousWakeup

Spec == Init /\ [][Next]_vars

\* The scheduler runs every thread that can run; no client has to make a call.
Fairness ==
  /\ \A w \in Workers : WF_vars(WorkerStep(w))
  /\ \A c \in Clients : WF_vars(ClientStep(c))
  /\ WF_vars(OwnerStep)

FairSpec == Spec /\ Fairness

-----------------------------------------------------------------------------

\* The variables keep their types: workers and clients are at a place of their
\* loop or call, and only tasks are queued.
TypeOK ==
  /\ mutex \in Clients \cup {NoClient}
  /\ tasks \in Seq(Tasks)
  /\ stop \in BOOLEAN
  /\ running \in Int
  /\ worker \in [Workers -> WorkerPlaces]
  /\ task \in [Workers -> Tasks \cup {NoTask}]
  /\ client \in [Clients -> ClientPlaces]
  /\ added \in [Clients -> SUBSET Tasks]
  /\ runs \in [Tasks -> Nat]
  /\ spurious \in Nat

Queued(t) == \E i \in DOMAIN tasks : tasks[i] = t

\* Worker w has task t and has not executed it.
Holds(w, t) == worker[w] \in {"popped", "running"} /\ task[w] = t

\* A task is never executed twice: it is in one place of the queue, or with
\* one worker, or executed once, and never in two of these.
NoTaskTwice ==
  /\ \A i, j \in DOMAIN tasks : tasks[i] = tasks[j] => i = j
  /\ \A v, w \in Workers, t \in Tasks : Holds(v, t) /\ Holds(w, t) => v = w
  /\ \A t \in Tasks :
       /\ runs[t] <= 1
       /\ Queued(t) => runs[t] = 0 /\ \A w \in Workers : ~ Holds(w, t)
       /\ \A w \in Workers : Holds(w, t) => runs[t] = 0

\* An accepted task is never lost.
NoTaskLost ==
  \A t \in Accepted : Queued(t) \/ runs[t] > 0 \/ \E w \in Workers : Holds(w, t)

\* "running" counts the workers between its increment and its decrement.
RunningExact ==
  running = Cardinality({w \in Workers : worker[w] \in {"running", "executed"}})

\* No lost wakeup on the workers' side: while the queue holds a task there is
\* a worker that will look at it, or a client about to wake one; and once the
\* pool is stopped nobody sleeps through it.
NoWorkerForgotten ==
  /\ tasks # <<>> => \/ \E w \in Workers : worker[w] \notin {"asleep", "exited"}
                     \/ \E c \in Clients : client[c] = "notifying"
                     \/ client[Owner] = "stopping"
  /\ stop => \/ client[Owner] = "stopping"
             \/ \A w \in Workers : worker[w] # "asleep"

\* The destructor drains the queue: when it returns, every task ever accepted
\* has been executed.
DestructorDrains ==
  client[Owner] = "gone" => \A t \in Accepted : runs[t] = 1

\* Every accepted task is executed in the end, also when clients are stuck in
\* wait and whether or not the pool is being destroyed.
TasksExecuted == \A t \in Tasks : t \in Accepted ~> runs[t] = 1

\* The destructor returns.
DestructorReturns == stop ~> client[Owner] = "gone"

\* "Wait for all threads to finish": wait returns.
WaitEnds == \A c \in Clients : client[c] = "inWait" ~> client[c] = "ready"

=============================================================================
