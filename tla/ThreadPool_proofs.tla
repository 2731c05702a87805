-------------------------- MODULE ThreadPool_proofs --------------------------
(***************************************************************************)
(* Proofs about ThreadPool for any number of workers, clients and tasks:   *)
(* each accepted task is executed at most once and never lost, no worker   *)
(* sleeps through work or through the stop, and the destructor drains the  *)
(* queue.  Only Pop, Execute and AddTask move a task; all other steps are  *)
(* quiet, which one lemma covers.                                          *)
(***************************************************************************)
EXTENDS ThreadPool, TLAPS, FiniteSetTheorems

\* Only accepted tasks are anywhere, and a worker that holds one has a task.
OnlyAccepted ==
  /\ \A t \in Tasks : Queued(t) \/ runs[t] > 0 => t \in Accepted
  /\ \A w \in Workers : worker[w] \in {"popped", "running"} => task[w] \in Accepted

Tracking == NoTaskTwice /\ NoTaskLost /\ OnlyAccepted

\* The order of the shutdown.
Shutdown ==
  /\ stop <=> client[Owner] \in {"stopping", "joining", "gone"}
  /\ \A w \in Workers : worker[w] = "exited" => stop /\ tasks = <<>>
  /\ client[Owner] = "gone" => \A w \in Workers : worker[w] = "exited"

IInv == TypeOK /\ Tracking /\ NoWorkerForgotten /\ Shutdown

Distinct(s) == \A i, j \in DOMAIN s : s[i] = s[j] => i = j

-----------------------------------------------------------------------------

\* The first task leaves the queue, the others stay, each once.
LEMMA TailKeeps ==
  ASSUME NEW S, NEW s \in Seq(S), s # <<>>, Distinct(s),
         NEW x, x = Head(s)
  PROVE  /\ x \in S /\ Tail(s) \in Seq(S) /\ Distinct(Tail(s))
         /\ \E i \in DOMAIN s : s[i] = x
         /\ \A i \in DOMAIN Tail(s) : Tail(s)[i] # x
         /\ \A t : (\E i \in DOMAIN s : s[i] = t) <=>
                     t = x \/ \E i \in DOMAIN Tail(s) : Tail(s)[i] = t
<1> DEFINE r == Tail(s)
<1>1. /\ Len(s) \in Nat /\ Len(s) >= 1 /\ DOMAIN s = 1 .. Len(s)
      /\ x = s[1] /\ s[1] \in S
      /\ r \in Seq(S) /\ DOMAIN r = 1 .. Len(s) - 1
      /\ \A i \in 1 .. Len(s) - 1 : r[i] = s[i + 1]
  OBVIOUS
<1> HIDE DEF r
<1>2. \A i \in 1 .. Len(s) - 1 : i + 1 \in 1 .. Len(s) /\ i + 1 # 1
  BY <1>1
<1>3. Distinct(r)
  <2> SUFFICES ASSUME NEW i \in 1 .. Len(s) - 1, NEW j \in 1 .. Len(s) - 1, r[i] = r[j]
               PROVE  i = j
    BY <1>1 DEF Distinct
  <2>1. i + 1 = j + 1
    BY <1>1, <1>2 DEF Distinct
  <2> QED BY <1>1, <2>1
<1>4. \A i \in DOMAIN r : r[i] # x
  <2> SUFFICES ASSUME NEW i \in 1 .. Len(s) - 1 PROVE r[i] # x
    BY <1>1
  <2>1. 1 \in DOMAIN s
    BY <1>1
  <2> QED BY <1>1, <1>2, <2>1 DEF Distinct
<1>5. ASSUME NEW t
      PROVE  (\E i \in DOMAIN s : s[i] = t) <=> t = x \/ \E i \in DOMAIN r : r[i] = t
  <2>1. ASSUME NEW i \in DOMAIN s, s[i] = t, t # x
        PROVE  \E j \in DOMAIN r : r[j] = t
    <3>1. i \in Nat /\ 1 <= i /\ i <= Len(s) /\ i # 1
      BY <1>1, <2>1
    <3>2. i - 1 \in 1 .. Len(s) - 1 /\ (i - 1) + 1 = i
      BY <1>1, <3>1
    <3>3. r[i - 1] = s[i]
      BY <1>1, <3>2
    <3> QED BY <1>1, <2>1, <3>2, <3>3
  <2>2. 1 \in DOMAIN s
    BY <1>1
  <2> QED BY <1>1, <1>2, <2>1, <2>2
<1>6. \E i \in DOMAIN s : s[i] = x
  <2>1. 1 \in DOMAIN s
    BY <1>1
  <2> QED BY <1>1, <2>1
<1> QED BY <1>1, <1>3, <1>4, <1>5, <1>6 DEF r

\* A task that is not in the queue is appended, the others stay.
LEMMA AppendKeeps ==
  ASSUME NEW S, NEW s \in Seq(S), Distinct(s), NEW x \in S,
         \A i \in DOMAIN s : s[i] # x
  PROVE  /\ Append(s, x) \in Seq(S) /\ Distinct(Append(s, x))
         /\ \A t : (\E i \in DOMAIN Append(s, x) : Append(s, x)[i] = t) <=>
                     t = x \/ \E i \in DOMAIN s : s[i] = t
<1> DEFINE r == Append(s, x)
<1>1. /\ r \in Seq(S) /\ Len(s) \in Nat /\ DOMAIN s = 1 .. Len(s)
      /\ DOMAIN r = 1 .. Len(s) + 1
      /\ r[Len(s) + 1] = x /\ \A k \in 1 .. Len(s) : r[k] = s[k]
  OBVIOUS
<1> HIDE DEF r
<1>2. \A k \in 1 .. Len(s) + 1 : k \in 1 .. Len(s) \/ k = Len(s) + 1
  BY <1>1
<1>3. 1 .. Len(s) \subseteq 1 .. Len(s) + 1 /\ Len(s) + 1 \in 1 .. Len(s) + 1
  BY <1>1
<1>4. Distinct(r)
  BY <1>1, <1>2 DEF Distinct
<1>5. \A t : (\E i \in DOMAIN r : r[i] = t) <=> t = x \/ \E i \in DOMAIN s : s[i] = t
  BY <1>1, <1>2, <1>3
<1> QED BY <1>1, <1>4, <1>5 DEF r

\* A step that moves no task keeps track of them all.
LEMMA QuietSteps ==
  ASSUME Tracking, UNCHANGED <<tasks, added, runs>>,
         \A w \in Workers : worker'[w] \in {"popped", "running"} =>
                              worker[w] \in {"popped", "running"} /\ task'[w] = task[w],
         \A w \in Workers : worker[w] \in {"popped", "running"} =>
                              worker'[w] \in {"popped", "running"} /\ task'[w] = task[w]
  PROVE  Tracking'
<1>1. \A w \in Workers, t \in Tasks : Holds(w, t)' <=> Holds(w, t)
  BY DEF Holds
<1>2. \A t \in Tasks : Queued(t)' <=> Queued(t)
  BY DEF Queued
<1>3. Accepted' = Accepted
  BY DEF Accepted
<1>4. NoTaskTwice'
  BY <1>1, <1>2 DEF Tracking, NoTaskTwice
<1>5. NoTaskLost'
  BY <1>3 DEF Tracking, NoTaskLost, Holds, Queued
<1>6. OnlyAccepted'
  BY <1>2, <1>3 DEF Tracking, OnlyAccepted
<1> QED BY <1>4, <1>5, <1>6 DEF Tracking

\* A worker that pops a task becomes the only one to have it.
LEMMA PopTracks ==
  ASSUME TypeOK, Tracking, NEW w \in Workers, Pop(w)
  PROVE  TypeOK' /\ Tracking'
<1>1. /\ tasks \in Seq(Tasks) /\ tasks # <<>> /\ Distinct(tasks)
      /\ worker \in [Workers -> WorkerPlaces] /\ task \in [Workers -> Tasks \cup {NoTask}]
      /\ worker[w] = "idle" /\ worker' = [worker EXCEPT ![w] = "popped"]
      /\ task' = [task EXCEPT ![w] = Head(tasks)] /\ tasks' = Tail(tasks)
      /\ UNCHANGED <<added, runs>>
  BY DEF TypeOK, Tracking, NoTaskTwice, Distinct, Pop, WorkerGoes
<1>2. PICK x \in Tasks : x = Head(tasks)
  <2>1. Head(tasks) \in Tasks
    BY <1>1
  <2> QED BY <2>1
<1>3. /\ x \in Tasks /\ Tail(tasks) \in Seq(Tasks) /\ Distinct(Tail(tasks))
      /\ \E i \in DOMAIN tasks : tasks[i] = x
      /\ \A i \in DOMAIN Tail(tasks) : Tail(tasks)[i] # x
      /\ \A t : (\E i \in DOMAIN tasks : tasks[i] = t) <=>
                  t = x \/ \E i \in DOMAIN Tail(tasks) : Tail(tasks)[i] = t
  <2> DEFINE Facts(h) ==
        /\ h \in Tasks /\ Tail(tasks) \in Seq(Tasks) /\ Distinct(Tail(tasks))
        /\ \E i \in DOMAIN tasks : tasks[i] = h
        /\ \A i \in DOMAIN Tail(tasks) : Tail(tasks)[i] # h
        /\ \A t : (\E i \in DOMAIN tasks : tasks[i] = t) <=>
                    t = h \/ \E i \in DOMAIN Tail(tasks) : Tail(tasks)[i] = t
  <2>1. \A h : h = Head(tasks) => Facts(h)
    BY <1>1, TailKeeps
  <2> HIDE DEF Facts
  <2>2. Facts(x)
    BY <1>2, <2>1
  <2> QED BY <2>2 DEF Facts
<1>4. Queued(x) /\ ~ Queued(x)' /\ \A t \in Tasks \ {x} : Queued(t)' <=> Queued(t)
  <2>1. \A t : Queued(t)' <=> \E i \in DOMAIN Tail(tasks) : Tail(tasks)[i] = t
    BY <1>1 DEF Queued
  <2>2. \A t : Queued(t) <=> \E i \in DOMAIN tasks : tasks[i] = t
    BY DEF Queued
  <2>3. \A t : Queued(t) <=> t = x \/ Queued(t)'
    BY <1>3, <2>1, <2>2
  <2>4. ~ Queued(x)'
    BY <1>3, <2>1
  <2> QED BY <2>3, <2>4
<1>5. /\ \A t \in Tasks : Holds(w, t)' <=> t = x
      /\ \A v \in Workers \ {w} : \A t \in Tasks : Holds(v, t)' <=> Holds(v, t)
      /\ \A t \in Tasks : ~ Holds(w, t)
  BY <1>1, <1>2 DEF Holds
<1>6. Accepted' = Accepted
  BY <1>1 DEF Accepted
<1>7. TypeOK'
  BY <1>1, <1>2, <1>3 DEF TypeOK, Pop, WorkerPlaces
<1>8. NoTaskTwice'
  <2>1. \A t \in Tasks : runs'[t] <= 1
    BY <1>1 DEF Tracking, NoTaskTwice
  <2>2. \A u, v \in Workers, t \in Tasks : Holds(u, t)' /\ Holds(v, t)' => u = v
    BY <1>3, <1>4, <1>5 DEF Tracking, NoTaskTwice
  <2>3. ASSUME NEW t \in Tasks, Queued(t)'
        PROVE  runs'[t] = 0 /\ \A v \in Workers : ~ Holds(v, t)'
    <3>1. t # x
      BY <1>4, <2>3
    <3>3. Queued(t)
      BY <1>4, <2>3, <3>1
    <3>2. runs[t] = 0 /\ \A v \in Workers : ~ Holds(v, t)
      BY <3>3 DEF Tracking, NoTaskTwice
    <3> QED BY <1>1, <1>5, <3>1, <3>2
  <2>4. \A t \in Tasks : \A v \in Workers : Holds(v, t)' => runs'[t] = 0
    BY <1>1, <1>3, <1>4, <1>5 DEF Tracking, NoTaskTwice
  <2> QED BY <1>1, <1>3, <2>1, <2>2, <2>3, <2>4 DEF NoTaskTwice, Distinct
<1>9. NoTaskLost'
  <2> SUFFICES ASSUME NEW t \in Accepted
               PROVE  Queued(t)' \/ runs'[t] > 0 \/ \E v \in Workers : Holds(v, t)'
    BY <1>6 DEF NoTaskLost
  <2>0. t \in Tasks
    BY DEF Accepted, TypeOK
  <2>1. Queued(t) \/ runs[t] > 0 \/ \E v \in Workers : Holds(v, t)
    BY DEF Tracking, NoTaskLost
  <2> QED BY <1>1, <1>4, <1>5, <2>0, <2>1
<1>10. OnlyAccepted'
  <2>1. x \in Accepted
    BY <1>3, <1>4 DEF Tracking, OnlyAccepted
  <2> QED BY <1>1, <1>4, <1>6, <1>2, <2>1 DEF Tracking, OnlyAccepted
<1> QED BY <1>7, <1>8, <1>9, <1>10 DEF Tracking

\* A task that is executed is executed for the first time.
LEMMA ExecuteTracks ==
  ASSUME TypeOK, Tracking, NEW w \in Workers, Execute(w)
  PROVE  TypeOK' /\ Tracking'
<1> DEFINE x == task[w]
<1>0. worker[w] = "running"
  BY DEF Execute, WorkerGoes
<1>1. x \in Accepted /\ x \in Tasks
  BY <1>0 DEF Tracking, OnlyAccepted, Accepted, TypeOK
<1>2. /\ worker \in [Workers -> WorkerPlaces] /\ runs \in [Tasks -> Nat]
      /\ worker' = [worker EXCEPT ![w] = "executed"]
      /\ runs' = [runs EXCEPT ![x] = @ + 1]
      /\ UNCHANGED <<tasks, task, added>>
  BY DEF TypeOK, Execute, WorkerGoes
<1>3. Holds(w, x) /\ runs[x] = 0 /\ ~ Queued(x)
  BY <1>0, <1>1 DEF Holds, Tracking, NoTaskTwice
<1>4. /\ \A t \in Tasks : Holds(w, t) <=> t = x
      /\ \A t \in Tasks : ~ Holds(w, t)'
      /\ \A v \in Workers \ {w} : \A t \in Tasks : Holds(v, t)' <=> Holds(v, t)
      /\ \A v \in Workers \ {w} : ~ Holds(v, x)
  BY <1>0, <1>1, <1>2, <1>3 DEF Holds, Tracking, NoTaskTwice
<1> HIDE DEF x
<1>5. /\ runs'[x] = 1 /\ \A t \in Tasks \ {x} : runs'[t] = runs[t]
      /\ runs' \in [Tasks -> Nat]
  BY <1>1, <1>2, <1>3
<1>6. /\ \A t \in Tasks : Queued(t)' <=> Queued(t)
      /\ Accepted' = Accepted
  BY <1>2 DEF Queued, Accepted
<1>7. TypeOK'
  BY <1>2, <1>5 DEF TypeOK, Execute, WorkerPlaces
<1>8. NoTaskTwice'
  <2>1. \A t \in Tasks : runs'[t] <= 1
    BY <1>5 DEF Tracking, NoTaskTwice
  <2>2. \A u, v \in Workers, t \in Tasks : Holds(u, t)' /\ Holds(v, t)' => u = v
    BY <1>4 DEF Tracking, NoTaskTwice
  <2>3. \A t \in Tasks : Queued(t)' => runs'[t] = 0 /\ \A v \in Workers : ~ Holds(v, t)'
    BY <1>3, <1>4, <1>5, <1>6 DEF Tracking, NoTaskTwice
  <2>4. \A t \in Tasks : \A v \in Workers : Holds(v, t)' => runs'[t] = 0
    BY <1>4, <1>5 DEF Tracking, NoTaskTwice
  <2>5. \A i, j \in DOMAIN tasks' : tasks'[i] = tasks'[j] => i = j
    BY <1>2 DEF Tracking, NoTaskTwice
  <2> QED BY <2>1, <2>2, <2>3, <2>4, <2>5 DEF NoTaskTwice
<1>9. NoTaskLost'
  <2> SUFFICES ASSUME NEW t \in Accepted
               PROVE  Queued(t)' \/ runs'[t] > 0 \/ \E v \in Workers : Holds(v, t)'
    BY <1>6 DEF NoTaskLost
  <2>0. t \in Tasks
    BY DEF Accepted, TypeOK
  <2>1. Queued(t) \/ runs[t] > 0 \/ \E v \in Workers : Holds(v, t)
    BY DEF Tracking, NoTaskLost
  <2> QED BY <1>4, <1>5, <1>6, <2>0, <2>1
<1>10. OnlyAccepted'
  BY <1>1, <1>2, <1>5, <1>6 DEF Tracking, OnlyAccepted, x
<1> QED BY <1>7, <1>8, <1>9, <1>10 DEF Tracking

\* An added task is new to the pool.
LEMMA AddTaskTracks ==
  ASSUME TypeOK, Tracking, NEW c \in Clients, NEW x \in Tasks, AddTask(c, x)
  PROVE  TypeOK' /\ Tracking'
<1>1. /\ x \notin Accepted /\ tasks' = Append(tasks, x)
      /\ added' = [added EXCEPT ![c] = @ \cup {x}]
      /\ UNCHANGED <<worker, task, runs>>
      /\ tasks \in Seq(Tasks) /\ Distinct(tasks) /\ added \in [Clients -> SUBSET Tasks]
  BY DEF TypeOK, Tracking, NoTaskTwice, Distinct, AddTask
<1>2. ~ Queued(x) /\ runs[x] = 0 /\ \A w \in Workers : ~ Holds(w, x)
  BY <1>1 DEF Tracking, OnlyAccepted, Holds, TypeOK
<1>3. /\ tasks' \in Seq(Tasks) /\ Distinct(tasks')
      /\ \A t : Queued(t)' <=> t = x \/ Queued(t)
  BY <1>1, <1>2, AppendKeeps DEF Queued
<1>4. Accepted' = Accepted \cup {x}
  <2>1. \A d \in Clients : added'[d] = IF d = c THEN added[d] \cup {x} ELSE added[d]
    BY <1>1
  <2> QED BY <2>1 DEF Accepted
<1>5. \A w \in Workers, t \in Tasks : Holds(w, t)' <=> Holds(w, t)
  BY <1>1 DEF Holds
<1>6. TypeOK'
  BY <1>1, <1>3 DEF TypeOK, AddTask, ClientGoes, ClientPlaces
<1>7. NoTaskTwice'
  BY <1>1, <1>2, <1>3, <1>5 DEF Tracking, NoTaskTwice, Distinct
<1>8. NoTaskLost'
  <2> SUFFICES ASSUME NEW t \in Accepted'
               PROVE  Queued(t)' \/ runs'[t] > 0 \/ \E v \in Workers : Holds(v, t)'
    BY DEF NoTaskLost
  <2>1. CASE t = x
    BY <1>3, <2>1
  <2>2. CASE t \in Accepted
    <3>1. t \in Tasks
      BY <2>2 DEF Accepted, TypeOK
    <3>2. Queued(t) \/ runs[t] > 0 \/ \E v \in Workers : Holds(v, t)
      BY <2>2 DEF Tracking, NoTaskLost
    <3> QED BY <1>1, <1>3, <1>5, <3>1, <3>2
  <2> QED BY <1>4, <2>1, <2>2
<1>9. OnlyAccepted'
  BY <1>1, <1>3, <1>4 DEF Tracking, OnlyAccepted
<1> QED BY <1>6, <1>7, <1>8, <1>9 DEF Tracking

-----------------------------------------------------------------------------
(***************************************************************************)
(* Every step keeps track of the tasks.                                    *)
(***************************************************************************)

QuietWorkerStep(w) == Sleep(w) \/ Exit(w) \/ Start(w) \/ Finish(w) \/ Report(w)

\* The other steps of a worker move no task.
LEMMA QuietWorkerStepTracks ==
  ASSUME TypeOK, Tracking, NEW w \in Workers, QuietWorkerStep(w)
  PROVE  TypeOK' /\ Tracking'
<1>1. CASE Sleep(w)
  BY <1>1, QuietSteps DEF Sleep, WorkerGoes, TypeOK, WorkerPlaces
<1>2. CASE Exit(w)
  BY <1>2, QuietSteps DEF Exit, WorkerGoes, TypeOK, WorkerPlaces
<1>3. CASE Start(w)
  BY <1>3, QuietSteps DEF Start, WorkerGoes, TypeOK, WorkerPlaces
<1>4. CASE Finish(w)
  BY <1>4, QuietSteps DEF Finish, WorkerGoes, TypeOK, WorkerPlaces
<1>5. CASE Report(w)
  <2>1. TypeOK'
    BY <1>5 DEF Report, NotifyWaiter, WorkerGoes, ClientGoes, TypeOK, WorkerPlaces, ClientPlaces
  <2>2. Tracking'
    BY <1>5, QuietSteps DEF Report, WorkerGoes, TypeOK
  <2> QED BY <2>1, <2>2
<1> QED BY <1>1, <1>2, <1>3, <1>4, <1>5 DEF QuietWorkerStep

\* The steps of a client inside a call move no task.
LEMMA ClientStepTracks ==
  ASSUME TypeOK, Tracking, NEW c \in Clients, ClientStep(c) \/ Wait(c)
  PROVE  TypeOK' /\ Tracking'
<1>1. CASE NotifyWorker(c)
  <2>1. TypeOK'
    BY <1>1 DEF NotifyWorker, WorkerGoes, ClientGoes, TypeOK, WorkerPlaces, ClientPlaces
  <2>2. Tracking'
    BY <1>1, QuietSteps DEF NotifyWorker, WorkerGoes, TypeOK
  <2> QED BY <2>1, <2>2
<1>2. CASE WaitReturns(c) \/ WaitChecks(c) \/ WaitBlocks(c) \/ Wait(c)
  <2>1. TypeOK'
    BY <1>2 DEF WaitReturns, WaitChecks, WaitBlocks, Wait, ClientGoes, TypeOK, ClientPlaces
  <2>2. UNCHANGED <<tasks, added, runs, worker, task>>
    BY <1>2 DEF WaitReturns, WaitChecks, WaitBlocks, Wait
  <2>3. Tracking'
    BY <2>2, QuietSteps
  <2> QED BY <2>1, <2>3
<1> QED BY <1>1, <1>2 DEF ClientStep

\* The steps of the destructor and spurious wakeups move no task.
LEMMA OwnerStepTracks ==
  ASSUME TypeOK, Tracking, Stop \/ OwnerStep \/ SpuriousWakeup
  PROVE  TypeOK' /\ Tracking'
<1>1. CASE Stop \/ Join
  <2>1. TypeOK'
    BY <1>1, ClientsAssumption DEF Stop, Join, ClientGoes, TypeOK, ClientPlaces
  <2>2. UNCHANGED <<tasks, added, runs, worker, task>>
    BY <1>1 DEF Stop, Join
  <2>3. Tracking'
    BY <2>2, QuietSteps
  <2> QED BY <2>1, <2>3
<1>2. CASE NotifyAll
  <2>1. TypeOK'
    BY <1>2, ClientsAssumption
       DEF NotifyAll, ClientGoes, TypeOK, ClientPlaces, WorkerPlaces
  <2>2. Tracking'
    BY <1>2, QuietSteps DEF NotifyAll, TypeOK
  <2> QED BY <2>1, <2>2
<1>3. CASE SpuriousWakeup
  <2>1. TypeOK'
    BY <1>3 DEF SpuriousWakeup, WorkerGoes, ClientGoes, TypeOK, WorkerPlaces, ClientPlaces
  <2>2. Tracking'
    BY <1>3, QuietSteps DEF SpuriousWakeup, WorkerGoes, ClientGoes, TypeOK
  <2> QED BY <2>1, <2>2
<1> QED BY <1>1, <1>2, <1>3 DEF OwnerStep

-----------------------------------------------------------------------------
(***************************************************************************)
(* Wakeups and the shutdown.                                               *)
(***************************************************************************)

\* The steps of a worker neither stop the pool nor move its owner, except
\* that a notification may end the blocking of a client.
LEMMA WorkerStepWakes ==
  ASSUME TypeOK, NoWorkerForgotten, Shutdown, NEW w \in Workers, WorkerStep(w)
  PROVE  NoWorkerForgotten' /\ Shutdown'
<1>1. CASE Sleep(w)
  BY <1>1 DEF Sleep, WorkerGoes, TypeOK, NoWorkerForgotten, Shutdown
<1>2. CASE Exit(w)
  BY <1>2 DEF Exit, WorkerGoes, TypeOK, NoWorkerForgotten, Shutdown
<1>3. CASE Pop(w)
  <2>1. /\ worker' = [worker EXCEPT ![w] = "popped"] /\ worker[w] = "idle"
        /\ tasks # <<>> /\ UNCHANGED <<client, stop>>
        /\ worker \in [Workers -> WorkerPlaces]
    BY <1>3 DEF Pop, WorkerGoes, TypeOK
  <2>2. \A v \in Workers : worker[v] # "exited" /\ worker'[v] # "exited"
    BY <2>1 DEF Shutdown
  <2>3. NoWorkerForgotten'
    BY <2>1 DEF NoWorkerForgotten
  <2>4. Shutdown'
    BY <2>1, <2>2 DEF Shutdown
  <2> QED BY <2>3, <2>4
<1>4. CASE Start(w) \/ Execute(w) \/ Finish(w)
  BY <1>4 DEF Start, Execute, Finish, WorkerGoes, TypeOK, NoWorkerForgotten, Shutdown
<1>5. CASE Report(w)
  <2>1. /\ worker' = [worker EXCEPT ![w] = "idle"] /\ worker[w] = "finished"
        /\ UNCHANGED <<tasks, stop>> /\ worker \in [Workers -> WorkerPlaces]
    BY <1>5 DEF Report, WorkerGoes, TypeOK
  <2>2. \A c \in Clients : client'[c] # client[c] =>
          client[c] = "blocked" /\ client'[c] = "inWait"
    BY <1>5 DEF Report, NotifyWaiter, ClientGoes, TypeOK
  <2>3. NoWorkerForgotten'
    BY <2>1, <2>2, ClientsAssumption DEF NoWorkerForgotten
  <2>4. Shutdown'
    BY <2>1, <2>2, ClientsAssumption DEF Shutdown
  <2> QED BY <2>3, <2>4
<1> QED BY <1>1, <1>2, <1>3, <1>4, <1>5 DEF WorkerStep

\* No call of a client leaves a queued task that no worker will look at.
LEMMA ClientStepWakes ==
  ASSUME TypeOK, NoWorkerForgotten, Shutdown, NEW c \in Clients,
         ClientStep(c) \/ Wait(c) \/ \E t \in Tasks : AddTask(c, t)
  PROVE  NoWorkerForgotten' /\ Shutdown'
<1>1. CASE NotifyWorker(c)
  <2>1. /\ client[c] = "notifying" /\ client' = [client EXCEPT ![c] = "ready"]
        /\ UNCHANGED <<tasks, stop>>
        /\ client \in [Clients -> ClientPlaces] /\ worker \in [Workers -> WorkerPlaces]
    BY <1>1 DEF NotifyWorker, ClientGoes, TypeOK
  <2>2. \A v \in Workers : /\ worker'[v] = "exited" <=> worker[v] = "exited"
                           /\ worker'[v] = "asleep" => worker[v] = "asleep"
    BY <1>1, <2>1 DEF NotifyWorker, WorkerGoes
  <2>3. Shutdown'
    BY <2>1, <2>2, ClientsAssumption DEF Shutdown
  <2>4. tasks # <<>> => \E v \in Workers : worker'[v] \notin {"asleep", "exited"}
    <3> SUFFICES ASSUME tasks # <<>>
                 PROVE  \E v \in Workers : worker'[v] \notin {"asleep", "exited"}
      OBVIOUS
    <3>1. \A v \in Workers : worker[v] # "exited"
      BY DEF Shutdown
    <3>2. CASE \A v \in Workers : worker[v] # "asleep"
      BY <2>2, <3>1, <3>2, WorkersAssumption
    <3>3. CASE \E v \in Workers : worker[v] = "asleep"
      <4>1. PICK v \in Workers : WorkerGoes(v, "asleep", "idle")
        BY <1>1, <3>3 DEF NotifyWorker
      <4>2. worker'[v] = "idle"
        BY <2>1, <4>1 DEF WorkerGoes
      <4> QED BY <4>2
    <3> QED BY <3>2, <3>3
  <2>5. NoWorkerForgotten'
    BY <2>1, <2>2, <2>4, ClientsAssumption DEF NoWorkerForgotten
  <2> QED BY <2>3, <2>5
<1>2. CASE WaitReturns(c) \/ WaitChecks(c) \/ WaitBlocks(c) \/ Wait(c)
  <2>1. /\ UNCHANGED <<tasks, stop, worker>>
        /\ \A d \in Clients : client'[d] # client[d] =>
             /\ client[d] \in {"ready", "inWait", "checked"}
             /\ client'[d] \in {"ready", "inWait", "checked", "blocked"}
    BY <1>2 DEF WaitReturns, WaitChecks, WaitBlocks, Wait, ClientGoes, TypeOK
  <2>2. NoWorkerForgotten'
    BY <2>1, ClientsAssumption DEF NoWorkerForgotten
  <2>3. Shutdown'
    BY <2>1, ClientsAssumption DEF Shutdown
  <2> QED BY <2>2, <2>3
<1>3. CASE \E t \in Tasks : AddTask(c, t)
  <2>1. /\ UNCHANGED <<stop, worker>> /\ ~ stop
        /\ client[c] = "ready" /\ client' = [client EXCEPT ![c] = "notifying"]
        /\ client \in [Clients -> ClientPlaces]
    BY <1>3 DEF AddTask, ClientGoes, TypeOK
  <2>2. NoWorkerForgotten'
    BY <2>1 DEF NoWorkerForgotten
  <2>3. Shutdown'
    BY <2>1, ClientsAssumption DEF Shutdown
  <2> QED BY <2>2, <2>3
<1> QED BY <1>1, <1>2, <1>3 DEF ClientStep

\* Nor does the destructor, whose notify_all leaves no worker asleep.
LEMMA OwnerStepWakes ==
  ASSUME TypeOK, NoWorkerForgotten, Shutdown, Stop \/ OwnerStep \/ SpuriousWakeup
  PROVE  NoWorkerForgotten' /\ Shutdown'
<1>1. CASE Stop
  BY <1>1, ClientsAssumption DEF Stop, ClientGoes, TypeOK, NoWorkerForgotten, Shutdown
<1>2. CASE NotifyAll
  <2>1. /\ UNCHANGED <<tasks, stop>> /\ stop /\ client'[Owner] = "joining"
        /\ \A v \in Workers : worker'[v] = IF worker[v] = "asleep" THEN "idle" ELSE worker[v]
    BY <1>2, ClientsAssumption DEF NotifyAll, ClientGoes, TypeOK, Shutdown
  <2>2. tasks # <<>> => \A v \in Workers : worker'[v] \notin {"asleep", "exited"}
    BY <2>1 DEF Shutdown
  <2>3. NoWorkerForgotten'
    BY <2>1, <2>2, WorkersAssumption DEF NoWorkerForgotten
  <2>4. Shutdown'
    BY <2>1 DEF Shutdown
  <2> QED BY <2>3, <2>4
<1>3. CASE Join
  <2>1. /\ UNCHANGED <<tasks, stop, worker>> /\ stop /\ client'[Owner] = "gone"
        /\ \A v \in Workers : worker[v] = "exited"
    BY <1>3, ClientsAssumption DEF Join, ClientGoes, TypeOK, Shutdown
  <2>2. tasks = <<>>
    BY <2>1, WorkersAssumption DEF Shutdown
  <2>3. NoWorkerForgotten'
    BY <2>1, <2>2 DEF NoWorkerForgotten
  <2>4. Shutdown'
    BY <2>1 DEF Shutdown
  <2> QED BY <2>3, <2>4
<1>4. CASE SpuriousWakeup
  <2>1. /\ UNCHANGED <<tasks, stop>>
        /\ \A d \in Clients : client'[d] # client[d] =>
             client[d] = "blocked" /\ client'[d] = "inWait"
        /\ \A v \in Workers : worker'[v] # worker[v] =>
             worker[v] = "asleep" /\ worker'[v] = "idle"
    BY <1>4 DEF SpuriousWakeup, WorkerGoes, ClientGoes, TypeOK
  <2>2. NoWorkerForgotten'
    BY <2>1, ClientsAssumption DEF NoWorkerForgotten
  <2>3. Shutdown'
    BY <2>1, ClientsAssumption DEF Shutdown
  <2> QED BY <2>2, <2>3
<1> QED BY <1>1, <1>2, <1>3, <1>4 DEF OwnerStep

-----------------------------------------------------------------------------

\* A new pool satisfies the invariant.
LEMMA InitIInv == Init => IInv
<1> SUFFICES ASSUME Init PROVE IInv
  OBVIOUS
<1>1. TypeOK
  <2>1. /\ worker \in [Workers -> WorkerPlaces]
        /\ client \in [Clients -> ClientPlaces]
        /\ task \in [Workers -> Tasks \cup {NoTask}]
        /\ added \in [Clients -> SUBSET Tasks]
    BY DEF Init, WorkerPlaces, ClientPlaces
  <2>2. /\ mutex \in Clients \cup {NoClient} /\ tasks \in Seq(Tasks)
        /\ running \in Int /\ spurious \in Nat /\ runs \in [Tasks -> Nat]
    BY DEF Init
  <2>3. stop \in BOOLEAN
    BY DEF Init
  <2> QED BY <2>1, <2>2, <2>3 DEF TypeOK
<1>2. Tracking
  BY DEF Init, Tracking, NoTaskTwice, NoTaskLost, OnlyAccepted, Accepted, Queued, Holds
<1>3. NoWorkerForgotten
  BY DEF Init, NoWorkerForgotten
<1>4. Shutdown
  BY ClientsAssumption DEF Init, Shutdown
<1> QED BY <1>1, <1>2, <1>3, <1>4 DEF IInv

\* The invariant is inductive.
LEMMA NextKeepsIInv == IInv /\ [Next]_vars => IInv'
<1> SUFFICES ASSUME IInv, [Next]_vars PROVE IInv'
  OBVIOUS
<1> USE DEF IInv
<1>1. CASE \E w \in Workers : WorkerStep(w)
  BY <1>1, PopTracks, ExecuteTracks, QuietWorkerStepTracks, WorkerStepWakes
     DEF WorkerStep, QuietWorkerStep
<1>2. CASE \E c \in Clients : ClientStep(c) \/ Wait(c) \/ \E t \in Tasks : AddTask(c, t)
  BY <1>2, ClientStepTracks, AddTaskTracks, ClientStepWakes
<1>3. CASE Stop \/ OwnerStep \/ SpuriousWakeup
  BY <1>3, OwnerStepTracks, OwnerStepWakes
<1>4. CASE UNCHANGED vars
  <2>1. Tracking'
    BY <1>4, QuietSteps DEF vars
  <2> QED BY <1>4, <2>1 DEF vars, TypeOK, NoWorkerForgotten, Shutdown
<1> QED BY <1>1, <1>2, <1>3, <1>4 DEF Next

\* The variables of the pool keep their types.
THEOREM TypeCorrect == Spec => []TypeOK
<1>1. IInv => TypeOK
  BY DEF IInv
<1> QED BY <1>1, InitIInv, NextKeepsIInv, PTL DEF Spec

\* With any number of workers and clients, a task is never executed twice: it
\* is in one place of the queue, with one worker, or executed.
THEOREM ExecutedAtMostOnce == Spec => []NoTaskTwice
<1>1. IInv => NoTaskTwice
  BY DEF IInv, Tracking
<1> QED BY <1>1, InitIInv, NextKeepsIInv, PTL DEF Spec

\* An accepted task is never lost between the queue and a worker.
THEOREM TasksTracked == Spec => []NoTaskLost
<1>1. IInv => NoTaskLost
  BY DEF IInv, Tracking
<1> QED BY <1>1, InitIInv, NextKeepsIInv, PTL DEF Spec

\* No wakeup of a worker is lost, although both notifications are sent after
\* the mutex has been released.
THEOREM NoLostWakeup == Spec => []NoWorkerForgotten
<1>1. IInv => NoWorkerForgotten
  BY DEF IInv
<1> QED BY <1>1, InitIInv, NextKeepsIInv, PTL DEF Spec

\* "running" changes with the two steps that start and end an execution.
LEMMA NextKeepsRunningExact ==
  IInv /\ RunningExact /\ [Next]_vars => RunningExact'
<1> DEFINE inside == {"running", "executed"}
           busy == {w \in Workers : worker[w] \in inside}
<1> SUFFICES ASSUME IInv, RunningExact, [Next]_vars PROVE RunningExact'
  OBVIOUS
<1>1. /\ worker \in [Workers -> WorkerPlaces] /\ running \in Int
      /\ running = Cardinality(busy)
      /\ IsFiniteSet(busy) /\ Cardinality(busy) \in Nat
  BY WorkersAssumption, FS_Subset, FS_CardinalityType DEF IInv, TypeOK, RunningExact
<1>2. ASSUME UNCHANGED running,
             \A v \in Workers : worker'[v] \in inside <=> worker[v] \in inside
      PROVE  RunningExact'
  <2>1. busy' = busy
    BY <1>2
  <2> QED BY <1>1, <1>2, <2>1 DEF RunningExact
<1>3. ASSUME NEW w \in Workers, Start(w)
      PROVE  RunningExact'
  <2>1. /\ w \notin busy /\ busy' = busy \cup {w} /\ running' = running + 1
    BY <1>1, <1>3 DEF Start, WorkerGoes
  <2>2. Cardinality(busy \cup {w}) = Cardinality(busy) + 1
    BY <1>1, <2>1, FS_AddElement
  <2> QED BY <1>1, <2>1, <2>2 DEF RunningExact
<1>4. ASSUME NEW w \in Workers, Finish(w)
      PROVE  RunningExact'
  <2>1. /\ w \in busy /\ busy' = busy \ {w} /\ running' = running - 1
    BY <1>1, <1>4 DEF Finish, WorkerGoes
  <2>2. Cardinality(busy \ {w}) = Cardinality(busy) - 1
    BY <1>1, <2>1, FS_RemoveElement
  <2> QED BY <1>1, <2>1, <2>2 DEF RunningExact
<1>5. ASSUME NEW w \in Workers,
             Sleep(w) \/ Exit(w) \/ Pop(w) \/ Execute(w) \/ Report(w)
      PROVE  RunningExact'
  <2>1. /\ UNCHANGED running
        /\ \A v \in Workers : worker'[v] \in inside <=> worker[v] \in inside
    BY <1>1, <1>5 DEF Sleep, Exit, Pop, Execute, Report, WorkerGoes
  <2> QED BY <1>2, <2>1
<1>6. ASSUME NEW c \in Clients,
             ClientStep(c) \/ Wait(c) \/ \E t \in Tasks : AddTask(c, t)
      PROVE  RunningExact'
  <2>1. /\ UNCHANGED running
        /\ \A v \in Workers : worker'[v] \in inside <=> worker[v] \in inside
    BY <1>1, <1>6 DEF ClientStep, NotifyWorker, WaitReturns, WaitChecks,
                      WaitBlocks, Wait, AddTask, WorkerGoes
  <2> QED BY <1>2, <2>1
<1>7. CASE Stop \/ OwnerStep \/ SpuriousWakeup \/ UNCHANGED vars
  <2>1. /\ UNCHANGED running
        /\ \A v \in Workers : worker'[v] \in inside <=> worker[v] \in inside
    BY <1>1, <1>7 DEF Stop, OwnerStep, NotifyAll, Join, SpuriousWakeup,
                      WorkerGoes, vars
  <2> QED BY <1>2, <2>1
<1> QED BY <1>3, <1>4, <1>5, <1>6, <1>7 DEF Next, WorkerStep

\* "running", which wait reads, is the number of workers inside an execution.
THEOREM RunningCounted == Spec => []RunningExact
<1>1. Init => RunningExact
  <2>1. Init => {w \in Workers : worker[w] \in {"running", "executed"}} = {}
    BY DEF Init
  <2> QED BY <2>1, FS_EmptySet DEF Init, RunningExact
<1> QED BY <1>1, InitIInv, NextKeepsIInv, NextKeepsRunningExact, PTL DEF Spec

\* When the destructor has returned, every task ever accepted was executed.
THEOREM QueueDrained == Spec => []DestructorDrains
<1>1. IInv => DestructorDrains
  <2> SUFFICES ASSUME IInv, client[Owner] = "gone", NEW t \in Accepted
               PROVE  runs[t] = 1
    BY DEF DestructorDrains
  <2>1. /\ \A w \in Workers : worker[w] = "exited"
        /\ tasks = <<>>
    BY WorkersAssumption DEF IInv, Shutdown
  <2>2. t \in Tasks
    BY DEF IInv, TypeOK, Accepted
  <2>3. ~ Queued(t) /\ \A w \in Workers : ~ Holds(w, t)
    BY <2>1 DEF Queued, Holds
  <2>4. runs[t] > 0 /\ runs[t] <= 1 /\ runs[t] \in Nat
    BY <2>2, <2>3 DEF IInv, Tracking, NoTaskLost, NoTaskTwice, TypeOK
  <2> QED BY <2>4
<1> QED BY <1>1, InitIInv, NextKeepsIInv, PTL DEF Spec

=============================================================================
