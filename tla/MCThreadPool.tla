----------------------------- MODULE MCThreadPool -----------------------------
\* Two workers, two clients and two tasks: workers that compete for a task,
\* two clients blocked in wait at once, and tasks left when the pool stops.
EXTENDS ThreadPool

CONSTANTS w1, w2, c1, c2, t1, t2

MCWorkers == {w1, w2}
MCClients == {c1, c2}
MCTasks == {t1, t2}

\* One thread of each kind and one task, for the two runs on wait.
OneWorker == {w1}
OneClient == {c1}
OneTask == {t1}

=============================================================================
