----------------------------- MODULE WorkerPool -----------------------------
(***************************************************************************)
(* workerpool.Dispatcher and its Workers.  A job passes from the goroutine *)
(* that Queue starts to the channel JobQueue, from there to a goroutine of *)
(* Dispatch that waits for the channel of a worker, and then over that     *)
(* channel to the worker.  A worker puts its channel into WorkerPool and   *)
(* waits for a job or for quit, whichever select picks.  Stop closes quit; *)
(* Dispatch then closes the quit of one worker after the other and waits   *)
(* for each.  What is still on its way is dropped.                         *)
(***************************************************************************)
EXTENDS Naturals, FiniteSets

CONSTANTS Jobs,         \* bound: jobs that can be on their way at a time
          NumWorkers,   \* calls of AddWorker, and the capacity of WorkerPool
          MaxWaiting    \* the capacity of JobQueue

ASSUME PoolAssumption == NumWorkers \in Nat \ {0} /\ MaxWaiting \in Nat

Workers == 1..NumWorkers
NoWorker == 0

VARIABLES place,     \* where a job is
          to,        \* the worker whose channel was taken for it
          worker,    \* where a worker is
          pool,      \* the workers whose channel is in WorkerPool
          stopping   \* 0: Dispatch is in its select; w: it has closed the quit
                     \* of worker w and waits for it; beyond: it has returned

poolVars == <<place, to, worker, pool, stopping>>

\* free: no job.  waiting: blocked on JobQueue.  queue: in JobQueue.
\* dispatching: waits for a worker.  sending: holds the channel of one.
Places == {"free", "waiting", "queue", "dispatching", "sending", "handling"}

PoolTypeOK ==
    /\ place \in [Jobs -> Places]
    /\ to \in [Jobs -> Workers \union {NoWorker}]
    /\ worker \in [Workers -> {"registering", "ready", "busy", "returned"}]
    /\ pool \in SUBSET Workers
    /\ stopping \in 0..NumWorkers + 1

PoolInit ==
    /\ place = [j \in Jobs |-> "free"]
    /\ to = [j \in Jobs |-> NoWorker]
    /\ worker = [w \in Workers |-> "registering"]
    /\ pool = {}
    /\ stopping = 0

Queue(j) ==
    /\ place[j] = "free"
    /\ place' = [place EXCEPT ![j] = "waiting"]
    /\ UNCHANGED <<to, worker, pool, stopping>>

Enqueue(j) ==
    /\ place[j] = "waiting"
    /\ Cardinality({i \in Jobs : place[i] = "queue"}) < MaxWaiting
    /\ place' = [place EXCEPT ![j] = "queue"]
    /\ UNCHANGED <<to, worker, pool, stopping>>

Dispatch(j) ==
    /\ stopping = 0
    /\ place[j] = "queue"
    /\ place' = [place EXCEPT ![j] = "dispatching"]
    /\ UNCHANGED <<to, worker, pool, stopping>>

\* WRONG: the channel stays in WorkerPool for the next job.
TakeWorkerCopy(j, w) ==
    /\ place[j] = "dispatching"
    /\ w \in pool
    /\ place' = [place EXCEPT ![j] = "sending"]
    /\ to' = [to EXCEPT ![j] = w]
    /\ UNCHANGED <<worker, pool, stopping>>

\* jobChannel := <-d.WorkerPool
TakeWorker(j, w) ==
    /\ place[j] = "dispatching"
    /\ w \in pool
    /\ pool' = pool \ {w}
    /\ place' = [place EXCEPT ![j] = "sending"]
    /\ to' = [to EXCEPT ![j] = w]
    /\ UNCHANGED <<worker, stopping>>

\* jobChannel <- job, which waits for the worker to receive.
Deliver(j) ==
    /\ place[j] = "sending"
    /\ worker[to[j]] = "ready"
    /\ worker' = [worker EXCEPT ![to[j]] = "busy"]
    /\ place' = [place EXCEPT ![j] = "handling"]
    /\ UNCHANGED <<to, pool, stopping>>

\* The handler of the worker returns.
Handled(j) ==
    /\ place[j] = "handling"
    /\ place' = [place EXCEPT ![j] = "free"]
    /\ worker' = [worker EXCEPT ![to[j]] = "registering"]
    /\ to' = [to EXCEPT ![j] = NoWorker]
    /\ UNCHANGED <<pool, stopping>>

\* w.WorkerPool <- w.JobChannel
RegisterWorker(w) ==
    /\ worker[w] = "registering"
    /\ Cardinality(pool) < NumWorkers
    /\ pool' = pool \union {w}
    /\ worker' = [worker EXCEPT ![w] = "ready"]
    /\ UNCHANGED <<place, to, stopping>>

\* WRONG: a worker that is told to quit does so without calling Done.
QuitWorkerSilently(w) ==
    /\ worker[w] = "ready"
    /\ stopping >= w
    /\ worker' = [worker EXCEPT ![w] = "busy"]
    /\ UNCHANGED <<place, to, pool, stopping>>

QuitWorker(w) ==
    /\ worker[w] = "ready"
    /\ stopping >= w
    /\ worker' = [worker EXCEPT ![w] = "returned"]
    /\ UNCHANGED <<place, to, pool, stopping>>

\* WRONG: the workers are told to quit and not waited for.
StopNextUnawaited ==
    /\ stopping \in Workers
    /\ stopping' = stopping + 1
    /\ UNCHANGED <<place, to, worker, pool>>

\* w.quitWG.Wait() for one worker, and close(w.quit) of the next one.
StopNext ==
    /\ stopping \in Workers
    /\ worker[stopping] = "returned"
    /\ stopping' = stopping + 1
    /\ UNCHANGED <<place, to, worker, pool>>

\* d.quit is closed and Dispatch sees it.
DispatchQuit ==
    /\ stopping = 0
    /\ stopping' = 1
    /\ UNCHANGED <<place, to, worker, pool>>

Stopped == stopping = NumWorkers + 1

\* A step of the pool that the user of the pool has no part in.
PoolStep ==
    \/ \E j \in Jobs : Enqueue(j) \/ Dispatch(j) \/ Deliver(j)
    \/ \E j \in Jobs, w \in Workers : TakeWorker(j, w)
    \/ \E w \in Workers : RegisterWorker(w) \/ QuitWorker(w)
    \/ StopNext

(***************************************************************************)
(* Properties.                                                             *)
(***************************************************************************)

\* The channel of a worker is in WorkerPool or in the hands of one job while
\* the worker is ready, and nowhere else while it is not: registering never
\* blocks, and no two jobs are sent to one worker.
OneTicket ==
    /\ \A i, j \in Jobs :
          place[i] = "sending" /\ place[j] = "sending" /\ to[i] = to[j] => i = j
    /\ \A w \in Workers :
          LET held == \E j \in Jobs : place[j] = "sending" /\ to[j] = w IN
          /\ ~(held /\ w \in pool)
          /\ worker[w] = "ready" => held \/ w \in pool
          /\ worker[w] \in {"registering", "busy"} => ~held /\ w \notin pool

\* When Stop has returned no handler runs and none will be started.
StoppedIsIdle == Stopped => \A w \in Workers : worker[w] = "returned"
=============================================================================
