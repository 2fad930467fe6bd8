------------------------- MODULE HealthCheckProofs -------------------------
(***************************************************************************)
(* Proofs about the worker pool and the health checker, for any number of  *)
(* workers, of jobs on their way and of configurations.                    *)
(***************************************************************************)
EXTENDS HealthCheck, TLAPS

\* A job that has been given a worker names it, and a worker runs one handler.
OneHandler ==
    /\ \A j \in Jobs : place[j] \in {"sending", "handling"} => to[j] \in Workers
    /\ \A j \in Jobs : place[j] = "handling" => worker[to[j]] = "busy"
    /\ \A i, j \in Jobs :
          place[i] = "handling" /\ place[j] = "handling" /\ to[i] = to[j] => i = j

\* Dispatch stops the workers in the order of WorkerList.
StoppedInOrder == \A w \in Workers : w < stopping => worker[w] = "returned"

\* The inductive invariant of the pool.
PoolInv == PoolTypeOK /\ OneTicket /\ OneHandler /\ StoppedInOrder

(***************************************************************************)
(* The pool.                                                               *)
(***************************************************************************)

\* NewDispatcher and Run establish the invariant of the pool.
LEMMA PoolInvInit == PoolInit => PoolInv
BY PoolAssumption
   DEF PoolInit, PoolInv, PoolTypeOK, OneTicket, OneHandler, StoppedInOrder, Places,
       Workers, NoWorker

\* The steps of a job outside the workers: Queue, the send to JobQueue, and the
\* receive in Dispatch.
LEMMA JobMoves ==
    ASSUME PoolInv, NEW j \in Jobs, Queue(j) \/ Enqueue(j) \/ Dispatch(j)
    PROVE  PoolInv'
BY DEF PoolInv, PoolTypeOK, OneTicket, OneHandler, StoppedInOrder, Places, Queue,
       Enqueue, Dispatch

\* A goroutine of Dispatch takes the channel of a worker out of WorkerPool.
LEMMA TakeWorkerPreserves ==
    ASSUME PoolInv, NEW j \in Jobs, NEW w \in Workers, TakeWorker(j, w)
    PROVE  PoolInv'
<1> USE DEF TakeWorker
<1>1. PoolTypeOK'
  BY DEF PoolInv, PoolTypeOK, Places
<1>2. OneTicket'
  BY DEF PoolInv, PoolTypeOK, OneTicket
<1>3. OneHandler'
  BY DEF PoolInv, PoolTypeOK, OneHandler
<1>4. StoppedInOrder'
  BY DEF PoolInv, StoppedInOrder
<1> QED BY <1>1, <1>2, <1>3, <1>4 DEF PoolInv

\* The send on the channel of a worker that is ready.
LEMMA DeliverPreserves ==
    ASSUME PoolInv, NEW j \in Jobs, Deliver(j)
    PROVE  PoolInv'
<1> USE DEF Deliver
<1>0. to[j] \in Workers
  BY DEF PoolInv, OneHandler
<1>1. PoolTypeOK'
  BY <1>0 DEF PoolInv, PoolTypeOK, Places
<1>2. OneTicket'
  BY <1>0 DEF PoolInv, PoolTypeOK, OneTicket
<1>3. OneHandler'
  BY <1>0 DEF PoolInv, PoolTypeOK, OneHandler
<1>4. StoppedInOrder'
  BY <1>0 DEF PoolInv, PoolTypeOK, StoppedInOrder
<1> QED BY <1>1, <1>2, <1>3, <1>4 DEF PoolInv

\* A handler returns.
LEMMA HandledPreserves ==
    ASSUME PoolInv, NEW j \in Jobs, Handled(j)
    PROVE  PoolInv'
<1> USE DEF Handled
<1>0. to[j] \in Workers /\ worker[to[j]] = "busy"
  BY DEF PoolInv, OneHandler
<1>1. PoolTypeOK'
  BY <1>0 DEF PoolInv, PoolTypeOK, Places
<1>2. OneTicket'
  BY <1>0 DEF PoolInv, PoolTypeOK, OneTicket
<1>3. OneHandler'
  BY <1>0 DEF PoolInv, PoolTypeOK, OneHandler
<1>4. StoppedInOrder'
  BY <1>0 DEF PoolInv, PoolTypeOK, StoppedInOrder
<1> QED BY <1>1, <1>2, <1>3, <1>4 DEF PoolInv

\* The two steps a worker takes alone.
LEMMA WorkerMoves ==
    ASSUME PoolInv, NEW w \in Workers, RegisterWorker(w) \/ QuitWorker(w)
    PROVE  PoolInv'
<1> USE DEF RegisterWorker, QuitWorker
<1>1. PoolTypeOK'
  BY DEF PoolInv, PoolTypeOK, Places
<1>2. OneTicket'
  BY DEF PoolInv, PoolTypeOK, OneTicket
<1>3. OneHandler'
  BY DEF PoolInv, PoolTypeOK, OneHandler
<1>4. StoppedInOrder'
  BY DEF PoolInv, PoolTypeOK, StoppedInOrder
<1> QED BY <1>1, <1>2, <1>3, <1>4 DEF PoolInv

\* Dispatch sees quit, and goes from one worker to the next.
LEMMA StopMoves ==
    ASSUME PoolInv, StopNext \/ DispatchQuit
    PROVE  PoolInv'
<1> USE PoolAssumption DEF StopNext, DispatchQuit, Workers
<1>0. stopping' \in 0..NumWorkers + 1
  BY DEF PoolInv, PoolTypeOK
<1>1. PoolTypeOK'
  <2>1. /\ place' = place /\ to' = to
        /\ worker' = worker /\ pool' = pool
    OBVIOUS
  <2> QED BY <1>0, <2>1 DEF PoolInv, PoolTypeOK
<1>2. OneTicket' /\ OneHandler'
  BY DEF PoolInv, OneTicket, OneHandler
<1>3. StoppedInOrder'
  BY DEF PoolInv, PoolTypeOK, StoppedInOrder
<1> QED BY <1>1, <1>2, <1>3 DEF PoolInv

\* The steps the pool takes by itself.
LEMMA PoolStepPreserves == PoolInv /\ PoolStep => PoolInv'
<1> SUFFICES ASSUME PoolInv, PoolStep PROVE PoolInv'
  OBVIOUS
<1>1. CASE \E j \in Jobs : Enqueue(j) \/ Dispatch(j) \/ Deliver(j)
  BY <1>1, JobMoves, DeliverPreserves
<1>2. CASE \E j \in Jobs, w \in Workers : TakeWorker(j, w)
  BY <1>2, TakeWorkerPreserves
<1>3. CASE \E w \in Workers : RegisterWorker(w) \/ QuitWorker(w)
  BY <1>3, WorkerMoves
<1>4. CASE StopNext
  BY <1>4, StopMoves
<1> QED BY <1>1, <1>2, <1>3, <1>4 DEF PoolStep

(***************************************************************************)
(* The health checker.                                                     *)
(***************************************************************************)

\* Every job that is on its way carries an item.
JobHasItem == \A j \in Jobs : place[j] # "free" => copy[j] \in Items

\* The inductive invariant of the checker: the pool, the item and its copies.
HInv == PoolInv /\ TypeOK /\ JobHasItem /\ StatusIsEarned

\* A key that does not exist is not an item.
LEMMA NoItemIsNone == NoItem \notin Items
BY DEF NoItem, Items

\* statusUp keeps the status of an item within its limits, and adds one at most.
LEMMA StatusUpBounds ==
    ASSUME NEW s \in DownCount..UpCount
    PROVE  /\ StatusUp(s) \in DownCount..UpCount
           /\ StatusUp(s) <= 1 \/ StatusUp(s) <= s + 1
BY HealthAssumption DEF StatusUp

\* statusDown keeps the status of an item within its limits, and never raises it.
LEMMA StatusDownBounds ==
    ASSUME NEW s \in DownCount..UpCount
    PROVE  StatusDown(s) \in DownCount..UpCount /\ StatusDown(s) <= s
BY HealthAssumption DEF StatusDown

\* What the handler stores is an item again, of the same configuration, and is
\* earned by the check if there is one.
LEMMA CheckedIsEarned ==
    ASSUME NEW i \in Items, NEW err \in BOOLEAN, NEW n \in 0..UpCount,
           i.conf \notin Unknown => i.status <= n,
           i.conf \in Unknown => ~err
    PROVE  /\ Checked(i, err) \in Items
           /\ Checked(i, err).conf = i.conf
           /\ i.conf \notin Unknown =>
                Checked(i, err).status <= IF ~err /\ n < UpCount THEN n + 1 ELSE n
<1>1. i.status \in DownCount..UpCount
  BY DEF Items
<1>2. /\ Checked(i, err).status = IF err THEN StatusDown(i.status) ELSE StatusUp(i.status)
      /\ Checked(i, err).conf = i.conf
  BY DEF Checked, Items
<1>3. StatusUp(i.status) \in DownCount..UpCount /\ StatusDown(i.status) \in DownCount..UpCount
  BY <1>1, StatusUpBounds, StatusDownBounds
<1>4. Checked(i, err) \in Items
  BY <1>3 DEF Checked, Items
<1>5. CASE err
  <2>1. Checked(i, err).status = StatusDown(i.status)
    BY <1>2, <1>5
  <2>2. StatusDown(i.status) <= i.status
    BY <1>1, StatusDownBounds
  <2>3. i.conf \notin Unknown => StatusDown(i.status) <= n
    BY <1>1, <1>3, <2>2, HealthAssumption
  <2> QED BY <1>2, <1>4, <1>5, <2>1, <2>3
<1>6. CASE ~err
  <2>1. Checked(i, err).status = StatusUp(i.status)
    BY <1>2, <1>6
  <2>2. i.conf \notin Unknown => StatusUp(i.status) <= IF n < UpCount THEN n + 1 ELSE n
    BY <1>1, <1>3, StatusUpBounds, HealthAssumption
  <2> QED BY <1>2, <1>4, <1>6, <2>1, <2>2
<1> QED BY <1>5, <1>6

\* The checker starts within its invariant.
LEMMA HInvInit == Init => HInv
<1> SUFFICES ASSUME Init PROVE HInv
  OBVIOUS
<1>1. PoolInv
  BY PoolInvInit DEF Init
<1>2. TypeOK
  <2>1. 0 \in 0..UpCount /\ 0 \in 0..MaxChanges /\ 0 \in 0..MaxFailures /\ 0 \in Confs
    BY HealthAssumption
  <2>2. PoolTypeOK
    BY <1>1 DEF PoolInv
  <2>3. copy \in [Jobs -> Items \union {NoItem}]
    BY DEF Init
  <2>4. ups \in [Confs -> 0..UpCount]
    BY <2>1 DEF Init
  <2> QED BY <2>1, <2>2, <2>3, <2>4, Zenon DEF Init, TypeOK
<1>3. JobHasItem /\ StatusIsEarned
  BY DEF Init, JobHasItem, StatusIsEarned, PoolInit, NoItem
<1> QED BY <1>1, <1>2, <1>3 DEF HInv

\* A step that leaves the pool alone keeps its invariant.
LEMMA PoolStutters == PoolInv /\ UNCHANGED poolVars => PoolInv'
BY DEF PoolInv, PoolTypeOK, OneTicket, OneHandler, StoppedInOrder, poolVars

\* The bound on failing calls.
LEMMA FailBounded ==
    ASSUME TypeOK, Fail \/ UNCHANGED failures
    PROVE  failures' \in 0..MaxFailures
BY HealthAssumption DEF TypeOK, Fail

\* The steps of Start other than queueing a job.
LEMMA LoopMoves ==
    ASSUME HInv, ListItems \/ CheckTick \/ SkipItem \/ LoopQuit
    PROVE  TypeOK' /\ UNCHANGED <<poolVars, item, copy, ups>>
<1>1. TypeOK /\ PoolInv
  BY DEF HInv
<1>2. UNCHANGED <<poolVars, keyVars, copy, transferVars, shut, worldVars, ups>>
  BY DEF ListItems, CheckTick, SkipItem, LoopQuit
<1>3. PoolTypeOK' /\ failures' \in 0..MaxFailures
  <2>1. Fail \/ UNCHANGED failures
    BY DEF ListItems, CheckTick, SkipItem, LoopQuit
  <2> QED BY <1>1, <1>2, <2>1, FailBounded, PoolStutters DEF PoolInv
<1>4. looping' \in {"new", "list", "select", "each", "returned"} /\ listed' \in BOOLEAN
  BY <1>1, Zenon DEF TypeOK, ListItems, CheckTick, SkipItem, LoopQuit
<1>5. TypeOK'
  BY <1>1, <1>2, <1>3, <1>4 DEF TypeOK, keyVars, transferVars, worldVars
<1> QED BY <1>2, <1>5 DEF keyVars

\* The steps of Transfer that do not store an item.
LEMMA TransferMoves ==
    ASSUME HInv, TransferVisit \/ TransferGet \/ TransferExpire \/ TransferQuit
    PROVE  TypeOK' /\ UNCHANGED <<poolVars, item, copy, ups>>
<1>1. TypeOK /\ PoolInv
  BY DEF HInv
<1>2. UNCHANGED <<poolVars, item, due, loopVars, copy, shut, worldVars, ups>>
  BY DEF TransferVisit, TransferGet, TransferExpire, TransferQuit, keyVars
<1>3. PoolTypeOK' /\ failures' \in 0..MaxFailures
  <2>1. Fail \/ UNCHANGED failures
    BY DEF TransferVisit, TransferGet, TransferExpire, TransferQuit
  <2> QED BY <1>1, <1>2, <2>1, FailBounded, PoolStutters DEF PoolInv
<1>4. transfer' \in {"new", "visit", "get", "set", "expire", "returned"} /\ seen' \in Confs
  BY <1>1, HealthAssumption
     DEF TypeOK, TransferVisit, TransferGet, TransferExpire, TransferQuit, transferVars
<1>5. ttl' \in BOOLEAN
  BY <1>1, Zenon
     DEF TypeOK, TransferVisit, TransferGet, TransferExpire, TransferQuit, keyVars
<1>6. TypeOK'
  BY <1>1, <1>2, <1>3, <1>4, <1>5 DEF TypeOK, loopVars, worldVars
<1> QED BY <1>2, <1>6

\* The call of Start.
LEMMA StartMoves ==
    ASSUME HInv, Start
    PROVE  TypeOK' /\ UNCHANGED <<poolVars, item, copy, ups>>
<1>1. TypeOK /\ PoolInv
  BY DEF HInv
<1>2. PoolTypeOK'
  BY <1>1, PoolStutters DEF PoolInv, Start
<1>3. TypeOK'
  BY <1>1, <1>2 DEF TypeOK, Start, keyVars, worldVars
<1> QED BY <1>3 DEF Start, keyVars

\* ShutDown, the time and the zone data.
LEMMA WorldMoves ==
    ASSUME HInv, ShutDown \/ ShutDownReturns \/ Later \/ Change
    PROVE  TypeOK' /\ UNCHANGED <<poolVars, item, copy, ups>>
<1>1. TypeOK /\ PoolInv
  BY DEF HInv
<1>2. UNCHANGED <<poolVars, item, ttl, loopVars, copy, transferVars, ups, failures>>
  BY DEF ShutDown, ShutDownReturns, Later, Change, keyVars
<1>3. PoolTypeOK'
  BY <1>1, <1>2, PoolStutters DEF PoolInv
<1>4. changes' \in 0..MaxChanges
  BY <1>1, HealthAssumption
     DEF TypeOK, ShutDown, ShutDownReturns, Later, Change, worldVars
<1>5. conf' \in Confs /\ shut' \in {"running", "stopping", "waiting", "returned"}
  BY <1>1 DEF TypeOK, ShutDown, ShutDownReturns, Later, Change, worldVars
<1>6. due' \in BOOLEAN
  BY <1>1, Zenon DEF TypeOK, ShutDown, ShutDownReturns, Later, Change, keyVars
<1>7. TypeOK'
  BY <1>1, <1>2, <1>3, <1>4, <1>5, <1>6 DEF TypeOK, loopVars, transferVars
<1> QED BY <1>2, <1>7

\* A step that leaves the pool, the item and the copies alone.
LEMMA OutsideMoves ==
    ASSUME HInv, TypeOK', UNCHANGED <<poolVars, item, copy, ups>>
    PROVE  HInv'
<1>1. PoolInv'
  BY PoolStutters DEF HInv
<1>2. JobHasItem' /\ StatusIsEarned'
  BY DEF HInv, JobHasItem, StatusIsEarned, poolVars
<1> QED BY <1>1, <1>2 DEF HInv

\* A step of the pool moves jobs that have an item, and makes none.
LEMMA PoolRunsPreserves ==
    ASSUME HInv, PoolRuns \/ StopDispatcher
    PROVE  HInv'
<1>1. /\ PoolStep \/ DispatchQuit \/ UNCHANGED poolVars
      /\ UNCHANGED <<keyVars, loopVars, copy, transferVars, worldVars, ups, failures>>
  BY DEF PoolRuns, StopDispatcher
<1>2. PoolInv'
  BY <1>1, PoolStepPreserves, StopMoves, PoolStutters DEF HInv
<1>3. TypeOK'
  <2>1. shut' \in {"running", "stopping", "waiting", "returned"}
    BY DEF HInv, TypeOK, PoolRuns, StopDispatcher
  <2> QED BY <1>1, <1>2, <2>1
          DEF HInv, TypeOK, PoolInv, keyVars, loopVars, transferVars, worldVars
<1>4. \A j \in Jobs : place'[j] # "free" => place[j] # "free"
  BY <1>1 DEF HInv, TypeOK, PoolTypeOK, PoolStep, Enqueue, Dispatch, Deliver, TakeWorker,
          RegisterWorker, QuitWorker, StopNext, DispatchQuit, poolVars
<1>5. JobHasItem'
  BY <1>1, <1>4 DEF HInv, JobHasItem
<1>6. StatusIsEarned'
  BY <1>1 DEF HInv, StatusIsEarned, keyVars
<1> QED BY <1>2, <1>3, <1>5, <1>6 DEF HInv

\* A job gets the item that was read.
LEMMA QueueItemPreserves ==
    ASSUME HInv, NEW j \in Jobs, QueueItem(j)
    PROVE  HInv'
<1>1. PoolInv'
  BY JobMoves DEF HInv, QueueItem
<1>2. item \in Items
  BY DEF HInv, TypeOK, QueueItem
<1>3. TypeOK'
  <2>1. copy' \in [Jobs -> Items \union {NoItem}]
    BY <1>2 DEF HInv, TypeOK, QueueItem
  <2>2. looping' \in {"new", "list", "select", "each", "returned"}
    BY DEF QueueItem
  <2> QED BY <1>1, <2>1, <2>2
          DEF HInv, TypeOK, PoolInv, QueueItem, keyVars, transferVars, worldVars
<1>4. JobHasItem'
  BY <1>2 DEF HInv, TypeOK, PoolTypeOK, JobHasItem, QueueItem, Queue
<1>5. StatusIsEarned'
  BY DEF HInv, TypeOK, StatusIsEarned, QueueItem, keyVars
<1> QED BY <1>1, <1>3, <1>4, <1>5 DEF HInv

\* A handler stores its copy, with the result of its check.
LEMMA HandlePreserves ==
    ASSUME HInv, NEW j \in Jobs, NEW err \in BOOLEAN, HandleHealthCheck(j, err)
    PROVE  HInv'
<1>1. PoolInv'
  BY HandledPreserves DEF HInv, HandleHealthCheck
<1>2. copy[j] \in Items /\ copy[j] # NoItem
  BY NoItemIsNone DEF HInv, JobHasItem, HandleHealthCheck, Handled
<1>3. PICK c \in Confs : c = copy[j].conf
  BY <1>2 DEF Items
<1>4. PICK n \in 0..UpCount : n = ups[c]
  BY <1>3 DEF HInv, TypeOK
<1>5. /\ c \notin Unknown => copy[j].status <= n
      /\ c \in Unknown => ~err
  BY <1>2, <1>3, <1>4 DEF HInv, StatusIsEarned, HandleHealthCheck
<1>a. PICK m \in 0..UpCount :
         m = IF ~err /\ c \notin Unknown /\ n < UpCount THEN n + 1 ELSE n
  BY <1>4, HealthAssumption
<1>b. ups' = [ups EXCEPT ![c] = m] /\ n <= m
  BY <1>3, <1>4, <1>a, HealthAssumption DEF HandleHealthCheck
<1>c. /\ Checked(copy[j], err) \in Items
      /\ Checked(copy[j], err).conf = c
      /\ c \notin Unknown => Checked(copy[j], err).status <= m
  BY <1>2, <1>3, <1>4, <1>5, <1>a, CheckedIsEarned
<1>d. /\ ups' \in [Confs -> 0..UpCount]
      /\ \A k \in Confs : ups[k] <= ups'[k]
      /\ ups'[c] = m
  BY <1>3, <1>4, <1>b, HealthAssumption DEF HInv, TypeOK
<1>6. item' = Checked(copy[j], err) \/ item' = item
  BY DEF HandleHealthCheck, keyVars
<1>7. TypeOK'
  <2>1. copy' \in [Jobs -> Items \union {NoItem}]
    BY DEF HInv, TypeOK, HandleHealthCheck
  <2>2. item' \in Items \union {NoItem}
    BY <1>6, <1>c DEF HInv, TypeOK
  <2>3. ttl' \in BOOLEAN /\ due' \in BOOLEAN
    BY Zenon DEF HInv, TypeOK, HandleHealthCheck, keyVars
  <2>4. failures' \in 0..MaxFailures
    BY FailBounded DEF HInv, HandleHealthCheck
  <2> QED BY <1>1, <1>d, <2>1, <2>2, <2>3, <2>4
          DEF HInv, TypeOK, PoolInv, HandleHealthCheck, loopVars, transferVars, worldVars
<1>8. JobHasItem'
  BY DEF HInv, TypeOK, PoolTypeOK, JobHasItem, HandleHealthCheck, Handled
<1>9. StatusIsEarned'
  <2> SUFFICES ASSUME NEW i \in {item'} \union {copy'[k] : k \in Jobs}, i # NoItem,
                      i.conf \notin Unknown
               PROVE  i.status <= ups'[i.conf]
    BY DEF StatusIsEarned
  <2>1. i = Checked(copy[j], err) \/ i \in {item} \union {copy[k] : k \in Jobs}
    BY <1>6 DEF HInv, TypeOK, HandleHealthCheck
  <2>2. CASE i \in {item} \union {copy[k] : k \in Jobs}
    <3>1. i \in Items /\ i.status <= ups[i.conf]
      BY <2>2 DEF HInv, TypeOK, StatusIsEarned
    <3>2. i.status \in Int /\ i.conf \in Confs
      BY <3>1, HealthAssumption DEF Items
    <3>3. /\ ups[i.conf] \in 0..UpCount /\ ups'[i.conf] \in 0..UpCount
          /\ ups[i.conf] <= ups'[i.conf]
      BY <1>d, <3>2 DEF HInv, TypeOK
    <3> QED BY <3>1, <3>2, <3>3, HealthAssumption
  <2>3. CASE i = Checked(copy[j], err)
    BY <1>c, <1>d, <2>3
  <2> QED BY <2>1, <2>2, <2>3
<1> QED BY <1>1, <1>7, <1>8, <1>9 DEF HInv

\* Transfer stores a new item, and an expiry removes it.
LEMMA KeyMoves ==
    ASSUME HInv, TransferSet \/ ExpireKey
    PROVE  HInv'
<1>1. UNCHANGED <<poolVars, loopVars, copy, seen, shut, worldVars, ups>>
  BY DEF TransferSet, ExpireKey, transferVars
<1>2. PoolInv'
  BY <1>1, PoolStutters DEF HInv
<1>3. item' = item \/ item' = NoItem \/ item' = [conf |-> seen, status |-> 0]
  BY DEF TransferSet, ExpireKey, keyVars
<1>4. [conf |-> seen, status |-> 0] \in Items
  BY HealthAssumption DEF HInv, TypeOK, Items
<1>5. TypeOK'
  <2>1. item' \in Items \union {NoItem}
    BY <1>3, <1>4 DEF HInv, TypeOK
  <2>2. ttl' \in BOOLEAN /\ due' \in BOOLEAN
    BY Zenon DEF HInv, TypeOK, TransferSet, ExpireKey, keyVars
  <2>3. failures' \in 0..MaxFailures
    <3>1. Fail \/ UNCHANGED failures
      BY DEF TransferSet, ExpireKey
    <3> QED BY <3>1, FailBounded DEF HInv
  <2>4. transfer' \in {"new", "visit", "get", "set", "expire", "returned"}
    BY DEF HInv, TypeOK, TransferSet, ExpireKey, transferVars
  <2> QED BY <1>1, <1>2, <2>1, <2>2, <2>3, <2>4
          DEF HInv, TypeOK, PoolInv, loopVars, worldVars
<1>6. JobHasItem'
  BY <1>1 DEF HInv, JobHasItem, poolVars
<1>7. StatusIsEarned'
  <2>1. seen \in Confs /\ ups[seen] \in 0..UpCount
    BY DEF HInv, TypeOK
  <2>2. 0 <= ups[seen]
    BY <2>1, HealthAssumption
  <2> QED BY <1>1, <1>3, <2>2 DEF HInv, StatusIsEarned
<1> QED BY <1>2, <1>5, <1>6, <1>7 DEF HInv

\* No step of the checker leaves the invariant.
LEMMA HInvNext == HInv /\ [Next]_vars => HInv'
<1> SUFFICES ASSUME HInv, [Next]_vars PROVE HInv'
  OBVIOUS
<1>0. CASE Start
  BY <1>0, StartMoves, OutsideMoves
<1>1. CASE PoolRuns \/ StopDispatcher
  BY <1>1, PoolRunsPreserves
<1>2. CASE \E j \in Jobs, err \in BOOLEAN : HandleHealthCheck(j, err)
  BY <1>2, HandlePreserves
<1>3. CASE LoopStep
  BY <1>3, LoopMoves, OutsideMoves, QueueItemPreserves DEF LoopStep
<1>4. CASE TransferStep
  BY <1>4, TransferMoves, OutsideMoves, KeyMoves DEF TransferStep
<1>5. CASE ShutDown \/ ShutDownReturns \/ Later \/ Change
  BY <1>5, WorldMoves, OutsideMoves
<1>6. CASE ExpireKey
  BY <1>6, KeyMoves
<1>7. CASE UNCHANGED vars
  <2>1. TypeOK'
    BY <1>7, PoolStutters
       DEF vars, HInv, TypeOK, PoolInv, keyVars, loopVars, transferVars, worldVars
  <2> QED BY <1>7, <2>1, OutsideMoves DEF vars, keyVars
<1> QED BY <1>0, <1>1, <1>2, <1>3, <1>4, <1>5, <1>6, <1>7 DEF Next

(***************************************************************************)
(* The theorems.                                                           *)
(***************************************************************************)

\* The inductive invariant holds for ever.
THEOREM Invariance == Spec => []HInv
<1>1. Init /\ [][Next]_vars => []HInv
  BY HInvInit, HInvNext, PTL
<1> QED BY <1>1, PTL DEF Spec

\* Every variable of the pool and of the checker keeps its type; in particular
\* statusUp and statusDown never take a status beyond up_count or down_count.
THEOREM TypeCorrect == Spec => []TypeOK
<1>1. HInv => TypeOK
  BY DEF HInv
<1> QED BY <1>1, Invariance, PTL

\* The channel of a worker that is ready is in WorkerPool or with one job, and
\* that of another worker is not: workers never wait to register.
THEOREM TicketIsUnique == Spec => []OneTicket
<1>1. HInv => OneTicket
  BY DEF HInv, PoolInv
<1> QED BY <1>1, Invariance, PTL

\* When Dispatcher.Stop has returned, no worker runs a handler.
THEOREM StopIsFinal == Spec => []StoppedIsIdle
<1>1. HInv => StoppedIsIdle
  BY PoolAssumption DEF HInv, PoolInv, StoppedInOrder, StoppedIsIdle, Stopped, Workers
<1> QED BY <1>1, Invariance, PTL

\* An address is up n times under a configuration whose protocol is known only
\* after n successful checks with that configuration, however the jobs and Transfer
\* interleave.
THEOREM StatusEarned == Spec => []StatusIsEarned
<1>1. HInv => StatusIsEarned
  BY DEF HInv
<1> QED BY <1>1, Invariance, PTL
=============================================================================
