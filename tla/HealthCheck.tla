---------------------------- MODULE HealthCheck ----------------------------
(***************************************************************************)
(* healthcheck.Healthcheck for one address of one location: Start, which   *)
(* queues a check of every due item, the handler that checks the address   *)
(* and stores the item, and Transfer, which keeps the items equal to the   *)
(* configuration in the zone data.  They meet in one Redis key.  The       *)
(* handler works on a copy read when the job was queued; SET removes the   *)
(* expiry of the key, and only Transfer sets it again.                     *)
(*                                                                         *)
(* A configuration is a number, 0 if health checks are not enabled for the *)
(* record; it is Nowhere if the zones have no location at all, where       *)
(* Transfer spins and never looks at h.quit.  down_count is negative, as   *)
(* in the documentation, and neither count is zero (with an up_count of 0  *)
(* the first success after a failure stores 1).  A check may succeed or    *)
(* fail at any time; with a protocol that the handler does not know there  *)
(* is no check, and no error either: the status goes up.                   *)
(***************************************************************************)
EXTENDS WorkerPool, Integers

CONSTANTS Confs,         \* configurations of the record, with 0
          Nowhere,       \* no zone has a location
          Unknown,       \* configurations whose protocol the handler does not know
          UpCount, DownCount,
          MaxChanges,    \* bound: changes of the configuration
          MaxFailures    \* bound: failing calls, and keys that expire early

ASSUME HealthAssumption ==
    /\ 0 \in Confs
    /\ Unknown \subseteq Confs
    /\ UpCount \in Nat \ {0}
    /\ DownCount \in Int /\ DownCount < 0
    /\ MaxChanges \in Nat /\ MaxFailures \in Nat

VARIABLES conf,        \* the configuration in the zone data
          item,        \* the key in Redis
          ttl,         \* the key has an expiry
          due,         \* the item's LastCheck is more than an interval ago
          looping,     \* where Start is
          listed,      \* the key was among the active ones
          copy,        \* the item of a job
          transfer,    \* where Transfer is
          seen,        \* the configuration it has read
          shut,        \* where ShutDown is
          ups,         \* checks that were made with a configuration and
                       \* succeeded (counted to UpCount)
          changes, failures

keyVars == <<item, ttl, due>>
loopVars == <<looping, listed>>
transferVars == <<transfer, seen>>
worldVars == <<conf, changes>>
vars == <<poolVars, keyVars, loopVars, copy, transferVars, shut, worldVars, ups,
          failures>>

NoItem == [none |-> TRUE]
Items == [conf : Confs, status : DownCount..UpCount]

\* The type invariant of the pool, the loops and the key.
TypeOK ==
    /\ PoolTypeOK
    /\ conf \in Confs
    /\ item \in Items \union {NoItem}
    /\ ttl \in BOOLEAN /\ due \in BOOLEAN
    /\ looping \in {"new", "list", "select", "each", "returned"} /\ listed \in BOOLEAN
    /\ copy \in [Jobs -> Items \union {NoItem}]
    /\ transfer \in {"new", "visit", "get", "set", "expire", "returned"}
    /\ seen \in Confs
    /\ shut \in {"running", "stopping", "waiting", "returned"}
    /\ ups \in [Confs -> 0..UpCount]
    /\ changes \in 0..MaxChanges /\ failures \in 0..MaxFailures

Init ==
    /\ PoolInit
    /\ conf \in Confs
    /\ item = NoItem /\ ttl = FALSE /\ due = FALSE
    /\ looping = "new" /\ listed = FALSE
    /\ copy = [j \in Jobs |-> NoItem]
    /\ transfer = "new" /\ seen = 0
    /\ shut = "running"
    /\ ups = [c \in Confs |-> 0]
    /\ changes = 0 /\ failures = 0

Fail == failures < MaxFailures /\ failures' = failures + 1

Enabled == conf \notin {0, Nowhere}

(***************************************************************************)
(* Start.                                                                  *)
(***************************************************************************)
\* dispatcher.Run() and go h.Transfer(), if anybody calls Start at all.
Start ==
    /\ looping = "new"
    /\ looping' = "list" /\ transfer' = "visit"
    /\ UNCHANGED <<poolVars, keyVars, listed, copy, seen, shut, worldVars, ups, failures>>

\* GetActiveHealthcheckItems; an error leaves no keys.
ListItems ==
    /\ looping = "list"
    /\ \/ listed' = (item # NoItem) /\ UNCHANGED failures
       \/ listed' = FALSE /\ Fail
    /\ looping' = "select"
    /\ UNCHANGED <<poolVars, keyVars, copy, transferVars, shut, worldVars, ups>>

CheckTick ==
    /\ looping = "select"
    /\ looping' = IF listed THEN "each" ELSE "list"
    /\ listed' = FALSE
    /\ UNCHANGED <<poolVars, keyVars, copy, transferVars, shut, worldVars,
                   ups, failures>>

\* GetHealthcheckItem, and a job with the item if it is due.
QueueItem(j) ==
    /\ looping = "each"
    /\ item # NoItem /\ due
    /\ Queue(j)
    /\ copy' = [copy EXCEPT ![j] = item]
    /\ looping' = "list"
    /\ UNCHANGED <<keyVars, listed, transferVars, shut, worldVars, ups, failures>>

\* The item is gone, not due, or its read fails.  (Also if all of Jobs are on
\* their way: the bound on jobs must not stop the loop.)
SkipItem ==
    /\ looping = "each"
    /\ \/ (item = NoItem \/ ~due \/ \A j \in Jobs : place[j] # "free")
          /\ UNCHANGED failures
       \/ Fail
    /\ looping' = "list"
    /\ UNCHANGED <<poolVars, keyVars, listed, copy, transferVars, shut, worldVars,
                   ups>>

LoopQuit ==
    /\ looping = "select"
    /\ shut = "waiting"
    /\ looping' = "returned"
    /\ listed' = FALSE
    /\ UNCHANGED <<poolVars, keyVars, copy, transferVars, shut, worldVars,
                   ups, failures>>

(***************************************************************************)
(* HandleHealthCheck.                                                      *)
(***************************************************************************)
StatusUp(s) == IF s < 0 THEN 1 ELSE IF s + 1 > UpCount THEN UpCount ELSE s + 1

StatusDown(s) == IF s > 0 THEN -1 ELSE IF s - 1 < DownCount THEN DownCount ELSE s - 1

Checked(i, err) == [i EXCEPT !.status = IF err THEN StatusDown(@) ELSE StatusUp(@)]

\* The check, if the protocol is a known one, statusUp or statusDown on the copy,
\* and SET, whose error is ignored.
HandleHealthCheck(j, err) ==
    /\ Handled(j)
    /\ copy[j].conf \in Unknown => ~err
    /\ \/ item' = Checked(copy[j], err) /\ ttl' = FALSE /\ due' = FALSE /\ UNCHANGED failures
       \/ Fail /\ UNCHANGED keyVars
    /\ copy' = [copy EXCEPT ![j] = NoItem]
    /\ ups' = [ups EXCEPT ![copy[j].conf] =
                  IF ~err /\ copy[j].conf \notin Unknown /\ @ < UpCount THEN @ + 1 ELSE @]
    /\ UNCHANGED <<loopVars, transferVars, shut, worldVars>>

(***************************************************************************)
(* Transfer.                                                               *)
(***************************************************************************)
TransferVisit ==
    /\ transfer = "visit"
    /\ \/ Enabled /\ transfer' = "get" /\ seen' = conf /\ UNCHANGED failures
       \/ ~Enabled /\ UNCHANGED <<transferVars, failures>>
       \/ Fail /\ UNCHANGED transferVars
    /\ UNCHANGED <<poolVars, keyVars, loopVars, copy, shut, worldVars, ups>>

TransferGet ==
    /\ transfer = "get"
    /\ \/ /\ transfer' = IF item # NoItem /\ item.conf = seen THEN "expire" ELSE "set"
          /\ UNCHANGED failures
       \/ transfer' = "set" /\ Fail
    /\ UNCHANGED <<poolVars, keyVars, loopVars, copy, seen, shut, worldVars, ups>>

\* WRONG: an item whose configuration has changed is kept.
TransferSetKeeping ==
    /\ transfer = "set"
    /\ item' = IF item = NoItem THEN [conf |-> seen, status |-> 0] ELSE item
    /\ ttl' = FALSE /\ due' = TRUE
    /\ transfer' = "expire"
    /\ UNCHANGED <<poolVars, loopVars, copy, seen, shut, worldVars, ups, failures>>

\* WRONG: the new item takes over the status of the one it replaces.
TransferSetKeepingStatus ==
    /\ transfer = "set"
    /\ item' = [conf |-> seen, status |-> IF item = NoItem THEN 0 ELSE item.status]
    /\ ttl' = FALSE /\ due' = TRUE
    /\ transfer' = "expire"
    /\ UNCHANGED <<poolVars, loopVars, copy, seen, shut, worldVars, ups, failures>>

TransferSet ==
    /\ transfer = "set"
    /\ \/ /\ item' = [conf |-> seen, status |-> 0] /\ ttl' = FALSE /\ due' = TRUE
          /\ UNCHANGED failures
       \/ Fail /\ UNCHANGED keyVars
    /\ transfer' = "expire"
    /\ UNCHANGED <<poolVars, loopVars, copy, seen, shut, worldVars, ups>>

TransferExpire ==
    /\ transfer = "expire"
    /\ \/ ttl' = (item # NoItem) /\ UNCHANGED failures
       \/ Fail /\ UNCHANGED ttl
    /\ transfer' = "visit" /\ seen' = 0
    /\ UNCHANGED <<poolVars, item, due, loopVars, copy, shut, worldVars, ups>>

\* The select is inside the loop over the locations.
TransferQuit ==
    /\ transfer = "visit" /\ conf # Nowhere
    /\ shut = "waiting"
    /\ transfer' = "returned"
    /\ UNCHANGED <<poolVars, keyVars, loopVars, copy, seen, shut, worldVars, ups,
                   failures>>

(***************************************************************************)
(* ShutDown: dispatcher.Stop(), then close(h.quit) and Wait.               *)
(***************************************************************************)
ShutDown ==
    /\ shut = "running"
    /\ shut' = "stopping"
    /\ UNCHANGED <<poolVars, keyVars, loopVars, copy, transferVars, worldVars, ups,
                   failures>>

StopDispatcher ==
    /\ shut = "stopping"
    /\ \/ looping # "new" /\ DispatchQuit /\ UNCHANGED shut
       \/ Stopped /\ shut' = "waiting" /\ UNCHANGED poolVars
    /\ UNCHANGED <<keyVars, loopVars, copy, transferVars, worldVars, ups, failures>>

ShutDownReturns ==
    /\ shut = "waiting"
    /\ looping = "returned" /\ transfer = "returned"
    /\ shut' = "returned"
    /\ UNCHANGED <<poolVars, keyVars, loopVars, copy, transferVars, worldVars, ups,
                   failures>>

(***************************************************************************)
(* Time, Redis and the zone data.                                          *)
(***************************************************************************)
Later ==
    /\ item # NoItem /\ ~due
    /\ due' = TRUE
    /\ UNCHANGED <<poolVars, item, ttl, loopVars, copy, transferVars, shut, worldVars,
                   ups, failures>>

\* The key expires, early only if Transfer takes longer than update_interval.
ExpireKey ==
    /\ item # NoItem /\ ttl
    /\ \/ ~Enabled /\ UNCHANGED failures
       \/ Enabled /\ Fail
    /\ item' = NoItem /\ ttl' = FALSE /\ due' = FALSE
    /\ UNCHANGED <<poolVars, loopVars, copy, transferVars, shut, worldVars, ups>>

Change ==
    /\ shut = "running"
    /\ changes < MaxChanges
    /\ changes' = changes + 1
    /\ conf' \in Confs \ {conf}
    /\ UNCHANGED <<poolVars, keyVars, loopVars, copy, transferVars, shut, ups,
                   failures>>

PoolRuns ==
    /\ looping # "new"
    /\ PoolStep
    /\ UNCHANGED <<keyVars, loopVars, copy, transferVars, shut, worldVars, ups,
                   failures>>

LoopStep == ListItems \/ CheckTick \/ (\E j \in Jobs : QueueItem(j)) \/ SkipItem \/ LoopQuit

TransferStep == TransferVisit \/ TransferGet \/ TransferSet \/ TransferExpire \/ TransferQuit

Next ==
    \/ PoolRuns
    \/ \E j \in Jobs, err \in BOOLEAN : HandleHealthCheck(j, err)
    \/ Start \/ LoopStep \/ TransferStep
    \/ ShutDown \/ StopDispatcher \/ ShutDownReturns
    \/ Later \/ ExpireKey \/ Change

\* Every goroutine runs, and select does not pass over quit forever.  Nothing is
\* assumed of time, of Redis, or of anybody who would call Start.
Fairness ==
    /\ \A j \in Jobs :
          /\ WF_vars(\/ PoolRuns /\ (Enqueue(j) \/ Dispatch(j) \/ Deliver(j))
                     \/ \E err \in BOOLEAN : HandleHealthCheck(j, err))
          /\ SF_vars(PoolRuns /\ \E w \in Workers : TakeWorker(j, w))
    /\ \A w \in Workers : WF_vars(PoolRuns /\ (RegisterWorker(w) \/ QuitWorker(w)))
    /\ WF_vars(LoopStep) /\ SF_vars(LoopQuit)
    /\ WF_vars(TransferStep) /\ SF_vars(TransferQuit)
    /\ WF_vars((PoolRuns /\ StopNext) \/ StopDispatcher \/ ShutDownReturns)

Spec == Init /\ [][Next]_vars /\ Fairness

(***************************************************************************)
(* Properties.                                                             *)
(***************************************************************************)

\* Although jobs work on copies, overtake each other, count on from the same
\* status and write back items of an old configuration, a status is earned: an
\* address is n times up under a configuration only after n checks made with
\* that very configuration have succeeded.  A configuration whose protocol the
\* handler does not know is left out: there the status goes up without a check
\* (healthcheck.go:48).
StatusIsEarned ==
    \A i \in {item} \union {copy[j] : j \in Jobs} :
        i # NoItem /\ i.conf \notin Unknown => i.status <= ups[i.conf]

\* Once it was started and until it is shut down, the item of an enabled record
\* takes over a changed configuration again and again, whatever old copies
\* handlers write back.
TakesOverConfig ==
    [](looping # "new" =>
         <>(~Enabled \/ shut # "running" \/ (item # NoItem /\ item.conf = conf)))

\* ShutDown returns: the pool stops although Start goes on queueing jobs, and
\* both loops see h.quit.  Not so if Start is never called, since then nobody
\* answers dispatcher.Stop, nor if there is no location.
Terminates ==
    shut = "stopping" /\ looping # "new" ~> shut = "returned" \/ conf = Nowhere
============================================================================
