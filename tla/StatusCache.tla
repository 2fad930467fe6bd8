---------------------------- MODULE StatusCache ----------------------------
(***************************************************************************)
(* StatHandler, as the resolver's side of the health checks uses it:       *)
(* GetHealthStatus with its cache, which has no time to live, the          *)
(* subscription that is to keep that cache equal to Redis, and             *)
(* Healthcheck.FilterHealthcheck, which asks for the status of every       *)
(* address of a record twice while the checker stores new ones.  The call  *)
(* in DnsRequestHandler.filter is commented out (handler.go:440), so that  *)
(* at present only tests call FilterHealthcheck.                           *)
(*                                                                         *)
(* A key is the sequence of characters after "z42:healthcheck:", and of an *)
(* item only the status is kept.  The cache (ristretto) may drop a Set of  *)
(* a new key and may evict an entry.  FilterHealthcheck of a checker that  *)
(* is not enabled returns its argument, and is left out.                   *)
(***************************************************************************)
EXTENDS NotificationChannel, Integers, SequencesExt

CONSTANTS Callers,       \* goroutines that call FilterHealthcheck
          stat,          \* the subscription to the items
          Calls,         \* arguments of FilterHealthcheck: the addresses of a
                         \* record, as a sequence of keys, and the white ones
          Statuses,      \* what items are stored
          None,          \* no item
          InitStores,    \* contents of Redis at the start
          UpCount, DownCount,
          MaxWrites,     \* bound: items stored or expired
          MaxFaults      \* bound: failing calls and lost connections

ASSUME StatusAssumption ==
    /\ Subs = {stat} /\ Keys \subseteq Seq(STRING)
    /\ \A f \in Calls : /\ f.rrset \in Seq(Keys)
                         /\ f.white \in (SUBSET DOMAIN f.rrset) \ {{}}
    /\ Statuses \subseteq Int /\ None \notin Statuses
    /\ InitStores \subseteq [Keys -> Statuses \union {None}]
    /\ UpCount \in Nat \ {0} /\ DownCount \in Int /\ DownCount < 0
    /\ MaxWrites \in Nat /\ MaxFaults \in Nat

VARIABLES store,         \* the items in Redis
          cache,         \* the items in sh.cache
          stage,         \* where a call is: idle, get, load, set or done
          call,          \* its arguments and local variables
          loaded,        \* the item it has read from Redis
          overtaken,     \* the item was written since
          changed,       \* an answer of GetHealthStatus changed during the call, or
                         \* was not what Redis and the cache said
          cause,         \* why the cached item of a key may differ from Redis
          writes, faults

callVars == <<stage, call, loaded>>
countVars == <<writes, faults>>
statusVars == <<channelVars, store, cache, callVars, overtaken, changed, cause, countVars>>

NoCall == [none |-> TRUE]

StatusInit ==
    /\ ChannelInit
    /\ store \in InitStores
    /\ cache = [k \in Keys |-> None]
    /\ stage = [c \in Callers |-> "idle"]
    /\ call = [c \in Callers |-> NoCall]
    /\ loaded = [c \in Callers |-> None]
    /\ overtaken = [c \in Callers |-> FALSE]
    /\ changed = [c \in Callers |-> FALSE]
    /\ cause = [k \in Keys |-> {}]
    /\ writes = 0 /\ faults = 0

Fail == faults < MaxFaults /\ faults' = faults + 1

\* What GetHealthStatus says of an address if nothing fails.
Answer(k) == IF cache[k] # None THEN cache[k] ELSE IF store[k] # None THEN store[k] ELSE 0

\* A call is disturbed when the answer for one of its addresses changes; a part
\* of every action that can do that.
Watch ==
    changed' = [c \in Callers |->
                  /\ stage'[c] # "idle"
                  /\ changed[c] \/ (stage[c] # "idle" /\ \E i \in DOMAIN call[c].rrset :
                                       Answer(call[c].rrset[i]) # Answer(call[c].rrset[i])')]

(***************************************************************************)
(* FilterHealthcheck.                                                      *)
(***************************************************************************)
\* WRONG: min stays at the best status, also when no address is up.
FloorOfBest(min) == min

\* Between the loops: of addresses that are neither up nor down, all that are
\* not down will do.
Floor(min) == IF min < UpCount - 1 /\ min > DownCount THEN DownCount + 1 ELSE min

\* The call after the address it was at turned out to have status v.  The first
\* loop computes min, the second turns white addresses black.
FilterStep(f, v) ==
    LET i == Min(f.left)
        best == Max({f.min, v}) IN
    CASE f.loop = 1 /\ f.left # {i} -> [f EXCEPT !.left = @ \ {i}, !.min = best]
      [] f.loop = 1 /\ f.left = {i} ->
            [f EXCEPT !.loop = 2, !.left = f.white, !.min = Floor(best)]
      [] f.loop = 2 ->
            [f EXCEPT !.left = @ \ {i}, !.white = IF v < f.min THEN @ \ {i} ELSE @]

FilterHealthcheck(c, f) ==
    /\ stage[c] = "idle"
    /\ call' = [call EXCEPT ![c] = [rrset |-> f.rrset, given |-> f.white, white |-> f.white,
                                    left |-> f.white, loop |-> 1, min |-> DownCount]]
    /\ stage' = [stage EXCEPT ![c] = "get"]
    /\ UNCHANGED <<channelVars, store, cache, loaded, overtaken, changed, cause, countVars>>

\* GetHealthStatus returns v.
Status(c, v) ==
    /\ call' = [call EXCEPT ![c] = FilterStep(@, v)]
    /\ stage' = [stage EXCEPT ![c] = IF call'[c].left = {} THEN "done" ELSE "get"]

FilterReturns(c) ==
    /\ stage[c] = "done"
    /\ stage' = [stage EXCEPT ![c] = "idle"]
    /\ call' = [call EXCEPT ![c] = NoCall]
    /\ changed' = [changed EXCEPT ![c] = FALSE]
    /\ UNCHANGED <<channelVars, store, cache, loaded, overtaken, cause, countVars>>

(***************************************************************************)
(* GetHealthStatus, for the address the call is at.                        *)
(***************************************************************************)
KeyOf(c) == call[c].rrset[Min(call[c].left)]

CacheGet(c) ==
    /\ stage[c] = "get"
    /\ \/ cache[KeyOf(c)] # None /\ Status(c, cache[KeyOf(c)])
       \/ /\ cache[KeyOf(c)] = None
          /\ stage' = [stage EXCEPT ![c] = "load"] /\ UNCHANGED call
    /\ UNCHANGED <<channelVars, store, cache, loaded, overtaken, changed, cause, countVars>>

\* What a call reads past the cache may not be the answer: the read fails, or the
\* item was cached meanwhile, and written since.
Disturbed(c, v) == changed' = [changed EXCEPT ![c] = @ \/ v # Answer(KeyOf(c))]

\* GetHealthcheckItem.  A key that does not exist is an error, as a failing call
\* is: the status is 0, and nothing is cached.
LoadItem(c) ==
    /\ stage[c] = "load"
    /\ \/ /\ store[KeyOf(c)] # None
          /\ loaded' = [loaded EXCEPT ![c] = store[KeyOf(c)]]
          /\ overtaken' = [overtaken EXCEPT ![c] = FALSE]
          /\ stage' = [stage EXCEPT ![c] = "set"]
          /\ Disturbed(c, store[KeyOf(c)])
          /\ UNCHANGED <<call, faults>>
       \/ /\ Fail \/ (store[KeyOf(c)] = None /\ UNCHANGED faults)
          /\ Status(c, 0)
          /\ Disturbed(c, 0)
          /\ UNCHANGED <<loaded, overtaken>>
    /\ UNCHANGED <<channelVars, store, cache, cause, writes>>

CacheSet(c) ==
    /\ stage[c] = "set"
    /\ \/ /\ cache' = [cache EXCEPT ![KeyOf(c)] = loaded[c]]
          /\ cause' = [cause EXCEPT ![KeyOf(c)] = IF overtaken[c] THEN {"overtaken"} ELSE {}]
       \/ /\ cache[KeyOf(c)] = None
          /\ UNCHANGED <<cache, cause>>
    /\ Status(c, loaded[c])
    /\ loaded' = [loaded EXCEPT ![c] = None]
    /\ overtaken' = [overtaken EXCEPT ![c] = FALSE]
    /\ UNCHANGED <<channelVars, store, countVars>>
    /\ Watch

(***************************************************************************)
(* The subscription, whose onStart does nothing, and the cache.            *)
(***************************************************************************)
\* The characters of "z42:healthcheck:".
CutSet == {"z", "4", "2", ":", "h", "e", "a", "l", "t", "c", "k"}

\* WRONG: the channel is taken for the key.
TrimNothing(k) == <<"z", "4", "2", ":">> \o k

\* strings.TrimLeft of "z42:healthcheck:" and k: the second argument is a set of
\* characters, and those k begins with are cut off as well.
TrimLeft(k) ==
    LET kept == {i \in DOMAIN k : k[i] \notin CutSet} IN
    IF kept = {} THEN <<>> ELSE SubSeq(k, Min(kept), Len(k))

\* onMessage: sh.cache.Del(key)
Invalidate ==
    /\ OnMessage(stat)
    /\ cache' = [k \in Keys |-> IF k = TrimLeft(Head(pending[stat])) THEN None ELSE cache[k]]
    /\ UNCHANGED <<store, callVars, overtaken, cause, countVars>>
    /\ Watch

Evict(k) ==
    /\ cache[k] # None
    /\ cache' = [cache EXCEPT ![k] = None]
    /\ UNCHANGED <<channelVars, store, callVars, overtaken, cause, countVars>>
    /\ Watch

ConnectionStep ==
    /\ Connect(stat) \/ Register(stat) \/ Close(stat) \/ OnStart(stat)
    /\ UNCHANGED <<store, cache, callVars, overtaken, changed, cause, countVars>>

LoseConnection ==
    /\ Fail
    /\ Lose(stat)
    /\ cause' = [k \in Keys |->
                   IF \E i \in DOMAIN pending[stat] :
                        i > Len(pending'[stat]) /\ pending[stat][i] = k
                   THEN cause[k] \union {"missed"} ELSE cause[k]]
    /\ UNCHANGED <<store, cache, callVars, overtaken, changed, writes>>

(***************************************************************************)
(* The checker, in any process.                                            *)
(***************************************************************************)
\* SetHealthcheckItem by a check or by Transfer, or the key expires.
Write(k, v) ==
    /\ writes < MaxWrites
    /\ writes' = writes + 1
    /\ store[k] # v
    /\ store' = [store EXCEPT ![k] = v]
    /\ overtaken' = [c \in Callers |-> overtaken[c] \/ (stage[c] = "set" /\ KeyOf(c) = k)]
    /\ \/ Notify(stat, k) /\ UNCHANGED cause
       \/ /\ phase[stat] # "up"
          /\ cause' = [cause EXCEPT ![k] = @ \union {"missed"}]
          /\ UNCHANGED channelVars
    /\ UNCHANGED <<cache, callVars, faults>>
    /\ Watch

\* SetHealthcheckItemExpiration: the item stays, and Redis notifies.
SetHealthcheckItemExpiration(k) ==
    /\ store[k] # None
    /\ Notify(stat, k)
    /\ UNCHANGED <<store, cache, callVars, overtaken, changed, cause, countVars>>

StatusNext ==
    \/ \E c \in Callers :
          \/ \E f \in Calls : FilterHealthcheck(c, f)
          \/ CacheGet(c) \/ LoadItem(c) \/ CacheSet(c) \/ FilterReturns(c)
    \/ Invalidate \/ ConnectionStep \/ LoseConnection
    \/ \E k \in Keys :
          \/ Evict(k) \/ SetHealthcheckItemExpiration(k)
          \/ \E v \in Statuses \union {None} : Write(k, v)

StatusSpec == StatusInit /\ [][StatusNext]_statusVars

(***************************************************************************)
(* Properties.                                                             *)
(***************************************************************************)

\* The keys that TrimLeft leaves alone.
Plain(k) == k # <<>> /\ k[1] \notin CutSet

\* The addresses a record should be answered with, by their statuses: the best
\* ones if any is up or one check away from it, else those that are not down,
\* else all.
Best(f) ==
    LET status == [i \in f.given |-> Answer(f.rrset[i])]
        up == {i \in f.given : status[i] >= UpCount - 1}
        alive == {i \in f.given : status[i] > DownCount} IN
    CASE up # {} -> {i \in up : \A j \in up : status[j] <= status[i]}
      [] up = {} /\ alive # {} -> alive
      [] OTHER -> {i \in f.given : status[i] = DownCount}

\* FilterHealthcheck reads every status twice, once from Redis and once from the
\* cache, or from a cache that is stale, or that is evicted or filled in between.
\* If what it would be told of its addresses stays the same while it runs, and it
\* is told that, it keeps the best ones; a status that falls between its loops, a
\* failing call, or an item that another call has cached and that expires before
\* this one reads it, can leave it with none.
FilterKeepsBest ==
    \A c \in Callers : stage[c] = "done" /\ ~changed[c] => call[c].white = Best(call[c])

\* A cached status is that of Redis, or its notification is on the way, unless
\* the notification was missed or lost, or the item was written between the read
\* and the Set of the call that cached it, or its key begins with a character of
\* "z42:healthcheck:".  Nothing repairs the excepted cases but a later write, a
\* renewal of the expiry or an eviction: a reconnection does not clear the cache.
StaleStatusHasCause ==
    \A k \in Keys :
        cache[k] # None /\ cause[k] = {} /\ Plain(k)
            /\ (\A i \in DOMAIN pending[stat] : pending[stat][i] # k)
        => cache[k] = store[k]
============================================================================
