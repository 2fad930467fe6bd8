----------------------------- MODULE ZoneCache -----------------------------
(***************************************************************************)
(* DataHandler.GetZone for one zone: the zone cache, the single flight     *)
(* that loads the zone from Redis, and the invalidation by the zone-keys   *)
(* subscription.  A load reads the labels, the configuration and, if that  *)
(* enables DNSSEC, the two key pairs, one Redis call each, while others    *)
(* write them; any of the calls can fail, with different consequences.     *)
(*                                                                         *)
(* A Redis value is a number: 0 is an absent or empty one, and any other   *)
(* configuration enables DNSSEC.  Time is the action Expire, by which a    *)
(* cached zone passes its CacheTimeout.  The cache itself (ristretto) may  *)
(* drop a Set of a new key and may evict an entry at any time.             *)
(***************************************************************************)
EXTENDS NotificationChannel

CONSTANTS Clients,       \* goroutines that call GetZone
          zoneKeys,      \* the subscription to the keys of the zones
          zoneName,      \* the zone, as named by a notification
          Values,        \* what a key can hold, 0 if nothing
          InitStores,    \* contents of Redis at the start
          MaxWrites,     \* bound: writes to Redis
          MaxFailures    \* bound: failing Redis calls

KeyFields == {"zskPub", "zskPriv", "kskPub", "kskPriv"}
Fields == {"labels", "config"} \union KeyFields

ASSUME CacheAssumption ==
    /\ Subs = {zoneKeys}
    /\ Keys = {zoneName}
    /\ 0 \in Values
    /\ InitStores \subseteq [Fields -> Values]
    /\ MaxWrites \in Nat /\ MaxFailures \in Nat

VARIABLES store,         \* the keys of the zone in Redis
          cache,         \* the entry of the zone in zoneCache
          fresh,         \* its CacheTimeout has not passed
          reading,       \* the key the flight reads next
          got,           \* what the flight has read
          dnssec,        \* Config.DnsSec of the zone under construction
          pc,            \* where a client is
          found,         \* the zone the client found in the cache
          served,        \* what its last call of GetZone returned
          disturbed,     \* a write or a failure since the flight started
          cause,         \* why the cached zone may differ from Redis
          writes, failures

ghostVars == <<disturbed, cause>>
loadVars == <<reading, got, dnssec>>
clientVars == <<pc, found, served>>
countVars == <<writes, failures>>
vars == <<channelVars, store, cache, fresh, loadVars, clientVars, ghostVars, countVars>>

\* A loaded zone: what was read, and whether answers are signed.
Zone == [data : [Fields -> Values], dnssec : BOOLEAN]
NoZone == [nil |-> TRUE]

Empty == [f \in Fields |-> 0]

\* The type invariant of the cache, the flight and its clients.
TypeOK ==
    /\ ChannelTypeOK
    /\ store \in [Fields -> Values]
    /\ cache \in Zone \union {NoZone}
    /\ fresh \in BOOLEAN
    /\ reading \in Fields \union {"none", "set"}
    /\ got \in [Fields -> Values]
    /\ dnssec \in BOOLEAN
    /\ pc \in [Clients -> {"idle", "missed", "waiting"}]
    /\ found \in [Clients -> Zone \union {NoZone}]
    /\ served \in [Clients -> Zone \union {NoZone}]
    /\ disturbed \in BOOLEAN /\ cause \in SUBSET {"disturbed", "missed"}
    /\ writes \in 0..MaxWrites /\ failures \in 0..MaxFailures

Init ==
    /\ ChannelInit
    /\ store \in InitStores
    /\ cache = NoZone
    /\ fresh = FALSE
    /\ reading = "none"
    /\ got = Empty
    /\ dnssec = FALSE
    /\ pc = [c \in Clients |-> "idle"]
    /\ found = [c \in Clients |-> NoZone]
    /\ served = [c \in Clients |-> NoZone]
    /\ disturbed = FALSE /\ cause = {}
    /\ writes = 0 /\ failures = 0

(***************************************************************************)
(* GetZone: the cache lookup.                                              *)
(***************************************************************************)
\* WRONG: the timeout of the cached zone is not looked at.
CacheHitEver(c) ==
    /\ pc[c] = "idle"
    /\ cache # NoZone
    /\ served' = [served EXCEPT ![c] = cache]
    /\ UNCHANGED <<channelVars, store, cache, fresh, loadVars, pc, found, ghostVars,
                   countVars>>

CacheHit(c) ==
    /\ pc[c] = "idle"
    /\ cache # NoZone /\ fresh
    /\ served' = [served EXCEPT ![c] = cache]
    /\ UNCHANGED <<channelVars, store, cache, fresh, loadVars, pc, found, ghostVars,
                   countVars>>

CacheMiss(c) ==
    /\ pc[c] = "idle"
    /\ ~(cache # NoZone /\ fresh)
    /\ pc' = [pc EXCEPT ![c] = "missed"]
    /\ found' = [found EXCEPT ![c] = cache]
    /\ served' = [served EXCEPT ![c] = NoZone]
    /\ UNCHANGED <<channelVars, store, cache, fresh, loadVars, ghostVars, countVars>>

\* zoneInflight.Do: join the load under way, or start one.
JoinOrStart ==
    /\ reading' = IF reading = "none" THEN "labels" ELSE reading
    /\ UNCHANGED <<got, dnssec>>

\* The cache is not looked at again: a load that ended in between is repeated.
JoinFlight(c) ==
    /\ pc[c] = "missed"
    /\ pc' = [pc EXCEPT ![c] = "waiting"]
    /\ JoinOrStart
    /\ UNCHANGED <<channelVars, store, cache, fresh, found, served, ghostVars, countVars>>

(***************************************************************************)
(* GetZone: the load.                                                      *)
(***************************************************************************)
\* The end of a flight: every client that waits for it gets its answer, or
\* the expired zone it found if there is no answer.  What the flight knew is
\* forgotten with it.
Answer(z) ==
    /\ served' = [c \in Clients |->
                    IF pc[c] # "waiting" THEN served[c]
                    ELSE IF z # NoZone THEN z ELSE found[c]]
    /\ pc' = [c \in Clients |-> IF pc[c] = "waiting" THEN "idle" ELSE pc[c]]
    /\ found' = [c \in Clients |-> IF pc[c] = "waiting" THEN NoZone ELSE found[c]]
    /\ reading' = "none" /\ got' = Empty /\ dnssec' = FALSE
    /\ disturbed' = FALSE

\* The load gives up on DNSSEC as soon as a key is missing.
AfterKey == [zskPub |-> "zskPriv", zskPriv |-> "kskPub",
             kskPub |-> "kskPriv", kskPriv |-> "set"]

\* WRONG: a missing key does not turn DNSSEC off.
GotKeepingDnssec(f, v) ==
    /\ got' = [got EXCEPT ![f] = v]
    /\ dnssec' = IF f = "labels" THEN FALSE ELSE dnssec \/ v # 0
    /\ reading' = CASE f = "labels" -> "config"
                    [] f = "config" -> IF v # 0 THEN "zskPub" ELSE "set"
                    [] OTHER -> IF v # 0 THEN AfterKey[f] ELSE "set"

\* One key read as v: the labels are followed by the configuration, and that
\* by the keys if it enables DNSSEC.
Got(f, v) ==
    /\ got' = [got EXCEPT ![f] = v]
    /\ dnssec' = IF f = "labels" THEN FALSE ELSE v # 0
    /\ reading' = CASE f = "labels" -> "config"
                    [] f = "config" -> IF v # 0 THEN "zskPub" ELSE "set"
                    [] OTHER -> IF v # 0 THEN AfterKey[f] ELSE "set"

ReadKey ==
    /\ reading \in Fields
    /\ Got(reading, store[reading])
    /\ UNCHANGED <<channelVars, store, cache, fresh, clientVars, ghostVars, countVars>>

\* SMembers failed: the flight ends without an answer.
LabelsFail ==
    /\ reading = "labels"
    /\ failures < MaxFailures
    /\ failures' = failures + 1
    /\ Answer(NoZone)
    /\ UNCHANGED <<channelVars, store, cache, fresh, cause, writes>>

\* Get failed: the error is logged, or dropped, and the value is "".
ReadFails ==
    /\ reading \in Fields \ {"labels"}
    /\ failures < MaxFailures
    /\ failures' = failures + 1
    /\ Got(reading, 0)
    /\ disturbed' = TRUE
    /\ UNCHANGED <<channelVars, store, cache, fresh, clientVars, cause, writes>>

Loaded == [data |-> got, dnssec |-> dnssec]

\* The zone is stored and returned.  A Set of a new key may be dropped.
SetAndReturn ==
    /\ reading = "set"
    /\ \/ /\ cache' = Loaded /\ fresh' = TRUE
          /\ cause' = IF disturbed THEN {"disturbed"} ELSE {}
       \/ /\ cache = NoZone
          /\ UNCHANGED <<cache, fresh, cause>>
    /\ Answer(Loaded)
    /\ UNCHANGED <<channelVars, store, countVars>>

(***************************************************************************)
(* The cache, and the zone-keys subscription, whose onStart does nothing.  *)
(***************************************************************************)
Expire ==
    /\ fresh
    /\ fresh' = FALSE
    /\ UNCHANGED <<channelVars, store, cache, loadVars, clientVars, ghostVars, countVars>>

Evict ==
    /\ cache # NoZone
    /\ cache' = NoZone
    /\ fresh' = FALSE
    /\ UNCHANGED <<channelVars, store, loadVars, clientVars, ghostVars, countVars>>

\* WRONG: the message is handled and the zone is kept.
InvalidateNothing ==
    /\ OnMessage(zoneKeys)
    /\ UNCHANGED <<store, cache, fresh, loadVars, clientVars, ghostVars, countVars>>

\* onMessage: dh.zoneCache.Del(zone)
Invalidate ==
    /\ OnMessage(zoneKeys)
    /\ cache' = NoZone
    /\ fresh' = FALSE
    /\ UNCHANGED <<store, loadVars, clientVars, ghostVars, countVars>>

ConnectionStep ==
    /\ Connect(zoneKeys) \/ Register(zoneKeys) \/ Close(zoneKeys) \/ OnStart(zoneKeys)
    /\ UNCHANGED <<store, cache, fresh, loadVars, clientVars, ghostVars, countVars>>

LoseConnection ==
    /\ failures < MaxFailures
    /\ failures' = failures + 1
    /\ Lose(zoneKeys)
    /\ cause' = IF pending' # pending THEN cause \union {"missed"} ELSE cause
    /\ UNCHANGED <<store, cache, fresh, loadVars, clientVars, disturbed, writes>>

(***************************************************************************)
(* SetZoneConfig, SetZoneKey (one write for each half of the pair),        *)
(* EnableLocation, DisableLocation, in any process.                        *)
(***************************************************************************)
Write(f, v) ==
    /\ writes < MaxWrites
    /\ writes' = writes + 1
    /\ store' = [store EXCEPT ![f] = v]
    /\ disturbed' = (reading # "none")
    /\ \/ Notify(zoneKeys, zoneName) /\ cause' = cause
       \/ /\ phase[zoneKeys] # "up"
          /\ cause' = cause \union {"missed"}
          /\ UNCHANGED channelVars
    /\ UNCHANGED <<cache, fresh, loadVars, clientVars, failures>>

Next ==
    \/ \E c \in Clients : CacheHit(c) \/ CacheMiss(c) \/ JoinFlight(c)
    \/ ReadKey \/ LabelsFail \/ ReadFails \/ SetAndReturn
    \/ Expire \/ Evict
    \/ Invalidate \/ ConnectionStep \/ LoseConnection
    \/ \E f \in Fields, v \in Values : Write(f, v)

\* A load goes on while Redis answers, and time passes.  Nothing is assumed of
\* the clients, of the cache or of the subscription.
Fairness ==
    /\ WF_vars(ReadKey)
    /\ WF_vars(SetAndReturn)
    /\ WF_vars(Expire)

Spec == Init /\ [][Next]_vars /\ Fairness

(***************************************************************************)
(* Properties.                                                             *)
(***************************************************************************)

\* The zone that a load of the present contents of Redis would return.
Current(z) ==
    LET keysSet == \A k \in KeyFields : store[k] # 0 IN
    /\ z.data["labels"] = store["labels"]
    /\ z.data["config"] = store["config"]
    /\ z.dnssec = (store["config"] # 0 /\ keysSet)
    /\ z.dnssec => \A k \in KeyFields : z.data[k] = store[k]

\* However long the subscription is down, whatever calls failed, and although
\* a load can be overtaken by the invalidation of what it reads: once Redis is
\* left alone and answers, GetZone ends up returning only current zones, from
\* the cache and from loads.
EventuallyServesCurrent ==
    /\ <>[](\A c \in Clients : ENABLED CacheHit(c) => Current(cache))
    /\ <>[][\A c \in Clients :
               pc[c] = "waiting" /\ pc'[c] = "idle" =>
                   served'[c] # NoZone /\ Current(served'[c])]_vars

\* A zone is served signed only with both key pairs complete, even if a read
\* of a key fails or a key is deleted in the middle of a load.
SignedHasKeys ==
    \A c \in Clients :
        served[c] # NoZone /\ served[c].dnssec =>
            \A k \in KeyFields : served[c].data[k] # 0

\* A cached zone can differ from Redis for the rest of its lifetime in three
\* ways only: its load was overtaken by a write or lost a key to a failing
\* call, or a later write came while the subscription was not registered, or
\* its notification was lost with the connection.
StaleHasCause ==
    cache # NoZone /\ cause = {} /\ pending[zoneKeys] = <<>> => Current(cache)

============================================================================
