---------------------------- MODULE RecordCache ----------------------------
(***************************************************************************)
(* DataHandler.getRRSet: a record set is read from Redis by a flight of    *)
(* the singleflight group, which every caller for the same key joins, and  *)
(* is put into a cache; and what writes record sets: SetLocationFromJson,  *)
(* the sets of a location one after the other, each of them or not, with a *)
(* time to live within the bounds; SetRRSet and redis-cli, any value.      *)
(*                                                                         *)
(* The test of a cached set compares the clock with record_cache_timeout,  *)
(* which is a duration: it fails for every sensible value, and a value     *)
(* greater than the clock makes what is cached valid for ever.             *)
(***************************************************************************)
EXTENDS Naturals, Sequences, FiniteSets

CONSTANTS Callers,     \* requests
          Keys,        \* the record sets of a location, by type
          Targets,     \* of every key, what a record set of that type may hold
          Contents,    \* what Redis may hold for the location at first
          Entries,     \* the locations written: sequences of [key, to, ttl]
          Values,      \* what is written directly: [key, val]
          Bad,         \* a value of Redis that does not parse
          None,        \* no value, no caller
          MinTTL, MaxTTL,
          Clock,       \* seconds since 1970
          Timeouts,    \* the values of record_cache_timeout
          MaxWrites,       \* bound: locations and sets that are written
          MaxReadFailures  \* bound: failing commands

Set(to, ttl) == [to |-> to, ttl |-> ttl]

\* The empty record set that a getter passes to getRRSet, and the error of one.
Empty == Set(None, 0)
Error == Set(Bad, 0)

\* A record set of a type: an entry without data is written as a set that is empty.
Sets(k) == [to : Targets[k] \union {None}, ttl : Nat]

\* What Redis may hold for a type: nothing, what does not parse, or a set, where ""
\* counts as Empty; and what is passed to SetLocationFromJson.
Stored(k) == {None, Bad} \union Sets(k)
AnyTarget == {None} \union UNION {Targets[k] : k \in Keys}
Anything == [to : AnyTarget, ttl : Nat]
Location == {r \in [Keys -> {None, Bad} \union Anything] : \A k \in Keys : r[k] \in Stored(k)}
Entry == {e \in [key : Keys, to : AnyTarget, ttl : Nat] :
              e.to \in Targets[e.key] \union {None}}

ASSUME RecordCacheAssumption ==
    /\ None \notin Callers /\ Bad # None
    /\ \A k \in Keys : /\ {None, Bad} \cap Targets[k] = {}
                      /\ {None, Bad} \cap (Sets(k) \union {Empty, Error}) = {}
    /\ MinTTL \in Nat /\ MaxTTL \in Nat /\ Clock \in Nat /\ Timeouts \subseteq Nat
    /\ Contents \subseteq Location /\ Entries \subseteq Seq(Entry)
    /\ \A v \in Values : v.key \in Keys /\ v.val \in Stored(v.key)

VARIABLES history,         \* the contents of Redis, now and at every earlier moment
          recordCache,     \* dh.recordCache
          recordInflight,  \* of every key: who leads a flight, who waits for it, and since when
          rec,             \* of every caller: where it is in getRRSet, for what, with what
          cacheTimeout,    \* dh.config.RecordCacheTimeout
          pending,         \* the sets that SetLocationFromJson still has to write
          writes, readFailures

storeVars == <<history, pending, writes>>
recVars == <<storeVars, recordCache, recordInflight, rec, cacheTimeout, readFailures>>

Present == Len(history)
redis == history[Present]

NoFlight == [leader |-> None, members |-> {}, since |-> 0]
Idle == [pc |-> "idle", key |-> None, val |-> None, since |-> 0]

fixTTL(ttl) ==
    LET raised == IF ttl < MinTTL THEN MinTTL ELSE ttl IN
    IF raised > MaxTTL THEN MaxTTL ELSE raised

\* jsoniter.Unmarshal of what Redis returned.
Parsed(stored) == IF stored = None THEN Empty ELSE stored

RecInit ==
    /\ history \in {<<r>> : r \in Contents}
    /\ recordCache = [k \in Keys |-> None]
    /\ recordInflight = [k \in Keys |-> NoFlight]
    /\ rec = [c \in Callers |-> Idle]
    /\ cacheTimeout \in Timeouts
    /\ pending = <<>>
    /\ writes = 0 /\ readFailures = 0

(***************************************************************************)
(* getRRSet.                                                               *)
(***************************************************************************)
\* WRONG: what is cached is served, and nothing expires.
HitEver(k) == recordCache[k] # None

\* WRONG: the clock is compared the wrong way round.
HitReversed(k) == recordCache[k] # None /\ Clock >= cacheTimeout

Hit(k) == recordCache[k] # None /\ Clock <= cacheTimeout

FromCache(c, k) ==
    /\ Hit(k)
    /\ rec' = [rec EXCEPT ![c] = [pc |-> "done", key |-> k, val |-> recordCache[k],
                                  since |-> Present]]
    /\ UNCHANGED recordInflight

\* recordInflight.Do: lead a flight, or wait for the one that there is.
Do(c, k) ==
    /\ ~Hit(k)
    /\ LET flight == recordInflight[k]
           leads == flight.leader = None
           since == IF leads THEN Present ELSE flight.since
       IN /\ recordInflight' = [recordInflight EXCEPT ![k] =
                [leader |-> IF leads THEN c ELSE flight.leader,
                 members |-> flight.members \union {c}, since |-> since]]
          /\ rec' = [rec EXCEPT ![c] = [pc |-> IF leads THEN "get" ELSE "wait", key |-> k,
                                        val |-> None, since |-> since]]

getRRSet(c, k) ==
    /\ rec[c].pc = "idle"
    /\ FromCache(c, k) \/ Do(c, k)
    /\ UNCHANGED <<storeVars, recordCache, cacheTimeout, readFailures>>

\* The flight ends: all its members have its result.
Land(k, val) ==
    /\ rec' = [c \in Callers |->
                  IF c \in recordInflight[k].members
                  THEN [rec[c] EXCEPT !.pc = "done", !.val = val] ELSE rec[c]]
    /\ recordInflight' = [recordInflight EXCEPT ![k] = NoFlight]

Fails == readFailures < MaxReadFailures /\ readFailures' = readFailures + 1

\* redis.Get fails: the cached set that is at hand comes with the error, and the
\* getters return the error alone.
GetFails(c) == Fails /\ Land(rec[c].key, Error)

RedisGet(c) ==
    /\ rec[c].pc = "get"
    /\ LET k == rec[c].key IN
       \/ GetFails(c)
       \/ redis[k] = Bad /\ Land(k, Error) /\ UNCHANGED readFailures
       \/ /\ redis[k] # Bad
          /\ rec' = [rec EXCEPT ![c] = [@ EXCEPT !.pc = "set", !.val = Parsed(redis[k])]]
          /\ UNCHANGED <<recordInflight, readFailures>>
    /\ UNCHANGED <<storeVars, recordCache, cacheTimeout>>

\* recordCache.Set, which may drop the value, and the end of the flight.
SetCache(c) ==
    /\ rec[c].pc = "set"
    /\ LET k == rec[c].key IN
       /\ recordCache' \in {recordCache, [recordCache EXCEPT ![k] = rec[c].val]}
       /\ Land(k, rec[c].val)
    /\ UNCHANGED <<storeVars, cacheTimeout, readFailures>>

(***************************************************************************)
(* SetLocationFromJson: the types in their order, one command for each; a  *)
(* command that fails is passed over.  EnableLocation, which comes first,  *)
(* adds to the zone of ZoneCache; if it fails nothing is written.          *)
(***************************************************************************)
SetLocationFromJson(entry) ==
    /\ pending = <<>>
    /\ writes < MaxWrites
    /\ pending' = entry
    /\ writes' = writes + 1
    /\ UNCHANGED <<history, recordCache, recordInflight, rec, cacheTimeout, readFailures>>

SetRRSet ==
    /\ pending # <<>>
    /\ pending' = Tail(pending)
    /\ LET e == Head(pending) IN
       \/ /\ history' = Append(history, [redis EXCEPT ![e.key] = Set(e.to, fixTTL(e.ttl))])
          /\ UNCHANGED readFailures
       \/ Fails /\ UNCHANGED history
    /\ UNCHANGED <<writes, recordCache, recordInflight, rec, cacheTimeout>>

\* SetRRSet or SetRRSetFromJson called by themselves, or redis-cli: one value as it
\* is, or a key that is deleted.
SetRRSetFromJson(v) ==
    /\ writes < MaxWrites
    /\ writes' = writes + 1
    /\ history' = Append(history, [redis EXCEPT ![v.key] = v.val])
    /\ UNCHANGED <<pending, recordCache, recordInflight, rec, cacheTimeout, readFailures>>

RecordStep ==
    \/ \E c \in Callers : RedisGet(c) \/ SetCache(c)
    \/ \E e \in Entries : SetLocationFromJson(e)
    \/ \E v \in Values : SetRRSetFromJson(v)
    \/ SetRRSet

(***************************************************************************)
(* Properties.                                                             *)
(***************************************************************************)

\* A record set that getRRSet returns was in Redis at a moment since the call
\* began or, if it joined a flight, since that flight began: nothing older is
\* ever returned, although every set is cached and although sets are rewritten,
\* emptied and deleted meanwhile.  (The exception is a record_cache_timeout that
\* is greater than the clock.)
ReadIsCurrent ==
    \A c \in Callers : LET r == rec[c] IN
        r.pc = "done" /\ r.val # Error /\ Clock > cacheTimeout =>
            \E m \in r.since..Present : r.val = Parsed(history[m][r.key])
=============================================================================
