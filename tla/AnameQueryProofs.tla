-------------------------- MODULE AnameQueryProofs --------------------------
(***************************************************************************)
(* Proofs about the data of an answer: the record sets that getRRSet       *)
(* returns, the answers of upstream servers, and the requests that use     *)
(* both; for any number of requests, any contents of Redis, any servers    *)
(* and any bounds.                                                         *)
(***************************************************************************)
EXTENDS AnameQuery, TLAPS

(***************************************************************************)
(* The record cache.                                                       *)
(***************************************************************************)

\* A record set, or the empty one.
Parsable(k) == Sets(k) \union {Empty}
AnySet == UNION {Parsable(k) : k \in Keys}

\* A set was in Redis at a moment since the flight that has read it began.
ReadSince(val, k, since) == \E m \in since..Present : val = Parsed(history[m][k])

\* Between two moments the location lost its data of type k.
Emptied(m, n, k) == \E j \in m..(n - 1) : ~Without(j, k) /\ Without(j + 1, k)

\* Data that is there at a moment and missing later was lost at a moment between.
RemovalSeen ==
    \A m, n \in 1..Present : \A k \in Keys :
        m <= n /\ Without(n, k) => Without(m, k) \/ Emptied(m, n, k)

RecTypeOK ==
    /\ history \in Seq(Location) /\ Present > 0
    /\ pending \in Seq(Entry) /\ cacheTimeout \in Timeouts
    /\ recordCache \in [Keys -> AnySet \union {None}]
    /\ recordInflight \in [Keys -> [leader : Callers \union {None}, members : SUBSET Callers,
                                    since : Nat]]
    /\ rec \in [Callers -> [pc : {"idle", "get", "wait", "set", "done"}, key : Keys \union {None},
                            val : AnySet \union {None, Error}, since : Nat]]

\* The members of a flight wait for its key since it began; without a leader
\* there are none.
FlightInv(k) ==
    /\ recordInflight[k].leader = None => recordInflight[k].members = {}
    /\ recordInflight[k].leader # None => recordInflight[k].since \in 1..Present
    /\ \A c \in recordInflight[k].members :
          /\ rec[c].pc \in {"get", "wait", "set"} /\ rec[c].key = k
          /\ rec[c].since = recordInflight[k].since

\* Who reads is in the flight, and a result was in Redis since it began.
CallerInv(c) ==
    /\ rec[c].pc # "idle" => rec[c].key \in Keys /\ rec[c].since \in 1..Present
    /\ rec[c].pc \in {"get", "set"} => c \in recordInflight[rec[c].key].members
    /\ rec[c].pc = "set" =>
          rec[c].val \in Parsable(rec[c].key) /\ ReadSince(rec[c].val, rec[c].key, rec[c].since)
    /\ rec[c].pc = "done" /\ rec[c].val # Error =>
          /\ rec[c].val \in Parsable(rec[c].key)
          /\ Clock > cacheTimeout => ReadSince(rec[c].val, rec[c].key, rec[c].since)

\* The inductive invariant of the record cache.
RecInv ==
    /\ RecTypeOK /\ RemovalSeen
    /\ \A k \in Keys : FlightInv(k) /\ recordCache[k] \in Parsable(k) \union {None}
    /\ \A c \in Callers : CallerInv(c)

\* fixTTL leaves a time to live.
LEMMA FixedTTL == \A t \in Nat : fixTTL(t) \in Nat
BY RecordCacheAssumption DEF fixTTL

\* What is in Redis and parses is a record set or the empty one.
LEMMA ParsedIsParsable ==
    ASSUME RecInv, NEW k \in Keys, NEW m \in 1..Present, history[m][k] # Bad
    PROVE  Parsed(history[m][k]) \in Parsable(k)
<1>1. history[m] \in Location
  BY DEF RecInv, RecTypeOK, Present
<1> QED BY <1>1 DEF Location, Stored, Parsed, Parsable

\* A set without data is read only of a location without data of its type.
LEMMA EmptyIsAbsent ==
    ASSUME RecInv, NEW k \in Keys, NEW m \in 1..Present,
           NEW v \in Parsable(k), v.to = None, v = Parsed(history[m][k])
    PROVE  Without(m, k)
<1>1. v # Bad
  BY RecordCacheAssumption DEF Parsable
<1>2. CASE history[m][k] = None
  BY <1>2 DEF Without
<1>3. CASE history[m][k] # None
  BY <1>1, <1>3 DEF Parsed, Without
<1> QED BY <1>2, <1>3

\* The moments of an unchanged history stay as they are.
LEMMA SameMoments ==
    ASSUME history' = history
    PROVE  RemovalSeen => RemovalSeen'
<1>1. Present' = Present /\ \A m, k : Without(m, k)' <=> Without(m, k)
  BY DEF Without, Present
<1>2. \A m, n, k : Emptied(m, n, k)' <=> Emptied(m, n, k)
  BY <1>1 DEF Emptied
<1> QED BY <1>1, <1>2 DEF RemovalSeen

\* The invariant holds before the first request.
LEMMA RecInvInit == RecInit => RecInv
<1> SUFFICES ASSUME RecInit PROVE RecInv
  OBVIOUS
<1>1. PICK r \in Location : history = <<r>>
  BY RecordCacheAssumption DEF RecInit
<1>2. history \in Seq(Location) /\ Present = 1
  BY <1>1 DEF Present
<1>3. RecTypeOK
  <2>1. NoFlight \in [leader : Callers \union {None}, members : SUBSET Callers, since : Nat]
    BY DEF NoFlight
  <2>2. Idle \in [pc : {"idle", "get", "wait", "set", "done"}, key : Keys \union {None},
                  val : AnySet \union {None, Error}, since : Nat]
    BY DEF Idle
  <2> QED BY <1>2, <2>1, <2>2 DEF RecInit, RecTypeOK
<1>4. RemovalSeen
  <2>1. \A m, n \in 1..Present : m = n
    BY <1>2
  <2> QED BY <2>1 DEF RemovalSeen
<1>5. \A k \in Keys : FlightInv(k) /\ recordCache[k] = None
  BY DEF RecInit, FlightInv, NoFlight
<1>6. \A c \in Callers : CallerInv(c)
  BY DEF RecInit, CallerInv, Idle
<1> QED BY <1>3, <1>4, <1>5, <1>6 DEF RecInv

\* A call of getRRSet finds the set in the cache, or leads or joins a flight.
LEMMA getRRSetPreserves ==
    ASSUME RecInv, NEW c \in Callers, NEW k \in Keys, getRRSet(c, k)
    PROVE  RecInv' /\ rec'[c].pc # "idle" /\ rec'[c].key = k
<1> USE DEF RecInv
<1>1. UNCHANGED <<history, pending, recordCache, cacheTimeout>> /\ rec[c].pc = "idle"
  BY DEF getRRSet, storeVars
<1>2. RemovalSeen' /\ Present' = Present /\ Present \in Nat /\ Present \in 1..Present
  BY <1>1, SameMoments DEF Present, RecTypeOK
<1>3. \A x, j, n : ReadSince(x, j, n)' <=> ReadSince(x, j, n)
  BY <1>1 DEF ReadSince, Present
<1>4. \A j \in Keys : c \notin recordInflight[j].members
  BY <1>1 DEF FlightInv
<1>5. CASE FromCache(c, k)
  <2>1. /\ recordInflight' = recordInflight /\ Clock <= cacheTimeout
        /\ rec' = [rec EXCEPT ![c] = [pc |-> "done", key |-> k, val |-> recordCache[k],
                                      since |-> Present]]
        /\ recordCache[k] \in Parsable(k)
    BY <1>5 DEF FromCache, Hit
  <2>2. \A d \in Callers \ {c} : rec'[d] = rec[d]
    BY <2>1 DEF RecTypeOK
  <2>3. rec'[c] = [pc |-> "done", key |-> k, val |-> recordCache[k], since |-> Present]
    BY <2>1 DEF RecTypeOK
  <2>4. RecTypeOK'
    BY <1>1, <1>2, <2>1 DEF RecTypeOK, AnySet
  <2>5. \A j \in Keys : FlightInv(j)'
    BY <1>2, <1>4, <2>1, <2>2 DEF FlightInv, RecTypeOK
  <2>6. \A d \in Callers : CallerInv(d)'
    <3>1. CallerInv(c)'
      <4>1. ~(Clock > cacheTimeout)
        BY <2>1, RecordCacheAssumption DEF RecTypeOK
      <4>2. /\ rec'[c].pc = "done" /\ rec'[c].key = k /\ rec'[c].val = recordCache[k]
            /\ rec'[c].since = Present
        BY <2>3
      <4> QED BY <1>1, <1>2, <2>1, <4>1, <4>2 DEF CallerInv
    <3>2. \A d \in Callers \ {c} : CallerInv(d)'
      BY <1>1, <1>2, <1>3, <2>1, <2>2 DEF CallerInv
    <3> QED BY <3>1, <3>2
  <2> QED BY <1>1, <1>2, <2>3, <2>4, <2>5, <2>6
<1>6. CASE Do(c, k)
  <2> DEFINE flight == recordInflight[k]
             leads == flight.leader = None
             since == IF leads THEN Present ELSE flight.since
             newFlight == [leader |-> IF leads THEN c ELSE flight.leader,
                           members |-> flight.members \union {c}, since |-> since]
             newRec == [pc |-> IF leads THEN "get" ELSE "wait", key |-> k,
                        val |-> None, since |-> since]
  <2>1. /\ recordInflight' = [recordInflight EXCEPT ![k] = newFlight]
        /\ rec' = [rec EXCEPT ![c] = newRec]
    BY <1>6 DEF Do
  <2>2. since \in 1..Present
    BY <1>2 DEF FlightInv
  <2>3. /\ newFlight \in [leader : Callers \union {None}, members : SUBSET Callers, since : Nat]
        /\ newRec \in [pc : {"idle", "get", "wait", "set", "done"}, key : Keys \union {None},
                       val : AnySet \union {None, Error}, since : Nat]
    BY <2>2 DEF RecTypeOK
  <2>4. RecTypeOK'
    <3> HIDE DEF newFlight, newRec
    <3> QED BY <1>1, <1>2, <2>1, <2>3 DEF RecTypeOK
  <2>5. /\ rec'[c] = newRec /\ \A d \in Callers \ {c} : rec'[d] = rec[d]
        /\ recordInflight'[k] = newFlight
        /\ \A j \in Keys \ {k} : recordInflight'[j] = recordInflight[j]
    <3> HIDE DEF newFlight, newRec
    <3> QED BY <2>1 DEF RecTypeOK
  <2>6. \A j \in Keys : FlightInv(j)'
    <3>1. FlightInv(k)'
      <4>1. newFlight.leader # None /\ newFlight.since \in 1..Present
        BY <2>2, RecordCacheAssumption
      <4>2. \A d \in newFlight.members :
                /\ rec'[d].pc \in {"get", "wait", "set"} /\ rec'[d].key = k
                /\ rec'[d].since = since
        <5> TAKE d \in newFlight.members
        <5>1. CASE d = c
          BY <2>5, <5>1
        <5>2. CASE d # c
          <6>1. d \in flight.members /\ d \in Callers
            BY <5>2 DEF RecTypeOK
          <6>2. ~leads
            BY <6>1 DEF FlightInv
          <6> QED BY <2>5, <5>2, <6>1, <6>2 DEF FlightInv
        <5> QED BY <5>1, <5>2
      <4> HIDE DEF since, leads, flight, newRec
      <4> QED BY <1>2, <2>5, <4>1, <4>2 DEF FlightInv
    <3>2. ASSUME NEW j \in Keys \ {k} PROVE FlightInv(j)'
      <4>1. \A d \in recordInflight[j].members : rec'[d] = rec[d]
        BY <1>4, <2>5 DEF RecTypeOK
      <4>2. FlightInv(j) /\ recordInflight'[j] = recordInflight[j]
        BY <2>5
      <4> HIDE DEF newFlight, newRec
      <4> QED BY <1>2, <4>1, <4>2 DEF FlightInv
    <3> QED BY <3>1, <3>2
  <2>7. \A d \in Callers : CallerInv(d)'
    <3>1. CallerInv(c)'
      BY <1>2, <2>2, <2>5 DEF CallerInv
    <3>2. ASSUME NEW d \in Callers \ {c} PROVE CallerInv(d)'
      <4>1. \A j \in Keys : recordInflight[j].members \subseteq recordInflight'[j].members
        BY <2>5
      <4>2. CallerInv(d) /\ rec'[d] = rec[d]
        BY <2>5
      <4>3. rec[d].pc \in {"get", "set"} => d \in recordInflight'[rec[d].key].members
        BY <4>1, <4>2 DEF CallerInv
      <4> HIDE DEF newFlight, newRec
      <4> QED BY <1>1, <1>2, <1>3, <4>2, <4>3 DEF CallerInv
    <3> QED BY <3>1, <3>2
  <2> QED BY <1>1, <1>2, <2>4, <2>5, <2>6, <2>7
<1> QED BY <1>5, <1>6 DEF getRRSet

\* A result is used, and its caller is free again.
LEMMA TakenPreserves ==
    ASSUME RecInv, NEW c \in Callers, NEW pc, Taken(c, pc)
    PROVE  RecInv'
<1> USE DEF RecInv
<1>1. /\ UNCHANGED <<history, pending, recordCache, recordInflight, cacheTimeout>>
      /\ rec[c].pc = "done" /\ rec' = [rec EXCEPT ![c] = Idle]
  BY DEF Taken, storeVars
<1>2. RemovalSeen' /\ Present' = Present
  BY <1>1, SameMoments DEF Present
<1>3. \A x, j, n : ReadSince(x, j, n)' <=> ReadSince(x, j, n)
  BY <1>1 DEF ReadSince, Present
<1>4. rec'[c] = Idle /\ \A d \in Callers \ {c} : rec'[d] = rec[d]
  BY <1>1 DEF RecTypeOK
<1>5. RecTypeOK'
  BY <1>1, <1>2 DEF RecTypeOK, Idle
<1>6. \A k \in Keys : FlightInv(k)'
  BY <1>1, <1>2, <1>4 DEF FlightInv, RecTypeOK
<1>7. \A d \in Callers : CallerInv(d)'
  <2>1. CallerInv(c)'
    BY <1>4 DEF CallerInv, Idle
  <2>2. \A d \in Callers \ {c} : CallerInv(d)'
    BY <1>1, <1>2, <1>3, <1>4 DEF CallerInv
  <2> QED BY <2>1, <2>2
<1> QED BY <1>1, <1>2, <1>5, <1>6, <1>7

\* The end of a flight with an error, or with a set that was read since it began.
LEMMA LandPreserves ==
    ASSUME RecInv, NEW c \in Callers, rec[c].pc \in {"get", "set"},
           NEW val \in AnySet \union {Error}, Land(rec[c].key, val),
           val # Error => /\ val \in Parsable(rec[c].key)
                          /\ ReadSince(val, rec[c].key, rec[c].since),
           UNCHANGED <<storeVars, cacheTimeout>>,
           recordCache' \in {recordCache, [recordCache EXCEPT ![rec[c].key] = val]},
           recordCache' # recordCache => val # Error
    PROVE  RecInv'
<1> USE DEF RecInv
<1> DEFINE k == rec[c].key
           members == recordInflight[k].members
<1>1. k \in Keys /\ c \in members /\ members \in SUBSET Callers
  BY DEF CallerInv, RecTypeOK
<1>2. \A d \in members : rec[d].key = k /\ rec[d].since = rec[c].since
  BY <1>1 DEF FlightInv
<1>3. UNCHANGED <<history, pending, cacheTimeout>> /\ Present' = Present
  BY DEF storeVars, Present
<1>4. \A x, j, n : ReadSince(x, j, n)' <=> ReadSince(x, j, n)
  BY <1>3 DEF ReadSince
<1>5. /\ recordInflight'[k] = NoFlight
      /\ \A j \in Keys \ {k} : recordInflight'[j] = recordInflight[j]
  BY <1>1 DEF Land, RecTypeOK
<1>6. /\ \A d \in Callers \ members : rec'[d] = rec[d]
      /\ \A d \in members : rec'[d] = [rec[d] EXCEPT !.pc = "done", !.val = val]
  BY <1>1 DEF Land
<1>7. \A d \in members :
          rec'[d] = [pc |-> "done", key |-> k, val |-> val, since |-> rec[c].since]
  <2> TAKE d \in members
  <2>1. rec[d] \in [pc : {"idle", "get", "wait", "set", "done"}, key : Keys \union {None},
                    val : AnySet \union {None, Error}, since : Nat]
    BY <1>1 DEF RecTypeOK
  <2> HIDE DEF members, k
  <2> QED BY <1>2, <1>6, <2>1
<1>8. RecTypeOK'
  <2>1. \A d \in Callers :
            rec'[d] \in [pc : {"idle", "get", "wait", "set", "done"}, key : Keys \union {None},
                         val : AnySet \union {None, Error}, since : Nat]
    <3> TAKE d \in Callers
    <3>1. CASE d \in members
      <4>1. rec[c].since \in Nat
        BY DEF RecTypeOK
      <4> HIDE DEF members, k
      <4> QED BY <1>1, <1>7, <3>1, <4>1
    <3>2. CASE d \notin members
      BY <1>6, <3>2 DEF RecTypeOK
    <3> QED BY <3>1, <3>2
  <2>2. rec' = [d \in Callers |-> rec'[d]]
    BY DEF Land
  <2>3. recordInflight' \in [Keys -> [leader : Callers \union {None}, members : SUBSET Callers,
                                      since : Nat]]
    BY DEF RecTypeOK, Land, NoFlight
  <2>4. recordCache' \in [Keys -> AnySet \union {None}]
    BY <1>1 DEF RecTypeOK
  <2> QED BY <1>3, <2>1, <2>2, <2>3, <2>4 DEF RecTypeOK
<1>9. \A j \in Keys : FlightInv(j)' /\ recordCache'[j] \in Parsable(j) \union {None}
  <2> TAKE j \in Keys
  <2>1. FlightInv(j)'
    <3>1. CASE j = k
      BY <1>5, <3>1 DEF FlightInv, NoFlight
    <3>2. CASE j # k
      <4>1. \A d \in recordInflight[j].members : d \in Callers \ members
        BY <1>2, <3>2 DEF FlightInv, RecTypeOK
      <4>2. FlightInv(j) /\ recordInflight'[j] = recordInflight[j]
        BY <1>5, <3>2
      <4>3. \A d \in recordInflight[j].members : rec'[d] = rec[d]
        BY <1>6, <4>1
      <4> QED BY <1>3, <4>2, <4>3 DEF FlightInv
    <3> QED BY <3>1, <3>2
  <2>2. recordCache'[j] \in Parsable(j) \union {None}
    BY <1>1 DEF RecTypeOK
  <2> QED BY <2>1, <2>2
<1>10. \A d \in Callers : CallerInv(d)'
  <2> TAKE d \in Callers
  <2>1. CASE d \in members
    <3>1. /\ rec'[d].pc = "done" /\ rec'[d].key = k /\ rec'[d].val = val
          /\ rec'[d].since = rec[c].since
      BY <1>7, <2>1
    <3>2. rec[c].since \in 1..Present
      BY DEF CallerInv
    <3> QED BY <1>1, <1>3, <1>4, <3>1, <3>2 DEF CallerInv
  <2>2. CASE d \notin members
    <3>1. rec[d].pc \in {"get", "set"} => rec[d].key # k
      BY <2>2 DEF CallerInv
    <3>2. CallerInv(d) /\ rec'[d] = rec[d]
      BY <1>6, <2>2
    <3>3. rec[d].pc # "idle" => rec[d].key \in Keys
      BY DEF CallerInv
    <3> QED BY <1>3, <1>4, <1>5, <3>1, <3>2, <3>3 DEF CallerInv
  <2> QED BY <2>1, <2>2
<1>11. RemovalSeen'
  BY <1>3, SameMoments
<1> QED BY <1>8, <1>9, <1>10, <1>11

\* The Redis call of a flight: an error ends it, a value goes on to the cache.
LEMMA RedisGetPreserves ==
    ASSUME RecInv, NEW c \in Callers, RedisGet(c)
    PROVE  RecInv'
<1> USE DEF RecInv
<1> DEFINE k == rec[c].key
<1>1. rec[c].pc = "get" /\ UNCHANGED <<storeVars, recordCache, cacheTimeout>>
  BY DEF RedisGet
<1>2. k \in Keys /\ rec[c].since \in 1..Present /\ c \in recordInflight[k].members
  BY <1>1 DEF CallerInv
<1>3. CASE Land(k, Error)
  BY <1>1, <1>3, LandPreserves
<1>4. CASE /\ redis[k] # Bad /\ recordInflight' = recordInflight
           /\ rec' = [rec EXCEPT ![c] = [@ EXCEPT !.pc = "set", !.val = Parsed(redis[k])]]
  <2>1. UNCHANGED <<history, pending>> /\ Present' = Present /\ Present \in 1..Present
    BY <1>1, <1>2 DEF storeVars, Present, RecTypeOK
  <2>2. Parsed(redis[k]) \in Parsable(k)
    BY <1>2, <1>4, <2>1, ParsedIsParsable DEF redis
  <2>3. ReadSince(Parsed(redis[k]), k, rec[c].since)
    BY <1>2, <2>1 DEF ReadSince, redis
  <2>4. \A x, j, n : ReadSince(x, j, n)' <=> ReadSince(x, j, n)
    BY <2>1 DEF ReadSince
  <2>5. /\ rec'[c] = [rec[c] EXCEPT !.pc = "set", !.val = Parsed(redis[k])]
        /\ \A d \in Callers \ {c} : rec'[d] = rec[d]
    BY <1>4 DEF RecTypeOK
  <2>6. rec'[c] = [pc |-> "set", key |-> k, val |-> Parsed(redis[k]), since |-> rec[c].since]
    <3>1. rec[c] \in [pc : {"idle", "get", "wait", "set", "done"}, key : Keys \union {None},
                      val : AnySet \union {None, Error}, since : Nat]
      BY DEF RecTypeOK
    <3>2. ASSUME NEW x, rec'[c] = [rec[c] EXCEPT !.pc = "set", !.val = x]
          PROVE  rec'[c] = [pc |-> "set", key |-> k, val |-> x, since |-> rec[c].since]
      BY <3>1, <3>2
    <3> QED BY <2>5, <3>2
  <2>7. RecTypeOK'
    <3>1. Parsed(redis[k]) \in AnySet
      BY <1>2, <2>2 DEF AnySet
    <3>2. rec'[c] \in [pc : {"idle", "get", "wait", "set", "done"}, key : Keys \union {None},
                       val : AnySet \union {None, Error}, since : Nat]
      BY <1>2, <2>6, <3>1
    <3>3. rec' = [rec EXCEPT ![c] = rec'[c]]
      BY <1>4, <2>5 DEF RecTypeOK
    <3> QED BY <1>1, <1>4, <2>1, <3>2, <3>3 DEF RecTypeOK
  <2>8. \A j \in Keys : FlightInv(j)'
    BY <1>1, <1>4, <2>1, <2>5, <2>6 DEF FlightInv, RecTypeOK
  <2>9. \A d \in Callers : CallerInv(d)'
    <3>1. CallerInv(c)'
      BY <1>2, <1>4, <2>1, <2>2, <2>3, <2>4, <2>6 DEF CallerInv
    <3>2. \A d \in Callers \ {c} : CallerInv(d)'
      BY <1>1, <1>4, <2>1, <2>4, <2>5 DEF CallerInv
    <3> QED BY <3>1, <3>2
  <2>10. RemovalSeen'
    BY <2>1, SameMoments
  <2> QED BY <1>1, <2>7, <2>8, <2>9, <2>10
<1> QED BY <1>3, <1>4 DEF RedisGet, GetFails

\* What was read is put into the cache, or not, and the flight ends.
LEMMA SetCachePreserves ==
    ASSUME RecInv, NEW c \in Callers, SetCache(c)
    PROVE  RecInv'
<1> DEFINE k == rec[c].key
           val == rec[c].val
<1>1. /\ rec[c].pc = "set" /\ Land(k, val) /\ UNCHANGED <<storeVars, cacheTimeout>>
      /\ recordCache' \in {recordCache, [recordCache EXCEPT ![k] = val]}
  BY DEF SetCache
<1>2. k \in Keys /\ val \in Parsable(k) /\ ReadSince(val, k, rec[c].since)
  BY <1>1 DEF RecInv, CallerInv
<1>3. val \in AnySet /\ val # Error
  <2>1. \A x \in Sets(k) : x # Error
    <3>1. Bad \notin Targets[k] /\ Bad # None
      BY <1>2, RecordCacheAssumption
    <3> HIDE DEF k, val
    <3> QED BY <3>1 DEF Sets, Error, Set
  <2>2. Empty # Error
    BY RecordCacheAssumption DEF Empty, Error, Set
  <2> QED BY <1>2, <2>1, <2>2 DEF AnySet, Parsable
<1> QED BY <1>1, <1>2, <1>3, LandPreserves

\* Record sets with more to choose from.
LEMMA MoreTargets ==
    ASSUME NEW T, NEW U, \A x \in T : x \in U
    PROVE  \A x \in [to : T, ttl : Nat] : x \in [to : U, ttl : Nat]
OBVIOUS

\* A location or a set is written: what was read stays read.
LEMMA WritePreserves ==
    ASSUME RecInv, \/ SetRRSet
                   \/ \E e \in Entries : SetLocationFromJson(e)
                   \/ \E v \in Values : SetRRSetFromJson(v)
    PROVE  RecInv' /\ Present' >= Present /\ \A m \in 1..Present : history'[m] = history[m]
<1> USE DEF RecInv
<1>1. UNCHANGED <<recordCache, recordInflight, rec, cacheTimeout>>
  BY DEF SetRRSet, SetLocationFromJson, SetRRSetFromJson
<1>2. pending' \in Seq(Entry)
  <2>1. CASE SetRRSet
    <3>1. pending # <<>> /\ pending' = Tail(pending) /\ pending \in Seq(Entry)
      BY <2>1 DEF SetRRSet, RecTypeOK
    <3> HIDE DEF RecInv
    <3> QED BY <3>1
  <2>2. CASE \E e \in Entries : SetLocationFromJson(e)
    BY <2>2, RecordCacheAssumption DEF SetLocationFromJson
  <2>3. CASE \E v \in Values : SetRRSetFromJson(v)
    BY <2>3 DEF SetRRSetFromJson, RecTypeOK
  <2> QED BY <2>1, <2>2, <2>3
<1>3. history' = history \/ \E r \in Location : history' = Append(history, r)
  <2>1. redis \in Location
    BY DEF redis, Present, RecTypeOK
  <2>2. ASSUME NEW k \in Keys, NEW new \in Stored(k) PROVE [redis EXCEPT ![k] = new] \in Location
    <3>1. new \in {None, Bad} \union Anything
      <4>1. \A x \in Targets[k] \union {None} : x \in AnyTarget
        BY <2>2 DEF AnyTarget
      <4>2. \A x \in Sets(k) : x \in Anything
        BY <4>1, MoreTargets DEF Sets, Anything
      <4> QED BY <2>2, <4>2 DEF Stored
    <3> QED BY <2>1, <2>2, <3>1 DEF Location
  <2>3. CASE SetRRSet /\ history' # history
    <3>1. PICK e \in Entry : e = Head(pending)
      BY <2>3 DEF SetRRSet, RecTypeOK
    <3>2. e.key \in Keys /\ e.to \in Targets[e.key] \union {None} /\ e.ttl \in Nat
      BY <3>1 DEF Entry
    <3>3. Set(e.to, fixTTL(e.ttl)) \in Stored(e.key)
      BY <3>2, FixedTTL DEF Stored, Sets, Set
    <3>4. history' = Append(history, [redis EXCEPT ![e.key] = Set(e.to, fixTTL(e.ttl))])
      BY <2>3, <3>1 DEF SetRRSet
    <3> QED BY <2>2, <3>2, <3>3, <3>4
  <2>4. CASE \E e \in Entries : SetLocationFromJson(e)
    BY <2>4 DEF SetLocationFromJson
  <2>5. CASE \E v \in Values : SetRRSetFromJson(v)
    <3>1. PICK v \in Values : SetRRSetFromJson(v)
      BY <2>5
    <3>2. v.key \in Keys /\ v.val \in Stored(v.key)
      BY RecordCacheAssumption
    <3> QED BY <2>2, <3>1, <3>2 DEF SetRRSetFromJson
  <2> QED BY <2>3, <2>4, <2>5
<1>4. CASE history' = history
  <2>1. Present' = Present
    BY <1>4 DEF Present
  <2>2. \A x, j, n : ReadSince(x, j, n)' <=> ReadSince(x, j, n)
    BY <1>4, <2>1 DEF ReadSince
  <2>3. RecTypeOK' /\ RemovalSeen'
    BY <1>1, <1>2, <1>4, <2>1, SameMoments DEF RecTypeOK
  <2>4. \A k \in Keys : FlightInv(k)'
    BY <1>1, <2>1 DEF FlightInv
  <2>5. \A c \in Callers : CallerInv(c)'
    BY <1>1, <2>1, <2>2 DEF CallerInv
  <2> QED BY <1>1, <1>4, <2>1, <2>3, <2>4, <2>5 DEF RecTypeOK, Present
<1>5. ASSUME NEW r \in Location, history' = Append(history, r)
      PROVE  RecInv' /\ Present' >= Present /\ \A m \in 1..Present : history'[m] = history[m]
  <2>1. /\ history' \in Seq(Location) /\ Present' = Present + 1 /\ Present \in Nat
        /\ \A m \in 1..Present : history'[m] = history[m]
        /\ history'[Present'] = r
    BY <1>5 DEF RecTypeOK, Present
  <2>2. \A x, j, n : n \in 1..Present /\ ReadSince(x, j, n) => ReadSince(x, j, n)'
    BY <2>1 DEF ReadSince
  <2>3. RecTypeOK'
    BY <1>1, <1>2, <2>1 DEF RecTypeOK
  <2>4. RemovalSeen'
    <3>1. \A i \in 1..Present, k \in Keys : Without(i, k)' <=> Without(i, k)
      BY <2>1 DEF Without
    <3>2. Present \in 1..Present /\ RemovalSeen
      BY <2>1 DEF RecTypeOK
    <3> SUFFICES ASSUME NEW m \in 1..Present', NEW n \in 1..Present', NEW k \in Keys,
                        m <= n, Without(n, k)'
                 PROVE  Without(m, k)' \/ Emptied(m, n, k)'
      BY DEF RemovalSeen
    <3>3. ASSUME NEW i \in 1..Present, m <= i, Without(i, k), i <= n
          PROVE  Without(m, k)' \/ Emptied(m, n, k)'
      <4>1. m \in 1..Present
        BY <2>1, <3>3
      <4>2. Without(m, k) \/ Emptied(m, i, k)
        BY <3>2, <3>3, <4>1 DEF RemovalSeen
      <4>3. ASSUME Emptied(m, i, k) PROVE Emptied(m, n, k)'
        <5>1. PICK j \in m..(i - 1) : ~Without(j, k) /\ Without(j + 1, k)
          BY <4>3 DEF Emptied
        <5>2. j \in 1..Present /\ j + 1 \in 1..Present /\ j \in m..(n - 1)
          BY <2>1, <3>3, <4>1
        <5> QED BY <3>1, <5>1, <5>2 DEF Emptied
      <4> QED BY <3>1, <4>1, <4>2, <4>3
    <3>4. CASE n \in 1..Present
      BY <3>1, <3>3, <3>4
    <3>5. CASE n = Present' /\ m # n
      <4>1. m <= Present /\ Present <= n
        BY <2>1, <3>5
      <4>2. CASE Without(Present, k)
        BY <3>2, <3>3, <4>1, <4>2
      <4>3. CASE ~Without(Present, k)
        <5>1. PICK j \in 1..Present : j = Present
          BY <3>2
        <5>2. j \in m..(n - 1) /\ j + 1 = n
          BY <2>1, <3>5, <4>1, <5>1
        <5>3. ~Without(j, k)'
          BY <3>1, <4>3, <5>1
        <5> QED BY <5>2, <5>3 DEF Emptied
      <4> QED BY <4>2, <4>3
    <3> QED BY <2>1, <3>4, <3>5
  <2>5. \A k \in Keys : FlightInv(k)'
    BY <1>1, <2>1 DEF FlightInv
  <2>6. \A c \in Callers : CallerInv(c)'
    BY <1>1, <2>1, <2>2 DEF CallerInv
  <2> QED BY <1>1, <2>1, <2>3, <2>4, <2>5, <2>6
<1> QED BY <1>3, <1>4, <1>5

(***************************************************************************)
(* Upstream.                                                               *)
(***************************************************************************)
ServerSet == {Servers[i] : i \in DOMAIN Servers}

UpRecord ==
    [pc : {"idle", "rewrite", "ask", "wait", "done"}, name : Names \union {Nobody}, i : Nat,
     conn : ServerSet \union {Nobody}, tried : SUBSET ServerSet, by : ServerSet \union {Nobody},
     answer : Nat, asked : Nat, exp : Nat, rcode : Rcodes]

UpTypeOK ==
    /\ connections \in Seq(ServerSet) /\ Len(connections) = Len(Servers)
    /\ upCache \in [Names -> [answer : Nat, exp : Nat]]
    /\ answers \in Seq([ttl : Nat \union {Wrapped}, reply : Replies, at : Nat])
    /\ upInflight \in [Names -> [leader : Clients \union {Nobody}, members : SUBSET Clients]]
    /\ up \in [Clients -> UpRecord]
    /\ now \in Nat

\* Only the first server changes, and only after an answer.
ListInv ==
    /\ \A i \in 2..Len(Servers) : connections[i] = Servers[i]
    /\ answers = <<>> => connections[1] = Servers[1]

\* A client has tried the servers before the i-th, or the first was replaced.
Tried(tried, i) == Servers[i] \in tried \/ (i = 1 /\ answers # <<>>)

\* A flight that asks the i-th server has tried all before it, and there is no
\* server left only when all were tried.
AskInv(c) ==
    up[c].pc = "ask" =>
        /\ up[c].name \in Names
        /\ up[c].i \in 1..(Len(Servers) + 1)
        /\ up[c].conn = Nobody <=> up[c].i = Len(Servers) + 1
        /\ \A j \in 1..(up[c].i - 1) : Tried(up[c].tried, j)
        /\ up[c].i <= Len(Servers) => Tried({up[c].conn}, up[c].i)

\* A failure that no server has reported comes after all servers.
DoneInv(c) ==
    up[c].pc = "done" /\ up[c].rcode # "NOERROR" /\ up[c].by = Nobody =>
        \A i \in DOMAIN Servers : Tried(up[c].tried, i)

\* When an answer expires, and an answer with its expiry, as the cache and the
\* clients that hit it have it.
Ends(k) == answers[k].at + Life(answers[k].reply)
Expires(answer, exp) == answer \in DOMAIN answers /\ exp = Ends(answer)

\* The time to live in the records of an answer is that of the first one, or what
\* was left of its life at some time; or the answer has expired.
TtlInv(k) ==
    /\ answers[k].at <= now
    /\ \/ now > Ends(k)
       \/ answers[k].ttl = answers[k].reply.first
       \/ answers[k].at + answers[k].ttl <= Ends(k)

\* A client that has hit an answer did so while it lived, and what it will read was
\* written since then.
HasHit(c) == up[c].pc = "done" /\ up[c].answer # NoAnswer /\ up[c].by = Nobody

HitInv(c) ==
    /\ up[c].pc = "rewrite" => up[c].rcode = "NOERROR" /\ up[c].by = Nobody
    /\ up[c].pc = "rewrite" \/ HasHit(c) =>
          /\ Expires(up[c].answer, up[c].exp)
          /\ up[c].asked <= up[c].exp /\ up[c].asked <= now
    /\ HasHit(c) =>
          \/ now > up[c].exp
          \/ answers[up[c].answer].ttl \in Nat /\ up[c].asked + answers[up[c].answer].ttl <= up[c].exp

ClientInv(c) ==
    /\ AskInv(c) /\ DoneInv(c) /\ HitInv(c)
    /\ up[c].answer \in 0..Len(answers)

EntryInv(n) == upCache[n].answer # NoAnswer => Expires(upCache[n].answer, upCache[n].exp)

\* The inductive invariant of the upstream resolver.
UpInv ==
    /\ UpTypeOK /\ ListInv
    /\ \A c \in Clients : ClientInv(c)
    /\ \A n \in Names : EntryInv(n)
    /\ \A k \in DOMAIN answers : TtlInv(k)

\* The cache keeps an answer for a natural number of seconds.
LEMMA LifeBounds ==
    ASSUME NEW r \in Replies
    PROVE  Life(r) \in Nat
BY UpstreamAssumption DEF Life

\* There is a first server, and none is missing.
LEMMA ServerFacts ==
    /\ Len(Servers) \in Nat /\ Len(Servers) >= 1 /\ DOMAIN Servers = 1..Len(Servers)
    /\ \A i \in 1..Len(Servers) : Servers[i] \in ServerSet /\ Servers[i] # Nobody
    /\ Nobody \notin ServerSet
<1>1. Servers \in Seq(ServerSet) /\ Len(Servers) > 0
  BY UpstreamAssumption DEF ServerSet
<1>2. Len(Servers) \in Nat /\ DOMAIN Servers = 1..Len(Servers)
  BY <1>1
<1> QED BY <1>1, <1>2, UpstreamAssumption DEF ServerSet

\* The elements of a sequence are what it is a sequence of.
LEMMA SeqElement ==
    ASSUME NEW S, NEW q \in Seq(S), NEW i \in DOMAIN q
    PROVE  q[i] \in S
OBVIOUS

\* A sequence with an element replaced.
LEMMA SeqUpdate ==
    ASSUME NEW S, NEW q \in Seq(S), NEW i \in DOMAIN q, NEW x \in S
    PROVE  [q EXCEPT ![i] = x] \in Seq(S) /\ Len([q EXCEPT ![i] = x]) = Len(q)
<1>1. DOMAIN [q EXCEPT ![i] = x] = 1..Len(q) /\ Len(q) \in Nat
  OBVIOUS
<1>2. \A j \in 1..Len(q) : [q EXCEPT ![i] = x][j] \in S
  OBVIOUS
<1>3. [q EXCEPT ![i] = x] \in [1..Len(q) -> S]
  BY <1>1, <1>2
<1> QED BY <1>1, <1>3

\* The invariant holds when NewUpstream returns.
LEMMA UpInvInit == UpInit => UpInv
<1> SUFFICES ASSUME UpInit PROVE UpInv
  OBVIOUS
<1>1. Servers \in Seq(ServerSet)
  BY UpstreamAssumption DEF ServerSet
<1>2. Resting \in UpRecord
  BY DEF Resting, UpRecord, NoAnswer, Rcodes
<1>3. answers = <<>> /\ Len(answers) = 0 /\ DOMAIN answers = {}
  BY DEF UpInit
<1>4. UpTypeOK
  <2>1. NotCached \in [answer : Nat, exp : Nat]
    BY DEF NotCached, NoAnswer
  <2>2. Grounded \in [leader : Clients \union {Nobody}, members : SUBSET Clients]
    BY DEF Grounded
  <2>3. answers \in Seq([ttl : Nat \union {Wrapped}, reply : Replies, at : Nat])
    BY DEF UpInit
  <2> QED BY <1>1, <1>2, <2>1, <2>2, <2>3 DEF UpInit, UpTypeOK
<1>5. ListInv
  BY DEF UpInit, ListInv
<1>6. \A c \in Clients : up[c].pc = "idle" /\ up[c].answer = 0
  BY DEF UpInit, Resting, NoAnswer
<1>7. \A n \in Names : upCache[n].answer = NoAnswer
  BY DEF UpInit, NotCached
<1> QED BY <1>3, <1>4, <1>5, <1>6, <1>7 DEF UpInv, ClientInv, EntryInv, AskInv, DoneInv, HitInv, HasHit

\* The next server of a flight that has tried all before it.
LEMMA AskNextOk ==
    ASSUME UpInv, NEW u \in UpRecord, u.name \in Names, u.i \in 0..Len(Servers),
           \A j \in 1..u.i : Tried(u.tried, j)
    PROVE  /\ AskNext(u) \in UpRecord
           /\ AskNext(u).pc = "ask" /\ AskNext(u).name = u.name /\ AskNext(u).i = u.i + 1
           /\ AskNext(u).tried = u.tried /\ AskNext(u).answer = u.answer
           /\ AskNext(u).conn = Nobody <=> u.i = Len(Servers)
           /\ u.i < Len(Servers) => Tried({AskNext(u).conn}, u.i + 1)
<1> DEFINE next == IF u.i < Len(connections) THEN connections[u.i + 1] ELSE Nobody
<1>1. Len(connections) = Len(Servers) /\ connections \in Seq(ServerSet)
  BY DEF UpInv, UpTypeOK
<1>2. u.i < Len(Servers) => connections[u.i + 1] \in ServerSet
  BY <1>1, ServerFacts
<1>3. next \in ServerSet \union {Nobody} /\ (next = Nobody <=> u.i = Len(Servers))
  BY <1>1, <1>2, ServerFacts
<1>4. u.i < Len(Servers) => Tried({next}, u.i + 1)
  <2> HAVE u.i < Len(Servers)
  <2>1. CASE u.i = 0
    BY <1>1, <2>1, ServerFacts DEF UpInv, ListInv, Tried
  <2>2. CASE u.i # 0
    BY <1>1, <2>2, ServerFacts DEF UpInv, ListInv, Tried
  <2> QED BY <2>1, <2>2
<1>5. AskNext(u) = [u EXCEPT !.pc = "ask", !.i = @ + 1, !.conn = next]
  BY DEF AskNext
<1> HIDE DEF next
<1>6. AskNext(u) \in UpRecord /\ AskNext(u).conn = next
  <2>1. AskNext(u) = [pc |-> "ask", name |-> u.name, i |-> u.i + 1, conn |-> next,
                      tried |-> u.tried, by |-> u.by, answer |-> u.answer, asked |-> u.asked,
                      exp |-> u.exp, rcode |-> u.rcode]
    BY <1>5 DEF UpRecord
  <2>2. u.i + 1 \in Nat
    BY ServerFacts
  <2> QED BY <1>3, <2>1, <2>2 DEF UpRecord
<1>7. /\ AskNext(u).pc = "ask" /\ AskNext(u).name = u.name /\ AskNext(u).i = u.i + 1
      /\ AskNext(u).tried = u.tried /\ AskNext(u).answer = u.answer
  BY <1>5 DEF UpRecord
<1> QED BY <1>3, <1>4, <1>6, <1>7

\* The answers that were received stay, with their server's times; what is written
\* into them is what is left of their life, if they have not expired.
AnswersKept ==
    /\ DOMAIN answers \subseteq DOMAIN answers'
    /\ Len(answers) \in Nat /\ Len(answers') \in Nat /\ Len(answers) <= Len(answers')
    /\ answers # <<>> => answers' # <<>>
    /\ \A k \in DOMAIN answers :
          /\ answers'[k].at = answers[k].at /\ answers'[k].reply = answers[k].reply
          /\ \/ answers'[k].ttl = answers[k].ttl
             \/ now' > Ends(k)
             \/ answers'[k].ttl \in Nat /\ now + answers'[k].ttl <= Ends(k)
    /\ now \in Nat /\ now' \in Nat /\ now <= now'

\* A client or a cache entry that a step leaves alone stays right.
LEMMA OthersKept ==
    ASSUME UpInv, AnswersKept
    PROVE  /\ \A d \in Clients : up'[d] = up[d] => ClientInv(d)'
           /\ \A n \in Names : upCache'[n] = upCache[n] => EntryInv(n)'
<1>1. \A a, e : Expires(a, e) => Expires(a, e)'
  BY DEF AnswersKept, Expires, Ends, Life
<1>2. \A t, i : Tried(t, i) => Tried(t, i)'
  BY DEF AnswersKept, Tried
<1>3. ASSUME NEW d \in Clients, up'[d] = up[d] PROVE ClientInv(d)'
  <2>1. ClientInv(d)
    BY DEF UpInv
  <2>2. AskInv(d)'
    BY <1>2, <1>3, <2>1 DEF ClientInv, AskInv
  <2>3. DoneInv(d)'
    BY <1>2, <1>3, <2>1 DEF ClientInv, DoneInv
  <2>4. up'[d].answer \in 0..Len(answers')
    <3>1. up[d].answer \in 0..Len(answers)
      BY <2>1 DEF ClientInv
    <3> QED BY <1>3, <3>1 DEF AnswersKept
  <2>5. HitInv(d)'
    <3>1. HitInv(d) /\ up[d] \in UpRecord
      BY <2>1 DEF ClientInv, UpInv, UpTypeOK
    <3>2. PICK a, t, e : a = up[d].answer /\ t = up[d].asked /\ e = up[d].exp
      OBVIOUS
    <3>3. t \in Nat /\ e \in Nat
      BY <3>1, <3>2 DEF UpRecord
    <3>4. (up[d].pc = "rewrite" \/ HasHit(d)) => Expires(a, e)' /\ t <= e /\ t <= now'
      BY <1>1, <3>1, <3>2, <3>3 DEF HitInv, AnswersKept
    <3>5. ASSUME HasHit(d)
          PROVE  now' > e \/ (answers'[a].ttl \in Nat /\ t + answers'[a].ttl <= e)
      <4>1. /\ Expires(a, e) /\ t <= now
            /\ now > e \/ (answers[a].ttl \in Nat /\ t + answers[a].ttl <= e)
        BY <3>1, <3>2, <3>5 DEF HitInv
      <4>2. a \in DOMAIN answers /\ e = Ends(a)
        BY <4>1 DEF Expires
      <4> QED BY <3>3, <4>1, <4>2 DEF AnswersKept
    <3>6. HasHit(d)' <=> HasHit(d)
      BY <1>3 DEF HasHit
    <3> QED BY <1>3, <3>1, <3>2, <3>4, <3>5, <3>6 DEF HitInv, Expires, Ends
  <2> QED BY <1>3, <2>2, <2>3, <2>4, <2>5 DEF ClientInv
<1>4. ASSUME NEW n \in Names, upCache'[n] = upCache[n] PROVE EntryInv(n)'
  BY <1>1, <1>4 DEF UpInv, EntryInv
<1> QED BY <1>3, <1>4

\* Steps that receive nothing keep the answers.
LEMMA SameAnswers ==
    ASSUME UpInv, answers' = answers, now' \in {now, now + 1}
    PROVE  AnswersKept
BY DEF AnswersKept, UpInv, UpTypeOK

\* A step of one client.
LEMMA OneClient ==
    ASSUME UpInv, NEW c \in Clients, NEW u \in UpRecord, up' = [up EXCEPT ![c] = u],
           UNCHANGED <<connections, upCache, answers, now>>,
           upInflight' \in [Names -> [leader : Clients \union {Nobody}, members : SUBSET Clients]],
           ClientInv(c)'
    PROVE  UpInv'
<1>1. AnswersKept
  BY SameAnswers
<1>2. \A d \in Clients \ {c} : up'[d] = up[d]
  BY DEF UpInv, UpTypeOK
<1>3. \A d \in Clients : ClientInv(d)'
  BY <1>1, <1>2, OthersKept
<1>4. \A n \in Names : EntryInv(n)'
  BY <1>1, OthersKept
<1>5. UpTypeOK' /\ ListInv' /\ \A k \in DOMAIN answers' : TtlInv(k)'
  BY DEF UpInv, UpTypeOK, ListInv, TtlInv, Ends
<1> QED BY <1>3, <1>4, <1>5 DEF UpInv

\* A query for the name of an ANAME.
LEMMA QueryPreserves ==
    ASSUME UpInv, NEW c \in Clients, NEW n \in Names, Query(c, n)
    PROVE  UpInv'
<1> DEFINE start == [Resting EXCEPT !.name = n]
           leads == upInflight[n].leader = Nobody
<1>1. UNCHANGED <<connections, upCache, answers, now>>
  BY DEF Query
<1>2. /\ start \in UpRecord /\ start.i = 0 /\ start.tried = {} /\ start.answer = 0
      /\ start.name = n /\ start.rcode = "NOERROR"
  BY DEF Resting, UpRecord, NoAnswer, Rcodes
<1>3. CASE /\ CacheHas(n) /\ upInflight' = upInflight
           /\ up' = [up EXCEPT ![c] = [start EXCEPT !.pc = "rewrite",
                            !.answer = upCache[n].answer, !.asked = now, !.exp = upCache[n].exp]]
  <2>1. Expires(upCache[n].answer, upCache[n].exp) /\ now <= upCache[n].exp
    BY <1>3 DEF CacheHas, UpInv, EntryInv
  <2>2. upCache[n].answer \in Nat /\ upCache[n].exp \in Nat /\ now \in Nat
    BY DEF UpInv, UpTypeOK
  <2>3. PICK u \in UpRecord :
            /\ up' = [up EXCEPT ![c] = u]
            /\ u.pc = "rewrite" /\ u.answer = upCache[n].answer /\ u.exp = upCache[n].exp
            /\ u.rcode = "NOERROR" /\ u.by = Nobody /\ u.asked = now
    <3>1. ASSUME NEW u, u = [start EXCEPT !.pc = "rewrite", !.answer = upCache[n].answer,
                                          !.asked = now, !.exp = upCache[n].exp]
          PROVE  /\ u \in UpRecord /\ u.pc = "rewrite" /\ u.answer = upCache[n].answer
                 /\ u.exp = upCache[n].exp /\ u.rcode = "NOERROR" /\ u.by = Nobody
                 /\ u.asked = now
      BY <2>2, <3>1 DEF Resting, UpRecord, NoAnswer, Rcodes
    <3> QED BY <1>3, <3>1
  <2>4. up'[c] = u
    BY <2>3 DEF UpInv, UpTypeOK
  <2>5. ClientInv(c)'
    <3>1. u.answer \in 0..Len(answers)
      BY <2>1, <2>3 DEF Expires, UpInv, UpTypeOK
    <3>2. Expires(u.answer, u.exp)'
      BY <1>1, <2>1, <2>3 DEF Expires, Ends
    <3>3. HitInv(c)'
      BY <1>1, <2>1, <2>2, <2>3, <2>4, <3>2 DEF HitInv, HasHit, Expires, Ends
    <3> QED BY <1>1, <2>3, <2>4, <3>1, <3>3 DEF ClientInv, AskInv, DoneInv
  <2>6. upInflight' \in [Names -> [leader : Clients \union {Nobody}, members : SUBSET Clients]]
    BY <1>3 DEF UpInv, UpTypeOK
  <2> QED BY <1>1, <2>3, <2>5, <2>6, OneClient
<1>4. CASE /\ upInflight' = [upInflight EXCEPT ![n] =
                  [leader |-> IF leads THEN c ELSE @.leader, members |-> @.members \union {c}]]
           /\ up' = [up EXCEPT ![c] = IF leads THEN AskNext(start)
                                      ELSE [start EXCEPT !.pc = "wait"]]
  <2>1. upInflight' \in [Names -> [leader : Clients \union {Nobody}, members : SUBSET Clients]]
    BY <1>4 DEF UpInv, UpTypeOK
  <2>2. CASE leads
    <3>1. up' = [up EXCEPT ![c] = AskNext(start)]
      BY <1>4, <2>2
    <3>2. start.i \in 0..Len(Servers) /\ start.name \in Names /\ \A j \in 1..start.i : FALSE
      BY <1>2, ServerFacts
    <3> HIDE DEF start
    <3>3. PICK u \in UpRecord :
              /\ up' = [up EXCEPT ![c] = u]
              /\ u.pc = "ask" /\ u.name = n /\ u.i = 1 /\ u.answer = 0
              /\ u.conn = Nobody <=> 0 = Len(Servers)
              /\ 0 < Len(Servers) => Tried({u.conn}, 1)
      <4>1. start \in UpRecord /\ \A j \in 1..start.i : Tried(start.tried, j)
        BY <1>2, <3>2
      <4>2. /\ AskNext(start) \in UpRecord
            /\ AskNext(start).pc = "ask" /\ AskNext(start).name = start.name
            /\ AskNext(start).i = start.i + 1 /\ AskNext(start).answer = start.answer
            /\ AskNext(start).conn = Nobody <=> start.i = Len(Servers)
            /\ start.i < Len(Servers) => Tried({AskNext(start).conn}, start.i + 1)
        BY <3>2, <4>1, AskNextOk
      <4>3. start.i = 0 /\ start.i + 1 = 1 /\ start.name = n /\ start.answer = 0
        BY <1>2
      <4> QED BY <3>1, <4>2, <4>3
    <3>4. up'[c] = u
      BY <3>3 DEF UpInv, UpTypeOK
    <3>5. Tried({u.conn}, 1)'
      BY <1>1, <3>3, ServerFacts DEF Tried
    <3>6. ClientInv(c)'
      <4>1. AskInv(c)'
        <5>1. up'[c].conn # Nobody /\ Len(Servers) + 1 # 1 /\ 1 \in 1..(Len(Servers) + 1)
          BY <3>3, <3>4, ServerFacts
        <5>2. up'[c].i = 1 /\ up'[c].name = n /\ \A j \in 1..(1 - 1) : FALSE
          BY <3>3, <3>4
        <5> QED BY <3>4, <3>5, <5>1, <5>2 DEF AskInv
      <4>2. up'[c].answer \in 0..Len(answers')
        BY <1>1, <3>3, <3>4 DEF UpInv, UpTypeOK
      <4> QED BY <3>3, <3>4, <4>1, <4>2 DEF ClientInv, DoneInv, HitInv, HasHit
    <3> QED BY <1>1, <2>1, <3>3, <3>6, OneClient
  <2>3. CASE ~leads
    <3>1. PICK u \in UpRecord : up' = [up EXCEPT ![c] = u] /\ u.pc = "wait" /\ u.answer = 0
      <4>1. ASSUME NEW u, u = [start EXCEPT !.pc = "wait"]
            PROVE  u \in UpRecord /\ u.pc = "wait" /\ u.answer = 0
        BY <4>1 DEF Resting, UpRecord, NoAnswer, Rcodes
      <4> QED BY <1>4, <2>3, <4>1
    <3>2. up'[c] = u
      BY <3>1 DEF UpInv, UpTypeOK
    <3>3. ClientInv(c)'
      <4>1. up'[c].answer \in 0..Len(answers')
        BY <1>1, <3>1, <3>2 DEF UpInv, UpTypeOK
      <4> QED BY <3>1, <3>2, <4>1 DEF ClientInv, AskInv, DoneInv, HitInv, HasHit
    <3> QED BY <1>1, <2>1, <3>1, <3>3, OneClient
  <2> QED BY <2>2, <2>3
<1> QED BY <1>3, <1>4 DEF Query

\* An answer is used, and its client is free again.
LEMMA RestPreserves ==
    ASSUME UpInv, NEW c \in Clients, up' = [up EXCEPT ![c] = Resting],
           UNCHANGED <<connections, upCache, answers, upInflight, now>>
    PROVE  UpInv'
<1>1. Resting \in UpRecord /\ Resting.pc = "idle" /\ Resting.answer = 0
  BY DEF Resting, UpRecord, NoAnswer, Rcodes
<1>2. up'[c] = Resting
  BY DEF UpInv, UpTypeOK
<1>3. ClientInv(c)'
  <2>1. up'[c].answer \in 0..Len(answers')
    BY <1>1, <1>2 DEF UpInv, UpTypeOK
  <2> QED BY <1>1, <1>2, <2>1 DEF ClientInv, AskInv, DoneInv, HitInv, HasHit
<1>4. upInflight' \in [Names -> [leader : Clients \union {Nobody}, members : SUBSET Clients]]
  BY DEF UpInv, UpTypeOK
<1> QED BY <1>1, <1>3, <1>4, OneClient

\* A hit writes the rest of the life into the answer, unless that has expired.
LEMMA RewritePreserves ==
    ASSUME UpInv, NEW c \in Clients, Rewrite(c)
    PROVE  UpInv'
<1> DEFINE a == up[c].answer
           left == up[c].exp - now
           Answer == [ttl : Nat \union {Wrapped}, reply : Replies, at : Nat]
<1>1. /\ up[c].pc = "rewrite" /\ UNCHANGED <<connections, upCache, upInflight, now>>
      /\ up' = [up EXCEPT ![c].pc = "done"]
  BY DEF Rewrite
<1>2. PICK ttl \in (IF left >= 0 THEN {left} ELSE {0, Wrapped}) :
          answers' = [answers EXCEPT ![a].ttl = ttl]
  BY DEF Rewrite
<1>3. /\ HitInv(c) /\ a \in 0..Len(answers)
      /\ Expires(a, up[c].exp) /\ up[c].asked <= up[c].exp /\ up[c].asked <= now
      /\ up[c].rcode = "NOERROR" /\ up[c].by = Nobody
  BY <1>1 DEF UpInv, ClientInv, HitInv
<1>4. a \in DOMAIN answers /\ up[c].exp = Ends(a)
  BY <1>3 DEF Expires
<1>5. /\ answers[a] \in Answer /\ now \in Nat /\ up[c].exp \in Nat /\ up[c].asked \in Nat
      /\ answers[a].at <= now
  <2>1. up[c] \in UpRecord /\ TtlInv(a) /\ now \in Nat
    BY <1>4 DEF UpInv, UpTypeOK
  <2>2. up[c].exp \in Nat /\ up[c].asked \in Nat
    BY <2>1 DEF UpRecord
  <2>3. answers[a] \in Answer
    <3>1. answers \in Seq(Answer)
      BY DEF UpInv, UpTypeOK
    <3> HIDE DEF Answer
    <3> QED BY <1>4, <3>1, SeqElement
  <2> QED BY <2>1, <2>2, <2>3 DEF TtlInv
<1>6. left \in Int /\ answers[a].at \in Nat
  BY <1>5
<1>7. /\ ttl \in Nat \union {Wrapped}
      /\ now > Ends(a) \/ (ttl \in Nat /\ now + ttl <= Ends(a))
  BY <1>2, <1>4, <1>5
<1> HIDE DEF a, left
<1>8. /\ DOMAIN answers' = DOMAIN answers
      /\ \A k \in DOMAIN answers : k # a => answers'[k] = answers[k]
      /\ answers'[a].ttl = ttl
      /\ answers'[a].reply = answers[a].reply /\ answers'[a].at = answers[a].at
      /\ answers'[a] \in Answer
  <2>1. answers' = [answers EXCEPT ![a] = [answers[a] EXCEPT !.ttl = ttl]]
    BY <1>2, <1>4, <1>5 DEF UpInv, UpTypeOK
  <2>2. answers'[a] = [answers[a] EXCEPT !.ttl = ttl]
    BY <1>4, <2>1 DEF UpInv, UpTypeOK
  <2>3. answers'[a] = [ttl |-> ttl, reply |-> answers[a].reply, at |-> answers[a].at]
    BY <1>5, <2>2
  <2>4. DOMAIN answers' = DOMAIN answers /\ \A k \in DOMAIN answers : k # a => answers'[k] = answers[k]
    BY <2>1 DEF UpInv, UpTypeOK
  <2> QED BY <1>5, <1>7, <2>3, <2>4
<1>9. answers' \in Seq(Answer) /\ Len(answers') = Len(answers)
  <2>1. answers \in Seq(Answer) /\ answers' = [answers EXCEPT ![a] = answers'[a]]
    BY <1>2, <1>4, <1>8 DEF UpInv, UpTypeOK
  <2> HIDE DEF Answer
  <2>2. /\ [answers EXCEPT ![a] = answers'[a]] \in Seq(Answer)
        /\ Len([answers EXCEPT ![a] = answers'[a]]) = Len(answers)
    BY <1>4, <1>8, <2>1, SeqUpdate
  <2> QED BY <2>1, <2>2
<1>10. AnswersKept
  <2>1. Len(answers) \in Nat /\ Len(answers') \in Nat /\ Len(answers) <= Len(answers')
    BY <1>9 DEF UpInv, UpTypeOK
  <2>2. answers' # <<>>
    BY <1>4, <1>8
  <2>3. \A k \in DOMAIN answers :
            /\ answers'[k].at = answers[k].at /\ answers'[k].reply = answers[k].reply
            /\ \/ answers'[k].ttl = answers[k].ttl
               \/ now' > Ends(k)
               \/ answers'[k].ttl \in Nat /\ now + answers'[k].ttl <= Ends(k)
    BY <1>1, <1>7, <1>8
  <2> QED BY <1>1, <1>5, <1>8, <2>1, <2>2, <2>3 DEF AnswersKept
<1>11. \A k \in DOMAIN answers' : Ends(k)' = Ends(k)
  BY <1>8 DEF Ends
<1>12. \A k \in DOMAIN answers' : TtlInv(k)'
  <2> SUFFICES ASSUME NEW k \in DOMAIN answers' PROVE TtlInv(k)'
    OBVIOUS
  <2>1. CASE k # a
    BY <1>1, <1>8, <1>11, <2>1 DEF UpInv, TtlInv
  <2>2. CASE k = a
    <3>1. up[c].exp = Ends(a) /\ Ends(a) \in Nat
      BY <1>4, <1>5 DEF a
    <3>2. now > Ends(a) \/ answers[a].at + ttl <= Ends(a)
      BY <1>5, <1>6, <1>7, <3>1
    <3> QED BY <1>1, <1>5, <1>8, <1>11, <2>2, <3>2 DEF TtlInv
  <2> QED BY <2>1, <2>2
<1>13. \A n \in Names : EntryInv(n)'
  BY <1>1, <1>10, OthersKept
<1>14. /\ up'[c].pc = "done" /\ up'[c].rcode = up[c].rcode /\ up'[c].by = up[c].by
       /\ up'[c].answer = up[c].answer /\ up'[c].exp = up[c].exp /\ up'[c].asked = up[c].asked
       /\ \A d \in Clients \ {c} : up'[d] = up[d]
       /\ up' \in [Clients -> UpRecord]
  <2>1. up[c] \in UpRecord /\ up \in [Clients -> UpRecord]
    BY DEF UpInv, UpTypeOK
  <2>2. up'[c] = [up[c] EXCEPT !.pc = "done"] /\ up' = [up EXCEPT ![c] = up'[c]]
    BY <1>1, <2>1
  <2>3. /\ up'[c].pc = "done" /\ up'[c].rcode = up[c].rcode /\ up'[c].by = up[c].by
        /\ up'[c].answer = up[c].answer /\ up'[c].exp = up[c].exp /\ up'[c].asked = up[c].asked
        /\ up'[c] \in UpRecord
    BY <2>1, <2>2 DEF UpRecord
  <2> QED BY <2>1, <2>2, <2>3
<1>15. \A d \in Clients : ClientInv(d)'
  <2>1. \A d \in Clients \ {c} : ClientInv(d)'
    BY <1>10, <1>14, OthersKept
  <2>2. HitInv(c)'
    <3>1. PICK k, e : k = up[c].answer /\ e = up[c].exp
      OBVIOUS
    <3>2. k = a /\ up'[c].answer = k /\ up'[c].exp = e
      BY <1>14, <3>1 DEF a
    <3>3. Expires(k, e)' /\ e = Ends(k)
      BY <1>4, <1>8, <1>11, <3>1, <3>2 DEF Expires
    <3>4. now > e \/ (ttl \in Nat /\ up[c].asked + ttl <= e)
      BY <1>3, <1>5, <1>7, <3>1, <3>2, <3>3
    <3>5. answers'[k].ttl = ttl
      BY <1>8, <3>2
    <3> QED BY <1>1, <1>3, <1>14, <3>1, <3>2, <3>3, <3>4, <3>5 DEF HitInv, HasHit, Expires, Ends
  <2>3. ClientInv(c)'
    BY <1>3, <1>9, <1>14, <2>2 DEF ClientInv, AskInv, DoneInv, a
  <2> QED BY <2>1, <2>3
<1>16. UpTypeOK' /\ ListInv'
  BY <1>1, <1>8, <1>9, <1>14 DEF UpInv, UpTypeOK, ListInv
<1> QED BY <1>12, <1>13, <1>15, <1>16 DEF UpInv

\* The function of a flight returns: its clients are done, with an error of its own
\* only after all servers.
LEMMA ReturnPreserves ==
    ASSUME UpInv, NEW c \in Clients, up[c].name \in Names,
           NEW a \in Nat, NEW rcode \in Rcodes, NEW by \in ServerSet \union {Nobody},
           Return(c, a, rcode, by), a \in 0..Len(answers'), AnswersKept,
           a # NoAnswer => by # Nobody,
           rcode # "NOERROR" /\ by = Nobody => \A i \in DOMAIN Servers : Tried(up[c].tried, i)
    PROVE  /\ \A d \in Clients : ClientInv(d)'
           /\ up' \in [Clients -> UpRecord]
           /\ upInflight' \in [Names -> [leader : Clients \union {Nobody}, members : SUBSET Clients]]
<1> DEFINE members == upInflight[up[c].name].members
<1>1. up' = [d \in Clients |->
                IF d \in members
                THEN [up[d] EXCEPT !.pc = "done", !.answer = a, !.rcode = rcode, !.by = by,
                                   !.tried = up[c].tried]
                ELSE up[d]]
  BY DEF Return
<1>2. upInflight' \in [Names -> [leader : Clients \union {Nobody}, members : SUBSET Clients]]
  BY DEF Return, Grounded, UpInv, UpTypeOK
<1> HIDE DEF members
<1> DEFINE tried == up[c].tried
<1>0. tried \in SUBSET ServerSet
  BY DEF UpInv, UpTypeOK, UpRecord
<1> HIDE DEF tried
<1>3. ASSUME NEW d \in Clients PROVE ClientInv(d)' /\ up'[d] \in UpRecord
  <2>1. up[d] \in UpRecord
    BY DEF UpInv, UpTypeOK
  <2>2. CASE d \notin members
    BY <1>1, <2>1, <2>2, OthersKept
  <2>3. CASE d \in members
    <3>1. up'[d] = [up[d] EXCEPT !.pc = "done", !.answer = a, !.rcode = rcode, !.by = by,
                                 !.tried = tried]
      BY <1>1, <2>3 DEF tried
    <3>2. up'[d] = [pc |-> "done", name |-> up[d].name, i |-> up[d].i, conn |-> up[d].conn,
                    tried |-> tried, by |-> by, answer |-> a, asked |-> up[d].asked,
                    exp |-> up[d].exp, rcode |-> rcode]
      BY <2>1, <3>1 DEF UpRecord
    <3>3. up'[d] \in UpRecord
      BY <1>0, <2>1, <3>2 DEF UpRecord
    <3>4. ASSUME rcode # "NOERROR", by = Nobody
          PROVE  \A i \in DOMAIN Servers : Servers[i] \in tried \/ (i = 1 /\ answers' # <<>>)
      BY <3>4 DEF AnswersKept, Tried, tried
    <3>5. ClientInv(d)'
      BY <3>2, <3>4 DEF ClientInv, AskInv, DoneInv, HitInv, HasHit, Tried
    <3> QED BY <3>3, <3>5
  <2> QED BY <2>2, <2>3
<1>4. up' \in [Clients -> UpRecord]
  BY <1>1, <1>3
<1> QED BY <1>2, <1>3, <1>4

\* A flight that asks knows what it asks for, and has asked servers only.
LEMMA AskFacts ==
    ASSUME UpInv, NEW c \in Clients, up[c].pc = "ask"
    PROVE  /\ up[c] \in UpRecord /\ up[c].name \in Names /\ up[c].tried \in SUBSET ServerSet
           /\ AskInv(c)
           /\ up[c].conn # Nobody => up[c].conn \in ServerSet /\ up[c].i \in 1..Len(Servers)
<1>1. AskInv(c) /\ up[c] \in UpRecord
  BY DEF UpInv, UpTypeOK, ClientInv
<1>2. up[c].tried \in SUBSET ServerSet /\ up[c].conn \in ServerSet \union {Nobody}
  BY <1>1 DEF UpRecord
<1> QED BY <1>1, <1>2, ServerFacts DEF AskInv

\* All servers have failed.
LEMMA AllFailedPreserves ==
    ASSUME UpInv, NEW c \in Clients, AllFailed(c)
    PROVE  UpInv'
<1>1. /\ up[c].pc = "ask" /\ up[c].conn = Nobody
      /\ Return(c, NoAnswer, "SERVFAIL", Nobody) /\ "SERVFAIL" \in Rcodes
      /\ UNCHANGED <<connections, upCache, answers, now>>
  BY DEF AllFailed, Rcodes
<1>2. up[c].i = Len(Servers) + 1 /\ \A j \in 1..(up[c].i - 1) : Tried(up[c].tried, j)
  BY <1>1, AskFacts DEF AskInv
<1>3. \A i \in DOMAIN Servers : Tried(up[c].tried, i)
  BY <1>2, ServerFacts
<1>4. AnswersKept /\ NoAnswer \in 0..Len(answers') /\ NoAnswer \in Nat
  BY <1>1, SameAnswers DEF NoAnswer, AnswersKept
<1>5. /\ \A d \in Clients : ClientInv(d)'
      /\ up' \in [Clients -> UpRecord]
      /\ upInflight' \in [Names -> [leader : Clients \union {Nobody}, members : SUBSET Clients]]
  BY <1>1, <1>3, <1>4, AskFacts, ReturnPreserves
<1>6. \A n \in Names : EntryInv(n)'
  BY <1>1, <1>4, OthersKept
<1> QED BY <1>1, <1>5, <1>6 DEF UpInv, UpTypeOK, ListInv, TtlInv, Ends

\* A server does not answer, and the next is asked.
LEMMA ExchangeFailsPreserves ==
    ASSUME UpInv, NEW c \in Clients, up[c].pc = "ask", up[c].conn # Nobody,
           ExchangeFails(c), UNCHANGED now
    PROVE  UpInv'
<1>1. PICK v : v = [up[c] EXCEPT !.tried = up[c].tried \union {up[c].conn}]
  OBVIOUS
<1>2. /\ up' = [up EXCEPT ![c] = AskNext(v)]
      /\ UNCHANGED <<connections, upCache, answers, upInflight>>
  <2>1. up' = [up EXCEPT ![c] = AskNext([up[c] EXCEPT !.tried = up[c].tried \union {up[c].conn}])]
    BY DEF ExchangeFails
  <2> QED BY <1>1, <2>1 DEF ExchangeFails
<1>3. /\ v \in UpRecord /\ v.name \in Names /\ v.i = up[c].i
      /\ v.tried = up[c].tried \union {up[c].conn} /\ v.answer = up[c].answer
  <2>1. v = [pc |-> up[c].pc, name |-> up[c].name, i |-> up[c].i, conn |-> up[c].conn,
             tried |-> up[c].tried \union {up[c].conn}, by |-> up[c].by, answer |-> up[c].answer,
             asked |-> up[c].asked, exp |-> up[c].exp, rcode |-> up[c].rcode]
    BY <1>1, AskFacts DEF UpRecord
  <2> QED BY <2>1, AskFacts DEF UpRecord
<1>4. v.i \in 1..Len(Servers)
  BY <1>3, AskFacts
<1>5. \A j \in 1..v.i : Tried(v.tried, j)
  <2>1. /\ \A j \in 1..(up[c].i - 1) : Tried(up[c].tried, j)
        /\ Tried({up[c].conn}, up[c].i)
    <3>1. AskInv(c) /\ up[c].i \in 1..Len(Servers) /\ Len(Servers) \in Nat
      BY AskFacts, ServerFacts
    <3>2. up[c].i <= Len(Servers)
      BY <3>1
    <3> QED BY <3>1, <3>2 DEF AskInv
  <2> SUFFICES ASSUME NEW j \in 1..v.i PROVE Tried(v.tried, j)
    OBVIOUS
  <2>2. j \in 1..(up[c].i - 1) \/ j = up[c].i
    BY <1>3, <1>4, ServerFacts
  <2>3. Tried(up[c].tried, j) \/ Tried({up[c].conn}, j)
    BY <2>1, <2>2
  <2> QED BY <1>3, <2>3 DEF Tried
<1>6. PICK u \in UpRecord :
          /\ up' = [up EXCEPT ![c] = u]
          /\ u.pc = "ask" /\ u.name \in Names /\ u.i = v.i + 1 /\ u.answer = v.answer
          /\ u.tried = v.tried
          /\ u.conn = Nobody <=> v.i = Len(Servers)
          /\ v.i < Len(Servers) => Tried({u.conn}, v.i + 1)
  <2>1. v.i \in 0..Len(Servers)
    BY <1>4
  <2>2. /\ AskNext(v) \in UpRecord
        /\ AskNext(v).pc = "ask" /\ AskNext(v).name = v.name /\ AskNext(v).i = v.i + 1
        /\ AskNext(v).tried = v.tried /\ AskNext(v).answer = v.answer
        /\ AskNext(v).conn = Nobody <=> v.i = Len(Servers)
        /\ v.i < Len(Servers) => Tried({AskNext(v).conn}, v.i + 1)
    BY <1>3, <1>5, <2>1, AskNextOk
  <2> QED BY <1>2, <1>3, <2>2
<1>7. up'[c] = u
  BY <1>6 DEF UpInv, UpTypeOK
<1>8. ClientInv(c)'
  <2>1. \A t, j : Tried(t, j)' <=> Tried(t, j)
    BY <1>2 DEF Tried
  <2>2. AskInv(c)'
    <3>1. u.i \in 1..(Len(Servers) + 1) /\ u.i - 1 = v.i /\ (u.i = Len(Servers) + 1 <=> v.i = Len(Servers))
          /\ (u.i <= Len(Servers) => v.i < Len(Servers))
      BY <1>4, <1>6, ServerFacts
    <3> QED BY <1>5, <1>6, <1>7, <2>1, <3>1 DEF AskInv
  <2>3. u.answer \in 0..Len(answers')
    BY <1>2, <1>3, <1>6 DEF UpInv, ClientInv
  <2> QED BY <1>6, <1>7, <2>2, <2>3 DEF ClientInv, DoneInv, HitInv, HasHit
<1>9. upInflight' \in [Names -> [leader : Clients \union {Nobody}, members : SUBSET Clients]]
  BY <1>2 DEF UpInv, UpTypeOK
<1> QED BY <1>2, <1>6, <1>8, <1>9, OneClient

\* A response without records is returned, and not cached.
LEMMA ExchangeEmptyPreserves ==
    ASSUME UpInv, NEW c \in Clients, up[c].pc = "ask", up[c].conn # Nobody, ExchangeEmpty(c),
           UNCHANGED now
    PROVE  UpInv'
<1>1. PICK rcode \in Rcodes : Return(c, NoAnswer, rcode, up[c].conn)
  BY DEF ExchangeEmpty
<1>2. UNCHANGED <<connections, upCache, answers, now>>
  BY DEF ExchangeEmpty
<1>3. AnswersKept /\ NoAnswer \in 0..Len(answers') /\ NoAnswer \in Nat
  BY <1>2, SameAnswers DEF NoAnswer, AnswersKept
<1>4. /\ \A d \in Clients : ClientInv(d)'
      /\ up' \in [Clients -> UpRecord]
      /\ upInflight' \in [Names -> [leader : Clients \union {Nobody}, members : SUBSET Clients]]
  BY <1>1, <1>3, AskFacts, ReturnPreserves
<1>5. \A n \in Names : EntryInv(n)'
  BY <1>2, <1>3, OthersKept
<1> QED BY <1>2, <1>4, <1>5 DEF UpInv, UpTypeOK, ListInv, TtlInv, Ends

\* An answer is received, cached, and its server put into the first place.
LEMMA ExchangeWorksPreserves ==
    ASSUME UpInv, NEW c \in Clients, up[c].pc = "ask", up[c].conn # Nobody,
           NEW r \in Replies, ExchangeWorks(c, r), UNCHANGED now
    PROVE  UpInv'
<1> DEFINE Answer == [ttl : Nat \union {Wrapped}, reply : Replies, at : Nat]
<1>1. PICK new : new = [ttl |-> r.first, reply |-> r, at |-> now]
  OBVIOUS
<1>2. PICK k : k = Len(answers) + 1
  OBVIOUS
<1>3. /\ answers' = Append(answers, new)
      /\ upCache' = [upCache EXCEPT ![up[c].name] = [answer |-> k, exp |-> now + Life(r)]]
      /\ connections' = [connections EXCEPT ![1] = up[c].conn]
      /\ Return(c, k, "NOERROR", up[c].conn)
  BY <1>1, <1>2 DEF ExchangeWorks
<1>4. r.first \in Nat /\ now \in Nat /\ Life(r) \in Nat /\ now + Life(r) \in Nat
  BY LifeBounds, UpstreamAssumption DEF UpInv, UpTypeOK
<1>5. new \in Answer
  BY <1>1, <1>4
<1>6. answers \in Seq(Answer) /\ Len(answers) \in Nat
  BY DEF UpInv, UpTypeOK
<1>7. /\ answers' \in Seq(Answer) /\ Len(answers') = k /\ k \in Nat /\ k # 0
      /\ DOMAIN answers' = 1..k /\ DOMAIN answers = 1..(k - 1)
      /\ answers'[k] = new /\ \A j \in DOMAIN answers : answers'[j] = answers[j]
  <2> HIDE DEF Answer
  <2> QED BY <1>2, <1>3, <1>5, <1>6
<1>8. AnswersKept
  <2>1. answers' # <<>> /\ DOMAIN answers \subseteq DOMAIN answers'
    BY <1>7
  <2> QED BY <1>2, <1>4, <1>6, <1>7, <2>1 DEF AnswersKept
<1>9. /\ \A d \in Clients : ClientInv(d)'
      /\ up' \in [Clients -> UpRecord]
      /\ upInflight' \in [Names -> [leader : Clients \union {Nobody}, members : SUBSET Clients]]
  <2>1. /\ up[c].name \in Names /\ up[c].conn \in ServerSet /\ "NOERROR" \in Rcodes
        /\ k \in 0..Len(answers') /\ Return(c, k, "NOERROR", up[c].conn)
    BY <1>3, <1>7, AskFacts DEF Rcodes
  <2> QED BY <1>7, <1>8, <2>1, ReturnPreserves
<1>10. (\A n \in Names : EntryInv(n)') /\ upCache' \in [Names -> [answer : Nat, exp : Nat]]
  <2>1. PICK m \in Names : m = up[c].name
    BY AskFacts
  <2>2. upCache \in [Names -> [answer : Nat, exp : Nat]]
    BY DEF UpInv, UpTypeOK
  <2>3. upCache' \in [Names -> [answer : Nat, exp : Nat]]
    BY <1>3, <1>4, <1>7, <2>1, <2>2
  <2>4. upCache'[m].answer = k /\ upCache'[m].exp = now + Life(r)
    BY <1>3, <2>1, <2>2
  <2>5. answers'[k].at = now /\ answers'[k].reply = r /\ k \in DOMAIN answers'
    BY <1>1, <1>7
  <2>6. EntryInv(m)'
    BY <2>4, <2>5 DEF EntryInv, Expires, Ends, Life
  <2>7. \A n \in Names \ {m} : upCache'[n] = upCache[n]
    BY <1>3, <2>1, <2>2
  <2>8. \A n \in Names \ {m} : EntryInv(n)'
    BY <1>8, <2>7, OthersKept
  <2> QED BY <2>3, <2>6, <2>8
<1>11. \A j \in DOMAIN answers' : TtlInv(j)'
  <2> SUFFICES ASSUME NEW j \in DOMAIN answers' PROVE TtlInv(j)'
    OBVIOUS
  <2>1. CASE j \in DOMAIN answers
    BY <1>7, <2>1 DEF UpInv, TtlInv, Ends
  <2>2. CASE j = k
    <3>1. answers'[j].at = now /\ answers'[j].ttl = r.first /\ answers'[j].reply = r
      BY <1>1, <1>7, <2>2
    <3> QED BY <1>4, <3>1 DEF TtlInv
  <2> QED BY <1>7, <2>1, <2>2
<1>12. connections' \in Seq(ServerSet) /\ Len(connections') = Len(Servers) /\ ListInv'
  <2>1. connections \in Seq(ServerSet) /\ Len(connections) = Len(Servers)
    BY DEF UpInv, UpTypeOK
  <2>2. up[c].conn \in ServerSet /\ 1 \in DOMAIN connections
    BY <2>1, AskFacts, ServerFacts
  <2>3. connections' \in Seq(ServerSet) /\ Len(connections') = Len(Servers)
    BY <1>3, <2>1, <2>2, SeqUpdate
  <2>4. \A i \in 2..Len(Servers) : connections'[i] = connections[i]
    BY <1>3, <2>1, <2>2
  <2>5. answers' # <<>>
    BY <1>7
  <2> QED BY <2>3, <2>4, <2>5 DEF UpInv, ListInv
<1> QED BY <1>7, <1>9, <1>10, <1>11, <1>12 DEF UpInv, UpTypeOK

\* The steps of upstream queries, and of time.
LEMMA UpstreamPreserves ==
    ASSUME UpInv, UpstreamStep
    PROVE  UpInv'
<1>1. CASE Tick
  <2>1. now' = now + 1 /\ now \in Nat /\ UNCHANGED <<connections, upCache, answers, upInflight, up>>
    BY <1>1 DEF Tick, UpInv, UpTypeOK
  <2>2. AnswersKept
    BY <2>1, SameAnswers
  <2>3. (\A d \in Clients : ClientInv(d)') /\ \A n \in Names : EntryInv(n)'
    BY <2>1, <2>2, OthersKept
  <2>4. \A k \in DOMAIN answers' : TtlInv(k)'
    <3> SUFFICES ASSUME NEW k \in DOMAIN answers PROVE TtlInv(k)'
      BY <2>1
    <3>1. answers[k].at \in Nat /\ Ends(k) \in Nat /\ Ends(k)' = Ends(k)
      <4>1. answers \in Seq([ttl : Nat \union {Wrapped}, reply : Replies, at : Nat])
        BY DEF UpInv, UpTypeOK
      <4>2. answers[k] \in [ttl : Nat \union {Wrapped}, reply : Replies, at : Nat]
        BY <4>1, SeqElement
      <4> QED BY <2>1, <4>2, LifeBounds DEF Ends
    <3> QED BY <2>1, <3>1 DEF UpInv, TtlInv
  <2> QED BY <2>1, <2>3, <2>4 DEF UpInv, UpTypeOK, ListInv
<1>2. ASSUME NEW c \in Clients, QueryStep(c) PROVE UpInv'
  <2>1. CASE Rewrite(c)
    BY <2>1, RewritePreserves
  <2>2. CASE AllFailed(c)
    BY <2>2, AllFailedPreserves
  <2>3. CASE Exchange(c)
    BY <2>3, ExchangeFailsPreserves, ExchangeEmptyPreserves, ExchangeWorksPreserves DEF Exchange
  <2> QED BY <1>2, <2>1, <2>2, <2>3 DEF QueryStep
<1> QED BY <1>1, <1>2 DEF UpstreamStep

(***************************************************************************)
(* The requests.                                                           *)
(***************************************************************************)
ReqRecord ==
    [pc : {"new", "a", "next", "aname", "ask", "upstream", "done"}, a : Parsable("A"), since : Nat,
     out : Names \union {Nobody, "SERVFAIL", "own", "nothing", "empty", "upstream"},
     ttl : Nat \union {Wrapped}]

\* There was a moment with neither an A nor an ANAME, or one of them was lost.
NothingSince(n) ==
    \/ \E m \in n..Present : \A k \in Keys : Without(m, k)
    \/ \E m \in n..(Present - 1) : \E k \in Keys : ~Without(m, k) /\ Without(m + 1, k)

\* A request that waits for a record set has called getRRSet for it; the A that it
\* has was in Redis since its flight began; and nothing is answered only when
\* there was nothing.
ReqInv(c) ==
    /\ req[c].pc = "a" => rec[c].pc # "idle" /\ rec[c].key = "A"
    /\ req[c].pc = "aname" => rec[c].pc # "idle" /\ rec[c].key = "ANAME"
    /\ req[c].pc \in {"next", "aname"} =>
          /\ req[c].since \in 1..Present
          /\ Clock > cacheTimeout => ReadSince(req[c].a, "A", req[c].since)
    /\ req[c].pc = "ask" => req[c].out \in Names
    /\ req[c].pc = "done" /\ req[c].out = "nothing" =>
          /\ req[c].since \in 1..Present
          /\ Clock > cacheTimeout => NothingSince(req[c].since)

\* The inductive invariant.
Inv ==
    /\ RecInv /\ UpInv
    /\ req \in [Callers -> ReqRecord]
    /\ \A c \in Callers : ReqInv(c)

\* What Redis held at a moment does not change afterwards, nor the configuration.
HistoryKept ==
    /\ Present \in Nat /\ Present' \in Nat /\ Present' >= Present
    /\ \A m \in 1..Present : history'[m] = history[m]
    /\ cacheTimeout' = cacheTimeout

\* A call of getRRSet stays the one that it is until its result is used.
CallKept(c) == rec[c].pc # "idle" => rec'[c].pc # "idle" /\ rec'[c].key = rec[c].key

\* The invariant of the record cache is kept when nothing of it changes.
LEMMA RecUnchanged ==
    ASSUME RecInv, UNCHANGED recVars
    PROVE  RecInv' /\ HistoryKept /\ \A c \in Callers : CallKept(c)
<1>1. UNCHANGED <<history, pending, recordCache, recordInflight, rec, cacheTimeout>>
  BY DEF recVars, storeVars
<1>2. Present' = Present /\ Present \in Nat
  BY <1>1 DEF Present, RecInv, RecTypeOK
<1>3. \A x, j, n : ReadSince(x, j, n)' <=> ReadSince(x, j, n)
  BY <1>1, <1>2 DEF ReadSince
<1>4. \A k \in Keys : FlightInv(k)'
  BY <1>1, <1>2 DEF RecInv, FlightInv
<1>5. \A c \in Callers : CallerInv(c)'
  BY <1>1, <1>2, <1>3 DEF RecInv, CallerInv
<1>6. RecTypeOK' /\ RemovalSeen'
  BY <1>1, <1>2, SameMoments DEF RecInv, RecTypeOK
<1>7. RecInv'
  BY <1>1, <1>4, <1>5, <1>6 DEF RecInv
<1> QED BY <1>1, <1>2, <1>7 DEF HistoryKept, CallKept

\* The steps of flights and of writes.
LEMMA RecordPreserves ==
    ASSUME RecInv, RecordStep
    PROVE  RecInv' /\ HistoryKept /\ \A c \in Callers : CallKept(c)
<1>1. ASSUME NEW c \in Callers, RedisGet(c) \/ SetCache(c)
      PROVE  RecInv' /\ HistoryKept /\ \A d \in Callers : CallKept(d)
  <2>1. RecInv'
    BY <1>1, RedisGetPreserves, SetCachePreserves
  <2>2. UNCHANGED <<history, cacheTimeout>>
    BY <1>1 DEF RedisGet, SetCache, storeVars
  <2>3. HistoryKept
    BY <2>2 DEF HistoryKept, Present, RecInv, RecTypeOK
  <2>4. ASSUME NEW k, NEW val, Land(k, val) PROVE \A d \in Callers : CallKept(d)
    <3> SUFFICES ASSUME NEW d \in Callers PROVE CallKept(d)
      OBVIOUS
    <3>1. rec[d] \in [pc : {"idle", "get", "wait", "set", "done"}, key : Keys \union {None},
                      val : AnySet \union {None, Error}, since : Nat]
      BY DEF RecInv, RecTypeOK
    <3>2. rec'[d] = rec[d] \/ rec'[d] = [rec[d] EXCEPT !.pc = "done", !.val = val]
      BY <2>4 DEF Land
    <3>3. rec'[d] = rec[d] \/ (rec'[d].pc = "done" /\ rec'[d].key = rec[d].key)
      BY <3>1, <3>2
    <3> QED BY <3>3 DEF CallKept
  <2>5. ASSUME NEW val, rec' = [rec EXCEPT ![c] = [rec[c] EXCEPT !.pc = "set", !.val = val]]
        PROVE  \A d \in Callers : CallKept(d)
    <3> SUFFICES ASSUME NEW d \in Callers PROVE CallKept(d)
      OBVIOUS
    <3>1. rec[d] \in [pc : {"idle", "get", "wait", "set", "done"}, key : Keys \union {None},
                      val : AnySet \union {None, Error}, since : Nat]
      BY DEF RecInv, RecTypeOK
    <3>2. rec'[d] = rec[d] \/ rec'[d] = [rec[d] EXCEPT !.pc = "set", !.val = val]
      BY <2>5 DEF RecInv, RecTypeOK
    <3>3. rec'[d] = rec[d] \/ (rec'[d].pc = "set" /\ rec'[d].key = rec[d].key)
      BY <3>1, <3>2
    <3> QED BY <3>3 DEF CallKept
  <2>6. \A d \in Callers : CallKept(d)
    BY <1>1, <2>4, <2>5 DEF RedisGet, SetCache, GetFails
  <2> QED BY <2>1, <2>3, <2>6
<1>2. ASSUME \/ SetRRSet
             \/ \E e \in Entries : SetLocationFromJson(e)
             \/ \E v \in Values : SetRRSetFromJson(v)
      PROVE  RecInv' /\ HistoryKept /\ \A c \in Callers : CallKept(c)
  <2>1. RecInv' /\ Present' >= Present /\ \A m \in 1..Present : history'[m] = history[m]
    BY <1>2, WritePreserves
  <2>2. Present \in Nat /\ Present' \in Nat
    BY <2>1 DEF RecInv, RecTypeOK, Present
  <2>3. UNCHANGED <<rec, cacheTimeout>>
    BY <1>2 DEF SetRRSet, SetLocationFromJson, SetRRSetFromJson
  <2> QED BY <2>1, <2>2, <2>3 DEF HistoryKept, CallKept
<1> QED BY <1>1, <1>2 DEF RecordStep

\* What was at a moment stays so.
LEMMA NothingKept ==
    ASSUME HistoryKept, NEW n \in 1..Present, NothingSince(n)
    PROVE  NothingSince(n)'
<1>1. \A m \in 1..Present, k \in Keys : Without(m, k)' <=> Without(m, k)
  BY DEF HistoryKept, Without
<1>2. CASE \E m \in n..Present : \A k \in Keys : Without(m, k)
  <2>1. PICK m \in n..Present : \A k \in Keys : Without(m, k)
    BY <1>2
  <2>2. m \in 1..Present /\ m \in n..Present'
    BY DEF HistoryKept
  <2> QED BY <1>1, <2>1, <2>2 DEF NothingSince
<1>3. CASE \E m \in n..(Present - 1) : \E k \in Keys : ~Without(m, k) /\ Without(m + 1, k)
  <2>1. PICK m \in n..(Present - 1) : \E k \in Keys : ~Without(m, k) /\ Without(m + 1, k)
    BY <1>3
  <2>2. PICK k \in Keys : ~Without(m, k) /\ Without(m + 1, k)
    BY <2>1
  <2>3. m \in 1..Present /\ m + 1 \in 1..Present /\ m \in n..(Present' - 1)
    <3>1. Present \in Nat /\ Present' \in Nat /\ Present <= Present'
      BY DEF HistoryKept
    <3>2. n \in Nat /\ n >= 1 /\ m \in Int /\ n <= m /\ m <= Present - 1
      BY <3>1
    <3>3. m \in 1..Present /\ m + 1 \in 1..Present
      BY <3>1, <3>2
    <3>4. m \in n..(Present' - 1)
      <4>1. PICK i, j : i = Present /\ j = Present'
        OBVIOUS
      <4>2. i \in Nat /\ j \in Nat /\ i <= j /\ m <= i - 1 /\ m \in Int /\ n \in Nat /\ n <= m
        BY <3>1, <3>2, <4>1
      <4>3. m \in n..(j - 1)
        BY <4>2
      <4> QED BY <4>1, <4>3
    <3> QED BY <3>3, <3>4
  <2>4. ~Without(m, k)' /\ Without(m + 1, k)'
    BY <1>1, <2>2, <2>3
  <2> QED BY <2>4, <2>3 DEF NothingSince
<1> QED BY <1>2, <1>3 DEF NothingSince

\* What a request has read stays read while others go on.
LEMMA RequestKept ==
    ASSUME HistoryKept, NEW c \in Callers, ReqInv(c), req'[c] = req[c], CallKept(c)
    PROVE  ReqInv(c)'
<1>2. 1..Present \subseteq 1..Present' /\ cacheTimeout' = cacheTimeout
  BY DEF HistoryKept
<1>3. req[c].pc \in {"next", "aname"} =>
          /\ req[c].since \in 1..Present'
          /\ Clock > cacheTimeout' => ReadSince(req[c].a, "A", req[c].since)'
  <2>1. SUFFICES ASSUME req[c].pc \in {"next", "aname"}
                 PROVE  /\ req[c].since \in 1..Present'
                        /\ Clock > cacheTimeout' => ReadSince(req[c].a, "A", req[c].since)'
    OBVIOUS
  <2>2. /\ req[c].since \in 1..Present
        /\ Clock > cacheTimeout => ReadSince(req[c].a, "A", req[c].since)
    BY <2>1 DEF ReqInv
  <2>3. ASSUME ReadSince(req[c].a, "A", req[c].since) PROVE ReadSince(req[c].a, "A", req[c].since)'
    <3>1. PICK m \in req[c].since..Present : req[c].a = Parsed(history[m]["A"])
      BY <2>3 DEF ReadSince
    <3>2. m \in req[c].since..Present' /\ history'[m] = history[m]
      BY <2>2, <3>1 DEF HistoryKept
    <3> QED BY <3>1, <3>2 DEF ReadSince, Parsed
  <2> QED BY <1>2, <2>2, <2>3
<1>4. req[c].pc = "done" /\ req[c].out = "nothing" =>
          /\ req[c].since \in 1..Present'
          /\ Clock > cacheTimeout' => NothingSince(req[c].since)'
  BY <1>2, NothingKept DEF ReqInv
<1> QED BY <1>3, <1>4 DEF ReqInv, CallKept

\* A step of one request.
LEMMA OneRequest ==
    ASSUME Inv, RecInv', UpInv', HistoryKept, NEW c \in Callers, NEW v \in ReqRecord,
           req' = [req EXCEPT ![c] = v],
           \A d \in Callers \ {c} : rec'[d] = rec[d],
           ReqInv(c)'
    PROVE  Inv'
<1>1. \A d \in Callers \ {c} : req'[d] = req[d] /\ CallKept(d)
  BY DEF Inv, CallKept
<1>2. \A d \in Callers \ {c} : ReqInv(d)'
  BY <1>1, RequestKept DEF Inv
<1>3. req' \in [Callers -> ReqRecord]
  BY DEF Inv
<1> QED BY <1>2, <1>3 DEF Inv

\* The invariant of upstream queries is kept when nothing of them changes.
LEMMA UpUnchanged ==
    ASSUME UpInv, UNCHANGED upVars
    PROVE  UpInv'
<1>1. UNCHANGED <<connections, upCache, answers, upInflight, up, now>>
  BY DEF upVars
<1>2. (\A d \in Clients : ClientInv(d)') /\ \A n \in Names : EntryInv(n)'
  BY <1>1, SameAnswers, OthersKept
<1> QED BY <1>1, <1>2 DEF UpInv, UpTypeOK, ListInv, TtlInv, Ends

\* A call of getRRSet by a request.
LEMMA ReadPreserves ==
    ASSUME Inv, NEW c \in Callers, NEW k \in Keys, getRRSet(c, k), UNCHANGED upVars,
           NEW pc \in {"a", "aname"}, Become(c, pc),
           pc = "a" => k = "A", pc = "aname" => k = "ANAME" /\ req[c].pc = "next"
    PROVE  Inv'
<1>1. RecInv' /\ rec'[c].pc # "idle" /\ rec'[c].key = k
  BY getRRSetPreserves DEF Inv
<1>2. UpInv'
  BY UpUnchanged DEF Inv
<1>3. UNCHANGED <<history, cacheTimeout>>
  BY DEF getRRSet, storeVars
<1>4. HistoryKept
  BY <1>3 DEF HistoryKept, Inv, RecInv, RecTypeOK, Present
<1>5. \A d \in Callers \ {c} : rec'[d] = rec[d]
  BY DEF getRRSet, FromCache, Do, Inv, RecInv, RecTypeOK
<1>6. PICK v : v = [req[c] EXCEPT !.pc = pc]
  OBVIOUS
<1>7. /\ v \in ReqRecord /\ v.pc = pc /\ v.a = req[c].a /\ v.since = req[c].since
      /\ req' = [req EXCEPT ![c] = v] /\ req'[c] = v
  <2>1. req[c] \in ReqRecord /\ req \in [Callers -> ReqRecord]
    BY DEF Inv
  <2>2. v \in ReqRecord /\ v.pc = pc /\ v.a = req[c].a /\ v.since = req[c].since
    BY <1>6, <2>1 DEF ReqRecord
  <2> QED BY <1>6, <2>1, <2>2 DEF Become
<1>8. ReqInv(c)'
  <2>1. \A x, n : ReadSince(x, "A", n)' <=> ReadSince(x, "A", n)
    BY <1>3 DEF ReadSince, Present
  <2>2. pc = "aname" => req[c].since \in 1..Present /\ (Clock > cacheTimeout => ReadSince(v.a, "A", v.since))
    BY <1>7 DEF Inv, ReqInv
  <2>3. pc = "aname" => v.since \in 1..Present' /\ (Clock > cacheTimeout' => ReadSince(v.a, "A", v.since)')
    BY <1>3, <1>7, <2>1, <2>2 DEF Present
  <2> QED BY <1>1, <1>7, <2>3 DEF ReqInv, ReadSince
<1> QED BY <1>1, <1>2, <1>4, <1>5, <1>7, <1>8, OneRequest

\* The A was read.
LEMMA HaveAPreserves ==
    ASSUME Inv, NEW c \in Callers, HaveA(c)
    PROVE  Inv'
<1>1. Taken(c, "a")
  BY DEF HaveA
<1>2. /\ RecInv' /\ UNCHANGED <<history, cacheTimeout, upVars>>
      /\ req[c].pc = "a" /\ rec[c].pc = "done" /\ rec[c].key = "A"
      /\ \A d \in Callers \ {c} : rec'[d] = rec[d]
  BY <1>1, TakenPreserves DEF Taken, storeVars, Inv, ReqInv, RecInv, RecTypeOK
<1>3. UpInv' /\ HistoryKept
  BY <1>2, UpUnchanged DEF HistoryKept, Inv, RecInv, RecTypeOK, Present
<1>4. req[c] \in ReqRecord /\ req \in [Callers -> ReqRecord]
  BY DEF Inv
<1>5. CASE rec[c].val = Error
  <2>1. PICK v : v = [req[c] EXCEPT !.pc = "done", !.out = "SERVFAIL", !.ttl = 0]
    OBVIOUS
  <2>2. v \in ReqRecord /\ v.pc = "done" /\ v.out = "SERVFAIL"
    BY <1>4, <2>1 DEF ReqRecord
  <2>3. req' = [req EXCEPT ![c] = v] /\ req'[c] = v
    BY <1>4, <1>5, <2>1 DEF HaveA, Finish
  <2>4. ReqInv(c)'
    BY <2>2, <2>3 DEF ReqInv
  <2> QED BY <1>2, <1>3, <2>2, <2>3, <2>4, OneRequest
<1>6. CASE rec[c].val # Error
  <2>1. /\ rec[c].since \in 1..Present /\ Present \in Nat /\ rec[c].val \in Parsable("A")
        /\ Clock > cacheTimeout => ReadSince(rec[c].val, "A", rec[c].since)
    BY <1>2, <1>6 DEF Inv, RecInv, CallerInv, RecTypeOK, Present
  <2>2. PICK x, n : x = rec[c].val /\ n = rec[c].since
    OBVIOUS
  <2>3. PICK v : v = [req[c] EXCEPT !.pc = "next", !.a = x, !.since = n]
    OBVIOUS
  <2>4. v \in ReqRecord /\ v.pc = "next" /\ v.a = x /\ v.since = n
    <3>1. n \in Nat /\ x \in Parsable("A")
      BY <2>1, <2>2
    <3> QED BY <1>4, <2>3, <3>1 DEF ReqRecord
  <2>5. req' = [req EXCEPT ![c] = v] /\ req'[c] = v
    BY <1>4, <1>6, <2>2, <2>3 DEF HaveA
  <2>6. n \in 1..Present' /\ (Clock > cacheTimeout' => ReadSince(x, "A", n)')
    BY <1>2, <2>1, <2>2 DEF ReadSince, Present
  <2>7. ReqInv(c)'
    BY <2>4, <2>5, <2>6 DEF ReqInv, ReadSince
  <2> QED BY <1>2, <1>3, <2>4, <2>5, <2>7, OneRequest
<1> QED BY <1>5, <1>6

\* Two sets that were read without data were both missing at the earlier of the
\* two moments, unless one was lost between them.
LEMMA BothMissing ==
    ASSUME RecInv, NEW s \in 1..Present, NEW t \in 1..Present,
           NEW x \in Parsable("A"), NEW y \in Parsable("ANAME"), x.to = None, y.to = None,
           ReadSince(x, "A", s), ReadSince(y, "ANAME", t)
    PROVE  NothingSince(IF t < s THEN t ELSE s)
<1>1. Keys = {"A", "ANAME"} /\ Present \in Nat
  BY AnameQueryAssumption DEF RecInv, RecTypeOK, Present
<1>2. PICK first : first = IF t < s THEN t ELSE s
  OBVIOUS
<1>3. PICK m \in s..Present : x = Parsed(history[m]["A"])
  BY DEF ReadSince
<1>4. PICK n \in t..Present : y = Parsed(history[n]["ANAME"])
  BY DEF ReadSince
<1>5. /\ m \in 1..Present /\ n \in 1..Present /\ m \in first..Present /\ n \in first..Present
      /\ first \in 1..Present
  BY <1>1, <1>2
<1>6. Without(m, "A") /\ Without(n, "ANAME")
  BY <1>1, <1>3, <1>4, <1>5, EmptyIsAbsent
<1>7. ASSUME NEW i \in 1..Present, NEW j \in 1..Present, NEW k \in Keys, Without(j, k), i <= j,
             i \in first..Present
      PROVE  Without(i, k) \/ NothingSince(first)
  <2>1. CASE Without(i, k)
    BY <2>1
  <2>2. CASE Emptied(i, j, k)
    <3>1. PICK h \in i..(j - 1) : ~Without(h, k) /\ Without(h + 1, k)
      BY <2>2 DEF Emptied
    <3>2. h \in first..(Present - 1)
      BY <1>1, <1>5, <1>7
    <3> QED BY <3>1, <3>2 DEF NothingSince
  <2> QED BY <1>7, <2>1, <2>2 DEF RecInv, RemovalSeen
<1>8. CASE m <= n
  <2>1. Without(m, "ANAME") \/ NothingSince(first)
    BY <1>1, <1>5, <1>6, <1>7, <1>8
  <2> QED BY <1>1, <1>2, <1>5, <1>6, <2>1 DEF NothingSince
<1>9. CASE n < m
  <2>1. Without(n, "A") \/ NothingSince(first)
    BY <1>1, <1>5, <1>6, <1>7, <1>9
  <2> QED BY <1>1, <1>2, <1>5, <1>6, <2>1 DEF NothingSince
<1> QED BY <1>1, <1>5, <1>8, <1>9

\* The ANAME was read.
LEMMA HaveANAMEPreserves ==
    ASSUME Inv, NEW c \in Callers, HaveANAME(c)
    PROVE  Inv'
<1>1. Taken(c, "aname")
  BY DEF HaveANAME
<1>2. /\ RecInv' /\ UNCHANGED <<history, cacheTimeout, upVars>>
      /\ req[c].pc = "aname" /\ rec[c].pc = "done" /\ rec[c].key = "ANAME"
      /\ \A d \in Callers \ {c} : rec'[d] = rec[d]
  BY <1>1, TakenPreserves DEF Taken, storeVars, Inv, ReqInv, RecInv, RecTypeOK
<1>3. UpInv' /\ HistoryKept
  BY <1>2, UpUnchanged DEF HistoryKept, Inv, RecInv, RecTypeOK, Present
<1>4. req[c] \in ReqRecord /\ req \in [Callers -> ReqRecord]
  BY DEF Inv
<1>5. /\ req[c].since \in 1..Present /\ rec[c].since \in 1..Present /\ Present \in Nat
      /\ Clock > cacheTimeout => ReadSince(req[c].a, "A", req[c].since)
      /\ rec[c].val # Error => /\ rec[c].val \in Parsable("ANAME")
                               /\ Clock > cacheTimeout => ReadSince(rec[c].val, "ANAME", rec[c].since)
  <2>1. ReqInv(c) /\ CallerInv(c) /\ Present \in Nat
    BY DEF Inv, RecInv, RecTypeOK, Present
  <2> QED BY <1>2, <2>1 DEF ReqInv, CallerInv
<1>6. ASSUME NEW out \in {"SERVFAIL", "own"}, NEW ttl \in Nat, Finish(c, out, ttl) PROVE Inv'
  <2>1. PICK v : v = [req[c] EXCEPT !.pc = "done", !.out = out, !.ttl = ttl]
    OBVIOUS
  <2>2. v \in ReqRecord /\ v.pc = "done" /\ v.out # "nothing"
    BY <1>4, <2>1 DEF ReqRecord
  <2>3. req' = [req EXCEPT ![c] = v] /\ req'[c] = v
    BY <1>4, <1>6, <2>1 DEF Finish
  <2>4. ReqInv(c)'
    BY <2>2, <2>3 DEF ReqInv
  <2> QED BY <1>2, <1>3, <2>2, <2>3, <2>4, OneRequest
<1>7. CASE rec[c].val = Error /\ Finish(c, "SERVFAIL", 0)
  BY <1>6, <1>7
<1>8. CASE Finish(c, "own", req[c].a.ttl)
  <2>1. req[c].a \in Parsable("A")
    BY <1>4 DEF ReqRecord
  <2>2. req[c].a.ttl \in Nat
    BY <2>1 DEF Parsable, Sets, Empty, Set
  <2> QED BY <1>6, <1>8, <2>2
<1>9. CASE /\ rec[c].val # Error /\ rec[c].val.to = None /\ req[c].a.to = None
           /\ req' = [req EXCEPT ![c].pc = "done", ![c].out = "nothing", ![c].since = Earlier(c)]
  <2>1. req[c].a \in Parsable("A")
    BY <1>4 DEF ReqRecord
  <2>2. Earlier(c) \in 1..Present
    BY <1>5 DEF Earlier
  <2>3. Clock > cacheTimeout => NothingSince(Earlier(c))
    BY <1>5, <1>9, <2>1, BothMissing DEF Inv, Earlier
  <2>4. PICK n : n = Earlier(c)
    OBVIOUS
  <2>5. PICK v : v = [req[c] EXCEPT !.pc = "done", !.out = "nothing", !.since = n]
    OBVIOUS
  <2>6. v \in ReqRecord /\ v.pc = "done" /\ v.since = n
    <3>1. n \in Nat
      BY <2>2, <2>4
    <3> QED BY <1>4, <2>5, <3>1 DEF ReqRecord
  <2>7. req' = [req EXCEPT ![c] = v] /\ req'[c] = v
    BY <1>4, <1>9, <2>4, <2>5
  <2>8. ReqInv(c)'
    <3>1. n \in 1..Present' /\ (Clock > cacheTimeout' => NothingSince(n)')
      BY <1>2, <1>3, <2>2, <2>3, <2>4, NothingKept DEF Present
    <3> QED BY <2>6, <2>7, <3>1 DEF ReqInv, NothingSince, Without, Present
  <2> QED BY <1>2, <1>3, <2>6, <2>7, <2>8, OneRequest
<1>10. CASE /\ rec[c].val # Error /\ rec[c].val.to # None
            /\ req' = [req EXCEPT ![c].pc = "ask", ![c].out = rec[c].val.to]
  <2>1. rec[c].val \in Sets("ANAME")
    BY <1>5, <1>10 DEF Parsable, Empty, Set
  <2>2. rec[c].val.to \in Names
    BY <1>10, <2>1, AnameQueryAssumption DEF Sets
  <2>3. PICK n \in Names : n = rec[c].val.to
    BY <2>2
  <2>4. PICK v : v = [req[c] EXCEPT !.pc = "ask", !.out = n]
    OBVIOUS
  <2>5. v \in ReqRecord /\ v.pc = "ask" /\ v.out = n
    BY <1>4, <2>4 DEF ReqRecord
  <2>6. req' = [req EXCEPT ![c] = v] /\ req'[c] = v
    BY <1>4, <1>10, <2>3, <2>4
  <2>7. ReqInv(c)'
    BY <2>5, <2>6 DEF ReqInv
  <2> QED BY <1>2, <1>3, <2>5, <2>6, <2>7, OneRequest
<1> QED BY <1>7, <1>8, <1>9, <1>10 DEF HaveANAME

\* Upstream is asked.
LEMMA AskUpstreamPreserves ==
    ASSUME Inv, NEW c \in Callers, AskUpstream(c)
    PROVE  Inv'
<1>1. req[c].pc = "ask" /\ req[c].out \in Names /\ Query(c, req[c].out)
  BY DEF AskUpstream, Inv, ReqInv
<1>2. UpInv'
  BY <1>1, QueryPreserves, AnameQueryAssumption DEF Inv
<1>3. RecInv' /\ HistoryKept /\ rec' = rec
  BY RecUnchanged DEF AskUpstream, recVars, Inv
<1>4. PICK v : v = [req[c] EXCEPT !.pc = "upstream"]
  OBVIOUS
<1>5. v \in ReqRecord /\ v.pc = "upstream" /\ req' = [req EXCEPT ![c] = v] /\ req'[c] = v
  <2>1. req[c] \in ReqRecord /\ req \in [Callers -> ReqRecord]
    BY DEF Inv
  <2>2. v \in ReqRecord /\ v.pc = "upstream"
    BY <1>4, <2>1 DEF ReqRecord
  <2> QED BY <1>4, <2>1, <2>2 DEF AskUpstream, Become
<1>6. ReqInv(c)'
  BY <1>5 DEF ReqInv
<1> QED BY <1>2, <1>3, <1>5, <1>6, OneRequest

\* Upstream has answered.
LEMMA HaveUpstreamPreserves ==
    ASSUME Inv, NEW c \in Callers, HaveUpstream(c)
    PROVE  Inv'
<1>1. /\ up' = [up EXCEPT ![c] = Resting] /\ c \in Clients
      /\ UNCHANGED <<connections, upCache, answers, upInflight, now, recVars>>
  BY AnameQueryAssumption DEF HaveUpstream
<1>2. UpInv'
  BY <1>1, RestPreserves DEF Inv
<1>3. RecInv' /\ HistoryKept /\ rec' = rec
  BY <1>1, RecUnchanged DEF recVars, Inv
<1>4. req[c] \in ReqRecord /\ req \in [Callers -> ReqRecord]
  BY DEF Inv
<1>5. PICK out \in {"SERVFAIL", "empty", "upstream"}, ttl \in Nat \union {Wrapped} : Finish(c, out, ttl)
  <2>1. up[c].answer # NoAnswer => answers[up[c].answer].ttl \in Nat \union {Wrapped}
    <3> HAVE up[c].answer # NoAnswer
    <3>1. /\ answers \in Seq([ttl : Nat \union {Wrapped}, reply : Replies, at : Nat])
          /\ up[c].answer \in 0..Len(answers)
      BY <1>1 DEF Inv, UpInv, UpTypeOK, ClientInv
    <3>2. up[c].answer \in DOMAIN answers
      BY <3>1 DEF NoAnswer
    <3>3. answers[up[c].answer] \in
              [ttl : Nat \union {Wrapped}, reply : Replies, at : Nat]
      BY <3>1, <3>2, SeqElement
    <3> QED BY <3>3
  <2> QED BY <2>1 DEF HaveUpstream
<1>6. PICK v : v = [req[c] EXCEPT !.pc = "done", !.out = out, !.ttl = ttl]
  OBVIOUS
<1>7. v \in ReqRecord /\ v.pc = "done" /\ v.out # "nothing"
  BY <1>4, <1>6 DEF ReqRecord
<1>8. req' = [req EXCEPT ![c] = v] /\ req'[c] = v
  BY <1>4, <1>5, <1>6 DEF Finish
<1>9. ReqInv(c)'
  BY <1>7, <1>8 DEF ReqInv
<1> QED BY <1>2, <1>3, <1>7, <1>8, <1>9, OneRequest

\* What the requests have holds while flights, writes and upstream queries go on.
LEMMA OthersPreserve ==
    ASSUME Inv, RecInv', UpInv', HistoryKept, \A c \in Callers : CallKept(c), req' = req
    PROVE  Inv'
<1>1. \A c \in Callers : ReqInv(c)'
  BY RequestKept DEF Inv
<1> QED BY <1>1 DEF Inv

\* The three parts hold of every reachable state.
THEOREM Invariance == Spec => []Inv
<1>1. Init => Inv
  <2> SUFFICES ASSUME Init PROVE Inv
    OBVIOUS
  <2>1. RecInv /\ UpInv
    BY RecInvInit, UpInvInit DEF Init
  <2>2. NewRequest \in ReqRecord
    BY DEF NewRequest, ReqRecord, Parsable
  <2>3. \A c \in Callers : req[c] = NewRequest /\ req[c].pc = "new"
    BY DEF Init, NewRequest
  <2> QED BY <2>1, <2>2, <2>3 DEF Init, Inv, ReqInv
<1>2. Inv /\ [Next]_vars => Inv'
  <2> SUFFICES ASSUME Inv, [Next]_vars PROVE Inv'
    OBVIOUS
  <2>1. ASSUME NEW c \in Callers, Serve(c) PROVE Inv'
    <3>1. Keys = {"A", "ANAME"}
      BY AnameQueryAssumption
    <3>2. CASE ReadA(c)
      BY <3>1, <3>2, ReadPreserves DEF ReadA
    <3>3. CASE HaveA(c)
      BY <3>3, HaveAPreserves
    <3>4. CASE ReadANAME(c)
      BY <3>1, <3>4, ReadPreserves DEF ReadANAME
    <3>5. CASE HaveANAME(c)
      BY <3>5, HaveANAMEPreserves
    <3>6. CASE AskUpstream(c)
      BY <3>6, AskUpstreamPreserves
    <3>7. CASE HaveUpstream(c)
      BY <3>7, HaveUpstreamPreserves
    <3> QED BY <2>1, <3>2, <3>3, <3>4, <3>5, <3>6, <3>7 DEF Serve
  <2>2. CASE RecordStep /\ UNCHANGED <<upVars, req>>
    BY <2>2, RecordPreserves, UpUnchanged, OthersPreserve DEF Inv
  <2>3. CASE UpstreamStep /\ UNCHANGED <<recVars, req>>
    BY <2>3, UpstreamPreserves, RecUnchanged, OthersPreserve DEF Inv
  <2>4. CASE UNCHANGED vars
    BY <2>4, UpUnchanged, RecUnchanged, OthersPreserve DEF Inv, vars
  <2> QED BY <2>1, <2>2, <2>3, <2>4 DEF Next, Served
<1> QED BY <1>1, <1>2, PTL DEF Spec

\* getRRSet returns nothing that is older than the flight it has joined, however
\* many callers share it and whatever is written, emptied or deleted meanwhile.
THEOREM ReadsAreCurrent == Spec => []ReadIsCurrent
<1>1. Inv => ReadIsCurrent
  BY DEF Inv, RecInv, CallerInv, ReadSince, ReadIsCurrent
<1> QED BY <1>1, Invariance, PTL

\* A request answers that there is nothing only if, at one moment since it began
\* or since a flight it has joined began, there was neither an A nor an ANAME, or
\* if one of them was emptied or deleted since then.
THEOREM NothingIsTrue == Spec => []NothingOfAMoment
<1>1. Inv => NothingOfAMoment
  BY DEF Inv, ReqInv, NothingSince, NothingOfAMoment
<1> QED BY <1>1, Invariance, PTL

\* A failure of Query that no server has reported means that every server was
\* tried, but for the first one when an answer has replaced it.
THEOREM FailureIsComplete == Spec => []AllServersTried
<1>1. Inv => AllServersTried
  <2> SUFFICES ASSUME Inv PROVE AllServersTried
    OBVIOUS
  <2>1. \A c \in Clients : up[c].pc = "done" /\ up[c].rcode # "NOERROR" /\ up[c].by = Nobody =>
            \A i \in DOMAIN Servers : Servers[i] \in up[c].tried \/ (i = 1 /\ answers # <<>>)
    BY DEF Inv, UpInv, ClientInv, DoneInv, Tried
  <2>2. \A i \in 2..Len(Servers) : connections[i] = Servers[i]
    BY DEF Inv, UpInv, ListInv
  <2>3. \E i \in DOMAIN Servers : connections[1] = Servers[i]
    <3>1. connections \in Seq(ServerSet) /\ 1 \in DOMAIN connections
      BY ServerFacts DEF Inv, UpInv, UpTypeOK
    <3>2. connections[1] \in ServerSet
      BY <3>1, SeqElement
    <3> QED BY <3>2 DEF ServerSet
  <2> QED BY <2>1, <2>2, <2>3 DEF AllServersTried
<1> QED BY <1>1, Invariance, PTL

\* An answer from the cache is found while its shortest-lived record lives, and the
\* time to live read from it, counted from then, ends with that life, unless the
\* answer expires before it is read; an answer from a server may come with the time
\* to live of its first record.
THEOREM NothingOutlives == Spec => []OutlivesNothing
<1>1. Inv => OutlivesNothing
  <2> SUFFICES ASSUME Inv, NEW c \in Clients, up[c].pc = "done", up[c].answer # NoAnswer
               PROVE  LET a == answers[up[c].answer]
                          end == a.at + (IF a.reply.least = 0 THEN DefaultTtl ELSE a.reply.least)
                      IN /\ up[c].by = Nobody => up[c].asked <= end
                         /\ \/ now > end
                            \/ up[c].by = Nobody /\ up[c].asked + a.ttl <= end
                            \/ up[c].by # Nobody /\ (a.ttl = a.reply.first \/ a.at + a.ttl <= end)
    BY DEF OutlivesNothing
  <2>1. /\ HitInv(c) /\ up[c].answer \in 0..Len(answers)
        /\ answers \in Seq([ttl : Nat \union {Wrapped}, reply : Replies, at : Nat])
    BY DEF Inv, UpInv, ClientInv, UpTypeOK
  <2>2. up[c].answer \in DOMAIN answers
    BY <2>1 DEF NoAnswer
  <2>3. TtlInv(up[c].answer)
    BY <2>2 DEF Inv, UpInv
  <2>4. Ends(up[c].answer) = answers[up[c].answer].at +
            (IF answers[up[c].answer].reply.least = 0 THEN DefaultTtl
             ELSE answers[up[c].answer].reply.least)
    BY DEF Ends, Life
  <2>5. CASE up[c].by = Nobody
    BY <2>1, <2>4, <2>5 DEF HitInv, HasHit, Expires
  <2>6. CASE up[c].by # Nobody
    BY <2>3, <2>4, <2>6 DEF TtlInv
  <2> QED BY <2>5, <2>6
<1> QED BY <1>1, Invariance, PTL
=============================================================================
