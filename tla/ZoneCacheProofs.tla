-------------------------- MODULE ZoneCacheProofs --------------------------
(***************************************************************************)
(* Proofs about the zone cache, for any clients, any contents of Redis and *)
(* any number of writes and failures.                                      *)
(***************************************************************************)
EXTENDS ZoneCache, TLAPS

\* What a flight has read by the time it reads r.
Earlier == [labels  |-> {},
            config  |-> {"labels"},
            zskPub  |-> {"labels", "config"},
            zskPriv |-> {"labels", "config", "zskPub"},
            kskPub  |-> {"labels", "config", "zskPub", "zskPriv"},
            kskPriv |-> {"labels", "config", "zskPub", "zskPriv", "kskPub"}]

\* A flight goes on to the keys only with DNSSEC enabled and after keys that
\* were there, and ends with DNSSEC on only if all of them were.
FlightSigned ==
    /\ reading \in KeyFields =>
          \A f \in Earlier[reading] : f # "labels" => got[f] # 0
    /\ reading = "set" /\ dnssec => \A k \in KeyFields : got[k] # 0

\* A flight that nothing has disturbed has read what Redis holds now, and the
\* zone it ends with is the one a load would return now.
FlightCurrent ==
    ~disturbed =>
        /\ reading \in Fields => \A f \in Earlier[reading] : got[f] = store[f]
        /\ reading = "set" => Current(Loaded)

\* A zone is signed only with all of its keys.
Signable(z) == z # NoZone /\ z.dnssec => \A k \in KeyFields : z.data[k] # 0

\* So are the cached zone, and the ones that clients found and were served.
ZonesSignable ==
    /\ Signable(cache)
    /\ \A c \in Clients : Signable(found[c]) /\ Signable(served[c])

\* Nothing is left to be handled of a connection that is gone.
DownIsEmpty == phase[zoneKeys] = "down" => pending[zoneKeys] = <<>>

\* The inductive invariant.
IInv ==
    /\ TypeOK /\ FlightSigned /\ FlightCurrent /\ ZonesSignable /\ DownIsEmpty
    /\ StaleHasCause

(***************************************************************************)
(* The channel.                                                            *)
(***************************************************************************)

\* A step of the zone-keys subscription keeps the types of the channel.
LEMMA ChannelTypes ==
    ASSUME ChannelTypeOK,
           \/ Connect(zoneKeys) \/ Register(zoneKeys) \/ Close(zoneKeys)
           \/ Lose(zoneKeys) \/ OnStart(zoneKeys) \/ OnMessage(zoneKeys)
           \/ Notify(zoneKeys, zoneName)
    PROVE  ChannelTypeOK'
<1> USE CacheAssumption DEF ChannelTypeOK, Phases
<1>1. CASE Connect(zoneKeys)
  BY <1>1 DEF Connect
<1>2. CASE Register(zoneKeys)
  BY <1>2 DEF Register
<1>3. CASE Close(zoneKeys)
  BY <1>3 DEF Close
<1>4. CASE Lose(zoneKeys)
  <2>1. PICK n \in 0..Len(pending[zoneKeys]) :
            pending' = [pending EXCEPT ![zoneKeys] = SubSeq(@, 1, n)]
    BY <1>4 DEF Lose
  <2>2. pending[zoneKeys] \in Seq(Keys)
    OBVIOUS
  <2>3. SubSeq(pending[zoneKeys], 1, n) \in Seq(Keys)
    BY <2>2
  <2>4. pending' \in [Subs -> Seq(Keys)]
    BY <2>1, <2>3
  <2> QED BY <1>4, <2>4 DEF Lose
<1>5. CASE OnStart(zoneKeys)
  BY <1>5 DEF OnStart
<1>6. CASE OnMessage(zoneKeys)
  <2>1. Tail(pending[zoneKeys]) \in Seq(Keys)
    BY <1>6 DEF OnMessage
  <2> QED BY <1>6, <2>1 DEF OnMessage
<1>7. CASE Notify(zoneKeys, zoneName)
  <2>1. Append(pending[zoneKeys], zoneName) \in Seq(Keys)
    OBVIOUS
  <2> QED BY <1>7, <2>1 DEF Notify
<1> QED BY <1>1, <1>2, <1>3, <1>4, <1>5, <1>6, <1>7

\* After a notification something is left to be handled.
LEMMA NotifyIsPending ==
    ASSUME ChannelTypeOK, Notify(zoneKeys, zoneName)
    PROVE  pending'[zoneKeys] # <<>> /\ phase'[zoneKeys] # "down"
<1>1. pending'[zoneKeys] = Append(pending[zoneKeys], zoneName)
  BY CacheAssumption DEF ChannelTypeOK, Notify
<1>2. Append(pending[zoneKeys], zoneName) # <<>>
  BY CacheAssumption DEF ChannelTypeOK
<1> QED BY <1>1, <1>2 DEF Notify

(***************************************************************************)
(* The load.                                                               *)
(***************************************************************************)

\* A value read for the next key keeps the flight within its types, and with
\* DNSSEC off unless every key was there.
LEMMA GotSigned ==
    ASSUME TypeOK, FlightSigned, reading \in Fields, NEW v \in Values, Got(reading, v)
    PROVE  /\ got' \in [Fields -> Values] /\ dnssec' \in BOOLEAN
           /\ reading' \in Fields \union {"none", "set"}
           /\ FlightSigned'
<1>1. got' \in [Fields -> Values] /\ dnssec' \in BOOLEAN
  BY DEF Got, TypeOK
<1>2. reading' \in Fields \union {"none", "set"}
  BY DEF Got, Fields, KeyFields, AfterKey
<1>3. reading \notin KeyFields => FlightSigned'
  BY DEF Got, TypeOK, FlightSigned, Fields, KeyFields, Earlier
<1>4. CASE reading \in KeyFields
  <2>1. got'[reading] = v /\ (\A f \in Fields \ {reading} : got'[f] = got[f])
    BY DEF Got, TypeOK
  <2>2. reading' = IF v # 0 THEN AfterKey[reading] ELSE "set"
    BY <1>4 DEF Got, KeyFields
  <2>3. dnssec' = (v # 0)
    BY <1>4 DEF Got, KeyFields
  <2>4. \A f \in Earlier[reading] : f # "labels" => got[f] # 0
    BY <1>4 DEF FlightSigned
  <2>5. reading' \in KeyFields =>
            Earlier[reading'] = Earlier[reading] \union {reading} /\ v # 0
    BY <1>4, <2>2 DEF KeyFields, Earlier, AfterKey
  <2>6. reading' = "set" /\ v # 0 =>
            KeyFields \subseteq Earlier[reading] \union {reading}
    BY <1>4, <2>2 DEF KeyFields, Earlier, AfterKey
  <2>7. Earlier[reading] \subseteq Fields \ {reading} /\ "labels" \notin KeyFields
    BY <1>4 DEF Fields, KeyFields, Earlier
  <2>8. FlightSigned'
    BY <2>1, <2>3, <2>4, <2>5, <2>6, <2>7 DEF FlightSigned
  <2> QED BY <1>1, <1>2, <2>8
<1> QED BY <1>1, <1>2, <1>3, <1>4

\* A key read while nothing disturbs the flight leaves it current.
LEMMA ReadCurrent ==
    ASSUME IInv, ReadKey
    PROVE  FlightCurrent'
<1> USE DEF IInv
<1>1. SUFFICES ASSUME ~disturbed PROVE FlightCurrent'
  BY DEF ReadKey, ghostVars, FlightCurrent
<1>2. reading \in Fields /\ store' = store
  BY DEF ReadKey
<1>3. \A f \in Earlier[reading] : got[f] = store[f]
  BY <1>1, <1>2 DEF FlightCurrent
<1>4. got'[reading] = store[reading] /\ (\A f \in Fields \ {reading} : got'[f] = got[f])
  BY DEF ReadKey, Got, TypeOK
<1>5. CASE reading \in {"labels", "config"}
  <2>1. reading' \in Fields => \A f \in Earlier[reading'] : got'[f] = store[f]
    <3>1. CASE reading = "labels"
      BY <1>4, <3>1 DEF ReadKey, Got, Fields, Earlier
    <3>2. CASE reading = "config"
      <4>1. reading' \in {"set", "zskPub"} /\ got'["labels"] = got["labels"]
        BY <1>4, <3>2 DEF ReadKey, Got, Fields
      <4> QED BY <1>3, <1>4, <3>2, <4>1 DEF Fields, KeyFields, Earlier
    <3> QED BY <1>5, <3>1, <3>2
  <2>2. reading' = "set" => Current(Loaded)'
    <3> HAVE reading' = "set"
    <3>1. reading = "config" /\ store["config"] = 0 /\ ~dnssec' /\ dnssec' \in BOOLEAN
      BY <1>5 DEF ReadKey, Got
    <3>2. got'["labels"] = store["labels"] /\ got'["config"] = store["config"]
      BY <1>3, <1>4, <3>1 DEF Fields, Earlier
    <3> QED BY <1>2, <3>1, <3>2 DEF Current, Loaded
  <2> QED BY <1>2, <2>1, <2>2 DEF FlightCurrent
<1>6. CASE reading \in KeyFields
  <2>1. /\ reading' = IF store[reading] # 0 THEN AfterKey[reading] ELSE "set"
        /\ dnssec' = (store[reading] # 0)
    BY <1>6 DEF ReadKey, Got, KeyFields
  <2>2. reading' \in Fields => \A f \in Earlier[reading'] : got'[f] = store[f]
    BY <1>3, <1>4, <1>6, <2>1 DEF Fields, KeyFields, Earlier, AfterKey
  <2>3. \A f \in Earlier[reading] : f # "labels" => store[f] # 0
    BY <1>3, <1>6 DEF FlightSigned
  <2>4. \A f \in {"labels", "config"} : f \in Fields \ {reading} /\ f \in Earlier[reading]
    BY <1>6 DEF Fields, KeyFields, Earlier
  <2>5. reading' = "set" => Current(Loaded)'
    <3>1. CASE store[reading] = 0
      BY <1>2, <1>3, <1>4, <1>6, <2>1, <2>4, <3>1 DEF Current, Loaded
    <3>2. CASE store[reading] # 0 /\ reading = "kskPriv"
      BY <1>2, <1>3, <1>4, <2>1, <2>3, <3>2
         DEF Current, Loaded, Earlier, Fields, KeyFields
    <3>3. CASE store[reading] # 0 /\ reading # "kskPriv"
      BY <1>6, <2>1, <3>3 DEF KeyFields, AfterKey
    <3> QED BY <3>1, <3>2, <3>3
  <2> QED BY <1>2, <2>2, <2>5 DEF FlightCurrent
<1> QED BY <1>2, <1>5, <1>6 DEF Fields

(***************************************************************************)
(* The actions.                                                            *)
(***************************************************************************)

\* The invariant holds when the caches are empty.
LEMMA IInvInit == Init => IInv
<1> SUFFICES ASSUME Init PROVE IInv
  OBVIOUS
<1>1. TypeOK
  <2>1. ChannelTypeOK
    BY DEF Init, ChannelInit, ChannelTypeOK, Phases
  <2>2. store \in [Fields -> Values] /\ got \in [Fields -> Values]
    BY CacheAssumption DEF Init, Empty
  <2>3. 0 \in 0..MaxWrites /\ 0 \in 0..MaxFailures
    BY CacheAssumption
  <2> QED BY <2>1, <2>2, <2>3 DEF Init, TypeOK
<1>2. FlightSigned /\ FlightCurrent
  BY DEF Init, FlightSigned, FlightCurrent, Fields, KeyFields
<1>3. ZonesSignable /\ StaleHasCause
  BY DEF Init, ZonesSignable, Signable, StaleHasCause
<1>4. DownIsEmpty
  BY CacheAssumption DEF Init, ChannelInit, DownIsEmpty
<1> QED BY <1>1, <1>2, <1>3, <1>4 DEF IInv

\* GetZone looks the zone up.
LEMMA LookupPreserves ==
    ASSUME IInv, NEW c \in Clients, CacheHit(c) \/ CacheMiss(c) \/ JoinFlight(c)
    PROVE  IInv'
<1> USE DEF IInv
<1>1. UNCHANGED <<channelVars, store, cache, fresh, cause, countVars>>
  BY DEF CacheHit, CacheMiss, JoinFlight, ghostVars
<1>2. ChannelTypeOK' /\ DownIsEmpty' /\ StaleHasCause'
  BY <1>1 DEF TypeOK, ChannelTypeOK, channelVars, DownIsEmpty, StaleHasCause, Current
<1>3. /\ UNCHANGED <<got, dnssec, disturbed>>
      /\ reading' = reading \/ (reading' = "labels" /\ reading = "none")
  BY DEF CacheHit, CacheMiss, JoinFlight, JoinOrStart, ghostVars, loadVars
<1>4. FlightSigned' /\ FlightCurrent'
  <2>1. CASE reading' = reading
    BY <1>1, <1>3, <2>1 DEF FlightSigned, FlightCurrent, Current, Loaded
  <2>2. CASE reading' = "labels"
    BY <2>2 DEF FlightSigned, FlightCurrent, KeyFields, Earlier
  <2> QED BY <1>3, <2>1, <2>2
<1>5. ZonesSignable'
  BY <1>1 DEF CacheHit, CacheMiss, JoinFlight, ZonesSignable, Signable, TypeOK
<1>6. TypeOK'
  <2>1. /\ reading' \in Fields \union {"none", "set"}
        /\ got' \in [Fields -> Values]
        /\ dnssec' \in BOOLEAN /\ disturbed' \in BOOLEAN
    BY <1>3 DEF TypeOK, Fields
  <2>2. /\ pc' \in [Clients -> {"idle", "missed", "waiting"}]
        /\ found' \in [Clients -> Zone \union {NoZone}]
        /\ served' \in [Clients -> Zone \union {NoZone}]
    BY DEF TypeOK, CacheHit, CacheMiss, JoinFlight
  <2> QED BY <1>1, <1>2, <2>1, <2>2 DEF TypeOK, countVars
<1> QED BY <1>2, <1>4, <1>5, <1>6

\* One Redis call of the load, answered or failing.
LEMMA ReadPreserves ==
    ASSUME IInv, ReadKey \/ ReadFails
    PROVE  IInv'
<1> USE DEF IInv
<1>1. /\ UNCHANGED <<channelVars, store, cache, fresh, clientVars, cause, writes>>
      /\ reading \in Fields
  BY DEF ReadKey, ReadFails, ghostVars, countVars
<1>2. ChannelTypeOK' /\ DownIsEmpty' /\ StaleHasCause' /\ ZonesSignable'
  BY <1>1 DEF TypeOK, ChannelTypeOK, channelVars, DownIsEmpty, StaleHasCause, Current,
              ZonesSignable, Signable, clientVars
<1>3. \E v \in Values : Got(reading, v)
  <2>1. CASE ReadKey
    BY <2>1 DEF ReadKey, TypeOK
  <2>2. CASE ReadFails
    BY <2>2, CacheAssumption DEF ReadFails
  <2> QED BY <2>1, <2>2
<1>4. /\ got' \in [Fields -> Values] /\ dnssec' \in BOOLEAN
      /\ reading' \in Fields \union {"none", "set"}
      /\ FlightSigned'
  BY <1>1, <1>3, GotSigned
<1>5. FlightCurrent'
  <2>1. CASE ReadKey
    BY <2>1, ReadCurrent
  <2>2. CASE ReadFails
    BY <2>2 DEF ReadFails, FlightCurrent
  <2> QED BY <2>1, <2>2
<1>6. TypeOK'
  <2>1. failures' \in 0..MaxFailures
    BY CacheAssumption DEF TypeOK, ReadKey, ReadFails, countVars
  <2>2. disturbed' \in BOOLEAN
    BY DEF TypeOK, ReadKey, ReadFails, ghostVars
  <2> QED BY <1>1, <1>2, <1>4, <2>1, <2>2 DEF TypeOK, clientVars
<1> QED BY <1>2, <1>4, <1>5, <1>6

\* A flight that ends with a zone of which all keys are known, or with none,
\* hands its clients nothing else.
LEMMA AnswerSignable ==
    ASSUME TypeOK, ZonesSignable, NEW z \in Zone \union {NoZone}, Signable(z), Answer(z)
    PROVE  /\ pc' \in [Clients -> {"idle", "missed", "waiting"}]
           /\ found' \in [Clients -> Zone \union {NoZone}]
           /\ served' \in [Clients -> Zone \union {NoZone}]
           /\ \A c \in Clients : Signable(found'[c]) /\ Signable(served'[c])
<1>1. Signable(NoZone)
  BY DEF Signable
<1>2. \A c \in Clients : /\ found'[c] \in {NoZone, found[c]}
                         /\ served'[c] \in {served[c], z, found[c]}
  BY DEF Answer
<1>3. \A c \in Clients : Signable(found[c]) /\ Signable(served[c])
  BY DEF ZonesSignable
<1>4. \A c \in Clients : Signable(found'[c]) /\ Signable(served'[c])
  <2> TAKE c \in Clients
  <2>1. /\ found'[c] = NoZone \/ found'[c] = found[c]
        /\ served'[c] = served[c] \/ served'[c] = z \/ served'[c] = found[c]
    BY <1>2
  <2> QED BY <1>1, <1>2, <1>3, <2>1
<1>5. /\ pc' \in [Clients -> {"idle", "missed", "waiting"}]
      /\ found' \in [Clients -> Zone \union {NoZone}]
      /\ served' \in [Clients -> Zone \union {NoZone}]
  BY DEF Answer, TypeOK
<1> QED BY <1>4, <1>5

\* The end of a flight: without the labels, or with a zone for the cache.
LEMMA FlightEndPreserves ==
    ASSUME IInv, LabelsFail \/ SetAndReturn
    PROVE  IInv'
<1> USE DEF IInv
<1>1. /\ UNCHANGED <<channelVars, store, writes>>
      /\ reading' = "none" /\ got' = Empty /\ dnssec' = FALSE /\ disturbed' = FALSE
  BY DEF LabelsFail, SetAndReturn, Answer, ghostVars, countVars
<1>2. ChannelTypeOK' /\ DownIsEmpty' /\ FlightSigned' /\ FlightCurrent'
  BY <1>1 DEF TypeOK, ChannelTypeOK, channelVars, DownIsEmpty, FlightSigned,
              FlightCurrent, Fields, KeyFields
<1>3. Loaded \in Zone
  BY DEF TypeOK, Loaded, Zone
<1>4. reading = "set" => Signable(Loaded)
  BY DEF FlightSigned, Signable, Loaded
<1>5. PICK z \in Zone \union {NoZone} : Signable(z) /\ Answer(z)
  <2>1. CASE LabelsFail
    BY <2>1 DEF LabelsFail, Signable
  <2>2. CASE SetAndReturn
    BY <1>3, <1>4, <2>2 DEF SetAndReturn
  <2> QED BY <2>1, <2>2
<1>6. \/ UNCHANGED <<cache, fresh, cause>>
      \/ /\ cache' = Loaded /\ fresh' = TRUE /\ reading = "set"
         /\ cause' = IF disturbed THEN {"disturbed"} ELSE {}
  BY DEF LabelsFail, SetAndReturn, ghostVars
<1>7. ZonesSignable'
  <2>1. Signable(cache')
    BY <1>4, <1>6 DEF ZonesSignable
  <2> QED BY <1>5, <2>1, AnswerSignable DEF ZonesSignable, Signable
<1>8. StaleHasCause'
  <2>1. CASE UNCHANGED <<cache, fresh, cause>>
    BY <1>1, <2>1 DEF StaleHasCause, Current, channelVars
  <2>2. CASE cache' = Loaded /\ reading = "set" /\ ~disturbed
    BY <1>1, <2>2 DEF StaleHasCause, FlightCurrent, Current, Loaded
  <2>3. CASE cause' = {"disturbed"}
    BY <2>3 DEF StaleHasCause
  <2> QED BY <1>6, <2>1, <2>2, <2>3
<1>9. TypeOK'
  <2>1. failures' \in 0..MaxFailures
    BY CacheAssumption DEF TypeOK, LabelsFail, SetAndReturn, countVars
  <2>2. /\ cache' \in Zone \union {NoZone} /\ fresh' \in BOOLEAN
        /\ cause' \in SUBSET {"disturbed", "missed"}
    BY <1>3, <1>6 DEF TypeOK
  <2>3. Empty \in [Fields -> Values]
    BY CacheAssumption DEF Empty
  <2> QED BY <1>1, <1>2, <1>5, <2>1, <2>2, <2>3, AnswerSignable DEF TypeOK
<1> QED BY <1>2, <1>7, <1>8, <1>9

\* The cache loses the zone, by its timeout, an eviction or a notification.
LEMMA DropPreserves ==
    ASSUME IInv, Expire \/ Evict \/ Invalidate
    PROVE  IInv'
<1> USE DEF IInv
<1>1. UNCHANGED <<store, loadVars, clientVars, ghostVars, countVars>> /\ fresh' = FALSE
  BY DEF Expire, Evict, Invalidate
<1>2. \/ cache' = NoZone
      \/ cache' = cache /\ UNCHANGED channelVars
  BY DEF Expire, Evict, Invalidate
<1>3. ChannelTypeOK'
  BY ChannelTypes DEF TypeOK, ChannelTypeOK, channelVars, Expire, Evict, Invalidate
<1>4. DownIsEmpty'
  BY DEF DownIsEmpty, OnMessage, channelVars, Expire, Evict, Invalidate
<1>5. FlightSigned' /\ FlightCurrent'
  BY <1>1 DEF loadVars, ghostVars, FlightSigned, FlightCurrent, Current, Loaded
<1>6. ZonesSignable'
  BY <1>1, <1>2 DEF clientVars, ZonesSignable, Signable
<1>7. StaleHasCause'
  BY <1>1, <1>2 DEF StaleHasCause, Current, ghostVars, channelVars
<1>8. TypeOK'
  BY <1>1, <1>2, <1>3 DEF TypeOK, loadVars, clientVars, ghostVars, countVars
<1> QED BY <1>3, <1>4, <1>5, <1>6, <1>7, <1>8

\* The life of the connection.
LEMMA ConnectionPreserves ==
    ASSUME IInv, ConnectionStep \/ LoseConnection
    PROVE  IInv'
<1> USE DEF IInv
<1>1. UNCHANGED <<store, cache, fresh, loadVars, clientVars, disturbed, writes>>
  BY DEF ConnectionStep, LoseConnection, ghostVars, countVars
<1>2. ChannelTypeOK'
  BY ChannelTypes DEF TypeOK, ConnectionStep, LoseConnection
<1>3. DownIsEmpty'
  BY CacheAssumption
     DEF DownIsEmpty, TypeOK, ChannelTypeOK, ConnectionStep, LoseConnection, Connect,
         Register, Close, OnStart, Lose
<1>4. FlightSigned' /\ FlightCurrent'
  BY <1>1 DEF loadVars, FlightSigned, FlightCurrent, Current, Loaded
<1>5. ZonesSignable'
  BY <1>1 DEF clientVars, ZonesSignable, Signable
<1>6. cause' = {} => cause = {} /\ pending'[zoneKeys] = pending[zoneKeys]
  <2>1. CASE ConnectionStep
    BY <2>1, CacheAssumption
       DEF DownIsEmpty, TypeOK, ChannelTypeOK, ConnectionStep, Connect, Register, Close,
           OnStart, ghostVars
  <2>2. CASE LoseConnection
    BY <2>2 DEF LoseConnection
  <2> QED BY <2>1, <2>2
<1>7. StaleHasCause'
  BY <1>1, <1>6 DEF StaleHasCause, Current
<1>8. TypeOK'
  <2>1. failures' \in 0..MaxFailures
    BY CacheAssumption DEF TypeOK, ConnectionStep, LoseConnection, countVars
  <2>2. cause' \in SUBSET {"disturbed", "missed"}
    BY DEF TypeOK, ConnectionStep, LoseConnection, ghostVars
  <2> QED BY <1>1, <1>2, <2>1, <2>2 DEF TypeOK, loadVars, clientVars
<1> QED BY <1>2, <1>3, <1>4, <1>5, <1>7, <1>8

\* A write to a key of the zone disturbs a flight, and is either notified or
\* missed.
LEMMA WritePreserves ==
    ASSUME IInv, NEW f \in Fields, NEW v \in Values, Write(f, v)
    PROVE  IInv'
<1> USE DEF IInv
<1>1. /\ UNCHANGED <<cache, fresh, loadVars, clientVars, failures>>
      /\ disturbed' = (reading # "none")
  BY DEF Write
<1>2. ChannelTypeOK' /\ DownIsEmpty'
  <2>1. CASE Notify(zoneKeys, zoneName)
    BY <2>1, ChannelTypes, NotifyIsPending DEF TypeOK, DownIsEmpty
  <2>2. CASE UNCHANGED channelVars
    BY <2>2 DEF TypeOK, ChannelTypeOK, DownIsEmpty, channelVars
  <2> QED BY <2>1, <2>2 DEF Write
<1>3. pending'[zoneKeys] # <<>> \/ cause' # {}
  BY NotifyIsPending DEF Write, TypeOK
<1>4. FlightSigned' /\ FlightCurrent' /\ ZonesSignable'
  BY <1>1 DEF loadVars, clientVars, FlightSigned, FlightCurrent, ZonesSignable, Signable,
              Fields, KeyFields
<1>5. StaleHasCause'
  BY <1>3 DEF StaleHasCause
<1>6. TypeOK'
  <2>1. writes' \in 0..MaxWrites /\ store' \in [Fields -> Values]
    BY CacheAssumption DEF TypeOK, Write
  <2>2. cause' \in SUBSET {"disturbed", "missed"}
    BY DEF TypeOK, Write
  <2> QED BY <1>1, <1>2, <2>1, <2>2 DEF TypeOK, loadVars, clientVars
<1> QED BY <1>2, <1>4, <1>5, <1>6

\* No step leaves the invariant.
LEMMA IInvNext == IInv /\ [Next]_vars => IInv'
<1> SUFFICES ASSUME IInv, [Next]_vars PROVE IInv'
  OBVIOUS
<1>1. CASE \E c \in Clients : CacheHit(c) \/ CacheMiss(c) \/ JoinFlight(c)
  BY <1>1, LookupPreserves
<1>2. CASE ReadKey \/ ReadFails
  BY <1>2, ReadPreserves
<1>3. CASE LabelsFail \/ SetAndReturn
  BY <1>3, FlightEndPreserves
<1>4. CASE Expire \/ Evict \/ Invalidate
  BY <1>4, DropPreserves
<1>5. CASE ConnectionStep \/ LoseConnection
  BY <1>5, ConnectionPreserves
<1>6. CASE \E f \in Fields, v \in Values : Write(f, v)
  BY <1>6, WritePreserves
<1>7. CASE UNCHANGED vars
  BY <1>7 DEF vars, channelVars, loadVars, clientVars, ghostVars, countVars, IInv, TypeOK,
          ChannelTypeOK, FlightSigned, FlightCurrent, Current, Loaded, ZonesSignable,
          Signable, DownIsEmpty, StaleHasCause
<1> QED BY <1>1, <1>2, <1>3, <1>4, <1>5, <1>6, <1>7 DEF Next

(***************************************************************************)
(* The theorems.                                                           *)
(***************************************************************************)

\* The inductive invariant of the cache, the flight and its clients.
THEOREM Invariance == Spec => []IInv
<1>1. Init /\ [][Next]_vars => []IInv
  BY IInvInit, IInvNext, PTL
<1> QED BY <1>1, PTL DEF Spec

\* The cache, the flight and its clients keep their types.
THEOREM TypeCorrect == Spec => []TypeOK
<1>1. IInv => TypeOK
  BY DEF IInv
<1> QED BY <1>1, Invariance, PTL

\* GetZone never returns a signed zone without both of its key pairs.
THEOREM SignedZones == Spec => []SignedHasKeys
<1>1. IInv => SignedHasKeys
  BY DEF IInv, ZonesSignable, Signable, SignedHasKeys
<1> QED BY <1>1, Invariance, PTL

\* A cached zone that differs from Redis with no notification on its way was
\* overtaken or damaged while it was loaded, or missed a write since.
THEOREM StaleZones == Spec => []StaleHasCause
<1>1. IInv => StaleHasCause
  BY DEF IInv
<1> QED BY <1>1, Invariance, PTL
============================================================================
