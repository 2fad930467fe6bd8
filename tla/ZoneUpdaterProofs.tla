------------------------- MODULE ZoneUpdaterProofs -------------------------
(***************************************************************************)
(* Proofs about the zone list, for any set of zones and any bounds.        *)
(***************************************************************************)
EXTENDS ZoneUpdater, TLAPS

\* The ghosts bound the set that is being scanned.
GhostInv ==
    /\ always \subseteq redisZones /\ redisZones \subseteq ever
    /\ updater = "boot" => phase[zoneList] = "down"

\* A connection on which nothing is left that will ask for a reload.
Quiet ==
    /\ phase[zoneList] \in {"requested", "up"}
    /\ ~starting[zoneList] /\ pending[zoneList] = <<>>

\* What is known of a quiet connection as long as no request was lost: the set
\* has not changed since the load began, and later the list is the set.
FreshInv ==
    lost = {} /\ Quiet =>
        /\ updater = "loading" => always = redisZones /\ ever = redisZones
        /\ updater = "loaded" => zones = redisZones
        /\ updater = "select" => modified \/ zones = redisZones

\* The inductive invariant.
IInv == TypeOK /\ GhostInv /\ ScanIsBounded /\ FreshInv

(***************************************************************************)
(* The channel.                                                            *)
(***************************************************************************)

\* A step of the zone-list subscription keeps the types of the channel.
LEMMA ChannelTypes ==
    ASSUME ChannelTypeOK,
           \/ Connect(zoneList) \/ Register(zoneList) \/ Close(zoneList)
           \/ Lose(zoneList) \/ OnStart(zoneList) \/ OnMessage(zoneList)
           \/ Notify(zoneList, zonesKey)
    PROVE  ChannelTypeOK'
<1> USE UpdaterAssumption DEF ChannelTypeOK, Phases
<1>1. CASE Connect(zoneList)
  BY <1>1 DEF Connect
<1>2. CASE Register(zoneList)
  BY <1>2 DEF Register
<1>3. CASE Close(zoneList)
  BY <1>3 DEF Close
<1>4. CASE Lose(zoneList)
  <2>1. PICK n \in 0..Len(pending[zoneList]) :
            pending' = [pending EXCEPT ![zoneList] = SubSeq(@, 1, n)]
    BY <1>4 DEF Lose
  <2>2. pending[zoneList] \in Seq(Keys)
    OBVIOUS
  <2>3. SubSeq(pending[zoneList], 1, n) \in Seq(Keys)
    BY <2>2
  <2>4. pending' \in [Subs -> Seq(Keys)]
    BY <2>1, <2>3
  <2> QED BY <1>4, <2>4 DEF Lose
<1>5. CASE OnStart(zoneList)
  BY <1>5 DEF OnStart
<1>6. CASE OnMessage(zoneList)
  <2>1. Tail(pending[zoneList]) \in Seq(Keys)
    BY <1>6 DEF OnMessage
  <2> QED BY <1>6, <2>1 DEF OnMessage
<1>7. CASE Notify(zoneList, zonesKey)
  <2>1. Append(pending[zoneList], zonesKey) \in Seq(Keys)
    OBVIOUS
  <2> QED BY <1>7, <2>1 DEF Notify
<1> QED BY <1>1, <1>2, <1>3, <1>4, <1>5, <1>6, <1>7

\* After a notification something is left to be handled.
LEMMA NotifyIsNotQuiet ==
    ASSUME ChannelTypeOK, Notify(zoneList, zonesKey)
    PROVE  ~Quiet'
<1>1. pending'[zoneList] = Append(pending[zoneList], zonesKey)
  BY UpdaterAssumption DEF ChannelTypeOK, Notify
<1>2. Append(pending[zoneList], zonesKey) # <<>>
  BY UpdaterAssumption DEF ChannelTypeOK
<1> QED BY <1>1, <1>2 DEF Quiet

\* A connection that is made has its onStart before it, and one that is lost
\* will be made again: neither is quiet.  Registering changes nothing.
LEMMA ConnectionQuiet ==
    ASSUME ChannelTypeOK
    PROVE  /\ Connect(zoneList) \/ Close(zoneList) \/ Lose(zoneList) => ~Quiet'
           /\ Register(zoneList) => (Quiet' <=> Quiet)
BY UpdaterAssumption DEF ChannelTypeOK, Connect, Close, Lose, Register, Quiet

(***************************************************************************)
(* The actions.                                                            *)
(***************************************************************************)

\* The invariant holds when NewDataHandler calls LoadZones for the first time.
LEMMA IInvInit == Init => IInv
<1> SUFFICES ASSUME Init PROVE IInv
  OBVIOUS
<1>1. TypeOK
  <2>1. ChannelTypeOK
    BY DEF Init, ChannelInit, ChannelTypeOK, Phases
  <2>2. 0 \in 0..MaxWrites /\ 0 \in 0..MaxFailures
    BY UpdaterAssumption
  <2>3. updater \in UpdaterStates /\ modified \in BOOLEAN
    BY DEF Init, UpdaterStates
  <2> QED BY <2>1, <2>2, <2>3 DEF Init, TypeOK
<1>2. GhostInv /\ ScanIsBounded /\ FreshInv
  BY UpdaterAssumption
     DEF Init, ChannelInit, GhostInv, ScanIsBounded, FreshInv, Scanning
<1> QED BY <1>1, <1>2 DEF IInv

\* One SSCAN call.
LEMMA ScanBucketPreserves ==
    ASSUME IInv, NEW z \in Zones, ScanBucket(z)
    PROVE  IInv'
<1>1. UNCHANGED channelVars
  BY DEF ScanBucket
<1>2. ChannelTypeOK' /\ (Quiet' <=> Quiet)
  BY <1>1 DEF IInv, TypeOK, ChannelTypeOK, channelVars, Quiet
<1>3. TypeOK'
  BY <1>2 DEF IInv, TypeOK, ScanBucket
<1>4. GhostInv'
  BY <1>1 DEF IInv, GhostInv, ScanBucket, channelVars
<1>5. ScanIsBounded'
  BY DEF IInv, GhostInv, ScanIsBounded, ScanBucket, Scanning
<1>6. FreshInv'
  BY <1>2 DEF IInv, FreshInv, ScanBucket
<1> QED BY <1>3, <1>4, <1>5, <1>6 DEF IInv

\* The end of a scan, with a list or with an error.
LEMMA ScanEndPreserves ==
    ASSUME IInv, ScanDone \/ ScanFails
    PROVE  IInv'
<1>1. UNCHANGED <<channelVars, redisZones, modified, unread, found, always, ever, writes>>
  BY DEF ScanDone, ScanFails, scanVars
<1>2. ChannelTypeOK' /\ (Quiet' <=> Quiet)
  BY <1>1 DEF IInv, TypeOK, ChannelTypeOK, channelVars, Quiet
<1>3. updater' = AfterLoad /\ updater' \in {"select", "loaded"}
  BY DEF ScanDone, ScanFails, AfterLoad
<1>4. TypeOK'
  <2>1. failures' \in 0..MaxFailures
    BY UpdaterAssumption DEF IInv, TypeOK, ScanDone, ScanFails
  <2>2. zones' \in SUBSET Zones /\ lost' \in SUBSET {"unregistered", "overtaken", "failed"}
    BY DEF IInv, TypeOK, ScanDone, ScanFails, scanVars
  <2>3. updater' \in UpdaterStates
    BY <1>3 DEF UpdaterStates
  <2> QED BY <1>1, <1>2, <2>1, <2>2, <2>3 DEF IInv, TypeOK
<1>5. GhostInv' /\ ScanIsBounded'
  BY <1>1, <1>3 DEF IInv, GhostInv, ScanIsBounded, Scanning
<1>6. FreshInv'
  <2>1. CASE ScanFails
    BY <2>1 DEF ScanFails, FreshInv
  <2>2. CASE ScanDone /\ updater = "boot"
    BY <1>1, <1>2, <2>2 DEF IInv, GhostInv, Quiet, FreshInv
  <2>3. CASE ScanDone /\ updater = "loading"
    BY <1>1, <1>2, <1>3, <2>3
       DEF IInv, ScanDone, AfterLoad, FreshInv, ScanIsBounded, Scanning, scanVars
  <2> QED BY <2>1, <2>2, <2>3 DEF ScanDone, Scanning
<1> QED BY <1>4, <1>5, <1>6 DEF IInv

\* The tickers and the assignment after LoadZones.
LEMMA SelectPreserves ==
    ASSUME IInv, ReloadTick \/ ClearModified \/ ForceTick
    PROVE  IInv'
<1>1. UNCHANGED <<channelVars, redisZones, zones, writes, failures>>
  BY DEF ReloadTick, ClearModified, ForceTick
<1>2. ChannelTypeOK' /\ (Quiet' <=> Quiet)
  BY <1>1 DEF IInv, TypeOK, ChannelTypeOK, channelVars, Quiet
<1>3. TypeOK'
  <2>1. modified' \in BOOLEAN
    BY Zenon DEF IInv, TypeOK, ReloadTick, ClearModified, ForceTick
  <2>2. updater' \in UpdaterStates
    BY DEF IInv, TypeOK, UpdaterStates, ReloadTick, ClearModified, ForceTick
  <2>3. /\ unread' \in SUBSET Zones /\ found' \in SUBSET Zones
        /\ always' \in SUBSET Zones /\ ever' \in SUBSET Zones
        /\ lost' \in SUBSET {"unregistered", "overtaken", "failed"}
    BY DEF IInv, TypeOK, ReloadTick, ClearModified, ForceTick, scanVars
  <2> QED BY <1>1, <1>2, <2>1, <2>2, <2>3 DEF IInv, TypeOK
<1>4. GhostInv' /\ ScanIsBounded'
  BY <1>1 DEF IInv, GhostInv, ScanIsBounded, Scanning, ReloadTick, ClearModified,
          ForceTick, scanVars, TypeOK, channelVars
<1>5. FreshInv'
  BY <1>1, <1>2 DEF IInv, FreshInv, ReloadTick, ClearModified, ForceTick, scanVars
<1> QED BY <1>3, <1>4, <1>5 DEF IInv

\* The two callbacks: a request for a reload is kept in the select, and is
\* recorded as lost during a load.
LEMMA CallbackPreserves ==
    ASSUME IInv, ZoneListStart \/ ZoneListMessage
    PROVE  IInv'
<1>1. RequestReload /\ (OnStart(zoneList) \/ OnMessage(zoneList))
  BY DEF ZoneListStart, ZoneListMessage
<1>2. ChannelTypeOK' /\ UNCHANGED phase /\ phase[zoneList] # "down"
  BY <1>1, ChannelTypes DEF IInv, TypeOK, OnStart, OnMessage
<1>3. TypeOK'
  BY <1>1, <1>2 DEF IInv, TypeOK, RequestReload
<1>4. GhostInv' /\ ScanIsBounded'
  BY <1>1, <1>2 DEF IInv, GhostInv, ScanIsBounded, Scanning, RequestReload
<1>5. FreshInv'
  BY <1>1, <1>2 DEF IInv, TypeOK, GhostInv, FreshInv, RequestReload, UpdaterStates
<1> QED BY <1>3, <1>4, <1>5 DEF IInv

\* Connections come and go.
LEMMA ConnectionPreserves ==
    ASSUME IInv, ConnectionStep \/ LoseConnection
    PROVE  IInv'
<1>1. /\ UNCHANGED <<redisZones, zones, modified, updater, scanVars, writes>>
      /\ \/ updater # "boot" /\ Connect(zoneList)
         \/ Register(zoneList) \/ Close(zoneList) \/ Lose(zoneList)
  BY DEF ConnectionStep, LoseConnection, updaterVars
<1>2. failures' \in 0..MaxFailures
  BY UpdaterAssumption DEF IInv, TypeOK, ConnectionStep, LoseConnection, updaterVars
<1>3. ChannelTypeOK'
  BY <1>1, ChannelTypes DEF IInv, TypeOK
<1>4. TypeOK'
  BY <1>1, <1>2, <1>3 DEF IInv, TypeOK, scanVars
<1>5. updater # "boot"
  BY <1>1 DEF IInv, GhostInv, Register, Close, Lose
<1>6. GhostInv' /\ ScanIsBounded'
  BY <1>1, <1>5 DEF IInv, GhostInv, ScanIsBounded, Scanning, scanVars
<1>7. FreshInv'
  BY <1>1, ConnectionQuiet DEF IInv, TypeOK, FreshInv, scanVars
<1> QED BY <1>4, <1>6, <1>7 DEF IInv

\* A change of the set is notified, or recorded as lost.
LEMMA WritePreserves ==
    ASSUME IInv, NEW new \in SUBSET Zones, WriteZones(new)
    PROVE  IInv'
<1>1. \/ Notify(zoneList, zonesKey)
      \/ lost' # {} /\ UNCHANGED channelVars
  BY DEF WriteZones
<1>2. ChannelTypeOK' /\ UNCHANGED phase
  BY <1>1, ChannelTypes DEF IInv, TypeOK, Notify, channelVars, ChannelTypeOK
<1>3. TypeOK'
  <2>1. writes' \in 0..MaxWrites
    BY UpdaterAssumption DEF IInv, TypeOK, WriteZones
  <2>2. lost' \in SUBSET {"unregistered", "overtaken", "failed"}
    BY DEF IInv, TypeOK, WriteZones
  <2> QED BY <1>2, <2>1, <2>2 DEF IInv, TypeOK, WriteZones
<1>4. GhostInv' /\ ScanIsBounded'
  BY <1>2 DEF IInv, GhostInv, ScanIsBounded, Scanning, WriteZones
<1>5. FreshInv'
  BY <1>1, NotifyIsNotQuiet DEF IInv, TypeOK, FreshInv
<1> QED BY <1>3, <1>4, <1>5 DEF IInv

\* No step leaves the invariant.
LEMMA IInvNext == IInv /\ [Next]_vars => IInv'
<1> SUFFICES ASSUME IInv, [Next]_vars PROVE IInv'
  OBVIOUS
<1>1. CASE \E z \in Zones : ScanBucket(z)
  BY <1>1, ScanBucketPreserves
<1>2. CASE ScanDone \/ ScanFails
  BY <1>2, ScanEndPreserves
<1>3. CASE ReloadTick \/ ClearModified \/ ForceTick
  BY <1>3, SelectPreserves
<1>4. CASE ZoneListStart \/ ZoneListMessage
  BY <1>4, CallbackPreserves
<1>5. CASE ConnectionStep \/ LoseConnection
  BY <1>5, ConnectionPreserves
<1>6. CASE \E z \in Zones : EnableZone(z) \/ DisableZone(z)
  <2>1. \E new \in SUBSET Zones : WriteZones(new)
    BY <1>6 DEF EnableZone, DisableZone, IInv, TypeOK
  <2> QED BY <2>1, WritePreserves
<1>7. CASE WriteFails
  <2>1. failures' \in 0..MaxFailures
    BY <1>7, UpdaterAssumption DEF WriteFails, IInv, TypeOK
  <2>2. UNCHANGED <<channelVars, redisZones, zones, modified, updater, scanVars, writes>>
    BY <1>7 DEF WriteFails
  <2>3. ChannelTypeOK' /\ GhostInv' /\ ScanIsBounded' /\ FreshInv'
    BY <2>2 DEF channelVars, scanVars, IInv, TypeOK, ChannelTypeOK, GhostInv,
            ScanIsBounded, Scanning, FreshInv, Quiet
  <2> QED BY <2>1, <2>2, <2>3 DEF scanVars, IInv, TypeOK
<1>8. CASE UNCHANGED vars
  BY <1>8 DEF vars, updaterVars, channelVars, scanVars, IInv, TypeOK, ChannelTypeOK,
          GhostInv, ScanIsBounded, Scanning, FreshInv, Quiet
<1> QED BY <1>1, <1>2, <1>3, <1>4, <1>5, <1>6, <1>7, <1>8 DEF Next

(***************************************************************************)
(* The theorems.                                                           *)
(***************************************************************************)

\* The inductive invariant holds for ever.
THEOREM Invariance == Spec => []IInv
<1>1. Init /\ [][Next]_vars => []IInv
  BY IInvInit, IInvNext, PTL
<1> QED BY <1>1, PTL DEF Spec

\* The updater, the list and the ghosts keep their types.
THEOREM TypeCorrect == Spec => []TypeOK
<1>1. IInv => TypeOK
  BY DEF IInv
<1> QED BY <1>1, Invariance, PTL

\* What LoadZones has collected is bounded by what the set held meanwhile.
THEOREM ScanBounded == Spec => []ScanIsBounded
<1>1. IInv => ScanIsBounded
  BY DEF IInv
<1> QED BY <1>1, Invariance, PTL

\* When the updater and its subscription have settled and no request for a
\* reload was lost, the list in use is the set in Redis.
THEOREM KnownCauses == Spec => []OnlyKnownCauses
<1>1. IInv => OnlyKnownCauses
  BY DEF IInv, FreshInv, Quiet, OnlyKnownCauses, Settled
<1> QED BY <1>1, Invariance, PTL

\* The list is replaced only by a completed scan: LoadZones never drops a zone
\* that was enabled all the time and never adds one that was not enabled.
THEOREM LoadIsSafe == Spec => LoadKeepsEnabled
<1>1. IInv /\ [Next]_vars =>
          [zones' # zones => always \subseteq zones' /\ zones' \subseteq ever]_zones
  <2> SUFFICES ASSUME IInv, [Next]_vars, zones' # zones
               PROVE  always \subseteq zones' /\ zones' \subseteq ever
    OBVIOUS
  <2>1. ScanDone
    BY DEF Next, vars, updaterVars, ScanBucket, ScanFails, ReloadTick, ClearModified,
           ForceTick, ZoneListStart, ZoneListMessage, RequestReload, ConnectionStep,
           LoseConnection, EnableZone, DisableZone, WriteZones, WriteFails
  <2> QED BY <2>1 DEF IInv, ScanIsBounded, ScanDone
<1> QED BY <1>1, Invariance, PTL DEF Spec, LoadKeepsEnabled
=============================================================================
