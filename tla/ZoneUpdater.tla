---------------------------- MODULE ZoneUpdater ----------------------------
(***************************************************************************)
(* DataHandler's copy of the zone list: NewDataHandler, LoadZones and the  *)
(* updater goroutine, against the set redis-zones that other processes     *)
(* change.  The list is reloaded on a tick of zone_reload seconds if the   *)
(* flag modified is set; the callbacks of the zone-list subscription set   *)
(* it, and so does a tick every hour.  The flag is a plain variable shared *)
(* with the receiver goroutine.                                            *)
(*                                                                         *)
(* SMembers reads the set in several SSCAN calls: a member present from    *)
(* the first to the last call is returned, one that comes or goes in       *)
(* between may be.  Each call may fail, and then the list is kept.         *)
(***************************************************************************)
EXTENDS NotificationChannel

CONSTANTS Zones,         \* the zones that are enabled or disabled
          zoneList,      \* the subscription to the zone list
          zonesKey,      \* the key of the zone list
          MaxWrites,     \* bound: changes of the set
          MaxFailures    \* bound: Redis calls that fail

ASSUME UpdaterAssumption ==
    /\ Subs = {zoneList}
    /\ Keys = {zonesKey}
    /\ MaxWrites \in Nat /\ MaxFailures \in Nat

VARIABLES redisZones,   \* the set redis-zones
          zones,        \* dh.zones
          modified,     \* the updater's flag
          updater,      \* where the goroutine is
          unread,       \* elements whose SSCAN bucket is still to be read
          found,        \* members read so far
          always,       \* members of the set since the scan began
          ever,         \* members at some time since the scan began
          lost,         \* ways in which a reload request was lost since then
          writes,       \* changes so far
          failures      \* failed calls so far

scanVars == <<unread, found, always, ever, lost>>
updaterVars == <<redisZones, zones, modified, updater, scanVars, writes, failures>>
vars == <<channelVars, updaterVars>>

\* boot: the first LoadZones, before the goroutine starts.  loading: in
\* LoadZones.  loaded: between LoadZones and modified = false.
UpdaterStates == {"boot", "select", "loading", "loaded"}

\* The type invariant of the updater and of the zone list.
TypeOK ==
    /\ ChannelTypeOK
    /\ redisZones \in SUBSET Zones /\ zones \in SUBSET Zones
    /\ modified \in BOOLEAN
    /\ updater \in UpdaterStates
    /\ unread \in SUBSET Zones /\ found \in SUBSET Zones
    /\ always \in SUBSET Zones /\ ever \in SUBSET Zones
    /\ lost \in SUBSET {"unregistered", "overtaken", "failed"}
    /\ writes \in 0..MaxWrites
    /\ failures \in 0..MaxFailures

Init ==
    /\ ChannelInit
    /\ redisZones \in SUBSET Zones
    /\ zones = {}
    /\ modified = FALSE
    /\ updater = "boot"
    /\ unread = Zones /\ found = {}
    /\ always = redisZones /\ ever = redisZones
    /\ lost = {}
    /\ writes = 0
    /\ failures = 0

(***************************************************************************)
(* LoadZones.                                                              *)
(***************************************************************************)
Scanning == updater \in {"boot", "loading"}

AfterLoad == IF updater = "boot" THEN "select" ELSE "loaded"

\* WRONG: the buckets are read, but members found earlier are forgotten.
ScanBucketForgetting(z) ==
    /\ Scanning
    /\ z \in unread
    /\ unread' = unread \ {z}
    /\ found' = {z} \cap redisZones
    /\ UNCHANGED <<channelVars, redisZones, zones, modified, updater, always, ever,
                   lost, writes, failures>>

ScanBucket(z) ==
    /\ Scanning
    /\ z \in unread
    /\ unread' = unread \ {z}
    /\ found' = found \union ({z} \cap redisZones)
    /\ UNCHANGED <<channelVars, redisZones, zones, modified, updater, always, ever,
                   lost, writes, failures>>

ScanDone ==
    /\ Scanning
    /\ unread = {}
    /\ zones' = found
    /\ updater' = AfterLoad
    /\ UNCHANGED <<channelVars, redisZones, modified, scanVars, writes, failures>>

\* WRONG: a failed scan replaces the list by what was read until then.
ScanFailsPartial ==
    /\ Scanning
    /\ failures < MaxFailures
    /\ failures' = failures + 1
    /\ zones' = found
    /\ updater' = AfterLoad
    /\ UNCHANGED <<channelVars, redisZones, modified, scanVars, writes>>

ScanFails ==
    /\ Scanning
    /\ failures < MaxFailures
    /\ failures' = failures + 1
    /\ updater' = AfterLoad
    /\ lost' = lost \union {"failed"}
    /\ UNCHANGED <<channelVars, redisZones, zones, modified, unread, found, always,
                   ever, writes>>

(***************************************************************************)
(* The select of the updater goroutine.                                    *)
(***************************************************************************)
ReloadTick ==
    /\ updater = "select"
    /\ modified
    /\ updater' = "loading"
    /\ unread' = Zones /\ found' = {}
    /\ always' = redisZones /\ ever' = redisZones
    /\ lost' = {}
    /\ UNCHANGED <<channelVars, redisZones, zones, modified, writes, failures>>

ClearModified ==
    /\ updater = "loaded"
    /\ modified' = FALSE
    /\ updater' = "select"
    /\ UNCHANGED <<channelVars, redisZones, zones, scanVars, writes, failures>>

\* WRONG: the hourly tick does nothing.
ForceTickIdle ==
    /\ updater = "select"
    /\ UNCHANGED vars

ForceTick ==
    /\ updater = "select"
    /\ modified' = TRUE
    /\ UNCHANGED <<channelVars, redisZones, zones, updater, scanVars, writes, failures>>

(***************************************************************************)
(* The zone-list subscription.                                             *)
(***************************************************************************)
\* A request that arrives during a load is overwritten by ClearModified.
RequestReload ==
    /\ modified' = TRUE
    /\ lost' = IF updater \in {"loading", "loaded"} THEN lost \union {"overtaken"}
                                                   ELSE lost
    /\ UNCHANGED <<redisZones, zones, updater, unread, found, always, ever, writes,
                   failures>>

\* WRONG: onStart does not ask for a reload.
ZoneListStartQuiet ==
    /\ OnStart(zoneList)
    /\ UNCHANGED updaterVars

ZoneListStart == OnStart(zoneList) /\ RequestReload

ZoneListMessage == OnMessage(zoneList) /\ RequestReload

ConnectionStep ==
    /\ \/ updater # "boot" /\ Connect(zoneList)
       \/ Register(zoneList)
       \/ Close(zoneList)
    /\ UNCHANGED updaterVars

LoseConnection ==
    /\ failures < MaxFailures
    /\ failures' = failures + 1
    /\ Lose(zoneList)
    /\ UNCHANGED <<redisZones, zones, modified, updater, scanVars, writes>>

(***************************************************************************)
(* EnableZone and DisableZone, in this or another process.  A change of    *)
(* the set is notified to the connections registered at that moment.       *)
(***************************************************************************)
WriteZones(new) ==
    /\ writes < MaxWrites
    /\ writes' = writes + 1
    /\ redisZones' = new
    /\ always' = always \cap new
    /\ ever' = ever \union new
    /\ \/ /\ Notify(zoneList, zonesKey)
          /\ lost' = lost
       \/ /\ phase[zoneList] # "up"
          /\ lost' = lost \union {"unregistered"}
          /\ UNCHANGED channelVars
    /\ UNCHANGED <<zones, modified, updater, unread, found, failures>>

EnableZone(z) == z \notin redisZones /\ WriteZones(redisZones \union {z})

DisableZone(z) == z \in redisZones /\ WriteZones(redisZones \ {z})

\* The call fails, that of EnableZone already at the SAdd of the location "@",
\* which comes first: the list is as it was.
WriteFails ==
    /\ failures < MaxFailures
    /\ failures' = failures + 1
    /\ UNCHANGED <<channelVars, redisZones, zones, modified, updater, scanVars, writes>>

Next ==
    \/ \E z \in Zones : ScanBucket(z)
    \/ ScanDone
    \/ ScanFails
    \/ ReloadTick
    \/ ClearModified
    \/ ForceTick
    \/ ZoneListStart
    \/ ZoneListMessage
    \/ ConnectionStep
    \/ LoseConnection
    \/ \E z \in Zones : EnableZone(z) \/ DisableZone(z)
    \/ WriteFails

\* The tickers fire, a scan goes on while Redis answers, and only finitely
\* many calls fail.  Nothing is assumed of the subscription.
Fairness ==
    /\ WF_vars(\E z \in Zones : ScanBucket(z))
    /\ WF_vars(ScanDone)
    /\ WF_vars(ReloadTick)
    /\ WF_vars(ClearModified)
    /\ WF_vars(ForceTick)

Spec == Init /\ [][Next]_vars /\ Fairness

(***************************************************************************)
(* Properties.                                                             *)
(***************************************************************************)

\* Although the set is read piecewise while others change it, what LoadZones
\* has collected is bounded by what the set held while it ran: a zone enabled
\* throughout cannot be missed and a zone never enabled cannot appear.
ScanIsBounded ==
    Scanning => /\ always \ unread \subseteq found
                /\ found \subseteq ever

\* The list in use changes only by a completed scan: a failing Redis never
\* drops a zone that was enabled all the time.
LoadKeepsEnabled ==
    [][zones' # zones => always \subseteq zones' /\ zones' \subseteq ever]_zones

\* Once the set stops changing, the list in use becomes and stays equal to it,
\* whatever happened to notifications, to the subscription and to earlier
\* loads: the hourly tick repairs every lost update of modified.
EventuallyCurrent == <>[](zones = redisZones)

\* The updater is idle, no reload is due, and the subscription is up with
\* nothing left to handle: only the hourly tick can change the list now.
Settled ==
    /\ updater = "select" /\ ~modified
    /\ phase[zoneList] = "up" /\ ~starting[zoneList] /\ pending[zoneList] = <<>>

\* The list can only be stale for an hour in three ways: a change came before
\* the server had registered the subscription, a request for a reload arrived
\* while a load was under way, or the load failed.
OnlyKnownCauses == Settled /\ lost = {} => zones = redisZones
============================================================================
