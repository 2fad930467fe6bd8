# A TLA+ model of z42

z42 is an authoritative DNS server whose zones live in Redis. This directory
models its concurrent core in TLA+: what is checked with TLC on small
instances, and what is proved with TLAPS for all of them. Line numbers refer to
the files under `src/`; `PROJECT.json` maps every definition to the lines it
models.

## 1. The system

| Component | State | Operations | Talks to | What is hard |
|---|---|---|---|---|
| Event subscription, `pkg/hiredis` `SubscribeEvent` | connection `psc`, channel `done`, a loop and a receiver goroutine | connect, tick, receive, quit | Redis; callbacks of its user | `psc` shared by two goroutines, lost connections, quit in any state |
| Zone updater, `internal/storage/data_handler.go` `NewDataHandler`, `LoadZones` | zone list `zones`, flag `modified` | reload tick, hourly tick, callbacks, `EnableZone`, `DisableZone` | subscription, `SMembers` | SSCAN is not a snapshot, notifications during a load, failing calls |
| Start and stop of the updater, `ShutDown` | `quit`, `quitWG` | start of two subscriptions, shutdown | both subscriptions | `Add` in a goroutine, quit without a receiver |
| Zone cache, `GetZone` | cache, single flight, a zone under construction | hit, load, expiry, invalidation | Redis, subscription | a load is six calls, each may fail or be overtaken |
| Record cache, `getRRSet` | cache, single flights | typed getters, `SetLocationFromJson`, `SetRRSet`, `SetRRSetFromJson` | Redis | a time test that never succeeds, joined flights, sets written one by one, emptied and deleted |
| Lookup, `FindZone`, `FindLocation` | radix trees | lookup | handler | wildcards, empty non-terminals, nested zones |
| Request handler, `internal/handler` | one request | CNAME loop, delegation, ANAME, CAA, denial | all of the above, upstream | loops, changes between calls, failures, signed denials |
| Rate limiter, `pkg/ratelimit` | a bucket per address in an expiring cache | `CanHandle` | resolver command | lookup, create and store are separate steps |
| Worker pool, `pkg/workerpool` | three kinds of channels, worker list | `Queue`, `Dispatch`, `Stop` | health checker | goroutine per job, stop while jobs are on their way |
| Health checker, `internal/healthcheck` | items in Redis with an expiry | `Start`, handler, `Transfer`, `ShutDown` | pool, Redis, zone data | handlers write back old copies; a stop without a start or without locations |
| Status cache, `stat_handler.go` `GetHealthStatus`, and `FilterHealthcheck`, which at present only tests call (the call in `filter` is commented out, `handler.go:440`) | cache without a time to live | get, invalidate, filter | subscription, checker | missed notifications, keys cut with `TrimLeft`, two reads of every status |
| Upstream, `internal/upstream` | answer cache, connection list | `Query` | other servers | shared answers, list changed without a lock |
| Geo filter and address order, `internal/geotools`, `filter`, `orderIps` | none | pure | handler, geo database | two-pass masks, unknown countries, weights |
| DNSSEC signing, `internal/dnssec` | none | pure | handler | which sets are signed |
| Request parsing | none | pure | handler | - |
| Zone API, `internal/api` | SQL tables | signup, verify, login; zones, locations, record sets | MySQL, a Redis stream | up to 12 statements without a transaction, ownership checked before the write |
| Commands | - | wiring, signals | all | order of shutdown |

What makes each modelled component correct, and the definition that says it:

- a subscription has one receiver, which never uses a connection that is gone
  (`ReceiverIsSafe`, `PscTellsReceiver`); it reconnects (`Reconnects`) and its
  callbacks see every connection announced and every notification at most once
  and in order (`ImplementsChannel`);
- shutdown of the data handler returns, and only after both subscriptions have
  stopped (`ShutDownReturns`, `ReturnMeansStopped`);
- the zone list never loses a zone that stays enabled (`LoadKeepsEnabled`), is
  stale only for known causes (`OnlyKnownCauses`) and becomes current
  (`EventuallyCurrent`);
- a zone is signed only with complete keys (`SignedHasKeys`), stale only for
  known causes (`StaleHasCause`), and current in the end
  (`EventuallyServesCurrent`);
- a record set is no older than the flight that read it (`ReadIsCurrent`), and an
  empty answer is true of one moment, unless something was emptied or deleted
  meanwhile (`NothingOfAMoment`);
- upstream servers are all asked before `Query` fails on its own account, without
  a response of any (`AllServersTried`), and a cached answer is not used longer
  than its shortest-lived record lives (`OutlivesNothing`);
- lookup is that of RFC 4592, in the deepest zone (`LookupIsReference`); a client
  is given the addresses meant for it (`FilterIsReference`), each once and each
  first as often as it should be (`OrderIsFair`);
- name errors are true (`NameErrorIsTrue`), so are empty answers
  (`QuietDenialIsTrue`), also if calls failed; they can be cached and validated
  (`NegativeIsComplete`); answers are chains (`AnswerChain`), every set of a signed
  one can be checked but the NS sets that are known not to be (`SignedSetsVerify`),
  and every request is answered (`Responds`);
- an address gets its rate and one burst (`OneBurst`, `BurstPerClient`,
  `BucketBound`);
- a worker gets one job at a time and the pool stops (`OneTicket`,
  `StoppedIsIdle`, `Terminates`); a health status is earned by checks, if there is
  one for the protocol (`StatusIsEarned`), and follows the configuration
  (`TakesOverConfig`);
- undisturbed, `FilterHealthcheck` keeps the best addresses (`FilterKeepsBest`);
  a cached status is stale only for known causes (`StaleStatusHasCause`). That it
  becomes current nothing promises: only a later write, a renewal or an eviction
  does that, and `cmd/healthchecker` starts nobody who would renew;
- an answer of the API is true of some moment of the request, unless a statement
  failed (`AnswerOfAMoment`), a request changes rows of its user only
  (`OwnRowsOnly`), and a token needs a code that was sent, which works until it
  is used (`CodesWork`).

## 2. Modules

```
NotificationChannel          what callbacks of a subscription may rely on (abstract)
 |- ZoneUpdater              zone list over a channel;  ZoneUpdaterProofs
 |- ZoneCache                GetZone over a channel;  ZoneCacheProofs
 |- StatusCache              GetHealthStatus, FilterHealthcheck over a channel
SubscribeEvent               implements NotificationChannel
 |- UpdaterShutdown          two subscriptions, NewDataHandler and ShutDown
 |- SubscribeEventProofs     about both
ZoneLookup                   FindZone, FindLocation, and a reference
 |- Resolver                 HandleRequest, call by call
AddressSelection             filter, the geo filters and orderIps, and a reference
RecordCache                  getRRSet, SetLocationFromJson
Upstream                     Query
 |- AnameQuery               requests over RecordCache and Upstream;  AnameQueryProofs
RateLimiter                  CanHandle;  RateLimiterProofs
WorkerPool                   Dispatcher and Workers
 |- HealthCheck              Start, HandleHealthCheck, Transfer, ShutDown
     |- HealthCheckProofs
ZoneApi                      the API and its database;  ZoneApiProofs
MC*                          constants for TLC; MCAlgorithms calls the operators of
                             ZoneLookup and AddressSelection, MCStatusCache extends
                             it and StatusCache
AnswerProofs                 about StatusCache, MCAlgorithms and Resolver
```

`ZoneUpdater`, `ZoneCache` and `StatusCache` use a subscription through its
abstraction: their actions are conjunctions of their own steps and steps of
`NotificationChannel`, and `ImplementsChannel` (checked, and proved as
`Refinement`) is what justifies it. In the same way `HealthCheck` conjoins its
steps with those of `WorkerPool`. An operator marked `WRONG` is a variant that
the code is not: each shows that a property of a run would notice it, and no
`Next` uses one.

### NotificationChannel, SubscribeEvent, UpdaterShutdown

`SubscribeEvent` has, for every subscription, the loop (`loop`), `psc` and
`done` as in the code, the receiver goroutine (`rcv`) and what the server and
the network hold. An action is one turn of the `select` (`Tick`, `HandleDone`,
`HandleQuit`, then `Drain` for the `<-done` after a quit) or one step of the
receiver (`OnStart`, `OnMessage`, `ReceiveError`, `ReceivePUnsubscribe`).
`ServerSubscribe` comes some time after `onStart` was called: redigo's
`PSubscribe` only sends the command. `NotificationChannel` forgets the two
goroutines and keeps whether the channel is down, connected or registered, that
an `onStart` is due, and the notifications not handled yet; losing the
connection may lose any suffix of them.

`UpdaterShutdown` adds the updater goroutine of `NewDataHandler`, which calls
`quitWG.Add` and starts the subscriptions, and a caller of `ShutDown`. A
`Wait` that finds the counter at zero returns at once; the variable `covered`
records this, and `ReturnMeansStopped` is about the other case.

### ZoneUpdater, ZoneCache

A scan (`SMembers`) reads the set bucket by bucket (`ScanBucket`) while
`WriteZones` (external), `EnableZone` and `DisableZone` change it. `always` and
`ever` are ghosts: what was in the set during the whole scan, and at some time
of it. `lost` records why a request for a reload may have been forgotten:
`unregistered`, `overtaken`, `failed`. `WriteFails` is a call of `EnableZone` or
`DisableZone` that fails before the list is changed, at the `SAdd` of the location
`@` too.

`ZoneCache` has one zone and several callers. A caller asks the cache
(`CacheHit`, `CacheMiss`) and joins the single flight in a step of its own
(`JoinFlight`), so that the flight it meets may be a later one. A failing read
of the labels makes the load fail; a failing read of the configuration or of a
key is logged and the default is used, as in the code; the result is then an
unsigned zone and `cause` records it.

### ZoneLookup, Resolver

Names are sequences of labels from the root, as `ReverseName` makes them. The
reference defines the closest encloser and the source of synthesis by
quantifiers, `FindLocation` walks the tree as the code does.

`Resolver` is one request. Every call that reads the store is an action, since
between two calls the zone list can be reloaded and records can change; the
zone with its locations is a snapshot, as in the code. Types with the same
control are one: A is also AAAA, TXT is also MX, SRV, PTR and TLSA. `Respond`
includes `applyDnssec`: a signature is a record that names the set it covers.
`Filtered` leaves open whether the geo filter lets an address through. Nothing
keeps a zone from having a CNAME at its own name, or an alias from leading there;
some stores do. `SignResponse` leaves NS sets unsigned by the name of the question,
as `dnssec.go:40` does.

### AddressSelection

A record set is a sequence of addresses with their weights, countries and
networks; a client is what the geo database says of it. `GetSame` is the text
that `GetSameCountry` and `GetSameASN` share: a pass that makes every other
address grey, and one that goes back to those meant for anybody if none matched.
`GetMinimumDistance` keeps the index into `dists` as it is in the code, which is
right because `filter` calls it with a white mask. The reference `Eligible` is
written with sets. `orderIps` takes the nanosecond as an argument.

### RecordCache, Upstream, AnameQuery

`RecordCache` is `getRRSet` for the record sets of one location. A flight of the
singleflight group has a leader and members, who all get its result. `history`
holds every state that Redis went through, so that a result can be compared with
the past. `Hit` has the test of line 295 as it is: the clock against a duration;
`Timeouts` has a value on either side. `SetLocationFromJson` writes set after set,
with a time to live within the bounds, and passes over failures; an entry that is
there but has no data is written as an empty set. `SetRRSetFromJson` stands for
everything else that writes one set: `SetRRSet` and `SetRRSetFromJson` called by
themselves and `redis-cli`, with any time to live, or a deletion.

`Upstream` has the list of servers, the flights and the cache. The element of
the list that a flight is at is kept (`conn`) while it waits, as the loop
variable is. A cached answer is a number into `answers`, since its records are
shared; `Rewrite` is the write of a hit into them, after which the requests read
them (`HaveUpstream`). A rest of life that is negative may convert to anything. A
response that is no success, SERVFAIL and REFUSED included, or has no answer is
passed on at once (`ExchangeEmpty`): a SERVFAIL of `Query` means that every server
was asked only if it is its own (`by = Nobody`).

`AnameQuery` composes them: an A question reads A, then ANAME, then asks
upstream, and serves the time to live of the first record. It has no fairness;
that every request ends is TLC's deadlock check.

### StatusCache

`filter` does not call `FilterHealthcheck` any more; it is modelled as its tests
call it, and `GetHealthStatus` with it. A call goes twice over the white
addresses and calls `GetHealthStatus` for each (`CacheGet`, `LoadItem`,
`CacheSet`). Keys are character sequences, so that `TrimLeft` can do what
`strings.TrimLeft` does with a set of characters. `changed` records that the
answer for an address of the call changed while it ran, or that the call was
told something else; `cause` records why a cached item may be stale. Writers are
the steps of the checker as Redis sees them: an item is stored, expires, or has
its expiry renewed, which is an event too.

### RateLimiter

One address; `Lookup`, `Update` (under the lock of the limiter) and `Create`
are the steps of `CanHandle`. Limiters are numbered in the order they are
made, and the cache entry names the one that is found. `overlapped` records
that two calls were under way at a time.

### WorkerPool, HealthCheck

Every channel operation of the pool is a step: the goroutine of `Queue`
(`Enqueue`), the select of `Dispatch` (`Dispatch`, `DispatchQuit`), its
goroutine per job (`TakeWorker`, `Deliver`) and the worker (`RegisterWorker`,
`QuitWorker`). `HealthCheck` is one address: `Start` lists the keys and queues
a copy of the item that is due; the handler checks and stores the copy, which
removes the expiry of the key; `Transfer` compares the item with the
configuration, stores a new one and renews the expiry. With a protocol that the
handler does not know (`Unknown`) no check is made and no error is set
(`healthcheck.go:48`), so that the status goes up; `ups` counts the checks that
were made. Nothing requires `Start`
to be called (`cmd/healthchecker` does not), and the configuration `Nowhere`
stands for zones without any location, where `Transfer` does not look at `quit`.

### ZoneApi

`Program` gives, for every operation of the handlers, its line of SQL
statements, composed as the functions of `db.go` call each other; a statement
carries the error that its caller makes of a missing row. There is one action
per kind of statement. `ref` is the id that a request selected last, which is
all that it remembers between statements. Any statement can fail, before it is
executed or after, when the reply is lost; the answer is then "internal", but for
a login: the authenticator takes every error of `GetUser` for a wrong password and
answers 401 (`auth/handlers.go:50`), "denied" in the model. A new
id is one that no row has and no request remembers: uuids never meet again, and
this keeps the model finite without a bound on the number of requests. `Granted`
says when a request would succeed in one step; `seen` collects its value at
every moment of the request, and `AnswerOfAMoment` compares the answer with it.
`moved` marks requests whose zone was deleted while they ran: the owner is
checked by name and the row found by name later, so that such a request can
reach the zone of the user who has taken the name since.

## 3. Runs

Passing runs:

| Run | Question | Instance | States |
|---|---|---|---|
| `shutdown` | do the two subscriptions work and stop | 2 subscriptions, 1 key, 2 pending notifications | 8,362 |
| `zone_list` | is the zone list right | 2 zones, 2 writes, 2 failures, 2 pending | 106,063 |
| `zone_cache` | is a served zone right | 2 callers, values 0 and 1, 1 write, 1 failure | 1,364,188 |
| `rate_limit` | is the limit kept | 2 callers, 4 limiters, rate 3, burst 1, clock to 9 | 512,980 |
| `algorithms` | are lookup, filters and order those of their references, are statuses right | all zones over 2 labels with depth 2, all names one label longer; all sets of up to 3 addresses, 12 clients; weights -1 to 3, all turns, 12 nanoseconds; 1 call at a time of 2 addresses or of a key that is cut, 3 statuses, 1 write, 1 failure, 1 pending | 620,840 |
| `resolver` | is an answer right, also while data change | 66 stores, every type, 1 failure; 2 changes for some stores and requests; liveness | 433,665 |
| `aname_data` | are cached data right | 2 requests, 3 contents, 1 of 2 locations or of 2 sets written, 1 failing command; 3 servers, 2 names, 4 timeouts, clock to 2 | 2,449,049 |
| `health` | are pool and checker right | 2 jobs, 2 workers, `up_count` 2; disabled, checked, and of an unknown protocol; 1 change | 3,290,760 |
| `health_liveness` | does the checker take over changes, and stop | 1 job, 1 worker, the same and no location, 1 change, 1 failure | 158,465 |
| `zone_api` | are answers and tables right | 2 clients, 2 users, 1 zone name, 1 location name, 1 type and an unsupported one | 2,625,937 |

Bounds are small because the races need few actors: two goroutines on one
subscription, two callers of one load or one limiter, one write in the middle of
a load. A second write or failure is there where the first can hide the second
(`zone_list`). In `resolver`, two hops suffice to see a chain, a loop, and the
limit (10 in the code) reached from both sides. In `health` two jobs of one
address compete for two workers and count on from one status, and with an
`up_count` of 2 a status that is counted twice would be seen; failing calls and
zones without a location change no status, and are left to `health_liveness`,
where the races are between one handler, `Start`, `Transfer` and `ShutDown`.
That more jobs, workers and failures change nothing for the safety properties is
proved (section 5). In `aname_data` three servers and four timeouts let one
flight find the list that another has changed and still fail at every server;
times to live of 0 and 1, a first record that lives longer, and the default of 2
meet every case of `Life` before the clock ends. A location is rewritten to an A
without an ANAME, or one set of it replaced or deleted by itself. In the status
part of `algorithms` the statuses are down, in between and one check away from
up; one write is enough to come between the two reads of a call or to leave a
cached status behind; that further calls and writes change nothing for the
safety properties is proved; the pure functions are called in one of its states. There the turns of every sum of
weights are counted, and 12 nanoseconds go around the greatest sum, 9, more than
once. In `resolver` the zone list and the records change only under
`BusyRequests` and between `BusyContents`. In `zone_api` one client (`Ops`,
`Speaks`) makes every request, as one user, and the other those that add and
delete rows, as both: updates and reads change nothing that a request decides
on. Zones are used once the second account is made (`Waiting`), since accounts
and zones share only the owner; two zone or location names would be independent
rows. Requests and failures are not bounded.

Deadlock is checked in `zone_list`, `zone_cache`, `algorithms`, `aname_data`
and `zone_api`. The others may
stop: after a shutdown, after the one request is answered, or when the clock
reaches its bound.

Runs that show a disagreement between the code and what the repository says:

- `quit_while_disconnected`: `hiredis.go:472` waits in `<-done` after a quit
  even when there is no connection and so no receiver; `wg.Done` is not
  called, and every `ShutDown` that relies on it hangs.
- `aname_to_nothing`: an ANAME to a name of the zone that does not exist gives
  success at the apex of a signed zone (`handler.go:709`), where the tests expect
  SERVFAIL. This is what the counterexample shows. The code has a second way, which
  is not in that trace: below an existing name the addresses of the closest
  encloser are answered (`handler.go:651`).

More is visible in the passing runs, as the conditions under which their
properties hold:

- A change notified while `LoadZones` runs is forgotten when `modified` is
  cleared after it (`data_handler.go:123`), and waits for the hourly tick: the
  cause `overtaken` in `OnlyKnownCauses`.
- Two overlapping first requests of an address each get a bucket (`OneBurst` is
  conditional on `~overlapped`, `BurstPerClient` is what is left).
- A failing read of a zone's configuration makes it unsigned for the life of the
  cache entry (a cause in `StaleHasCause`).
- A zone that is deleted and added by another user between the check and the
  write of a request is changed by that request (`~moved` in `OwnRowsOnly`).
- A login whose statement fails is refused with 401, also to an active user with
  the right password ("denied", left out of `AnswerOfAMoment`).
- The status of an item with an unknown protocol goes up with every turn, without
  any check (`Unknown` in `StatusIsEarned`).
- `ShutDown` of a checker hangs if `Start` was not called, or while no zone has a
  location (`Terminates`).
- A check that is on its way when a record is disabled stores its copy with SET,
  which removes the expiry (`stat_handler.go:96`), and `Transfer` renews that of
  enabled records only: such an item stays and is checked for ever. The actions
  `HandleHealthCheck` and `TransferVisit` show it; no property says otherwise.
- The record cache is filled and never used, unless `record_cache_timeout` is
  greater than the clock, when it never expires (`Clock > cacheTimeout` in
  `ReadIsCurrent`). A request that joins a flight may get data older than itself.
  What it reads has the time to live that is in Redis: only `SetLocationFromJson`
  keeps it within the bounds, `SetRRSet`, `SetRRSetFromJson` and `redis-cli` do not.
- A location whose A is emptied before its ANAME is written again can be answered
  with nothing, although it had one or the other all the time (the second
  disjunct of `NothingOfAMoment`).
- The first upstream server is lost from the list as soon as another answers
  (`AllServersTried`), and a server that responds with SERVFAIL or REFUSED keeps
  the others from being asked; an answer with time to live 0 is kept for ten
  minutes, and one that comes fresh from a server is served with the time to live
  of its first record, which may be longer than that of another
  (`OutlivesNothing`).
- A signed answer has unsigned NS sets: the zone's own, when a question for another
  name is flattened to the zone. A delegation that a question for the zone is led
  to is signed, which it must not be (`SignedSetsVerify`).
- Items whose name begins with a character of `z42:healthcheck:` are never
  removed from the status cache, and items that expired while the subscription
  was down stay, as does any status whose notification was missed, until it is
  written or renewed again (`Plain` and the causes in `StaleStatusHasCause`). A
  status that falls between the two loops of `FilterHealthcheck`, a failing
  read, or an item that another call has cached and that expires before this one
  reads it, can mask every address (`~changed` in `FilterKeepsBest`).
- With `asn+country` and a client whose country is unknown, the choice by ASN
  counts for nothing (`Eligible`). A geo filter may let no address through, and
  the answer is then a denial (`source` in `QuietDenialIsTrue`).

Some hazards are stated by a property rather than ruled out by it: the property
says that nothing else goes wrong, and has the case itself as a condition. These
are the answer from a closest encloser (H18, which `AnameToNothingFails` alone
states), the keys that `TrimLeft` cuts (H28), the statuses that change between the
loops of `FilterHealthcheck` (H30), the zone that changes hands (H32) and the
shutdown before `quitWG.Add` (H2), numbered as in `PROJECT.json`.

## 4. Fairness

- Goroutines that can take a step take one: weak fairness of every loop,
  receiver, handler and worker. Go's scheduler is preemptive.
- Tickers fire: weak fairness of `Tick`, `ReloadTick`, `ForceTick` and `Expire`.
  In `ZoneUpdater` and `ZoneCache` nothing is assumed of the subscription or of
  callers: it may be down for ever.
- `select` chooses among ready cases at random, so a case that is ready again
  and again is taken: strong fairness of `LoopQuit` and `TransferQuit`. A
  goroutine that waits on a channel others also receive from is served in
  turn: strong fairness of `TakeWorker` for each job.
- Nothing is assumed of time, of Redis or of a call of `Start` in `HealthCheck`, nor
  of anything in `StatusCache`, `AnameQuery` and `ZoneApi`.
- Redis calls fail a bounded number of times, connections may be lost for ever:
  `Reconnects` promises a reconnection only as long as attempts can succeed.

## 5. Proofs

Eight modules hold theorems, which are for every value of the constants up to
the named assumptions. These say that bounds are numbers, and beyond that:

- `RecordCacheAssumption`: what Redis holds under a record set is nothing, a set of
  its type, empty or not and with any time to live, or does not parse (`Bad`);
- `AnameQueryAssumption`: a location has A and ANAME records, and an ANAME, if it
  is not empty, names something that can be asked;
- `UpstreamAssumption`: a server is configured, and the record that lives
  shortest lives no longer than the first;
- `StatusAssumption`: `up_count` is positive and `down_count` negative
  (`HealthAssumption` too), and `FilterHealthcheck` is called with a white
  address;
- `ResolverAssumption`: names are sequences of labels, and neither a zone nor a
  location is the root;
- `GeoAssumption`, and in `GeoFilterIsReference` that distances are numbers or
  NaN; in `LookupCalls`, that `@`, the key of the apex, is not a label;
- `OneBurstAtMost` and `OneBurstPerClient` need `Burst < Rate`: otherwise a
  limiter can expire before its bucket is empty, and the address gets a second
  one. `RateAssumption` says that there are finitely many callers;
- in `OrderIpsIsFair`, weights are integers, of either sign.

**SubscribeEventProofs.** `ReceiverIsSafe` is not inductive: that a receiver
finds `psc` set depends on `done` being empty, on the loop not having handled a
`done` of an earlier receiver, and on what the server was asked. The invariant
`IInv` adds to the types, for each subscription, `ConnInv` (how `psc`, the link
and the receiver go together) and `LoopInv` (what `done` holds in every state
of the loop and of the receiver). From it follow `TypeCorrect`,
`ReceiverSafety`, `PscIsExact`, `NilMeansAsked` and `SingleReceiver`.
`Refinement` shows that every step maps to a step of `NotificationChannel` or
to a stutter. For `UpdaterShutdown`, `ShutStep` shows that its steps are steps
of the subscriptions, so that `IInv` carries over (`ShutKeepsSubscriptions`).
`ShutInv` adds the order in which they are told to quit (`QuitOrder`), when
`Wait` can be passed (`WaitInv`), and that `quitWG` counts the subscriptions
that were started and have not stopped. `WaitGroupIsExact` and `ShutDownStops`
(`ReturnMeansStopped`) follow.

**ZoneUpdaterProofs.** `LoadKeepsEnabled` needs `ScanIsBounded`: what the scan
has collected lies between the ghosts `always` and `ever`, restricted to the
buckets read so far. `OnlyKnownCauses` needs `FreshInv`: whenever no reload is
due, none is on its way through the channel and `lost` is empty (`Quiet`), the
list equals the set or the running scan will make it so. `GhostInv` says
that the set lies between the ghosts. `ScanBounded`, `LoadIsSafe`, `KnownCauses`
and `TypeCorrect` follow, for any zones, buckets and bounds.

**ZoneCacheProofs.** `SignedHasKeys` is about the end of a load and needs to
hold along it: `FlightSigned` says that a flight goes on to a key only with
DNSSEC enabled and the keys before it there, `ZonesSignable` carries this to the
cache and to the callers. `StaleHasCause` needs `FlightCurrent`: what an
undisturbed flight has read is what Redis holds. `SignedZones`, `StaleZones` and
`TypeCorrect` follow, for any number of callers, writes and failures.

**AnameQueryProofs.** There is one invariant for each of the three modules.
`RecInv` ties the members of a flight to its key and its begin (`FlightInv`)
and what was read to the states of Redis since then (`CallerInv`); `RemovalSeen`
says that data which is there at one moment and missing at a later one was removed
at a step between the two, so that two reads that were empty at two moments were
empty at one, or something was removed between them. `UpInv` says that the list
of servers changes in its first place only and only after an answer (`ListInv`),
what a flight has tried before the server it is at (`AskInv`), that a failure no
server has reported comes after all of them (`DoneInv`), and how the time
to live written into a shared answer relates to the one it came with (`Expires`,
`TtlInv`). `ReqInv` ties the requests to both. From them follow `ReadsAreCurrent`,
`NothingIsTrue`, `FailureIsComplete` and `NothingOutlives`, for any number of
requests, names, servers and writes.

**RateLimiterProofs.** A level is bounded only together with the time of its
last update: what was put in is at most the time since the limiter was made
plus its level. `BucketInv` states this for every limiter made so far, and
`IInv` adds that callers hold only those. `BucketIsBounded` follows. The
arithmetic (`OneMore`, `DrainedBounds`) is in lemmas of its own. `OneBurst`
needs `OneCallInv`: as long as calls do not overlap there is one bucket at a
time, and what the earlier ones admitted has drained before they expired
(`FullBucketDrains`). `OneBurstAtMost` follows. When calls overlap, several
buckets are in use, and `BurstPerClient` says nothing of them. `ManyCallsInv`
books every request that was admitted on one account for each caller (`Books`):
an account is open for a bucket or is free, each bucket that can still be used
has its own, a free one has drained, and there are enough free ones for the
callers that are about to make a bucket. Buckets are let go only by a lookup that
misses, and then the entry has expired and all of them have drained.
`OneBurstPerClient` follows. TLC checked `ManyCallsInv` on the instance of
`rate_limit` first.

**HealthCheckProofs.** `PoolInv` is the invariant of the pool: `OneTicket` is
kept only together with `OneHandler` (a worker that runs a handler is busy, and
runs one) and `StoppedIsIdle` with `StoppedInOrder` (workers are stopped in the
order of the list, and a stopped one never comes back). `HInv` adds that every
job on its way carries an item and that every item, in Redis or in a copy, was
earned, unless its protocol is unknown. There is one lemma per kind of step,
`StartMoves` for the start among them. The theorems are `TypeCorrect`,
`TicketIsUnique`, `StopIsFinal` and `StatusEarned`, for any number of workers,
jobs and configurations.

**AnswerProofs.** About the health filter: `Known` says what a call has found
out of the statuses it was told, in either loop; `StepKnown` that a further
status keeps it, and `KnownIsBest` that at the end it is the best set of
addresses. `StatusInv` says that an undisturbed call was told the present
answers. `HealthFilterKeepsBest` follows for any number of calls, and
`StaleStatuses` for the cache. The proof found a case that one call at a time
cannot meet, an item cached by another call that expires before this one reads
it, and `changed` covers it now. About the pure algorithms:
`GeoFilterIsReference` for every record set, client and filter (`IntervalInOrder`
says that the indexes of a white mask are in their order); `FindZoneIsDeepest`
and `FindLocationIsRFC4592` for every zone and name, by `PrefixesAreNested` (two
prefixes of one name are prefixes of each other) and `TreeFindsEncloser` (the
walk of the tree finds the closest encloser). `GeoFilterCalls` and `LookupCalls`
carry them to the properties of the run. No induction is needed: the references
and the walks are both about the longest prefix in a set, which exists as the
lengths of names are well-founded. `OrderIpsIsFair` is about `orderIps` with any
weights: `RotationIsOrder` says that the answer is the eligible addresses rotated,
`TurnsByTurn` that each has one turn, and `TurnsByWeight` that the turns of an
address are those from the weight of the addresses before it to that with its
own. The sum of weights is a fold, and that it adds up (`WeightsAddUp`) is proved
with the smallest set for which it would not; so is that every place of
`InOrder` is taken (`PlacesAreTaken`). `OrderCalls` carries it to the run.

About `HandleRequest`: the properties of a response say nothing of the calls
that led to it, and `ResolverInv` says what is known at each of them. `Handled`:
the answer so far is a chain of CNAMEs to the name the loop is at (`Linked`), or
is empty when CNAMEs are flattened, and the authority section is empty outside a
referral. `Referred`: the closest encloser is asked for NS only when the name is
absent (`Absent`, by `FindLocationIsRFC4592`), and a referral has its NS and, if
signed, its DS or a denial. `QuietZone`: while nothing changes, the zone of the
name is that of the question, so that the loop leaves the zone only with an
answer. `Unsigned` is what these add up to for a response that was not signed
yet (`Response`), and `SignedSection` and `SignsSets` say what `SignResponse`
makes of it. Steps end the request with such a response (`Ends`, `FinishEnds`,
`FailureEnds`), go on with it (`GoesOn`), or go from call to call (`NextCall`);
there is a lemma per action on top of these. `ResolverInvariance` gives
`AnswersAreChains` and `NegativesAreComplete`, for any zones, records, requests,
bounds, and any number of changes and failures under a request.

`QuietDenialIsTrue` compares the answer with `Walk`, which follows the CNAMEs
all at once, and `WalkInv` says where the loop is on it (`OnWalk`): as long as
nothing changes, whatever fails, the name it is at is the one that `Walk`
reaches with the CNAMEs followed so far, and a name without a CNAME to follow is
where `Walk` ends. What is then read at its location is what the outcome has.
`Walk` is a recursive function; that it meets its equation is proved as for the
sums (`WalkExists`), and the invariant speaks of every function that does.
`WalkInvariance` gives `QuietDenialsAreTrue`, and with `EncloserInv`, that the
NS of a closest encloser was read before a name below it is denied,
`NameErrorsAreTrue`. `SignaturesCoverSets` needs both invariants: which sets are
signed follows from `SetsCovered`, and whose an unsigned NS set is from `NSInv`,
that name servers are answered, while nothing changes, only where the walk ends
at the zone (`NSOnWalk`): at any other name they are a delegation, and referred
to.

**ZoneApiProofs.** The lemmas about `Programs` say, for each operation, which
statement comes before which (`Follows`). `KnownAccount` and `KnownZone` say what
a request can rely on between its statements, because of the one before: that
the account exists and has a code, that the zone is the user's, that the row it
remembers is a row of that zone or is gone. `OthersKnowAccount` and
`OthersKnowZone` show that statements of other requests keep this, where `moved`
excuses deleted zones, and `NewId` that an id that is remembered is never given
to another row. With the keys of the tables (`TablesOK`) and the life of a code
(`AccountsOK`) this is `ApiInv`. `TypeCorrect`, `CodesAlwaysWork` and
`OwnRowsAlways` follow, for any number of clients, accounts, names and rows.

`AnswerOfAMoment` needs `MomentInv`: while a request runs, `seen` has the present
value of `Granted` (`Watched`); a row that it has selected is still the one of its
name, or is gone, and a refusal was seen when it went (`KnownRows`); once its
deciding statement (`DecidedBy`) has passed, a grant was seen, and an answer was
seen to be true (`Told`). A row of a record set has a supported type, because
`AddRecordSet` checks it before it inserts (`Typed`, `TypeIsChecked`). `RowsStep`
says what any statement of any request does to the rows. TLC checked `MomentInv`
on the instance of `zone_api` first. `AnswersAreOfAMoment` follows.

`TypeOK` of `SubscribeEvent`, `RateLimiter`, `HealthCheck`, `ZoneUpdater` and
`ZoneCache` is proved and is not an invariant of a run.

Every invariant and every action property of a passing run is stated by a theorem.
Model-checked only: the liveness properties (`Reconnects`, `ShutDownReturns`,
`EventuallyCurrent`, `EventuallyServesCurrent`, `Responds`, `TakesOverConfig`,
`Terminates`), which need fairness and are beyond the
prover.

## 6. Not modelled

- Cryptography (`SignRRSet`, keys); `SignResponse` is modelled by what it covers.
- The geo database and the formula of `GetDistance`: their results are arguments.
- Names without a final dot in CNAME and ANAME records: names are absolute.
- A positive `down_count`, which is negated when an item is read but not in the
  configuration it is compared with (`stat_handler.go:83`).
- The commands, which make the components and stop them one after the other
  (`cmd/resolver`: listeners, handler, data handler, stat handler;
  `cmd/healthchecker`: checker, data handler, stat handler), and on SIGHUP make
  new ones. Components of the old and the new generation share nothing but Redis.
  A `ShutDown` that does not return (`quit_while_disconnected`, `Terminates`)
  also keeps those after it from being stopped and the new ones from being made.
- The connection pool of `pkg/hiredis` and its commands other than those the
  models name: single commands that work or fail.
- The wire format of record sets (`types`), among it `split255`.
- In the API: malformed input, expiry and refresh of tokens, `DeleteUser`, which
  no handler calls.
- Parsing, logging and configuration files.

## 7. Plan

Done, in this order: subscription and its abstraction; zone list; zone cache;
lookup and request handler; rate limiter; worker pool and health checker; the
API and its database; record cache, upstream and their composition; status
cache; geo filter, address order and signing; the proofs of section 5.

Left: the positive `down_count` of section 6, and the liveness properties, which
no theorem states.
