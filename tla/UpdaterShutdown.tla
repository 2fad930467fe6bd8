--------------------------- MODULE UpdaterShutdown ---------------------------
(***************************************************************************)
(* Start and stop of DataHandler's zone updater: NewDataHandler starts a   *)
(* goroutine that starts the two subscriptions (zone list and zone keys)   *)
(* and adds each to dh.quitWG; ShutDown closes dh.quit and waits for       *)
(* quitWG.  Add runs inside the goroutine, so ShutDown can find the        *)
(* WaitGroup still empty.  The steps of the subscriptions are those of     *)
(* SubscribeEvent.                                                         *)
(***************************************************************************)
EXTENDS SubscribeEvent, Integers

CONSTANTS zoneList, zoneKeys   \* the two subscriptions

ASSUME SubsAssumption == Subs = {zoneList, zoneKeys} /\ zoneList # zoneKeys

VARIABLES updater,   \* where the updater goroutine is
          quitWG,    \* the counter of dh.quitWG
          caller,    \* where the goroutine that calls ShutDown is
          covered    \* quitWG was not zero when Wait was called

shutVars == <<updater, quitWG, caller, covered>>
allVars == <<vars, shutVars>>

\* The type invariant of ShutDown and the updater; quitWG is at most 2.
ShutTypeOK ==
    /\ TypeOK
    /\ updater \in {"spawned", "listStarted", "select", "quitting", "returned"}
    /\ quitWG \in 0..2
    /\ caller \in {"running", "closed", "waiting", "returned"}
    /\ covered \in BOOLEAN

ShutInit ==
    /\ Init
    /\ updater = "spawned"
    /\ quitWG = 0
    /\ caller = "running"
    /\ covered = FALSE

\* The goroutine of SubscribeEvent(s) has been started.
Started(s) ==
    \/ updater \notin {"spawned", "listStarted"}
    \/ updater = "listStarted" /\ s = zoneList

StartZoneList ==
    /\ updater = "spawned"
    /\ quitWG' = quitWG + 1
    /\ updater' = "listStarted"
    /\ UNCHANGED <<vars, caller, covered>>

\* WRONG: only the first subscription is added to the WaitGroup.
StartZoneKeysUncounted ==
    /\ updater = "listStarted"
    /\ updater' = "select"
    /\ UNCHANGED <<vars, quitWG, caller, covered>>

StartZoneKeys ==
    /\ updater = "listStarted"
    /\ quitWG' = quitWG + 1
    /\ updater' = "select"
    /\ UNCHANGED <<vars, caller, covered>>

\* dh.quit is closed: the WaitGroup is sent to one subscription, then to the
\* other (both channels have room).
QuitZoneList ==
    /\ updater = "select"
    /\ caller # "running"
    /\ RequestQuit(zoneList)
    /\ updater' = "quitting"
    /\ UNCHANGED <<quitWG, caller, covered>>

\* WRONG: the second subscription is forgotten.
QuitZoneKeysForgotten ==
    /\ updater = "quitting"
    /\ updater' = "returned"
    /\ UNCHANGED <<vars, quitWG, caller, covered>>

QuitZoneKeys ==
    /\ updater = "quitting"
    /\ RequestQuit(zoneKeys)
    /\ updater' = "returned"
    /\ UNCHANGED <<quitWG, caller, covered>>

CloseQuit ==
    /\ caller = "running"
    /\ caller' = "closed"
    /\ UNCHANGED <<vars, updater, quitWG, covered>>

CallWait ==
    /\ caller = "closed"
    /\ covered' = (quitWG > 0)
    /\ caller' = IF quitWG = 0 THEN "returned" ELSE "waiting"
    /\ UNCHANGED <<vars, updater, quitWG>>

WaitReturns ==
    /\ caller = "waiting"
    /\ quitWG = 0
    /\ caller' = "returned"
    /\ UNCHANGED <<vars, updater, quitWG, covered>>

\* <-done, then wg.Done().
DrainAndDone(s) ==
    /\ Drain(s)
    /\ quitWG' = quitWG - 1
    /\ UNCHANGED <<updater, caller, covered>>

SubscriptionStep(s) ==
    /\ Started(s)
    /\ \/ StartConnected(s) \/ StartUnconnected(s)
       \/ Tick(s) \/ HandleDone(s) \/ HandleQuit(s)
       \/ ReceiverStep(s) \/ ServerStep(s)
    /\ UNCHANGED shutVars

ShutNext ==
    \/ StartZoneList \/ StartZoneKeys
    \/ QuitZoneList \/ QuitZoneKeys
    \/ CloseQuit \/ CallWait \/ WaitReturns
    \/ \E s \in Subs : SubscriptionStep(s) \/ DrainAndDone(s)

\* As in SubscribeEvent, the goroutines run and connected servers answer, and
\* one of the ticks finds Redis reachable; nothing makes anybody call ShutDown
\* or makes a connection fail.
ShutFairness ==
    /\ WF_allVars(StartZoneList \/ StartZoneKeys)
    /\ WF_allVars(QuitZoneList \/ QuitZoneKeys)
    /\ WF_allVars(CallWait \/ WaitReturns)
    /\ \A s \in Subs :
          /\ WF_allVars(SubscriptionStep(s) /\ (StartConnected(s) \/ StartUnconnected(s)))
          /\ WF_allVars(SubscriptionStep(s) /\ Tick(s))
          /\ WF_allVars(SubscriptionStep(s) /\ HandleDone(s))
          /\ WF_allVars(SubscriptionStep(s) /\ HandleQuit(s))
          /\ WF_allVars(SubscriptionStep(s) /\ ReceiverStep(s))
          /\ WF_allVars(SubscriptionStep(s) /\ ServerSubscribe(s))
          /\ WF_allVars(SubscriptionStep(s) /\ ServerUnsubscribe(s))
          /\ WF_allVars(DrainAndDone(s))

ShutSpec == ShutInit /\ [][ShutNext]_allVars /\ ShutFairness

(***************************************************************************)
(* Properties.                                                             *)
(***************************************************************************)

\* If the updater had registered with quitWG before ShutDown called Wait, then
\* ShutDown returns only when both subscriptions have stopped, even when it
\* was called between the two calls of Add.  (Called before the first Add it
\* returns at once, with the updater still on its way up.)
ReturnMeansStopped ==
    caller = "returned" /\ covered => \A s \in Subs : loop[s] = "stopped"

\* quitWG counts exactly the started subscriptions that have not finished: it
\* never becomes negative, which would panic.
WaitGroupCounts ==
    quitWG = (IF Started(zoneList) /\ loop[zoneList] # "stopped" THEN 1 ELSE 0)
           + (IF Started(zoneKeys) /\ loop[zoneKeys] # "stopped" THEN 1 ELSE 0)

\* ShutDown returns, unless one of the subscriptions has no connection at the
\* moment it is told to quit.
ShutDownReturns ==
    [](\A s \in Subs : loop[s] = "draining" => psc[s])
        => (caller = "closed" ~> caller = "returned")
==============================================================================
