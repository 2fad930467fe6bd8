------------------------- MODULE MCUpdaterShutdown -------------------------
(* UpdaterShutdown for TLC: both subscriptions, one key, one unread         *)
(* notification.                                                            *)
EXTENDS UpdaterShutdown, TLC

CONSTANT k1

MCSubs == {zoneList, zoneKeys}
MCKeys == {k1}
============================================================================
