---------------------------- MODULE MCZoneCache ----------------------------
(* ZoneCache for TLC.                                                       *)
EXTENDS ZoneCache

CONSTANTS c1, c2

MCSubs == {zoneKeys}
MCKeys == {zoneName}
MCClients == {c1, c2}
MCValues == {0, 1}

Complete == [f \in Fields |-> 1]

\* DNSSEC on with all keys, and on with a key missing.
MCInitStores == {Complete, [Complete EXCEPT !["kskPriv"] = 0]}
============================================================================
