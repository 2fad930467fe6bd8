--------------------------- MODULE MCZoneUpdater ---------------------------
(* ZoneUpdater for TLC.                                                     *)
EXTENDS ZoneUpdater, TLC

CONSTANTS z1, z2

MCSubs == {zoneList}
MCKeys == {zonesKey}
MCZones == {z1, z2}
============================================================================
