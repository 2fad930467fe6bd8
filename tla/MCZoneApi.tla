----------------------------- MODULE MCZoneApi -----------------------------
(***************************************************************************)
(* An account and one that is being made, one zone name with one location  *)
(* and one record type: other names are other rows.  The requests of one   *)
(* client, as u1, meet those of another, as either user, that change which *)
(* rows there are; both sign up, verify and log in.                        *)
(***************************************************************************)
EXTENDS ZoneApi, TLC

CONSTANTS c1, c2, u1, u2

MCIds == 1..2
Adding == {"addZone", "addLocation", "addRecordSet"}
Deleting == {"deleteZone", "deleteLocation", "deleteRecordSet"}
MCOps == (c1 :> DOMAIN Program) @@ (c2 :> Adding \union Deleting)
MCSpeaks == (c1 :> {u1}) @@ (c2 :> {u1, u2})
=============================================================================
