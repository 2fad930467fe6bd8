------------------------------ MODULE ZoneApi ------------------------------
(***************************************************************************)
(* The API: the handlers of accounts and zones over the MySQL database.    *)
(* A request is a straight line of SQL statements, without a transaction,  *)
(* so that the statements of concurrent requests interleave; the first     *)
(* that finds nothing, or fails, ends the request.                         *)
(*                                                                         *)
(* Accounts are never removed by the program: an account is known by its   *)
(* email, and its verification code, of which there is one, too.  A        *)
(* request that is malformed is answered before the database is asked and  *)
(* left out, and so are passwords and paging.  What a request writes into  *)
(* a row, flags and values, is abstracted to whose request it is.          *)
(***************************************************************************)
EXTENDS Naturals, Sequences, FiniteSets

CONSTANTS Clients,         \* those that make requests, one at a time
          Emails, Members, \* the users, and those that have an account at first
          ZoneNames, LocationNames,
          RTypes, SupportedTypes,
          Ops, Speaks,     \* bounds: the operations and the users of every client;
          Waiting,         \*         zones are used once these have their tokens
          Ids              \* bound: enough for the rows and requests there are

VARIABLES users,       \* User: the status of every email, or "none"
          codes,       \* Verification: the emails that have a code
          mailed,      \* the stream email_verification: the codes sent
          tokens,      \* the emails a token was given to
          zones,       \* Zone: rows [id, name, owner, by]
          locations,   \* Location: rows [id, zone, name, by]
          recordSets,  \* RecordSet: rows [id, location, type, by]
          req,         \* the request of a client, or NoRequest
          pc,          \* its next statement
          ref,         \* the id that it has selected last
          ans,         \* its answer, or "none"
          moved,       \* ghost: its zone was deleted while it ran
          seen         \* ghost: whether it could be granted, at every moment

accounts == <<users, codes, mailed, tokens>>
data == <<zones, locations, recordSets>>
vars == <<accounts, data, req, pc, ref, ans, moved, seen>>

NoRequest == [op |-> "none"]
NoId == <<>>

(***************************************************************************)
(* The statements of every operation.  "none" is the error that it ends    *)
(* with when the statement finds no row, after the callers' translations.  *)
(***************************************************************************)
Do(statement) == <<[do |-> statement, none |-> "internal"]>>
Find(statement, error) == <<[do |-> statement, none |-> error]>>

\* WRONG: a zone that exists is enough.
isZoneOwnerOfAny(error) == Find("user", "internal") \o Find("zone", error)

isZoneOwner(error) == Find("user", "internal") \o Find("owner", error)
GetZone(error) == isZoneOwner(error) \o Find("zone", error)
GetLocation(error) ==
    isZoneOwner("invalid") \o GetZone("invalid") \o Find("location", error)
GetRecordSet ==
    Find("rtype", "invalid") \o isZoneOwner("invalid") \o GetLocation("invalid")
    \o Find("recordSet", "notFound")

GetZones == Find("user", "invalid") \o Do("list")
AddZone == Find("user", "invalid") \o Do("nameTaken") \o Do("insertZone")
UpdateZone == isZoneOwner("notFound") \o GetZone("notFound") \o Do("updateZone")
DeleteZone == isZoneOwner("notFound") \o Find("deleteZone", "notFound")

GetLocations == isZoneOwner("invalid") \o GetZone("invalid") \o Do("list")
AddLocation == isZoneOwner("invalid") \o GetZone("invalid") \o Do("insertLocation")
UpdateLocation == isZoneOwner("invalid") \o GetLocation("notFound") \o Do("updateLocation")
DeleteLocation ==
    isZoneOwner("invalid") \o GetLocation("notFound") \o Find("deleteLocation", "notFound")

GetRecordSets == isZoneOwner("invalid") \o GetLocation("invalid") \o Do("list")
AddRecordSet ==
    isZoneOwner("invalid") \o Find("rtype", "invalid") \o GetLocation("invalid")
    \o Do("insertRecordSet")
UpdateRecordSet ==
    Find("rtype", "invalid") \o isZoneOwner("invalid") \o GetRecordSet \o Do("updateRecordSet")
DeleteRecordSet ==
    Find("rtype", "invalid") \o isZoneOwner("invalid") \o GetRecordSet
    \o Find("deleteRecordSet", "notFound")

AddUser == Do("insertUser")
AddVerification == Do("user") \o Do("insertCode")
signup == AddUser \o AddVerification \o Do("sendCode")
\* WRONG: the code is deleted first.
VerifyDeletingFirst == Do("code") \o Do("deleteCode") \o Do("activate")

Verify == Do("code") \o Do("activate") \o Do("deleteCode")
login == Do("authenticate")

Program ==
    [getZones |-> GetZones, addZone |-> AddZone, getZone |-> GetZone("notFound"),
     updateZone |-> UpdateZone, deleteZone |-> DeleteZone,
     getLocations |-> GetLocations, addLocation |-> AddLocation,
     getLocation |-> GetLocation("notFound"),
     updateLocation |-> UpdateLocation, deleteLocation |-> DeleteLocation,
     getRecordSets |-> GetRecordSets, addRecordSet |-> AddRecordSet,
     getRecordSet |-> GetRecordSet,
     updateRecordSet |-> UpdateRecordSet, deleteRecordSet |-> DeleteRecordSet,
     signup |-> signup, verify |-> Verify, login |-> login]

ASSUME ApiAssumption ==
    /\ Members \subseteq Emails /\ SupportedTypes \subseteq RTypes
    /\ Ids \subseteq Nat /\ Ops \in [Clients -> SUBSET DOMAIN Program]
    /\ Speaks \in [Clients -> SUBSET Emails] /\ Waiting \subseteq Emails

(***************************************************************************)
(* The requests of the handlers.                                           *)
(***************************************************************************)
AccountRequests == [op : {"signup", "login"}, user : Emails] \union [op : {"verify"}, user : mailed]

ZoneRequests ==
    [op : {"getZones"}, user : tokens]
    \union [op : {"getZone", "deleteZone"}, user : tokens, zone : ZoneNames]
    \union [op : {"addZone", "updateZone"}, user : tokens, zone : ZoneNames]

LocationRequests ==
    [op : {"getLocations"}, user : tokens, zone : ZoneNames]
    \union [op : {"getLocation", "deleteLocation"}, user : tokens, zone : ZoneNames,
            location : LocationNames]
    \union [op : {"addLocation", "updateLocation"}, user : tokens, zone : ZoneNames,
            location : LocationNames]

RecordSetRequests ==
    [op : {"getRecordSets"}, user : tokens, zone : ZoneNames, location : LocationNames]
    \union [op : {"getRecordSet", "deleteRecordSet"}, user : tokens, zone : ZoneNames,
            location : LocationNames, rtype : RTypes]
    \union [op : {"addRecordSet", "updateRecordSet"}, user : tokens, zone : ZoneNames,
            location : LocationNames, rtype : RTypes]

Requests == AccountRequests \union ZoneRequests \union LocationRequests \union RecordSetRequests

Init ==
    /\ users = [e \in Emails |-> IF e \in Members THEN "active" ELSE "none"]
    /\ codes = {} /\ mailed = Members /\ tokens = Members
    /\ zones = {} /\ locations = {} /\ recordSets = {}
    /\ req = [p \in Clients |-> NoRequest]
    /\ pc = [p \in Clients |-> 0]
    /\ ref = [p \in Clients |-> NoId]
    /\ ans = [p \in Clients |-> "none"]
    /\ moved = [p \in Clients |-> FALSE]
    /\ seen = [p \in Clients |-> {}]

(***************************************************************************)
(* How a statement ends.                                                   *)
(***************************************************************************)
Running(p) == pc[p] > 0
Statement(p) == Program[req[p].op][pc[p]]
At(p, statement) == Running(p) /\ Statement(p).do = statement

Answer(p, answer) ==
    /\ ans' = [ans EXCEPT ![p] = answer]
    /\ pc' = [pc EXCEPT ![p] = 0]
    /\ ref' = [ref EXCEPT ![p] = NoId]
    /\ UNCHANGED req

\* The statement has found the row with this id.
Found(p, id) ==
    IF pc[p] = Len(Program[req[p].op])
    THEN Answer(p, "ok")
    ELSE /\ pc' = [pc EXCEPT ![p] = @ + 1]
         /\ ref' = [ref EXCEPT ![p] = id]
         /\ UNCHANGED <<req, ans>>

\* A write was executed, and the reply comes back or is lost.
Written(p) == Found(p, NoId) \/ Answer(p, "internal")

(***************************************************************************)
(* The statements that read.                                               *)
(***************************************************************************)
ZoneNamed(name) == {z \in zones : z.name = name}

SelectUser(p) ==
    /\ At(p, "user")
    /\ IF users[req[p].user] # "none" THEN Found(p, NoId) ELSE Answer(p, Statement(p).none)

SelectOwner(p) ==
    /\ At(p, "owner")
    /\ \/ /\ ZoneNamed(req[p].zone) = {}
          /\ Answer(p, Statement(p).none)
       \/ \E z \in ZoneNamed(req[p].zone) :
            IF z.owner = req[p].user THEN Found(p, NoId) ELSE Answer(p, "unauthorized")

\* AddZone: the name is free, the user's own or another's.
SelectTaken(p) ==
    /\ At(p, "nameTaken")
    /\ \/ ZoneNamed(req[p].zone) = {} /\ Found(p, NoId)
       \/ \E z \in ZoneNamed(req[p].zone) :
            Answer(p, IF z.owner = req[p].user THEN "duplicate" ELSE "invalid")

FirstRow(p, rows) ==
    \/ rows = {} /\ Answer(p, Statement(p).none)
    \/ \E r \in rows : Found(p, r.id)

SelectZone(p) == At(p, "zone") /\ FirstRow(p, ZoneNamed(req[p].zone))

SelectLocation(p) ==
    /\ At(p, "location")
    /\ FirstRow(p, {l \in locations : l.zone = ref[p] /\ l.name = req[p].location})

SelectRecordSet(p) ==
    /\ At(p, "recordSet")
    /\ FirstRow(p, {r \in recordSets : r.location = ref[p] /\ r.type = req[p].rtype})

SelectList(p) == At(p, "list") /\ Found(p, NoId)

rtypeValid(p) ==
    /\ At(p, "rtype")
    /\ IF req[p].rtype \in SupportedTypes THEN Found(p, NoId) ELSE Answer(p, Statement(p).none)

SelectCode(p) ==
    /\ At(p, "code")
    /\ IF req[p].user \in codes THEN Found(p, NoId) ELSE Answer(p, Statement(p).none)

Read(p) ==
    /\ \/ SelectUser(p) \/ SelectOwner(p) \/ SelectTaken(p) \/ SelectZone(p)
       \/ SelectLocation(p) \/ SelectRecordSet(p) \/ SelectList(p)
       \/ rtypeValid(p) \/ SelectCode(p)
    /\ UNCHANGED <<accounts, data, moved>>

(***************************************************************************)
(* The statements that write the tables of the zones.                      *)
(***************************************************************************)
IdsOf(rows) == {r.id : r \in rows}

\* A new id is one that no row has and no request remembers; there is one within
\* the bound.
FreeIds(table, rows) ==
    {i \in Ids : <<table, i>> \notin IdsOf(rows) \union {ref[p] : p \in Clients}}
NewObjectId(table, rows) ==
    <<table, CHOOSE i \in FreeIds(table, rows) : \A j \in FreeIds(table, rows) : i <= j>>

\* WRONG: the name that was free is still free.
InsertZoneUnchecked(p) ==
    /\ At(p, "insertZone")
    /\ zones' = zones \union {[id |-> NewObjectId("zones", zones), name |-> req[p].zone,
                               owner |-> req[p].user, by |-> req[p].user]}
    /\ Written(p)
    /\ UNCHANGED <<locations, recordSets, moved>>

InsertZone(p) ==
    /\ At(p, "insertZone")
    /\ IF ZoneNamed(req[p].zone) = {}
       THEN /\ FreeIds("zones", zones) # {}
            /\ zones' = zones \union {[id |-> NewObjectId("zones", zones), name |-> req[p].zone,
                                       owner |-> req[p].user, by |-> req[p].user]}
            /\ Written(p)
       ELSE Answer(p, "duplicate") /\ UNCHANGED zones
    /\ UNCHANGED <<locations, recordSets, moved>>

UpdateZoneRow(p) ==
    /\ At(p, "updateZone")
    /\ zones' = {IF z.name = req[p].zone THEN [z EXCEPT !.by = req[p].user] ELSE z : z \in zones}
    /\ Written(p)
    /\ UNCHANGED <<locations, recordSets, moved>>

\* The rows that remain when those they refer to are deleted.
Cascade(zs, ls) ==
    LET kept == {l \in ls : l.zone \in IdsOf(zs)} IN
    /\ zones' = zs
    /\ locations' = kept
    /\ recordSets' = {r \in recordSets : r.location \in IdsOf(kept)}

Concerns(p, name) == "zone" \in DOMAIN req[p] /\ req[p].zone = name

DeleteZoneRow(p) ==
    /\ At(p, "deleteZone")
    /\ IF ZoneNamed(req[p].zone) = {}
       THEN Answer(p, Statement(p).none) /\ UNCHANGED <<data, moved>>
       ELSE /\ Cascade(zones \ ZoneNamed(req[p].zone), locations)
            /\ moved' = [q \in Clients |->
                            moved[q] \/ (Running(q) /\ q # p /\ Concerns(q, req[p].zone))]
            /\ Written(p)

\* WRONG: a location that is there already is ignored.
InsertLocationIgnoring(p) ==
    /\ At(p, "insertLocation")
    /\ ref[p] \in IdsOf(zones)
    /\ locations' = IF \E l \in locations : l.zone = ref[p] /\ l.name = req[p].location
                    THEN locations
                    ELSE locations \union {[id |-> NewObjectId("locations", locations), zone |-> ref[p],
                                            name |-> req[p].location, by |-> req[p].user]}
    /\ Written(p)
    /\ UNCHANGED <<zones, recordSets, moved>>

InsertLocation(p) ==
    /\ At(p, "insertLocation")
    /\ \/ /\ ref[p] \notin IdsOf(zones)
          /\ Answer(p, "internal") /\ UNCHANGED locations
       \/ /\ \E l \in locations : l.zone = ref[p] /\ l.name = req[p].location
          /\ Answer(p, "duplicate") /\ UNCHANGED locations
       \/ /\ ref[p] \in IdsOf(zones)
          /\ ~\E l \in locations : l.zone = ref[p] /\ l.name = req[p].location
          /\ FreeIds("locations", locations) # {}
          /\ locations' = locations \union {[id |-> NewObjectId("locations", locations), zone |-> ref[p],
                                             name |-> req[p].location, by |-> req[p].user]}
          /\ Written(p)
    /\ UNCHANGED <<zones, recordSets, moved>>

UpdateLocationRow(p) ==
    /\ At(p, "updateLocation")
    /\ locations' = {IF l.id = ref[p] THEN [l EXCEPT !.by = req[p].user] ELSE l : l \in locations}
    /\ Written(p)
    /\ UNCHANGED <<zones, recordSets, moved>>

DeleteLocationRow(p) ==
    /\ At(p, "deleteLocation")
    /\ IF ref[p] \in IdsOf(locations)
       THEN Cascade(zones, {l \in locations : l.id # ref[p]}) /\ Written(p)
       ELSE Answer(p, Statement(p).none) /\ UNCHANGED data
    /\ UNCHANGED moved

InsertRecordSet(p) ==
    /\ At(p, "insertRecordSet")
    /\ \/ /\ ref[p] \notin IdsOf(locations)
          /\ Answer(p, "internal") /\ UNCHANGED recordSets
       \/ /\ \E r \in recordSets : r.location = ref[p] /\ r.type = req[p].rtype
          /\ Answer(p, "duplicate") /\ UNCHANGED recordSets
       \/ /\ ref[p] \in IdsOf(locations)
          /\ ~\E r \in recordSets : r.location = ref[p] /\ r.type = req[p].rtype
          /\ FreeIds("recordSets", recordSets) # {}
          /\ recordSets' = recordSets \union {[id |-> NewObjectId("recordSets", recordSets), location |-> ref[p],
                                               type |-> req[p].rtype, by |-> req[p].user]}
          /\ Written(p)
    /\ UNCHANGED <<zones, locations, moved>>

UpdateRecordSetRow(p) ==
    /\ At(p, "updateRecordSet")
    /\ recordSets' = {IF r.id = ref[p] THEN [r EXCEPT !.by = req[p].user] ELSE r : r \in recordSets}
    /\ Written(p)
    /\ UNCHANGED <<zones, locations, moved>>

DeleteRecordSetRow(p) ==
    /\ At(p, "deleteRecordSet")
    /\ IF ref[p] \in IdsOf(recordSets)
       THEN recordSets' = {r \in recordSets : r.id # ref[p]} /\ Written(p)
       ELSE Answer(p, Statement(p).none) /\ UNCHANGED recordSets
    /\ UNCHANGED <<zones, locations, moved>>

WriteZoneData(p) ==
    /\ \/ InsertZone(p) \/ UpdateZoneRow(p) \/ DeleteZoneRow(p)
       \/ InsertLocation(p) \/ UpdateLocationRow(p) \/ DeleteLocationRow(p)
       \/ InsertRecordSet(p) \/ UpdateRecordSetRow(p) \/ DeleteRecordSetRow(p)
    /\ UNCHANGED accounts

(***************************************************************************)
(* The statements that write accounts, the stream of codes and the login.  *)
(***************************************************************************)
InsertUser(p) ==
    /\ At(p, "insertUser")
    /\ IF users[req[p].user] = "none"
       THEN users' = [users EXCEPT ![req[p].user] = "pending"] /\ Written(p)
       ELSE Answer(p, "duplicate") /\ UNCHANGED users
    /\ UNCHANGED <<codes, mailed, tokens>>

InsertCode(p) ==
    /\ At(p, "insertCode")
    /\ codes' = codes \union {req[p].user}
    /\ Written(p)
    /\ UNCHANGED <<users, mailed, tokens>>

SendCode(p) ==
    /\ At(p, "sendCode")
    /\ mailed' = mailed \union {req[p].user}
    /\ Written(p)
    /\ UNCHANGED <<users, codes, tokens>>

ActivateUser(p) ==
    /\ At(p, "activate")
    /\ users' = [users EXCEPT ![req[p].user] = "active"]
    /\ Written(p)
    /\ UNCHANGED <<codes, mailed, tokens>>

DeleteCode(p) ==
    /\ At(p, "deleteCode")
    /\ codes' = codes \ {req[p].user}
    /\ Written(p)
    /\ UNCHANGED <<users, mailed, tokens>>

\* login selects the user, checks the status it has read, and gives a token.
Authenticate(p) ==
    /\ At(p, "authenticate")
    /\ IF users[req[p].user] = "active"
       THEN tokens' = tokens \union {req[p].user} /\ Found(p, NoId)
       ELSE Answer(p, "unauthorized") /\ UNCHANGED tokens
    /\ UNCHANGED <<users, codes, mailed>>

WriteAccount(p) ==
    /\ \/ InsertUser(p) \/ InsertCode(p) \/ SendCode(p)
       \/ ActivateUser(p) \/ DeleteCode(p) \/ Authenticate(p)
    /\ UNCHANGED <<data, moved>>

(***************************************************************************)
(* A request begins, and is answered.                                      *)
(***************************************************************************)
Start(p) ==
    /\ req[p] = NoRequest
    /\ \E r \in Requests :
          /\ \/ r \in AccountRequests
             \/ r.op \in Ops[p] /\ r.user \in Speaks[p] /\ Waiting \subseteq tokens
          /\ req' = [req EXCEPT ![p] = r]
    /\ pc' = [pc EXCEPT ![p] = 1]
    /\ UNCHANGED <<accounts, data, ref, ans, moved>>

\* A statement fails and was not executed.  Authenticator does not tell a user that
\* it could not read from a wrong password: "denied" is the code 401 as well,
\* "unauthorized" to the client.
StatementFails(p) ==
    /\ Running(p)
    /\ Answer(p, IF At(p, "authenticate") THEN "denied" ELSE "internal")
    /\ UNCHANGED <<accounts, data, moved>>

Respond(p) ==
    /\ ans[p] # "none"
    /\ req' = [req EXCEPT ![p] = NoRequest]
    /\ ans' = [ans EXCEPT ![p] = "none"]
    /\ moved' = [moved EXCEPT ![p] = FALSE]
    /\ UNCHANGED <<accounts, data, pc, ref>>

(***************************************************************************)
(* What a request asks for, as one step: whether the tables, as they are,  *)
(* let it succeed.                                                         *)
(***************************************************************************)
Owned(q) == \E z \in ZoneNamed(q.zone) : z.owner = q.user
LocationsOf(q) ==
    {l \in locations : l.name = q.location /\ l.zone \in IdsOf(ZoneNamed(q.zone))}
RecordSetsOf(q) ==
    {r \in recordSets : r.type = q.rtype /\ r.location \in IdsOf(LocationsOf(q))}

Granted(q) ==
    CASE q.op = "signup" -> users[q.user] = "none"
      [] q.op = "verify" -> q.user \in codes
      [] q.op = "login" -> users[q.user] = "active"
      [] q.op = "getZones" -> TRUE
      [] q.op = "addZone" -> ZoneNamed(q.zone) = {}
      [] q.op \in {"getZone", "updateZone", "deleteZone", "getLocations"} -> Owned(q)
      [] q.op = "addLocation" -> Owned(q) /\ LocationsOf(q) = {}
      [] q.op \in {"getLocation", "updateLocation", "deleteLocation", "getRecordSets"} ->
            Owned(q) /\ LocationsOf(q) # {}
      [] q.op = "addRecordSet" ->
            /\ Owned(q) /\ q.rtype \in SupportedTypes
            /\ LocationsOf(q) # {} /\ RecordSetsOf(q) = {}
      [] q.op \in {"getRecordSet", "updateRecordSet", "deleteRecordSet"} ->
            Owned(q) /\ RecordSetsOf(q) # {}

WouldSucceed(p) == Granted(req[p])

\* seen collects, for a request that runs, what it would have been told.
Watch ==
    seen' = [p \in Clients |->
                IF req'[p] = NoRequest \/ moved'[p] THEN {}
                ELSE IF pc'[p] > 0 THEN seen[p] \union {WouldSucceed(p)'}
                ELSE seen[p]]

Next ==
    /\ \E p \in Clients :
          Start(p) \/ Read(p) \/ WriteZoneData(p) \/ WriteAccount(p) \/ StatementFails(p) \/ Respond(p)
    /\ Watch

Spec == Init /\ [][Next]_vars

(***************************************************************************)
(* Properties.                                                             *)
(***************************************************************************)
IsTable(rows, fields) ==
    \A r \in rows : DOMAIN r = fields /\ r.id[2] \in Ids /\ \A s \in rows : r.id = s.id => r = s
Answers ==
    {"none", "ok", "notFound", "invalid", "duplicate", "unauthorized", "denied", "internal"}

\* The type invariant of the tables and the requests.  Ids are keys, the names
\* in a zone and the types at a location are unique, and no row refers to one
\* that is gone, whatever requests run at the same time: schema.sql and the
\* deletes of db.go.
TypeOK ==
    /\ users \in [Emails -> {"none", "pending", "active"}]
    /\ codes \subseteq Emails /\ mailed \subseteq Emails /\ tokens \subseteq Emails
    /\ IsTable(zones, {"id", "name", "owner", "by"})
    /\ IsTable(locations, {"id", "zone", "name", "by"})
    /\ IsTable(recordSets, {"id", "location", "type", "by"})
    /\ \A x, y \in zones : x.name = y.name => x = y
    /\ \A x, y \in locations : x.zone = y.zone /\ x.name = y.name => x = y
    /\ \A x, y \in recordSets : x.location = y.location /\ x.type = y.type => x = y
    /\ \A z \in zones : users[z.owner] = "active"
    /\ \A l \in locations : l.zone \in IdsOf(zones)
    /\ \A r \in recordSets : r.location \in IdsOf(locations)
    /\ ans \in [Clients -> Answers]

\* An answer is true of some moment while the request ran: what it is granted
\* could have been granted, and what it is refused could have been refused, in
\* one step at that moment, although db.go decides in up to twelve statements.
\* Two cases are excepted because there the code does answer what was true of no
\* moment: a statement that failed, after which "internal" tells nothing and a login
\* is refused to an active user with the right password; and a zone that was
\* deleted, and perhaps added by another user, while the request ran.
AnswerOfAMoment ==
    \A p \in Clients :
        ans[p] \notin {"none", "internal", "denied"} /\ ~moved[p] => (ans[p] = "ok") \in seen[p]

\* The zones whose rows, or whose locations' or record sets' rows, change.
Differ(s, t) == (s \ t) \union (t \ s)
TouchedZones ==
    LET ls == locations \union locations'
        changed == Differ(locations, locations')
                   \union {l \in ls : \E r \in Differ(recordSets, recordSets') : r.location = l.id}
    IN Differ(zones, zones') \union {z \in zones \union zones' : \E l \in changed : l.zone = z.id}

\* A statement changes rows of the zones of its user alone, though it finds
\* them by an id or a name that was checked statements ago: isZoneOwner.  Only a
\* zone that was deleted while the request ran can have passed to another.
OwnRowsOnly ==
    [][\A p \in Clients :
        Running(p) /\ pc'[p] # pc[p] /\ ~moved[p] =>
            \A z \in TouchedZones : z.owner = req[p].user]_vars

\* Whatever signups, verifications and failures overlap, only an account whose
\* code was sent is ever given a token, and a code that was sent works until it
\* has activated its account, so that a verification that fails can be repeated:
\* signup, Verify, which deletes the code last, and Authenticator.
CodesWork ==
    /\ tokens \subseteq mailed
    /\ \A e \in mailed : users[e] = "pending" => e \in codes
=============================================================================
