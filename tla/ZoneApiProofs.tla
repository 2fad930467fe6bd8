---------------------------- MODULE ZoneApiProofs ----------------------------
(***************************************************************************)
(* Proofs about the API, for any number of clients, users, zones and rows: *)
(* the tables stay consistent, codes work, a request changes the rows of   *)
(* its user's zones alone, and its answer is true of a moment.             *)
(***************************************************************************)
EXTENDS ZoneApi, WellFoundedInduction, TLAPS

(***************************************************************************)
(* The statements of a program follow each other.                          *)
(***************************************************************************)
AccountStatements == {"insertUser", "insertCode", "sendCode", "code", "activate", "deleteCode",
                      "authenticate"}
ZoneStatements == {"owner", "nameTaken", "zone", "location", "recordSet", "rtype",
                   "insertZone", "updateZone", "deleteZone",
                   "insertLocation", "updateLocation", "deleteLocation",
                   "insertRecordSet", "updateRecordSet", "deleteRecordSet"}
Errors == {"internal", "invalid", "notFound"}
Statements ==
    [do : AccountStatements \union ZoneStatements \union {"user", "list"}, none : Errors]

\* A statement that uses what the one before has found.
Follows(d, before) ==
    /\ d \in {"zone", "deleteZone"} => before = "owner"
    /\ d \in {"location", "updateZone", "insertLocation"} => before = "zone"
    /\ d \in {"recordSet", "updateLocation", "deleteLocation", "insertRecordSet"} => before = "location"
    /\ d \in {"updateRecordSet", "deleteRecordSet"} => before = "recordSet"
    /\ d = "insertCode" => before = "user"
    /\ d = "sendCode" => before = "insertCode"
    /\ d = "deleteCode" => before = "activate"

\* The statements s, from head to last, are these.
Chain(s, head, last, these) ==
    /\ s \in Seq(Statements) /\ Len(s) > 0
    /\ s[1].do = head /\ s[Len(s)].do = last
    /\ \A i \in 1..Len(s) : s[i].do \in these
    /\ \A d \in these : \E i \in 1..Len(s) : s[i].do = d
    /\ \A i \in 2..Len(s) : Follows(s[i].do, s[i - 1].do)

\* One statement.
LEMMA OneStatement ==
    ASSUME NEW d, NEW e \in Errors,
           d \in AccountStatements \union ZoneStatements \union {"user", "list"}
    PROVE  Chain(Find(d, e), d, d, {d}) /\ Chain(Do(d), d, d, {d})
<1>1. PICK x : x = [do |-> d, none |-> e]
  OBVIOUS
<1>2. PICK y : y = [do |-> d, none |-> "internal"]
  OBVIOUS
<1>3. x \in Statements /\ y \in Statements /\ x.do = d /\ y.do = d
  BY <1>1, <1>2 DEF Statements, Errors
<1>4. Find(d, e) = <<x>> /\ Do(d) = <<y>>
  BY <1>1, <1>2 DEF Find, Do
<1>5. /\ <<x>> \in Seq(Statements) /\ Len(<<x>>) = 1 /\ <<x>>[1] = x
      /\ <<y>> \in Seq(Statements) /\ Len(<<y>>) = 1 /\ <<y>>[1] = y
  BY <1>3
<1>6. Chain(<<x>>, d, d, {d})
  BY <1>3, <1>5 DEF Chain
<1>7. Chain(<<y>>, d, d, {d})
  BY <1>3, <1>5 DEF Chain
<1> QED BY <1>4, <1>6, <1>7

\* Statements after statements.
LEMMA Joined ==
    ASSUME NEW s, NEW t, NEW h, NEW l, NEW g, NEW m, NEW these, NEW those,
           Chain(s, h, l, these), Chain(t, g, m, those), Follows(g, l)
    PROVE  Chain(s \o t, h, m, these \union those)
<1>1. PICK a, b, c : a = Len(s) /\ b = Len(t) /\ c = s \o t
  OBVIOUS
<1>2. /\ a \in Nat /\ b \in Nat /\ a > 0 /\ b > 0
      /\ c \in Seq(Statements) /\ Len(c) = a + b
      /\ \A i \in 1..a : c[i] = s[i]
      /\ \A i \in 1..b : c[a + i] = t[i]
  BY <1>1 DEF Chain
<1>3. c[1] = s[1] /\ c[a + b] = t[b] /\ c[a] = s[a] /\ c[a + 1] = t[1]
  BY <1>2
<1>4. \A i \in 1..(a + b) : i <= a \/ \E j \in 1..b : i = a + j
  <2> SUFFICES ASSUME NEW i \in 1..(a + b), i > a PROVE \E j \in 1..b : i = a + j
    BY <1>2
  <2>1. i - a \in 1..b /\ i = a + (i - a)
    BY <1>2
  <2> QED BY <2>1
<1>5. \A i \in 1..(a + b) : c[i].do \in these \union those
  <2> SUFFICES ASSUME NEW i \in 1..(a + b) PROVE c[i].do \in these \union those
    OBVIOUS
  <2>1. CASE i <= a
    BY <1>1, <1>2, <2>1 DEF Chain
  <2>2. CASE \E j \in 1..b : i = a + j
    BY <1>1, <1>2, <2>2 DEF Chain
  <2> QED BY <1>4, <2>1, <2>2
<1>6. \A d \in these \union those : \E i \in 1..(a + b) : c[i].do = d
  <2>1. ASSUME NEW d \in these PROVE \E i \in 1..(a + b) : c[i].do = d
    <3>1. PICK i \in 1..a : s[i].do = d
      BY <1>1 DEF Chain
    <3> QED BY <1>2, <3>1
  <2>2. ASSUME NEW d \in those PROVE \E i \in 1..(a + b) : c[i].do = d
    <3>1. PICK i \in 1..b : t[i].do = d
      BY <1>1 DEF Chain
    <3>2. a + i \in 1..(a + b)
      BY <1>2
    <3> QED BY <1>2, <3>1, <3>2
  <2> QED BY <2>1, <2>2
<1>7. ASSUME NEW i \in 2..(a + b) PROVE Follows(c[i].do, c[i - 1].do)
  <2>1. CASE i <= a
    <3>1. c[i] = s[i] /\ c[i - 1] = s[i - 1] /\ i \in 2..a
      BY <1>2, <2>1
    <3> QED BY <1>1, <3>1 DEF Chain
  <2>2. CASE i = a + 1
    <3>1. i - 1 = a
      BY <1>2, <2>2
    <3> QED BY <1>1, <1>3, <2>2, <3>1 DEF Chain
  <2>3. CASE i > a + 1
    <3>1. PICK j \in 2..b : i = a + j /\ i - 1 = a + (j - 1) /\ j - 1 \in 1..b /\ j \in 1..b
      <4>1. /\ i - a \in 2..b /\ i = a + (i - a) /\ i - 1 = a + ((i - a) - 1)
            /\ (i - a) - 1 \in 1..b /\ i - a \in 1..b
        BY <1>2, <2>3
      <4> QED BY <4>1
    <3>2. c[i] = t[j] /\ c[i - 1] = t[j - 1]
      BY <1>2, <3>1
    <3> QED BY <1>1, <3>1, <3>2 DEF Chain
  <2> QED BY <1>2, <2>1, <2>2, <2>3
<1>8. Chain(c, h, m, these \union those)
  <2>1. s[1].do = h /\ t[b].do = m
    BY <1>1 DEF Chain
  <2>2. Len(c) > 0 /\ c[1].do = h /\ c[Len(c)].do = m
    BY <1>2, <1>3, <2>1
  <2> QED BY <1>2, <1>5, <1>6, <1>7, <2>2 DEF Chain
<1> QED BY <1>1, <1>8

\* One more statement.
LEMMA Then ==
    ASSUME NEW s, NEW h, NEW l, NEW these, Chain(s, h, l, these), NEW d, NEW e \in Errors,
           d \in AccountStatements \union ZoneStatements \union {"user", "list"}, Follows(d, l)
    PROVE  /\ Chain(s \o Find(d, e), h, d, these \union {d})
           /\ Chain(s \o Do(d), h, d, these \union {d})
BY OneStatement, Joined

InZone == {"user", "owner", "zone"}
InLocation == InZone \union {"location"}
InRecordSet == InLocation \union {"rtype", "recordSet"}

\* The checks and the selects that most operations begin with.
LEMMA Selects ==
    ASSUME NEW e \in Errors
    PROVE  /\ Chain(isZoneOwner(e), "user", "owner", {"user", "owner"})
           /\ Chain(GetZone(e), "user", "zone", InZone)
           /\ Chain(GetLocation(e), "user", "location", InLocation)
           /\ Chain(GetRecordSet, "rtype", "recordSet", InRecordSet)
<1>1. {"user", "owner", "zone", "location", "recordSet", "rtype"}
          \subseteq AccountStatements \union ZoneStatements \union {"user", "list"}
  BY DEF ZoneStatements
<1>2. "internal" \in Errors /\ "invalid" \in Errors /\ "notFound" \in Errors
  BY DEF Errors
<1>3. /\ Follows("owner", "user") /\ Follows("zone", "owner") /\ Follows("user", "owner")
      /\ Follows("location", "zone") /\ Follows("user", "rtype") /\ Follows("recordSet", "location")
  BY DEF Follows
<1>4. \A x \in Errors : Chain(isZoneOwner(x), "user", "owner", {"user", "owner"})
  <2> SUFFICES ASSUME NEW x \in Errors
               PROVE  Chain(isZoneOwner(x), "user", "owner", {"user", "owner"})
    OBVIOUS
  <2>1. Chain(Find("user", "internal"), "user", "user", {"user"})
    BY <1>1, <1>2, OneStatement
  <2>2. Chain(isZoneOwner(x), "user", "owner", {"user"} \union {"owner"})
    BY <1>1, <1>3, <2>1, Then DEF isZoneOwner
  <2>3. {"user"} \union {"owner"} = {"user", "owner"}
    OBVIOUS
  <2> QED BY <2>2, <2>3
<1>5. \A x \in Errors : Chain(GetZone(x), "user", "zone", InZone)
  <2> SUFFICES ASSUME NEW x \in Errors PROVE Chain(GetZone(x), "user", "zone", InZone)
    OBVIOUS
  <2>1. Chain(GetZone(x), "user", "zone", {"user", "owner"} \union {"zone"})
    BY <1>1, <1>3, <1>4, Then DEF GetZone
  <2>2. {"user", "owner"} \union {"zone"} = InZone
    BY DEF InZone
  <2> QED BY <2>1, <2>2
<1>6. \A x \in Errors : Chain(GetLocation(x), "user", "location", InLocation)
  <2> SUFFICES ASSUME NEW x \in Errors PROVE Chain(GetLocation(x), "user", "location", InLocation)
    OBVIOUS
  <2>1. Chain(isZoneOwner("invalid") \o GetZone("invalid"), "user", "zone",
              {"user", "owner"} \union InZone)
    BY <1>2, <1>3, <1>4, <1>5, Joined
  <2>2. Chain(GetLocation(x), "user", "location", ({"user", "owner"} \union InZone) \union {"location"})
    BY <1>1, <1>3, <2>1, Then DEF GetLocation
  <2>3. ({"user", "owner"} \union InZone) \union {"location"} = InLocation
    BY DEF InZone, InLocation
  <2> QED BY <2>2, <2>3
<1>7. Chain(GetRecordSet, "rtype", "recordSet", InRecordSet)
  <2>1. Chain(Find("rtype", "invalid"), "rtype", "rtype", {"rtype"})
    BY <1>1, <1>2, OneStatement
  <2>2. Chain(Find("rtype", "invalid") \o isZoneOwner("invalid"), "rtype", "owner",
              {"rtype"} \union {"user", "owner"})
    BY <1>2, <1>3, <1>4, <2>1, Joined
  <2>3. Chain(Find("rtype", "invalid") \o isZoneOwner("invalid") \o GetLocation("invalid"),
              "rtype", "location", ({"rtype"} \union {"user", "owner"}) \union InLocation)
    BY <1>2, <1>3, <1>6, <2>2, Joined
  <2>4. Chain(GetRecordSet, "rtype", "recordSet",
              (({"rtype"} \union {"user", "owner"}) \union InLocation) \union {"recordSet"})
    BY <1>1, <1>2, <1>3, <2>3, Then DEF GetRecordSet
  <2>5. (({"rtype"} \union {"user", "owner"}) \union InLocation) \union {"recordSet"} = InRecordSet
    BY DEF InZone, InLocation, InRecordSet
  <2> QED BY <2>4, <2>5
<1> QED BY <1>4, <1>5, <1>6, <1>7

\* The statements of an operation.
StatementsOf(op) ==
    CASE op = "signup" -> {"insertUser", "user", "insertCode", "sendCode"}
      [] op = "verify" -> {"code", "activate", "deleteCode"}
      [] op = "login" -> {"authenticate"}
      [] op = "getZones" -> {"user", "list"}
      [] op = "addZone" -> {"user", "nameTaken", "insertZone"}
      [] op = "getZone" -> InZone
      [] op = "updateZone" -> InZone \union {"updateZone"}
      [] op = "deleteZone" -> {"user", "owner", "deleteZone"}
      [] op = "getLocations" -> InZone \union {"list"}
      [] op = "addLocation" -> InZone \union {"insertLocation"}
      [] op = "getLocation" -> InLocation
      [] op = "updateLocation" -> InLocation \union {"updateLocation"}
      [] op = "deleteLocation" -> InLocation \union {"deleteLocation"}
      [] op = "getRecordSets" -> InLocation \union {"list"}
      [] op = "addRecordSet" -> InLocation \union {"rtype", "insertRecordSet"}
      [] op = "getRecordSet" -> InRecordSet
      [] op = "updateRecordSet" -> InRecordSet \union {"updateRecordSet"}
      [] op = "deleteRecordSet" -> InRecordSet \union {"deleteRecordSet"}

\* An operation begins with a statement that does not follow another.
Begins == {"user", "rtype", "insertUser", "code", "authenticate"}

IsProgram(op) == \E head \in Begins : \E last : Chain(Program[op], head, last, StatementsOf(op))

\* The programs of the accounts' operations.
LEMMA AccountPrograms == \A op \in {"signup", "verify", "login"} : IsProgram(op)
<1>1. {"insertUser", "user", "insertCode", "sendCode", "code", "activate", "deleteCode", "authenticate"}
          \subseteq AccountStatements \union ZoneStatements \union {"user", "list"}
  BY DEF AccountStatements
<1>2. "internal" \in Errors
  BY DEF Errors
<1>3. /\ Follows("insertCode", "user") /\ Follows("sendCode", "insertCode") /\ Follows("user", "insertUser")
      /\ Follows("activate", "code") /\ Follows("deleteCode", "activate")
  BY DEF Follows
<1>4. \A d \in {"insertUser", "user", "code", "authenticate"} : Chain(Do(d), d, d, {d})
  BY <1>1, <1>2, OneStatement
<1>5. IsProgram("signup")
  <2>1. Chain(AddVerification, "user", "insertCode", {"user"} \union {"insertCode"})
    BY <1>1, <1>2, <1>3, <1>4, Then DEF AddVerification
  <2>2. Chain(AddUser \o AddVerification, "insertUser", "insertCode",
              {"insertUser"} \union ({"user"} \union {"insertCode"}))
    BY <1>3, <1>4, <2>1, Joined DEF AddUser
  <2>3. Chain(signup, "insertUser", "sendCode",
              ({"insertUser"} \union ({"user"} \union {"insertCode"})) \union {"sendCode"})
    BY <1>1, <1>2, <1>3, <2>2, Then DEF signup
  <2>4. ({"insertUser"} \union ({"user"} \union {"insertCode"})) \union {"sendCode"} = StatementsOf("signup")
    BY DEF StatementsOf
  <2> QED BY <2>3, <2>4 DEF IsProgram, Program, Begins
<1>6. IsProgram("verify")
  <2>1. Chain(Do("code") \o Do("activate"), "code", "activate", {"code"} \union {"activate"})
    BY <1>1, <1>2, <1>3, <1>4, Then
  <2>2. Chain(Verify, "code", "deleteCode", ({"code"} \union {"activate"}) \union {"deleteCode"})
    BY <1>1, <1>2, <1>3, <2>1, Then DEF Verify
  <2>3. ({"code"} \union {"activate"}) \union {"deleteCode"} = StatementsOf("verify")
    BY DEF StatementsOf
  <2> QED BY <2>2, <2>3 DEF IsProgram, Program, Begins
<1>7. IsProgram("login")
  BY <1>4 DEF login, StatementsOf, IsProgram, Program, Begins
<1> QED BY <1>5, <1>6, <1>7

\* The programs that find a row, and do one more statement with it.
LEMMA RowPrograms ==
    \A op \in {"getZones", "addZone", "getZone", "updateZone", "deleteZone", "getLocations",
               "addLocation", "getLocation", "updateLocation", "deleteLocation", "getRecordSets",
               "addRecordSet", "getRecordSet", "updateRecordSet", "deleteRecordSet"} : IsProgram(op)
<1>1. {"user", "list", "rtype", "nameTaken", "insertZone", "updateZone", "deleteZone",
       "insertLocation", "updateLocation", "deleteLocation",
       "insertRecordSet", "updateRecordSet", "deleteRecordSet"}
          \subseteq AccountStatements \union ZoneStatements \union {"user", "list"}
  BY DEF ZoneStatements
<1>2. "internal" \in Errors /\ "invalid" \in Errors /\ "notFound" \in Errors
  BY DEF Errors
<1>3. /\ \A d : Follows("user", d) /\ Follows("rtype", d) /\ Follows("list", d)
                /\ Follows("nameTaken", d) /\ Follows("insertZone", d)
      /\ Follows("updateZone", "zone") /\ Follows("deleteZone", "owner")
      /\ Follows("insertLocation", "zone") /\ Follows("updateLocation", "location")
      /\ Follows("deleteLocation", "location") /\ Follows("insertRecordSet", "location")
      /\ Follows("updateRecordSet", "recordSet") /\ Follows("deleteRecordSet", "recordSet")
  BY DEF Follows
<1>4. /\ \A x \in Errors :
            /\ Chain(isZoneOwner(x), "user", "owner", {"user", "owner"})
            /\ Chain(GetZone(x), "user", "zone", InZone)
            /\ Chain(GetLocation(x), "user", "location", InLocation)
      /\ Chain(GetRecordSet, "rtype", "recordSet", InRecordSet)
  BY <1>2, Selects
<1>5. "user" \in Begins /\ "rtype" \in Begins
  BY DEF Begins
<1>6. Chain(Find("user", "invalid"), "user", "user", {"user"})
  BY <1>1, <1>2, OneStatement
<1>7. IsProgram("getZones")
  <2>1. Chain(GetZones, "user", "list", {"user"} \union {"list"})
    BY <1>1, <1>2, <1>3, <1>6, Then DEF GetZones
  <2>2. {"user"} \union {"list"} = StatementsOf("getZones")
    BY DEF StatementsOf
  <2> QED BY <1>5, <2>1, <2>2 DEF IsProgram, Program
<1>8. IsProgram("addZone")
  <2>1. Chain(Find("user", "invalid") \o Do("nameTaken"), "user", "nameTaken", {"user"} \union {"nameTaken"})
    BY <1>1, <1>2, <1>3, <1>6, Then
  <2>2. Chain(AddZone, "user", "insertZone", ({"user"} \union {"nameTaken"}) \union {"insertZone"})
    BY <1>1, <1>2, <1>3, <2>1, Then DEF AddZone
  <2>3. ({"user"} \union {"nameTaken"}) \union {"insertZone"} = StatementsOf("addZone")
    BY DEF StatementsOf
  <2> QED BY <1>5, <2>2, <2>3 DEF IsProgram, Program
<1>9. IsProgram("getZone") /\ IsProgram("getLocation") /\ IsProgram("getRecordSet")
  <2>1. /\ StatementsOf("getZone") = InZone /\ StatementsOf("getLocation") = InLocation
        /\ StatementsOf("getRecordSet") = InRecordSet
    BY DEF StatementsOf
  <2> QED BY <1>2, <1>4, <1>5, <2>1 DEF IsProgram, Program
<1>10. IsProgram("deleteZone")
  <2>1. Chain(DeleteZone, "user", "deleteZone", {"user", "owner"} \union {"deleteZone"})
    BY <1>1, <1>2, <1>3, <1>4, Then DEF DeleteZone
  <2>2. {"user", "owner"} \union {"deleteZone"} = StatementsOf("deleteZone")
    BY DEF StatementsOf
  <2> QED BY <1>5, <2>1, <2>2 DEF IsProgram, Program
<1>11. IsProgram("updateZone") /\ IsProgram("getLocations") /\ IsProgram("addLocation")
  <2>1. \A x \in Errors : Chain(isZoneOwner(x) \o GetZone(x), "user", "zone", {"user", "owner"} \union InZone)
    BY <1>3, <1>4, Joined
  <2>2. {"user", "owner"} \union InZone = InZone
    BY DEF InZone
  <2>3. /\ Chain(UpdateZone, "user", "updateZone", InZone \union {"updateZone"})
        /\ Chain(GetLocations, "user", "list", InZone \union {"list"})
        /\ Chain(AddLocation, "user", "insertLocation", InZone \union {"insertLocation"})
    BY <1>1, <1>2, <1>3, <2>1, <2>2, Then DEF UpdateZone, GetLocations, AddLocation
  <2>4. /\ StatementsOf("updateZone") = InZone \union {"updateZone"}
        /\ StatementsOf("getLocations") = InZone \union {"list"}
        /\ StatementsOf("addLocation") = InZone \union {"insertLocation"}
    BY DEF StatementsOf
  <2> QED BY <1>5, <2>3, <2>4 DEF IsProgram, Program
<1>12. IsProgram("updateLocation") /\ IsProgram("deleteLocation") /\ IsProgram("getRecordSets")
  <2>1. \A x \in Errors : Chain(isZoneOwner("invalid") \o GetLocation(x), "user", "location",
                                {"user", "owner"} \union InLocation)
    BY <1>2, <1>3, <1>4, Joined
  <2>2. {"user", "owner"} \union InLocation = InLocation
    BY DEF InZone, InLocation
  <2>3. /\ Chain(UpdateLocation, "user", "updateLocation", InLocation \union {"updateLocation"})
        /\ Chain(DeleteLocation, "user", "deleteLocation", InLocation \union {"deleteLocation"})
        /\ Chain(GetRecordSets, "user", "list", InLocation \union {"list"})
    BY <1>1, <1>2, <1>3, <2>1, <2>2, Then DEF UpdateLocation, DeleteLocation, GetRecordSets
  <2>4. /\ StatementsOf("updateLocation") = InLocation \union {"updateLocation"}
        /\ StatementsOf("deleteLocation") = InLocation \union {"deleteLocation"}
        /\ StatementsOf("getRecordSets") = InLocation \union {"list"}
    BY DEF StatementsOf
  <2> QED BY <1>5, <2>3, <2>4 DEF IsProgram, Program
<1>13. IsProgram("addRecordSet")
  <2>1. Chain(isZoneOwner("invalid") \o Find("rtype", "invalid"), "user", "rtype",
              {"user", "owner"} \union {"rtype"})
    BY <1>1, <1>2, <1>3, <1>4, Then
  <2>2. Chain(isZoneOwner("invalid") \o Find("rtype", "invalid") \o GetLocation("invalid"),
              "user", "location", ({"user", "owner"} \union {"rtype"}) \union InLocation)
    BY <1>2, <1>3, <1>4, <2>1, Joined
  <2>3. Chain(AddRecordSet, "user", "insertRecordSet",
              (({"user", "owner"} \union {"rtype"}) \union InLocation) \union {"insertRecordSet"})
    BY <1>1, <1>2, <1>3, <2>2, Then DEF AddRecordSet
  <2>4. (({"user", "owner"} \union {"rtype"}) \union InLocation) \union {"insertRecordSet"}
            = StatementsOf("addRecordSet")
    BY DEF StatementsOf, InLocation, InZone
  <2> QED BY <1>5, <2>3, <2>4 DEF IsProgram, Program
<1>14. IsProgram("updateRecordSet") /\ IsProgram("deleteRecordSet")
  <2>1. Chain(Find("rtype", "invalid"), "rtype", "rtype", {"rtype"})
    BY <1>1, <1>2, OneStatement
  <2>2. Chain(Find("rtype", "invalid") \o isZoneOwner("invalid"), "rtype", "owner",
              {"rtype"} \union {"user", "owner"})
    BY <1>2, <1>3, <1>4, <2>1, Joined
  <2>3. Chain(Find("rtype", "invalid") \o isZoneOwner("invalid") \o GetRecordSet, "rtype", "recordSet",
              ({"rtype"} \union {"user", "owner"}) \union InRecordSet)
    BY <1>3, <1>4, <2>2, Joined
  <2>4. ({"rtype"} \union {"user", "owner"}) \union InRecordSet = InRecordSet
    BY DEF InRecordSet, InLocation, InZone
  <2>5. /\ Chain(UpdateRecordSet, "rtype", "updateRecordSet", InRecordSet \union {"updateRecordSet"})
        /\ Chain(DeleteRecordSet, "rtype", "deleteRecordSet", InRecordSet \union {"deleteRecordSet"})
    BY <1>1, <1>2, <1>3, <2>3, <2>4, Then DEF UpdateRecordSet, DeleteRecordSet
  <2>6. /\ StatementsOf("updateRecordSet") = InRecordSet \union {"updateRecordSet"}
        /\ StatementsOf("deleteRecordSet") = InRecordSet \union {"deleteRecordSet"}
    BY DEF StatementsOf
  <2> QED BY <1>5, <2>5, <2>6 DEF IsProgram, Program
<1> QED BY <1>7, <1>8, <1>9, <1>10, <1>11, <1>12, <1>13, <1>14

\* The program of every operation is such a sequence.
LEMMA Programs ==
    ASSUME NEW op \in DOMAIN Program
    PROVE  IsProgram(op)
BY AccountPrograms, RowPrograms DEF Program

(***************************************************************************)
(* What a request knows when a statement has succeeded.                    *)
(***************************************************************************)
Before(p) == Program[req[p].op][pc[p] - 1].do

KnownAccount(p) ==
    pc[p] > 1 =>
        /\ Before(p) \in {"user", "insertUser", "insertCode"} => users[req[p].user] # "none"
        /\ Before(p) = "insertCode" /\ users[req[p].user] = "pending" => req[p].user \in codes
        /\ Before(p) = "activate" => users[req[p].user] = "active"

Mine(p) ==
    /\ ZoneNamed(req[p].zone) # {}
    /\ \A z \in ZoneNamed(req[p].zone) : z.owner = req[p].user
InMine(p, id) == \E z \in ZoneNamed(req[p].zone) : z.id = id

\* As long as its zone was not deleted, the zone is the user's, and the row that
\* was selected, if it is still there, belongs to it.
KnownZone(p) ==
    pc[p] > 1 /\ ~moved[p] =>
        /\ Before(p) \in {"owner", "zone", "location", "recordSet"} => Mine(p)
        /\ Before(p) = "zone" => InMine(p, ref[p])
        /\ Before(p) = "location" => \A l \in locations : l.id = ref[p] => InMine(p, l.zone)
        /\ Before(p) = "recordSet" =>
              \A r \in recordSets : r.id = ref[p] =>
                  \E l \in locations : l.id = r.location /\ InMine(p, l.zone)

ControlOK ==
    /\ DOMAIN req = Clients /\ pc \in [Clients -> Nat] /\ DOMAIN ref = Clients
    /\ ans \in [Clients -> Answers] /\ moved \in [Clients -> BOOLEAN]

\* A request that runs is at a statement of its program, and has no answer yet.
Served(p) ==
    \/ req[p] = NoRequest /\ pc[p] = 0 /\ ans[p] = "none"
    \/ /\ req[p] \in Requests /\ pc[p] \in 0..Len(Program[req[p].op])
       /\ pc[p] > 0 => ans[p] = "none"

TablesOK ==
    /\ IsTable(zones, {"id", "name", "owner", "by"})
    /\ IsTable(locations, {"id", "zone", "name", "by"})
    /\ IsTable(recordSets, {"id", "location", "type", "by"})
    /\ \A x, y \in zones : x.name = y.name => x = y
    /\ \A x, y \in locations : x.zone = y.zone /\ x.name = y.name => x = y
    /\ \A x, y \in recordSets : x.location = y.location /\ x.type = y.type => x = y
    /\ \A z \in zones : z.owner \in tokens
    /\ \A l \in locations : l.zone \in IdsOf(zones)
    /\ \A r \in recordSets : r.location \in IdsOf(locations)

\* A code is sent to an account that was made and has one, and no account is
\* active, or has a token, without it.
AccountsOK ==
    /\ users \in [Emails -> {"none", "pending", "active"}]
    /\ codes \subseteq Emails /\ mailed \subseteq Emails /\ tokens \subseteq Emails
    /\ \A e \in tokens : users[e] = "active"
    /\ \A e \in Emails : users[e] = "active" => e \in mailed
    /\ \A e \in mailed : users[e] # "none" /\ (users[e] = "pending" => e \in codes)

\* The inductive invariant.
ApiInv ==
    /\ ControlOK /\ TablesOK /\ AccountsOK
    /\ \A p \in Clients : Served(p) /\ KnownAccount(p) /\ KnownZone(p)

\* The inductive invariant holds at first.
LEMMA ApiInvInit == Init => ApiInv
<1> SUFFICES ASSUME Init PROVE ApiInv
  OBVIOUS
<1>1. ControlOK
  BY DEF Init, ControlOK, Answers
<1>2. TablesOK
  BY DEF Init, TablesOK, IsTable
<1>3. AccountsOK
  BY ApiAssumption DEF Init, AccountsOK
<1>4. \A p \in Clients : req[p] = NoRequest /\ pc[p] = 0 /\ ans[p] = "none"
  BY DEF Init
<1> QED BY <1>1, <1>2, <1>3, <1>4 DEF ApiInv, Served, KnownAccount, KnownZone

\* Who asks for what.
LEMMA Asked ==
    ASSUME NEW r \in Requests, mailed \subseteq Emails, tokens \subseteq Emails
    PROVE  /\ r.op \in DOMAIN Program /\ r.user \in Emails
           /\ r.op = "verify" => r.user \in mailed
           /\ r.op \notin {"signup", "verify", "login", "getZones"} =>
                 "zone" \in DOMAIN r /\ r.user \in tokens
<1>1. CASE r \in AccountRequests
  BY <1>1 DEF AccountRequests, Program
<1>2. CASE r \in ZoneRequests
  BY <1>2 DEF ZoneRequests, Program
<1>3. CASE r \in LocationRequests
  BY <1>3 DEF LocationRequests, Program
<1>4. CASE r \in RecordSetRequests
  BY <1>4 DEF RecordSetRequests, Program
<1> QED BY <1>1, <1>2, <1>3, <1>4 DEF Requests

\* A request stays one: codes and tokens are not taken back.
LEMMA StillAsked ==
    ASSUME tokens \subseteq tokens', mailed \subseteq mailed'
    PROVE  Requests \subseteq Requests'
<1>1. AccountRequests \subseteq AccountRequests'
  BY DEF AccountRequests
<1>2. ZoneRequests \subseteq ZoneRequests'
  BY DEF ZoneRequests
<1>3. LocationRequests \subseteq LocationRequests'
  BY DEF LocationRequests
<1>4. RecordSetRequests \subseteq RecordSetRequests'
  BY DEF RecordSetRequests
<1> QED BY <1>1, <1>2, <1>3, <1>4 DEF Requests

\* The statement that a request is at, and the one before.
LEMMA AtStatement ==
    ASSUME ApiInv, NEW p \in Clients, Running(p)
    PROVE  /\ req[p] \in Requests /\ pc[p] \in 1..Len(Program[req[p].op])
           /\ req[p].op \in DOMAIN Program /\ req[p].user \in Emails
           /\ Statement(p) \in Statements
           /\ Statement(p).do \notin Begins => pc[p] > 1
           /\ pc[p] > 1 => Follows(Statement(p).do, Before(p))
           /\ Statement(p).do \in ZoneStatements => "zone" \in DOMAIN req[p] /\ req[p].user \in tokens
           /\ Statement(p).do \in {"code", "activate", "deleteCode"} => req[p].user \in mailed
           /\ pc[p] > 1 /\ Before(p) \in ZoneStatements => "zone" \in DOMAIN req[p]
           /\ ans[p] = "none"
<1>1. pc[p] \in Nat /\ pc[p] > 0
  BY DEF ApiInv, ControlOK, Running
<1>2. /\ req[p] \in Requests /\ pc[p] \in 1..Len(Program[req[p].op])
      /\ ans[p] = "none"
  BY <1>1 DEF ApiInv, Served
<1>3. /\ req[p].op \in DOMAIN Program /\ req[p].user \in Emails
      /\ req[p].op = "verify" => req[p].user \in mailed
      /\ req[p].op \notin {"signup", "verify", "login", "getZones"} =>
            "zone" \in DOMAIN req[p] /\ req[p].user \in tokens
  BY <1>2, Asked DEF ApiInv, AccountsOK
<1>4. PICK op, s, i : op = req[p].op /\ s = Program[op] /\ i = pc[p]
  OBVIOUS
<1>5. PICK head, last : head \in Begins /\ Chain(s, head, last, StatementsOf(op))
  <2>1. PICK head \in Begins : \E last : Chain(s, head, last, StatementsOf(op))
    BY <1>3, <1>4, Programs DEF IsProgram
  <2> QED BY <2>1
<1>6. /\ s[i] \in Statements /\ s[i].do \in StatementsOf(op) /\ s[1].do \in Begins
      /\ i > 1 => Follows(s[i].do, s[i - 1].do) /\ s[i - 1].do \in StatementsOf(op)
  <2>1. /\ s \in Seq(Statements) /\ s[1].do = head /\ head \in Begins
        /\ \A j \in 1..Len(s) : s[j].do \in StatementsOf(op)
        /\ \A j \in 2..Len(s) : Follows(s[j].do, s[j - 1].do)
    BY <1>5 DEF Chain
  <2>2. i \in 1..Len(s)
    BY <1>2, <1>4
  <2>3. s[i] \in Statements /\ s[i].do \in StatementsOf(op)
    BY <2>1, <2>2
  <2>4. i > 1 => i \in 2..Len(s) /\ i - 1 \in 1..Len(s)
    BY <2>2
  <2> QED BY <2>1, <2>3, <2>4
<1>7. \A d \in StatementsOf(op) :
          /\ d \in ZoneStatements => op \notin {"signup", "verify", "login", "getZones"}
          /\ d \in {"code", "activate", "deleteCode"} => op = "verify"
  BY <1>3, <1>4 DEF StatementsOf, ZoneStatements, InZone, InLocation, InRecordSet, Program
<1>8. Statement(p) = s[i] /\ (i > 1 => Before(p) = s[i - 1].do)
  BY <1>4 DEF Statement, Before
<1> QED BY <1>1, <1>2, <1>3, <1>4, <1>6, <1>7, <1>8

(***************************************************************************)
(* How a statement ends.                                                   *)
(***************************************************************************)
Advances(p, id) ==
    /\ req' = req /\ pc' \in [Clients -> Nat] /\ DOMAIN ref' = Clients
    /\ ans' \in [Clients -> Answers]
    /\ \A q \in Clients \ {p} : pc'[q] = pc[q] /\ ref'[q] = ref[q] /\ ans'[q] = ans[q]
    /\ \/ pc'[p] = 0
       \/ /\ pc'[p] = pc[p] + 1 /\ pc'[p] \in 1..Len(Program[req[p].op])
          /\ ref'[p] = id /\ ans'[p] = ans[p]

\* An answer ends the request.
LEMMA AnswerEnds ==
    ASSUME ApiInv, NEW p \in Clients, NEW a \in Answers, Answer(p, a), NEW id
    PROVE  Advances(p, id)
BY DEF ApiInv, ControlOK, Answer, Advances

\* A row that is found ends the request, or takes it to its next statement.
LEMMA FoundAdvances ==
    ASSUME ApiInv, NEW p \in Clients, Running(p), NEW id, Found(p, id)
    PROVE  Advances(p, id)
<1>1. CASE pc[p] = Len(Program[req[p].op])
  <2>1. "ok" \in Answers
    BY DEF Answers
  <2> QED BY <1>1, <2>1, AnswerEnds DEF Found
<1>2. CASE pc[p] # Len(Program[req[p].op])
  <2>1. /\ pc' = [pc EXCEPT ![p] = @ + 1] /\ ref' = [ref EXCEPT ![p] = id]
        /\ req' = req /\ ans' = ans
    BY <1>2 DEF Found
  <2>2. pc[p] \in 1..Len(Program[req[p].op]) /\ pc \in [Clients -> Nat] /\ DOMAIN ref = Clients
    BY AtStatement DEF ApiInv, ControlOK
  <2>3. /\ pc' \in [Clients -> Nat] /\ pc'[p] = pc[p] + 1 /\ DOMAIN ref' = Clients /\ ref'[p] = id
        /\ \A q \in Clients \ {p} : pc'[q] = pc[q] /\ ref'[q] = ref[q]
    BY <2>1, <2>2
  <2>4. pc'[p] \in 1..Len(Program[req[p].op])
    BY <1>2, <2>2, <2>3
  <2> QED BY <2>1, <2>3, <2>4 DEF Advances, ApiInv, ControlOK
<1> QED BY <1>1, <1>2

\* So does a write, whether or not its reply comes back.
LEMMA WrittenAdvances ==
    ASSUME ApiInv, NEW p \in Clients, Running(p), Written(p)
    PROVE  Advances(p, NoId)
<1>1. "internal" \in Answers
  BY DEF Answers
<1> QED BY <1>1, AnswerEnds, FoundAdvances DEF Written

\* The statement that a request was at is the one before the next.
LEMMA NowBefore ==
    ASSUME ApiInv, NEW p \in Clients, Running(p), NEW id, Advances(p, id), pc'[p] > 1
    PROVE  pc'[p] = pc[p] + 1 /\ Before(p)' = Statement(p).do /\ ref'[p] = id
<1>1. pc'[p] = pc[p] + 1 /\ req' = req /\ ref'[p] = id
  BY DEF Advances
<1>2. pc'[p] - 1 = pc[p]
  BY <1>1 DEF ApiInv, ControlOK
<1> QED BY <1>1, <1>2 DEF Before, Statement

\* What is left to show of a statement.
LEMMA StatementKeeps ==
    ASSUME ApiInv, NEW p \in Clients, Running(p), NEW id, Advances(p, id),
           moved' \in [Clients -> BOOLEAN], TablesOK', AccountsOK',
           tokens \subseteq tokens', mailed \subseteq mailed',
           \A q \in Clients : KnownAccount(q)' /\ KnownZone(q)'
    PROVE  ApiInv'
<1>1. ControlOK'
  BY DEF ApiInv, ControlOK, Advances
<1>2. Requests \subseteq Requests'
  BY StillAsked
<1>3. \A q \in Clients : Served(q)'
  <2> SUFFICES ASSUME NEW q \in Clients PROVE Served(q)'
    OBVIOUS
  <2>1. CASE q = p
    <3>1. req[p] \in Requests /\ pc[p] \in 1..Len(Program[req[p].op]) /\ ans[p] = "none"
      BY AtStatement
    <3>2. /\ pc'[p] \in 0..Len(Program[req[p].op]) /\ req' = req
          /\ pc'[p] > 0 => ans'[p] = "none"
      BY <3>1 DEF Advances
    <3> QED BY <1>2, <2>1, <3>1, <3>2 DEF Served
  <2>2. CASE q # p
    <3>1. pc'[q] = pc[q] /\ req'[q] = req[q] /\ ans'[q] = ans[q]
      BY <2>2 DEF Advances
    <3> QED BY <1>2, <3>1 DEF ApiInv, Served
  <2> QED BY <2>1, <2>2
<1> QED BY <1>1, <1>3 DEF ApiInv

(***************************************************************************)
(* What the other requests know is not disturbed.                          *)
(***************************************************************************)
AccountKept(e) ==
    /\ users[e] # "none" => users'[e] # "none"
    /\ users[e] = "active" => users'[e] = "active"
    /\ users[e] # "none" /\ users'[e] = "pending" => users[e] = "pending" /\ (e \in codes => e \in codes')

\* What another request knows of its account stays true.
LEMMA OthersKnowAccount ==
    ASSUME ApiInv, NEW q \in Clients, req'[q] = req[q], pc'[q] = pc[q],
           \A e \in Emails : AccountKept(e)
    PROVE  KnownAccount(q)'
<1> SUFFICES ASSUME pc[q] > 1 PROVE KnownAccount(q)'
  BY DEF KnownAccount
<1>1. Running(q)
  BY DEF Running, ApiInv, ControlOK
<1>2. req[q].user \in Emails
  BY <1>1, AtStatement
<1>3. Before(q)' = Before(q)
  BY DEF Before
<1> QED BY <1>2, <1>3 DEF KnownAccount, AccountKept, ApiInv

\* The zone that a request names is there before and after, or at neither time.
ZoneKept(q) ==
    ~moved'[q] => /\ ~moved[q]
                  /\ \A z \in zones : z.name = req[q].zone =>
                        \E y \in zones' : y.name = z.name /\ y.id = z.id /\ y.owner = z.owner
                  /\ ZoneNamed(req[q].zone) # {} =>
                        \A y \in zones' : y.name = req[q].zone =>
                            \E z \in zones : y.name = z.name /\ y.id = z.id /\ y.owner = z.owner

\* A row with the id that a request remembers is not a new one, and no location
\* moves to another zone.
RowsKept(q) ==
    /\ \A m \in locations', l \in locations : m.id = l.id => m.zone = l.zone
    /\ \A m \in locations' : m.id = ref[q] => \E l \in locations : m.id = l.id
    /\ \A s \in recordSets' : s.id = ref[q] =>
          \E r \in recordSets : s.id = r.id /\ s.location = r.location

\* And so does what it knows of its zone.
LEMMA OthersKnowZone ==
    ASSUME ApiInv, NEW q \in Clients, req'[q] = req[q], pc'[q] = pc[q], ref'[q] = ref[q],
           "zone" \in DOMAIN req[q] /\ Running(q) => ZoneKept(q), RowsKept(q), TablesOK'
    PROVE  KnownZone(q)'
<1> SUFFICES ASSUME pc[q] > 1, ~moved'[q] PROVE KnownZone(q)'
  BY DEF KnownZone
<1>1. Running(q)
  BY DEF Running, ApiInv, ControlOK
<1>2. Before(q)' = Before(q)
  BY DEF Before
<1>3. CASE Before(q) \notin {"owner", "zone", "location", "recordSet"}
  BY <1>2, <1>3 DEF KnownZone
<1>4. CASE Before(q) \in {"owner", "zone", "location", "recordSet"}
  <2>1. "zone" \in DOMAIN req[q]
    BY <1>1, <1>4, AtStatement DEF ZoneStatements
  <2>2. ZoneKept(q) /\ ~moved[q] /\ KnownZone(q)
    BY <1>1, <2>1 DEF ApiInv, ZoneKept
  <2>3. Mine(q)
    BY <1>4, <2>2 DEF KnownZone
  <2>4. Mine(q)'
    BY <2>2, <2>3 DEF Mine, ZoneNamed, ZoneKept
  <2>5. \A i : InMine(q, i) => \E y \in zones' : y.name = req[q].zone /\ y.id = i
    BY <2>2 DEF InMine, ZoneNamed, ZoneKept
  <2>6. CASE Before(q) = "owner"
    BY <1>2, <2>4, <2>6 DEF KnownZone
  <2>7. CASE Before(q) = "zone"
    <3>1. InMine(q, ref[q])
      BY <2>2, <2>7 DEF KnownZone
    <3>2. InMine(q, ref[q])'
      BY <2>5, <3>1 DEF InMine, ZoneNamed
    <3> QED BY <1>2, <2>4, <2>7, <3>2 DEF KnownZone
  <2>8. CASE Before(q) = "location"
    <3>1. \A l \in locations : l.id = ref[q] => InMine(q, l.zone)
      BY <2>2, <2>8 DEF KnownZone
    <3>2. ASSUME NEW m \in locations', m.id = ref[q]
          PROVE  \E y \in zones' : y.name = req[q].zone /\ y.id = m.zone
      BY <2>5, <3>1, <3>2 DEF RowsKept
    <3> QED BY <1>2, <2>4, <2>8, <3>2 DEF KnownZone, InMine, ZoneNamed
  <2>9. CASE Before(q) = "recordSet"
    <3>1. \A r \in recordSets : r.id = ref[q] => \E l \in locations : l.id = r.location /\ InMine(q, l.zone)
      BY <2>2, <2>9 DEF KnownZone
    <3>2. ASSUME NEW s \in recordSets', s.id = ref[q]
          PROVE  \E m \in locations' :
                    m.id = s.location /\ \E y \in zones' : y.name = req[q].zone /\ y.id = m.zone
      <4>1. PICK l \in locations : l.id = s.location /\ InMine(q, l.zone)
        BY <3>1, <3>2 DEF RowsKept
      <4>2. PICK m \in locations' : m.id = s.location
        BY DEF TablesOK, IdsOf
      <4> QED BY <2>5, <4>1, <4>2 DEF RowsKept
    <3> QED BY <1>2, <2>4, <2>9, <3>2 DEF KnownZone, InMine, ZoneNamed
  <2> QED BY <1>4, <2>6, <2>7, <2>8, <2>9
<1> QED BY <1>3, <1>4

\* What a request learns from a statement that it does not remember.
LEMMA Unremembered ==
    ASSUME ApiInv, NEW p \in Clients, Running(p), NEW id, Advances(p, id)
    PROVE  /\ Statement(p).do \notin {"user", "insertUser", "insertCode", "activate"} => KnownAccount(p)'
           /\ Statement(p).do \notin {"owner", "zone", "location", "recordSet"} => KnownZone(p)'
<1>1. CASE pc'[p] > 1
  <2>1. Before(p)' = Statement(p).do
    BY <1>1, NowBefore
  <2> QED BY <2>1 DEF KnownAccount, KnownZone
<1>2. CASE ~(pc'[p] > 1)
  BY <1>2 DEF KnownAccount, KnownZone
<1> QED BY <1>1, <1>2

(***************************************************************************)
(* The statements that read.                                               *)
(***************************************************************************)
\* What is left to show of a statement that reads.
LEMMA ReadKeeps ==
    ASSUME ApiInv, NEW p \in Clients, Running(p), NEW id, Advances(p, id),
           UNCHANGED <<accounts, data, moved>>, KnownAccount(p)', KnownZone(p)'
    PROVE  ApiInv'
<1>1. /\ users' = users /\ codes' = codes /\ mailed' = mailed /\ tokens' = tokens
      /\ zones' = zones /\ locations' = locations /\ recordSets' = recordSets /\ moved' = moved
  BY DEF accounts, data
<1>2. TablesOK' /\ AccountsOK' /\ moved' \in [Clients -> BOOLEAN]
  BY <1>1 DEF ApiInv, ControlOK, TablesOK, AccountsOK, IsTable, IdsOf
<1>3. ASSUME NEW q \in Clients \ {p} PROVE KnownAccount(q)' /\ KnownZone(q)'
  <2>1. req'[q] = req[q] /\ pc'[q] = pc[q] /\ ref'[q] = ref[q]
    BY DEF Advances
  <2>2. \A e \in Emails : AccountKept(e)
    BY <1>1 DEF AccountKept
  <2>3. ZoneKept(q)
    BY <1>1 DEF ZoneKept
  <2>4. RowsKept(q)
    BY <1>1 DEF RowsKept, ApiInv, TablesOK, IsTable
  <2> QED BY <1>1, <1>2, <2>1, <2>2, <2>3, <2>4, OthersKnowAccount, OthersKnowZone
<1> QED BY <1>1, <1>2, <1>3, StatementKeeps

\* The error that a statement ends with is an answer.
LEMMA ErrorEnds ==
    ASSUME ApiInv, NEW p \in Clients, Running(p), Answer(p, Statement(p).none), NEW id
    PROVE  Advances(p, id) /\ pc'[p] = 0
<1>1. Statement(p).none \in Answers
  BY AtStatement DEF Statements, Errors, Answers
<1>2. pc'[p] = 0
  BY DEF Answer, ApiInv, ControlOK
<1> QED BY <1>1, <1>2, AnswerEnds

\* A user that was found has an account.
LEMMA SelectUserKeeps ==
    ASSUME ApiInv, NEW p \in Clients, SelectUser(p), UNCHANGED <<accounts, data, moved>>
    PROVE  ApiInv'
<1>1. Running(p) /\ Statement(p).do = "user" /\ users' = users
  BY DEF SelectUser, At, accounts
<1>2. CASE users[req[p].user] # "none"
  <2>1. Advances(p, NoId)
    BY <1>1, <1>2, FoundAdvances DEF SelectUser
  <2>2. KnownZone(p)'
    BY <1>1, <2>1, Unremembered
  <2>3. KnownAccount(p)'
    <3>1. pc'[p] > 1 => Before(p)' = "user"
      BY <1>1, <2>1, NowBefore
    <3>2. req' = req
      BY <2>1 DEF Advances
    <3> QED BY <1>1, <1>2, <3>1, <3>2 DEF KnownAccount
  <2> QED BY <1>1, <2>1, <2>2, <2>3, ReadKeeps
<1>3. CASE users[req[p].user] = "none"
  <2>1. Advances(p, NoId) /\ pc'[p] = 0
    BY <1>1, <1>3, ErrorEnds DEF SelectUser
  <2>2. KnownAccount(p)' /\ KnownZone(p)'
    BY <2>1 DEF KnownAccount, KnownZone
  <2> QED BY <1>1, <2>1, <2>2, ReadKeeps
<1> QED BY <1>2, <1>3

\* A zone whose owner is the user's is the only one of its name.
LEMMA SelectOwnerKeeps ==
    ASSUME ApiInv, NEW p \in Clients, SelectOwner(p), UNCHANGED <<accounts, data, moved>>
    PROVE  ApiInv'
<1>1. Running(p) /\ Statement(p).do = "owner" /\ zones' = zones
  BY DEF SelectOwner, At, data
<1>2. "unauthorized" \in Answers
  BY DEF Answers
<1>3. \/ Answer(p, Statement(p).none)
      \/ Answer(p, "unauthorized")
      \/ (\E z \in ZoneNamed(req[p].zone) : z.owner = req[p].user) /\ Found(p, NoId)
  BY DEF SelectOwner
<1>4. CASE (\E z \in ZoneNamed(req[p].zone) : z.owner = req[p].user) /\ Found(p, NoId)
  <2>1. Advances(p, NoId)
    BY <1>1, <1>4, FoundAdvances
  <2>2. KnownAccount(p)'
    BY <1>1, <2>1, Unremembered
  <2>3. Mine(p)
    BY <1>4 DEF Mine, ZoneNamed, ApiInv, TablesOK
  <2>4. Mine(p)'
    <3>1. req' = req
      BY <2>1 DEF Advances
    <3> QED BY <1>1, <2>3, <3>1 DEF Mine, ZoneNamed
  <2>5. pc'[p] > 1 => Before(p)' = "owner"
    BY <1>1, <2>1, NowBefore
  <2>6. KnownZone(p)'
    BY <2>4, <2>5 DEF KnownZone
  <2> QED BY <1>1, <2>1, <2>2, <2>6, ReadKeeps
<1>5. CASE Answer(p, Statement(p).none) \/ Answer(p, "unauthorized")
  <2>1. Advances(p, NoId)
    BY <1>1, <1>2, <1>5, ErrorEnds, AnswerEnds
  <2>2. pc'[p] = 0
    BY <1>5 DEF Answer, ApiInv, ControlOK
  <2>3. KnownAccount(p)' /\ KnownZone(p)'
    BY <2>2 DEF KnownAccount, KnownZone
  <2> QED BY <1>1, <2>1, <2>3, ReadKeeps
<1> QED BY <1>3, <1>4, <1>5

\* The rows that a select finds, when it finds any.
LEMMA FirstRowAdvances ==
    ASSUME ApiInv, NEW p \in Clients, Running(p), NEW rows, FirstRow(p, rows)
    PROVE  \E id : /\ Advances(p, id)
                   /\ pc'[p] > 1 => \E r \in rows : r.id = id
<1>1. CASE rows = {} /\ Answer(p, Statement(p).none)
  <2>1. Advances(p, NoId) /\ pc'[p] = 0
    BY <1>1, ErrorEnds
  <2> QED BY <2>1
<1>2. CASE \E r \in rows : Found(p, r.id)
  <2>1. PICK r \in rows : Found(p, r.id)
    BY <1>2
  <2>2. PICK id : id = r.id
    OBVIOUS
  <2>3. Advances(p, id)
    BY <2>1, <2>2, FoundAdvances
  <2> QED BY <2>2, <2>3
<1> QED BY <1>1, <1>2 DEF FirstRow

\* The zone that is selected is the one that was checked.
LEMMA SelectZoneKeeps ==
    ASSUME ApiInv, NEW p \in Clients, SelectZone(p), UNCHANGED <<accounts, data, moved>>
    PROVE  ApiInv'
<1>1. Running(p) /\ Statement(p).do = "zone" /\ zones' = zones /\ moved' = moved
  BY DEF SelectZone, At, data
<1>2. PICK id : Advances(p, id) /\ (pc'[p] > 1 => \E z \in ZoneNamed(req[p].zone) : z.id = id)
  BY <1>1, FirstRowAdvances DEF SelectZone
<1>3. KnownAccount(p)'
  BY <1>1, <1>2, Unremembered
<1>4. KnownZone(p)'
  <2> SUFFICES ASSUME pc'[p] > 1, ~moved[p] PROVE KnownZone(p)'
    BY <1>1 DEF KnownZone
  <2>1. Before(p)' = "zone" /\ ref'[p] = id /\ req' = req
    BY <1>1, <1>2, NowBefore DEF Advances
  <2>2. pc[p] > 1 /\ Before(p) = "owner"
    BY <1>1, AtStatement DEF Begins, Follows
  <2>3. Mine(p)
    BY <2>2 DEF ApiInv, KnownZone
  <2>4. Mine(p)'
    BY <1>1, <2>1, <2>3 DEF Mine, ZoneNamed
  <2>5. InMine(p, ref[p])'
    BY <1>1, <1>2, <2>1 DEF InMine, ZoneNamed
  <2> QED BY <2>1, <2>4, <2>5 DEF KnownZone
<1> QED BY <1>1, <1>2, <1>3, <1>4, ReadKeeps

\* The location that is selected is in the zone that was.
LEMMA SelectLocationKeeps ==
    ASSUME ApiInv, NEW p \in Clients, SelectLocation(p), UNCHANGED <<accounts, data, moved>>
    PROVE  ApiInv'
<1>1. /\ Running(p) /\ Statement(p).do = "location"
      /\ zones' = zones /\ locations' = locations /\ moved' = moved
  BY DEF SelectLocation, At, data
<1>2. PICK id : /\ Advances(p, id)
                /\ pc'[p] > 1 =>
                      \E l \in {m \in locations : m.zone = ref[p] /\ m.name = req[p].location} : l.id = id
  BY <1>1, FirstRowAdvances DEF SelectLocation
<1>3. KnownAccount(p)'
  BY <1>1, <1>2, Unremembered
<1>4. KnownZone(p)'
  <2> SUFFICES ASSUME pc'[p] > 1, ~moved[p] PROVE KnownZone(p)'
    BY <1>1 DEF KnownZone
  <2>1. Before(p)' = "location" /\ ref'[p] = id /\ req' = req
    BY <1>1, <1>2, NowBefore DEF Advances
  <2>2. pc[p] > 1 /\ Before(p) = "zone"
    BY <1>1, AtStatement DEF Begins, Follows
  <2>3. Mine(p) /\ InMine(p, ref[p])
    BY <2>2 DEF ApiInv, KnownZone
  <2>4. Mine(p)'
    BY <1>1, <2>1, <2>3 DEF Mine, ZoneNamed
  <2>5. \A l \in locations : l.id = id => l.zone = ref[p]
    BY <1>2 DEF ApiInv, TablesOK, IsTable
  <2>6. \A l \in locations' : l.id = ref'[p] => InMine(p, l.zone)'
    BY <1>1, <2>1, <2>3, <2>5 DEF InMine, ZoneNamed
  <2> QED BY <2>1, <2>4, <2>6 DEF KnownZone
<1> QED BY <1>1, <1>2, <1>3, <1>4, ReadKeeps

\* The record set that is selected is at the location that was.
LEMMA SelectRecordSetKeeps ==
    ASSUME ApiInv, NEW p \in Clients, SelectRecordSet(p), UNCHANGED <<accounts, data, moved>>
    PROVE  ApiInv'
<1>1. /\ Running(p) /\ Statement(p).do = "recordSet" /\ recordSets' = recordSets
      /\ zones' = zones /\ locations' = locations /\ moved' = moved
  BY DEF SelectRecordSet, At, data
<1>2. PICK id : /\ Advances(p, id)
                /\ pc'[p] > 1 =>
                      \E r \in {s \in recordSets : s.location = ref[p] /\ s.type = req[p].rtype} : r.id = id
  BY <1>1, FirstRowAdvances DEF SelectRecordSet
<1>3. KnownAccount(p)'
  BY <1>1, <1>2, Unremembered
<1>4. KnownZone(p)'
  <2> SUFFICES ASSUME pc'[p] > 1, ~moved[p] PROVE KnownZone(p)'
    BY <1>1 DEF KnownZone
  <2>1. Before(p)' = "recordSet" /\ ref'[p] = id /\ req' = req
    BY <1>1, <1>2, NowBefore DEF Advances
  <2>2. pc[p] > 1 /\ Before(p) = "location"
    BY <1>1, AtStatement DEF Begins, Follows
  <2>3. Mine(p) /\ \A l \in locations : l.id = ref[p] => InMine(p, l.zone)
    BY <2>2 DEF ApiInv, KnownZone
  <2>4. Mine(p)'
    BY <1>1, <2>1, <2>3 DEF Mine, ZoneNamed
  <2>5. \A r \in recordSets : r.id = id => r.location = ref[p] /\ \E l \in locations : l.id = r.location
    BY <1>2 DEF ApiInv, TablesOK, IsTable, IdsOf
  <2>6. \A r \in recordSets : r.id = id => \E l \in locations : l.id = r.location /\ InMine(p, l.zone)
    BY <2>3, <2>5
  <2>7. \A i : InMine(p, i)' <=> InMine(p, i)
    BY <1>1, <2>1 DEF InMine, ZoneNamed
  <2>8. \A r \in recordSets' : r.id = ref'[p] => \E l \in locations' : l.id = r.location /\ InMine(p, l.zone)'
    BY <1>1, <2>1, <2>6, <2>7
  <2> QED BY <2>1, <2>4, <2>8 DEF KnownZone
<1> QED BY <1>1, <1>2, <1>3, <1>4, ReadKeeps

\* The other reads leave nothing that the request remembers.
LEMMA OtherReadsKeep ==
    ASSUME ApiInv, NEW p \in Clients, SelectTaken(p) \/ SelectList(p) \/ rtypeValid(p) \/ SelectCode(p),
           UNCHANGED <<accounts, data, moved>>
    PROVE  ApiInv'
<1>1. Running(p) /\ Statement(p).do \in {"nameTaken", "list", "rtype", "code"}
  BY DEF SelectTaken, SelectList, rtypeValid, SelectCode, At
<1>2. Found(p, NoId) \/ Answer(p, Statement(p).none) \/ \E a \in {"duplicate", "invalid"} : Answer(p, a)
  BY DEF SelectTaken, SelectList, rtypeValid, SelectCode
<1>3. "duplicate" \in Answers /\ "invalid" \in Answers
  BY DEF Answers
<1>4. Advances(p, NoId)
  BY <1>1, <1>2, <1>3, FoundAdvances, ErrorEnds, AnswerEnds
<1>5. KnownAccount(p)' /\ KnownZone(p)'
  BY <1>1, <1>4, Unremembered
<1> QED BY <1>1, <1>4, <1>5, ReadKeeps

(***************************************************************************)
(* The statements that write the tables of the zones.                      *)
(***************************************************************************)
Writers == {"insertZone", "updateZone", "deleteZone",
            "insertLocation", "updateLocation", "deleteLocation",
            "insertRecordSet", "updateRecordSet", "deleteRecordSet"}

\* What is left to show of a statement that writes the tables of the zones.
LEMMA WriteKeeps ==
    ASSUME ApiInv, NEW p \in Clients, Running(p), Statement(p).do \in Writers,
           Advances(p, NoId), UNCHANGED accounts, moved' \in [Clients -> BOOLEAN], TablesOK',
           \A q \in Clients \ {p} :
               ("zone" \in DOMAIN req[q] /\ Running(q) => ZoneKept(q)) /\ RowsKept(q)
    PROVE  ApiInv'
<1>1. users' = users /\ codes' = codes /\ mailed' = mailed /\ tokens' = tokens
  BY DEF accounts
<1>2. AccountsOK'
  BY <1>1 DEF ApiInv, AccountsOK
<1>3. KnownAccount(p)' /\ KnownZone(p)'
  BY Unremembered DEF Writers
<1>4. ASSUME NEW q \in Clients \ {p} PROVE KnownAccount(q)' /\ KnownZone(q)'
  <2>1. req'[q] = req[q] /\ pc'[q] = pc[q] /\ ref'[q] = ref[q]
    BY DEF Advances
  <2>2. \A e \in Emails : AccountKept(e)
    BY <1>1 DEF AccountKept
  <2> QED BY <2>1, <2>2, OthersKnowAccount, OthersKnowZone
<1> QED BY <1>1, <1>2, <1>3, <1>4, StatementKeeps

\* A statement that finds nothing to do.
LEMMA NothingWritten ==
    ASSUME ApiInv, NEW p \in Clients, Running(p), Statement(p).do \in Writers,
           Advances(p, NoId), UNCHANGED <<accounts, data, moved>>
    PROVE  ApiInv'
BY Unremembered, ReadKeeps DEF Writers

\* The id of a new row is not that of another row or of one that was there.
LEMMA NewId ==
    ASSUME NEW table, NEW rows, FreeIds(table, rows) # {}
    PROVE  /\ NewObjectId(table, rows)[2] \in Ids
           /\ NewObjectId(table, rows) \notin IdsOf(rows)
           /\ \A q \in Clients : ref[q] # NewObjectId(table, rows)
<1> DEFINE R == {ss \in Nat \X Nat : ss[1] < ss[2]}
<1>1. PICK free : free = FreeIds(table, rows)
  OBVIOUS
<1>2. free \subseteq Nat /\ free # {}
  BY <1>1, ApiAssumption DEF FreeIds
<1>3. IsWellFoundedOn(R, Nat)
  BY NatLessThanWellFounded DEF OpToRel
<1>4. PICK x \in free : \A y \in free : ~(<<y, x>> \in R)
  <2> HIDE DEF R
  <2> QED BY <1>2, <1>3, WFMin
<1>5. \A y \in free : x <= y
  <2> SUFFICES ASSUME NEW y \in free, y < x PROVE FALSE
    BY <1>2
  <2>1. <<y, x>> \in Nat \X Nat /\ <<y, x>>[1] = y /\ <<y, x>>[2] = x
    BY <1>2
  <2> QED BY <1>4, <2>1
<1>6. PICK i : i = CHOOSE j \in free : \A k \in free : j <= k
  OBVIOUS
<1>7. i \in free
  BY <1>5, <1>6
<1>8. NewObjectId(table, rows) = <<table, i>>
  BY <1>1, <1>6 DEF NewObjectId
<1> QED BY <1>1, <1>7, <1>8 DEF FreeIds

\* A row that is updated is the same but for what was written.
SameRow(n, r) ==
    /\ DOMAIN n = DOMAIN r
    /\ \A f \in DOMAIN r \ {"by"} : n[f] = r[f]

Updated(rows, which, u) == {IF r \in which THEN [r EXCEPT !.by = u] ELSE r : r \in rows}

\* An update leaves the keys of a table as they are.
LEMMA UpdatedRows ==
    ASSUME NEW rows, NEW fields, IsTable(rows, fields), "id" \in fields, NEW new, NEW which, NEW u,
           new = Updated(rows, which, u)
    PROVE  /\ IsTable(new, fields)
           /\ \A n \in new : \E r \in rows : SameRow(n, r)
           /\ \A r \in rows : \E n \in new : SameRow(n, r)
           /\ \A r \in rows \ which : r \in new
           /\ \A n \in new : n \in rows \/ \E r \in which \intersect rows : SameRow(n, r)
           /\ \A x, y \in new, r \in rows : SameRow(x, r) /\ SameRow(y, r) => x = y
<1>1. \A r \in rows : SameRow(r, r) /\ SameRow([r EXCEPT !.by = u], r)
  BY DEF SameRow
<1>2. \A r \in rows : DOMAIN r = fields /\ r.id[2] \in Ids /\ \A s \in rows : r.id = s.id => r = s
  BY DEF IsTable
<1>3. \A n \in new : \E r \in rows : n = (IF r \in which THEN [r EXCEPT !.by = u] ELSE r) /\ SameRow(n, r)
  BY <1>1 DEF Updated
<1>4. \A r \in rows : \E n \in new : n = (IF r \in which THEN [r EXCEPT !.by = u] ELSE r) /\ SameRow(n, r)
  BY <1>1 DEF Updated
<1>5. \A n, r : SameRow(n, r) /\ DOMAIN r = fields => n.id = r.id /\ DOMAIN n = fields
  BY DEF SameRow
<1>6. \A x, y \in new : x.id = y.id => x = y
  BY <1>2, <1>3, <1>5
<1>7. IsTable(new, fields)
  BY <1>2, <1>3, <1>5, <1>6 DEF IsTable
<1>8. \A n \in new : n \in rows \/ \E r \in which \intersect rows : SameRow(n, r)
  BY <1>3
<1>9. \A r \in rows \ which : r \in new
  BY DEF Updated
<1>10. \A x, y \in new, r \in rows : SameRow(x, r) /\ SameRow(y, r) => x = y
  BY <1>2, <1>5, <1>6
<1> QED BY <1>3, <1>4, <1>7, <1>8, <1>9, <1>10

\* The rows that a statement of p changes are those of zones of its user, if its
\* zone was not deleted.
OwnRows(p) == ~moved[p] => \A z \in TouchedZones : z.owner = req[p].user

\* What is touched when the zones change alone, when they do not, or when nothing
\* changes.
LEMMA Touched ==
    /\ UNCHANGED <<locations, recordSets>> => \A z \in TouchedZones : z \in Differ(zones, zones')
    /\ UNCHANGED zones => \A z \in TouchedZones :
          /\ z \in zones
          /\ \E l \in locations \union locations' :
                /\ l.zone = z.id
                /\ \/ l \in Differ(locations, locations')
                   \/ \E r \in Differ(recordSets, recordSets') : r.location = l.id
    /\ UNCHANGED data => TouchedZones = {}
<1>1. ASSUME UNCHANGED <<locations, recordSets>>
      PROVE  \A z \in TouchedZones : z \in Differ(zones, zones')
  BY <1>1 DEF TouchedZones, Differ
<1>2. ASSUME zones' = zones, NEW z \in TouchedZones
      PROVE  /\ z \in zones
             /\ \E l \in locations \union locations' :
                   /\ l.zone = z.id
                   /\ \/ l \in Differ(locations, locations')
                      \/ \E r \in Differ(recordSets, recordSets') : r.location = l.id
  <2>1. Differ(zones, zones') = {}
    BY <1>2 DEF Differ
  <2>2. Differ(locations, locations') \subseteq locations \union locations'
    BY DEF Differ
  <2> QED BY <1>2, <2>1, <2>2 DEF TouchedZones
<1>3. ASSUME UNCHANGED data PROVE TouchedZones = {}
  <2>1. /\ Differ(zones, zones') = {} /\ Differ(locations, locations') = {}
        /\ Differ(recordSets, recordSets') = {}
    BY <1>3 DEF Differ, data
  <2> QED BY <2>1 DEF TouchedZones
<1> QED BY <1>1, <1>2, <1>3

\* A zone in which a row is, is the user's.
LEMMA OwnZone ==
    ASSUME ApiInv, NEW p \in Clients, Mine(p), NEW z \in zones, InMine(p, z.id)
    PROVE  z.owner = req[p].user
BY DEF ApiInv, TablesOK, IsTable, Mine, InMine, ZoneNamed

\* A statement that finds nothing to do changes nothing.
LEMMA NothingTouched ==
    ASSUME ApiInv, NEW p \in Clients, Running(p), Statement(p).do \in Writers,
           Advances(p, NoId), UNCHANGED <<accounts, data, moved>>
    PROVE  ApiInv' /\ OwnRows(p)
<1>1. ApiInv'
  BY NothingWritten
<1>2. OwnRows(p)
  BY Touched DEF OwnRows
<1> QED BY <1>1, <1>2

\* A zone is added under a name that is free, with an id that is.
LEMMA InsertZoneKeeps ==
    ASSUME ApiInv, NEW p \in Clients, InsertZone(p), UNCHANGED accounts
    PROVE  ApiInv' /\ OwnRows(p)
<1>1. /\ Running(p) /\ Statement(p).do = "insertZone" /\ Statement(p).do \in Writers
      /\ locations' = locations /\ recordSets' = recordSets /\ moved' = moved
  BY DEF InsertZone, At, Writers
<1>2. CASE ZoneNamed(req[p].zone) = {}
  <2>1. PICK id : id = NewObjectId("zones", zones)
    OBVIOUS
  <2>2. PICK n : n = [id |-> id, name |-> req[p].zone, owner |-> req[p].user, by |-> req[p].user]
    OBVIOUS
  <2>3. zones' = zones \union {n} /\ FreeIds("zones", zones) # {} /\ Written(p)
    BY <1>2, <2>1, <2>2 DEF InsertZone
  <2>4. id[2] \in Ids /\ id \notin IdsOf(zones) /\ \A q \in Clients : ref[q] # id
    BY <2>1, <2>3, NewId
  <2>5. /\ DOMAIN n = {"id", "name", "owner", "by"} /\ n.id = id /\ n.name = req[p].zone
        /\ n.owner = req[p].user /\ n.owner \in tokens
    <3>1. req[p].user \in tokens
      BY <1>1, AtStatement DEF ZoneStatements
    <3> QED BY <2>2, <3>1
  <2>6. Advances(p, NoId)
    BY <1>1, <2>3, WrittenAdvances
  <2>7. TablesOK /\ \A z \in zones : z.name # req[p].zone /\ z.id # id
    BY <1>2, <2>4 DEF ApiInv, ZoneNamed, IdsOf
  <2>8. TablesOK'
    <3>1. IsTable(zones', {"id", "name", "owner", "by"})
      BY <2>3, <2>4, <2>5, <2>7 DEF TablesOK, IsTable
    <3>2. IsTable(locations', {"id", "zone", "name", "by"}) /\ IsTable(recordSets', {"id", "location", "type", "by"})
      BY <1>1, <2>7 DEF TablesOK
    <3>3. \A x, y \in zones' : x.name = y.name => x = y
      BY <2>3, <2>5, <2>7 DEF TablesOK
    <3>4. \A z \in zones' : z.owner \in tokens'
      BY <2>3, <2>5, <2>7 DEF TablesOK, accounts
    <3>5. \A l \in locations' : l.zone \in IdsOf(zones')
      BY <1>1, <2>3, <2>7 DEF TablesOK, IdsOf
    <3> QED BY <1>1, <2>7, <3>1, <3>2, <3>3, <3>4, <3>5 DEF TablesOK, IsTable, IdsOf
  <2>9. ASSUME NEW q \in Clients \ {p} PROVE ZoneKept(q) /\ RowsKept(q)
    <3>1. ZoneKept(q)
      BY <1>1, <1>2, <2>3, <2>5, <2>7 DEF ZoneKept, ZoneNamed
    <3>2. RowsKept(q)
      BY <1>1, <2>7 DEF RowsKept, TablesOK, IsTable
    <3> QED BY <3>1, <3>2
  <2>10. ApiInv'
    BY <1>1, <2>6, <2>8, <2>9, WriteKeeps DEF ApiInv, ControlOK
  <2>11. OwnRows(p)
    <3>1. \A z \in TouchedZones : z \in Differ(zones, zones')
      BY <1>1, Touched
    <3>2. Differ(zones, zones') \subseteq {n}
      BY <2>3 DEF Differ
    <3> QED BY <2>5, <3>1, <3>2 DEF OwnRows
  <2> QED BY <2>10, <2>11
<1>3. CASE ZoneNamed(req[p].zone) # {}
  <2>1. Answer(p, "duplicate") /\ zones' = zones
    BY <1>3 DEF InsertZone
  <2>2. "duplicate" \in Answers
    BY DEF Answers
  <2>3. Advances(p, NoId)
    BY <2>1, <2>2, AnswerEnds
  <2> QED BY <1>1, <2>1, <2>3, NothingTouched DEF data
<1> QED BY <1>2, <1>3

\* A zone is updated by its name.
LEMMA UpdateZoneKeeps ==
    ASSUME ApiInv, NEW p \in Clients, UpdateZoneRow(p), UNCHANGED accounts
    PROVE  ApiInv' /\ OwnRows(p)
<1>1. /\ Running(p) /\ Statement(p).do = "updateZone" /\ Statement(p).do \in Writers
      /\ locations' = locations /\ recordSets' = recordSets /\ moved' = moved /\ TablesOK
  BY DEF UpdateZoneRow, At, Writers, ApiInv
<1>2. Advances(p, NoId)
  BY <1>1, WrittenAdvances DEF UpdateZoneRow
<1>3. PICK which : which = ZoneNamed(req[p].zone)
  OBVIOUS
<1>4. zones' = Updated(zones, which, req[p].user)
  BY <1>3 DEF UpdateZoneRow, ZoneNamed, Updated
<1>5. /\ IsTable(zones', {"id", "name", "owner", "by"})
      /\ \A n \in zones' : \E z \in zones : SameRow(n, z)
      /\ \A z \in zones : \E n \in zones' : SameRow(n, z)
      /\ \A z \in zones \ which : z \in zones'
      /\ \A n \in zones' : n \in zones \/ \E z \in which \intersect zones : SameRow(n, z)
      /\ \A x, y \in zones', z \in zones : SameRow(x, z) /\ SameRow(y, z) => x = y
  BY <1>1, <1>4, UpdatedRows DEF TablesOK
<1>6. \A z \in zones : \A n : SameRow(n, z) => n.id = z.id /\ n.name = z.name /\ n.owner = z.owner
  BY <1>1 DEF TablesOK, IsTable, SameRow
<1>7. TablesOK'
  <2>1. \A x, y \in zones' : x.name = y.name => x = y
    BY <1>1, <1>5, <1>6 DEF TablesOK
  <2>2. \A z \in zones' : z.owner \in tokens'
    BY <1>1, <1>5, <1>6 DEF TablesOK, accounts
  <2>3. \A l \in locations' : l.zone \in IdsOf(zones')
    BY <1>1, <1>5, <1>6 DEF TablesOK, IdsOf
  <2> QED BY <1>1, <1>5, <2>1, <2>2, <2>3 DEF TablesOK, IsTable, IdsOf
<1>8. ASSUME NEW q \in Clients \ {p} PROVE ZoneKept(q) /\ RowsKept(q)
  <2>1. ZoneKept(q)
    BY <1>1, <1>5, <1>6 DEF ZoneKept
  <2>2. RowsKept(q)
    BY <1>1 DEF RowsKept, TablesOK, IsTable
  <2> QED BY <2>1, <2>2
<1>9. ApiInv'
  BY <1>1, <1>2, <1>7, <1>8, WriteKeeps DEF ApiInv, ControlOK
<1>10. OwnRows(p)
  <2> SUFFICES ASSUME ~moved[p], NEW z \in TouchedZones PROVE z.owner = req[p].user
    BY DEF OwnRows
  <2>1. Mine(p)
    <3>1. pc[p] > 1 /\ Before(p) = "zone"
      BY <1>1, AtStatement DEF Begins, Follows
    <3> QED BY <3>1 DEF ApiInv, KnownZone
  <2>2. z \in Differ(zones, zones')
    BY <1>1, Touched
  <2> QED BY <1>3, <1>5, <1>6, <2>1, <2>2 DEF Differ, Mine
<1> QED BY <1>9, <1>10

\* Rows are deleted with those that refer to them.
LEMMA CascadeKeeps ==
    ASSUME ApiInv, NEW zs \in SUBSET zones, NEW ls \in SUBSET locations, Cascade(zs, ls),
           UNCHANGED accounts
    PROVE  /\ TablesOK' /\ \A q \in Clients : RowsKept(q)
           /\ zones' = zs /\ locations' \subseteq ls /\ recordSets' \subseteq recordSets
           /\ \A l \in ls : l \in locations' \/ l.zone \notin IdsOf(zs)
           /\ \A r \in recordSets : r \in recordSets' \/ r.location \notin IdsOf(locations')
<1>1. /\ zones' = zs /\ locations' = {l \in ls : l.zone \in IdsOf(zs)}
      /\ recordSets' = {r \in recordSets : r.location \in IdsOf(locations')}
  BY DEF Cascade
<1>2. TablesOK /\ tokens' = tokens
  BY DEF ApiInv, accounts
<1>3. zones' \subseteq zones /\ locations' \subseteq locations /\ recordSets' \subseteq recordSets
  BY <1>1
<1>4. TablesOK'
  <2>1. IsTable(zones', {"id", "name", "owner", "by"})
    BY <1>2, <1>3 DEF TablesOK, IsTable
  <2>2. IsTable(locations', {"id", "zone", "name", "by"})
    BY <1>2, <1>3 DEF TablesOK, IsTable
  <2>3. IsTable(recordSets', {"id", "location", "type", "by"})
    BY <1>2, <1>3 DEF TablesOK, IsTable
  <2>4. \A l \in locations' : l.zone \in IdsOf(zones')
    BY <1>1
  <2>5. \A r \in recordSets' : r.location \in IdsOf(locations')
    BY <1>1
  <2>6. \A z \in zones' : z.owner \in tokens'
    BY <1>2, <1>3 DEF TablesOK
  <2>7. /\ \A x, y \in zones' : x.name = y.name => x = y
        /\ \A x, y \in locations' : x.zone = y.zone /\ x.name = y.name => x = y
        /\ \A x, y \in recordSets' : x.location = y.location /\ x.type = y.type => x = y
    BY <1>2, <1>3 DEF TablesOK
  <2> QED BY <2>1, <2>2, <2>3, <2>4, <2>5, <2>6, <2>7 DEF TablesOK, IdsOf, IsTable
<1>5. \A q \in Clients : RowsKept(q)
  BY <1>2, <1>3 DEF RowsKept, TablesOK, IsTable
<1> QED BY <1>1, <1>3, <1>4, <1>5

\* A zone is deleted by its name, and every request for it that runs is told apart.
LEMMA DeleteZoneKeeps ==
    ASSUME ApiInv, NEW p \in Clients, DeleteZoneRow(p), UNCHANGED accounts
    PROVE  ApiInv' /\ OwnRows(p)
<1>1. /\ Running(p) /\ Statement(p).do = "deleteZone" /\ Statement(p).do \in Writers /\ TablesOK
  BY DEF DeleteZoneRow, At, Writers, ApiInv
<1>2. CASE ZoneNamed(req[p].zone) = {}
  <2>1. Answer(p, Statement(p).none) /\ UNCHANGED <<data, moved>>
    BY <1>2 DEF DeleteZoneRow
  <2>2. Advances(p, NoId)
    BY <1>1, <2>1, ErrorEnds
  <2> QED BY <1>1, <2>1, <2>2, NothingTouched
<1>3. CASE ZoneNamed(req[p].zone) # {}
  <2>1. PICK zs : zs = zones \ ZoneNamed(req[p].zone)
    OBVIOUS
  <2>2. /\ Cascade(zs, locations) /\ Written(p)
        /\ moved' = [q \in Clients |->
                        moved[q] \/ (Running(q) /\ q # p /\ Concerns(q, req[p].zone))]
    BY <1>3, <2>1 DEF DeleteZoneRow
  <2>3. /\ TablesOK' /\ \A q \in Clients : RowsKept(q)
        /\ zones' = zs /\ locations' \subseteq locations /\ recordSets' \subseteq recordSets
        /\ \A l \in locations : l \in locations' \/ l.zone \notin IdsOf(zs)
        /\ \A r \in recordSets : r \in recordSets' \/ r.location \notin IdsOf(locations')
    BY <2>1, <2>2, CascadeKeeps
  <2>4. Advances(p, NoId)
    BY <1>1, <2>2, WrittenAdvances
  <2>5. moved' \in [Clients -> BOOLEAN]
    BY <2>2 DEF ApiInv, ControlOK
  <2>6. ASSUME NEW q \in Clients \ {p}, "zone" \in DOMAIN req[q], Running(q) PROVE ZoneKept(q)
    <3> SUFFICES ASSUME ~moved'[q] PROVE ZoneKept(q)
      BY DEF ZoneKept
    <3>1. ~moved[q] /\ ~Concerns(q, req[p].zone)
      BY <2>2, <2>6
    <3>2. req[q].zone # req[p].zone
      BY <2>6, <3>1 DEF Concerns
    <3>3. \A z : z.name = req[q].zone => (z \in zones <=> z \in zones')
      BY <2>1, <2>3, <3>2 DEF ZoneNamed
    <3> QED BY <3>1, <3>3 DEF ZoneKept
  <2>7. ApiInv'
    BY <1>1, <2>3, <2>4, <2>5, <2>6, WriteKeeps
  <2>8. OwnRows(p)
    <3> SUFFICES ASSUME ~moved[p], NEW z \in TouchedZones PROVE z.owner = req[p].user
      BY DEF OwnRows
    <3>1. Mine(p)
      <4>1. pc[p] > 1 /\ Before(p) = "owner"
        BY <1>1, AtStatement DEF Begins, Follows
      <4> QED BY <4>1 DEF ApiInv, KnownZone
    <3>2. \A l \in Differ(locations, locations') : l.zone \notin IdsOf(zs)
      BY <2>3 DEF Differ
    <3>3. \A l \in locations \union locations', r \in Differ(recordSets, recordSets') :
              r.location = l.id => l.zone \notin IdsOf(zs)
      BY <2>3 DEF Differ, IdsOf
    <3>4. z \in zones /\ (z \in Differ(zones, zones') \/ z.id \notin IdsOf(zs))
      BY <2>1, <2>3, <3>2, <3>3 DEF TouchedZones, Differ
    <3>5. z \notin zs
      BY <2>1, <2>3, <3>4 DEF IdsOf, Differ
    <3> QED BY <2>1, <3>1, <3>4, <3>5 DEF Mine
  <2> QED BY <2>7, <2>8
<1> QED BY <1>2, <1>3

\* A location is added to the zone that was selected, or none is.
LEMMA InsertLocationKeeps ==
    ASSUME ApiInv, NEW p \in Clients, InsertLocation(p), UNCHANGED accounts
    PROVE  ApiInv' /\ OwnRows(p)
<1>1. /\ Running(p) /\ Statement(p).do = "insertLocation" /\ Statement(p).do \in Writers /\ TablesOK
      /\ zones' = zones /\ recordSets' = recordSets /\ moved' = moved /\ tokens' = tokens
  BY DEF InsertLocation, At, Writers, ApiInv, accounts
<1>2. "internal" \in Answers /\ "duplicate" \in Answers
  BY DEF Answers
<1>3. CASE locations' = locations /\ (Answer(p, "internal") \/ Answer(p, "duplicate"))
  <2>1. Advances(p, NoId)
    BY <1>2, <1>3, AnswerEnds
  <2> QED BY <1>1, <1>3, <2>1, NothingTouched DEF data
<1>4. CASE /\ ref[p] \in IdsOf(zones)
           /\ ~\E l \in locations : l.zone = ref[p] /\ l.name = req[p].location
           /\ FreeIds("locations", locations) # {}
           /\ locations' = locations \union {[id |-> NewObjectId("locations", locations), zone |-> ref[p],
                                              name |-> req[p].location, by |-> req[p].user]}
           /\ Written(p)
  <2>1. PICK id : id = NewObjectId("locations", locations)
    OBVIOUS
  <2>2. PICK n : n = [id |-> id, zone |-> ref[p], name |-> req[p].location, by |-> req[p].user]
    OBVIOUS
  <2>3. locations' = locations \union {n}
    BY <1>4, <2>1, <2>2
  <2>4. id[2] \in Ids /\ id \notin IdsOf(locations) /\ \A q \in Clients : ref[q] # id
    BY <1>4, <2>1, NewId
  <2>5. /\ DOMAIN n = {"id", "zone", "name", "by"} /\ n.id = id /\ n.zone = ref[p]
        /\ n.name = req[p].location
    BY <2>2
  <2>6. Advances(p, NoId)
    BY <1>1, <1>4, WrittenAdvances
  <2>7. \A l \in locations : l.id # id /\ ~(l.zone = ref[p] /\ l.name = req[p].location)
    BY <1>4, <2>4 DEF IdsOf
  <2>8. TablesOK'
    <3>1. IsTable(locations', {"id", "zone", "name", "by"})
      BY <1>1, <2>3, <2>4, <2>5, <2>7 DEF TablesOK, IsTable
    <3>2. IsTable(zones', {"id", "name", "owner", "by"}) /\ IsTable(recordSets', {"id", "location", "type", "by"})
      BY <1>1 DEF TablesOK
    <3>3. \A x, y \in locations' : x.zone = y.zone /\ x.name = y.name => x = y
      BY <1>1, <2>3, <2>5, <2>7 DEF TablesOK
    <3>4. \A l \in locations' : l.zone \in IdsOf(zones')
      BY <1>1, <1>4, <2>3, <2>5 DEF TablesOK
    <3>5. \A r \in recordSets' : r.location \in IdsOf(locations')
      BY <1>1, <2>3 DEF TablesOK, IdsOf
    <3> QED BY <1>1, <3>1, <3>2, <3>3, <3>4, <3>5 DEF TablesOK, IsTable, IdsOf
  <2>9. ASSUME NEW q \in Clients \ {p} PROVE ZoneKept(q) /\ RowsKept(q)
    <3>1. ZoneKept(q)
      BY <1>1 DEF ZoneKept
    <3>2. RowsKept(q)
      BY <1>1, <2>3, <2>4, <2>5, <2>7 DEF RowsKept, TablesOK, IsTable
    <3> QED BY <3>1, <3>2
  <2>10. ApiInv'
    BY <1>1, <2>6, <2>8, <2>9, WriteKeeps DEF ApiInv, ControlOK
  <2>11. OwnRows(p)
    <3> SUFFICES ASSUME ~moved[p], NEW z \in TouchedZones PROVE z.owner = req[p].user
      BY DEF OwnRows
    <3>1. Mine(p) /\ InMine(p, ref[p])
      <4>1. pc[p] > 1 /\ Before(p) = "zone"
        BY <1>1, AtStatement DEF Begins, Follows
      <4> QED BY <4>1 DEF ApiInv, KnownZone
    <3>2. Differ(recordSets, recordSets') = {} /\ Differ(locations, locations') \subseteq {n}
      BY <1>1, <2>3 DEF Differ
    <3>3. z \in zones /\ z.id = ref[p]
      BY <1>1, <2>5, <3>2, Touched
    <3> QED BY <3>1, <3>3, OwnZone
  <2> QED BY <2>10, <2>11
<1> QED BY <1>3, <1>4 DEF InsertLocation

\* A statement that follows the select of a location knows whose it is.
LEMMA LocationIsOwn ==
    ASSUME ApiInv, NEW p \in Clients, Running(p), ~moved[p],
           Statement(p).do \in {"updateLocation", "deleteLocation", "insertRecordSet"},
           NEW z \in zones, NEW l \in locations, l.id = ref[p], l.zone = z.id
    PROVE  z.owner = req[p].user
<1>1. pc[p] > 1 /\ Before(p) = "location"
  BY AtStatement DEF Begins, Follows
<1>2. Mine(p) /\ InMine(p, l.zone)
  BY <1>1 DEF ApiInv, KnownZone
<1> QED BY <1>2, OwnZone

\* And so does one that follows the select of a record set.
LEMMA RecordSetIsOwn ==
    ASSUME ApiInv, NEW p \in Clients, Running(p), ~moved[p],
           Statement(p).do \in {"updateRecordSet", "deleteRecordSet"},
           NEW z \in zones, NEW l \in locations, NEW r \in recordSets,
           r.id = ref[p], l.id = r.location, l.zone = z.id
    PROVE  z.owner = req[p].user
<1>1. pc[p] > 1 /\ Before(p) = "recordSet"
  BY AtStatement DEF Begins, Follows
<1>2. Mine(p) /\ \E m \in locations : m.id = r.location /\ InMine(p, m.zone)
  BY <1>1 DEF ApiInv, KnownZone
<1>3. InMine(p, l.zone)
  BY <1>2 DEF ApiInv, TablesOK, IsTable
<1> QED BY <1>2, <1>3, OwnZone

\* A location is updated by the id that was selected.
LEMMA UpdateLocationKeeps ==
    ASSUME ApiInv, NEW p \in Clients, UpdateLocationRow(p), UNCHANGED accounts
    PROVE  ApiInv' /\ OwnRows(p)
<1>1. /\ Running(p) /\ Statement(p).do = "updateLocation" /\ Statement(p).do \in Writers /\ TablesOK
      /\ zones' = zones /\ recordSets' = recordSets /\ moved' = moved /\ tokens' = tokens
  BY DEF UpdateLocationRow, At, Writers, ApiInv, accounts
<1>2. Advances(p, NoId)
  BY <1>1, WrittenAdvances DEF UpdateLocationRow
<1>3. PICK which : which = {l \in locations : l.id = ref[p]}
  OBVIOUS
<1>4. locations' = Updated(locations, which, req[p].user)
  BY <1>3 DEF UpdateLocationRow, Updated
<1>5. /\ IsTable(locations', {"id", "zone", "name", "by"})
      /\ \A n \in locations' : \E l \in locations : SameRow(n, l)
      /\ \A l \in locations : \E n \in locations' : SameRow(n, l)
      /\ \A l \in locations \ which : l \in locations'
      /\ \A n \in locations' : n \in locations \/ \E l \in which \intersect locations : SameRow(n, l)
      /\ \A x, y \in locations', l \in locations : SameRow(x, l) /\ SameRow(y, l) => x = y
  BY <1>1, <1>4, UpdatedRows DEF TablesOK
<1>6. \A l \in locations : \A n : SameRow(n, l) => n.id = l.id /\ n.name = l.name /\ n.zone = l.zone
  BY <1>1 DEF TablesOK, IsTable, SameRow
<1>7. TablesOK'
  <2>1. \A x, y \in locations' : x.zone = y.zone /\ x.name = y.name => x = y
    BY <1>1, <1>5, <1>6 DEF TablesOK
  <2>2. \A l \in locations' : l.zone \in IdsOf(zones')
    BY <1>1, <1>5, <1>6 DEF TablesOK
  <2>3. \A r \in recordSets' : r.location \in IdsOf(locations')
    BY <1>1, <1>5, <1>6 DEF TablesOK, IdsOf
  <2> QED BY <1>1, <1>5, <2>1, <2>2, <2>3 DEF TablesOK, IsTable, IdsOf
<1>8. ASSUME NEW q \in Clients \ {p} PROVE ZoneKept(q) /\ RowsKept(q)
  <2>1. ZoneKept(q)
    BY <1>1 DEF ZoneKept
  <2>2. RowsKept(q)
    BY <1>1, <1>5, <1>6 DEF RowsKept, TablesOK, IsTable
  <2> QED BY <2>1, <2>2
<1>9. ApiInv'
  BY <1>1, <1>2, <1>7, <1>8, WriteKeeps DEF ApiInv, ControlOK
<1>10. OwnRows(p)
  <2> SUFFICES ASSUME ~moved[p], NEW z \in TouchedZones PROVE z.owner = req[p].user
    BY DEF OwnRows
  <2>1. Differ(recordSets, recordSets') = {}
    BY <1>1 DEF Differ
  <2>2. \A n \in Differ(locations, locations') : \E l \in locations : l.id = ref[p] /\ n.zone = l.zone
    BY <1>3, <1>5, <1>6 DEF Differ
  <2>3. z \in zones /\ \E l \in locations : l.id = ref[p] /\ l.zone = z.id
    BY <1>1, <2>1, <2>2, Touched
  <2> QED BY <1>1, <2>3, LocationIsOwn
<1> QED BY <1>9, <1>10

\* A location is deleted by the id that was selected.
LEMMA DeleteLocationKeeps ==
    ASSUME ApiInv, NEW p \in Clients, DeleteLocationRow(p), UNCHANGED accounts
    PROVE  ApiInv' /\ OwnRows(p)
<1>1. /\ Running(p) /\ Statement(p).do = "deleteLocation" /\ Statement(p).do \in Writers /\ TablesOK
      /\ moved' = moved
  BY DEF DeleteLocationRow, At, Writers, ApiInv
<1>2. CASE ref[p] \notin IdsOf(locations)
  <2>1. Answer(p, Statement(p).none) /\ UNCHANGED data
    BY <1>2 DEF DeleteLocationRow
  <2>2. Advances(p, NoId)
    BY <1>1, <2>1, ErrorEnds
  <2> QED BY <1>1, <2>1, <2>2, NothingTouched
<1>3. CASE ref[p] \in IdsOf(locations)
  <2>1. PICK ls : ls = {l \in locations : l.id # ref[p]}
    OBVIOUS
  <2>2. Cascade(zones, ls) /\ Written(p)
    BY <1>3, <2>1 DEF DeleteLocationRow
  <2>3. /\ TablesOK' /\ \A q \in Clients : RowsKept(q)
        /\ zones' = zones /\ locations' \subseteq ls /\ recordSets' \subseteq recordSets
        /\ \A l \in ls : l \in locations' \/ l.zone \notin IdsOf(zones)
        /\ \A r \in recordSets : r \in recordSets' \/ r.location \notin IdsOf(locations')
    BY <2>1, <2>2, CascadeKeeps
  <2>4. Advances(p, NoId)
    BY <1>1, <2>2, WrittenAdvances
  <2>5. \A q \in Clients \ {p} : ZoneKept(q)
    BY <1>1, <2>3 DEF ZoneKept
  <2>6. ApiInv'
    BY <1>1, <2>3, <2>4, <2>5, WriteKeeps DEF ApiInv, ControlOK
  <2>7. OwnRows(p)
    <3> SUFFICES ASSUME ~moved[p], NEW z \in TouchedZones PROVE z.owner = req[p].user
      BY DEF OwnRows
    <3>1. \A l \in locations : l \in locations' \/ l.id = ref[p]
      BY <1>1, <2>1, <2>3 DEF TablesOK
    <3>2. \A l \in Differ(locations, locations') : l \in locations /\ l.id = ref[p]
      BY <2>1, <2>3, <3>1 DEF Differ
    <3>3. \A l \in locations \union locations', r \in Differ(recordSets, recordSets') :
              r.location = l.id => l \in locations /\ l.id = ref[p]
      BY <2>1, <2>3, <3>1 DEF Differ, IdsOf
    <3>4. z \in zones /\ \E l \in locations : l.id = ref[p] /\ l.zone = z.id
      BY <2>3, <3>2, <3>3, Touched
    <3> QED BY <1>1, <3>4, LocationIsOwn
  <2> QED BY <2>6, <2>7
<1> QED BY <1>2, <1>3

\* A record set is added to the location that was selected, or none is.
LEMMA InsertRecordSetKeeps ==
    ASSUME ApiInv, NEW p \in Clients, InsertRecordSet(p), UNCHANGED accounts
    PROVE  ApiInv' /\ OwnRows(p)
<1>1. /\ Running(p) /\ Statement(p).do = "insertRecordSet" /\ Statement(p).do \in Writers /\ TablesOK
      /\ zones' = zones /\ locations' = locations /\ moved' = moved /\ tokens' = tokens
  BY DEF InsertRecordSet, At, Writers, ApiInv, accounts
<1>2. "internal" \in Answers /\ "duplicate" \in Answers
  BY DEF Answers
<1>3. CASE recordSets' = recordSets /\ (Answer(p, "internal") \/ Answer(p, "duplicate"))
  <2>1. Advances(p, NoId)
    BY <1>2, <1>3, AnswerEnds
  <2> QED BY <1>1, <1>3, <2>1, NothingTouched DEF data
<1>4. CASE /\ ref[p] \in IdsOf(locations)
           /\ ~\E r \in recordSets : r.location = ref[p] /\ r.type = req[p].rtype
           /\ FreeIds("recordSets", recordSets) # {}
           /\ recordSets' = recordSets \union {[id |-> NewObjectId("recordSets", recordSets), location |-> ref[p],
                                                type |-> req[p].rtype, by |-> req[p].user]}
           /\ Written(p)
  <2>1. PICK id : id = NewObjectId("recordSets", recordSets)
    OBVIOUS
  <2>2. PICK n : n = [id |-> id, location |-> ref[p], type |-> req[p].rtype, by |-> req[p].user]
    OBVIOUS
  <2>3. recordSets' = recordSets \union {n}
    BY <1>4, <2>1, <2>2
  <2>4. id[2] \in Ids /\ id \notin IdsOf(recordSets) /\ \A q \in Clients : ref[q] # id
    BY <1>4, <2>1, NewId
  <2>5. /\ DOMAIN n = {"id", "location", "type", "by"} /\ n.id = id /\ n.location = ref[p]
        /\ n.type = req[p].rtype
    BY <2>2
  <2>6. Advances(p, NoId)
    BY <1>1, <1>4, WrittenAdvances
  <2>7. \A r \in recordSets : r.id # id /\ ~(r.location = ref[p] /\ r.type = req[p].rtype)
    BY <1>4, <2>4 DEF IdsOf
  <2>8. TablesOK'
    <3>1. IsTable(recordSets', {"id", "location", "type", "by"})
      BY <1>1, <2>3, <2>4, <2>5, <2>7 DEF TablesOK, IsTable
    <3>2. IsTable(zones', {"id", "name", "owner", "by"}) /\ IsTable(locations', {"id", "zone", "name", "by"})
      BY <1>1 DEF TablesOK
    <3>3. \A x, y \in recordSets' : x.location = y.location /\ x.type = y.type => x = y
      BY <1>1, <2>3, <2>5, <2>7 DEF TablesOK
    <3>4. \A r \in recordSets' : r.location \in IdsOf(locations')
      BY <1>1, <1>4, <2>3, <2>5 DEF TablesOK
    <3> QED BY <1>1, <3>1, <3>2, <3>3, <3>4 DEF TablesOK, IsTable, IdsOf
  <2>9. ASSUME NEW q \in Clients \ {p} PROVE ZoneKept(q) /\ RowsKept(q)
    <3>1. ZoneKept(q)
      BY <1>1 DEF ZoneKept
    <3>2. RowsKept(q)
      BY <1>1, <2>3, <2>4, <2>5 DEF RowsKept, TablesOK, IsTable
    <3> QED BY <3>1, <3>2
  <2>10. ApiInv'
    BY <1>1, <2>6, <2>8, <2>9, WriteKeeps DEF ApiInv, ControlOK
  <2>11. OwnRows(p)
    <3> SUFFICES ASSUME ~moved[p], NEW z \in TouchedZones PROVE z.owner = req[p].user
      BY DEF OwnRows
    <3>1. Differ(locations, locations') = {} /\ Differ(recordSets, recordSets') \subseteq {n}
      BY <1>1, <2>3 DEF Differ
    <3>2. z \in zones /\ \E l \in locations : l.id = ref[p] /\ l.zone = z.id
      BY <1>1, <2>5, <3>1, Touched
    <3> QED BY <1>1, <3>2, LocationIsOwn
  <2> QED BY <2>10, <2>11
<1> QED BY <1>3, <1>4 DEF InsertRecordSet

\* A record set is updated by the id that was selected.
LEMMA UpdateRecordSetKeeps ==
    ASSUME ApiInv, NEW p \in Clients, UpdateRecordSetRow(p), UNCHANGED accounts
    PROVE  ApiInv' /\ OwnRows(p)
<1>1. /\ Running(p) /\ Statement(p).do = "updateRecordSet" /\ Statement(p).do \in Writers /\ TablesOK
      /\ zones' = zones /\ locations' = locations /\ moved' = moved /\ tokens' = tokens
  BY DEF UpdateRecordSetRow, At, Writers, ApiInv, accounts
<1>2. Advances(p, NoId)
  BY <1>1, WrittenAdvances DEF UpdateRecordSetRow
<1>3. PICK which : which = {r \in recordSets : r.id = ref[p]}
  OBVIOUS
<1>4. recordSets' = Updated(recordSets, which, req[p].user)
  BY <1>3 DEF UpdateRecordSetRow, Updated
<1>5. /\ IsTable(recordSets', {"id", "location", "type", "by"})
      /\ \A n \in recordSets' : \E r \in recordSets : SameRow(n, r)
      /\ \A r \in recordSets : \E n \in recordSets' : SameRow(n, r)
      /\ \A r \in recordSets \ which : r \in recordSets'
      /\ \A n \in recordSets' : n \in recordSets \/ \E r \in which \intersect recordSets : SameRow(n, r)
      /\ \A x, y \in recordSets', r \in recordSets : SameRow(x, r) /\ SameRow(y, r) => x = y
  BY <1>1, <1>4, UpdatedRows DEF TablesOK
<1>6. \A r \in recordSets : \A n : SameRow(n, r) => n.id = r.id /\ n.type = r.type /\ n.location = r.location
  BY <1>1 DEF TablesOK, IsTable, SameRow
<1>7. TablesOK'
  <2>1. \A x, y \in recordSets' : x.location = y.location /\ x.type = y.type => x = y
    BY <1>1, <1>5, <1>6 DEF TablesOK
  <2>2. \A r \in recordSets' : r.location \in IdsOf(locations')
    BY <1>1, <1>5, <1>6 DEF TablesOK
  <2> QED BY <1>1, <1>5, <2>1, <2>2 DEF TablesOK, IsTable, IdsOf
<1>8. ASSUME NEW q \in Clients \ {p} PROVE ZoneKept(q) /\ RowsKept(q)
  <2>1. ZoneKept(q)
    BY <1>1 DEF ZoneKept
  <2>2. RowsKept(q)
    BY <1>1, <1>5, <1>6 DEF RowsKept, TablesOK, IsTable
  <2> QED BY <2>1, <2>2
<1>9. ApiInv'
  BY <1>1, <1>2, <1>7, <1>8, WriteKeeps DEF ApiInv, ControlOK
<1>10. OwnRows(p)
  <2> SUFFICES ASSUME ~moved[p], NEW z \in TouchedZones PROVE z.owner = req[p].user
    BY DEF OwnRows
  <2>1. Differ(locations, locations') = {}
    BY <1>1 DEF Differ
  <2>2. \A n \in Differ(recordSets, recordSets') :
            \E r \in recordSets : r.id = ref[p] /\ n.location = r.location
    BY <1>3, <1>5, <1>6 DEF Differ
  <2>3. PICK l \in locations, r \in recordSets :
            z \in zones /\ r.id = ref[p] /\ l.id = r.location /\ l.zone = z.id
    BY <1>1, <2>1, <2>2, Touched
  <2> QED BY <1>1, <2>3, RecordSetIsOwn
<1> QED BY <1>9, <1>10

\* A record set is deleted by the id that was selected.
LEMMA DeleteRecordSetKeeps ==
    ASSUME ApiInv, NEW p \in Clients, DeleteRecordSetRow(p), UNCHANGED accounts
    PROVE  ApiInv' /\ OwnRows(p)
<1>1. /\ Running(p) /\ Statement(p).do = "deleteRecordSet" /\ Statement(p).do \in Writers /\ TablesOK
      /\ zones' = zones /\ locations' = locations /\ moved' = moved /\ tokens' = tokens
  BY DEF DeleteRecordSetRow, At, Writers, ApiInv, accounts
<1>2. CASE ref[p] \notin IdsOf(recordSets)
  <2>1. Answer(p, Statement(p).none) /\ UNCHANGED data
    BY <1>1, <1>2 DEF DeleteRecordSetRow, data
  <2>2. Advances(p, NoId)
    BY <1>1, <2>1, ErrorEnds
  <2> QED BY <1>1, <2>1, <2>2, NothingTouched
<1>3. CASE ref[p] \in IdsOf(recordSets)
  <2>1. recordSets' = {r \in recordSets : r.id # ref[p]} /\ Written(p)
    BY <1>3 DEF DeleteRecordSetRow
  <2>2. Advances(p, NoId)
    BY <1>1, <2>1, WrittenAdvances
  <2>3. TablesOK'
    <3>1. IsTable(recordSets', {"id", "location", "type", "by"})
      BY <1>1, <2>1 DEF TablesOK, IsTable
    <3>2. IsTable(zones', {"id", "name", "owner", "by"}) /\ IsTable(locations', {"id", "zone", "name", "by"})
      BY <1>1 DEF TablesOK
    <3> QED BY <1>1, <2>1, <3>1, <3>2 DEF TablesOK, IsTable, IdsOf
  <2>4. ASSUME NEW q \in Clients \ {p} PROVE ZoneKept(q) /\ RowsKept(q)
    <3>1. ZoneKept(q)
      BY <1>1 DEF ZoneKept
    <3>2. RowsKept(q)
      BY <1>1, <2>1 DEF RowsKept, TablesOK, IsTable
    <3> QED BY <3>1, <3>2
  <2>5. ApiInv'
    BY <1>1, <2>2, <2>3, <2>4, WriteKeeps DEF ApiInv, ControlOK
  <2>6. OwnRows(p)
    <3> SUFFICES ASSUME ~moved[p], NEW z \in TouchedZones PROVE z.owner = req[p].user
      BY DEF OwnRows
    <3>1. Differ(locations, locations') = {}
      BY <1>1 DEF Differ
    <3>2. \A r \in Differ(recordSets, recordSets') : r \in recordSets /\ r.id = ref[p]
      BY <2>1 DEF Differ
    <3>3. PICK l \in locations, r \in recordSets :
              z \in zones /\ r.id = ref[p] /\ l.id = r.location /\ l.zone = z.id
      BY <1>1, <3>1, <3>2, Touched
    <3> QED BY <1>1, <3>3, RecordSetIsOwn
  <2> QED BY <2>5, <2>6
<1> QED BY <1>2, <1>3

(***************************************************************************)
(* The statements that write accounts.                                     *)
(***************************************************************************)
\* What is left to show of a statement that writes accounts.
LEMMA AccountKeeps ==
    ASSUME ApiInv, NEW p \in Clients, Running(p), Statement(p).do \in AccountStatements,
           Advances(p, NoId), UNCHANGED <<data, moved>>,
           tokens \subseteq tokens', mailed \subseteq mailed',
           AccountsOK', \A e \in Emails : AccountKept(e), KnownAccount(p)'
    PROVE  ApiInv'
<1>1. zones' = zones /\ locations' = locations /\ recordSets' = recordSets /\ moved' = moved
  BY DEF data
<1>2. TablesOK'
  BY <1>1 DEF ApiInv, TablesOK, IsTable, IdsOf
<1>3. KnownZone(p)'
  BY Unremembered DEF AccountStatements
<1>4. ASSUME NEW q \in Clients \ {p} PROVE KnownAccount(q)' /\ KnownZone(q)'
  <2>1. req'[q] = req[q] /\ pc'[q] = pc[q] /\ ref'[q] = ref[q]
    BY DEF Advances
  <2>2. ZoneKept(q)
    BY <1>1 DEF ZoneKept
  <2>3. RowsKept(q)
    BY <1>1 DEF RowsKept, ApiInv, TablesOK, IsTable
  <2> QED BY <1>2, <2>1, <2>2, <2>3, OthersKnowAccount, OthersKnowZone
<1> QED BY <1>1, <1>2, <1>3, <1>4, StatementKeeps DEF ApiInv, ControlOK

\* A new account has no code that was sent.
LEMMA InsertUserKeeps ==
    ASSUME ApiInv, NEW p \in Clients, InsertUser(p), UNCHANGED <<data, moved>>
    PROVE  ApiInv'
<1>1. /\ Running(p) /\ Statement(p).do = "insertUser" /\ Statement(p).do \in AccountStatements
      /\ codes' = codes /\ mailed' = mailed /\ tokens' = tokens /\ AccountsOK
  BY DEF InsertUser, At, AccountStatements, ApiInv
<1>2. req[p].user \in Emails
  BY <1>1, AtStatement
<1>3. CASE users[req[p].user] = "none"
  <2>1. users' = [users EXCEPT ![req[p].user] = "pending"] /\ Written(p)
    BY <1>3 DEF InsertUser
  <2>2. Advances(p, NoId)
    BY <1>1, <2>1, WrittenAdvances
  <2>3. AccountsOK'
    BY <1>1, <1>2, <1>3, <2>1 DEF AccountsOK
  <2>4. \A e \in Emails : AccountKept(e)
    BY <1>1, <1>2, <1>3, <2>1 DEF AccountKept, AccountsOK
  <2>5. KnownAccount(p)'
    <3>1. pc'[p] > 1 => Before(p)' = "insertUser"
      BY <1>1, <2>2, NowBefore
    <3>2. req' = req /\ users'[req[p].user] = "pending"
      BY <1>1, <1>2, <2>1, <2>2 DEF Advances, AccountsOK
    <3> QED BY <3>1, <3>2 DEF KnownAccount
  <2> QED BY <1>1, <2>2, <2>3, <2>4, <2>5, AccountKeeps
<1>4. CASE users[req[p].user] # "none"
  <2>1. Answer(p, "duplicate") /\ users' = users
    BY <1>4 DEF InsertUser
  <2>2. "duplicate" \in Answers
    BY DEF Answers
  <2>3. Advances(p, NoId)
    BY <2>1, <2>2, AnswerEnds
  <2>4. pc'[p] = 0
    BY <2>1 DEF Answer, ApiInv, ControlOK
  <2>5. KnownAccount(p)' /\ KnownZone(p)'
    BY <2>4 DEF KnownAccount, KnownZone
  <2> QED BY <1>1, <2>1, <2>3, <2>5, ReadKeeps DEF accounts
<1> QED BY <1>3, <1>4

\* The account that gets a code exists.
LEMMA InsertCodeKeeps ==
    ASSUME ApiInv, NEW p \in Clients, InsertCode(p), UNCHANGED <<data, moved>>
    PROVE  ApiInv'
<1>1. /\ Running(p) /\ Statement(p).do = "insertCode" /\ Statement(p).do \in AccountStatements
      /\ users' = users /\ mailed' = mailed /\ tokens' = tokens /\ AccountsOK
      /\ codes' = codes \union {req[p].user}
  BY DEF InsertCode, At, AccountStatements, ApiInv
<1>2. req[p].user \in Emails
  BY <1>1, AtStatement
<1>3. Advances(p, NoId)
  BY <1>1, WrittenAdvances DEF InsertCode
<1>4. AccountsOK'
  BY <1>1, <1>2 DEF AccountsOK
<1>5. \A e \in Emails : AccountKept(e)
  BY <1>1 DEF AccountKept
<1>6. users[req[p].user] # "none"
  <2>1. pc[p] > 1 /\ Before(p) = "user"
    BY <1>1, AtStatement DEF Begins, Follows
  <2> QED BY <2>1 DEF ApiInv, KnownAccount
<1>7. KnownAccount(p)'
  <2>1. pc'[p] > 1 => Before(p)' = "insertCode"
    BY <1>1, <1>3, NowBefore
  <2>2. req' = req
    BY <1>3 DEF Advances
  <2> QED BY <1>1, <1>6, <2>1, <2>2 DEF KnownAccount
<1> QED BY <1>1, <1>3, <1>4, <1>5, <1>7, AccountKeeps

\* A code that is sent is that of an account, and works.
LEMMA SendCodeKeeps ==
    ASSUME ApiInv, NEW p \in Clients, SendCode(p), UNCHANGED <<data, moved>>
    PROVE  ApiInv'
<1>1. /\ Running(p) /\ Statement(p).do = "sendCode" /\ Statement(p).do \in AccountStatements
      /\ users' = users /\ codes' = codes /\ tokens' = tokens /\ AccountsOK
      /\ mailed' = mailed \union {req[p].user}
  BY DEF SendCode, At, AccountStatements, ApiInv
<1>2. req[p].user \in Emails
  BY <1>1, AtStatement
<1>3. Advances(p, NoId)
  BY <1>1, WrittenAdvances DEF SendCode
<1>4. users[req[p].user] # "none" /\ (users[req[p].user] = "pending" => req[p].user \in codes)
  <2>1. pc[p] > 1 /\ Before(p) = "insertCode"
    BY <1>1, AtStatement DEF Begins, Follows
  <2> QED BY <2>1 DEF ApiInv, KnownAccount
<1>5. AccountsOK'
  BY <1>1, <1>2, <1>4 DEF AccountsOK
<1>6. \A e \in Emails : AccountKept(e)
  BY <1>1 DEF AccountKept
<1>7. KnownAccount(p)'
  BY <1>1, <1>3, Unremembered
<1> QED BY <1>1, <1>3, <1>5, <1>6, <1>7, AccountKeeps

\* An account is activated by a code that was sent.
LEMMA ActivateUserKeeps ==
    ASSUME ApiInv, NEW p \in Clients, ActivateUser(p), UNCHANGED <<data, moved>>
    PROVE  ApiInv'
<1>1. /\ Running(p) /\ Statement(p).do = "activate" /\ Statement(p).do \in AccountStatements
      /\ mailed' = mailed /\ codes' = codes /\ tokens' = tokens /\ AccountsOK
      /\ users' = [users EXCEPT ![req[p].user] = "active"]
  BY DEF ActivateUser, At, AccountStatements, ApiInv
<1>2. req[p].user \in Emails /\ req[p].user \in mailed
  BY <1>1, AtStatement
<1>3. Advances(p, NoId)
  BY <1>1, WrittenAdvances DEF ActivateUser
<1>4. AccountsOK'
  BY <1>1, <1>2 DEF AccountsOK
<1>5. \A e \in Emails : AccountKept(e)
  BY <1>1, <1>2 DEF AccountKept, AccountsOK
<1>6. KnownAccount(p)'
  <2>1. pc'[p] > 1 => Before(p)' = "activate"
    BY <1>1, <1>3, NowBefore
  <2>2. req' = req /\ users'[req[p].user] = "active"
    BY <1>1, <1>2, <1>3 DEF Advances, AccountsOK
  <2> QED BY <2>1, <2>2 DEF KnownAccount
<1> QED BY <1>1, <1>3, <1>4, <1>5, <1>6, AccountKeeps

\* The account whose code is deleted is active.
LEMMA DeleteCodeKeeps ==
    ASSUME ApiInv, NEW p \in Clients, DeleteCode(p), UNCHANGED <<data, moved>>
    PROVE  ApiInv'
<1>1. /\ Running(p) /\ Statement(p).do = "deleteCode" /\ Statement(p).do \in AccountStatements
      /\ mailed' = mailed /\ users' = users /\ tokens' = tokens /\ AccountsOK
      /\ codes' = codes \ {req[p].user}
  BY DEF DeleteCode, At, AccountStatements, ApiInv
<1>2. Advances(p, NoId)
  BY <1>1, WrittenAdvances DEF DeleteCode
<1>3. users[req[p].user] = "active"
  <2>1. pc[p] > 1 /\ Before(p) = "activate"
    BY <1>1, AtStatement DEF Begins, Follows
  <2> QED BY <2>1 DEF ApiInv, KnownAccount
<1>4. AccountsOK'
  BY <1>1, <1>3 DEF AccountsOK
<1>5. \A e \in Emails : AccountKept(e)
  BY <1>1, <1>3 DEF AccountKept
<1>6. KnownAccount(p)'
  BY <1>1, <1>2, Unremembered
<1> QED BY <1>1, <1>2, <1>4, <1>5, <1>6, AccountKeeps

\* A token is given to an account that is active.
LEMMA AuthenticateKeeps ==
    ASSUME ApiInv, NEW p \in Clients, Authenticate(p), UNCHANGED <<data, moved>>
    PROVE  ApiInv'
<1>1. /\ Running(p) /\ Statement(p).do = "authenticate" /\ Statement(p).do \in AccountStatements
      /\ mailed' = mailed /\ users' = users /\ codes' = codes /\ AccountsOK
  BY DEF Authenticate, At, AccountStatements, ApiInv
<1>2. req[p].user \in Emails
  BY <1>1, AtStatement
<1>3. "unauthorized" \in Answers
  BY DEF Answers
<1>4. Advances(p, NoId)
  BY <1>1, <1>3, FoundAdvances, AnswerEnds DEF Authenticate
<1>5. tokens \subseteq tokens' /\ AccountsOK'
  BY <1>1, <1>2 DEF Authenticate, AccountsOK
<1>6. \A e \in Emails : AccountKept(e)
  BY <1>1 DEF AccountKept
<1>7. KnownAccount(p)'
  BY <1>1, <1>4, Unremembered
<1> QED BY <1>1, <1>4, <1>5, <1>6, <1>7, AccountKeeps

(***************************************************************************)
(* A request begins, and is answered.                                      *)
(***************************************************************************)
\* What is left to show of a step that no statement is executed in.
LEMMA OthersKeep ==
    ASSUME ApiInv, NEW p \in Clients, UNCHANGED <<accounts, data, ref>>, ControlOK',
           \A q \in Clients \ {p} : /\ req'[q] = req[q] /\ pc'[q] = pc[q]
                                    /\ ans'[q] = ans[q] /\ moved'[q] = moved[q],
           Served(p)', pc'[p] \in {0, 1}
    PROVE  ApiInv'
<1>1. /\ users' = users /\ codes' = codes /\ mailed' = mailed /\ tokens' = tokens /\ ref' = ref
      /\ zones' = zones /\ locations' = locations /\ recordSets' = recordSets
  BY DEF accounts, data
<1>2. TablesOK' /\ AccountsOK'
  BY <1>1 DEF ApiInv, TablesOK, AccountsOK, IsTable, IdsOf
<1>3. KnownAccount(p)' /\ KnownZone(p)'
  BY DEF KnownAccount, KnownZone
<1>4. ASSUME NEW q \in Clients \ {p} PROVE Served(q)' /\ KnownAccount(q)' /\ KnownZone(q)'
  <2>1. req'[q] = req[q] /\ pc'[q] = pc[q] /\ ref'[q] = ref[q] /\ ans'[q] = ans[q] /\ moved'[q] = moved[q]
    BY <1>1
  <2>2. Requests \subseteq Requests'
    BY <1>1, StillAsked
  <2>3. Served(q)'
    BY <2>1, <2>2 DEF ApiInv, Served
  <2>4. \A e \in Emails : AccountKept(e)
    BY <1>1 DEF AccountKept
  <2>5. ZoneKept(q)
    BY <1>1, <2>1 DEF ZoneKept
  <2>6. RowsKept(q)
    BY <1>1 DEF RowsKept, ApiInv, TablesOK, IsTable
  <2> QED BY <1>2, <2>1, <2>3, <2>4, <2>5, <2>6, OthersKnowAccount, OthersKnowZone
<1> QED BY <1>2, <1>3, <1>4 DEF ApiInv

\* A request begins at its first statement.
LEMMA StartKeeps ==
    ASSUME ApiInv, NEW p \in Clients, Start(p)
    PROVE  ApiInv'
<1>1. PICK r \in Requests : req' = [req EXCEPT ![p] = r]
  BY DEF Start
<1>2. /\ req[p] = NoRequest /\ pc' = [pc EXCEPT ![p] = 1]
      /\ UNCHANGED <<accounts, data, ref>> /\ ans' = ans /\ moved' = moved
  BY DEF Start
<1>3. \A s \in Requests : s.op \in DOMAIN Program
  BY Asked DEF ApiInv, AccountsOK
<1>4. NoRequest \notin Requests
  BY <1>3 DEF NoRequest, Program
<1>5. ans[p] = "none"
  BY <1>2, <1>4 DEF ApiInv, Served
<1>6. Len(Program[r.op]) \in Nat /\ Len(Program[r.op]) > 0
  <2>1. PICK s : s = Program[r.op]
    OBVIOUS
  <2>2. s \in Seq(Statements) /\ Len(s) > 0
    BY <1>3, <2>1, Programs DEF IsProgram, Chain
  <2> QED BY <2>1, <2>2
<1>7. tokens' = tokens /\ mailed' = mailed
  BY <1>2 DEF accounts
<1>8. Requests \subseteq Requests'
  BY <1>7, StillAsked
<1>9. ControlOK'
  BY <1>1, <1>2 DEF ApiInv, ControlOK
<1>10. req'[p] = r /\ pc'[p] = 1
  BY <1>1, <1>2 DEF ApiInv, ControlOK
<1>11. Served(p)'
  BY <1>2, <1>5, <1>6, <1>8, <1>10 DEF Served
<1>12. \A q \in Clients \ {p} : /\ req'[q] = req[q] /\ pc'[q] = pc[q]
                                /\ ans'[q] = ans[q] /\ moved'[q] = moved[q]
  BY <1>1, <1>2 DEF ApiInv, ControlOK
<1> QED BY <1>2, <1>9, <1>10, <1>11, <1>12, OthersKeep

\* A statement that fails changes nothing.
LEMMA StatementFailsKeeps ==
    ASSUME ApiInv, NEW p \in Clients, StatementFails(p)
    PROVE  ApiInv'
<1>1. PICK a \in {"internal", "denied"} :
          Running(p) /\ Answer(p, a) /\ UNCHANGED <<accounts, data, moved>>
  BY DEF StatementFails
<1>2. a \in Answers
  BY DEF Answers
<1>3. Advances(p, NoId)
  BY <1>1, <1>2, AnswerEnds
<1>4. pc'[p] = 0
  BY <1>1 DEF Answer, ApiInv, ControlOK
<1>5. KnownAccount(p)' /\ KnownZone(p)'
  BY <1>4 DEF KnownAccount, KnownZone
<1> QED BY <1>1, <1>3, <1>5, ReadKeeps

\* A request that was answered is over.
LEMMA RespondKeeps ==
    ASSUME ApiInv, NEW p \in Clients, Respond(p)
    PROVE  ApiInv'
<1>1. /\ ans[p] # "none" /\ req' = [req EXCEPT ![p] = NoRequest] /\ ans' = [ans EXCEPT ![p] = "none"]
      /\ moved' = [moved EXCEPT ![p] = FALSE] /\ UNCHANGED <<accounts, data, ref>> /\ pc' = pc
  BY DEF Respond
<1>2. pc[p] = 0
  BY <1>1 DEF ApiInv, Served, ControlOK
<1>3. ControlOK'
  BY <1>1 DEF ApiInv, ControlOK, Answers
<1>4. Served(p)'
  BY <1>1, <1>2 DEF Served, ApiInv, ControlOK
<1>5. \A q \in Clients \ {p} : /\ req'[q] = req[q] /\ pc'[q] = pc[q]
                               /\ ans'[q] = ans[q] /\ moved'[q] = moved[q]
  BY <1>1 DEF ApiInv, ControlOK
<1> QED BY <1>1, <1>2, <1>3, <1>4, <1>5, OthersKeep

(***************************************************************************)
(* The theorems.                                                           *)
(***************************************************************************)
\* Every step keeps the invariant, and changes the rows of zones of the user
\* whose statement it is.
LEMMA StepKeeps ==
    ASSUME ApiInv, NEW p \in Clients,
           Start(p) \/ Read(p) \/ WriteZoneData(p) \/ WriteAccount(p) \/ StatementFails(p) \/ Respond(p)
    PROVE  /\ ApiInv' /\ OwnRows(p)
           /\ \A q \in Clients \ {p} : Running(q) => pc'[q] = pc[q]
<1>1. UNCHANGED data => OwnRows(p)
  BY Touched DEF OwnRows
<1>2. \A q \in Clients \ {p} : Running(q) => pc'[q] = pc[q]
  <2>1. pc' = pc \/ \E n : pc' = [pc EXCEPT ![p] = n]
    BY DEF Start, Read, SelectUser, SelectOwner, SelectTaken, SelectZone, SelectLocation,
           SelectRecordSet, SelectList, rtypeValid, SelectCode, FirstRow,
           WriteZoneData, InsertZone, UpdateZoneRow, DeleteZoneRow, InsertLocation,
           UpdateLocationRow, DeleteLocationRow, InsertRecordSet, UpdateRecordSetRow,
           DeleteRecordSetRow, WriteAccount, InsertUser, InsertCode, SendCode, ActivateUser,
           DeleteCode, Authenticate, StatementFails, Respond, Written, Found, Answer
  <2> QED BY <2>1 DEF ApiInv, ControlOK
<1>3. CASE Start(p)
  BY <1>1, <1>2, <1>3, StartKeeps DEF Start
<1>4. CASE Read(p)
  BY <1>1, <1>2, <1>4, SelectUserKeeps, SelectOwnerKeeps, SelectZoneKeeps, SelectLocationKeeps,
     SelectRecordSetKeeps, OtherReadsKeep DEF Read
<1>5. CASE WriteZoneData(p)
  BY <1>2, <1>5, InsertZoneKeeps, UpdateZoneKeeps, DeleteZoneKeeps,
     InsertLocationKeeps, UpdateLocationKeeps, DeleteLocationKeeps,
     InsertRecordSetKeeps, UpdateRecordSetKeeps, DeleteRecordSetKeeps DEF WriteZoneData
<1>6. CASE WriteAccount(p)
  BY <1>1, <1>2, <1>6, InsertUserKeeps, InsertCodeKeeps, SendCodeKeeps, ActivateUserKeeps,
     DeleteCodeKeeps, AuthenticateKeeps DEF WriteAccount
<1>7. CASE StatementFails(p)
  BY <1>1, <1>2, <1>7, StatementFailsKeeps DEF StatementFails
<1>8. CASE Respond(p)
  BY <1>1, <1>2, <1>8, RespondKeeps DEF Respond
<1> QED BY <1>3, <1>4, <1>5, <1>6, <1>7, <1>8

\* The inductive invariant holds: what a request has found out in its earlier
\* statements is still so, unless its zone was deleted meanwhile.
THEOREM ApiInvariance == Spec => []ApiInv
<1>1. ApiInv /\ [Next]_vars => ApiInv'
  <2> SUFFICES ASSUME ApiInv, [Next]_vars PROVE ApiInv'
    OBVIOUS
  <2>1. CASE Next
    BY <2>1, StepKeeps DEF Next
  <2>2. CASE UNCHANGED vars
    <3>1. /\ users' = users /\ codes' = codes /\ mailed' = mailed /\ tokens' = tokens
          /\ zones' = zones /\ locations' = locations /\ recordSets' = recordSets
          /\ req' = req /\ pc' = pc /\ ref' = ref /\ ans' = ans /\ moved' = moved
      BY <2>2 DEF vars, accounts, data
    <3>2. TablesOK' /\ AccountsOK' /\ ControlOK'
      BY <3>1 DEF ApiInv, TablesOK, AccountsOK, ControlOK, IsTable, IdsOf
    <3>3. Requests \subseteq Requests'
      BY <3>1, StillAsked
    <3>4. \A q \in Clients : Served(q)'
      BY <3>1, <3>3 DEF ApiInv, Served
    <3>5. \A q \in Clients : KnownAccount(q)'
      BY <3>1 DEF ApiInv, KnownAccount, Before
    <3>6. \A q \in Clients : KnownZone(q)'
      BY <3>1 DEF ApiInv, KnownZone, Before, Mine, InMine, ZoneNamed
    <3> QED BY <3>2, <3>4, <3>5, <3>6 DEF ApiInv
  <2> QED BY <2>1, <2>2
<1> QED BY <1>1, ApiInvInit, PTL DEF Spec

\* The tables are consistent: ids, names in a zone and types at a location are
\* unique, no row refers to one that is gone, and zones belong to active accounts.
THEOREM TypeCorrect == Spec => []TypeOK
<1>1. ApiInv => TypeOK
  BY DEF ApiInv, ControlOK, TablesOK, AccountsOK, TypeOK, IsTable, IdsOf
<1> QED BY <1>1, ApiInvariance, PTL

\* A code that was sent works until it has activated its account, and only an
\* account whose code was sent has a token.
THEOREM CodesAlwaysWork == Spec => []CodesWork
<1>1. ApiInv => CodesWork
  BY DEF ApiInv, AccountsOK, CodesWork
<1> QED BY <1>1, ApiInvariance, PTL

\* A statement changes rows of the zones of its user alone, although it finds
\* them by what isZoneOwner and the selects have told the request before.
THEOREM OwnRowsAlways == Spec => OwnRowsOnly
<1> DEFINE Own == \A p \in Clients :
                      Running(p) /\ pc'[p] # pc[p] /\ ~moved[p] =>
                          \A z \in TouchedZones : z.owner = req[p].user
<1>1. ApiInv /\ [Next]_vars => [Own]_vars
  <2> SUFFICES ASSUME ApiInv, Next, NEW p \in Clients, Running(p), pc'[p] # pc[p], ~moved[p],
                      NEW z \in TouchedZones
               PROVE  z.owner = req[p].user
    OBVIOUS
  <2>1. PICK q \in Clients :
            Start(q) \/ Read(q) \/ WriteZoneData(q) \/ WriteAccount(q) \/ StatementFails(q) \/ Respond(q)
    BY DEF Next
  <2>2. /\ OwnRows(q)
        /\ \A r \in Clients \ {q} : Running(r) => pc'[r] = pc[r]
    BY <2>1, StepKeeps
  <2> QED BY <2>2 DEF OwnRows
<1> QED BY <1>1, ApiInvariance, PTL DEF Spec, OwnRowsOnly

(***************************************************************************)
(* Answers are true of a moment.                                           *)
(*                                                                         *)
(* A request is decided by one of its statements: when that statement has  *)
(* found its row, or is to write it, the request could be granted.  A      *)
(* request that is refused could not be granted at the moment of the       *)
(* statement that refuses it, or a row that it had found was deleted, and  *)
(* it could not be granted then.                                           *)
(***************************************************************************)
DecidedBy(op) ==
    CASE op = "signup" -> "insertUser"
      [] op = "verify" -> "code"
      [] op = "login" -> "authenticate"
      [] op = "getZones" -> "user"
      [] op = "addZone" -> "insertZone"
      [] op \in {"getZone", "updateZone", "deleteZone", "getLocations"} -> "owner"
      [] op = "addLocation" -> "insertLocation"
      [] op \in {"getLocation", "updateLocation", "deleteLocation", "getRecordSets"} -> "location"
      [] op = "addRecordSet" -> "insertRecordSet"
      [] op \in {"getRecordSet", "updateRecordSet", "deleteRecordSet"} -> "recordSet"

\* The operation that a statement belongs to.
LEMMA OfOperation ==
    ASSUME NEW op \in DOMAIN Program, NEW d \in StatementsOf(op)
    PROVE  /\ d \in {"insertUser", "insertCode", "sendCode"} => op = "signup"
           /\ d \in {"code", "activate", "deleteCode"} => op = "verify"
           /\ d = "authenticate" => op = "login"
           /\ d \in {"nameTaken", "insertZone"} => op = "addZone"
           /\ d = "insertLocation" => op = "addLocation"
           /\ d = "insertRecordSet" => op = "addRecordSet"
           /\ d = "deleteZone" => op = "deleteZone"
           /\ d \in {"owner", "zone"} =>
                 op \notin {"signup", "verify", "login", "getZones", "addZone"}
           /\ d \in {"location", "updateLocation", "deleteLocation"} =>
                 op \in {"getLocation", "updateLocation", "deleteLocation", "getRecordSets", "addRecordSet",
                         "getRecordSet", "updateRecordSet", "deleteRecordSet"}
           /\ d \in {"rtype"} =>
                 op \in {"addRecordSet", "getRecordSet", "updateRecordSet", "deleteRecordSet"}
           /\ d \in {"recordSet", "updateRecordSet", "deleteRecordSet"} =>
                 op \in {"getRecordSet", "updateRecordSet", "deleteRecordSet"}
           /\ DecidedBy(op) \in StatementsOf(op)
<1>1. /\ StatementsOf("signup") = {"insertUser", "user", "insertCode", "sendCode"}
      /\ StatementsOf("verify") = {"code", "activate", "deleteCode"}
      /\ StatementsOf("login") = {"authenticate"}
      /\ StatementsOf("getZones") = {"user", "list"}
      /\ StatementsOf("addZone") = {"user", "nameTaken", "insertZone"}
      /\ StatementsOf("getZone") = {"user", "owner", "zone"}
      /\ StatementsOf("updateZone") = {"user", "owner", "zone", "updateZone"}
      /\ StatementsOf("deleteZone") = {"user", "owner", "deleteZone"}
      /\ StatementsOf("getLocations") = {"user", "owner", "zone", "list"}
      /\ StatementsOf("addLocation") = {"user", "owner", "zone", "insertLocation"}
  BY DEF StatementsOf, InZone
<1>2. /\ StatementsOf("getLocation") = {"user", "owner", "zone", "location"}
      /\ StatementsOf("updateLocation") = {"user", "owner", "zone", "location", "updateLocation"}
      /\ StatementsOf("deleteLocation") = {"user", "owner", "zone", "location", "deleteLocation"}
      /\ StatementsOf("getRecordSets") = {"user", "owner", "zone", "location", "list"}
      /\ StatementsOf("addRecordSet") = {"user", "owner", "zone", "location", "rtype", "insertRecordSet"}
      /\ StatementsOf("getRecordSet") = {"user", "owner", "zone", "location", "rtype", "recordSet"}
  BY DEF StatementsOf, InZone, InLocation, InRecordSet
<1>3. /\ StatementsOf("updateRecordSet") =
            {"user", "owner", "zone", "location", "rtype", "recordSet", "updateRecordSet"}
      /\ StatementsOf("deleteRecordSet") =
            {"user", "owner", "zone", "location", "rtype", "recordSet", "deleteRecordSet"}
  BY DEF StatementsOf, InZone, InLocation, InRecordSet
<1>4. CASE op \in {"signup", "verify", "login", "getZones", "addZone"}
  BY <1>1, <1>4 DEF DecidedBy
<1>5. CASE op \in {"getZone", "updateZone", "deleteZone", "getLocations", "addLocation"}
  BY <1>1, <1>5 DEF DecidedBy
<1>6. CASE op \in {"getLocation", "updateLocation", "deleteLocation", "getRecordSets"}
  BY <1>2, <1>6 DEF DecidedBy
<1>7. CASE op \in {"addRecordSet", "getRecordSet", "updateRecordSet", "deleteRecordSet"}
  BY <1>2, <1>3, <1>7 DEF DecidedBy
<1> QED BY <1>4, <1>5, <1>6, <1>7 DEF Program

\* The statements of signup and of verify fail with an internal error.
Internal(s) == s \in Seq(Statements) /\ \A i \in 1..Len(s) : s[i].none = "internal"

LEMMA InternalErrors == Internal(signup) /\ Internal(Verify)
<1>1. \A d \in AccountStatements \union {"user"} : Internal(Do(d))
  <2> SUFFICES ASSUME NEW d \in AccountStatements \union {"user"} PROVE Internal(Do(d))
    OBVIOUS
  <2>1. PICK x : x = [do |-> d, none |-> "internal"]
    OBVIOUS
  <2>2. x \in Statements /\ x.none = "internal" /\ Do(d) = <<x>>
    BY <2>1 DEF Statements, Errors, Do
  <2> QED BY <2>2 DEF Internal
<1>2. \A s, t : Internal(s) /\ Internal(t) => Internal(s \o t)
  <2> SUFFICES ASSUME NEW s, NEW t, Internal(s), Internal(t) PROVE Internal(s \o t)
    OBVIOUS
  <2>1. s \in Seq(Statements) /\ t \in Seq(Statements)
    BY DEF Internal
  <2>2. PICK a, b, c : a = Len(s) /\ b = Len(t) /\ c = s \o t
    OBVIOUS
  <2>3. /\ a \in Nat /\ b \in Nat /\ c \in Seq(Statements) /\ Len(c) = a + b
        /\ \A i \in 1..(a + b) : c[i] = IF i <= a THEN s[i] ELSE t[i - a]
    BY <2>1, <2>2
  <2>4. ASSUME NEW i \in 1..(a + b) PROVE c[i].none = "internal"
    <3>1. CASE i <= a
      BY <2>2, <2>3, <3>1 DEF Internal
    <3>2. CASE i > a
      <4>1. i - a \in 1..b /\ c[i] = t[i - a]
        BY <2>3, <3>2
      <4> QED BY <2>2, <4>1 DEF Internal
    <3> QED BY <2>3, <3>1, <3>2
  <2> QED BY <2>2, <2>3, <2>4 DEF Internal
<1>3. {"insertUser", "insertCode", "sendCode", "code", "activate", "deleteCode"} \subseteq AccountStatements
  BY DEF AccountStatements
<1>4. Internal(AddUser) /\ Internal(AddVerification) /\ Internal(Do("sendCode"))
  BY <1>1, <1>2, <1>3 DEF AddUser, AddVerification
<1>5. Internal(Do("code")) /\ Internal(Do("activate")) /\ Internal(Do("deleteCode"))
  BY <1>1, <1>3
<1> QED BY <1>2, <1>4, <1>5 DEF signup, Verify

\* AddRecordSet checks the type before it inserts.
LEMMA TypeIsChecked ==
    \A i \in 1..Len(Program["addRecordSet"]) :
        Program["addRecordSet"][i].do = "insertRecordSet" =>
            \E j \in 1..(i - 1) : Program["addRecordSet"][j].do = "rtype"
<1>1. /\ "internal" \in Errors /\ "invalid" \in Errors
      /\ {"rtype", "insertRecordSet"} \subseteq AccountStatements \union ZoneStatements \union {"user", "list"}
  BY DEF Errors, ZoneStatements
<1>2. /\ Chain(isZoneOwner("invalid"), "user", "owner", {"user", "owner"})
      /\ Chain(GetLocation("invalid"), "user", "location", InLocation)
      /\ Chain(Do("insertRecordSet"), "insertRecordSet", "insertRecordSet", {"insertRecordSet"})
      /\ Follows("rtype", "owner") /\ Follows("user", "rtype")
  BY <1>1, Selects, OneStatement DEF Follows
<1>3. Chain(isZoneOwner("invalid") \o Find("rtype", "invalid"), "user", "rtype",
            {"user", "owner"} \union {"rtype"})
  BY <1>1, <1>2, Then
<1>4. PICK s, T : /\ s = isZoneOwner("invalid") \o Find("rtype", "invalid") \o GetLocation("invalid")
                  /\ T = ({"user", "owner"} \union {"rtype"}) \union InLocation
  OBVIOUS
<1>5. Chain(s, "user", "location", T)
  BY <1>2, <1>3, <1>4, Joined
<1>6. "rtype" \in T /\ "insertRecordSet" \notin T
  BY <1>4 DEF InLocation, InZone
<1>7. PICK k \in 1..Len(s) : s[k].do = "rtype"
  BY <1>5, <1>6 DEF Chain
<1>8. \A j \in 1..Len(s) : s[j].do # "insertRecordSet"
  BY <1>5, <1>6 DEF Chain
<1>9. PICK t : t = Do("insertRecordSet")
  OBVIOUS
<1>10. s \in Seq(Statements) /\ t \in Seq(Statements) /\ Program["addRecordSet"] = s \o t
  BY <1>2, <1>4, <1>5, <1>9 DEF Chain, Program, AddRecordSet
<1>11. /\ Len(s) \in Nat /\ Len(s \o t) \in Nat
       /\ \A j \in 1..Len(s) : (s \o t)[j] = s[j]
  BY <1>10
<1> SUFFICES ASSUME NEW i \in 1..Len(s \o t), (s \o t)[i].do = "insertRecordSet"
             PROVE  \E j \in 1..(i - 1) : (s \o t)[j].do = "rtype"
  BY <1>10
<1>12. ~(i \in 1..Len(s))
  BY <1>8, <1>11
<1>13. k \in 1..(i - 1)
  BY <1>11, <1>12
<1> QED BY <1>7, <1>11, <1>13

Passed(p, d) == \E j \in 1..(pc[p] - 1) : Program[req[p].op][j].do = d

\* What the statements have told a request, when its zone was not deleted.
Watched(p) == IF Granted(req[p]) THEN TRUE \in seen[p] ELSE FALSE \in seen[p]

KnownRows(p) ==
    /\ Before(p) = "location" =>
          /\ \A l \in locations : l.id = ref[p] => l.name = req[p].location
          /\ ref[p] \in IdsOf(locations) \/ FALSE \in seen[p]
    /\ Before(p) = "recordSet" =>
          /\ \A r \in recordSets : r.id = ref[p] =>
                /\ r.type = req[p].rtype
                /\ \A l \in locations : l.id = r.location => l.name = req[p].location
          /\ ref[p] \in IdsOf(recordSets) \/ FALSE \in seen[p]

Told(p) ==
    ~moved[p] =>
        /\ Running(p) => Watched(p)
        /\ pc[p] > 1 => KnownRows(p)
        /\ Running(p) /\ Passed(p, DecidedBy(req[p].op)) => TRUE \in seen[p]
        /\ ans[p] = "ok" => TRUE \in seen[p]
        /\ ans[p] \notin {"none", "internal", "denied", "ok"} => FALSE \in seen[p]

\* The types of record sets are supported, for AddRecordSet has checked them.
Typed(p) == Running(p) /\ Passed(p, "rtype") => req[p].rtype \in SupportedTypes

MomentInv ==
    /\ \A r \in recordSets : r.type \in SupportedTypes
    /\ \A p \in Clients : Typed(p) /\ Told(p)

\* The operation that runs, its statements and its user.
LEMMA AtOperation ==
    ASSUME ApiInv, NEW p \in Clients, Running(p)
    PROVE  /\ req[p].op \in DOMAIN Program
           /\ Statement(p).do \in StatementsOf(req[p].op)
           /\ \E i \in 1..Len(Program[req[p].op]) :
                 Program[req[p].op][i].do = DecidedBy(req[p].op)
           /\ req[p].op \in {"signup", "verify"} => Statement(p).none = "internal"
           /\ req[p].op \notin {"signup", "verify", "login"} => req[p].user \in tokens
<1>1. /\ req[p] \in Requests /\ pc[p] \in 1..Len(Program[req[p].op])
      /\ req[p].op \in DOMAIN Program
  BY AtStatement
<1>2. PICK op, s, i : op = req[p].op /\ s = Program[op] /\ i = pc[p]
  OBVIOUS
<1>3. PICK head, last : Chain(s, head, last, StatementsOf(op))
  BY <1>1, <1>2, Programs DEF IsProgram
<1>4. s[i].do \in StatementsOf(op) /\ \A d \in StatementsOf(op) : \E j \in 1..Len(s) : s[j].do = d
  BY <1>1, <1>2, <1>3 DEF Chain
<1>5. DecidedBy(op) \in StatementsOf(op)
  BY <1>1, <1>2, <1>4, OfOperation
<1>6. op \in {"signup", "verify"} => s[i].none = "internal"
  BY <1>1, <1>2, InternalErrors DEF Internal, Program
<1>7. op \notin {"signup", "verify", "login"} => req[p].user \in tokens
  BY <1>1, <1>2 DEF Requests, AccountRequests, ZoneRequests, LocationRequests, RecordSetRequests
<1> QED BY <1>1, <1>2, <1>4, <1>5, <1>6, <1>7 DEF Statement

\* A request is granted or not.
LEMMA GrantedOrNot ==
    \A r : r.op \in DOMAIN Program => Granted(r) = TRUE \/ Granted(r) = FALSE
<1> SUFFICES ASSUME NEW r, r.op \in DOMAIN Program PROVE Granted(r) = TRUE \/ Granted(r) = FALSE
  OBVIOUS
<1>1. CASE r.op \in {"signup", "verify", "login", "getZones", "addZone"}
  <2>1. r.op = "signup" => Granted(r) = (users[r.user] = "none")
    BY DEF Granted
  <2>2. r.op = "verify" => Granted(r) = (r.user \in codes)
    BY DEF Granted
  <2>3. r.op = "login" => Granted(r) = (users[r.user] = "active")
    BY DEF Granted
  <2>4. r.op = "getZones" => Granted(r) = TRUE
    BY DEF Granted
  <2>5. r.op = "addZone" => Granted(r) = (ZoneNamed(r.zone) = {})
    BY DEF Granted
  <2> QED BY <1>1, <2>1, <2>2, <2>3, <2>4, <2>5
<1>2. CASE r.op \in {"getZone", "updateZone", "deleteZone", "getLocations", "addLocation"}
  BY <1>2 DEF Granted, Owned
<1>3. CASE r.op \in {"getLocation", "updateLocation", "deleteLocation", "getRecordSets"}
  BY <1>3 DEF Granted, Owned
<1>4. CASE r.op \in {"addRecordSet", "getRecordSet", "updateRecordSet", "deleteRecordSet"}
  BY <1>4 DEF Granted, Owned
<1> QED BY <1>1, <1>2, <1>3, <1>4 DEF Program

LEMMA GrantedOrNotNext ==
    (\A r : r.op \in DOMAIN Program => Granted(r) = TRUE \/ Granted(r) = FALSE)'
BY GrantedOrNot, PTL

\* What it takes.
LEMMA Grants ==
    ASSUME NEW r
    PROVE  /\ r.op = "signup" => (Granted(r) <=> users[r.user] = "none")
           /\ r.op = "verify" => (Granted(r) <=> r.user \in codes)
           /\ r.op = "login" => (Granted(r) <=> users[r.user] = "active")
           /\ r.op = "getZones" => Granted(r)
           /\ r.op = "addZone" => (Granted(r) <=> ZoneNamed(r.zone) = {})
           /\ r.op \in {"getZone", "updateZone", "deleteZone", "getLocations"} => (Granted(r) <=> Owned(r))
           /\ r.op = "addLocation" => (Granted(r) <=> Owned(r) /\ LocationsOf(r) = {})
           /\ r.op \in {"getLocation", "updateLocation", "deleteLocation", "getRecordSets"} =>
                 (Granted(r) <=> Owned(r) /\ LocationsOf(r) # {})
           /\ r.op = "addRecordSet" =>
                 (Granted(r) <=> /\ Owned(r) /\ r.rtype \in SupportedTypes
                                 /\ LocationsOf(r) # {} /\ RecordSetsOf(r) = {})
           /\ r.op \in {"getRecordSet", "updateRecordSet", "deleteRecordSet"} =>
                 (Granted(r) <=> Owned(r) /\ RecordSetsOf(r) # {})
BY DEF Granted

LEMMA GrantsNext ==
    ASSUME NEW r
    PROVE  /\ r.op \in {"getLocation", "updateLocation", "deleteLocation", "getRecordSets"} =>
                 (Granted(r)' => LocationsOf(r)' # {})
           /\ r.op = "addRecordSet" => (Granted(r)' => LocationsOf(r)' # {})
           /\ r.op \in {"getRecordSet", "updateRecordSet", "deleteRecordSet"} =>
                 (Granted(r)' => RecordSetsOf(r)' # {} /\ LocationsOf(r)' # {})
<1>1. RecordSetsOf(r)' # {} => LocationsOf(r)' # {}
  BY DEF RecordSetsOf, IdsOf
<1> QED BY <1>1 DEF Granted

(***************************************************************************)
(* What a step does to the other requests.                                 *)
(***************************************************************************)
\* seen keeps what it has, and gets what is so after the step.
LEMMA WatchTells ==
    ASSUME Watch, NEW q \in Clients, ~moved'[q], req'[q] # NoRequest
    PROVE  /\ seen[q] \subseteq seen'[q]
           /\ pc'[q] > 0 /\ req'[q].op \in DOMAIN Program => Watched(q)'
<1>1. seen'[q] = IF pc'[q] > 0 THEN seen[q] \union {WouldSucceed(q)'} ELSE seen[q]
  BY DEF Watch
<1>2. ASSUME pc'[q] > 0, req'[q].op \in DOMAIN Program PROVE Watched(q)'
  <2>1. Granted(req[q])' \in seen'[q]
    BY <1>1, <1>2 DEF WouldSucceed
  <2>2. Granted(req[q])' = TRUE \/ Granted(req[q])' = FALSE
    BY <1>2, GrantedOrNotNext
  <2>3. CASE Granted(req[q])' = TRUE
    BY <2>1, <2>3 DEF Watched
  <2>4. CASE Granted(req[q])' = FALSE
    BY <2>1, <2>4 DEF Watched
  <2> QED BY <2>2, <2>3, <2>4
<1>3. seen[q] \subseteq seen'[q]
  BY <1>1
<1> QED BY <1>2, <1>3

\* A row of the new table was there, or has an id that nobody remembers.
OldOrNew(old, new) ==
    \A n \in new : \/ \E r \in old : SameRow(n, r)
                   \/ n.id \notin IdsOf(old) /\ \A q \in Clients : n.id # ref[q]
NoneGone(old, new) == \A r \in old : \E n \in new : SameRow(n, r)

\* Rows are added and updated, or they are deleted.
RowsStep ==
    /\ OldOrNew(locations, locations') /\ OldOrNew(recordSets, recordSets')
    /\ \/ NoneGone(locations, locations') /\ NoneGone(recordSets, recordSets')
       \/ zones' \subseteq zones /\ locations' \subseteq locations /\ recordSets' \subseteq recordSets

\* The fields of a row that has been found again.
LEMMA SameFields ==
    ASSUME NEW n, NEW r, SameRow(n, r)
    PROVE  \A f \in DOMAIN r : f # "by" => n[f] = r[f]
BY DEF SameRow

\* A row that a request has found is still there, or it could not be granted
\* at the moment the row was deleted.
LEMMA RowsRemembered ==
    ASSUME ApiInv, ApiInv', NEW q \in Clients, req'[q] = req[q], pc'[q] = pc[q], ref'[q] = ref[q],
           pc[q] > 1, ~moved[q], ~moved'[q], KnownRows(q), RowsStep,
           seen[q] \subseteq seen'[q], Watched(q)'
    PROVE  KnownRows(q)'
<1>1. Running(q) /\ Before(q)' = Before(q)
  BY DEF Running, Before, ApiInv, ControlOK
<1>2. TablesOK /\ TablesOK' /\ KnownZone(q) /\ KnownZone(q)'
  BY DEF ApiInv
<1>3. req[q].op \in DOMAIN Program /\ Before(q) \in StatementsOf(req[q].op)
  <2>1. pc[q] - 1 \in 1..Len(Program[req[q].op]) /\ req[q].op \in DOMAIN Program
    BY <1>1, AtStatement DEF ApiInv, ControlOK
  <2>2. PICK head, last : Chain(Program[req[q].op], head, last, StatementsOf(req[q].op))
    BY <2>1, Programs DEF IsProgram
  <2> QED BY <2>1, <2>2 DEF Chain, Before
<1>4. ASSUME NEW m \in locations', NEW l \in locations, m.id = l.id
      PROVE  m.name = l.name /\ m.zone = l.zone
  <2>1. PICK k \in locations : SameRow(m, k)
    BY <1>4 DEF RowsStep, OldOrNew, IdsOf
  <2>2. m.id = k.id /\ m.name = k.name /\ m.zone = k.zone
    BY <1>2, <2>1, SameFields DEF TablesOK, IsTable
  <2>3. k = l
    BY <1>2, <1>4, <2>2 DEF TablesOK, IsTable
  <2> QED BY <2>2, <2>3
<1>5. ASSUME Before(q) = "location"
      PROVE  /\ \A m \in locations' : m.id = ref[q] => m.name = req[q].location
             /\ ref[q] \in IdsOf(locations)' \/ FALSE \in seen'[q]
  <2>1. /\ \A l \in locations : l.id = ref[q] => l.name = req[q].location
        /\ ref[q] \in IdsOf(locations) \/ FALSE \in seen[q]
    BY <1>5 DEF KnownRows
  <2>2. ASSUME NEW m \in locations', m.id = ref[q] PROVE m.name = req[q].location
    <3>1. PICK k \in locations : SameRow(m, k)
      BY <2>2 DEF RowsStep, OldOrNew
    <3>2. m.id = k.id /\ m.name = k.name
      BY <1>2, <3>1, SameFields DEF TablesOK, IsTable
    <3> QED BY <2>1, <2>2, <3>2
  <2>3. CASE NoneGone(locations, locations')
    <3>1. ASSUME NEW l \in locations, l.id = ref[q] PROVE ref[q] \in IdsOf(locations)'
      <4>1. PICK m \in locations' : SameRow(m, l)
        BY <2>3 DEF NoneGone
      <4>2. m.id = l.id
        BY <1>2, <4>1, SameFields DEF TablesOK, IsTable
      <4> QED BY <3>1, <4>2 DEF IdsOf
    <3> QED BY <2>1, <2>2, <3>1 DEF IdsOf
  <2>4. CASE zones' \subseteq zones /\ locations' \subseteq locations
    <3> SUFFICES ASSUME ref[q] \in IdsOf(locations), ref[q] \notin IdsOf(locations)'
                 PROVE  FALSE \in seen'[q]
      BY <2>1, <2>2
    <3>1. PICK l \in locations : l.id = ref[q]
      BY DEF IdsOf
    <3>2. l.name = req[q].location /\ InMine(q, l.zone) /\ l \notin locations'
      BY <1>2, <1>5, <2>1, <3>1 DEF KnownZone, IdsOf
    <3>3. LocationsOf(req[q])' = {}
      <4> SUFFICES ASSUME NEW m \in LocationsOf(req[q])' PROVE FALSE
        OBVIOUS
      <4>1. m \in locations' /\ m.name = req[q].location /\ m.zone \in IdsOf(ZoneNamed(req[q].zone))'
        BY DEF LocationsOf
      <4>2. PICK z \in zones' : z.name = req[q].zone /\ z.id = m.zone
        BY <4>1 DEF IdsOf, ZoneNamed
      <4>3. PICK y \in zones : y.name = req[q].zone /\ y.id = l.zone
        BY <3>2 DEF InMine, ZoneNamed
      <4>4. m.zone = l.zone
        BY <1>2, <2>4, <4>2, <4>3 DEF TablesOK
      <4>5. m = l
        BY <1>2, <2>4, <3>2, <4>1, <4>4 DEF TablesOK
      <4> QED BY <3>2, <4>1, <4>5
    <3>4. ~Granted(req[q])'
      <4>1. req[q].op \in {"getLocation", "updateLocation", "deleteLocation", "getRecordSets",
                           "addRecordSet", "getRecordSet", "updateRecordSet", "deleteRecordSet"}
        BY <1>3, <1>5, OfOperation
      <4>2. PICK r : r = req[q]
        OBVIOUS
      <4>3. Granted(r)' => LocationsOf(r)' # {}
        BY <4>1, <4>2, GrantsNext
      <4>4. Granted(r)' = Granted(req[q])' /\ LocationsOf(r)' = LocationsOf(req[q])'
        BY <4>2
      <4> QED BY <3>3, <4>3, <4>4
    <3> QED BY <3>4 DEF Watched
  <2> QED BY <2>3, <2>4 DEF RowsStep
<1>6. ASSUME Before(q) = "recordSet"
      PROVE  /\ \A s \in recordSets' : s.id = ref[q] =>
                   /\ s.type = req[q].rtype
                   /\ \A m \in locations' : m.id = s.location => m.name = req[q].location
             /\ ref[q] \in IdsOf(recordSets)' \/ FALSE \in seen'[q]
  <2>1. /\ \A r \in recordSets : r.id = ref[q] =>
              /\ r.type = req[q].rtype
              /\ \A l \in locations : l.id = r.location => l.name = req[q].location
        /\ ref[q] \in IdsOf(recordSets) \/ FALSE \in seen[q]
    BY <1>6 DEF KnownRows
  <2>2. ASSUME NEW s \in recordSets', s.id = ref[q]
        PROVE  /\ s.type = req[q].rtype
               /\ \A m \in locations' : m.id = s.location => m.name = req[q].location
    <3>1. PICK r \in recordSets : SameRow(s, r)
      BY <2>2 DEF RowsStep, OldOrNew
    <3>2. s.id = r.id /\ s.type = r.type /\ s.location = r.location
      BY <1>2, <3>1, SameFields DEF TablesOK, IsTable
    <3>3. PICK l \in locations : l.id = r.location
      BY <1>2 DEF TablesOK, IdsOf
    <3> QED BY <1>4, <2>1, <2>2, <3>2, <3>3
  <2>3. CASE NoneGone(recordSets, recordSets')
    <3>1. ASSUME NEW r \in recordSets, r.id = ref[q] PROVE ref[q] \in IdsOf(recordSets)'
      <4>1. PICK s \in recordSets' : SameRow(s, r)
        BY <2>3 DEF NoneGone
      <4>2. s.id = r.id
        BY <1>2, <4>1, SameFields DEF TablesOK, IsTable
      <4> QED BY <3>1, <4>2 DEF IdsOf
    <3> QED BY <2>1, <2>2, <3>1 DEF IdsOf
  <2>4. CASE zones' \subseteq zones /\ locations' \subseteq locations /\ recordSets' \subseteq recordSets
    <3> SUFFICES ASSUME ref[q] \in IdsOf(recordSets), ref[q] \notin IdsOf(recordSets)'
                 PROVE  FALSE \in seen'[q]
      BY <2>1, <2>2
    <3>1. PICK r \in recordSets : r.id = ref[q]
      BY DEF IdsOf
    <3>2. PICK l \in locations : l.id = r.location /\ InMine(q, l.zone)
      BY <1>2, <1>6, <3>1 DEF KnownZone
    <3>3. r.type = req[q].rtype /\ l.name = req[q].location /\ r \notin recordSets'
      BY <2>1, <3>1, <3>2 DEF IdsOf
    <3>4. RecordSetsOf(req[q])' = {}
      <4> SUFFICES ASSUME NEW s \in RecordSetsOf(req[q])' PROVE FALSE
        OBVIOUS
      <4>1. s \in recordSets' /\ s.type = req[q].rtype /\ s.location \in IdsOf(LocationsOf(req[q]))'
        BY DEF RecordSetsOf
      <4>2. PICK m \in locations' :
                m.id = s.location /\ m.name = req[q].location /\ m.zone \in IdsOf(ZoneNamed(req[q].zone))'
        BY <4>1 DEF IdsOf, LocationsOf
      <4>3. PICK z \in zones' : z.name = req[q].zone /\ z.id = m.zone
        BY <4>2 DEF IdsOf, ZoneNamed
      <4>4. PICK y \in zones : y.name = req[q].zone /\ y.id = l.zone
        BY <3>2 DEF InMine, ZoneNamed
      <4>5. m.zone = l.zone
        BY <1>2, <2>4, <4>3, <4>4 DEF TablesOK
      <4>6. m = l
        BY <1>2, <2>4, <3>3, <4>2, <4>5 DEF TablesOK
      <4>7. s = r
        BY <1>2, <2>4, <3>2, <3>3, <4>1, <4>2, <4>6 DEF TablesOK
      <4> QED BY <3>3, <4>1, <4>7
    <3>5. ~Granted(req[q])'
      <4>1. req[q].op \in {"getRecordSet", "updateRecordSet", "deleteRecordSet"}
        BY <1>3, <1>6, OfOperation
      <4>2. PICK x : x = req[q]
        OBVIOUS
      <4>3. Granted(x)' => RecordSetsOf(x)' # {}
        BY <4>1, <4>2, GrantsNext
      <4>4. Granted(x)' = Granted(req[q])' /\ RecordSetsOf(x)' = RecordSetsOf(req[q])'
        BY <4>2
      <4> QED BY <3>4, <4>3, <4>4
    <3> QED BY <3>5 DEF Watched
  <2> QED BY <2>3, <2>4 DEF RowsStep
<1> QED BY <1>1, <1>5, <1>6 DEF KnownRows

\* A step of a client.
StepOf(p) ==
    Start(p) \/ Read(p) \/ WriteZoneData(p) \/ WriteAccount(p) \/ StatementFails(p) \/ Respond(p)

\* It leaves the requests of the others alone, but for the zone that is deleted.
LEMMA OthersAlone ==
    ASSUME ApiInv, NEW p \in Clients, StepOf(p), NEW q \in Clients \ {p}
    PROVE  /\ req'[q] = req[q] /\ pc'[q] = pc[q] /\ ref'[q] = ref[q] /\ ans'[q] = ans[q]
           /\ ~moved'[q] => ~moved[q]
<1> USE DEF StepOf, Start, Read, SelectUser, SelectOwner, SelectTaken, SelectZone, SelectLocation,
            SelectRecordSet, SelectList, rtypeValid, SelectCode, FirstRow,
            WriteZoneData, InsertZone, UpdateZoneRow, DeleteZoneRow, InsertLocation,
            UpdateLocationRow, DeleteLocationRow, InsertRecordSet, UpdateRecordSetRow,
            DeleteRecordSetRow, WriteAccount, InsertUser, InsertCode, SendCode, ActivateUser,
            DeleteCode, Authenticate, StatementFails, Respond, Written, Found, Answer
<1>1. req' = req \/ \E r : req' = [req EXCEPT ![p] = r]
  OBVIOUS
<1>2. pc' = pc \/ \E n : pc' = [pc EXCEPT ![p] = n]
  OBVIOUS
<1>3. ref' = ref \/ \E id : ref' = [ref EXCEPT ![p] = id]
  OBVIOUS
<1>4. ans' = ans \/ \E a : ans' = [ans EXCEPT ![p] = a]
  OBVIOUS
<1>5. \/ moved' = moved \/ moved' = [moved EXCEPT ![p] = FALSE]
      \/ \E name : moved' = [x \in Clients |-> moved[x] \/ (Running(x) /\ x # p /\ Concerns(x, name))]
  OBVIOUS
<1>6. /\ DOMAIN req = Clients /\ DOMAIN pc = Clients /\ DOMAIN ref = Clients
      /\ DOMAIN ans = Clients /\ DOMAIN moved = Clients
  BY DEF ApiInv, ControlOK
<1> HIDE DEF StepOf, Start, Read, WriteZoneData, WriteAccount, StatementFails, Respond
<1>7. req'[q] = req[q] /\ pc'[q] = pc[q] /\ ref'[q] = ref[q] /\ ans'[q] = ans[q]
  BY <1>1, <1>2, <1>3, <1>4, <1>6
<1>8. ~moved'[q] => ~moved[q]
  BY <1>5, <1>6
<1> QED BY <1>7, <1>8

\* What another request was told stays true.
LEMMA OthersTold ==
    ASSUME ApiInv, ApiInv', MomentInv, Watch, RowsStep, NEW p \in Clients, StepOf(p),
           NEW q \in Clients \ {p}
    PROVE  Typed(q)' /\ Told(q)'
<1>1. /\ req'[q] = req[q] /\ pc'[q] = pc[q] /\ ref'[q] = ref[q] /\ ans'[q] = ans[q]
      /\ ~moved'[q] => ~moved[q]
  BY OthersAlone
<1>2. Typed(q) /\ Told(q) /\ Served(q) /\ pc[q] \in Nat
  BY DEF MomentInv, ApiInv, ControlOK
<1>3. Running(q)' <=> Running(q)
  BY <1>1 DEF Running
<1>4. \A d : Passed(q, d)' <=> Passed(q, d)
  BY <1>1 DEF Passed
<1>5. Typed(q)'
  BY <1>1, <1>2, <1>3, <1>4 DEF Typed
<1>6. CASE moved'[q]
  BY <1>5, <1>6 DEF Told
<1>7. CASE ~moved'[q] /\ req'[q] = NoRequest
  <2>1. req[q] = NoRequest
    BY <1>1, <1>7
  <2>2. NoRequest \notin Requests
    BY DEF NoRequest, Requests, AccountRequests, ZoneRequests, LocationRequests, RecordSetRequests
  <2>3. pc'[q] = 0 /\ ans'[q] = "none"
    BY <1>1, <1>2, <2>1, <2>2 DEF Served
  <2> QED BY <1>5, <2>3 DEF Told, Running
<1>8. CASE ~moved'[q] /\ req'[q] # NoRequest
  <2>1. /\ seen[q] \subseteq seen'[q]
        /\ pc'[q] > 0 /\ req'[q].op \in DOMAIN Program => Watched(q)'
    BY <1>8, WatchTells
  <2>2. Running(q) => Watched(q)'
    BY <1>1, <2>1, AtOperation DEF Running
  <2>3. pc[q] > 1 => KnownRows(q)'
    <3> SUFFICES ASSUME pc[q] > 1 PROVE KnownRows(q)'
      OBVIOUS
    <3>1. Watched(q)' /\ ~moved[q] /\ ~moved'[q]
      BY <1>1, <1>2, <1>8, <2>2 DEF Running
    <3>2. KnownRows(q)
      BY <1>2, <3>1 DEF Told
    <3> QED BY <1>1, <2>1, <3>1, <3>2, RowsRemembered
  <2>4. /\ Running(q) /\ Passed(q, DecidedBy(req[q].op)) => TRUE \in seen[q]
        /\ ans[q] = "ok" => TRUE \in seen[q]
        /\ ans[q] \notin {"none", "internal", "denied", "ok"} => FALSE \in seen[q]
    BY <1>1, <1>2, <1>8 DEF Told
  <2>5. Running(q)' /\ Passed(q, DecidedBy(req[q].op))' => TRUE \in seen'[q]
    BY <1>1, <1>3, <1>4, <2>1, <2>4
  <2> QED BY <1>1, <1>3, <1>5, <2>1, <2>2, <2>3, <2>4, <2>5 DEF Told
<1> QED BY <1>6, <1>7, <1>8

\* AddRecordSet inserts a type that it has checked.
LEMMA InsertedType ==
    ASSUME ApiInv, NEW p \in Clients, Typed(p), At(p, "insertRecordSet")
    PROVE  req[p].rtype \in SupportedTypes
<1>1. Running(p) /\ Statement(p).do = "insertRecordSet"
  BY DEF At
<1>2. req[p].op = "addRecordSet" /\ pc[p] \in 1..Len(Program[req[p].op])
  BY <1>1, AtStatement, AtOperation, OfOperation
<1>3. \E j \in 1..(pc[p] - 1) : Program["addRecordSet"][j].do = "rtype"
  BY <1>1, <1>2, TypeIsChecked DEF Statement
<1> QED BY <1>1, <1>2, <1>3 DEF Typed, Passed

LEMMA SameRows == \A rows : OldOrNew(rows, rows) /\ NoneGone(rows, rows)
BY DEF OldOrNew, NoneGone, SameRow

\* Rows are found with a subset of the old ones.
LEMMA FewerRows ==
    ASSUME NEW old, NEW new \in SUBSET old
    PROVE  OldOrNew(old, new)
BY DEF OldOrNew, SameRow

\* A step changes the rows in one of the ways of RowsStep, and the types of the
\* record sets are supported.
LEMMA StepRows ==
    ASSUME ApiInv, MomentInv, NEW p \in Clients, StepOf(p)
    PROVE  RowsStep /\ \A r \in recordSets' : r.type \in SupportedTypes
<1>1. \A r \in recordSets : r.type \in SupportedTypes
  BY DEF MomentInv
<1>2. TablesOK /\ Typed(p)
  BY DEF ApiInv, MomentInv
<1>3. ASSUME UNCHANGED <<locations, recordSets>>
      PROVE  RowsStep /\ \A r \in recordSets' : r.type \in SupportedTypes
  BY <1>1, <1>3, SameRows DEF RowsStep
<1>4. CASE Start(p) \/ Read(p) \/ WriteAccount(p) \/ StatementFails(p) \/ Respond(p)
  BY <1>3, <1>4 DEF Start, Read, WriteAccount, StatementFails, Respond, data
<1>5. CASE WriteZoneData(p)
  <2>1. CASE InsertZone(p) \/ UpdateZoneRow(p)
    BY <1>3, <2>1 DEF InsertZone, UpdateZoneRow
  <2>2. ASSUME NEW zs \in SUBSET zones, NEW ls \in SUBSET locations, Cascade(zs, ls)
        PROVE  RowsStep /\ \A r \in recordSets' : r.type \in SupportedTypes
    <3>1. zones' \subseteq zones /\ locations' \subseteq locations /\ recordSets' \subseteq recordSets
      BY <2>2 DEF Cascade
    <3> QED BY <1>1, <3>1, FewerRows DEF RowsStep
  <2>3. CASE DeleteZoneRow(p)
    <3>1. CASE UNCHANGED data
      BY <1>3, <3>1 DEF data
    <3>2. CASE Cascade(zones \ ZoneNamed(req[p].zone), locations)
      BY <2>2, <3>2
    <3> QED BY <2>3, <3>1, <3>2 DEF DeleteZoneRow
  <2>4. CASE DeleteLocationRow(p)
    <3>1. CASE UNCHANGED data
      BY <1>3, <3>1 DEF data
    <3>2. CASE Cascade(zones, {l \in locations : l.id # ref[p]})
      BY <2>2, <3>2
    <3> QED BY <2>4, <3>1, <3>2 DEF DeleteLocationRow
  <2>5. CASE DeleteRecordSetRow(p)
    <3>1. zones' = zones /\ locations' = locations /\ recordSets' \subseteq recordSets
      BY <2>5 DEF DeleteRecordSetRow
    <3> QED BY <1>1, <3>1, FewerRows DEF RowsStep
  <2>6. CASE InsertLocation(p)
    <3>1. CASE UNCHANGED locations
      BY <1>3, <2>6, <3>1 DEF InsertLocation
    <3>2. CASE /\ FreeIds("locations", locations) # {}
               /\ locations' = locations \union {[id |-> NewObjectId("locations", locations), zone |-> ref[p],
                                                  name |-> req[p].location, by |-> req[p].user]}
      <4>1. PICK n : n = [id |-> NewObjectId("locations", locations), zone |-> ref[p],
                          name |-> req[p].location, by |-> req[p].user]
        OBVIOUS
      <4>2. n.id \notin IdsOf(locations) /\ \A q \in Clients : n.id # ref[q]
        BY <3>2, <4>1, NewId
      <4>3. locations' = locations \union {n} /\ recordSets' = recordSets
        BY <2>6, <3>2, <4>1 DEF InsertLocation
      <4>4. OldOrNew(locations, locations') /\ NoneGone(locations, locations')
        BY <4>2, <4>3 DEF OldOrNew, NoneGone, SameRow
      <4> QED BY <1>1, <4>3, <4>4, SameRows DEF RowsStep
    <3> QED BY <2>6, <3>1, <3>2 DEF InsertLocation
  <2>7. CASE InsertRecordSet(p)
    <3>1. CASE UNCHANGED recordSets
      BY <1>3, <2>7, <3>1 DEF InsertRecordSet
    <3>2. CASE /\ FreeIds("recordSets", recordSets) # {}
               /\ recordSets' = recordSets \union
                     {[id |-> NewObjectId("recordSets", recordSets), location |-> ref[p],
                       type |-> req[p].rtype, by |-> req[p].user]}
      <4>1. PICK n : n = [id |-> NewObjectId("recordSets", recordSets), location |-> ref[p],
                          type |-> req[p].rtype, by |-> req[p].user]
        OBVIOUS
      <4>2. n.id \notin IdsOf(recordSets) /\ \A q \in Clients : n.id # ref[q]
        BY <3>2, <4>1, NewId
      <4>3. recordSets' = recordSets \union {n} /\ locations' = locations
        BY <2>7, <3>2, <4>1 DEF InsertRecordSet
      <4>4. OldOrNew(recordSets, recordSets') /\ NoneGone(recordSets, recordSets')
        BY <4>2, <4>3 DEF OldOrNew, NoneGone, SameRow
      <4>5. n.type \in SupportedTypes
        BY <1>2, <2>7, <4>1, InsertedType DEF InsertRecordSet
      <4> QED BY <1>1, <4>3, <4>4, <4>5, SameRows DEF RowsStep
    <3> QED BY <2>7, <3>1, <3>2 DEF InsertRecordSet
  <2>8. CASE UpdateLocationRow(p)
    <3>1. PICK which, fields, u : /\ which = {l \in locations : l.id = ref[p]} /\ u = req[p].user
                                  /\ fields = {"id", "zone", "name", "by"}
      OBVIOUS
    <3>2. locations' = Updated(locations, which, u) /\ recordSets' = recordSets
      BY <2>8, <3>1 DEF UpdateLocationRow, Updated
    <3>3. IsTable(locations, fields) /\ "id" \in fields
      BY <1>2, <3>1 DEF TablesOK
    <3>4. OldOrNew(locations, locations') /\ NoneGone(locations, locations')
      BY <3>2, <3>3, UpdatedRows DEF OldOrNew, NoneGone
    <3> QED BY <1>1, <3>2, <3>4, SameRows DEF RowsStep
  <2>9. CASE UpdateRecordSetRow(p)
    <3>1. PICK which, fields, u : /\ which = {r \in recordSets : r.id = ref[p]} /\ u = req[p].user
                                  /\ fields = {"id", "location", "type", "by"}
      OBVIOUS
    <3>2. recordSets' = Updated(recordSets, which, u) /\ locations' = locations
      BY <2>9, <3>1 DEF UpdateRecordSetRow, Updated
    <3>3. IsTable(recordSets, fields) /\ "id" \in fields
      BY <1>2, <3>1 DEF TablesOK
    <3>4. OldOrNew(recordSets, recordSets') /\ NoneGone(recordSets, recordSets')
      BY <3>2, <3>3, UpdatedRows DEF OldOrNew, NoneGone
    <3>5. ASSUME NEW n \in recordSets' PROVE n.type \in SupportedTypes
      <4>1. PICK r \in recordSets : SameRow(n, r)
        BY <3>2, <3>3, UpdatedRows
      <4>2. n.type = r.type
        BY <3>1, <3>3, <4>1, SameFields DEF IsTable
      <4> QED BY <1>1, <4>1, <4>2
    <3> QED BY <3>2, <3>4, <3>5, SameRows DEF RowsStep
  <2> QED BY <1>5, <2>1, <2>3, <2>4, <2>5, <2>6, <2>7, <2>8, <2>9 DEF WriteZoneData
<1> QED BY <1>4, <1>5 DEF StepOf

(***************************************************************************)
(* What a statement tells its own request.                                 *)
(***************************************************************************)
LEMMA Decides ==
    ASSUME NEW op \in DOMAIN Program
    PROVE  /\ DecidedBy(op) \in {"insertUser", "code", "authenticate", "user", "insertZone", "owner",
                                 "insertLocation", "location", "insertRecordSet", "recordSet"}
           /\ DecidedBy(op) = "user" => op = "getZones"
           /\ DecidedBy(op) = "owner" => op \in {"getZone", "updateZone", "deleteZone", "getLocations"}
           /\ DecidedBy(op) = "location" =>
                 op \in {"getLocation", "updateLocation", "deleteLocation", "getRecordSets"}
           /\ DecidedBy(op) = "recordSet" => op \in {"getRecordSet", "updateRecordSet", "deleteRecordSet"}
BY DEF DecidedBy, Program

\* A request ends with an answer that is true of a moment.
LEMMA AnswerTold ==
    ASSUME ApiInv, MomentInv, Watch, NEW p \in Clients, Running(p), NEW a, Answer(p, a),
           moved'[p] = moved[p],
           ~moved[p] /\ a = "ok" => TRUE \in seen[p],
           ~moved[p] /\ a \notin {"none", "internal", "denied", "ok"} => ~Granted(req[p]) \/ FALSE \in seen[p]
    PROVE  Typed(p)' /\ Told(p)'
<1>1. req' = req /\ pc'[p] = 0 /\ ans'[p] = a
  BY DEF Answer, ApiInv, ControlOK
<1>2. ~Running(p)' /\ ~(pc'[p] > 1)
  BY <1>1 DEF Running
<1>3. Typed(p)'
  BY <1>2 DEF Typed
<1>4. ASSUME ~moved'[p]
      PROVE  /\ ans'[p] = "ok" => TRUE \in seen'[p]
             /\ ans'[p] \notin {"none", "internal", "denied", "ok"} => FALSE \in seen'[p]
  <2>1. req[p] \in Requests
    BY AtStatement
  <2>2. NoRequest \notin Requests
    BY DEF NoRequest, Requests, AccountRequests, ZoneRequests, LocationRequests, RecordSetRequests
  <2>3. seen[p] \subseteq seen'[p]
    BY <1>1, <1>4, <2>1, <2>2, WatchTells
  <2>4. Watched(p)
    BY <1>4 DEF MomentInv, Told
  <2>5. ~Granted(req[p]) => FALSE \in seen[p]
    BY <2>4 DEF Watched
  <2> QED BY <1>1, <1>4, <2>3, <2>5
<1> QED BY <1>2, <1>3, <1>4 DEF Told

\* The row that a select has found is the one that was asked for.
FoundRows(p, id) ==
    /\ Statement(p).do = "location" =>
          /\ \A l \in locations' : l.id = id => l.name = req[p].location
          /\ id \in IdsOf(locations)'
    /\ Statement(p).do = "recordSet" =>
          /\ \A r \in recordSets' : r.id = id =>
                /\ r.type = req[p].rtype
                /\ \A l \in locations' : l.id = r.location => l.name = req[p].location
          /\ id \in IdsOf(recordSets)'

\* A request goes on, or ends well, when it could be granted as it was decided.
LEMMA FoundTold ==
    ASSUME ApiInv, MomentInv, Watch, NEW p \in Clients, Running(p), NEW id, Found(p, id),
           moved'[p] = moved[p],
           ~moved[p] /\ Statement(p).do = DecidedBy(req[p].op) => Granted(req[p]),
           ~moved[p] => FoundRows(p, id),
           Statement(p).do = "rtype" => req[p].rtype \in SupportedTypes
    PROVE  Typed(p)' /\ Told(p)'
<1>1. PICK op, n : op = req[p].op /\ n = pc[p]
  OBVIOUS
<1>2. n \in 1..Len(Program[op]) /\ n \in Nat /\ n > 0
  BY <1>1, AtStatement DEF ApiInv, ControlOK, Running
<1>3. Typed(p) /\ Told(p)
  BY DEF MomentInv
<1>4. Statement(p) = Program[op][n]
  BY <1>1 DEF Statement
<1>5. ASSUME ~moved[p], Passed(p, DecidedBy(op)) \/ Statement(p).do = DecidedBy(op)
      PROVE  TRUE \in seen[p]
  BY <1>1, <1>3, <1>5 DEF Told, Watched
<1>6. CASE n = Len(Program[op])
  <2>1. Answer(p, "ok")
    BY <1>1, <1>6 DEF Found
  <2>2. PICK i \in 1..Len(Program[op]) : Program[op][i].do = DecidedBy(op)
    BY <1>1, AtOperation
  <2>3. i = n \/ i \in 1..(n - 1)
    BY <1>2, <1>6
  <2>4. Passed(p, DecidedBy(op)) \/ Statement(p).do = DecidedBy(op)
    BY <1>1, <1>4, <2>2, <2>3 DEF Passed
  <2>5. ~moved[p] => TRUE \in seen[p]
    BY <1>5, <2>4
  <2> QED BY <2>1, <2>5, AnswerTold
<1>7. CASE n # Len(Program[op])
  <2>1. req' = req /\ ans' = ans /\ pc'[p] = n + 1 /\ ref'[p] = id
    BY <1>1, <1>7 DEF Found, ApiInv, ControlOK
  <2>2. Running(p)' /\ pc'[p] - 1 = n
    BY <1>2, <2>1 DEF Running
  <2>3. \A d : Passed(p, d)' => Passed(p, d) \/ Statement(p).do = d
    <3> SUFFICES ASSUME NEW d, Passed(p, d)' PROVE Passed(p, d) \/ Statement(p).do = d
      OBVIOUS
    <3>1. PICK j \in 1..n : Program[op][j].do = d
      BY <1>1, <2>1, <2>2 DEF Passed
    <3>2. j = n \/ j \in 1..(n - 1)
      BY <1>2
    <3> QED BY <1>1, <1>4, <3>1, <3>2 DEF Passed
  <2>4. Typed(p)'
    BY <1>3, <2>1, <2>3 DEF Typed
  <2>5. ASSUME ~moved'[p] PROVE Told(p)'
    <3>1. req[p] \in Requests /\ op \in DOMAIN Program
      BY <1>1, AtStatement
    <3>2. NoRequest \notin Requests
      BY DEF NoRequest, Requests, AccountRequests, ZoneRequests, LocationRequests, RecordSetRequests
    <3>3. seen[p] \subseteq seen'[p] /\ Watched(p)'
      BY <1>1, <2>1, <2>2, <2>5, <3>1, <3>2, WatchTells DEF Running
    <3>4. Before(p)' = Statement(p).do
      BY <1>1, <1>4, <2>1, <2>2 DEF Before
    <3>5. KnownRows(p)'
      BY <2>1, <2>5, <3>4 DEF KnownRows, FoundRows
    <3>6. Passed(p, DecidedBy(req[p].op))' => TRUE \in seen'[p]
      BY <1>1, <1>5, <2>1, <2>3, <2>5, <3>3
    <3>7. ans'[p] = "none"
      BY <2>1, AtStatement
    <3> QED BY <3>3, <3>5, <3>6, <3>7 DEF Told
  <2>6. moved'[p] => Told(p)'
    BY DEF Told
  <2> QED BY <2>4, <2>5, <2>6
<1> QED BY <1>6, <1>7

\* A statement that writes is executed, and its reply may be lost.
LEMMA WrittenTold ==
    ASSUME ApiInv, MomentInv, Watch, NEW p \in Clients, Running(p), Written(p), moved'[p] = moved[p],
           ~moved[p] /\ Statement(p).do = DecidedBy(req[p].op) => Granted(req[p]),
           Statement(p).do \notin {"rtype", "location", "recordSet"}
    PROVE  Typed(p)' /\ Told(p)'
<1>1. FoundRows(p, NoId)
  BY DEF FoundRows
<1>2. CASE Found(p, NoId)
  BY <1>1, <1>2, FoundTold
<1>3. CASE Answer(p, "internal")
  BY <1>3, AnswerTold
<1> QED BY <1>2, <1>3 DEF Written

(***************************************************************************)
(* The rows that a statement finds are those that decide.                  *)
(***************************************************************************)
LEMMA LocationsInZone ==
    ASSUME TablesOK, NEW p \in Clients, InMine(p, ref[p])
    PROVE  LocationsOf(req[p]) = {l \in locations : l.zone = ref[p] /\ l.name = req[p].location}
<1>1. PICK z \in zones : z.name = req[p].zone /\ z.id = ref[p]
  BY DEF InMine, ZoneNamed
<1>2. ZoneNamed(req[p].zone) = {z}
  BY <1>1 DEF TablesOK, ZoneNamed
<1>3. IdsOf(ZoneNamed(req[p].zone)) = {ref[p]}
  BY <1>1, <1>2 DEF IdsOf
<1> QED BY <1>3 DEF LocationsOf

LEMMA RecordSetsInLocation ==
    ASSUME TablesOK, NEW p \in Clients, NEW k \in locations, k.id = ref[p], k.name = req[p].location,
           InMine(p, k.zone)
    PROVE  /\ LocationsOf(req[p]) # {}
           /\ RecordSetsOf(req[p]) = {r \in recordSets : r.location = ref[p] /\ r.type = req[p].rtype}
<1>1. PICK z \in zones : z.name = req[p].zone /\ z.id = k.zone
  BY DEF InMine, ZoneNamed
<1>2. ZoneNamed(req[p].zone) = {z}
  BY <1>1 DEF TablesOK, ZoneNamed
<1>3. IdsOf(ZoneNamed(req[p].zone)) = {k.zone}
  BY <1>1, <1>2 DEF IdsOf
<1>4. LocationsOf(req[p]) = {k}
  BY <1>3 DEF LocationsOf, TablesOK
<1>5. IdsOf(LocationsOf(req[p])) = {ref[p]}
  BY <1>4 DEF IdsOf
<1> QED BY <1>4, <1>5 DEF RecordSetsOf

\* What the statement before has found.
LEMMA FoundBefore ==
    ASSUME ApiInv, MomentInv, NEW p \in Clients, Running(p), ~moved[p]
    PROVE  /\ Statement(p).do \in {"location", "insertLocation"} =>
                 Owned(req[p]) /\ InMine(p, ref[p])
           /\ Statement(p).do \in {"recordSet", "insertRecordSet", "deleteLocation"} =>
                 /\ Owned(req[p])
                 /\ \A l \in locations : l.id = ref[p] => l.name = req[p].location /\ InMine(p, l.zone)
                 /\ ref[p] \in IdsOf(locations) \/ FALSE \in seen[p]
           /\ Statement(p).do = "deleteRecordSet" => ref[p] \in IdsOf(recordSets) \/ FALSE \in seen[p]
<1>1. SUFFICES ASSUME Statement(p).do \in {"location", "insertLocation", "recordSet", "insertRecordSet",
                                           "deleteLocation", "deleteRecordSet"}
               PROVE  /\ Statement(p).do \in {"location", "insertLocation"} =>
                            Owned(req[p]) /\ InMine(p, ref[p])
                      /\ Statement(p).do \in {"recordSet", "insertRecordSet", "deleteLocation"} =>
                            /\ Owned(req[p])
                            /\ \A l \in locations : l.id = ref[p] =>
                                  l.name = req[p].location /\ InMine(p, l.zone)
                            /\ ref[p] \in IdsOf(locations) \/ FALSE \in seen[p]
                      /\ Statement(p).do = "deleteRecordSet" =>
                            ref[p] \in IdsOf(recordSets) \/ FALSE \in seen[p]
  OBVIOUS
<1>2. pc[p] > 1 /\ Follows(Statement(p).do, Before(p))
  BY <1>1, AtStatement DEF Begins
<1>3. KnownZone(p) /\ KnownRows(p)
  BY <1>2 DEF ApiInv, MomentInv, Told
<1>4. Mine(p) => Owned(req[p])
  BY DEF Mine, Owned
<1>5. CASE Statement(p).do \in {"location", "insertLocation"}
  BY <1>2, <1>3, <1>4, <1>5 DEF Follows, KnownZone
<1>6. CASE Statement(p).do \in {"recordSet", "insertRecordSet", "deleteLocation"}
  <2>1. Before(p) = "location"
    BY <1>2, <1>6 DEF Follows
  <2> QED BY <1>2, <1>3, <1>4, <1>6, <2>1 DEF KnownZone, KnownRows
<1>7. CASE Statement(p).do = "deleteRecordSet"
  BY <1>2, <1>3, <1>7 DEF Follows, KnownRows
<1> QED BY <1>1, <1>5, <1>6, <1>7

(***************************************************************************)
(* The statements that read.                                               *)
(***************************************************************************)
LEMMA SelectUserTold ==
    ASSUME ApiInv, MomentInv, Watch, NEW p \in Clients, SelectUser(p), moved'[p] = moved[p]
    PROVE  Typed(p)' /\ Told(p)'
<1>1. Running(p) /\ Statement(p).do = "user"
  BY DEF SelectUser, At
<1>2. /\ req[p].op \in DOMAIN Program /\ "user" \in StatementsOf(req[p].op)
      /\ req[p].op \in {"signup", "verify"} => Statement(p).none = "internal"
      /\ req[p].op \notin {"signup", "verify", "login"} => req[p].user \in tokens
  BY <1>1, AtOperation
<1>3. CASE Found(p, NoId)
  <2>1. DecidedBy(req[p].op) = "user" => Granted(req[p])
    BY <1>2, Decides, Grants
  <2>2. FoundRows(p, NoId)
    BY <1>1 DEF FoundRows
  <2> QED BY <1>1, <1>3, <2>1, <2>2, FoundTold
<1>4. CASE users[req[p].user] = "none" /\ Answer(p, Statement(p).none)
  <2>1. req[p].user \notin tokens
    BY <1>4 DEF ApiInv, AccountsOK
  <2>2. req[p].op # "login"
    <3>1. StatementsOf("login") = {"authenticate"}
      BY DEF StatementsOf
    <3> QED BY <1>2, <3>1
  <2>3. Statement(p).none = "internal"
    BY <1>2, <2>1, <2>2
  <2> QED BY <1>1, <1>4, <2>3, AnswerTold
<1> QED BY <1>3, <1>4 DEF SelectUser

\* An error of a statement is not an "ok".
LEMMA ErrorTold ==
    ASSUME ApiInv, MomentInv, Watch, NEW p \in Clients, Running(p), Answer(p, Statement(p).none),
           moved'[p] = moved[p], ~moved[p] => ~Granted(req[p]) \/ FALSE \in seen[p]
    PROVE  Typed(p)' /\ Told(p)'
<1>1. Statement(p).none # "ok"
  BY AtStatement DEF Statements, Errors
<1> QED BY <1>1, AnswerTold

LEMMA SelectOwnerTold ==
    ASSUME ApiInv, MomentInv, Watch, NEW p \in Clients, SelectOwner(p), moved'[p] = moved[p]
    PROVE  Typed(p)' /\ Told(p)'
<1>1. Running(p) /\ Statement(p).do = "owner"
  BY DEF SelectOwner, At
<1>2. PICK r : r = req[p]
  OBVIOUS
<1>3. r.op \in DOMAIN Program /\ r.op \notin {"signup", "verify", "login", "getZones", "addZone"}
  BY <1>1, <1>2, AtOperation, OfOperation
<1>4. ~Owned(r) => ~Granted(r)
  BY <1>3, Grants DEF Program
<1>5. CASE ZoneNamed(r.zone) = {} /\ Answer(p, Statement(p).none)
  <2>1. ~Owned(r)
    BY <1>5 DEF Owned
  <2> QED BY <1>1, <1>2, <1>4, <1>5, <2>1, ErrorTold
<1>6. ASSUME NEW z \in ZoneNamed(r.zone), z.owner = r.user, Found(p, NoId) PROVE Typed(p)' /\ Told(p)'
  <2>1. Owned(r)
    BY <1>6 DEF Owned
  <2>2. DecidedBy(r.op) = "owner" => Granted(r)
    BY <1>3, <2>1, Decides, Grants
  <2>3. FoundRows(p, NoId)
    BY <1>1 DEF FoundRows
  <2> QED BY <1>1, <1>2, <1>6, <2>2, <2>3, FoundTold
<1>7. ASSUME NEW z \in ZoneNamed(r.zone), z.owner # r.user, Answer(p, "unauthorized")
      PROVE  Typed(p)' /\ Told(p)'
  <2>1. ~Owned(r)
    BY <1>7 DEF Owned, ZoneNamed, ApiInv, TablesOK
  <2> QED BY <1>1, <1>2, <1>4, <1>7, <2>1, AnswerTold
<1> QED BY <1>2, <1>5, <1>6, <1>7 DEF SelectOwner

LEMMA SelectTakenTold ==
    ASSUME ApiInv, MomentInv, Watch, NEW p \in Clients, SelectTaken(p), moved'[p] = moved[p]
    PROVE  Typed(p)' /\ Told(p)'
<1>1. Running(p) /\ Statement(p).do = "nameTaken"
  BY DEF SelectTaken, At
<1>2. PICK r : r = req[p]
  OBVIOUS
<1>3. r.op \in DOMAIN Program /\ r.op = "addZone"
  BY <1>1, <1>2, AtOperation, OfOperation
<1>4. CASE Found(p, NoId)
  <2>1. DecidedBy(r.op) # "nameTaken"
    BY <1>3, Decides
  <2>2. FoundRows(p, NoId)
    BY <1>1 DEF FoundRows
  <2> QED BY <1>1, <1>2, <1>4, <2>1, <2>2, FoundTold
<1>5. ASSUME NEW a \in {"duplicate", "invalid"}, Answer(p, a), ZoneNamed(r.zone) # {}
      PROVE  Typed(p)' /\ Told(p)'
  <2>1. ~Granted(r)
    BY <1>3, <1>5, Grants
  <2> QED BY <1>1, <1>2, <1>5, <2>1, AnswerTold
<1>6. ASSUME NEW z \in ZoneNamed(r.zone), Answer(p, IF z.owner = r.user THEN "duplicate" ELSE "invalid")
      PROVE  Typed(p)' /\ Told(p)'
  <2>1. CASE z.owner = r.user
    <3>1. Answer(p, "duplicate")
      BY <1>6, <2>1
    <3> QED BY <1>5, <1>6, <3>1
  <2>2. CASE z.owner # r.user
    <3>1. Answer(p, "invalid")
      BY <1>6, <2>2
    <3> QED BY <1>5, <1>6, <3>1
  <2> QED BY <2>1, <2>2
<1> QED BY <1>2, <1>4, <1>6 DEF SelectTaken

LEMMA SelectZoneTold ==
    ASSUME ApiInv, MomentInv, Watch, NEW p \in Clients, SelectZone(p), moved'[p] = moved[p]
    PROVE  Typed(p)' /\ Told(p)'
<1>1. Running(p) /\ Statement(p).do = "zone" /\ FirstRow(p, ZoneNamed(req[p].zone))
  BY DEF SelectZone, At
<1>2. PICK r : r = req[p]
  OBVIOUS
<1>3. r.op \in DOMAIN Program /\ r.op \notin {"signup", "verify", "login", "getZones", "addZone"}
  BY <1>1, <1>2, AtOperation, OfOperation
<1>4. CASE ZoneNamed(r.zone) = {} /\ Answer(p, Statement(p).none)
  <2>1. ~Owned(r)
    BY <1>4 DEF Owned
  <2>2. ~Granted(r)
    BY <1>3, <2>1, Grants DEF Program
  <2> QED BY <1>1, <1>2, <1>4, <2>2, ErrorTold
<1>5. ASSUME NEW id, Found(p, id) PROVE Typed(p)' /\ Told(p)'
  <2>1. DecidedBy(r.op) # "zone"
    BY <1>3, Decides
  <2>2. FoundRows(p, id)
    BY <1>1 DEF FoundRows
  <2> QED BY <1>1, <1>2, <1>5, <2>1, <2>2, FoundTold
<1> QED BY <1>1, <1>2, <1>4, <1>5 DEF FirstRow

LEMMA SelectLocationTold ==
    ASSUME ApiInv, MomentInv, Watch, NEW p \in Clients, SelectLocation(p), moved'[p] = moved[p],
           UNCHANGED data
    PROVE  Typed(p)' /\ Told(p)'
<1>1. PICK rows : rows = {l \in locations : l.zone = ref[p] /\ l.name = req[p].location}
  OBVIOUS
<1>2. Running(p) /\ Statement(p).do = "location" /\ FirstRow(p, rows)
  BY <1>1 DEF SelectLocation, At
<1>3. PICK r : r = req[p]
  OBVIOUS
<1>4. /\ r.op \in DOMAIN Program
      /\ r.op \in {"getLocation", "updateLocation", "deleteLocation", "getRecordSets", "addRecordSet",
                   "getRecordSet", "updateRecordSet", "deleteRecordSet"}
  BY <1>2, <1>3, AtOperation, OfOperation
<1>5. ~moved[p] => Owned(r) /\ LocationsOf(r) = rows
  BY <1>1, <1>2, <1>3, FoundBefore, LocationsInZone DEF ApiInv
<1>6. CASE rows = {} /\ Answer(p, Statement(p).none)
  <2>1. LocationsOf(r) = {} => RecordSetsOf(r) = {}
    BY DEF RecordSetsOf, IdsOf
  <2>2. ~moved[p] => ~Granted(r)
    BY <1>4, <1>5, <1>6, <2>1, Grants
  <2> QED BY <1>2, <1>3, <1>6, <2>2, ErrorTold
<1>7. ASSUME NEW l \in rows, Found(p, l.id) PROVE Typed(p)' /\ Told(p)'
  <2>1. ~moved[p] /\ DecidedBy(r.op) = "location" => Granted(r)
    BY <1>4, <1>5, <1>7, Decides, Grants
  <2>2. l \in locations /\ l.name = r.location /\ locations' = locations
    BY <1>1, <1>3, <1>7 DEF data
  <2>3. \A m \in locations : m.id = l.id => m = l
    BY <2>2 DEF ApiInv, TablesOK, IsTable
  <2>4. FoundRows(p, l.id)
    BY <1>2, <1>3, <2>2, <2>3 DEF FoundRows, IdsOf
  <2>5. PICK id : id = l.id
    OBVIOUS
  <2> QED BY <1>2, <1>3, <1>7, <2>1, <2>4, <2>5, FoundTold
<1> QED BY <1>2, <1>6, <1>7 DEF FirstRow

LEMMA SelectRecordSetTold ==
    ASSUME ApiInv, MomentInv, Watch, NEW p \in Clients, SelectRecordSet(p), moved'[p] = moved[p],
           UNCHANGED data
    PROVE  Typed(p)' /\ Told(p)'
<1>1. PICK rows : rows = {r \in recordSets : r.location = ref[p] /\ r.type = req[p].rtype}
  OBVIOUS
<1>2. Running(p) /\ Statement(p).do = "recordSet" /\ FirstRow(p, rows)
  BY <1>1 DEF SelectRecordSet, At
<1>3. PICK r : r = req[p]
  OBVIOUS
<1>4. r.op \in DOMAIN Program /\ r.op \in {"getRecordSet", "updateRecordSet", "deleteRecordSet"}
  BY <1>2, <1>3, AtOperation, OfOperation
<1>5. ~moved[p] =>
         /\ Owned(r)
         /\ \A l \in locations : l.id = ref[p] => l.name = r.location /\ InMine(p, l.zone)
         /\ ref[p] \in IdsOf(locations) \/ FALSE \in seen[p]
  BY <1>2, <1>3, FoundBefore
<1>6. ~moved[p] /\ ref[p] \in IdsOf(locations) => RecordSetsOf(r) = rows
  <2> SUFFICES ASSUME ~moved[p], NEW k \in locations, k.id = ref[p] PROVE RecordSetsOf(r) = rows
    BY DEF IdsOf
  <2>1. k.name = r.location /\ InMine(p, k.zone)
    BY <1>5
  <2> QED BY <1>1, <1>3, <2>1, RecordSetsInLocation DEF ApiInv
<1>7. CASE rows = {} /\ Answer(p, Statement(p).none)
  <2>1. ~moved[p] => ~Granted(r) \/ FALSE \in seen[p]
    BY <1>4, <1>5, <1>6, <1>7, Grants
  <2> QED BY <1>2, <1>3, <1>7, <2>1, ErrorTold
<1>8. ASSUME NEW s \in rows, Found(p, s.id) PROVE Typed(p)' /\ Told(p)'
  <2>1. s \in recordSets /\ s.type = r.rtype /\ s.location = ref[p] /\ UNCHANGED <<locations, recordSets>>
    BY <1>1, <1>3, <1>8 DEF data
  <2>2. ref[p] \in IdsOf(locations)
    BY <2>1 DEF ApiInv, TablesOK
  <2>3. ~moved[p] => Granted(r)
    BY <1>4, <1>5, <1>6, <1>8, <2>2, Grants
  <2>4. \A t \in recordSets : t.id = s.id => t = s
    BY <2>1 DEF ApiInv, TablesOK, IsTable
  <2>5. ~moved[p] => FoundRows(p, s.id)
    BY <1>2, <1>3, <1>5, <2>1, <2>4 DEF FoundRows, IdsOf
  <2>6. PICK id : id = s.id
    OBVIOUS
  <2> QED BY <1>2, <1>3, <1>8, <2>3, <2>5, <2>6, FoundTold
<1> QED BY <1>2, <1>7, <1>8 DEF FirstRow

LEMMA OtherReadsTold ==
    ASSUME ApiInv, MomentInv, Watch, NEW p \in Clients, SelectList(p) \/ rtypeValid(p) \/ SelectCode(p),
           moved'[p] = moved[p]
    PROVE  Typed(p)' /\ Told(p)'
<1>1. Running(p) /\ Statement(p).do \in {"list", "rtype", "code"}
  BY DEF SelectList, rtypeValid, SelectCode, At
<1>2. FoundRows(p, NoId)
  BY <1>1 DEF FoundRows
<1>3. PICK r : r = req[p]
  OBVIOUS
<1>4. r.op \in DOMAIN Program /\ Statement(p).do \in StatementsOf(r.op)
  BY <1>1, <1>3, AtOperation
<1>5. CASE SelectList(p)
  <2>1. Statement(p).do = "list" /\ DecidedBy(r.op) # "list"
    BY <1>4, <1>5, Decides DEF SelectList, At
  <2> QED BY <1>1, <1>2, <1>3, <1>5, <2>1, FoundTold DEF SelectList
<1>6. CASE rtypeValid(p)
  <2>1. Statement(p).do = "rtype" /\ DecidedBy(r.op) # "rtype"
    BY <1>4, <1>6, Decides DEF rtypeValid, At
  <2>2. CASE r.rtype \in SupportedTypes /\ Found(p, NoId)
    BY <1>1, <1>2, <1>3, <2>1, <2>2, FoundTold
  <2>3. CASE r.rtype \notin SupportedTypes /\ Answer(p, Statement(p).none)
    <3>1. r.op \in {"addRecordSet", "getRecordSet", "updateRecordSet", "deleteRecordSet"}
      BY <1>4, <2>1, OfOperation
    <3>2. RecordSetsOf(r) = {}
      BY <2>3 DEF RecordSetsOf, MomentInv
    <3>3. ~Granted(r)
      BY <2>3, <3>1, <3>2, Grants
    <3> QED BY <1>1, <1>3, <2>3, <3>3, ErrorTold
  <2> QED BY <1>3, <1>6, <2>2, <2>3 DEF rtypeValid
<1>7. CASE SelectCode(p)
  <2>1. Statement(p).do = "code"
    BY <1>7 DEF SelectCode, At
  <2>2. r.op = "verify"
    BY <1>4, <2>1, OfOperation
  <2>3. CASE r.user \in codes /\ Found(p, NoId)
    <3>1. Granted(r)
      BY <2>2, <2>3, Grants
    <3> QED BY <1>1, <1>2, <1>3, <2>1, <2>3, <3>1, FoundTold
  <2>4. CASE r.user \notin codes /\ Answer(p, Statement(p).none)
    <3>1. ~Granted(r)
      BY <2>2, <2>4, Grants
    <3> QED BY <1>1, <1>3, <2>4, <3>1, ErrorTold
  <2> QED BY <1>3, <1>7, <2>3, <2>4 DEF SelectCode
<1> QED BY <1>5, <1>6, <1>7

(***************************************************************************)
(* The statements that write.                                              *)
(***************************************************************************)
LEMMA ZoneWritesTold ==
    ASSUME ApiInv, MomentInv, Watch, NEW p \in Clients,
           InsertZone(p) \/ UpdateZoneRow(p) \/ DeleteZoneRow(p)
    PROVE  Typed(p)' /\ Told(p)'
<1>1. Running(p) /\ Statement(p).do \in {"insertZone", "updateZone", "deleteZone"}
  BY DEF InsertZone, UpdateZoneRow, DeleteZoneRow, At
<1>2. PICK r : r = req[p]
  OBVIOUS
<1>3. r.op \in DOMAIN Program /\ Statement(p).do \in StatementsOf(r.op)
  BY <1>1, <1>2, AtOperation
<1>4. moved'[p] = moved[p]
  <2>1. moved \in [Clients -> BOOLEAN]
    BY DEF ApiInv, ControlOK
  <2>2. \/ moved' = moved
        \/ moved' = [q \in Clients |-> moved[q] \/ (Running(q) /\ q # p /\ Concerns(q, req[p].zone))]
    BY DEF InsertZone, UpdateZoneRow, DeleteZoneRow
  <2>3. CASE moved' = moved
    BY <2>3
  <2>4. CASE moved' = [q \in Clients |-> moved[q] \/ (Running(q) /\ q # p /\ Concerns(q, req[p].zone))]
    <3>1. moved'[p] = (moved[p] \/ FALSE)
      BY <2>4
    <3>2. CASE moved[p] = TRUE
      BY <3>1, <3>2
    <3>3. CASE moved[p] = FALSE
      BY <3>1, <3>3
    <3> QED BY <2>1, <3>2, <3>3
  <2> QED BY <2>2, <2>3, <2>4
<1>5. CASE InsertZone(p)
  <2>1. Statement(p).do = "insertZone"
    BY <1>5 DEF InsertZone, At
  <2>2. r.op = "addZone"
    BY <1>3, <2>1, OfOperation
  <2>3. CASE ZoneNamed(r.zone) = {} /\ Written(p)
    <3>1. Granted(r)
      BY <2>2, <2>3, Grants
    <3> QED BY <1>1, <1>2, <1>4, <2>1, <2>3, <3>1, WrittenTold
  <2>4. CASE ZoneNamed(r.zone) # {} /\ Answer(p, "duplicate")
    <3>1. ~Granted(r)
      BY <2>2, <2>4, Grants
    <3> QED BY <1>1, <1>2, <1>4, <2>4, <3>1, AnswerTold
  <2> QED BY <1>2, <1>5, <2>3, <2>4 DEF InsertZone
<1>6. CASE UpdateZoneRow(p)
  <2>1. Statement(p).do = "updateZone" /\ Written(p) /\ DecidedBy(r.op) # "updateZone"
    BY <1>3, <1>6, Decides DEF UpdateZoneRow, At
  <2> QED BY <1>1, <1>2, <1>4, <2>1, WrittenTold
<1>7. CASE DeleteZoneRow(p)
  <2>1. Statement(p).do = "deleteZone" /\ DecidedBy(r.op) # "deleteZone"
    BY <1>3, <1>7, Decides DEF DeleteZoneRow, At
  <2>2. r.op = "deleteZone"
    BY <1>3, <2>1, OfOperation
  <2>3. CASE ZoneNamed(r.zone) = {} /\ Answer(p, Statement(p).none)
    <3>1. ~Owned(r)
      BY <2>3 DEF Owned
    <3>2. ~Granted(r)
      BY <2>2, <3>1, Grants
    <3> QED BY <1>1, <1>2, <1>4, <2>3, <3>2, ErrorTold
  <2>4. CASE Written(p)
    BY <1>1, <1>2, <1>4, <2>1, <2>4, WrittenTold
  <2> QED BY <1>2, <1>7, <2>3, <2>4 DEF DeleteZoneRow
<1> QED BY <1>5, <1>6, <1>7

LEMMA LocationWritesTold ==
    ASSUME ApiInv, MomentInv, Watch, NEW p \in Clients,
           InsertLocation(p) \/ UpdateLocationRow(p) \/ DeleteLocationRow(p)
    PROVE  Typed(p)' /\ Told(p)'
<1>1. Running(p) /\ Statement(p).do \in {"insertLocation", "updateLocation", "deleteLocation"}
  BY DEF InsertLocation, UpdateLocationRow, DeleteLocationRow, At
<1>2. PICK r : r = req[p]
  OBVIOUS
<1>3. r.op \in DOMAIN Program /\ Statement(p).do \in StatementsOf(r.op)
  BY <1>1, <1>2, AtOperation
<1>4. moved'[p] = moved[p]
  BY DEF InsertLocation, UpdateLocationRow, DeleteLocationRow
<1>5. CASE InsertLocation(p)
  <2>1. Statement(p).do = "insertLocation"
    BY <1>5 DEF InsertLocation, At
  <2>2. r.op = "addLocation"
    BY <1>3, <2>1, OfOperation
  <2>3. ~moved[p] => /\ Owned(r)
                     /\ LocationsOf(r) = {l \in locations : l.zone = ref[p] /\ l.name = r.location}
    BY <1>1, <1>2, <2>1, FoundBefore, LocationsInZone DEF ApiInv
  <2>4. CASE Answer(p, "internal")
    BY <1>1, <1>4, <2>4, AnswerTold
  <2>5. CASE /\ \E l \in locations : l.zone = ref[p] /\ l.name = r.location
             /\ Answer(p, "duplicate")
    <3>1. ~moved[p] => ~Granted(r)
      BY <2>2, <2>3, <2>5, Grants
    <3> QED BY <1>1, <1>2, <1>4, <2>5, <3>1, AnswerTold
  <2>6. CASE /\ ~\E l \in locations : l.zone = ref[p] /\ l.name = r.location
             /\ Written(p)
    <3>1. ~moved[p] => Granted(r)
      BY <2>2, <2>3, <2>6, Grants
    <3> QED BY <1>1, <1>2, <1>4, <2>1, <2>6, <3>1, WrittenTold
  <2> QED BY <1>2, <1>5, <2>4, <2>5, <2>6 DEF InsertLocation
<1>6. CASE UpdateLocationRow(p)
  <2>1. Statement(p).do = "updateLocation" /\ Written(p) /\ DecidedBy(r.op) # "updateLocation"
    BY <1>3, <1>6, Decides DEF UpdateLocationRow, At
  <2> QED BY <1>1, <1>2, <1>4, <2>1, WrittenTold
<1>7. CASE DeleteLocationRow(p)
  <2>1. Statement(p).do = "deleteLocation" /\ DecidedBy(r.op) # "deleteLocation"
    BY <1>3, <1>7, Decides DEF DeleteLocationRow, At
  <2>2. CASE ref[p] \notin IdsOf(locations) /\ Answer(p, Statement(p).none)
    <3>1. ~moved[p] => FALSE \in seen[p]
      BY <1>1, <2>1, <2>2, FoundBefore
    <3> QED BY <1>1, <1>4, <2>2, <3>1, ErrorTold
  <2>3. CASE Written(p)
    BY <1>1, <1>2, <1>4, <2>1, <2>3, WrittenTold
  <2> QED BY <1>7, <2>2, <2>3 DEF DeleteLocationRow
<1> QED BY <1>5, <1>6, <1>7

LEMMA RecordSetWritesTold ==
    ASSUME ApiInv, MomentInv, Watch, NEW p \in Clients,
           InsertRecordSet(p) \/ UpdateRecordSetRow(p) \/ DeleteRecordSetRow(p)
    PROVE  Typed(p)' /\ Told(p)'
<1>1. Running(p) /\ Statement(p).do \in {"insertRecordSet", "updateRecordSet", "deleteRecordSet"}
  BY DEF InsertRecordSet, UpdateRecordSetRow, DeleteRecordSetRow, At
<1>2. PICK r : r = req[p]
  OBVIOUS
<1>3. r.op \in DOMAIN Program /\ Statement(p).do \in StatementsOf(r.op)
  BY <1>1, <1>2, AtOperation
<1>4. moved'[p] = moved[p]
  BY DEF InsertRecordSet, UpdateRecordSetRow, DeleteRecordSetRow
<1>5. CASE InsertRecordSet(p)
  <2>1. Statement(p).do = "insertRecordSet" /\ At(p, "insertRecordSet")
    BY <1>5 DEF InsertRecordSet, At
  <2>2. r.op = "addRecordSet"
    BY <1>3, <2>1, OfOperation
  <2>3. r.rtype \in SupportedTypes
    BY <1>2, <2>1, InsertedType DEF MomentInv
  <2>4. ~moved[p] /\ ref[p] \in IdsOf(locations) =>
           /\ Owned(r) /\ LocationsOf(r) # {}
           /\ RecordSetsOf(r) = {s \in recordSets : s.location = ref[p] /\ s.type = r.rtype}
    <3> SUFFICES ASSUME ~moved[p], NEW k \in locations, k.id = ref[p]
                 PROVE  /\ Owned(r) /\ LocationsOf(r) # {}
                        /\ RecordSetsOf(r) = {s \in recordSets : s.location = ref[p] /\ s.type = r.rtype}
      BY DEF IdsOf
    <3>1. Owned(r) /\ k.name = r.location /\ InMine(p, k.zone)
      BY <1>1, <1>2, <2>1, FoundBefore
    <3> QED BY <1>2, <3>1, RecordSetsInLocation DEF ApiInv
  <2>5. CASE Answer(p, "internal")
    BY <1>1, <1>4, <2>5, AnswerTold
  <2>6. CASE /\ \E s \in recordSets : s.location = ref[p] /\ s.type = r.rtype
             /\ Answer(p, "duplicate")
    <3>1. ref[p] \in IdsOf(locations)
      BY <2>6 DEF ApiInv, TablesOK
    <3>2. ~moved[p] => ~Granted(r)
      BY <2>2, <2>4, <2>6, <3>1, Grants
    <3> QED BY <1>1, <1>2, <1>4, <2>6, <3>2, AnswerTold
  <2>7. CASE /\ ref[p] \in IdsOf(locations)
             /\ ~\E s \in recordSets : s.location = ref[p] /\ s.type = r.rtype
             /\ Written(p)
    <3>1. ~moved[p] => Granted(r)
      BY <2>2, <2>3, <2>4, <2>7, Grants
    <3> QED BY <1>1, <1>2, <1>4, <2>1, <2>7, <3>1, WrittenTold
  <2> QED BY <1>2, <1>5, <2>5, <2>6, <2>7 DEF InsertRecordSet
<1>6. CASE UpdateRecordSetRow(p)
  <2>1. Statement(p).do = "updateRecordSet" /\ Written(p) /\ DecidedBy(r.op) # "updateRecordSet"
    BY <1>3, <1>6, Decides DEF UpdateRecordSetRow, At
  <2> QED BY <1>1, <1>2, <1>4, <2>1, WrittenTold
<1>7. CASE DeleteRecordSetRow(p)
  <2>1. Statement(p).do = "deleteRecordSet" /\ DecidedBy(r.op) # "deleteRecordSet"
    BY <1>3, <1>7, Decides DEF DeleteRecordSetRow, At
  <2>2. CASE ref[p] \notin IdsOf(recordSets) /\ Answer(p, Statement(p).none)
    <3>1. ~moved[p] => FALSE \in seen[p]
      BY <1>1, <2>1, <2>2, FoundBefore
    <3> QED BY <1>1, <1>4, <2>2, <3>1, ErrorTold
  <2>3. CASE Written(p)
    BY <1>1, <1>2, <1>4, <2>1, <2>3, WrittenTold
  <2> QED BY <1>7, <2>2, <2>3 DEF DeleteRecordSetRow
<1> QED BY <1>5, <1>6, <1>7

LEMMA AccountWritesTold ==
    ASSUME ApiInv, MomentInv, Watch, NEW p \in Clients, moved'[p] = moved[p],
           InsertUser(p) \/ InsertCode(p) \/ SendCode(p) \/ ActivateUser(p) \/ DeleteCode(p)
           \/ Authenticate(p)
    PROVE  Typed(p)' /\ Told(p)'
<1>1. /\ Running(p)
      /\ Statement(p).do \in {"insertUser", "insertCode", "sendCode", "activate", "deleteCode", "authenticate"}
  BY DEF InsertUser, InsertCode, SendCode, ActivateUser, DeleteCode, Authenticate, At
<1>2. PICK r : r = req[p]
  OBVIOUS
<1>3. r.op \in DOMAIN Program /\ Statement(p).do \in StatementsOf(r.op)
  BY <1>1, <1>2, AtOperation
<1>4. CASE InsertUser(p)
  <2>1. Statement(p).do = "insertUser"
    BY <1>4 DEF InsertUser, At
  <2>2. r.op = "signup"
    BY <1>3, <2>1, OfOperation
  <2>3. CASE users[r.user] = "none" /\ Written(p)
    <3>1. Granted(r)
      BY <2>2, <2>3, Grants
    <3> QED BY <1>1, <1>2, <2>1, <2>3, <3>1, WrittenTold
  <2>4. CASE users[r.user] # "none" /\ Answer(p, "duplicate")
    <3>1. ~Granted(r)
      BY <2>2, <2>4, Grants
    <3> QED BY <1>1, <1>2, <2>4, <3>1, AnswerTold
  <2> QED BY <1>2, <1>4, <2>3, <2>4 DEF InsertUser
<1>5. CASE InsertCode(p) \/ SendCode(p) \/ ActivateUser(p) \/ DeleteCode(p)
  <2>1. Written(p) /\ Statement(p).do \in {"insertCode", "sendCode", "activate", "deleteCode"}
    BY <1>5 DEF InsertCode, SendCode, ActivateUser, DeleteCode, At
  <2>2. Statement(p).do # DecidedBy(r.op)
    BY <1>3, <2>1, Decides
  <2> QED BY <1>1, <1>2, <2>1, <2>2, WrittenTold
<1>6. CASE Authenticate(p)
  <2>1. Statement(p).do = "authenticate"
    BY <1>6 DEF Authenticate, At
  <2>2. r.op = "login"
    BY <1>3, <2>1, OfOperation
  <2>3. CASE users[r.user] = "active" /\ Found(p, NoId)
    <3>1. Granted(r)
      BY <2>2, <2>3, Grants
    <3>2. FoundRows(p, NoId)
      BY <2>1 DEF FoundRows
    <3> QED BY <1>1, <1>2, <2>1, <2>3, <3>1, <3>2, FoundTold
  <2>4. CASE users[r.user] # "active" /\ Answer(p, "unauthorized")
    <3>1. ~Granted(r)
      BY <2>2, <2>4, Grants
    <3> QED BY <1>1, <1>2, <2>4, <3>1, AnswerTold
  <2> QED BY <1>2, <1>6, <2>3, <2>4 DEF Authenticate
<1> QED BY <1>4, <1>5, <1>6

\* A request begins, fails or is answered.
LEMMA RequestsTold ==
    ASSUME ApiInv, ApiInv', MomentInv, Watch, NEW p \in Clients,
           Start(p) \/ StatementFails(p) \/ Respond(p)
    PROVE  Typed(p)' /\ Told(p)'
<1>1. CASE Start(p)
  <2>1. pc'[p] = 1 /\ Running(p)' /\ ~(pc'[p] > 1) /\ ~(pc'[p] - 1 > 0)
    BY <1>1 DEF Start, Running, ApiInv, ControlOK
  <2>2. \A d : ~Passed(p, d)'
    BY <2>1 DEF Passed
  <2>3. ApiInv' => ans'[p] = "none" /\ req'[p] # NoRequest /\ req'[p].op \in DOMAIN Program
    <3>1. NoRequest.op \notin DOMAIN Program
      BY DEF NoRequest, Program
    <3>2. (ApiInv /\ Running(p) => req[p].op \in DOMAIN Program /\ ans[p] = "none")'
      BY AtStatement, PTL
    <3> QED BY <2>1, <3>1, <3>2
  <2>4. ~moved'[p] => Watched(p)'
    BY <2>1, <2>3, WatchTells
  <2> QED BY <2>1, <2>2, <2>3, <2>4 DEF Typed, Told
<1>2. CASE StatementFails(p)
  <2>1. PICK a \in {"internal", "denied"} :
            Running(p) /\ Answer(p, a) /\ UNCHANGED <<accounts, data, moved>>
    BY <1>2 DEF StatementFails
  <2> QED BY <2>1, AnswerTold
<1>3. CASE Respond(p)
  <2>1. ans'[p] = "none" /\ pc'[p] = pc[p] /\ ans[p] # "none"
    BY <1>3 DEF Respond, ApiInv, ControlOK
  <2>2. pc'[p] = 0
    BY <2>1 DEF ApiInv, Served
  <2> QED BY <2>1, <2>2 DEF Typed, Told, Running
<1> QED BY <1>1, <1>2, <1>3

LEMMA StepTold ==
    ASSUME ApiInv, ApiInv', MomentInv, Watch, NEW p \in Clients, StepOf(p)
    PROVE  MomentInv'
<1>1. RowsStep /\ \A r \in recordSets' : r.type \in SupportedTypes
  BY StepRows
<1>2. \A q \in Clients \ {p} : Typed(q)' /\ Told(q)'
  BY <1>1, OthersTold
<1>3. Typed(p)' /\ Told(p)'
  <2>1. CASE Read(p)
    <3>1. moved'[p] = moved[p] /\ UNCHANGED data
      BY <2>1 DEF Read
    <3> QED BY <2>1, <3>1, SelectUserTold, SelectOwnerTold, SelectTakenTold, SelectZoneTold,
               SelectLocationTold, SelectRecordSetTold, OtherReadsTold DEF Read
  <2>2. CASE WriteZoneData(p)
    BY <2>2, ZoneWritesTold, LocationWritesTold, RecordSetWritesTold DEF WriteZoneData
  <2>3. CASE WriteAccount(p)
    BY <2>3, AccountWritesTold DEF WriteAccount
  <2>4. CASE Start(p) \/ StatementFails(p) \/ Respond(p)
    BY <2>4, RequestsTold
  <2> QED BY <2>1, <2>2, <2>3, <2>4 DEF StepOf
<1> QED BY <1>1, <1>2, <1>3 DEF MomentInv

\* A request is answered with what it could have been told in one step, at some
\* moment while it ran: AnswerOfAMoment, for any number of clients, zones and
\* rows, and whatever the other requests do between its statements.
THEOREM AnswersAreOfAMoment == Spec => []AnswerOfAMoment
<1>1. Init => MomentInv
  <2> SUFFICES ASSUME Init PROVE MomentInv
    OBVIOUS
  <2>1. recordSets = {} /\ \A p \in Clients : pc[p] = 0 /\ ans[p] = "none"
    BY DEF Init
  <2>2. ASSUME NEW p \in Clients PROVE Typed(p) /\ Told(p)
    <3>1. ~Running(p) /\ ~(pc[p] > 1) /\ ans[p] = "none"
      BY <2>1 DEF Running
    <3> QED BY <3>1 DEF Typed, Told
  <2> QED BY <2>1, <2>2 DEF MomentInv
<1>2. ApiInv /\ ApiInv' /\ MomentInv /\ [Next]_vars => MomentInv'
  <2> SUFFICES ASSUME ApiInv, ApiInv', MomentInv, [Next]_vars PROVE MomentInv'
    OBVIOUS
  <2>1. CASE Next
    BY <2>1, StepTold DEF Next, StepOf
  <2>2. CASE UNCHANGED vars
    <3>1. /\ users' = users /\ codes' = codes /\ zones' = zones /\ locations' = locations
          /\ recordSets' = recordSets /\ req' = req /\ pc' = pc /\ ref' = ref /\ ans' = ans
          /\ moved' = moved /\ seen' = seen
      BY <2>2 DEF vars, accounts, data
    <3> SUFFICES ASSUME NEW p \in Clients PROVE Typed(p)' /\ Told(p)'
      BY <3>1 DEF MomentInv
    <3>2. Typed(p) /\ Told(p)
      BY DEF MomentInv
    <3>3. /\ Running(p)' <=> Running(p)
          /\ \A d : Passed(p, d)' <=> Passed(p, d)
      BY <3>1 DEF Running, Passed
    <3>4. KnownRows(p)' <=> KnownRows(p)
      BY <3>1 DEF KnownRows, Before, IdsOf
    <3>5. Watched(p)' <=> Watched(p)
      BY <3>1 DEF Watched, Granted, Owned, LocationsOf, RecordSetsOf, ZoneNamed, IdsOf
    <3> QED BY <3>1, <3>2, <3>3, <3>4, <3>5 DEF Typed, Told
  <2> QED BY <2>1, <2>2
<1>3. MomentInv => AnswerOfAMoment
  <2> SUFFICES ASSUME MomentInv, NEW p \in Clients, ans[p] \notin {"none", "internal", "denied"}, ~moved[p]
               PROVE  (ans[p] = "ok") \in seen[p]
    BY DEF AnswerOfAMoment
  <2>1. Told(p)
    BY DEF MomentInv
  <2>2. CASE ans[p] = "ok"
    <3>1. TRUE \in seen[p] /\ (ans[p] = "ok") = TRUE
      BY <2>1, <2>2 DEF Told
    <3> QED BY <3>1
  <2>3. CASE ans[p] # "ok"
    <3>1. FALSE \in seen[p] /\ (ans[p] = "ok") = FALSE
      BY <2>1, <2>3 DEF Told
    <3> QED BY <3>1
  <2> QED BY <2>2, <2>3
<1> QED BY <1>1, <1>2, <1>3, ApiInvariance, PTL DEF Spec
==============================================================================
