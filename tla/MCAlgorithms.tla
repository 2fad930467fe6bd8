---------------------------- MODULE MCAlgorithms ----------------------------
(***************************************************************************)
(* The pure algorithms of the resolver, one call at a time, for every      *)
(* argument over a few labels, addresses and clients: the lookups of       *)
(* ZoneLookup and the choice of addresses of AddressSelection, each        *)
(* against its reference.                                                  *)
(***************************************************************************)
EXTENDS ZoneLookup, AddressSelection

CONSTANTS Labels,        \* labels of names
          MaxLabels,     \* bound: labels of a location
          MaxAddresses,  \* bound: addresses of a record set
          LastNanosecond \* bound: 999999999 in a second

VARIABLE asked         \* the function called, its arguments and its result

Zone == <<"z">>

NamesUpTo(labels, n) == UNION {[1..k -> labels] : k \in 1..n}

\* The locations a zone can have: any name over the labels, with or without a
\* leading wildcard label.
Universe == NamesUpTo(Labels, MaxLabels) \union {<<"*">>} \union
            {Append(n, "*") : n \in NamesUpTo(Labels, MaxLabels - 1)}

Queries == {Zone} \union
           {Zone \o n : n \in NamesUpTo(Labels \union {"*"}, MaxLabels + 1)}

Sets(T) == UNION {[1..n -> T] : n \in 1..MaxAddresses}

\* Addresses meant for everybody, for the clients of one or of another country or
\* network, and for one of them as well as for everybody; of any weight, also one
\* that is zero or, as nothing checks what a zone file says, negative.
Placed == [weight : {1}, country : {{}, {NoCountry}, {"x"}, {"y", NoCountry}}, asn : {{}, {1}, {2}}]
Weighted == [weight : -1..3, country : {{}}, asn : {{}}]

Clients == [country : {NoCountry, "x", "y", Failed}, asn : {NoASN, 1, Failed},
            dist : {[i \in 1..MaxAddresses |-> 0]}]
Located == [country : {NoCountry, Failed}, asn : {NoASN},
            dist : [1..MaxAddresses -> {0, 1, 2, NaN}]]

Idle == [fn |-> "none"]

AskInit == asked = Idle

CallFindLocation ==
    \E locations \in SUBSET Universe, query \in Queries :
        asked' = [fn |-> "FindLocation", locations |-> locations, query |-> query,
                  found |-> FindLocation(Zone, locations, query)]

CallFindZone ==
    \E zones \in SUBSET {Zone, <<"z", "a">>, <<"z", "a", "b">>, <<"y">>}, query \in Queries :
        asked' = [fn |-> "FindZone", zones |-> zones, query |-> query,
                  found |-> FindZone(zones, query)]

CallGeoFilter ==
    \/ \E data \in Sets(Placed), client \in Clients, geo \in {"asn", "country", "asn+country", "none"} :
        asked' = [fn |-> "filter", data |-> data, client |-> client, geo |-> geo,
                  mask |-> GeoMask(client, data, geo)]
    \/ \E data \in Sets(Weighted), client \in Located :
        asked' = [fn |-> "filter", data |-> data, client |-> client, geo |-> "location",
                  mask |-> GeoMask(client, data, "location")]

CallOrderIps ==
    \E data \in Sets(Weighted), order \in {"weighted", "rr", "none"}, count \in {"single", "multi"} :
        \E mask \in [DOMAIN data -> {"white", "grey", "black"}] :
            asked' = [fn |-> "orderIps", data |-> data, mask |-> mask, order |-> order, count |-> count]

Ask == asked = Idle /\ (CallFindLocation \/ CallFindZone \/ CallGeoFilter \/ CallOrderIps)

Answered == asked # Idle /\ asked' = Idle

AskNext == Ask \/ Answered

AskSpec == AskInit /\ [][AskNext]_asked

\* Zone.FindLocation classifies a name as RFC 4592 does: exact, an empty
\* non-terminal, covered by the wildcard at its closest encloser, or absent,
\* with the closest encloser when that is a location (a possible zone cut).
\* The location it returns is the one the name is to be answered from.  FindZone
\* returns the deepest enabled zone that contains the name.
LookupIsReference ==
    /\ asked.fn = "FindZone" =>
        \A y \in asked.zones : IsPrefix(y, asked.query) =>
            asked.found # NoName /\ IsPrefix(y, asked.found)
    /\ asked.fn = "FindLocation" =>
        LET found == asked.found IN
        /\ found.match = ReferenceMatch(Zone, asked.locations, asked.query)
        /\ found.match = "exact" =>
              asked.query = (IF found.location = Apex THEN Zone ELSE Zone \o found.location)
        /\ found.match = "wildcard" =>
              Zone \o found.location = SourceOfSynthesis(Zone, asked.locations, asked.query)
        /\ found.match = "ce" =>
              Zone \o found.location = ClosestEncloser(Zone, asked.locations, asked.query)

\* The geo filters of DnsRequestHandler.filter, which colour a mask in two passes
\* and may be applied one after the other, let through exactly the addresses of
\* the reference: those meant for the client's country or network or, if there is
\* none, those meant for anybody, and by location the nearest ones.
FilterIsReference ==
    asked.fn = "filter" => White(asked.mask) = Eligible(asked.client, asked.data, asked.geo)

\* What orderIps answers to the call c at a nanosecond of the second.
Ordered(c, now) == orderIps(c.data, [order |-> c.order, count |-> c.count], c.mask, now)

\* The call c is answered with an address if any is eligible, and only with eligible
\* ones: one of them, or each of them once in the order of the record set rotated.
\* Which one is first is the turn of the nanosecond.  "rr" has a turn for each
\* address; "weighted" has as many turns for an address as it weighs, when no weight
\* is negative and some weight is not zero, and is as "rr" when the weights add up
\* to zero.
FairOrder(c) ==
    LET whites == White(c.mask)
        n == Cardinality(whites)
        sum == Weights(c.data, whites)
        Turns(i, m) == {turn \in 0..(m - 1) : Ordered(c, turn)[1] = i}
        InTurn(m) == \A now \in 0..LastNanosecond : Ordered(c, now) = Ordered(c, now % m)
    IN /\ \A now \in 0..LastNanosecond :
            LET given == Ordered(c, now) IN
            /\ Len(given) = (IF c.count = "single" /\ n > 0 THEN 1 ELSE n)
            /\ ToSet(given) \subseteq whites
            /\ \A k \in 1..(Len(given) - 1) :
                  given[k + 1] = (IF given[k] = Max(whites) THEN Min(whites)
                                  ELSE Min({i \in whites : i > given[k]}))
       /\ /\ whites # {}
          /\ c.order = "rr" \/ (c.order = "weighted" /\ sum = 0)
          => InTurn(n) /\ \A i \in whites : Cardinality(Turns(i, n)) = 1
       /\ /\ c.order = "weighted" /\ sum > 0
          /\ \A i \in whites : c.data[i].weight >= 0
          => InTurn(sum) /\ \A i \in whites : Cardinality(Turns(i, sum)) = c.data[i].weight

\* orderIps answers every call in a fair order, whatever the weights: they may be
\* zero or negative.
OrderIsFair == asked.fn = "orderIps" => FairOrder(asked)
=============================================================================
