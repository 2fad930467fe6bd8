-------------------------- MODULE AddressSelection --------------------------
(***************************************************************************)
(* Which addresses of an A or AAAA record set are given to a client and in *)
(* which order: DnsRequestHandler.filter, the three geo filters it chooses *)
(* from, and orderIps.                                                     *)
(*                                                                         *)
(* A record set is a sequence data of addresses [weight, country, asn]     *)
(* with its filter [geo, order, count]; a mask has a colour for each of    *)
(* them.  A client is [country, asn, dist]: what the geo database says of  *)
(* its address, Failed when the lookup fails, and the distance to every    *)
(* address, which is NaN when rounding takes GetDistance out of the domain *)
(* of its square root.                                                     *)
(***************************************************************************)
EXTENDS Integers, Sequences, FiniteSets, FiniteSetsExt, SequencesExt

CONSTANTS NaN,       \* the distance that is not a number
          Failed     \* the answer of a geo database that cannot answer

NoCountry == ""
NoASN == 0

ASSUME GeoAssumption == Failed # NoCountry /\ Failed # NoASN /\ NaN \notin Int

Coloured(mask, colour) == {i \in DOMAIN mask : mask[i] = colour}
White(mask) == Coloured(mask, "white")

\* The indexes of a set in their order.
InOrder(S) ==
    [k \in 1..Cardinality(S) |-> CHOOSE i \in S : Cardinality({j \in S : j <= i}) = k]

(***************************************************************************)
(* geotools.  GetSameCountry and GetSameASN are the same code over another *)
(* field: want is what the client has, unknown the value for not having    *)
(* one, and has[i] the values that address i is meant for.                 *)
(***************************************************************************)

\* WRONG: an address that is meant for nobody in particular also passes with
\* the ones that match.
GetSameKeepingAny(want, unknown, has, mask) ==
    IF want = Failed THEN mask
    ELSE [i \in DOMAIN mask |-> IF want \in has[i] \/ has[i] = {} THEN "white" ELSE "black"]

GetSame(want, unknown, has, mask) ==
    LET matching == {i \in White(mask) : want # unknown /\ want \in has[i]}
        first == IF want = unknown THEN mask
                 ELSE [i \in DOMAIN mask |-> IF i \in matching THEN "white"
                                             ELSE IF mask[i] = "white" THEN "grey" ELSE "black"]
        General(i) == has[i] = {} \/ unknown \in has[i]
    IN IF want = Failed THEN mask
       ELSE IF matching # {} THEN first
       ELSE [i \in DOMAIN mask |-> IF first[i] # "black" /\ General(i) THEN "white" ELSE "black"]

GetSameCountry(client, data, mask) ==
    GetSame(client.country, NoCountry, [i \in DOMAIN data |-> data[i].country], mask)

GetSameASN(client, data, mask) ==
    GetSame(client.asn, NoASN, [i \in DOMAIN data |-> data[i].asn], mask)

\* dists has the distances of the white addresses one after the other and is
\* indexed by their places in the mask: they agree because the mask is white.
\* No distance is less than minDistance when none is a number.
GetMinimumDistance(client, data, mask) ==
    LET whites == InOrder(White(mask))
        dists == [k \in DOMAIN whites |-> client.dist[whites[k]]]
        numbers == {dists[k] : k \in DOMAIN dists} \ {NaN}
        passed == {i \in White(mask) : dists[i] # NaN /\ \A d \in numbers : dists[i] <= d}
    IN IF client.country = Failed THEN mask
       ELSE [i \in DOMAIN mask |->
                IF i \in passed \/ (passed = {} /\ mask[i] = "white") THEN "white"
                ELSE IF mask[i] = "white" THEN "grey" ELSE "black"]

(***************************************************************************)
(* handler.                                                                *)
(***************************************************************************)

Weights(data, S) == MapThenSumSet(LAMBDA i : data[i].weight, S)

\* The address that orderIps begins with: by weight, by turn, or the first.
Start(data, order, whites, now) ==
    LET sum == Weights(data, whites)
        UpTo(i) == {j \in whites : j <= i}
    IN CASE order = "weighted" /\ sum > 0 ->
                Min({i \in whites : now % sum < Weights(data, UpTo(i))})
         [] order = "rr" \/ (order = "weighted" /\ sum = 0) ->
                InOrder(whites)[(now % Cardinality(whites)) + 1]
         [] OTHER -> Min(whites)

\* WRONG: the addresses before the first one are not added.
orderIpsToTheEnd(data, filter, mask, now) ==
    LET whites == White(mask)
        index == Start(data, filter.order, whites, now)
    IN IF whites = {} THEN <<>>
       ELSE IF filter.count = "single" THEN <<index>>
       ELSE InOrder({i \in whites : i >= index})

\* now stands for time.Now().Nanosecond().
orderIps(data, filter, mask, now) ==
    LET whites == White(mask)
        index == Start(data, filter.order, whites, now)
    IN IF whites = {} THEN <<>>
       ELSE IF filter.count = "single" THEN <<index>>
       ELSE InOrder({i \in whites : i >= index}) \o InOrder({i \in whites : i < index})

\* The mask that filter passes to orderIps; errors leave it as it is.
GeoMask(client, data, geo) ==
    LET mask == [i \in DOMAIN data |-> "white"]
    IN CASE geo = "asn" -> GetSameASN(client, data, mask)
         [] geo = "country" -> GetSameCountry(client, data, mask)
         [] geo = "asn+country" ->
                GetSameCountry(client, data, GetSameASN(client, data, mask))
         [] geo = "location" -> GetMinimumDistance(client, data, mask)
         [] OTHER -> mask

(***************************************************************************)
(* The reference.                                                          *)
(***************************************************************************)

\* Of the addresses S, those meant for what the client has; if there is none,
\* those meant for anybody.
MeantFor(S, want, unknown, has) ==
    LET matching == {i \in S : want # unknown /\ want \in has[i]} IN
    IF want = Failed THEN S
    ELSE IF matching # {} THEN matching
    ELSE {i \in S : has[i] = {} \/ unknown \in has[i]}

\* The addresses that a client may be given.  The choice by country is made
\* among the addresses chosen by ASN; if the country is unknown it is made among
\* all that could be chosen by ASN, that is the matching ones count no more than
\* those which do not match.
Eligible(client, data, geo) ==
    LET all == DOMAIN data
        country == [i \in all |-> data[i].country]
        asn == [i \in all |-> data[i].asn]
        byASN == MeantFor(all, client.asn, NoASN, asn)
        matched == client.asn \notin {Failed, NoASN} /\ \E i \in all : client.asn \in asn[i]
        known == {i \in all : client.dist[i] # NaN}
    IN CASE geo = "asn" -> byASN
         [] geo = "country" -> MeantFor(all, client.country, NoCountry, country)
         [] geo = "asn+country" ->
                MeantFor(IF client.country = NoCountry /\ matched THEN all ELSE byASN,
                         client.country, NoCountry, country)
         [] geo = "location" ->
                IF client.country = Failed \/ known = {} THEN all
                ELSE {i \in known : \A j \in known : client.dist[i] <= client.dist[j]}
         [] OTHER -> all
=============================================================================
