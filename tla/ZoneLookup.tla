----------------------------- MODULE ZoneLookup -----------------------------
(***************************************************************************)
(* The two name lookups of the resolver: DataHandler.FindZone over the     *)
(* zone list and Zone.FindLocation over the locations of a zone, with the  *)
(* radix trees they search.                                                *)
(*                                                                         *)
(* A name is the sequence of its labels from the root down, which is what  *)
(* ReverseName makes of it: every key ends at a label boundary, so that    *)
(* prefixes of keys are ancestors of names.  A location is a name relative *)
(* to its zone; <<"@">> stands for the zone itself.                        *)
(***************************************************************************)
EXTENDS Naturals, Sequences, SequencesExt

NoName == <<>>
Apex == <<"@">>

\* The longest member of a set of names that is a prefix of a name.
LongestPrefix(keys, name) ==
    LET below == {k \in keys : IsPrefix(k, name)} IN
    IF below = {} THEN NoName
    ELSE CHOOSE k \in below : \A j \in below : Len(j) <= Len(k)

FindZone(zones, qname) == LongestPrefix(zones, qname)

\* NewZone: a node of LocationsTree for every location and every ancestor of
\* one; only the nodes of locations have a value.
LocationsTree(locations) == (UNION {Prefixes(l) : l \in locations}) \ {NoName}

\* strings.TrimSuffix(query, "."+z.Name), which leaves a name outside the zone
\* as it is; such a name matches no key of the tree.
Relative(zone, query) ==
    IF IsStrictPrefix(zone, query) THEN SubSeq(query, Len(zone) + 1, Len(query))
                                   ELSE query

\* WRONG: the wildcard is looked for at the zone only, not at the closest
\* encloser.
FindLocationTopWildcard(zone, locations, query) ==
    LET rquery == Relative(zone, query)
        prefix == IF IsStrictPrefix(zone, query)
                  THEN LongestPrefix(LocationsTree(locations), rquery) ELSE NoName
        value == prefix \in locations
        wild == <<"*">>
        Found(l, m) == [location |-> l, match |-> m]
    IN CASE query = zone -> Found(Apex, "exact")
         [] query # zone /\ prefix = rquery /\ value -> Found(rquery, "exact")
         [] query # zone /\ prefix = rquery /\ ~value -> Found(NoName, "emptyNonterminal")
         [] query # zone /\ prefix # rquery /\ wild \in locations -> Found(wild, "wildcard")
         [] OTHER -> IF value THEN Found(prefix, "ce") ELSE Found(NoName, "none")

FindLocation(zone, locations, query) ==
    LET rquery == Relative(zone, query)
        prefix == IF IsStrictPrefix(zone, query)
                  THEN LongestPrefix(LocationsTree(locations), rquery) ELSE NoName
        value == prefix \in locations
        wild == Append(prefix, "*")
        Found(l, m) == [location |-> l, match |-> m]
    IN CASE query = zone -> Found(Apex, "exact")
         [] query # zone /\ prefix = rquery /\ value -> Found(rquery, "exact")
         [] query # zone /\ prefix = rquery /\ ~value -> Found(NoName, "emptyNonterminal")
         [] query # zone /\ prefix # rquery /\ wild \in locations -> Found(wild, "wildcard")
         [] OTHER -> IF value THEN Found(prefix, "ce") ELSE Found(NoName, "none")

(***************************************************************************)
(* The reference: the names of a zone as RFC 4592 describes them.          *)
(***************************************************************************)

\* A name exists if it is the zone or if it or a name below it has a location.
Exists(zone, locations, name) ==
    \/ name = zone
    \/ \E l \in locations : IsPrefix(name, zone \o l)

ClosestEncloser(zone, locations, name) ==
    CHOOSE n \in Prefixes(name) :
        /\ IsPrefix(zone, n) /\ Exists(zone, locations, n)
        /\ \A m \in Prefixes(name) : Exists(zone, locations, m) => Len(m) <= Len(n)

Owns(zone, locations, name) == \E l \in locations : name = zone \o l

SourceOfSynthesis(zone, locations, name) ==
    Append(ClosestEncloser(zone, locations, name), "*")

ReferenceMatch(zone, locations, name) ==
    CASE name = zone \/ Owns(zone, locations, name) -> "exact"
      [] name # zone /\ ~Owns(zone, locations, name) /\ Exists(zone, locations, name) ->
            "emptyNonterminal"
      [] ~Exists(zone, locations, name) ->
            IF Owns(zone, locations, SourceOfSynthesis(zone, locations, name))
            THEN "wildcard"
            ELSE IF Owns(zone, locations, ClosestEncloser(zone, locations, name))
                 THEN "ce" ELSE "none"
=============================================================================
