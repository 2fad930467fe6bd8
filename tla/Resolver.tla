------------------------------ MODULE Resolver ------------------------------
(***************************************************************************)
(* DnsRequestHandler.HandleRequest for one query: the zone, the CNAME      *)
(* loop, delegations and their glue, the ANAME and CAA searches, and the   *)
(* denials.  Every record set is a Redis call of its own, which may fail,  *)
(* and between two calls the zone list may be reloaded and records may be  *)
(* changed; the zone with its locations is a snapshot.                     *)
(*                                                                         *)
(* Record types with the same control are one type here: A is also AAAA,   *)
(* and TXT is also MX, SRV, PTR and TLSA.  Addresses are left out but for  *)
(* whether the geo filter (AddressSelection) lets any through, signatures  *)
(* but for what they cover.  Names in records are fully qualified.         *)
(***************************************************************************)
EXTENDS ZoneLookup, FiniteSets

CONSTANTS Zones,         \* the zone names that can be in the zone list
          Locations,     \* [Zones -> set of locations]: context.zone
          Contents,      \* possible contents of the record store
          Requests,      \* the requests: [qname, qtype, do, dnssec, flattening]
          BusyRequests,  \* bound: the requests under which others change things,
          BusyContents,  \*        and the contents that the records change between
          MaxHops,       \* the bound of the two loops (10 in the code)
          MaxChanges,    \* bound: reloads of the zone list and record changes
          MaxFailures    \* bound: failing calls

ASSUME ResolverAssumption ==
    /\ MaxHops \in Nat /\ MaxChanges \in Nat /\ MaxFailures \in Nat
    /\ BusyRequests \subseteq Requests /\ BusyContents \subseteq Contents
    /\ Zones \subseteq Seq(STRING) \ {NoName}
    /\ \A y \in Zones : Locations[y] \subseteq Seq(STRING) \ {NoName}
    /\ \A q \in Requests : q.qname \in Seq(STRING)
    /\ \A s \in Contents : \A k \in DOMAIN s : s[k].cname \in Seq(STRING)

\* What a store holds under a location: the target of CNAME and ANAME, or
\* NoName; the hosts of NS; whether there are DS, A, TXT and CAA records.
NoRecords == [cname |-> NoName, aname |-> NoName, ns |-> {}, ds |-> FALSE,
              a |-> FALSE, txt |-> FALSE, caa |-> FALSE]

VARIABLES zones,        \* dh.zones
          records,      \* the records of every zone and location in Redis
          req,          \* the question, and the options of its zone
          pc,           \* the next step of HandleRequest
          zone,         \* zoneName
          cur,          \* currentQName
          hops,         \* loopCount
          loc,          \* location
          alias,        \* currentQName of findANAME
          aliasHops,    \* loopCount of findANAME
          caaLoc,       \* currentLocation of findCAA
          hosts,        \* NS hosts whose glue is still to be looked up
          res,          \* context.Res
          answer, authority, additional,
          source,       \* where an address came from, or that ANAME failed
          quiet,        \* nothing changed so far
          changes, failures

envVars == <<zones, records, changes>>
msgVars == <<res, answer, authority, additional>>
loopVars == <<cur, hops, loc>>
aliasVars == <<alias, aliasHops, source>>
vars == <<envVars, req, pc, zone, loopVars, aliasVars, caaLoc, hosts, msgVars,
          quiet, failures>>

RR(owner, type, to) == [owner |-> owner, type |-> type, to |-> to]
SOA == RR(zone, "SOA", NoName)
NSEC(name) == RR(name, "NSEC", NoName)

\* The request is answered from a signed zone for a client that asked for it,
\* so that CNAMEs are flattened as well.
Dnssec == req.do /\ req.dnssec
Flattening == Dnssec \/ req.flattening

Get(z, l) == IF <<z, l>> \in DOMAIN records THEN records[<<z, l>>] ELSE NoRecords

Lookup(name) == FindLocation(zone, Locations[zone], name)

Init ==
    /\ zones \in SUBSET Zones
    /\ records \in Contents
    /\ req \in Requests
    /\ pc = "findZone"
    /\ zone = NoName
    /\ cur = req.qname /\ hops = 0 /\ loc = NoName
    /\ alias = NoName /\ aliasHops = 0 /\ source = "none"
    /\ caaLoc = NoName
    /\ hosts = {}
    /\ res = "NOERROR" /\ answer = <<>> /\ authority = <<>> /\ additional = {}
    /\ quiet = TRUE
    /\ changes = 0 /\ failures = 0

(***************************************************************************)
(* Building the response.                                                  *)
(***************************************************************************)

\* addNSec(context, name, qtype): in a signed answer a denial for name, and no
\* NXDOMAIN; at the zone itself whatever was to be reported becomes a success.
\* (WRONG: no denial at the zone itself.)
DenialBelowApex(name) == IF Dnssec /\ name # zone THEN <<NSEC(name)>> ELSE <<>>
DeniedRes(name, r) == IF Dnssec /\ (name = zone \/ r = "NXDOMAIN") THEN "NOERROR" ELSE r
Denial(name) == IF Dnssec THEN <<NSEC(name)>> ELSE <<>>

\* WRONG: NS sets are never signed, not even the zone's own.
SignResponseWithoutNS(rrs) ==
    rrs \o SetToSeq({RR(s[1], "RRSIG", <<s[2]>>) :
                        s \in {<<rrs[i].owner, rrs[i].type>> : i \in
                                {j \in DOMAIN rrs : rrs[j].type # "NS"}}})

\* dnssec.SignResponse: the records and a signature for each of their sets; an NS
\* set is signed only in the answer to a question for the zone itself.
SignResponse(rrs) ==
    rrs \o SetToSeq({RR(s[1], "RRSIG", <<s[2]>>) :
                        s \in {<<rrs[i].owner, rrs[i].type>> : i \in
                                {j \in DOMAIN rrs : rrs[j].type # "NS" \/ req.qname = zone}}})

\* break loop, with the response as it is except for its code.
Break(r) ==
    /\ pc' = "respond"
    /\ res' = r
    /\ UNCHANGED <<answer, authority, additional>>

\* The step in progress changes none of these.
Elsewhere == UNCHANGED <<envVars, req, zone>>

\* A Redis call fails; what follows is a SERVFAIL.
CallFails ==
    /\ failures < MaxFailures
    /\ failures' = failures + 1
    /\ UNCHANGED quiet

CallWorks == UNCHANGED <<quiet, failures>>

(***************************************************************************)
(* The zone.                                                               *)
(***************************************************************************)
FindZoneOfQuery ==
    /\ pc = "findZone"
    /\ zone' = FindZone(zones, req.qname)
    /\ IF zone' = NoName
       THEN pc' = "respond" /\ res' = "NOTAUTH"
       ELSE pc' = "getZone" /\ res' = res
    /\ CallWorks
    /\ UNCHANGED <<envVars, req, loopVars, aliasVars, caaLoc, hosts, answer, authority,
                   additional>>

GetZone ==
    /\ pc = "getZone"
    /\ \/ CallWorks /\ pc' = "loop" /\ UNCHANGED msgVars
       \/ CallFails /\ Break("SERVFAIL")
    /\ Elsewhere /\ UNCHANGED <<loopVars, aliasVars, caaLoc, hosts>>

(***************************************************************************)
(* The head of the loop.                                                   *)
(***************************************************************************)
InLoop == pc = "loop" /\ hops <= MaxHops /\ CallWorks /\ Elsewhere
          /\ hops' = hops + 1 /\ UNCHANGED <<cur, aliasVars, caaLoc, hosts>>

TooManyHops ==
    /\ pc = "loop"
    /\ hops > MaxHops
    /\ pc' = "respond"
    /\ answer' = <<>>
    /\ res' = "SERVFAIL"
    /\ CallWorks
    /\ Elsewhere
    /\ UNCHANGED <<loopVars, aliasVars, caaLoc, hosts, authority, additional>>

InZone == FindZone(zones, cur) = zone

OutOfZone ==
    /\ InLoop
    /\ ~InZone
    /\ pc' = "respond"
    /\ res' = "NOERROR"
    /\ authority' = authority \o (IF answer = <<>> THEN Denial(req.qname) ELSE <<>>)
    /\ UNCHANGED <<loc, answer, additional>>

\* NoMatch and EmptyNonterminalMatch: the negative answers of the tree.
NoSuchName ==
    /\ InLoop
    /\ InZone
    /\ Lookup(cur).match \in {"none", "emptyNonterminal"}
    /\ LET r == IF Lookup(cur).match = "none" THEN "NXDOMAIN" ELSE "NOERROR" IN
          /\ res' = DeniedRes(cur, r)
          /\ authority' = <<SOA>> \o Denial(cur)
    /\ pc' = "respond"
    /\ UNCHANGED <<loc, answer, additional>>

NameMatches ==
    /\ InLoop
    /\ InZone
    /\ Lookup(cur).match \in {"ce", "wildcard", "exact"}
    /\ loc' = Lookup(cur).location
    /\ pc' = IF Lookup(cur).match = "ce" THEN "ceNS" ELSE "cname"
    /\ UNCHANGED msgVars

(***************************************************************************)
(* Record lookups: one action per Redis call, which works or fails.        *)
(***************************************************************************)
At(step) == pc = step /\ Elsewhere

\* Handle a call that fails as most are: SERVFAIL with what is there so far.
OrServfail ==
    /\ CallFails
    /\ Break("SERVFAIL")
    /\ UNCHANGED <<loopVars, aliasVars, caaLoc, hosts>>

Here == Get(zone, loc)

\* WRONG: NS that cannot be read are taken for none.
ReadEncloserNSOrNone ==
    /\ At("ceNS")
    /\ \/ /\ CallWorks
          /\ Here.ns # {}
          /\ authority' = Append(authority, RR(zone \o loc, "NS", NoName))
          /\ hosts' = Here.ns
          /\ pc' = "ceDS"
          /\ UNCHANGED <<res, answer, additional, loopVars, aliasVars, caaLoc>>
       \/ /\ CallFails \/ (CallWorks /\ Here.ns = {})
          /\ authority' = <<SOA>> \o Denial(cur)
          /\ res' = DeniedRes(cur, "NXDOMAIN")
          /\ pc' = "respond"
          /\ UNCHANGED <<answer, additional, loopVars, aliasVars, caaLoc, hosts>>

\* CEMatch: NS at the closest encloser tells a delegation from an absent name.
ReadEncloserNS ==
    /\ At("ceNS")
    /\ \/ OrServfail
       \/ /\ CallWorks
          /\ Here.ns # {}
          /\ authority' = Append(authority, RR(zone \o loc, "NS", NoName))
          /\ hosts' = Here.ns
          /\ pc' = "ceDS"
          /\ UNCHANGED <<res, answer, additional, loopVars, aliasVars, caaLoc>>
       \/ /\ CallWorks
          /\ Here.ns = {}
          /\ authority' = <<SOA>> \o Denial(cur)
          /\ res' = DeniedRes(cur, "NXDOMAIN")
          /\ pc' = "respond"
          /\ UNCHANGED <<answer, additional, loopVars, aliasVars, caaLoc, hosts>>

ReadEncloserDS ==
    /\ At("ceDS")
    /\ \/ OrServfail
       \/ /\ CallWorks
          /\ authority' = authority \o
                (IF Here.ds THEN <<RR(zone \o loc, "DS", NoName)>> ELSE Denial(zone \o loc))
          /\ pc' = "glue"
          /\ UNCHANGED <<res, answer, additional, loopVars, aliasVars, caaLoc, hosts>>

\* Glue: the addresses of an NS host, wherever FindLocation finds it; a call
\* that fails leaves them out.
ReadGlue(h) ==
    /\ At("glue")
    /\ h \in hosts
    /\ hosts' = hosts \ {h}
    /\ LET g == Lookup(h) IN
       \/ /\ CallWorks
          /\ additional' = IF g.match # "none" /\ Get(zone, g.location).a
                           THEN additional \union {h} ELSE additional
       \/ g.match # "none" /\ CallFails /\ additional' = additional
    /\ UNCHANGED <<pc, res, answer, authority, loopVars, aliasVars, caaLoc>>

ReferralDone ==
    /\ At("glue")
    /\ hosts = {}
    /\ CallWorks
    /\ Break("NOERROR")
    /\ UNCHANGED <<loopVars, aliasVars, caaLoc, hosts>>

(***************************************************************************)
(* ExactMatch and WildCardMatch: CNAME first, then a delegation.           *)
(***************************************************************************)
\* WRONG: the answer is the query name's even after a chain of CNAMEs.
OwnerOfQuery == req.qname

\* From the final location on, a flattened answer is under the query name.
Owner == IF Flattening THEN req.qname ELSE cur

Follow(target) ==
    IF ~Flattening
    THEN /\ answer' = Append(answer, RR(cur, "CNAME", target))
         /\ cur' = target /\ pc' = "loop" /\ res' = res
    ELSE IF FindZone(zones, target) # zone
    THEN /\ answer' = Append(answer, RR(req.qname, "CNAME", target))
         /\ cur' = cur /\ pc' = "respond" /\ res' = "NOERROR"
    ELSE /\ cur' = target /\ pc' = "loop"
         /\ UNCHANGED <<answer, res>>

ReadCNAME ==
    /\ At("cname")
    /\ \/ OrServfail
       \/ /\ CallWorks
          /\ Here.cname # NoName /\ req.qtype # "CNAME"
          /\ Follow(Here.cname)
          /\ UNCHANGED <<authority, additional, hops, loc, aliasVars, caaLoc, hosts>>
       \/ /\ CallWorks
          /\ ~(Here.cname # NoName /\ req.qtype # "CNAME")
          /\ pc' = IF cur # zone THEN "ns" ELSE "answer"
          /\ cur' = IF cur # zone THEN cur ELSE Owner
          /\ UNCHANGED <<msgVars, hops, loc, aliasVars, caaLoc, hosts>>

ReadNS ==
    /\ At("ns")
    /\ \/ OrServfail
       \/ /\ CallWorks
          /\ hosts' = Here.ns
          /\ pc' = IF Here.ns # {} THEN "ds" ELSE "answer"
          /\ cur' = IF Here.ns # {} THEN cur ELSE Owner
          /\ UNCHANGED <<msgVars, hops, loc, aliasVars, caaLoc>>

ReadDS ==
    /\ At("ds")
    /\ \/ OrServfail
       \/ /\ CallWorks
          /\ Here.ds /\ req.qtype = "DS"
          /\ answer' = Append(answer, RR(cur, "DS", NoName))
          /\ res' = "NOERROR"
          /\ pc' = "respond"
          /\ UNCHANGED <<authority, additional, loopVars, aliasVars, caaLoc, hosts>>
       \/ /\ CallWorks
          /\ ~(Here.ds /\ req.qtype = "DS")
          /\ authority' = authority
                \o (IF Here.ds THEN <<RR(cur, "DS", NoName)>> ELSE Denial(cur))
                \o <<RR(cur, "NS", NoName)>>
          /\ pc' = "glue"
          /\ UNCHANGED <<res, answer, additional, loopVars, aliasVars, caaLoc, hosts>>

(***************************************************************************)
(* The final location: the answer by query type.                           *)
(***************************************************************************)
\* The answer is appended; an empty one is a denial, with the SOA if it is a
\* successful one.
Finish(rrs, r) ==
    /\ pc' = "respond"
    /\ answer' = answer \o rrs
    /\ res' = IF rrs = <<>> THEN DeniedRes(cur, r) ELSE r
    /\ authority' = authority \o
          (IF rrs # <<>> THEN <<>>
           ELSE Denial(cur) \o (IF res' = "NOERROR" THEN <<SOA>> ELSE <<>>))
    /\ UNCHANGED additional

\* The answers that need no record set: SOA, DNSKEY, DS, and unknown types.
AnswerFromZone ==
    /\ At("answer")
    /\ CallWorks
    /\ \/ req.qtype = "SOA" /\ Finish(<<SOA>>, res)
       \/ /\ req.qtype = "DNSKEY"
          /\ Finish(IF req.dnssec THEN <<RR(zone, "DNSKEY", NoName)>> ELSE <<>>, res)
       \/ req.qtype = "DS" /\ Finish(<<>>, res)
       \/ /\ req.qtype = "OTHER"
          /\ answer' = <<>> /\ authority' = <<SOA>> /\ res' = "NOERROR"
          /\ pc' = "respond"
          /\ UNCHANGED additional
    /\ UNCHANGED <<loopVars, aliasVars, caaLoc, hosts>>

Holds(r, type) ==
    CASE type = "CNAME" -> r.cname # NoName
      [] type = "NS" -> r.ns # {}
      [] type = "TXT" -> r.txt
      [] type = "A" -> r.a
      [] type = "CAA" -> r.caa

\* WRONG: what cannot be read is denied.
ReadAnswerOrNone ==
    /\ At("answer")
    /\ req.qtype \in {"CNAME", "NS", "TXT"}
    /\ \/ CallFails /\ Finish(<<>>, res)
       \/ /\ CallWorks
          /\ Finish(IF ~Holds(Here, req.qtype) THEN <<>>
                    ELSE <<RR(cur, req.qtype,
                              IF req.qtype = "CNAME" THEN Here.cname ELSE NoName)>>, res)
    /\ UNCHANGED <<loopVars, aliasVars, caaLoc, hosts>>

\* One more call for CNAME, NS and TXT, although CNAME and NS may have been
\* read before.
ReadAnswer ==
    /\ At("answer")
    /\ req.qtype \in {"CNAME", "NS", "TXT"}
    /\ \/ OrServfail
       \/ /\ CallWorks
          /\ Finish(IF ~Holds(Here, req.qtype) THEN <<>>
                    ELSE <<RR(cur, req.qtype,
                              IF req.qtype = "CNAME" THEN Here.cname ELSE NoName)>>, res)
          /\ UNCHANGED <<loopVars, aliasVars, caaLoc, hosts>>

ReadA ==
    /\ At("answer")
    /\ req.qtype = "A"
    /\ \/ OrServfail
       \/ /\ CallWorks
          /\ pc' = IF Here.a THEN "anameWithA" ELSE "aname"
          /\ UNCHANGED <<msgVars, loopVars, aliasVars, caaLoc, hosts>>

\* generateA, and what it came from.
Addresses(from) ==
    /\ source' = from
    /\ Finish(<<RR(cur, "A", NoName)>>, "NOERROR")

\* The addresses of the store that pass the geo filter, which may be none.
Filtered(from) ==
    \/ Addresses(from)
    \/ source' = "filtered" /\ Finish(<<>>, "NOERROR")

\* ANAME is read whether or not there is an A, and used if there is none.
ReadANAME ==
    /\ At(IF pc = "aname" THEN "aname" ELSE "anameWithA")
    /\ \/ OrServfail
       \/ /\ CallWorks
          /\ pc = "anameWithA"
          /\ Filtered("own")
          /\ UNCHANGED <<alias, aliasHops, loopVars, caaLoc, hosts>>
       \/ /\ CallWorks
          /\ pc = "aname" /\ Here.aname = NoName
          /\ Finish(<<>>, res)
          /\ UNCHANGED <<loopVars, aliasVars, caaLoc, hosts>>
       \/ /\ CallWorks
          /\ pc = "aname" /\ Here.aname # NoName
          /\ alias' = Here.aname /\ aliasHops' = 0
          /\ pc' = "alias"
          /\ UNCHANGED <<source, msgVars, loopVars, caaLoc, hosts>>

(***************************************************************************)
(* findANAME: follow aliases inside the zone, or ask upstream.             *)
(***************************************************************************)
\* findANAME returns no address: SERVFAIL if it failed, else an empty success.
NoAddress(r) ==
    /\ source' = IF r = "SERVFAIL" THEN "failed" ELSE source
    /\ Finish(<<>>, r)
    /\ UNCHANGED <<alias, aliasHops>>

AliasFails == CallFails /\ NoAddress("SERVFAIL")

There == Get(zone, Lookup(alias).location)

AliasInZone == FindZone(zones, alias) = zone

\* WRONG: the rounds of findANAME are not counted.
AliasUncounted == aliasHops' = aliasHops

CountAlias == aliasHops' = aliasHops + 1

AliasHop ==
    /\ At("alias")
    /\ CallWorks
    /\ \/ /\ aliasHops > MaxHops
          /\ NoAddress("SERVFAIL")
       \/ /\ aliasHops <= MaxHops /\ ~AliasInZone
          /\ pc' = "upstream" /\ CountAlias
          /\ UNCHANGED <<msgVars, alias, source>>
       \/ /\ aliasHops <= MaxHops /\ AliasInZone /\ Lookup(alias).match = "none"
          /\ NoAddress("SERVFAIL")
       \/ /\ aliasHops <= MaxHops /\ AliasInZone /\ Lookup(alias).match # "none"
          /\ pc' = "aliasCNAME" /\ CountAlias
          /\ UNCHANGED <<msgVars, alias, source>>
    /\ UNCHANGED <<loopVars, caaLoc, hosts>>

\* h.upstream.Query: an external resolver that has an address, has none, or
\* fails.
Upstream ==
    /\ At("upstream")
    /\ \/ CallWorks /\ Addresses("upstream") /\ UNCHANGED <<alias, aliasHops>>
       \/ CallWorks /\ NoAddress("NOERROR")
       \/ AliasFails
    /\ UNCHANGED <<loopVars, caaLoc, hosts>>

ReadAliasCNAME ==
    /\ At("aliasCNAME")
    /\ \/ AliasFails
       \/ /\ CallWorks
          /\ alias' = IF There.cname # NoName THEN There.cname ELSE alias
          /\ pc' = IF There.cname # NoName THEN "alias" ELSE "aliasA"
          /\ UNCHANGED <<msgVars, aliasHops, source>>
    /\ UNCHANGED <<loopVars, caaLoc, hosts>>

ReadAliasA ==
    /\ At("aliasA")
    /\ \/ AliasFails
       \/ CallWorks /\ There.a /\ Filtered("alias") /\ UNCHANGED <<alias, aliasHops>>
       \/ /\ CallWorks /\ ~There.a
          /\ pc' = "aliasANAME"
          /\ UNCHANGED <<msgVars, aliasVars>>
    /\ UNCHANGED <<loopVars, caaLoc, hosts>>

ReadAliasANAME ==
    /\ At("aliasANAME")
    /\ \/ AliasFails
       \/ CallWorks /\ There.aname = NoName /\ NoAddress("NOERROR")
       \/ /\ CallWorks /\ There.aname # NoName
          /\ alias' = There.aname
          /\ pc' = "alias"
          /\ UNCHANGED <<msgVars, aliasHops, source>>
    /\ UNCHANGED <<loopVars, caaLoc, hosts>>

(***************************************************************************)
(* findCAA: climb from the name to the zone until there is a CAA.  Failing *)
(* calls are passed over.                                                  *)
(***************************************************************************)
ReadFirstCAA ==
    /\ At("answer")
    /\ req.qtype = "CAA"
    /\ LET l == Lookup(cur).location
       IN /\ caaLoc' = l
          /\ \/ /\ CallFails \/ (CallWorks /\ ~Get(zone, l).caa)
                /\ pc' = "caaClimb"
                /\ UNCHANGED msgVars
             \/ /\ CallWorks /\ Get(zone, l).caa
                /\ Finish(<<RR(cur, "CAA", NoName)>>, res)
    /\ UNCHANGED <<loopVars, aliasVars, hosts>>

ClimbCAA ==
    /\ At("caaClimb")
    /\ Len(caaLoc) > 1
    /\ LET parent == Front(caaLoc)
           f == FindLocation(zone, Locations[zone], zone \o parent)
           named == f.match \in {"exact", "wildcard"}
       IN \/ ~named /\ CallWorks /\ caaLoc' = parent /\ UNCHANGED <<pc, msgVars>>
          \/ named /\ CallFails /\ caaLoc' = parent /\ UNCHANGED <<pc, msgVars>>
          \/ /\ named /\ CallWorks
             /\ caaLoc' = f.location
             /\ IF Get(zone, f.location).caa THEN Finish(<<RR(cur, "CAA", NoName)>>, res)
                                             ELSE UNCHANGED <<pc, msgVars>>
    /\ UNCHANGED <<loopVars, aliasVars, hosts>>

ReadLastCAA ==
    /\ At("caaClimb")
    /\ Len(caaLoc) <= 1
    /\ \/ CallFails /\ Finish(<<>>, res)
       \/ /\ CallWorks
          /\ Finish(IF Get(zone, Apex).caa THEN <<RR(cur, "CAA", NoName)>> ELSE <<>>, res)
    /\ UNCHANGED <<loopVars, aliasVars, caaLoc, hosts>>

(***************************************************************************)
(* The response is sent; others change the zone list and the records.      *)
(***************************************************************************)
\* applyDnssec, and the response is written.
Respond ==
    /\ At("respond")
    /\ pc' = "done"
    /\ answer' = IF Dnssec THEN SignResponse(answer) ELSE answer
    /\ authority' = IF Dnssec THEN SignResponse(authority) ELSE authority
    /\ UNCHANGED <<loopVars, aliasVars, caaLoc, hosts, res, additional, quiet, failures>>

Disturb ==
    /\ pc \notin {"findZone", "respond", "done"}
    /\ changes < MaxChanges
    /\ req \in BusyRequests /\ records \in BusyContents
    /\ changes' = changes + 1
    /\ quiet' = FALSE
    /\ UNCHANGED <<req, pc, zone, loopVars, aliasVars, caaLoc, hosts, msgVars, failures>>

ReloadZones ==
    /\ Disturb
    /\ zones' \in (SUBSET Zones) \ {zones}
    /\ UNCHANGED records

ChangeRecords ==
    /\ Disturb
    /\ records' \in BusyContents \ {records}
    /\ UNCHANGED zones

LoopHead == TooManyHops \/ OutOfZone \/ NoSuchName \/ NameMatches

Step ==
    \/ FindZoneOfQuery \/ GetZone
    \/ LoopHead
    \/ ReadEncloserNS \/ ReadEncloserDS
    \/ (\E h \in hosts : ReadGlue(h)) \/ ReferralDone
    \/ ReadCNAME \/ ReadNS \/ ReadDS
    \/ AnswerFromZone \/ ReadAnswer \/ ReadA \/ ReadANAME
    \/ AliasHop \/ Upstream \/ ReadAliasCNAME \/ ReadAliasA \/ ReadAliasANAME
    \/ ReadFirstCAA \/ ClimbCAA \/ ReadLastCAA
    \/ Respond

Next == Step \/ ReloadZones \/ ChangeRecords

\* The goroutine of the request runs, and every call returns.
Spec == Init /\ [][Next]_vars /\ WF_vars(Step)

(***************************************************************************)
(* Properties.                                                             *)
(***************************************************************************)
Types == {"A", "CNAME", "NS", "TXT", "CAA", "SOA", "DNSKEY", "DS", "OTHER"}
Done == pc = "done"
Has(section, type) == \E i \in DOMAIN section : section[i].type = type

\* A name error is told for names of the zone that do not exist and that no
\* wildcard covers, whatever fails or changes meanwhile; for a name below an existing
\* one only if that is no delegation, also when its NS could not be read, unless the
\* records changed; and never in a signed answer, where addNSec turns it into a
\* denial: handler.go, NoMatch and CEMatch.
NameErrorIsTrue ==
    Done /\ res = "NXDOMAIN" =>
        /\ ~Dnssec
        /\ IsPrefix(zone, cur)
        /\ ReferenceMatch(zone, Locations[zone], cur) \in {"none", "ce"}
        /\ quiet /\ Lookup(cur).match = "ce" => Get(zone, Lookup(cur).location).ns = {}

\* The answer section is a chain from the query name: every CNAME leads to the
\* owner of the next record.  In a flattened answer every record is the query
\* name's, but for the DS of a delegation that its CNAMEs lead to.  SOA and
\* DNSKEY, which are the zone's at any name, come last and are left out.
AnswerChain ==
    LET links == {i \in DOMAIN answer : answer[i].type \notin {"SOA", "DNSKEY", "RRSIG"}} IN
    Done => \A i \in links :
        IF Flattening
        THEN answer[i].owner = req.qname \/ answer[i].type = "DS"
        ELSE /\ i = 1 => answer[i].owner = req.qname
             /\ i > 1 => /\ i - 1 \in links /\ answer[i - 1].type = "CNAME"
                         /\ answer[i - 1].to = answer[i].owner

\* The name the query name stands for: its CNAMEs are followed inside the zone
\* as often as the code does.
Walk[i \in 0..MaxHops] ==
    IF i = 0 THEN req.qname
    ELSE LET n == Walk[i - 1]
             f == Lookup(n)
             c == Get(zone, f.location).cname
         IN IF /\ FindZone(zones, n) = zone
               /\ f.match \in {"exact", "wildcard"}
               /\ req.qtype # "CNAME" /\ c # NoName
            THEN c ELSE n

Outcome ==
    LET n == Walk[MaxHops]
        f == Lookup(n)
    IN [name |-> n, in |-> FindZone(zones, n) = zone,
        match |-> f.match, here |-> Get(zone, f.location)]

\* If nothing changed while the request was handled, an empty successful answer to
\* a plain query is the truth, whichever of its calls failed: the name it ends at
\* has nothing of the type, or it is below a delegation.  A failing read is never
\* told as a denial, and two lookups of the same name never disagree about where
\* the answer is.  (Left out are the geo filter that let no address through, and
\* the ANAME that could not be followed, for which see AnameToNothingFails.)
QuietDenialIsTrue ==
    Done /\ quiet /\ zone # NoName /\ res = "NOERROR" /\ answer = <<>>
      /\ req.qtype \in {"A", "CNAME", "NS", "TXT"} /\ source = "none" =>
        \/ Outcome.match \in {"none", "emptyNonterminal", "ce"}
        \/ Outcome.name # zone /\ Outcome.here.ns # {}
        \/ ~Holds(Outcome.here, req.qtype)

\* A negative answer can be used, whatever failed: unless something changed under
\* the request it has the SOA, or it is a referral; and in a signed answer, also if
\* something changed, an empty success of a type the server knows carries an NSEC,
\* or is a signed referral with the DS.
NegativeIsComplete ==
    Done /\ zone # NoName /\ answer = <<>> =>
        /\ quiet /\ res \in {"NOERROR", "NXDOMAIN"} =>
              Has(authority, "SOA") \/ Has(authority, "NS")
        /\ Dnssec /\ res = "NOERROR" /\ req.qtype # "OTHER" =>
              Has(authority, "NSEC") \/ Has(authority, "DS")

Signed(section, r) == \E i \in DOMAIN section :
    section[i] = RR(r.owner, "RRSIG", <<r.type>>)

\* Of a signed response, flattened, denied or cut short, a validator can check
\* every set of the answer and the authority but two kinds of NS sets.  dnssec.go
\* decides by the name of the question and not of the set, so that it leaves
\* unsigned the zone's own NS in an answer flattened to another name, and signs a
\* delegation met by a question for the zone itself.  An NS set of an answer is
\* never anything else but the zone's own, unless a delegation was added or removed
\* under the request.
SignedSetsVerify ==
    Done /\ zone # NoName /\ Dnssec =>
        /\ \A i \in DOMAIN answer : LET r == answer[i] IN
              \/ r.type = "RRSIG" \/ Signed(answer, r)
              \/ /\ r.type = "NS" /\ r.owner = req.qname /\ req.qname # zone
                 /\ quiet => Outcome.name = zone
        /\ \A i \in DOMAIN authority : LET r == authority[i] IN
              r.type = "RRSIG" \/ (Signed(authority, r) <=> (r.type # "NS" \/ req.qname = zone))

\* Every request is answered, whatever CNAMEs, ANAMEs and CAAs lead to and
\* whatever changes under it: the loops of handler.go all end.
Responds == <>Done

\* "A aname to nx local" expects SERVFAIL: nothing changes, nothing fails, and
\* an ANAME of the zone leads to a name of the zone that does not exist.  False
\* below an existing name, whose addresses are given instead, and false at the
\* apex of a signed zone, where addNSec makes it a success.
AnameToNothingFails ==
    Done /\ quiet /\ failures = 0 /\ alias # NoName /\ AliasInZone
      /\ ReferenceMatch(zone, Locations[zone], alias) \in {"none", "ce"} =>
        res = "SERVFAIL"
=============================================================================
