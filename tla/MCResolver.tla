----------------------------- MODULE MCResolver -----------------------------
(***************************************************************************)
(* A zone z with a name, a name below it, an empty non-terminal and a      *)
(* wildcard; a second zone c inside it; o is outside of both.              *)
(***************************************************************************)
EXTENDS Resolver

z == <<"z">>
c == <<"z", "c">>
Out == <<"o">>
N(l) == z \o l
a == <<"a">>
b == <<"b">>
ad == <<"a", "d">>
xy == <<"x", "y">>
wild == <<"w", "*">>

MCZones == {z, c}
MCLocations == [n \in MCZones |-> IF n = z THEN {a, b, ad, xy, wild} ELSE {}]

Cname(n) == [NoRecords EXCEPT !.cname = n]
Aname(n) == [NoRecords EXCEPT !.aname = n]
Addr == [NoRecords EXCEPT !.a = TRUE]
Cut == [NoRecords EXCEPT !.ns = {N(b), Out}]
Text == [NoRecords EXCEPT !.txt = TRUE]

Store(atApex, atA, atB) ==
    [k \in {<<z, l>> : l \in {Apex, a, b, xy, wild}} |->
        CASE k[2] = Apex -> atApex
          [] k[2] = a -> atA
          [] k[2] = b -> atB
          [] k[2] = xy -> Text
          [] k[2] = wild -> [Addr EXCEPT !.caa = TRUE]]

AtA == {Cname(n) : n \in {z, N(a), N(b), N(<<"w", "1">>), c, Out}}
       \union {Aname(n) : n \in {N(a), N(b), N(<<"q">>), N(<<"b", "n">>), Out}}
       \union {Cut, [Cut EXCEPT !.ds = TRUE], [Aname(Out) EXCEPT !.a = TRUE],
               [Text EXCEPT !.caa = TRUE], NoRecords}
AtB == {Addr, Cname(N(a)), Aname(N(a)), NoRecords}
AtApex == {[Cut EXCEPT !.a = TRUE], [Aname(N(a)) EXCEPT !.caa = TRUE]}

\* All the stores; b has other contents than an address where a leads to it; in
\* some the zone itself is an alias.
LeadToB == {Cname(N(b)), Aname(N(b)), Aname(N(<<"b", "n">>)), Cut, [Cut EXCEPT !.ds = TRUE]}
ManyContents ==
    {Store(p, q, Addr) : p \in AtApex, q \in AtA}
    \union {Store(p, q, r) : p \in AtApex, q \in LeadToB, r \in AtB}
    \union {Store([Cut EXCEPT !.cname = N(a)], q, Addr) : q \in {Cname(z), Cname(N(b)), Cut, NoRecords}}

\* A few stores that the records change between.
FewContents ==
    LET at(q, r) == Store([Aname(N(a)) EXCEPT !.caa = TRUE], q, r) IN
    {at(q, Addr) : q \in {Cname(N(b)), Cname(z), Aname(N(b)), Cut, NoRecords}}
    \union {at(q, Cname(N(a))) : q \in {Cname(N(b)), Aname(N(b)), Cut}}

QNames == {z} \union {N(l) : l \in {a, ad, <<"a", "n">>, <<"q">>, <<"x">>, <<"w", "1">>}}
Plain == [do |-> FALSE, dnssec |-> FALSE, flattening |-> FALSE]
Options == {Plain, [Plain EXCEPT !.flattening = TRUE], [Plain EXCEPT !.dnssec = TRUE, !.do = TRUE]}

Request(n, t, o) == [qname |-> n, qtype |-> t, do |-> o.do, dnssec |-> o.dnssec,
                     flattening |-> o.flattening]
ManyRequests == {Request(n, t, o) : n \in QNames, t \in Types, o \in Options}
FewRequests == {Request(n, t, o) : n \in {z, N(a), N(ad), N(<<"a", "n">>)}, t \in {"A", "CAA", "DS", "NS"},
                                   o \in {Plain, [Plain EXCEPT !.dnssec = TRUE, !.do = TRUE]}}
=============================================================================
