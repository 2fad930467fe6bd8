------------------------------ MODULE Upstream ------------------------------
(***************************************************************************)
(* Upstream.Query: names outside of the zone are asked of a list of        *)
(* servers, one after the other, by a flight of a singleflight group, and  *)
(* answers are cached for as long as they live.  The records of a cached   *)
(* answer are shared: every hit writes the rest of their life into them,   *)
(* while other requests still have to read it.                             *)
(*                                                                         *)
(* Of an answer the times to live are kept, of its first record and the    *)
(* least; time is in seconds.                                              *)
(***************************************************************************)
EXTENDS Integers, Sequences, FiniteSets

CONSTANTS Clients,        \* the goroutines that call Query
          Names,          \* location and qtype
          Servers,        \* the configured servers, in their order
          Replies,        \* the answers of a server: [first, least]
          DefaultTtl,     \* how long go-cache keeps what is set for no time (600)
          Wrapped,        \* what a conversion of a negative float64 to uint32 may give
          Nobody,         \* no server, answer, name or client
          MaxTime, MaxAnswers, MaxTimeouts  \* bounds

ASSUME UpstreamAssumption ==
    /\ Servers \in Seq({Servers[i] : i \in DOMAIN Servers}) /\ Len(Servers) > 0
    /\ \A i \in DOMAIN Servers : Servers[i] # Nobody
    /\ Nobody \notin Clients /\ DefaultTtl \in Nat
    /\ \A r \in Replies : r.first \in Nat /\ r.least \in 0..r.first

VARIABLES connections,   \* u.connections
          upCache,       \* u.cache: of every name, the answer and when it expires
          answers,       \* the answers received, with the time to live of their first record
          upInflight,    \* u.inflight
          up,            \* of every client: where it is in Query, who answered it,
                         \* and when it found an answer in the cache
          now, timeouts

upVars == <<connections, upCache, answers, upInflight, up, now, timeouts>>

NoAnswer == 0
NotCached == [answer |-> NoAnswer, exp |-> 0]
Grounded == [leader |-> Nobody, members |-> {}]
Resting == [pc |-> "idle", name |-> Nobody, i |-> 0, conn |-> Nobody, tried |-> {},
            by |-> Nobody, answer |-> NoAnswer, asked |-> 0, exp |-> 0, rcode |-> "NOERROR"]

\* The codes of a response, of which no two but success and failure differ here.
Rcodes == {"NOERROR", "NXDOMAIN", "SERVFAIL", "REFUSED"}

UpInit ==
    /\ connections = Servers
    /\ upCache = [n \in Names |-> NotCached]
    /\ answers = <<>>
    /\ upInflight = [n \in Names |-> Grounded]
    /\ up = [c \in Clients |-> Resting]
    /\ now = 0 /\ timeouts = 0

\* go-cache has an entry until its expiry has passed.
CacheHas(n) == upCache[n].answer # NoAnswer /\ now <= upCache[n].exp

\* The loop over u.connections reads an element when it gets to it, and keeps it
\* in c while it waits for the answer.
AskNext(u) ==
    [u EXCEPT !.pc = "ask", !.i = @ + 1,
              !.conn = IF u.i < Len(connections) THEN connections[u.i + 1] ELSE Nobody]

\* GetWithExpiration finds the answer, or a flight is led or joined.
Query(c, n) ==
    /\ up[c].pc = "idle"
    /\ LET start == [Resting EXCEPT !.name = n]
           leads == upInflight[n].leader = Nobody
       IN \/ /\ CacheHas(n)
             /\ up' = [up EXCEPT ![c] = [start EXCEPT !.pc = "rewrite",
                              !.answer = upCache[n].answer, !.asked = now,
                              !.exp = upCache[n].exp]]
             /\ UNCHANGED upInflight
          \/ /\ ~CacheHas(n)
             /\ upInflight' = [upInflight EXCEPT ![n] =
                    [leader |-> IF leads THEN c ELSE @.leader, members |-> @.members \union {c}]]
             /\ up' = [up EXCEPT ![c] = IF leads THEN AskNext(start)
                                              ELSE [start EXCEPT !.pc = "wait"]]
    /\ UNCHANGED <<connections, upCache, answers, now, timeouts>>

\* The records of the cached answer get what is left of their life, which is
\* converted to uint32 whatever it is.
Rewrite(c) ==
    /\ up[c].pc = "rewrite"
    /\ LET left == up[c].exp - now IN
       \E ttl \in (IF left >= 0 THEN {left} ELSE {0, Wrapped}) :
          /\ answers' = [answers EXCEPT ![up[c].answer].ttl = ttl]
          /\ up' = [up EXCEPT ![c].pc = "done"]
    /\ UNCHANGED <<connections, upCache, upInflight, now, timeouts>>

\* The function of the flight returns, and everybody who waits has its result.
Return(c, answer, rcode, by) ==
    LET n == up[c].name IN
    /\ up' = [d \in Clients |->
                IF d \in upInflight[n].members
                THEN [up[d] EXCEPT !.pc = "done", !.answer = answer, !.rcode = rcode, !.by = by,
                                   !.tried = up[c].tried]
                ELSE up[d]]
    /\ upInflight' = [upInflight EXCEPT ![n] = Grounded]

\* WRONG: a server that does not answer ends the search.
ExchangeFailsAtOnce(c) ==
    /\ timeouts < MaxTimeouts
    /\ timeouts' = timeouts + 1
    /\ Return(c, NoAnswer, "SERVFAIL", Nobody)
    /\ UNCHANGED <<connections, upCache, answers>>

\* No answer, or none that can be read: the next server.
ExchangeFails(c) ==
    /\ timeouts < MaxTimeouts
    /\ timeouts' = timeouts + 1
    /\ up' = [up EXCEPT ![c] = AskNext([up[c] EXCEPT !.tried = @ \union {up[c].conn}])]
    /\ UNCHANGED <<connections, upCache, answers, upInflight>>

\* A success without an answer, or any other code, is returned at once: it is not
\* cached, and no other server is asked.
ExchangeEmpty(c) ==
    /\ \E rcode \in Rcodes : Return(c, NoAnswer, rcode, up[c].conn)
    /\ UNCHANGED <<connections, upCache, answers, timeouts>>

\* WRONG: an answer is kept as long as its first record lives.
LifeOfFirst(r) == IF r.first = 0 THEN DefaultTtl ELSE r.first

\* u.cache.Set with the least time to live, where none means the default.
Life(r) == IF r.least = 0 THEN DefaultTtl ELSE r.least

\* An answer is cached.  The server that gave it takes the first place of the
\* list; the one that was there is assigned to the loop variable and lost.
\* Flights for other names do the same meanwhile, without a lock.
ExchangeWorks(c, r) ==
    /\ Len(answers) < MaxAnswers
    /\ answers' = Append(answers, [ttl |-> r.first, reply |-> r, at |-> now])
    /\ upCache' = [upCache EXCEPT ![up[c].name] = [answer |-> Len(answers) + 1, exp |-> now + Life(r)]]
    /\ connections' = [connections EXCEPT ![1] = up[c].conn]
    /\ Return(c, Len(answers) + 1, "NOERROR", up[c].conn)
    /\ UNCHANGED timeouts

Exchange(c) ==
    /\ up[c].pc = "ask"
    /\ up[c].conn # Nobody
    /\ ExchangeFails(c) \/ ExchangeEmpty(c) \/ \E r \in Replies : ExchangeWorks(c, r)
    /\ UNCHANGED now

AllFailed(c) ==
    /\ up[c].pc = "ask"
    /\ up[c].conn = Nobody
    /\ Return(c, NoAnswer, "SERVFAIL", Nobody)
    /\ UNCHANGED <<connections, upCache, answers, now, timeouts>>

Tick ==
    /\ now < MaxTime
    /\ now' = now + 1
    /\ UNCHANGED <<connections, upCache, answers, upInflight, up, timeouts>>

QueryStep(c) == Rewrite(c) \/ Exchange(c) \/ AllFailed(c)

UpstreamStep == (\E c \in Clients : QueryStep(c)) \/ Tick

(***************************************************************************)
(* Properties.                                                             *)
(***************************************************************************)

\* The failure that Query reports when no server has given a response means that
\* this flight has asked every configured server in vain, although other flights
\* change the list under it: only the first one can be passed over, and only once
\* another has answered and taken its place.  (A code that a server responds with,
\* SERVFAIL too, is passed on without asking the others.)  The rest of the list
\* never changes, and the first place is never taken by a server that was not
\* configured.
AllServersTried ==
    /\ \A c \in Clients : up[c].pc = "done" /\ up[c].rcode # "NOERROR" /\ up[c].by = Nobody =>
            \A i \in DOMAIN Servers :
                Servers[i] \in up[c].tried \/ (i = 1 /\ answers # <<>>)
    /\ \A i \in 2..Len(Servers) : connections[i] = Servers[i]
    /\ \E i \in DOMAIN Servers : connections[1] = Servers[i]

\* An answer from the cache is not used longer than its shortest-lived record lives
\* (or the default time of the cache, if that one has no time to live): it is found
\* only within that life, and the time to live that its request reads, which any
\* other hit may have written into the shared records, counted from when the cache
\* was asked, does not exceed it; unless the answer expires before the request has
\* read it.  A request whose flight has got the answer from a server may read that
\* of the first record instead, which may be greater.
OutlivesNothing ==
    \A c \in Clients : up[c].pc = "done" /\ up[c].answer # NoAnswer =>
        LET a == answers[up[c].answer]
            end == a.at + (IF a.reply.least = 0 THEN DefaultTtl ELSE a.reply.least)
        IN /\ up[c].by = Nobody => up[c].asked <= end
           /\ \/ now > end
              \/ up[c].by = Nobody /\ up[c].asked + a.ttl <= end
              \/ up[c].by # Nobody /\ (a.ttl = a.reply.first \/ a.at + a.ttl <= end)
=============================================================================
