----------------------------- MODULE AnameQuery -----------------------------
(***************************************************************************)
(* The data of an answer to an A question at one location: HandleRequest   *)
(* reads the A and the ANAME of the location through RecordCache, and      *)
(* without an A asks the target of the ANAME, which is outside of the      *)
(* zone, of Upstream (findANAME).  Requests run at the same time, and the  *)
(* location is written while they do.                                      *)
(***************************************************************************)
EXTENDS RecordCache, Upstream

ASSUME AnameQueryAssumption ==
    Clients = Callers /\ Keys = {"A", "ANAME"} /\ Targets["ANAME"] \subseteq Names

VARIABLE req    \* of every request: what it waits for, and what it has so far

vars == <<recVars, upVars, req>>

NewRequest == [pc |-> "new", a |-> Empty, since |-> 0, out |-> Nobody, ttl |-> 0]

Init ==
    /\ RecInit /\ UpInit
    /\ req = [c \in Callers |-> NewRequest]

Become(c, pc) == req' = [req EXCEPT ![c].pc = pc]

ReadA(c) ==
    /\ req[c].pc = "new" /\ getRRSet(c, "A")
    /\ Become(c, "a")
    /\ UNCHANGED upVars

\* The result of getRRSet is used.
Taken(c, pc) ==
    /\ req[c].pc = pc
    /\ rec[c].pc = "done"
    /\ rec' = [rec EXCEPT ![c] = Idle]
    /\ UNCHANGED <<storeVars, recordCache, recordInflight, cacheTimeout, readFailures, upVars>>

Finish(c, out, ttl) == req' = [req EXCEPT ![c].pc = "done", ![c].out = out, ![c].ttl = ttl]

\* When the earlier of the two flights that a request has used began.
Earlier(c) == IF rec[c].since < req[c].since THEN rec[c].since ELSE req[c].since

\* The A has data or not; without an error the ANAME is read in either case.
HaveA(c) ==
    /\ Taken(c, "a")
    /\ IF rec[c].val = Error THEN Finish(c, "SERVFAIL", 0)
       ELSE req' = [req EXCEPT ![c].pc = "next", ![c].a = rec[c].val, ![c].since = rec[c].since]

ReadANAME(c) ==
    /\ req[c].pc = "next" /\ getRRSet(c, "ANAME")
    /\ Become(c, "aname")
    /\ UNCHANGED upVars

HaveANAME(c) ==
    /\ Taken(c, "aname")
    /\ \/ rec[c].val = Error /\ Finish(c, "SERVFAIL", 0)
       \/ /\ rec[c].val # Error /\ req[c].a.to # None
          /\ Finish(c, "own", req[c].a.ttl)
       \/ /\ rec[c].val # Error /\ rec[c].val.to = None /\ req[c].a.to = None
          /\ req' = [req EXCEPT ![c].pc = "done", ![c].out = "nothing", ![c].since = Earlier(c)]
       \/ /\ rec[c].val # Error /\ rec[c].val.to # None /\ req[c].a.to = None
          /\ req' = [req EXCEPT ![c].pc = "ask", ![c].out = rec[c].val.to]

\* findANAME: upstream is asked for the target.
AskUpstream(c) ==
    /\ req[c].pc = "ask" /\ Query(c, req[c].out)
    /\ Become(c, "upstream")
    /\ UNCHANGED recVars

\* Any code but success is a SERVFAIL; the time to live is read from the first
\* record of the answer, which is shared.
HaveUpstream(c) ==
    /\ req[c].pc = "upstream" /\ up[c].pc = "done"
    /\ up' = [up EXCEPT ![c] = Resting]
    /\ LET u == up[c] IN
       \/ u.rcode # "NOERROR" /\ Finish(c, "SERVFAIL", 0)
       \/ u.rcode = "NOERROR" /\ u.answer = NoAnswer /\ Finish(c, "empty", 0)
       \/ /\ u.rcode = "NOERROR" /\ u.answer # NoAnswer
          /\ Finish(c, "upstream", answers[u.answer].ttl)
    /\ UNCHANGED <<connections, upCache, answers, upInflight, now, timeouts, recVars>>

Serve(c) ==
    \/ ReadA(c) \/ HaveA(c) \/ ReadANAME(c) \/ HaveANAME(c) \/ AskUpstream(c) \/ HaveUpstream(c)

\* All requests are answered.
Served == (\A c \in Callers : req[c].pc = "done") /\ UNCHANGED vars

\* TLC's check for deadlocks shows that no request is left waiting for a flight
\* that nobody leads: only Served is enabled in the end.
Next ==
    \/ \E c \in Callers : Serve(c)
    \/ RecordStep /\ UNCHANGED <<upVars, req>>
    \/ UpstreamStep /\ UNCHANGED <<recVars, req>>
    \/ Served

Spec == Init /\ [][Next]_vars

\* At the m-th moment the location has no data of type k.
Without(m, k) ==
    LET v == history[m][k] IN v = None \/ (v # Bad /\ v.to = None)

\* An empty answer is true of a moment of the request, or of the flights it has
\* joined: then the location had neither an A nor an ANAME, although the two are
\* read one after the other, from flights that others may have begun before a
\* change the request comes after, while SetLocationFromJson writes them one after
\* the other and skips what fails.  Only if one of the two was emptied or deleted
\* within that time there may have been no such moment.
NothingOfAMoment ==
    \A c \in Callers : req[c].pc = "done" /\ req[c].out = "nothing" /\ Clock > cacheTimeout =>
        \/ \E m \in req[c].since..Present : \A k \in Keys : Without(m, k)
        \/ \E m \in req[c].since..(Present - 1) : \E k \in Keys : ~Without(m, k) /\ Without(m + 1, k)
=============================================================================
