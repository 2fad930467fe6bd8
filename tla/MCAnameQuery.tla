---------------------------- MODULE MCAnameQuery ----------------------------
(***************************************************************************)
(* Two requests at a location that is rewritten once (an ANAME replaced by *)
(* an A too), or of which one set is written directly; three servers, and  *)
(* answers that live for no time, or for one second with a first record    *)
(* that lives longer.                                                      *)
(***************************************************************************)
EXTENDS AnameQuery, TLC

CallerSymmetry == Permutations(Callers)

MCTargets == [k \in Keys |-> IF k = "A" THEN {"ip"} ELSE Names]
MCContents == {[k \in Keys |-> None],
               [k \in Keys |-> IF k = "A" THEN None ELSE Set("t", 2)],
               [k \in Keys |-> IF k = "A" THEN Bad ELSE None]}
Write(k, to, ttl) == [key |-> k, to |-> to, ttl |-> ttl]
MCEntries == {<<Write("A", "ip", 0), Write("ANAME", "t", 9)>>,
              <<Write("A", "ip", 2), Write("ANAME", None, 2)>>}
MCValues == {[key |-> "ANAME", val |-> Set("u", 7)], [key |-> "ANAME", val |-> None]}
MCServers == <<"s1", "s2", "s3">>
MCReplies == {[first |-> 2, least |-> 1], [first |-> 0, least |-> 0]}
=============================================================================
