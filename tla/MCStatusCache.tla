--------------------------- MODULE MCStatusCache ---------------------------
(* The algorithms of an answer for TLC: the pure ones of MCAlgorithms, whose *)
(* calls are made in one state of Redis, and FilterHealthcheck, which reads  *)
(* StatusCache, one call at a time, for a record with two addresses and for  *)
(* one of a name that begins with a character of "z42:healthcheck:" and      *)
(* loses it.                                                                 *)
EXTENDS StatusCache, MCAlgorithms

CONSTANT c1

MCSubs == {stat}
MCCallers == {c1}
First == <<"w", "1">>
Second == <<"w", "3">>
Trimmed == <<"a", "w", "1">>
MCKeys == {First, Second, Trimmed}
MCCalls == {[rrset |-> <<First, Second>>, white |-> {1, 2}],
            [rrset |-> <<Trimmed>>, white |-> {1}]}

\* Down, in between, and one check away from up.
MCStatuses == {-2, -1, 2}
MCDown == -2
MCInitStores == {[k \in Keys |-> IF k = Second THEN -1 ELSE 2],
                 [k \in Keys |-> IF k = Second THEN None ELSE -2]}

MCInit == StatusInit /\ AskInit

\* Pure functions give the same result in every state: they are called in one.
AskHere == StatusInit /\ store[Second] = None

MCNext ==
    \/ asked = Idle /\ StatusNext /\ UNCHANGED asked
    \/ AskHere /\ AskNext /\ UNCHANGED statusVars

MCSpec == MCInit /\ [][MCNext]_<<statusVars, asked>>
============================================================================
