---------------------------- MODULE RateLimiter ----------------------------
(***************************************************************************)
(* ratelimit.RateLimiter for one client address: a leaky bucket (Limiter)  *)
(* kept in a cache entry that expires a minute after its last use.         *)
(* CanHandle is called by one goroutine per DNS request.  The bucket is    *)
(* updated under its mutex, but looking it up, creating it and storing it  *)
(* are separate steps: two first requests can each create a bucket, and a  *)
(* request that holds a replaced bucket puts it back.                      *)
(*                                                                         *)
(* CanHandle first answers for a disabled limiter and for listed addresses *)
(* without touching any bucket; the model is of the other addresses.       *)
(*                                                                         *)
(* Times are in milliseconds, or any other unit; Minute is the lifetime of *)
(* a cache entry and the period Rate refers to.  The two readings of the   *)
(* clock inside the critical section are taken as one.                     *)
(***************************************************************************)
EXTENDS Integers, FiniteSets

CONSTANTS Clients,       \* goroutines that call CanHandle
          Minute,        \* time.Minute
          Rate, Burst,   \* Config.Rate, Config.Burst
          MaxLimiters,   \* bound: the buckets that are ever created
          MaxNow         \* bound: the clock

ASSUME RateAssumption ==
    /\ IsFiniteSet(Clients)
    /\ Minute \in Nat /\ Burst \in Nat
    /\ Rate \in Nat \ {0}
    /\ MaxLimiters \in Nat /\ MaxNow \in Nat

\* NewRateLimiter: the time one request fills the bucket by, and the level
\* above which requests are refused.
TimeStep == Minute \div Rate
MaxTime == TimeStep * Burst

Limiters == 1..MaxLimiters
NoLimiter == 0

VARIABLES now,               \* the clock
          size, last,        \* Limiter.Size and Limiter.LastUpdate
          used,              \* the buckets created so far are 1..used
          entry, expiry,     \* the cache entry of the address and its deadline
          pc, held,          \* where a client is; the bucket it looked up
          created, grants,   \* when a bucket was created; requests it admitted
          total,             \* requests admitted by any bucket
          overlapped         \* two calls for the address have overlapped

clientVars == <<pc, held, overlapped>>
bucketVars == <<size, last, used, entry, expiry, created, grants, total>>
vars == <<now, bucketVars, clientVars>>

\* The type invariant: no level, time or count is ever negative.
TypeOK ==
    /\ now \in Nat
    /\ size \in [Limiters -> Nat] /\ last \in [Limiters -> Nat]
    /\ used \in Nat
    /\ entry \in Limiters \union {NoLimiter} /\ expiry \in Nat
    /\ pc \in [Clients -> {"idle", "found", "missed"}]
    /\ held \in [Clients -> Limiters \union {NoLimiter}]
    /\ created \in [Limiters -> Nat] /\ grants \in [Limiters -> Nat]
    /\ total \in Nat
    /\ overlapped \in BOOLEAN

Init ==
    /\ now = 0
    /\ size = [l \in Limiters |-> 0] /\ last = [l \in Limiters |-> 0]
    /\ used = 0
    /\ entry = NoLimiter /\ expiry = 0
    /\ pc = [c \in Clients |-> "idle"]
    /\ held = [c \in Clients |-> NoLimiter]
    /\ created = [l \in Limiters |-> 0] /\ grants = [l \in Limiters |-> 0]
    /\ total = 0
    /\ overlapped = FALSE

Tick ==
    /\ now < MaxNow
    /\ now' = now + 1
    /\ UNCHANGED <<bucketVars, clientVars>>

\* The cache still has the entry (an expired one is not returned).
Cached == entry # NoLimiter /\ now <= expiry

\* rl.Limiters.Get(key)
Lookup(c) ==
    /\ pc[c] = "idle"
    /\ pc' = [pc EXCEPT ![c] = IF Cached THEN "found" ELSE "missed"]
    /\ held' = [held EXCEPT ![c] = IF Cached THEN entry ELSE NoLimiter]
    /\ overlapped' = (overlapped \/ \E d \in Clients \ {c} : pc[d] # "idle")
    /\ UNCHANGED <<now, bucketVars>>

\* l.Size -= time.Since(l.LastUpdate), not below 0
Drained(l) == IF size[l] > now - last[l] THEN size[l] - (now - last[l]) ELSE 0

\* WRONG: the level is not compared with MaxTime.
UpdateUnchecked(c) ==
    /\ pc[c] = "found"
    /\ LET l == held[c] IN
          /\ size' = [size EXCEPT ![l] = Drained(l) + TimeStep]
          /\ last' = [last EXCEPT ![l] = now]
          /\ grants' = [grants EXCEPT ![l] = @ + 1]
          /\ total' = total + 1
          /\ entry' = l
          /\ expiry' = now + Minute
    /\ pc' = [pc EXCEPT ![c] = "idle"]
    /\ UNCHANGED <<now, used, created, held, overlapped>>

\* WRONG: LastUpdate is not moved, so the same time drains the bucket twice.
UpdateKeepingLast(c) ==
    /\ pc[c] = "found"
    /\ LET l == held[c]
           ok == Drained(l) <= MaxTime
       IN /\ size' = [size EXCEPT ![l] = Drained(l) + (IF ok THEN TimeStep ELSE 0)]
          /\ grants' = [grants EXCEPT ![l] = @ + (IF ok THEN 1 ELSE 0)]
          /\ total' = total + (IF ok THEN 1 ELSE 0)
          /\ entry' = l
          /\ expiry' = now + Minute
    /\ pc' = [pc EXCEPT ![c] = "idle"]
    /\ UNCHANGED <<now, last, used, created, held, overlapped>>

\* WRONG: the entry is not stored again, and expires a minute after it was made.
UpdateWithoutSet(c) ==
    /\ pc[c] = "found"
    /\ LET l == held[c]
           ok == Drained(l) <= MaxTime
       IN /\ size' = [size EXCEPT ![l] = Drained(l) + (IF ok THEN TimeStep ELSE 0)]
          /\ last' = [last EXCEPT ![l] = now]
          /\ grants' = [grants EXCEPT ![l] = @ + (IF ok THEN 1 ELSE 0)]
          /\ total' = total + (IF ok THEN 1 ELSE 0)
    /\ pc' = [pc EXCEPT ![c] = "idle"]
    /\ UNCHANGED <<now, used, created, held, entry, expiry, overlapped>>

\* The critical section of l.Mutex: drain, admit or refuse, and store the
\* bucket under its address for another minute.
Update(c) ==
    /\ pc[c] = "found"
    /\ LET l == held[c]
           ok == Drained(l) <= MaxTime
       IN /\ size' = [size EXCEPT ![l] = Drained(l) + (IF ok THEN TimeStep ELSE 0)]
          /\ last' = [last EXCEPT ![l] = now]
          /\ grants' = [grants EXCEPT ![l] = @ + (IF ok THEN 1 ELSE 0)]
          /\ total' = total + (IF ok THEN 1 ELSE 0)
          /\ entry' = l
          /\ expiry' = now + Minute
    /\ pc' = [pc EXCEPT ![c] = "idle"]
    /\ UNCHANGED <<now, used, created, held, overlapped>>

\* The address had no entry: a new bucket admits the request and is stored,
\* whatever others have stored in the meantime.
Create(c) ==
    /\ pc[c] = "missed"
    /\ used + 1 \in Limiters
    /\ used' = used + 1
    /\ size' = [size EXCEPT ![used + 1] = TimeStep]
    /\ last' = [last EXCEPT ![used + 1] = now]
    /\ created' = [created EXCEPT ![used + 1] = now]
    /\ grants' = [grants EXCEPT ![used + 1] = 1]
    /\ total' = total + 1
    /\ entry' = used + 1
    /\ expiry' = now + Minute
    /\ pc' = [pc EXCEPT ![c] = "idle"]
    /\ UNCHANGED <<now, held, overlapped>>

Next ==
    \/ Tick
    \/ \E c \in Clients : Lookup(c) \/ Update(c) \/ Create(c)

Spec == Init /\ [][Next]_vars

(***************************************************************************)
(* Properties.                                                             *)
(***************************************************************************)

\* However the calls interleave, one bucket admits at most the requests that
\* drained out of it since it was created, and Burst + 1 more.
BucketBound ==
    \A l \in 1..used :
        grants[l] * TimeStep <= (now - created[l]) + MaxTime + TimeStep

\* The documented limit: over any time since the start, an address is admitted
\* at the configured rate, plus one burst, although its entry expires and its
\* bucket is forgotten.  It needs that no two calls for the address have
\* overlapped (two first requests make two buckets) and that a full bucket
\* drains within the minute the entry lives (Burst < Rate).
OneBurst == ~overlapped => total * TimeStep <= now + MaxTime + TimeStep

\* With overlapping calls the limit is at worst that of one bucket for each
\* of them, forever: no interleaving keeps more buckets in use than that.
BurstPerClient ==
    total * TimeStep <= Cardinality(Clients) * (now + MaxTime + TimeStep)
============================================================================
