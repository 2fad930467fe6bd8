------------------------- MODULE RateLimiterProofs -------------------------
(***************************************************************************)
(* Proofs about RateLimiter, for every rate, burst, number of concurrent   *)
(* callers, and bound on the clock and on the buckets.                     *)
(***************************************************************************)
EXTENDS RateLimiter, FiniteSetTheorems, TLAPS

(***************************************************************************)
(* The inductive invariant: what a bucket has admitted is accounted for by *)
(* what drained out of it up to its last update and by what is still in    *)
(* it, and it never holds more than MaxTime + TimeStep.                    *)
(***************************************************************************)
BucketInv(l) ==
    /\ created[l] <= last[l]
    /\ last[l] <= now
    /\ size[l] <= MaxTime + TimeStep
    /\ grants[l] * TimeStep <= (last[l] - created[l]) + size[l]

IInv ==
    /\ TypeOK
    /\ used <= MaxLimiters
    /\ entry \in 0..used
    /\ \A c \in Clients : pc[c] = "found" => held[c] \in 1..used
    /\ \A l \in 1..used : BucketInv(l)

\* The step and the limit that NewRateLimiter computes are not negative, for
\* every rate and burst.
LEMMA StepIsNat == TimeStep \in Nat /\ MaxTime \in Nat
<1>1. TimeStep \in Nat
    BY RateAssumption DEF TimeStep
<1>2. \A a, b \in Nat : a * b \in Nat
    OBVIOUS
<1> QED BY <1>1, <1>2, RateAssumption DEF MaxTime

\* One more admitted request adds one step.
LEMMA OneMore == \A g, t \in Nat : (g + 1) * t = g * t + t /\ g * t \in Nat
OBVIOUS

\* Draining leaves a level that is not negative and not above the old one, and
\* removes at most the time that has passed.
LEMMA DrainedBounds ==
    ASSUME TypeOK, NEW l \in Limiters, last[l] <= now
    PROVE  /\ Drained(l) \in Nat
           /\ Drained(l) <= size[l]
           /\ size[l] <= Drained(l) + (now - last[l])
BY DEF TypeOK, Drained

\* Every bucket in use has its account in order.
LEMMA UsedBucket ==
    ASSUME IInv, NEW l \in 1..used
    PROVE  l \in Limiters /\ BucketInv(l)
<1>1. l \in Limiters
    BY RateAssumption DEF IInv, TypeOK, Limiters
<1>2. BucketInv(l)
    BY DEF IInv
<1> QED BY <1>1, <1>2

\* A bucket that no step touches keeps its account while time passes.
LEMMA UntouchedBucket ==
    ASSUME IInv, NEW m \in 1..used,
           size'[m] = size[m], last'[m] = last[m], grants'[m] = grants[m],
           created'[m] = created[m], now' = now \/ now' = now + 1
    PROVE  BucketInv(m)'
<1>1. m \in Limiters /\ BucketInv(m)
    BY UsedBucket
<1>2. now \in Nat /\ last[m] \in Nat
    BY <1>1 DEF IInv, TypeOK
<1>3. last[m] <= now'
    BY <1>1, <1>2 DEF BucketInv
<1> QED BY <1>1, <1>3 DEF BucketInv

\* At the start there is no bucket.
LEMMA IInvInit == Init => IInv
<1> SUFFICES ASSUME Init PROVE IInv
    OBVIOUS
<1>1. overlapped \in BOOLEAN
    BY DEF Init
<1> QED BY <1>1, RateAssumption DEF Init, IInv, TypeOK, Limiters, NoLimiter

\* A call of CanHandle and the passing of time preserve the account of every
\* bucket.
LEMMA IInvStep == IInv /\ [Next]_vars => IInv'
<1> SUFFICES ASSUME IInv, [Next]_vars PROVE IInv'
    OBVIOUS
<1> USE StepIsNat
<1>1. CASE UNCHANGED vars
    BY <1>1 DEF vars, bucketVars, clientVars, IInv, TypeOK, BucketInv
<1>2. CASE Tick
  <2>1. TypeOK'
    BY <1>2 DEF Tick, bucketVars, clientVars, IInv, TypeOK
  <2>2. ASSUME NEW m \in 1..used PROVE BucketInv(m)'
    BY <1>2, UntouchedBucket DEF Tick, bucketVars
  <2> QED BY <1>2, <2>1, <2>2 DEF Tick, bucketVars, clientVars, IInv
<1>3. ASSUME NEW c \in Clients, Lookup(c) PROVE IInv'
  <2>1. TypeOK'
    BY <1>3 DEF Lookup, bucketVars, IInv, TypeOK
  <2>2. \A d \in Clients : pc'[d] = "found" => held'[d] \in 1..used
    BY <1>3 DEF Lookup, Cached, NoLimiter, IInv, TypeOK
  <2> QED BY <1>3, <2>1, <2>2 DEF Lookup, bucketVars, IInv, BucketInv
<1>4. ASSUME NEW c \in Clients, Update(c) PROVE IInv'
  <2>1. PICK l \in 1..used : l = held[c]
    BY <1>4 DEF Update, IInv
  <2> DEFINE ok == Drained(l) <= MaxTime
             fill == IF ok THEN TimeStep ELSE 0
             one == IF ok THEN 1 ELSE 0
  <2>2. l \in Limiters /\ BucketInv(l)
    BY <2>1, UsedBucket
  <2>3. /\ Drained(l) \in Nat /\ Drained(l) <= size[l]
        /\ size[l] <= Drained(l) + (now - last[l])
    BY <2>1, <2>2, DrainedBounds DEF IInv, BucketInv
  <2>4. /\ size' = [size EXCEPT ![l] = Drained(l) + fill]
        /\ last' = [last EXCEPT ![l] = now]
        /\ grants' = [grants EXCEPT ![l] = @ + one]
        /\ total' = total + one
        /\ entry' = l /\ expiry' = now + Minute
        /\ pc' = [pc EXCEPT ![c] = "idle"]
        /\ UNCHANGED <<now, used, created, held, overlapped>>
    BY <1>4, <2>1 DEF Update
  <2>5. fill \in Nat /\ one \in Nat /\ fill = one * TimeStep
    OBVIOUS
  <2>6. TypeOK'
    <3>1. Drained(l) + fill \in Nat /\ grants[l] + one \in Nat /\ total + one \in Nat
          /\ now + Minute \in Nat
        BY <2>2, <2>3, <2>5, RateAssumption DEF IInv, TypeOK
    <3> HIDE DEF fill, one
    <3> QED BY <2>2, <2>4, <3>1 DEF IInv, TypeOK
  <2>7. BucketInv(l)'
    <3>1. Drained(l) + fill <= MaxTime + TimeStep
      <4>1. CASE ok
        BY <2>3, <4>1
      <4>2. CASE ~ok
        BY <2>2, <2>3, <4>2 DEF BucketInv, IInv, TypeOK
      <4> QED BY <4>1, <4>2
    <3>2. (grants[l] + one) * TimeStep = grants[l] * TimeStep + fill
        BY <2>2, OneMore DEF IInv, TypeOK
    <3>3. grants[l] * TimeStep \in Nat
        BY <2>2, OneMore DEF IInv, TypeOK
    <3>4. (grants[l] + one) * TimeStep <= (now - created[l]) + (Drained(l) + fill)
        BY <2>2, <2>3, <2>5, <3>2, <3>3 DEF BucketInv, IInv, TypeOK
    <3>5. created[l] <= now
        BY <2>2 DEF BucketInv, IInv, TypeOK
    <3>6. /\ size'[l] = Drained(l) + fill /\ last'[l] = now
          /\ grants'[l] = grants[l] + one /\ created'[l] = created[l] /\ now' = now
        BY <2>2, <2>4 DEF IInv, TypeOK
    <3>7. now <= now
        BY DEF IInv, TypeOK
    <3> HIDE DEF fill, one
    <3> QED BY <3>1, <3>4, <3>5, <3>6, <3>7 DEF BucketInv
  <2>8. \A m \in 1..used' : BucketInv(m)'
    <3> SUFFICES ASSUME NEW m \in 1..used, m # l PROVE BucketInv(m)'
        BY <2>4, <2>7
    <3>1. m \in Limiters
        BY UsedBucket
    <3>2. /\ size'[m] = size[m] /\ last'[m] = last[m]
          /\ grants'[m] = grants[m] /\ created'[m] = created[m] /\ now' = now
        BY <3>1, <2>4 DEF IInv, TypeOK
    <3> QED BY <3>2, UntouchedBucket
  <2>9. \A d \in Clients : pc'[d] = "found" => held'[d] \in 1..used'
    BY <2>4 DEF IInv, TypeOK
  <2> QED BY <2>1, <2>4, <2>6, <2>8, <2>9 DEF IInv, TypeOK
<1>5. ASSUME NEW c \in Clients, Create(c) PROVE IInv'
  <2>0. PICK l \in Limiters : l = used + 1
    BY <1>5 DEF Create
  <2>1. l \in Limiters /\ l \in 1..used' /\ used' = l /\ used \in Nat
    BY <1>5, <2>0 DEF Create, IInv, TypeOK, Limiters
  <2>2. TypeOK'
    BY <1>5, <2>0, <2>1, RateAssumption DEF Create, IInv, TypeOK
  <2>3. BucketInv(l)'
    <3>1. /\ size'[l] = TimeStep /\ last'[l] = now /\ created'[l] = now
          /\ grants'[l] = 1 /\ now' = now
        BY <1>5, <2>0, <2>1 DEF Create, IInv, TypeOK
    <3>2. 1 * TimeStep = TimeStep /\ now \in Nat /\ (now - now) + TimeStep = TimeStep
        BY DEF IInv, TypeOK
    <3> QED BY <3>1, <3>2 DEF BucketInv
  <2>4. ASSUME NEW m \in 1..used PROVE BucketInv(m)'
    <3>1. m \in Limiters /\ m # l
        BY <2>0, <2>1, UsedBucket
    <3>2. /\ size'[m] = size[m] /\ last'[m] = last[m]
          /\ grants'[m] = grants[m] /\ created'[m] = created[m] /\ now' = now
        BY <1>5, <2>0, <2>1, <3>1 DEF Create, IInv, TypeOK
    <3> QED BY <3>2, UntouchedBucket
  <2>5. \A m \in 1..used' : BucketInv(m)'
    <3> SUFFICES ASSUME NEW m \in 1..used' PROVE BucketInv(m)'
        OBVIOUS
    <3>1. m \in 1..used \/ m = l
        BY <2>0, <2>1
    <3> QED BY <2>3, <2>4, <3>1
  <2>6. \A d \in Clients : pc'[d] = "found" => held'[d] \in 1..used'
    BY <1>5, <2>0, <2>1 DEF Create, IInv, TypeOK
  <2> QED BY <1>5, <2>0, <2>1, <2>2, <2>5, <2>6 DEF Create, IInv, Limiters
<1> QED BY <1>1, <1>2, <1>3, <1>4, <1>5 DEF Next

\* The account holds in every reachable state.
THEOREM Invariance == Spec => []IInv
BY IInvInit, IInvStep, PTL DEF Spec

\* The limiter's bookkeeping stays well typed; levels never become negative.
THEOREM TypeCorrect == Spec => []TypeOK
<1>1. IInv => TypeOK
    BY DEF IInv
<1> QED BY <1>1, Invariance, PTL

\* One bucket never admits more than Burst + 1 requests beyond those that
\* drained out since it was created, whatever the interleaving of its callers.
THEOREM BucketIsBounded == Spec => []BucketBound
<1>1. IInv => BucketBound
  <2> SUFFICES ASSUME IInv, NEW l \in 1..used
               PROVE  grants[l] * TimeStep <= (now - created[l]) + MaxTime + TimeStep
    BY DEF BucketBound
  <2>1. BucketInv(l) /\ l \in Limiters
    BY UsedBucket
  <2>2. grants[l] * TimeStep \in Nat
    BY <2>1, StepIsNat, OneMore DEF IInv, TypeOK
  <2> QED BY <2>1, <2>2, StepIsNat DEF BucketInv, IInv, TypeOK
<1> QED BY <1>1, Invariance, PTL
(***************************************************************************)
(* Without overlapping calls there is one bucket at a time.  The account   *)
(* of the address is then that of its latest bucket: what the earlier ones *)
(* have admitted has drained before the entry expired.                     *)
(***************************************************************************)
OneCallInv ==
    /\ \A c, d \in Clients : pc[c] # "idle" /\ pc[d] # "idle" => c = d
    /\ entry = used
    /\ used = 0 => total = 0
    /\ used > 0 => expiry = last[used] + Minute /\ total * TimeStep <= last[used] + size[used]
    /\ \A c \in Clients : pc[c] = "found" => held[c] = used
    /\ \A c \in Clients : pc[c] = "missed" => used = 0 \/ now > expiry

\* A full bucket drains within the minute its entry lives.
LEMMA FullBucketDrains ==
    ASSUME Burst < Rate
    PROVE  MaxTime + TimeStep <= Minute
<1>1. TimeStep \in Nat /\ Minute \in Nat /\ Rate \in Nat \ {0} /\ Burst \in Nat
    BY StepIsNat, RateAssumption
<1>2. \A m \in Nat, r \in Nat \ {0} : (m \div r) * r <= m
    BY Z3
<1>3. TimeStep * Rate <= Minute
    BY <1>1, <1>2 DEF TimeStep
<1>4. \A t, b, r \in Nat : b + 1 <= r => t * b + t <= t * r
  <2>1. \A t, x \in Nat : t * x \in Nat
    OBVIOUS
  <2> SUFFICES ASSUME NEW t \in Nat, NEW b \in Nat, NEW r \in Nat, b + 1 <= r
               PROVE  t * b + t <= t * r
    OBVIOUS
  <2>2. r - (b + 1) \in Nat
    OBVIOUS
  <2>3. t * (r - (b + 1)) \in Nat
    BY <2>1, <2>2
  <2>4. t * r = t * b + t + t * (r - (b + 1))
    BY Z3
  <2> QED BY <2>1, <2>3, <2>4
<1>5. TimeStep * Burst + TimeStep <= TimeStep * Rate
    BY <1>1, <1>4
<1>6. TimeStep * Burst \in Nat /\ TimeStep * Rate \in Nat
    BY <1>1
<1> QED BY <1>1, <1>3, <1>5, <1>6 DEF MaxTime

\* With one call at a time, every step keeps the account of the address.
LEMMA OneCallStep ==
    ASSUME Burst < Rate, IInv, IInv', ~overlapped => OneCallInv, [Next]_vars, ~overlapped'
    PROVE  OneCallInv'
<1> USE StepIsNat
<1>1. ~overlapped
  <2>1. ASSUME NEW c \in Clients, Lookup(c) PROVE ~overlapped
    BY <2>1 DEF Lookup
  <2> QED BY <2>1 DEF Next, Tick, Update, Create, vars, clientVars
<1>2. OneCallInv
  BY <1>1
<1>3. TypeOK /\ used \in 0..MaxLimiters /\ now \in Nat /\ total \in Nat /\ Minute \in Nat
  BY RateAssumption DEF IInv, TypeOK
<1>4. CASE UNCHANGED vars
  BY <1>2, <1>4 DEF vars, bucketVars, clientVars, OneCallInv
<1>5. CASE Tick
  <2>1. UNCHANGED <<bucketVars, clientVars>> /\ now' = now + 1 /\ expiry \in Nat
    BY <1>3, <1>5 DEF Tick, TypeOK
  <2>2. now > expiry => now' > expiry
    BY <1>3, <2>1
  <2> QED BY <1>2, <2>1, <2>2 DEF bucketVars, clientVars, OneCallInv
<1>6. ASSUME NEW c \in Clients, Lookup(c) PROVE OneCallInv'
  <2>1. \A d \in Clients \ {c} : pc[d] = "idle"
    BY <1>6 DEF Lookup
  <2>2. /\ UNCHANGED <<now, bucketVars>>
        /\ pc' = [pc EXCEPT ![c] = IF Cached THEN "found" ELSE "missed"]
        /\ held' = [held EXCEPT ![c] = IF Cached THEN entry ELSE NoLimiter]
    BY <1>6 DEF Lookup
  <2>3. \A d \in Clients \ {c} : pc'[d] = "idle"
    BY <1>3, <2>1, <2>2 DEF TypeOK
  <2>4. CASE Cached
    <3>1. pc'[c] = "found" /\ held'[c] = used
      BY <1>2, <1>3, <2>2, <2>4 DEF OneCallInv, TypeOK
    <3> QED BY <1>2, <2>2, <2>3, <3>1 DEF OneCallInv, bucketVars
  <2>5. CASE ~Cached
    <3>1. pc'[c] = "missed"
      BY <1>3, <2>2, <2>5 DEF TypeOK
    <3>2. used = 0 \/ now > expiry
      BY <1>2, <1>3, <2>5 DEF OneCallInv, Cached, NoLimiter, TypeOK
    <3> QED BY <1>2, <2>2, <2>3, <3>1, <3>2 DEF OneCallInv, bucketVars
  <2> QED BY <2>4, <2>5
<1>7. ASSUME NEW c \in Clients, Update(c) PROVE OneCallInv'
  <2>1. PICK l \in 1..used : l = held[c] /\ l = used
    BY <1>2, <1>7 DEF Update, IInv, OneCallInv
  <2> DEFINE ok == Drained(l) <= MaxTime
             fill == IF ok THEN TimeStep ELSE 0
             one == IF ok THEN 1 ELSE 0
  <2>2. l \in Limiters /\ BucketInv(l) /\ used > 0
    BY <1>3, <2>1, UsedBucket
  <2>3. /\ Drained(l) \in Nat /\ size[l] <= Drained(l) + (now - last[l])
    BY <2>1, <2>2, DrainedBounds DEF IInv, BucketInv
  <2>4. /\ size' = [size EXCEPT ![l] = Drained(l) + fill]
        /\ last' = [last EXCEPT ![l] = now]
        /\ total' = total + one
        /\ entry' = l /\ expiry' = now + Minute
        /\ pc' = [pc EXCEPT ![c] = "idle"]
        /\ UNCHANGED <<now, used, held>>
    BY <1>7, <2>1 DEF Update
  <2>5. (total + one) * TimeStep = total * TimeStep + fill /\ total * TimeStep \in Nat
    BY <1>3, OneMore
  <2>6. total * TimeStep <= last[l] + size[l]
    BY <1>2, <2>1, <2>2 DEF OneCallInv
  <2>7. size[l] \in Nat /\ last[l] \in Nat /\ fill \in Nat
    BY <1>3, <2>2 DEF TypeOK
  <2>8. size'[l] = Drained(l) + fill /\ last'[l] = now
    BY <1>3, <2>2, <2>4 DEF TypeOK
  <2>9. total' * TimeStep <= last'[l] + size'[l]
    <3> HIDE DEF fill, one
    <3> QED BY <1>3, <2>3, <2>4, <2>5, <2>6, <2>7, <2>8
  <2>10. \A d \in Clients : pc'[d] = "idle"
    BY <1>2, <1>3, <1>7, <2>4 DEF Update, OneCallInv, TypeOK
  <2> HIDE DEF fill, one
  <2> QED BY <2>1, <2>2, <2>4, <2>8, <2>9, <2>10 DEF OneCallInv
<1>8. ASSUME NEW c \in Clients, Create(c) PROVE OneCallInv'
  <2>1. PICK l \in Limiters : l = used + 1
    BY <1>8 DEF Create
  <2>2. /\ size' = [size EXCEPT ![l] = TimeStep] /\ last' = [last EXCEPT ![l] = now]
        /\ total' = total + 1 /\ used' = l /\ entry' = l /\ expiry' = now + Minute
        /\ pc' = [pc EXCEPT ![c] = "idle"] /\ pc[c] = "missed"
    BY <1>8, <2>1 DEF Create
  <2>3. \A d \in Clients : pc'[d] = "idle"
    BY <1>2, <1>3, <2>2 DEF OneCallInv, TypeOK
  <2>4. size'[l] = TimeStep /\ last'[l] = now /\ used' > 0
    BY <1>3, <2>1, <2>2 DEF TypeOK
  <2>5. (total + 1) * TimeStep = total * TimeStep + TimeStep /\ total * TimeStep \in Nat
    BY <1>3, OneMore
  <2>6. total * TimeStep <= now
    <3>1. CASE used = 0
      BY <1>2, <1>3, <3>1 DEF OneCallInv
    <3>2. CASE used # 0
      <4>1. used \in 1..used /\ used > 0
        BY <1>3, <3>2
      <4>2. used \in Limiters /\ BucketInv(used)
        BY <4>1, UsedBucket
      <4>3. /\ size[used] <= MaxTime + TimeStep /\ size[used] \in Nat /\ last[used] \in Nat
        BY <1>3, <4>2 DEF BucketInv, TypeOK
      <4>4. /\ now > expiry /\ expiry = last[used] + Minute
            /\ total * TimeStep <= last[used] + size[used]
        BY <1>2, <2>2, <4>1 DEF OneCallInv
      <4>5. MaxTime + TimeStep <= Minute
        BY FullBucketDrains
      <4> QED BY <1>3, <2>5, <4>3, <4>4, <4>5
    <3> QED BY <3>1, <3>2
  <2>7. total' * TimeStep <= last'[l] + size'[l]
    BY <1>3, <2>2, <2>4, <2>5, <2>6
  <2> QED BY <2>2, <2>3, <2>4, <2>7 DEF OneCallInv
<1> QED BY <1>4, <1>5, <1>6, <1>7, <1>8 DEF Next

\* The documented limit: as long as no two calls for an address overlap, it is
\* admitted at the configured rate plus one burst, however often its entry
\* expires, for every rate that is greater than the burst.
THEOREM OneBurstAtMost == ASSUME Burst < Rate PROVE Spec => []OneBurst
<1>1. Init => OneCallInv
  BY DEF Init, OneCallInv, NoLimiter
<1>2. (~overlapped => OneCallInv) /\ IInv /\ IInv' /\ [Next]_vars => (~overlapped => OneCallInv)'
  BY OneCallStep
<1>3. IInv /\ (~overlapped => OneCallInv) => OneBurst
  <2> SUFFICES ASSUME IInv, OneCallInv PROVE total * TimeStep <= now + MaxTime + TimeStep
    BY DEF OneBurst
  <2>1. now \in Nat /\ total \in Nat /\ used \in Nat
    BY DEF IInv, TypeOK
  <2>2. CASE used = 0
    BY <2>1, <2>2, StepIsNat DEF OneCallInv
  <2>3. CASE used # 0
    <3>1. used \in 1..used /\ used > 0
      BY <2>1, <2>3
    <3>2. used \in Limiters /\ BucketInv(used)
      BY <3>1, UsedBucket
    <3>3. size[used] \in Nat /\ last[used] \in Nat
      BY <3>2 DEF IInv, TypeOK
    <3>4. total * TimeStep <= last[used] + size[used] /\ total * TimeStep \in Nat
      BY <2>1, <3>1, StepIsNat, OneMore DEF OneCallInv
    <3> QED BY <2>1, <3>2, <3>3, <3>4, StepIsNat DEF BucketInv
  <2> QED BY <2>2, <2>3
<1> QED BY <1>1, <1>2, <1>3, Invariance, PTL DEF Spec

(***************************************************************************)
(* With overlapping calls there can be several buckets, but never more in  *)
(* use than there are callers.  The requests admitted so far are booked on *)
(* one account for each caller: an account is open for a bucket, or free.  *)
(* Every bucket that can still be used has an account; a free account has  *)
(* drained, and there is one for every caller that is to make a bucket.    *)
(* An account is freed only by a lookup that misses: the entry has then    *)
(* expired, every bucket has drained, and only those that callers hold can *)
(* come back.                                                              *)
(***************************************************************************)
Missed == {c \in Clients : pc[c] = "missed"}
Found == {c \in Clients : pc[c] = "found"}
Free(acct) == {x \in Clients : acct[x] = NoLimiter}
Admitted(sum) == {t \in Clients \X Nat : t[2] < sum[t[1]]}

Books(acct, sum) ==
    /\ acct \in [Clients -> 0..used] /\ sum \in [Clients -> Nat]
    /\ IsFiniteSet(Admitted(sum)) /\ Cardinality(Admitted(sum)) = total
    /\ \A x, y \in Clients : acct[x] = acct[y] /\ acct[x] # NoLimiter => x = y
    /\ \A c \in Found : \E x \in Clients : acct[x] = held[c]
    /\ Cached => \E x \in Clients : acct[x] = entry
    /\ \A x \in Free(acct) : sum[x] * TimeStep <= now
    /\ \A x \in Clients \ Free(acct) :
           sum[x] * TimeStep <= last[acct[x]] + size[acct[x]]
    /\ Cardinality(Missed) <= Cardinality(Free(acct))

ManyCallsInv ==
    /\ used # 0 => entry # NoLimiter
    /\ \A l \in 1..used : last[l] + Minute <= expiry
    /\ \E acct \in [Clients -> 0..used], sum \in [Clients -> Nat] : Books(acct, sum)

\* A set of callers is finite.
LEMMA CallersFinite ==
    ASSUME NEW S \in SUBSET Clients
    PROVE  IsFiniteSet(S) /\ Cardinality(S) \in Nat /\ Cardinality(S) <= Cardinality(Clients)
<1>1. IsFiniteSet(Clients)
  BY RateAssumption
<1>2. IsFiniteSet(S) /\ Cardinality(S) <= Cardinality(Clients)
  BY <1>1, FS_Subset
<1> QED BY <1>2, FS_CardinalityType

\* One more request on an account is one more request in all.
LEMMA OneMoreAdmitted ==
    ASSUME NEW sum \in [Clients -> Nat], NEW x \in Clients, IsFiniteSet(Admitted(sum)),
           NEW more, more = [sum EXCEPT ![x] = @ + 1]
    PROVE  /\ IsFiniteSet(Admitted(more))
           /\ Cardinality(Admitted(more)) = Cardinality(Admitted(sum)) + 1
<1>0. PICK t : t = <<x, sum[x]>>
  OBVIOUS
<1>1. more \in [Clients -> Nat]
  OBVIOUS
<1>2. Admitted(more) = Admitted(sum) \union {t}
  <2>1. t \in Admitted(more)
    BY <1>0 DEF Admitted
  <2>2. ASSUME NEW r \in Admitted(sum) PROVE r \in Admitted(more)
    <3>1. r \in Clients \X Nat /\ r[1] \in Clients /\ r[2] \in Nat /\ r[2] < sum[r[1]]
      BY DEF Admitted
    <3>2. sum[r[1]] <= more[r[1]] /\ sum[r[1]] \in Nat /\ more[r[1]] \in Nat
      BY <3>1
    <3>3. r[2] < more[r[1]]
      BY <3>1, <3>2
    <3> QED BY <3>1, <3>3 DEF Admitted
  <2>3. ASSUME NEW r \in Admitted(more), r \notin Admitted(sum) PROVE r = t
    <3>1. r \in Clients \X Nat /\ r[1] \in Clients /\ r[2] \in Nat /\ r[2] < more[r[1]]
          /\ r = <<r[1], r[2]>>
      BY DEF Admitted
    <3>2. ~(r[2] < sum[r[1]])
      BY <2>3, <3>1 DEF Admitted
    <3>3. r[1] = x
      BY <3>1, <3>2
    <3>4. more[x] = sum[x] + 1 /\ sum[x] \in Nat
      OBVIOUS
    <3>5. r[2] = sum[x]
      BY <3>1, <3>2, <3>3, <3>4
    <3> QED BY <1>0, <3>1, <3>3, <3>5
  <2> QED BY <2>1, <2>2, <2>3
<1>3. t \notin Admitted(sum)
  BY <1>0 DEF Admitted
<1>4. PICK S : S = Admitted(sum)
  OBVIOUS
<1>5. IsFiniteSet(S \union {t}) /\ Cardinality(S \union {t}) = Cardinality(S) + 1
  BY <1>3, <1>4, FS_AddElement
<1> QED BY <1>2, <1>4, <1>5

\* A caller that misses finds accounts enough: those of the buckets that are
\* still held are at most as many as their holders.
LEMMA HoldersOwnAccounts ==
    ASSUME NEW acct \in [Clients -> Nat],
           NEW holder \in [Clients -> Nat],
           NEW F \in SUBSET Clients, NEW M \in SUBSET Clients, F \cap M = {},
           \A x, y \in Clients : acct[x] = acct[y] /\ acct[x] # NoLimiter => x = y,
           \A x \in Clients : acct[x] # NoLimiter => \E c \in F : holder[c] = acct[x]
    PROVE  Cardinality(M) <= Cardinality(Free(acct))
<1> DEFINE Open == Clients \ Free(acct)
           owner == [x \in Open |-> CHOOSE c \in F : holder[c] = acct[x]]
<1>1. \A x \in Open : acct[x] # NoLimiter /\ owner[x] \in F /\ holder[owner[x]] = acct[x]
  BY DEF Free
<1>2. owner \in Injection(Open, F)
  <2>1. owner \in [Open -> F]
    BY <1>1
  <2>2. ASSUME NEW x \in Open, NEW y \in Open, owner[x] = owner[y] PROVE x = y
    BY <1>1, <2>2
  <2> HIDE DEF owner, Open
  <2> QED BY <2>1, <2>2 DEF Injection, IsInjective
<1>3. Cardinality(Open) <= Cardinality(F)
  <2> HIDE DEF owner, Open
  <2> QED BY <1>2, CallersFinite, FS_Injection
<1>4. /\ Open \in SUBSET Clients /\ Free(acct) \in SUBSET Clients
      /\ Free(acct) \union Open = Clients /\ Free(acct) \cap Open = {}
      /\ F \union M \in SUBSET Clients
  BY DEF Free
<1> HIDE DEF Open
<1>5. /\ Cardinality(Clients) = Cardinality(Free(acct)) + Cardinality(Open)
      /\ Cardinality(F \union M) = Cardinality(F) + Cardinality(M)
  <2>1. Cardinality(Clients) = Cardinality(Free(acct)) + Cardinality(Open) - Cardinality({})
    BY <1>4, CallersFinite, FS_Union
  <2>2. Cardinality(F \union M) = Cardinality(F) + Cardinality(M) - Cardinality({})
    BY <1>4, CallersFinite, FS_Union
  <2> QED BY <2>1, <2>2, <1>4, CallersFinite, FS_EmptySet
<1>6. /\ Cardinality(Clients) \in Nat /\ Cardinality(Free(acct)) \in Nat
      /\ Cardinality(Open) \in Nat /\ Cardinality(F) \in Nat /\ Cardinality(M) \in Nat
      /\ Cardinality(F \union M) <= Cardinality(Clients)
  BY <1>4, CallersFinite
<1> QED BY <1>3, <1>5, <1>6

\* While time passes and while an entry is found, no account changes.
LEMMA ManyCallsQuiet ==
    ASSUME IInv, NEW acct, NEW sum, Books(acct, sum),
           UNCHANGED <<size, last, used, entry, expiry, total>>,
           now' \in {now, now + 1},
           Missed' = Missed, Found \subseteq Found',
           \A c \in Found : held'[c] = held[c],
           \A c \in Found' \ Found : Cached /\ held'[c] = entry
    PROVE  Books(acct, sum)'
<1> USE StepIsNat DEF Books
<1>1. now \in Nat /\ now' \in Nat /\ now <= now' /\ expiry \in Nat
  BY DEF IInv, TypeOK
<1>2. Cached' => Cached
  BY <1>1 DEF Cached
<1>3. \A x \in Free(acct) : sum[x] * TimeStep <= now'
  <2> SUFFICES ASSUME NEW x \in Free(acct) PROVE sum[x] * TimeStep <= now'
    OBVIOUS
  <2>1. sum[x] \in Nat /\ sum[x] * TimeStep <= now
    BY DEF Free
  <2>2. sum[x] * TimeStep \in Nat
    BY <2>1, OneMore
  <2> QED BY <1>1, <2>1, <2>2
<1>4. \A c \in Found' : \E x \in Clients : acct[x] = held'[c]
  OBVIOUS
<1> QED BY <1>2, <1>3, <1>4

\* A lookup that misses frees the accounts of the buckets that nobody holds:
\* the entry has expired, so they have drained.
LEMMA ManyCallsMiss ==
    ASSUME Burst < Rate, IInv, ManyCallsInv, NEW c \in Clients, Lookup(c), ~Cached
    PROVE  ManyCallsInv'
<1> USE StepIsNat
<1>1. /\ UNCHANGED <<now, bucketVars>> /\ pc[c] = "idle"
      /\ pc' = [pc EXCEPT ![c] = "missed"]
      /\ held' = [held EXCEPT ![c] = NoLimiter]
  BY DEF Lookup
<1>2. TypeOK /\ used \in Nat /\ now \in Nat /\ expiry \in Nat /\ Minute \in Nat
  BY RateAssumption DEF IInv, TypeOK
<1>3. PICK acct \in [Clients -> 0..used], sum \in [Clients -> Nat] : Books(acct, sum)
  BY DEF ManyCallsInv
<1>4. /\ Found' = Found /\ Missed' = Missed \union {c} /\ c \notin Found
      /\ \A d \in Found : held'[d] = held[d]
  BY <1>1, <1>2 DEF Found, Missed, TypeOK
<1> PICK kept : kept = [x \in Clients |->
                          IF \E d \in Found : held[d] = acct[x] THEN acct[x] ELSE NoLimiter]
  OBVIOUS
<1>5. kept \in [Clients -> 0..used] /\ kept \in [Clients -> Nat]
  BY <1>2 DEF NoLimiter
<1>6. \A x \in Clients : kept[x] # NoLimiter =>
          kept[x] = acct[x] /\ \E d \in Found : held[d] = kept[x]
  OBVIOUS
<1>7. \A d \in Found : \E x \in Clients : kept[x] = held[d]
  <2> SUFFICES ASSUME NEW d \in Found PROVE \E x \in Clients : kept[x] = held[d]
    OBVIOUS
  <2>1. PICK x \in Clients : acct[x] = held[d]
    BY <1>3 DEF Books
  <2> QED BY <2>1
<1>8. \A x \in Clients : kept[x] # acct[x] => acct[x] \in 1..used
  BY <1>2, <1>3 DEF NoLimiter
<1>9. \A x, y \in Clients : kept[x] = kept[y] /\ kept[x] # NoLimiter => x = y
  BY <1>3, <1>6 DEF Books
<1>10. Cardinality(Missed') <= Cardinality(Free(kept))
  <2>1. Found \in SUBSET Clients /\ Missed' \in SUBSET Clients /\ Found \cap Missed' = {}
    BY <1>4 DEF Found, Missed
  <2>2. held \in [Clients -> Nat]
    BY <1>2, RateAssumption DEF TypeOK, Limiters, NoLimiter
  <2>3. PICK M : M = Missed'
    OBVIOUS
  <2>4. PICK F : F = Found
    OBVIOUS
  <2>5. PICK h : h = held
    OBVIOUS
  <2>6. \A x \in Clients : kept[x] # NoLimiter => \E d \in F : h[d] = kept[x]
    BY <1>6, <2>4, <2>5
  <2>7. Cardinality(M) <= Cardinality(Free(kept))
    <3>1. /\ F \in SUBSET Clients /\ M \in SUBSET Clients /\ F \cap M = {}
          /\ h \in [Clients -> Nat]
      BY <2>1, <2>2, <2>3, <2>4, <2>5
    <3> QED BY ONLY <1>5, <1>9, <2>6, <3>1, HoldersOwnAccounts
  <2> QED BY <2>3, <2>7
<1>11. \A l \in 1..used : last[l] + size[l] <= now
  <2> SUFFICES ASSUME NEW l \in 1..used PROVE last[l] + size[l] <= now
    OBVIOUS
  <2>1. l \in Limiters /\ BucketInv(l)
    BY UsedBucket
  <2>2. size[l] \in Nat /\ last[l] \in Nat
    BY <1>2, <2>1 DEF TypeOK
  <2>3. last[l] + Minute <= expiry
    BY DEF ManyCallsInv
  <2>4. now > expiry
    <3>1. entry # NoLimiter
      BY <1>2 DEF ManyCallsInv
    <3> QED BY <1>2, <3>1 DEF Cached
  <2>5. MaxTime + TimeStep <= Minute
    BY FullBucketDrains
  <2> QED BY <1>2, <2>1, <2>2, <2>3, <2>4, <2>5 DEF BucketInv
<1>12. \A x \in Free(kept) : sum[x] * TimeStep <= now
  <2> SUFFICES ASSUME NEW x \in Free(kept) PROVE sum[x] * TimeStep <= now
    OBVIOUS
  <2>1. x \in Clients /\ kept[x] = NoLimiter /\ sum[x] \in Nat
    BY DEF Free
  <2>2. CASE acct[x] = NoLimiter
    BY <1>3, <2>1, <2>2 DEF Books, Free
  <2>3. CASE acct[x] # NoLimiter
    <3>1. PICK l \in 1..used : l = acct[x]
      BY <1>8, <2>1, <2>3
    <3>2. sum[x] * TimeStep <= last[l] + size[l]
      BY <1>3, <2>1, <2>3, <3>1 DEF Books, Free
    <3>3. last[l] + size[l] <= now /\ l \in Limiters
      BY <1>11, UsedBucket
    <3>4. size[l] \in Nat /\ last[l] \in Nat /\ sum[x] * TimeStep \in Nat
      BY <1>2, <2>1, <3>3, OneMore DEF TypeOK
    <3> QED BY <1>2, <3>2, <3>3, <3>4
  <2> QED BY <2>2, <2>3
<1>13. \A x \in Clients \ Free(kept) : sum[x] * TimeStep <= last[kept[x]] + size[kept[x]]
  <2> SUFFICES ASSUME NEW x \in Clients \ Free(kept)
               PROVE  sum[x] * TimeStep <= last[kept[x]] + size[kept[x]]
    OBVIOUS
  <2>1. kept[x] = acct[x] /\ x \in Clients \ Free(acct)
    BY <1>6 DEF Free
  <2> QED BY <1>3, <2>1 DEF Books
<1>14. Books(kept, sum)'
  <2>1. ~Cached'
    BY <1>1 DEF Cached, bucketVars
  <2> QED BY <1>1, <1>3, <1>4, <1>5, <1>7, <1>9, <1>10, <1>12, <1>13, <2>1 DEF Books, bucketVars
<1> QED BY <1>1, <1>5, <1>14 DEF ManyCallsInv, bucketVars

\* A request admitted or refused by a bucket is booked on the bucket's account.
LEMMA ManyCallsUpdate ==
    ASSUME IInv, IInv', ManyCallsInv, NEW c \in Clients, Update(c)
    PROVE  ManyCallsInv'
<1> USE StepIsNat
<1>1. PICK l \in 1..used : l = held[c]
  BY DEF Update, IInv
<1>2. PICK one \in {0, 1} : one = IF Drained(l) <= MaxTime THEN 1 ELSE 0
  OBVIOUS
<1>3. PICK fill \in Nat : fill = one * TimeStep
  OBVIOUS
<1>4. /\ size' = [size EXCEPT ![l] = Drained(l) + fill]
      /\ last' = [last EXCEPT ![l] = now]
      /\ total' = total + one
      /\ entry' = l /\ expiry' = now + Minute
      /\ pc' = [pc EXCEPT ![c] = "idle"] /\ pc[c] = "found"
      /\ UNCHANGED <<now, used, held>>
  <2>1. fill = IF Drained(l) <= MaxTime THEN TimeStep ELSE 0
    BY <1>2, <1>3
  <2> QED BY <1>1, <1>2, <2>1 DEF Update
<1>5. /\ TypeOK /\ used \in Nat /\ now \in Nat /\ expiry \in Nat /\ Minute \in Nat
      /\ total \in Nat /\ l \in Limiters /\ BucketInv(l)
  BY UsedBucket, RateAssumption DEF IInv, TypeOK
<1>6. Drained(l) \in Nat /\ size[l] <= Drained(l) + (now - last[l])
  BY <1>5, DrainedBounds DEF BucketInv
<1>7. /\ size'[l] = Drained(l) + fill /\ last'[l] = now
      /\ \A m \in Limiters \ {l} : size'[m] = size[m] /\ last'[m] = last[m]
      /\ size[l] \in Nat /\ last[l] \in Nat
  BY <1>4, <1>5 DEF TypeOK
<1>8. PICK acct \in [Clients -> 0..used], sum \in [Clients -> Nat] : Books(acct, sum)
  BY DEF ManyCallsInv
<1>9. PICK x \in Clients : acct[x] = l
  <2>1. c \in Found
    BY <1>4 DEF Found
  <2> QED BY <1>1, <1>8, <2>1 DEF Books
<1>10. PICK more \in [Clients -> Nat] :
           /\ more = [sum EXCEPT ![x] = @ + one]
           /\ IsFiniteSet(Admitted(more)) /\ Cardinality(Admitted(more)) = total + one
  <2>1. IsFiniteSet(Admitted(sum)) /\ Cardinality(Admitted(sum)) = total
    BY <1>8 DEF Books
  <2>2. CASE one = 0
    <3>1. sum = [sum EXCEPT ![x] = @ + one] /\ total = total + one
      BY <1>5, <2>2
    <3> QED BY <2>1, <3>1
  <2>3. CASE one = 1
    <3>1. PICK m : m = [sum EXCEPT ![x] = @ + 1]
      OBVIOUS
    <3>2. m \in [Clients -> Nat] /\ m = [sum EXCEPT ![x] = @ + one]
      BY <2>3, <3>1
    <3>3. IsFiniteSet(Admitted(m)) /\ Cardinality(Admitted(m)) = total + 1
      BY <2>1, <3>1, OneMoreAdmitted
    <3> QED BY <2>3, <3>2, <3>3
  <2> QED BY <2>2, <2>3
<1>11. more[x] * TimeStep <= last'[l] + size'[l]
  <2>1. more[x] = sum[x] + one /\ sum[x] \in Nat
    BY <1>10
  <2>2. more[x] * TimeStep = sum[x] * TimeStep + fill /\ sum[x] * TimeStep \in Nat
    BY <1>2, <1>3, <2>1, OneMore
  <2>3. sum[x] * TimeStep <= last[l] + size[l]
    <3>1. x \in Clients \ Free(acct)
      BY <1>5, <1>9 DEF Free, NoLimiter, Limiters
    <3> QED BY <1>8, <1>9, <3>1 DEF Books
  <2> QED BY <1>3, <1>5, <1>6, <1>7, <2>2, <2>3
<1>12. \A y \in Clients \ Free(acct) : more[y] * TimeStep <= last'[acct[y]] + size'[acct[y]]
  <2> SUFFICES ASSUME NEW y \in Clients \ Free(acct), y # x
               PROVE  more[y] * TimeStep <= last'[acct[y]] + size'[acct[y]]
    BY <1>9, <1>11
  <2>1. acct[y] \in 1..used /\ acct[y] # l
    BY <1>5, <1>8, <1>9 DEF Free, NoLimiter, Books
  <2>2. acct[y] \in Limiters
    BY <2>1, UsedBucket
  <2>3. last'[acct[y]] = last[acct[y]] /\ size'[acct[y]] = size[acct[y]] /\ more[y] = sum[y]
    BY <1>7, <1>10, <2>1, <2>2
  <2> QED BY <1>8, <2>3 DEF Books
<1>13. \A y \in Free(acct) : more[y] * TimeStep <= now
  <2>1. x \notin Free(acct)
    BY <1>5, <1>9 DEF Free, NoLimiter, Limiters
  <2>2. \A y \in Free(acct) : more[y] = sum[y]
    BY <1>10, <2>1 DEF Free
  <2> QED BY <1>8, <2>2 DEF Books
<1>14. Missed' = Missed /\ Found' \subseteq Found
  BY <1>4, <1>5 DEF Missed, Found, TypeOK
<1>15. Books(acct, more)'
  <2>1. acct \in [Clients -> 0..used'] /\ more \in [Clients -> Nat]
    BY <1>4
  <2>2. /\ \A y, z \in Clients : acct[y] = acct[z] /\ acct[y] # NoLimiter => y = z
        /\ \A d \in Found' : \E y \in Clients : acct[y] = held'[d]
        /\ \E y \in Clients : acct[y] = entry'
        /\ Cardinality(Missed') <= Cardinality(Free(acct))
    BY <1>4, <1>8, <1>9, <1>14 DEF Books
  <2> QED BY <1>4, <1>10, <1>12, <1>13, <2>1, <2>2 DEF Books
<1>16. \A m \in 1..used' : last'[m] + Minute <= expiry'
  <2> SUFFICES ASSUME NEW m \in 1..used PROVE last'[m] + Minute <= now + Minute
    BY <1>4
  <2>1. m \in Limiters /\ BucketInv(m)
    BY UsedBucket
  <2>2. last[m] \in Nat /\ last[m] <= now
    BY <1>5, <2>1 DEF BucketInv, TypeOK
  <2> QED BY <1>5, <1>7, <2>1, <2>2
<1>17. entry' # NoLimiter /\ acct \in [Clients -> 0..used']
  BY <1>4, <1>5, <1>8 DEF NoLimiter, Limiters
<1> QED BY <1>10, <1>15, <1>16, <1>17 DEF ManyCallsInv

\* A new bucket takes a free account, of which there is one for its maker.
LEMMA ManyCallsCreate ==
    ASSUME IInv, IInv', ManyCallsInv, NEW c \in Clients, Create(c)
    PROVE  ManyCallsInv'
<1> USE StepIsNat
<1>1. PICK l \in Limiters : l = used + 1
  BY DEF Create
<1>2. /\ size' = [size EXCEPT ![l] = TimeStep] /\ last' = [last EXCEPT ![l] = now]
      /\ total' = total + 1 /\ used' = l /\ entry' = l /\ expiry' = now + Minute
      /\ pc' = [pc EXCEPT ![c] = "idle"] /\ pc[c] = "missed"
      /\ UNCHANGED <<now, held>>
  BY <1>1 DEF Create
<1>3. /\ TypeOK /\ used \in Nat /\ now \in Nat /\ expiry \in Nat /\ Minute \in Nat
      /\ total \in Nat /\ l \notin 1..used /\ l # NoLimiter
  <2>1. /\ TypeOK /\ used \in Nat /\ now \in Nat /\ expiry \in Nat /\ Minute \in Nat
        /\ total \in Nat
    BY RateAssumption DEF IInv, TypeOK
  <2> QED BY <1>1, <2>1 DEF NoLimiter
<1>4. /\ size'[l] = TimeStep /\ last'[l] = now
      /\ \A m \in Limiters \ {l} : size'[m] = size[m] /\ last'[m] = last[m]
  BY <1>2, <1>3 DEF TypeOK
<1>5. PICK acct \in [Clients -> 0..used], sum \in [Clients -> Nat] : Books(acct, sum)
  BY DEF ManyCallsInv
<1>6. c \in Missed /\ Missed' = Missed \ {c} /\ Found' = Found
  BY <1>2, <1>3 DEF Missed, Found, TypeOK
<1>7. /\ Missed \in SUBSET Clients /\ IsFiniteSet(Missed) /\ Cardinality(Missed) \in Nat
      /\ IsFiniteSet(Free(acct)) /\ Cardinality(Free(acct)) \in Nat
  <2>1. Missed \in SUBSET Clients /\ Free(acct) \in SUBSET Clients
    BY DEF Missed, Free
  <2> QED BY <2>1, CallersFinite
<1>8. Cardinality(Missed') = Cardinality(Missed) - 1 /\ Cardinality(Missed) # 0
  <2>1. PICK M : M = Missed
    OBVIOUS
  <2>2. Cardinality(M \ {c}) = Cardinality(M) - 1 /\ Cardinality(M) # 0
    BY <1>6, <1>7, <2>1, FS_RemoveElement, FS_EmptySet
  <2> QED BY <1>6, <2>1, <2>2
<1>9. PICK x : x \in Free(acct)
  <2>1. Cardinality(Free(acct)) # 0
    BY <1>5, <1>7, <1>8 DEF Books
  <2> QED BY <1>7, <2>1, FS_EmptySet
<1>10. x \in Clients /\ acct[x] = NoLimiter
  BY <1>9 DEF Free
<1>11. PICK taken : taken = [acct EXCEPT ![x] = l]
  OBVIOUS
<1>12. taken \in [Clients -> 0..used']
  <2>1. \A n \in 0..used : n \in 0..l
    BY <1>1, <1>3
  <2>2. l \in 0..l
    BY <1>1, <1>3
  <2> QED BY <1>2, <1>5, <1>11, <2>1, <2>2
<1>13. Free(taken) = Free(acct) \ {x}
  BY <1>3, <1>5, <1>10, <1>11 DEF Free
<1>14. Cardinality(Missed') <= Cardinality(Free(taken))
  <2>1. PICK S : S = Free(acct)
    OBVIOUS
  <2>2. Cardinality(S \ {x}) = Cardinality(S) - 1
    BY <1>7, <1>9, <2>1, FS_RemoveElement
  <2>3. Cardinality(Missed) <= Cardinality(S)
    BY <1>5, <2>1 DEF Books
  <2> QED BY <1>7, <1>8, <1>13, <2>1, <2>2, <2>3
<1>15. PICK more : more = [sum EXCEPT ![x] = @ + 1]
  OBVIOUS
<1>16. more \in [Clients -> Nat] /\ IsFiniteSet(Admitted(more))
       /\ Cardinality(Admitted(more)) = total + 1
  <2>1. IsFiniteSet(Admitted(sum)) /\ Cardinality(Admitted(sum)) = total
    BY <1>5 DEF Books
  <2>2. more \in [Clients -> Nat]
    BY <1>10, <1>15
  <2>3. IsFiniteSet(Admitted(more)) /\ Cardinality(Admitted(more)) = Cardinality(Admitted(sum)) + 1
    BY <1>10, <1>15, <2>1, OneMoreAdmitted
  <2> QED BY <2>1, <2>2, <2>3
<1>17. \A y \in Clients \ Free(taken) : more[y] * TimeStep <= last'[taken[y]] + size'[taken[y]]
  <2>1. more[x] * TimeStep <= last'[l] + size'[l]
    <3>1. sum[x] * TimeStep <= now
      BY <1>5, <1>9 DEF Books
    <3>2. more[x] * TimeStep = sum[x] * TimeStep + TimeStep /\ sum[x] * TimeStep \in Nat
      BY <1>10, <1>15, OneMore
    <3> QED BY <1>3, <1>4, <3>1, <3>2
  <2> SUFFICES ASSUME NEW y \in Clients \ Free(taken), y # x
               PROVE  more[y] * TimeStep <= last'[taken[y]] + size'[taken[y]]
    BY <1>5, <1>10, <1>11, <2>1
  <2>2. taken[y] = acct[y] /\ y \in Clients \ Free(acct) /\ more[y] = sum[y]
    BY <1>5, <1>11, <1>13, <1>15
  <2>3. acct[y] \in 1..used
    BY <1>3, <1>5, <2>2 DEF Free, NoLimiter
  <2>4. acct[y] \in Limiters \ {l}
    BY <1>3, <2>3, UsedBucket
  <2>5. last'[acct[y]] = last[acct[y]] /\ size'[acct[y]] = size[acct[y]]
    BY <1>4, <2>4
  <2> QED BY <1>5, <2>2, <2>5 DEF Books
<1>18. \A y \in Free(taken) : more[y] * TimeStep <= now
  <2>1. \A y \in Free(taken) : y \in Free(acct) /\ more[y] = sum[y]
    BY <1>13, <1>15 DEF Free
  <2> QED BY <1>5, <2>1 DEF Books
<1>19. \A d \in Found' : \E y \in Clients : taken[y] = held'[d]
  <2> SUFFICES ASSUME NEW d \in Found PROVE \E y \in Clients : taken[y] = held[d]
    BY <1>2, <1>6
  <2>1. PICK y \in Clients : acct[y] = held[d]
    BY <1>5 DEF Books
  <2>2. held[d] \in 1..used
    BY DEF IInv, Found
  <2>3. y # x
    BY <1>3, <1>10, <2>1, <2>2 DEF NoLimiter
  <2> QED BY <1>5, <1>11, <2>1, <2>3
<1>20. \A y, z \in Clients : taken[y] = taken[z] /\ taken[y] # NoLimiter => y = z
  <2>1. \A y \in Clients : acct[y] # l
    BY <1>1, <1>3, <1>5
  <2> QED BY <1>5, <1>11, <2>1 DEF Books
<1>21. taken[x] = entry'
  BY <1>2, <1>5, <1>10, <1>11
<1>22. Books(taken, more)'
  BY <1>2, <1>10, <1>12, <1>14, <1>16, <1>17, <1>18, <1>19, <1>20, <1>21 DEF Books
<1>23. \A m \in 1..used' : last'[m] + Minute <= expiry'
  <2> SUFFICES ASSUME NEW m \in 1..used' PROVE last'[m] + Minute <= now + Minute
    BY <1>2
  <2>1. m = l \/ m \in 1..used
    BY <1>1, <1>2, <1>3
  <2>2. CASE m = l
    BY <1>3, <1>4, <2>2
  <2>3. CASE m \in 1..used
    <3>1. m \in Limiters /\ BucketInv(m) /\ m # l
      BY <1>3, <2>3, UsedBucket
    <3>2. last[m] \in Nat /\ last[m] <= now /\ last'[m] = last[m]
      BY <1>3, <1>4, <3>1 DEF BucketInv, TypeOK
    <3> QED BY <1>3, <3>2
  <2> QED BY <2>1, <2>2, <2>3
<1> QED BY <1>2, <1>3, <1>12, <1>16, <1>22, <1>23 DEF ManyCallsInv

\* Every step keeps the books.
LEMMA ManyCallsStep ==
    ASSUME Burst < Rate, IInv, IInv', ManyCallsInv, [Next]_vars
    PROVE  ManyCallsInv'
<1>1. PICK acct \in [Clients -> 0..used], sum \in [Clients -> Nat] : Books(acct, sum)
  BY DEF ManyCallsInv
<1>2. CASE UNCHANGED vars \/ Tick
  <2>1. UNCHANGED <<size, last, used, entry, expiry, total, pc, held>> /\ now' \in {now, now + 1}
    BY <1>2 DEF Tick, vars, bucketVars, clientVars
  <2>2. Missed' = Missed /\ Found' = Found
    BY <2>1 DEF Missed, Found
  <2>3. Books(acct, sum)'
    BY <1>1, <2>1, <2>2, ManyCallsQuiet
  <2> QED BY <1>1, <2>1, <2>3 DEF ManyCallsInv
<1>3. ASSUME NEW c \in Clients, Lookup(c) PROVE ManyCallsInv'
  <2>1. CASE Cached
    <3>1. /\ UNCHANGED <<size, last, used, entry, expiry, total>> /\ now' = now
          /\ pc' = [pc EXCEPT ![c] = "found"] /\ held' = [held EXCEPT ![c] = entry]
          /\ pc[c] = "idle"
      BY <1>3, <2>1 DEF Lookup, bucketVars
    <3>2. /\ Missed' = Missed /\ Found' = Found \union {c} /\ c \notin Found
          /\ held'[c] = entry /\ \A d \in Found : held'[d] = held[d]
      BY <3>1 DEF Missed, Found, IInv, TypeOK
    <3>3. Books(acct, sum)'
      BY <1>1, <2>1, <3>1, <3>2, ManyCallsQuiet
    <3> QED BY <1>1, <3>1, <3>3 DEF ManyCallsInv
  <2> QED BY <1>3, <2>1, ManyCallsMiss
<1> QED BY <1>2, <1>3, ManyCallsUpdate, ManyCallsCreate DEF Next

\* At the start nothing has been admitted and every account is free.
LEMMA ManyCallsInit == Init => ManyCallsInv
<1> SUFFICES ASSUME Init PROVE ManyCallsInv
  OBVIOUS
<1>1. PICK acct : acct = [x \in Clients |-> 0]
  OBVIOUS
<1>2. acct \in [Clients -> 0..used] /\ acct \in [Clients -> Nat] /\ used = 0
  BY <1>1 DEF Init
<1>3. Admitted(acct) = {} /\ Missed = {} /\ Found = {} /\ Free(acct) = Clients
  BY <1>1 DEF Init, Admitted, Missed, Found, Free, NoLimiter
<1>4. IsFiniteSet({}) /\ Cardinality({}) = 0 /\ Cardinality(Clients) \in Nat
  BY FS_EmptySet, CallersFinite
<1>5. \A x \in Clients : acct[x] * TimeStep = 0
  BY <1>1, StepIsNat
<1>6. Books(acct, acct)
  <2>1. /\ total = 0 /\ now = 0 /\ ~Cached
        /\ \A x \in Clients : acct[x] = NoLimiter
    BY <1>1 DEF Init, Cached, NoLimiter
  <2>2. \A x \in Free(acct) : acct[x] * TimeStep <= now
    BY <1>3, <1>5, <2>1
  <2> QED BY <1>2, <1>3, <1>4, <2>1, <2>2 DEF Books
<1> QED BY <1>2, <1>6 DEF ManyCallsInv

\* With overlapping calls an address is admitted at most at the rate and the
\* burst of one bucket for each of its concurrent callers, however they
\* interleave and however often the entry expires or is replaced.
THEOREM OneBurstPerClient == ASSUME Burst < Rate PROVE Spec => []BurstPerClient
<1>1. ManyCallsInv /\ IInv /\ IInv' /\ [Next]_vars => ManyCallsInv'
  BY ManyCallsStep
<1>2. IInv /\ ManyCallsInv => BurstPerClient
  <2> SUFFICES ASSUME IInv, ManyCallsInv
               PROVE  total * TimeStep <= Cardinality(Clients) * (now + MaxTime + TimeStep)
    BY DEF BurstPerClient
  <2>1. PICK acct \in [Clients -> 0..used], sum \in [Clients -> Nat] : Books(acct, sum)
    BY DEF ManyCallsInv
  <2>2. PICK most \in Nat : most = now + MaxTime + TimeStep
    BY StepIsNat DEF IInv, TypeOK
  <2>3. PICK k \in Nat : k = Cardinality(Clients)
    BY CallersFinite
  <2>4. total \in Nat /\ now \in Nat /\ used \in Nat
    BY DEF IInv, TypeOK
  <2>5. \A x \in Clients : sum[x] * TimeStep <= most
    <3> SUFFICES ASSUME NEW x \in Clients PROVE sum[x] * TimeStep <= most
      OBVIOUS
    <3>1. sum[x] * TimeStep \in Nat
      BY StepIsNat, OneMore
    <3>2. CASE x \in Free(acct)
      BY <2>1, <2>2, <2>4, <3>1, <3>2, StepIsNat DEF Books
    <3>3. CASE x \notin Free(acct)
      <4>1. PICK l \in 1..used : l = acct[x]
        BY <2>1, <2>4, <3>3 DEF Free, NoLimiter
      <4>2. l \in Limiters /\ BucketInv(l)
        BY UsedBucket
      <4>3. size[l] \in Nat /\ last[l] \in Nat
        BY <4>2 DEF IInv, TypeOK
      <4>4. sum[x] * TimeStep <= last[l] + size[l]
        BY <2>1, <3>3, <4>1 DEF Books
      <4> QED BY <2>2, <2>4, <3>1, <4>2, <4>3, <4>4, StepIsNat DEF BucketInv
    <3> QED BY <3>2, <3>3
  <2>6. CASE TimeStep = 0
    <3>1. total * TimeStep = 0 /\ k * most \in Nat
      BY <2>4, <2>6, OneMore
    <3> QED BY <2>2, <2>3, <3>1
  <2>7. CASE TimeStep # 0
    <3>1. PICK n \in Nat : n = most \div TimeStep /\ n * TimeStep <= most
      <4>1. \A m \in Nat, t \in Nat \ {0} : m \div t \in Nat /\ (m \div t) * t <= m
        BY Z3
      <4> QED BY <2>7, <4>1, StepIsNat
    <3>2. \A x \in Clients : sum[x] <= n
      <4>1. \A m, g \in Nat, t \in Nat \ {0} : g * t <= m => g <= m \div t
        BY Z3
      <4> QED BY <2>5, <2>7, <3>1, <4>1, StepIsNat
    <3>3. Admitted(sum) \in SUBSET (Clients \X (0..(n - 1)))
      <4> SUFFICES ASSUME NEW t \in Admitted(sum) PROVE t \in Clients \X (0..(n - 1))
        OBVIOUS
      <4>1. t \in Clients \X Nat /\ t[1] \in Clients /\ t[2] \in Nat /\ t[2] < sum[t[1]]
        BY DEF Admitted
      <4>2. t[2] \in 0..(n - 1)
        BY <3>2, <4>1
      <4> QED BY <4>1, <4>2
    <3>4. IsFiniteSet(0..(n - 1)) /\ Cardinality(0..(n - 1)) = n
      BY FS_Interval
    <3>5. PICK N : N = 0..(n - 1)
      OBVIOUS
    <3>6. IsFiniteSet(Clients \X N) /\ Cardinality(Clients \X N) = k * n
      BY <2>3, <3>4, <3>5, CallersFinite, FS_Product
    <3>7. PICK A : A = Admitted(sum)
      OBVIOUS
    <3>8. Cardinality(A) <= k * n
      BY <3>3, <3>5, <3>6, <3>7, FS_Subset
    <3>9. total <= k * n
      BY <2>1, <3>7, <3>8 DEF Books
    <3>10. \A a, b, t, m, q \in Nat : a <= b * q /\ q * t <= m => a * t <= b * m
      <4> SUFFICES ASSUME NEW a \in Nat, NEW b \in Nat, NEW t \in Nat, NEW m \in Nat, NEW q \in Nat,
                          a <= b * q, q * t <= m
                   PROVE  a * t <= b * m
        OBVIOUS
      <4>1. \A u, v, w \in Nat : u <= v => u * w <= v * w /\ w * u <= w * v
        BY Z3
      <4>2. b * q \in Nat /\ q * t \in Nat
        BY OneMore
      <4>3. a * t <= (b * q) * t
        BY <4>1, <4>2
      <4>4. b * (q * t) <= b * m
        BY <4>1, <4>2
      <4>5. (b * q) * t = b * (q * t)
        BY Z3
      <4>6. a * t \in Nat /\ (b * q) * t \in Nat /\ b * m \in Nat
        BY <4>2, OneMore
      <4> QED BY <4>3, <4>4, <4>5, <4>6
    <3>11. total * TimeStep <= k * most
      BY <2>4, <3>1, <3>9, <3>10, StepIsNat
    <3> QED BY <2>2, <2>3, <3>11
  <2> QED BY <2>6, <2>7
<1> QED BY <1>1, <1>2, ManyCallsInit, Invariance, PTL DEF Spec

============================================================================
