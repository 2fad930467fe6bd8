---------------------------- MODULE AnswerProofs ----------------------------
(***************************************************************************)
(* Proofs about what a query is answered from and with: the health filter  *)
(* with its cache, for any number of calls, records, statuses and bounds,  *)
(* the geo filters, for every record set and client, the order in which    *)
(* addresses are given, for any weights, the lookups of zones and of       *)
(* locations, for every zone and name, and HandleRequest, for any zones,   *)
(* records, requests and bounds, and whatever changes or fails under a     *)
(* request.                                                                *)
(***************************************************************************)
EXTENDS StatusCache, MCAlgorithms, Resolver, FiniteSetTheorems, WellFoundedInduction, TLAPS

(***************************************************************************)
(* Operators.                                                              *)
(***************************************************************************)

\* A set of natural numbers that is not empty has a least element.
LEMMA MinIsLeast ==
    ASSUME NEW S \in SUBSET Nat, S # {}
    PROVE  Min(S) \in S /\ \A y \in S : Min(S) <= y
<1> DEFINE R == {ss \in Nat \X Nat : ss[1] < ss[2]}
<1>1. IsWellFoundedOn(R, Nat)
  BY NatLessThanWellFounded DEF OpToRel
<1>2. PICK x \in S : \A y \in S : ~(<<y, x>> \in R)
  <2> HIDE DEF R
  <2> QED BY <1>1, WFMin
<1>3. \A y \in S : x <= y
  <2> SUFFICES ASSUME NEW y \in S, y < x PROVE FALSE
    OBVIOUS
  <2>1. <<y, x>> \in Nat \X Nat /\ <<y, x>>[1] = y /\ <<y, x>>[2] = x
    OBVIOUS
  <2> QED BY <1>2, <2>1
<1> QED BY <1>3 DEF Min

\* The greater of two integers.
LEMMA MaxOfTwo ==
    ASSUME NEW a \in Int, NEW b \in Int
    PROVE  Max({a, b}) = IF a >= b THEN a ELSE b
<1>1. \E x \in {a, b} : \A y \in {a, b} : x >= y
  OBVIOUS
<1>2. Max({a, b}) \in {a, b} /\ \A y \in {a, b} : Max({a, b}) >= y
  BY <1>1 DEF Max
<1> QED BY <1>2

\* A key that begins with another character than those of the prefix is not cut.
LEMMA PlainIsKept ==
    ASSUME NEW k \in Seq(STRING), Plain(k)
    PROVE  TrimLeft(k) = k
<1> DEFINE kept == {i \in DOMAIN k : k[i] \notin CutSet}
<1>1. 1 \in kept /\ kept \in SUBSET Nat /\ \A i \in kept : 1 <= i
  BY DEF Plain
<1>2. Min(kept) = 1
  <2> HIDE DEF kept
  <2>1. Min(kept) \in kept /\ \A y \in kept : Min(kept) <= y
    BY <1>1, MinIsLeast
  <2>2. Min(kept) \in Nat /\ 1 <= Min(kept) /\ Min(kept) <= 1
    BY <1>1, <2>1
  <2> QED BY <2>2
<1>3. SubSeq(k, 1, Len(k)) = k
  OBVIOUS
<1> QED BY <1>1, <1>2, <1>3 DEF TrimLeft

(***************************************************************************)
(* One call of FilterHealthcheck.                                          *)
(***************************************************************************)
CallRecord == [rrset : Seq(Keys), given : SUBSET Nat, white : SUBSET Nat, left : SUBSET Nat,
               loop : {1, 2}, min : Int]

\* The addresses that are left to be asked for are among the white ones, which
\* are all that were given until the second loop.
Shape(f) ==
    /\ f \in CallRecord
    /\ f.given # {} /\ f.given \subseteq DOMAIN f.rrset
    /\ f.white \subseteq f.given /\ f.left \subseteq f.white
    /\ f.loop = 1 => f.white = f.given /\ f.left # {}

\* m is the best of the statuses s of the addresses S, but not less than down.
BestOf(m, s, S) ==
    /\ m >= DownCount /\ \A i \in S : s[i] <= m
    /\ m = DownCount \/ \E i \in S : s[i] = m

\* What a call knows, when it was told the statuses s: the best status of the
\* addresses it has asked for, and then which of them are not good enough.
Known(f, s) ==
    /\ f.loop = 1 => BestOf(f.min, s, f.given \ f.left)
    /\ f.loop = 2 => /\ \E best \in Int : BestOf(best, s, f.given) /\ f.min = Floor(best)
                     /\ f.white = {i \in f.given : i \in f.left \/ s[i] >= f.min}

\* Floor gives an integer.
LEMMA FloorIsInt == \A m \in Int : Floor(m) \in Int
BY StatusAssumption DEF Floor

\* The three cases of a step of the loops, with the records written out.
LEMMA StepCases ==
    ASSUME NEW f, Shape(f), f.left # {}, NEW v \in Int
    PROVE  \E i \in f.left : \E best \in Int :
              /\ i = Min(f.left) /\ best = (IF f.min >= v THEN f.min ELSE v)
              /\ f.loop = 1 /\ f.left # {i} =>
                    FilterStep(f, v) = [rrset |-> f.rrset, given |-> f.given, white |-> f.white,
                                  left |-> f.left \ {i}, loop |-> 1, min |-> best]
              /\ f.loop = 1 /\ f.left = {i} =>
                    FilterStep(f, v) = [rrset |-> f.rrset, given |-> f.given, white |-> f.white,
                                  left |-> f.white, loop |-> 2, min |-> Floor(best)]
              /\ f.loop = 2 =>
                    FilterStep(f, v) = [rrset |-> f.rrset, given |-> f.given,
                                  white |-> IF v < f.min THEN f.white \ {i} ELSE f.white,
                                  left |-> f.left \ {i}, loop |-> 2, min |-> f.min]
<1>1. f \in CallRecord
  BY DEF Shape
<1>2. f.left \in SUBSET Nat /\ f.min \in Int
  BY <1>1 DEF CallRecord
<1>3. PICK i \in f.left : i = Min(f.left)
  BY <1>2, MinIsLeast
<1>4. PICK best \in Int : best = Max({f.min, v}) /\ best = (IF f.min >= v THEN f.min ELSE v)
  BY <1>2, MaxOfTwo
<1>5. f.loop \in {1, 2}
  BY <1>1 DEF CallRecord
<1>6. ASSUME f.loop = 1, f.left # {i}
      PROVE  FilterStep(f, v) = [rrset |-> f.rrset, given |-> f.given, white |-> f.white,
                           left |-> f.left \ {i}, loop |-> 1, min |-> best]
  <2>1. FilterStep(f, v) = [f EXCEPT !.left = f.left \ {i}, !.min = best]
    BY <1>6, <1>3, <1>4 DEF FilterStep
  <2> QED BY <1>6, <1>1, <2>1 DEF CallRecord
<1>7. ASSUME f.loop = 1, f.left = {i}
      PROVE  FilterStep(f, v) = [rrset |-> f.rrset, given |-> f.given, white |-> f.white,
                           left |-> f.white, loop |-> 2, min |-> Floor(best)]
  <2>1. FilterStep(f, v) = [f EXCEPT !.loop = 2, !.left = f.white, !.min = Floor(best)]
    BY <1>7, <1>3, <1>4 DEF FilterStep
  <2> QED BY <1>7, <1>1, <2>1 DEF CallRecord
<1>8. ASSUME f.loop = 2
      PROVE  FilterStep(f, v) = [rrset |-> f.rrset, given |-> f.given,
                           white |-> IF v < f.min THEN f.white \ {i} ELSE f.white,
                           left |-> f.left \ {i}, loop |-> 2, min |-> f.min]
  <2>1. FilterStep(f, v) = [f EXCEPT !.left = f.left \ {i},
                             !.white = IF v < f.min THEN f.white \ {i} ELSE f.white]
    BY <1>8, <1>3, <1>4 DEF FilterStep
  <2> QED BY <1>8, <1>1, <2>1 DEF CallRecord
<1> QED BY <1>3, <1>4, <1>6, <1>7, <1>8

\* A step keeps the shape and the arguments of the call.
LEMMA StepShape ==
    ASSUME NEW f, Shape(f), f.left # {}, NEW v \in Int
    PROVE  /\ Shape(FilterStep(f, v))
           /\ FilterStep(f, v).rrset = f.rrset /\ FilterStep(f, v).given = f.given
<1> DEFINE g == FilterStep(f, v)
<1>1. PICK i \in f.left, best \in Int :
          /\ f.loop = 1 /\ f.left # {i} =>
                g = [rrset |-> f.rrset, given |-> f.given, white |-> f.white,
                     left |-> f.left \ {i}, loop |-> 1, min |-> best]
          /\ f.loop = 1 /\ f.left = {i} =>
                g = [rrset |-> f.rrset, given |-> f.given, white |-> f.white,
                     left |-> f.white, loop |-> 2, min |-> Floor(best)]
          /\ f.loop = 2 =>
                g = [rrset |-> f.rrset, given |-> f.given,
                     white |-> IF v < f.min THEN f.white \ {i} ELSE f.white,
                     left |-> f.left \ {i}, loop |-> 2, min |-> f.min]
  BY StepCases
<1>2. /\ f.rrset \in Seq(Keys) /\ f.given \in SUBSET Nat /\ f.white \in SUBSET Nat
      /\ f.left \in SUBSET Nat /\ f.loop \in {1, 2} /\ f.min \in Int /\ Floor(best) \in Int
  BY FloorIsInt DEF Shape, CallRecord
<1> HIDE DEF g
<1>3. CASE f.loop = 1 /\ f.left # {i}
  <2>1. /\ g.rrset = f.rrset /\ g.given = f.given /\ g.white = f.white
        /\ g.left = f.left \ {i} /\ g.left # {}
    BY <1>1, <1>3
  <2>2. g \in CallRecord
    BY <1>1, <1>2, <1>3 DEF CallRecord
  <2> QED BY <1>3, <2>1, <2>2 DEF Shape, g
<1>4. CASE f.loop = 1 /\ f.left = {i}
  BY <1>1, <1>2, <1>4 DEF Shape, CallRecord, g
<1>5. CASE f.loop = 2
  BY <1>1, <1>2, <1>5 DEF Shape, CallRecord, g
<1> QED BY <1>2, <1>3, <1>4, <1>5 DEF g

\* A step with the status of the address it is at keeps what the call knows.
LEMMA StepKnown ==
    ASSUME NEW f, Shape(f), f.left # {}, NEW s \in [f.given -> Int], Known(f, s),
           NEW v \in Int, v = s[Min(f.left)]
    PROVE  Known(FilterStep(f, v), s)
<1> DEFINE g == FilterStep(f, v)
<1>1. PICK i \in f.left, best \in Int :
          /\ i = Min(f.left) /\ best = (IF f.min >= v THEN f.min ELSE v)
          /\ f.loop = 1 /\ f.left # {i} =>
                g = [rrset |-> f.rrset, given |-> f.given, white |-> f.white,
                     left |-> f.left \ {i}, loop |-> 1, min |-> best]
          /\ f.loop = 1 /\ f.left = {i} =>
                g = [rrset |-> f.rrset, given |-> f.given, white |-> f.white,
                     left |-> f.white, loop |-> 2, min |-> Floor(best)]
          /\ f.loop = 2 =>
                g = [rrset |-> f.rrset, given |-> f.given,
                     white |-> IF v < f.min THEN f.white \ {i} ELSE f.white,
                     left |-> f.left \ {i}, loop |-> 2, min |-> f.min]
  BY StepCases
<1>2. /\ f.min \in Int /\ i \in f.given /\ s[i] = v /\ f.loop \in {1, 2}
      /\ \A j \in f.given : s[j] \in Int
  BY <1>1 DEF Shape, CallRecord
<1> HIDE DEF g
<1>3. ASSUME f.loop = 1
      PROVE  BestOf(best, s, (f.given \ f.left) \union {i})
  <2>1. BestOf(f.min, s, f.given \ f.left)
    BY <1>3 DEF Known
  <2> QED BY <1>1, <1>2, <2>1, StatusAssumption DEF BestOf
<1>4. CASE f.loop = 1 /\ f.left # {i}
  <2>1. f.given \ (f.left \ {i}) = (f.given \ f.left) \union {i}
    BY <1>2
  <2>2. g.loop = 1 /\ g.min = best /\ g.given = f.given /\ g.left = f.left \ {i}
    BY <1>1, <1>4
  <2> QED BY <1>3, <1>4, <2>1, <2>2 DEF Known, g
<1>5. CASE f.loop = 1 /\ f.left = {i}
  <2>1. (f.given \ f.left) \union {i} = f.given
    BY <1>2, <1>5
  <2>2. /\ g.loop = 2 /\ g.min = Floor(best) /\ g.given = f.given
        /\ g.white = f.given /\ g.left = f.given
    BY <1>1, <1>5 DEF Shape
  <2>3. BestOf(best, s, f.given)
    BY <1>3, <1>5, <2>1
  <2> QED BY <2>2, <2>3 DEF Known, g
<1>6. CASE f.loop = 2
  <2>1. /\ g.loop = 2 /\ g.min = f.min /\ g.given = f.given /\ g.left = f.left \ {i}
        /\ g.white = IF v < f.min THEN f.white \ {i} ELSE f.white
    BY <1>1, <1>6
  <2>2. /\ f.white = {j \in f.given : j \in f.left \/ s[j] >= f.min}
        /\ \E m \in Int : BestOf(m, s, f.given) /\ f.min = Floor(m)
    BY <1>6 DEF Known
  <2>3. g.white = {j \in f.given : j \in f.left \ {i} \/ s[j] >= f.min}
    BY <1>2, <2>1, <2>2
  <2> QED BY <2>1, <2>2, <2>3 DEF Known, g
<1> QED BY <1>2, <1>4, <1>5, <1>6

\* The addresses that are best by the statuses s.
BestBy(given, s) ==
    LET up == {i \in given : s[i] >= UpCount - 1}
        alive == {i \in given : s[i] > DownCount} IN
    CASE up # {} -> {i \in up : \A j \in up : s[j] <= s[i]}
      [] up = {} /\ alive # {} -> alive
      [] OTHER -> {i \in given : s[i] = DownCount}

\* When all were asked for, the white addresses are the best ones.
LEMMA KnownIsBest ==
    ASSUME NEW f, Shape(f), f.left = {}, NEW s \in [f.given -> Int], Known(f, s)
    PROVE  f.white = BestBy(f.given, s)
<1> DEFINE up == {i \in f.given : s[i] >= UpCount - 1}
           alive == {i \in f.given : s[i] > DownCount}
<1>1. f.loop = 2
  BY DEF Shape, CallRecord
<1>2. PICK best \in Int : BestOf(best, s, f.given) /\ f.min = Floor(best)
  BY <1>1 DEF Known
<1>3. f.white = {i \in f.given : s[i] >= f.min}
  BY <1>1 DEF Known
<1>4. /\ UpCount \in Int /\ DownCount \in Int /\ DownCount < UpCount - 1
      /\ \A i \in f.given : s[i] \in Int
  BY StatusAssumption
<1>5. CASE up # {}
  <2>1. best >= UpCount - 1
    BY <1>2, <1>4, <1>5 DEF BestOf
  <2>2. f.min = best
    BY <1>2, <1>4, <2>1 DEF Floor
  <2>3. \E i \in f.given : s[i] = best
    BY <1>2, <1>4, <2>1 DEF BestOf
  <2>4. f.white = {i \in up : \A j \in up : s[j] <= s[i]}
    BY <1>2, <1>3, <1>4, <2>1, <2>2, <2>3 DEF BestOf
  <2> QED BY <1>5, <2>4 DEF BestBy
<1>6. CASE up = {} /\ alive # {}
  <2>1. best > DownCount /\ best < UpCount - 1
    BY <1>2, <1>4, <1>6 DEF BestOf
  <2>2. f.min = DownCount + 1
    BY <1>2, <1>4, <2>1 DEF Floor
  <2>3. f.white = alive
    BY <1>3, <1>4, <2>2
  <2> QED BY <1>6, <2>3 DEF BestBy
<1>7. CASE up = {} /\ alive = {}
  <2>1. best = DownCount
    BY <1>2, <1>4, <1>7 DEF BestOf
  <2>2. f.min = DownCount
    BY <1>2, <1>4, <2>1 DEF Floor
  <2>3. f.white = {i \in f.given : s[i] = DownCount}
    BY <1>3, <1>4, <1>7, <2>2
  <2> QED BY <1>7, <2>3 DEF BestBy
<1> QED BY <1>5, <1>6, <1>7

(***************************************************************************)
(* The calls and the cache together.                                       *)
(***************************************************************************)
Items == Statuses \union {None}

StatusTypeOK ==
    /\ phase \in [Subs -> Phases] /\ pending \in [Subs -> Seq(Keys)]
    /\ phase[stat] = "down" => pending[stat] = <<>>
    /\ store \in [Keys -> Items] /\ cache \in [Keys -> Items]
    /\ stage \in [Callers -> {"idle", "get", "load", "set", "done"}]
    /\ DOMAIN call = Callers
    /\ loaded \in [Callers -> Items]
    /\ overtaken \in [Callers -> BOOLEAN] /\ changed \in [Callers -> BOOLEAN]
    /\ cause \in [Keys -> SUBSET {"missed", "overtaken"}]

\* The statuses that a call is told, if they do not change.
Told(c) == [i \in call[c].given |-> Answer(call[c].rrset[i])]

CallInv(c) ==
    stage[c] # "idle" =>
        /\ Shape(call[c])
        /\ stage[c] = "done" <=> call[c].left = {}
        /\ ~changed[c] => Known(call[c], Told(c)) /\ (stage[c] = "set" => loaded[c] = Answer(KeyOf(c)))

\* What was read and not overtaken is what Redis holds.
ReadInv(c) ==
    stage[c] = "set" => loaded[c] # None /\ (~overtaken[c] => loaded[c] = store[KeyOf(c)])

\* The inductive invariant.
StatusInv ==
    /\ StatusTypeOK /\ StaleStatusHasCause
    /\ \A c \in Callers : CallInv(c) /\ ReadInv(c)

\* A status is an integer; an item that was not found has the status 0.
LEMMA AnswerIsInt ==
    ASSUME StatusInv, NEW k \in Keys
    PROVE  Answer(k) \in Int
<1>1. cache[k] \in Items /\ store[k] \in Items
  BY DEF StatusInv, StatusTypeOK
<1>2. \A x \in Items : x # None => x \in Int
  BY StatusAssumption DEF Items
<1> QED BY <1>1, <1>2 DEF Answer

\* A call that is not done is at an address of its record.
LEMMA AtAnAddress ==
    ASSUME StatusInv, NEW c \in Callers, stage[c] \in {"get", "load", "set"}
    PROVE  /\ Shape(call[c]) /\ call[c].left # {} /\ KeyOf(c) \in Keys
           /\ Min(call[c].left) \in call[c].given
           /\ KeyOf(c) = call[c].rrset[Min(call[c].left)]
           /\ Told(c) \in [call[c].given -> Int]
           /\ Told(c)[Min(call[c].left)] = Answer(KeyOf(c))
<1>1. Shape(call[c]) /\ call[c].left # {}
  BY DEF StatusInv, CallInv
<1>2. /\ call[c].rrset \in Seq(Keys) /\ call[c].left \in SUBSET Nat
      /\ call[c].given \subseteq DOMAIN call[c].rrset /\ call[c].left \subseteq call[c].given
  BY <1>1 DEF Shape, CallRecord
<1>3. Min(call[c].left) \in call[c].left
  BY <1>1, <1>2, MinIsLeast
<1>4. \A i \in call[c].given : call[c].rrset[i] \in Keys
  BY <1>2
<1>5. Told(c) \in [call[c].given -> Int]
  BY <1>4, AnswerIsInt DEF Told
<1> QED BY <1>1, <1>2, <1>3, <1>4, <1>5 DEF KeyOf, Told

\* The invariant holds before the first call.
LEMMA StatusInvInit == StatusInit => StatusInv
<1> SUFFICES ASSUME StatusInit PROVE StatusInv
  OBVIOUS
<1>1. StatusTypeOK
  <2>1. store \in [Keys -> Items]
    BY StatusAssumption DEF StatusInit, Items
  <2> QED BY <2>1, StatusAssumption DEF StatusInit, ChannelInit, StatusTypeOK, Items, Phases
<1>2. \A k \in Keys : cache[k] = None
  BY DEF StatusInit
<1>3. \A c \in Callers : stage[c] = "idle"
  BY DEF StatusInit
<1> QED BY <1>1, <1>2, <1>3 DEF StatusInv, StaleStatusHasCause, CallInv, ReadInv

\* A call that a step leaves alone keeps what it knows, unless an answer for one
\* of its addresses has changed.
LEMMA CallKept ==
    ASSUME StatusInv, NEW c \in Callers,
           stage'[c] = stage[c], call'[c] = call[c], loaded'[c] = loaded[c],
           stage[c] # "idle" /\ ~changed'[c] =>
               /\ ~changed[c]
               /\ \A i \in DOMAIN call[c].rrset : Answer(call[c].rrset[i])' = Answer(call[c].rrset[i])
    PROVE  CallInv(c)'
<1> SUFFICES ASSUME stage'[c] # "idle" PROVE CallInv(c)'
  BY DEF CallInv
<1>1. Shape(call[c]) /\ (stage[c] = "done" <=> call[c].left = {})
  BY DEF StatusInv, CallInv
<1>2. Shape(call[c])' /\ (stage'[c] = "done" <=> call'[c].left = {})
  BY <1>1 DEF Shape
<1>3. ASSUME ~changed'[c]
      PROVE  Known(call[c], Told(c))' /\ (stage'[c] = "set" => loaded'[c] = Answer(KeyOf(c))')
  <2>1. /\ ~changed[c]
        /\ \A i \in DOMAIN call[c].rrset : Answer(call[c].rrset[i])' = Answer(call[c].rrset[i])
    BY <1>3
  <2>2. PICK s : s = Told(c)
    OBVIOUS
  <2>3. Told(c)' = s
    BY <1>1, <2>1, <2>2 DEF Told, Shape
  <2>4. Known(call[c], s) /\ (stage[c] = "set" => loaded[c] = Answer(KeyOf(c)))
    BY <2>1, <2>2 DEF StatusInv, CallInv
  <2>5. Known(call[c], Told(c))'
    BY <2>3, <2>4 DEF Known
  <2>6. stage[c] = "set" => Answer(KeyOf(c))' = Answer(KeyOf(c))
    <3> HAVE stage[c] = "set"
    <3>1. Min(call[c].left) \in DOMAIN call[c].rrset
      BY AtAnAddress DEF Shape
    <3> QED BY <2>1, <3>1 DEF KeyOf
  <2> QED BY <2>4, <2>5, <2>6
<1> QED BY <1>2, <1>3 DEF CallInv

\* A call that is told a status goes on with it, or is done.
LEMMA StatusKept ==
    ASSUME StatusInv, NEW c \in Callers, stage[c] \in {"get", "load", "set"}, NEW v \in Int, Status(c, v),
           ~changed'[c] =>
               /\ ~changed[c] /\ v = Answer(KeyOf(c))
               /\ \A i \in DOMAIN call[c].rrset : Answer(call[c].rrset[i])' = Answer(call[c].rrset[i])
    PROVE  /\ CallInv(c)' /\ stage'[c] \in {"get", "done"} /\ DOMAIN call' = Callers
           /\ stage' \in [Callers -> {"idle", "get", "load", "set", "done"}]
           /\ \A d \in Callers \ {c} : stage'[d] = stage[d] /\ call'[d] = call[d]
<1>1. PICK f, g : f = call[c] /\ g = FilterStep(f, v)
  OBVIOUS
<1>2. DOMAIN call = Callers /\ stage \in [Callers -> {"idle", "get", "load", "set", "done"}]
  BY DEF StatusInv, StatusTypeOK
<1>3. call' = [call EXCEPT ![c] = g] /\ call'[c] = g
  BY <1>1, <1>2 DEF Status
<1>4. stage' = [stage EXCEPT ![c] = IF g.left = {} THEN "done" ELSE "get"]
  BY <1>3 DEF Status
<1>5. Shape(g) /\ g.rrset = f.rrset /\ g.given = f.given
  BY <1>1, AtAnAddress, StepShape
<1>6. stage'[c] = (IF g.left = {} THEN "done" ELSE "get")
  BY <1>2, <1>4
<1>7. ASSUME ~changed'[c] PROVE Known(call[c], Told(c))'
  <2>1. PICK s : s = Told(c)
    OBVIOUS
  <2>2. s \in [f.given -> Int] /\ v = s[Min(f.left)] /\ Shape(f) /\ f.left # {}
    BY <1>1, <1>7, <2>1, AtAnAddress
  <2>3. Known(f, s)
    BY <1>1, <1>7, <2>1 DEF StatusInv, CallInv
  <2>4. Known(g, s)
    BY <1>1, <2>2, <2>3, StepKnown
  <2>5. Told(c)' = s
    <3>1. \A i \in f.given : Answer(call[c].rrset[i])' = Answer(call[c].rrset[i])
      BY <1>1, <1>7, <2>2 DEF Shape
    <3>2. Told(c)' = [i \in f.given |-> Answer(call[c].rrset[i])']
      BY <1>3, <1>5 DEF Told
    <3>3. s = [i \in f.given |-> Answer(call[c].rrset[i])]
      BY <1>1, <2>1 DEF Told
    <3> QED BY <3>1, <3>2, <3>3
  <2> QED BY <1>3, <2>4, <2>5
<1>8. CallInv(c)'
  BY <1>3, <1>5, <1>6, <1>7 DEF CallInv
<1> QED BY <1>2, <1>3, <1>4, <1>6, <1>8

\* A step that is watched marks every call whose answers it changes.
LEMMA Watched ==
    ASSUME StatusInv, Watch
    PROVE  /\ changed' \in [Callers -> BOOLEAN]
           /\ \A c \in Callers : stage[c] # "idle" /\ stage'[c] # "idle" /\ ~changed'[c] =>
                 /\ ~changed[c]
                 /\ \A i \in DOMAIN call[c].rrset :
                       Answer(call[c].rrset[i])' = Answer(call[c].rrset[i])
<1>1. changed' \in [Callers -> BOOLEAN]
  BY DEF Watch
<1>2. \A c \in Callers : changed'[c] <=>
            /\ stage'[c] # "idle"
            /\ changed[c] \/ (stage[c] # "idle" /\ \E i \in DOMAIN call[c].rrset :
                                 Answer(call[c].rrset[i]) # Answer(call[c].rrset[i])')
  BY DEF Watch
<1> QED BY <1>1, <1>2

\* A call begins.
LEMMA FilterPreserves ==
    ASSUME StatusInv, NEW c \in Callers, NEW f \in Calls, FilterHealthcheck(c, f)
    PROVE  StatusInv'
<1>1. PICK g : g = [rrset |-> f.rrset, given |-> f.white, white |-> f.white,
                    left |-> f.white, loop |-> 1, min |-> DownCount]
  OBVIOUS
<1>2. /\ stage[c] = "idle" /\ call' = [call EXCEPT ![c] = g] /\ stage' = [stage EXCEPT ![c] = "get"]
      /\ UNCHANGED <<phase, pending, store, cache, loaded, overtaken, changed, cause>>
  BY <1>1 DEF FilterHealthcheck, channelVars
<1>3. StatusTypeOK' /\ StaleStatusHasCause'
  BY <1>2 DEF StatusInv, StatusTypeOK, StaleStatusHasCause
<1>4. \A d \in Callers \ {c} : CallInv(d)' /\ ReadInv(d)'
  <2> SUFFICES ASSUME NEW d \in Callers \ {c} PROVE CallInv(d)' /\ ReadInv(d)'
    OBVIOUS
  <2>1. stage'[d] = stage[d] /\ call'[d] = call[d]
    BY <1>2 DEF StatusInv, StatusTypeOK
  <2>2. \A i \in DOMAIN call[d].rrset : Answer(call[d].rrset[i])' = Answer(call[d].rrset[i])
    BY <1>2, <2>1 DEF Answer
  <2>3. CallInv(d)'
    BY <1>2, <2>1, <2>2, CallKept
  <2>4. ReadInv(d)'
    BY <1>2, <2>1 DEF StatusInv, ReadInv, KeyOf
  <2> QED BY <2>3, <2>4
<1>5. /\ f.rrset \in Seq(Keys) /\ f.white \in SUBSET DOMAIN f.rrset /\ f.white # {}
      /\ DownCount \in Int
  BY StatusAssumption
<1>6. call'[c] = g /\ stage'[c] = "get"
  BY <1>2 DEF StatusInv, StatusTypeOK
<1>7. Shape(g)
  <2>1. f.white \in SUBSET Nat
    BY <1>5
  <2> QED BY <1>1, <1>5, <2>1 DEF Shape, CallRecord
<1>8. Known(call[c], Told(c))'
  <2>1. g.loop = 1 /\ g.min = DownCount /\ g.given \ g.left = {} /\ DownCount >= DownCount
    BY <1>1, <1>5
  <2> QED BY <1>6, <2>1 DEF Known, BestOf
<1>9. CallInv(c)' /\ ReadInv(c)'
  BY <1>1, <1>5, <1>6, <1>7, <1>8 DEF CallInv, ReadInv
<1> QED BY <1>3, <1>4, <1>9 DEF StatusInv

\* A call returns.
LEMMA ReturnPreserves ==
    ASSUME StatusInv, NEW c \in Callers, FilterReturns(c)
    PROVE  StatusInv'
<1>1. /\ call' = [call EXCEPT ![c] = NoCall] /\ stage' = [stage EXCEPT ![c] = "idle"]
      /\ changed' = [changed EXCEPT ![c] = FALSE]
      /\ UNCHANGED <<phase, pending, store, cache, loaded, overtaken, cause>>
  BY DEF FilterReturns, channelVars
<1>2. StatusTypeOK' /\ StaleStatusHasCause'
  BY <1>1 DEF StatusInv, StatusTypeOK, StaleStatusHasCause
<1>3. \A d \in Callers \ {c} : CallInv(d)' /\ ReadInv(d)'
  <2> SUFFICES ASSUME NEW d \in Callers \ {c} PROVE CallInv(d)' /\ ReadInv(d)'
    OBVIOUS
  <2>1. stage'[d] = stage[d] /\ call'[d] = call[d] /\ changed'[d] = changed[d]
    BY <1>1 DEF StatusInv, StatusTypeOK
  <2>2. \A i \in DOMAIN call[d].rrset : Answer(call[d].rrset[i])' = Answer(call[d].rrset[i])
    BY <1>1, <2>1 DEF Answer
  <2>3. CallInv(d)'
    BY <1>1, <2>1, <2>2, CallKept
  <2>4. ReadInv(d)'
    BY <1>1, <2>1 DEF StatusInv, ReadInv, KeyOf
  <2> QED BY <2>3, <2>4
<1>4. stage'[c] = "idle"
  BY <1>1 DEF StatusInv, StatusTypeOK
<1> QED BY <1>2, <1>3, <1>4 DEF StatusInv, CallInv, ReadInv

\* The step of one call that changes neither Redis nor the cache.
LEMMA OneCall ==
    ASSUME StatusInv, NEW c \in Callers,
           UNCHANGED <<phase, pending, store, cache, cause>>,
           stage' \in [Callers -> {"idle", "get", "load", "set", "done"}], DOMAIN call' = Callers,
           loaded' \in [Callers -> Items], overtaken' \in [Callers -> BOOLEAN],
           changed' \in [Callers -> BOOLEAN],
           \A d \in Callers \ {c} :
              /\ stage'[d] = stage[d] /\ call'[d] = call[d] /\ loaded'[d] = loaded[d]
              /\ overtaken'[d] = overtaken[d] /\ changed'[d] = changed[d],
           CallInv(c)', ReadInv(c)'
    PROVE  StatusInv'
<1>1. StatusTypeOK' /\ StaleStatusHasCause'
  BY DEF StatusInv, StatusTypeOK, StaleStatusHasCause
<1>2. \A d \in Callers \ {c} : CallInv(d)' /\ ReadInv(d)'
  <2> SUFFICES ASSUME NEW d \in Callers \ {c} PROVE CallInv(d)' /\ ReadInv(d)'
    OBVIOUS
  <2>1. \A i \in DOMAIN call[d].rrset : Answer(call[d].rrset[i])' = Answer(call[d].rrset[i])
    BY DEF Answer
  <2>2. CallInv(d)'
    BY <2>1, CallKept
  <2>3. ReadInv(d)'
    BY DEF StatusInv, ReadInv, KeyOf
  <2> QED BY <2>2, <2>3
<1> QED BY <1>1, <1>2 DEF StatusInv

\* The cache is asked.
LEMMA CacheGetPreserves ==
    ASSUME StatusInv, NEW c \in Callers, CacheGet(c)
    PROVE  StatusInv'
<1>1. stage[c] = "get" /\ UNCHANGED <<phase, pending, store, cache, loaded, overtaken, changed, cause>>
  BY DEF CacheGet, channelVars
<1>2. KeyOf(c) \in Keys
  BY <1>1, AtAnAddress
<1>3. CASE cache[KeyOf(c)] # None /\ Status(c, cache[KeyOf(c)])
  <2>1. PICK v : v = cache[KeyOf(c)]
    OBVIOUS
  <2>2. v = Answer(KeyOf(c)) /\ v \in Int
    <3>1. v = Answer(KeyOf(c))
      BY <1>3, <2>1 DEF Answer
    <3> QED BY <1>2, <3>1, AnswerIsInt
  <2>3. Status(c, v)
    BY <1>3, <2>1
  <2>4. /\ stage' = [stage EXCEPT ![c] = IF call'[c].left = {} THEN "done" ELSE "get"]
        /\ call' = [call EXCEPT ![c] = FilterStep(@, v)] /\ call[c].left # {} /\ Shape(call[c])
    BY <1>1, <2>3, AtAnAddress DEF Status
  <2>5. \A i \in DOMAIN call[c].rrset : Answer(call[c].rrset[i])' = Answer(call[c].rrset[i])
    <3>1. call'[c].rrset = call[c].rrset
      BY <2>2, <2>4, StepShape DEF StatusInv, StatusTypeOK
    <3> QED BY <1>1, <3>1 DEF Answer
  <2>6. /\ CallInv(c)' /\ stage'[c] \in {"get", "done"} /\ DOMAIN call' = Callers
        /\ stage' \in [Callers -> {"idle", "get", "load", "set", "done"}]
        /\ \A d \in Callers \ {c} : stage'[d] = stage[d] /\ call'[d] = call[d]
    BY <1>1, <2>2, <2>3, <2>5, StatusKept
  <2>7. ReadInv(c)'
    BY <2>6 DEF ReadInv
  <2> QED BY <1>1, <2>6, <2>7, OneCall DEF StatusInv, StatusTypeOK
<1>4. CASE stage' = [stage EXCEPT ![c] = "load"] /\ call' = call
  <2>1. /\ stage' \in [Callers -> {"idle", "get", "load", "set", "done"}] /\ DOMAIN call' = Callers
        /\ stage'[c] = "load" /\ \A d \in Callers \ {c} : stage'[d] = stage[d]
    BY <1>4 DEF StatusInv, StatusTypeOK
  <2>2. \A i \in DOMAIN call[c].rrset : Answer(call[c].rrset[i])' = Answer(call[c].rrset[i])
    BY <1>1, <1>4 DEF Answer
  <2>3. CallInv(c)'
    <3>1. Told(c)' = Told(c)
      BY <1>1, <1>4 DEF Told, Answer
    <3>2. Shape(call[c]) /\ call[c].left # {} /\ (~changed[c] => Known(call[c], Told(c)))
      BY <1>1 DEF StatusInv, CallInv
    <3> QED BY <1>1, <1>4, <2>1, <3>1, <3>2 DEF CallInv
  <2>4. ReadInv(c)'
    BY <2>1 DEF ReadInv
  <2> QED BY <1>1, <1>4, <2>1, <2>3, <2>4, OneCall DEF StatusInv, StatusTypeOK
<1> QED BY <1>3, <1>4 DEF CacheGet

\* Redis is asked.
LEMMA LoadItemPreserves ==
    ASSUME StatusInv, NEW c \in Callers, LoadItem(c)
    PROVE  StatusInv'
<1>1. stage[c] = "load" /\ UNCHANGED <<phase, pending, store, cache, cause>>
  BY DEF LoadItem, channelVars
<1>2. KeyOf(c) \in Keys /\ Shape(call[c]) /\ call[c].left # {}
  BY <1>1, AtAnAddress
<1>3. ASSUME NEW v, Disturbed(c, v)
      PROVE  /\ changed' \in [Callers -> BOOLEAN]
             /\ \A d \in Callers \ {c} : changed'[d] = changed[d]
             /\ ~changed'[c] => ~changed[c] /\ v = Answer(KeyOf(c))
  <2>1. PICK b \in BOOLEAN : b = (changed[c] \/ v # Answer(KeyOf(c)))
    BY DEF StatusInv, StatusTypeOK
  <2>2. changed' = [changed EXCEPT ![c] = b]
    BY <1>3, <2>1 DEF Disturbed
  <2> QED BY <2>1, <2>2 DEF StatusInv, StatusTypeOK
<1>4. CASE /\ store[KeyOf(c)] # None
           /\ loaded' = [loaded EXCEPT ![c] = store[KeyOf(c)]]
           /\ overtaken' = [overtaken EXCEPT ![c] = FALSE]
           /\ stage' = [stage EXCEPT ![c] = "set"]
           /\ Disturbed(c, store[KeyOf(c)])
           /\ call' = call
  <2>1. PICK v \in Items : v = store[KeyOf(c)]
    BY <1>2 DEF StatusInv, StatusTypeOK
  <2>2. /\ stage' \in [Callers -> {"idle", "get", "load", "set", "done"}] /\ DOMAIN call' = Callers
        /\ loaded' \in [Callers -> Items] /\ overtaken' \in [Callers -> BOOLEAN]
        /\ stage'[c] = "set" /\ loaded'[c] = v
        /\ \A d \in Callers \ {c} :
              stage'[d] = stage[d] /\ loaded'[d] = loaded[d] /\ overtaken'[d] = overtaken[d]
    BY <1>4, <2>1 DEF StatusInv, StatusTypeOK
  <2>3. /\ changed' \in [Callers -> BOOLEAN]
        /\ \A d \in Callers \ {c} : changed'[d] = changed[d]
        /\ ~changed'[c] => ~changed[c] /\ v = Answer(KeyOf(c))
    BY <1>3, <1>4, <2>1
  <2>4. KeyOf(c)' = KeyOf(c) /\ Told(c)' = Told(c) /\ Answer(KeyOf(c))' = Answer(KeyOf(c))
    BY <1>1, <1>4 DEF KeyOf, Told, Answer
  <2>5. CallInv(c)'
    <3>1. ~changed[c] => Known(call[c], Told(c))
      BY <1>1 DEF StatusInv, CallInv
    <3> QED BY <1>2, <1>4, <2>2, <2>3, <2>4, <3>1 DEF CallInv
  <2>6. ReadInv(c)'
    BY <1>1, <1>4, <2>1, <2>2, <2>4 DEF ReadInv
  <2> QED BY <1>1, <1>4, <2>2, <2>3, <2>5, <2>6, OneCall
<1>5. CASE Status(c, 0) /\ Disturbed(c, 0) /\ UNCHANGED <<loaded, overtaken>>
  <2>1. /\ changed' \in [Callers -> BOOLEAN]
        /\ \A d \in Callers \ {c} : changed'[d] = changed[d]
        /\ ~changed'[c] => ~changed[c] /\ 0 = Answer(KeyOf(c))
    BY <1>3, <1>5
  <2>2. \A i \in DOMAIN call[c].rrset : Answer(call[c].rrset[i])' = Answer(call[c].rrset[i])
    <3>1. call'[c].rrset = call[c].rrset
      <4>1. call'[c] = FilterStep(call[c], 0)
        BY <1>5 DEF Status, StatusInv, StatusTypeOK
      <4> QED BY <1>2, <4>1, StepShape
    <3> QED BY <1>1, <3>1 DEF Answer
  <2>3. /\ CallInv(c)' /\ stage'[c] \in {"get", "done"} /\ DOMAIN call' = Callers
        /\ stage' \in [Callers -> {"idle", "get", "load", "set", "done"}]
        /\ \A d \in Callers \ {c} : stage'[d] = stage[d] /\ call'[d] = call[d]
    BY <1>1, <1>5, <2>1, <2>2, StatusKept
  <2>4. ReadInv(c)'
    BY <2>3 DEF ReadInv
  <2> QED BY <1>1, <1>5, <2>1, <2>3, <2>4, OneCall DEF StatusInv, StatusTypeOK
<1> QED BY <1>4, <1>5 DEF LoadItem


\* The step that leaves the calls where they are.
LEMMA NoCallMoves ==
    ASSUME StatusInv, UNCHANGED callVars, StatusTypeOK', StaleStatusHasCause',
           \A c \in Callers : stage[c] # "idle" /\ ~changed'[c] =>
               /\ ~changed[c]
               /\ \A i \in DOMAIN call[c].rrset : Answer(call[c].rrset[i])' = Answer(call[c].rrset[i]),
           \A c \in Callers : stage[c] = "set" /\ ~overtaken'[c] =>
               ~overtaken[c] /\ store'[KeyOf(c)] = store[KeyOf(c)]
    PROVE  StatusInv'
<1> SUFFICES ASSUME NEW c \in Callers PROVE CallInv(c)' /\ ReadInv(c)'
  BY DEF StatusInv
<1>1. stage' = stage /\ call' = call /\ loaded' = loaded
  BY DEF callVars
<1>2. CallInv(c)'
  BY <1>1, CallKept
<1>3. KeyOf(c)' = KeyOf(c)
  BY <1>1 DEF KeyOf
<1>4. ReadInv(c)'
  BY <1>1, <1>3 DEF StatusInv, ReadInv
<1> QED BY <1>2, <1>4

\* What was read from Redis goes to the cache, or is dropped.
LEMMA CacheSetPreserves ==
    ASSUME StatusInv, NEW c \in Callers, CacheSet(c)
    PROVE  StatusInv'
<1>1. /\ stage[c] = "set" /\ Status(c, loaded[c]) /\ Watch
      /\ loaded' = [loaded EXCEPT ![c] = None] /\ overtaken' = [overtaken EXCEPT ![c] = FALSE]
      /\ UNCHANGED <<phase, pending, store>>
  BY DEF CacheSet, channelVars
<1>2. KeyOf(c) \in Keys /\ Shape(call[c]) /\ call[c].left # {}
  BY <1>1, AtAnAddress
<1>3. PICK k \in Keys, v \in Items : k = KeyOf(c) /\ v = loaded[c]
  BY <1>2 DEF StatusInv, StatusTypeOK
<1>4. v \in Int /\ v # None /\ (~overtaken[c] => v = store[k])
  <2>1. v # None /\ (~overtaken[c] => v = store[k])
    BY <1>1, <1>3 DEF StatusInv, ReadInv
  <2> QED BY <2>1, StatusAssumption DEF Items
<1>5. \/ /\ cache' = [cache EXCEPT ![k] = v]
         /\ cause' = [cause EXCEPT ![k] = IF overtaken[c] THEN {"overtaken"} ELSE {}]
      \/ cache' = cache /\ cause' = cause
  BY <1>3 DEF CacheSet
<1>6. /\ cache' \in [Keys -> Items] /\ cause' \in [Keys -> SUBSET {"missed", "overtaken"}]
      /\ loaded' \in [Callers -> Items] /\ overtaken' \in [Callers -> BOOLEAN]
      /\ \A d \in Callers \ {c} : loaded'[d] = loaded[d] /\ overtaken'[d] = overtaken[d]
  <2>1. PICK w : w = (IF overtaken[c] THEN {"overtaken"} ELSE {})
    OBVIOUS
  <2>2. w \in SUBSET {"missed", "overtaken"}
    BY <2>1
  <2>3. cache' \in [Keys -> Items] /\ cause' \in [Keys -> SUBSET {"missed", "overtaken"}]
    <3>1. cache \in [Keys -> Items] /\ cause \in [Keys -> SUBSET {"missed", "overtaken"}]
      BY DEF StatusInv, StatusTypeOK
    <3>2. \/ cache' = [cache EXCEPT ![k] = v] /\ cause' = [cause EXCEPT ![k] = w]
          \/ cache' = cache /\ cause' = cause
      BY <1>5, <2>1
    <3> QED BY <2>2, <3>1, <3>2
  <2>4. /\ loaded' \in [Callers -> Items]
        /\ \A d \in Callers \ {c} : loaded'[d] = loaded[d]
    BY <1>1 DEF StatusInv, StatusTypeOK, Items
  <2>5. /\ overtaken' \in [Callers -> BOOLEAN]
        /\ \A d \in Callers \ {c} : overtaken'[d] = overtaken[d]
    BY <1>1 DEF StatusInv, StatusTypeOK
  <2> QED BY <2>3, <2>4, <2>5
<1>7. /\ changed' \in [Callers -> BOOLEAN]
      /\ \A d \in Callers : stage[d] # "idle" /\ stage'[d] # "idle" /\ ~changed'[d] =>
            /\ ~changed[d]
            /\ \A i \in DOMAIN call[d].rrset :
                  Answer(call[d].rrset[i])' = Answer(call[d].rrset[i])
  BY <1>1, Watched
<1>8. Status(c, v)
  BY <1>1, <1>3
<1>9. stage'[c] # "idle"
  BY <1>8 DEF Status, StatusInv, StatusTypeOK
<1>10. ~changed'[c] => v = Answer(KeyOf(c))
  BY <1>1, <1>3, <1>7, <1>9 DEF StatusInv, CallInv
<1>11. /\ CallInv(c)' /\ stage'[c] \in {"get", "done"} /\ DOMAIN call' = Callers
       /\ stage' \in [Callers -> {"idle", "get", "load", "set", "done"}]
       /\ \A d \in Callers \ {c} : stage'[d] = stage[d] /\ call'[d] = call[d]
  BY <1>1, <1>4, <1>7, <1>8, <1>9, <1>10, StatusKept
<1>12. StatusTypeOK'
  BY <1>1, <1>6, <1>7, <1>11 DEF StatusInv, StatusTypeOK
<1>13. StaleStatusHasCause'
  <2> SUFFICES ASSUME NEW j \in Keys, cache'[j] # None, cause'[j] = {}, Plain(j),
                      \A i \in DOMAIN pending[stat] : pending[stat][i] # j
               PROVE  cache'[j] = store[j]
    BY <1>1 DEF StaleStatusHasCause
  <2>1. CASE cache'[j] = cache[j] /\ cause'[j] = cause[j]
    BY <2>1 DEF StatusInv, StaleStatusHasCause
  <2>2. CASE j = k /\ cache'[j] = v /\ cause'[j] = (IF overtaken[c] THEN {"overtaken"} ELSE {})
    BY <1>4, <2>2
  <2>3. DOMAIN cache = Keys /\ DOMAIN cause = Keys
    BY DEF StatusInv, StatusTypeOK
  <2> QED BY <1>5, <2>1, <2>2, <2>3
<1>14. \A d \in Callers \ {c} : CallInv(d)' /\ ReadInv(d)'
  <2> SUFFICES ASSUME NEW d \in Callers \ {c} PROVE CallInv(d)' /\ ReadInv(d)'
    OBVIOUS
  <2>1. CallInv(d)'
    BY <1>6, <1>7, <1>11, CallKept
  <2>2. ReadInv(d)'
    <3>1. KeyOf(d)' = KeyOf(d)
      BY <1>11 DEF KeyOf
    <3> QED BY <1>1, <1>6, <1>11, <3>1 DEF StatusInv, ReadInv
  <2> QED BY <2>1, <2>2
<1>15. ReadInv(c)'
  BY <1>11 DEF ReadInv
<1> QED BY <1>11, <1>12, <1>13, <1>14, <1>15 DEF StatusInv

\* A notification is handled.
LEMMA InvalidatePreserves == ASSUME StatusInv, Invalidate PROVE StatusInv'
<1>1. /\ phase[stat] # "down" /\ pending[stat] # <<>>
      /\ pending' = [pending EXCEPT ![stat] = Tail(@)] /\ phase' = phase
      /\ UNCHANGED callVars
      /\ UNCHANGED <<store, overtaken, cause>> /\ Watch
  BY DEF Invalidate, OnMessage
<1>2. PICK h : h = Head(pending[stat])
  OBVIOUS
<1>3. /\ stat \in Subs /\ pending[stat] \in Seq(Keys) /\ h \in Keys
      /\ pending'[stat] = Tail(pending[stat])
  BY <1>1, <1>2, StatusAssumption DEF StatusInv, StatusTypeOK
<1>4. cache' = [k \in Keys |-> IF k = TrimLeft(h) THEN None ELSE cache[k]]
  BY <1>2 DEF Invalidate
<1>5. changed' \in [Callers -> BOOLEAN]
  BY <1>1, Watched
<1>6. StatusTypeOK'
  <2>1. cache' \in [Keys -> Items]
    BY <1>4 DEF StatusInv, StatusTypeOK, Items
  <2>2. pending' \in [Subs -> Seq(Keys)]
    BY <1>1, <1>3 DEF StatusInv, StatusTypeOK
  <2> QED BY <1>1, <1>5, <2>1, <2>2 DEF StatusInv, StatusTypeOK, callVars
<1>7. StaleStatusHasCause'
  <2> SUFFICES ASSUME NEW k \in Keys, cache'[k] # None, cause[k] = {}, Plain(k),
                      \A i \in DOMAIN pending'[stat] : pending'[stat][i] # k
               PROVE  cache'[k] = store[k]
    BY <1>1 DEF StaleStatusHasCause
  <2>1. cache'[k] = cache[k] /\ k # TrimLeft(h)
    BY <1>4
  <2>2. h # k
    <3>1. TrimLeft(k) = k
      BY PlainIsKept, StatusAssumption
    <3> QED BY <2>1, <3>1
  <2>3. \A i \in DOMAIN pending[stat] : pending[stat][i] # k
    <3> SUFFICES ASSUME NEW i \in DOMAIN pending[stat], pending[stat][i] = k PROVE FALSE
      OBVIOUS
    <3>1. CASE i = 1
      BY <1>2, <1>3, <2>2, <3>1
    <3>2. CASE i # 1
      <4>1. i - 1 \in DOMAIN pending'[stat] /\ pending'[stat][i - 1] = k
        BY <1>1, <1>3, <3>2
      <4> QED BY <4>1
    <3> QED BY <3>1, <3>2
  <2> QED BY <2>1, <2>3 DEF StatusInv, StaleStatusHasCause
<1>8. \A c \in Callers : stage[c] # "idle" /\ ~changed'[c] =>
          /\ ~changed[c]
          /\ \A i \in DOMAIN call[c].rrset : Answer(call[c].rrset[i])' = Answer(call[c].rrset[i])
  BY <1>1, Watched DEF callVars
<1> QED BY <1>1, <1>6, <1>7, <1>8, NoCallMoves

\* The cache drops an item.
LEMMA EvictPreserves == ASSUME StatusInv, NEW k \in Keys, Evict(k) PROVE StatusInv'
<1>1. /\ cache' = [cache EXCEPT ![k] = None] /\ UNCHANGED callVars
      /\ UNCHANGED <<phase, pending, store, overtaken, cause>> /\ Watch
  BY DEF Evict, channelVars
<1>2. changed' \in [Callers -> BOOLEAN]
  BY <1>1, Watched
<1>3. StatusTypeOK'
  BY <1>1, <1>2 DEF StatusInv, StatusTypeOK, callVars, Items
<1>4. StaleStatusHasCause'
  <2>1. \A j \in Keys : cache'[j] # None => cache'[j] = cache[j]
    BY <1>1 DEF StatusInv, StatusTypeOK
  <2> QED BY <1>1, <2>1 DEF StatusInv, StaleStatusHasCause
<1>5. \A c \in Callers : stage[c] # "idle" /\ ~changed'[c] =>
          /\ ~changed[c]
          /\ \A i \in DOMAIN call[c].rrset : Answer(call[c].rrset[i])' = Answer(call[c].rrset[i])
  BY <1>1, Watched DEF callVars
<1> QED BY <1>1, <1>3, <1>4, <1>5, NoCallMoves

\* The step that changes neither Redis, nor the cache, nor a call.
LEMMA ChannelOnly ==
    ASSUME StatusInv, UNCHANGED callVars, UNCHANGED <<store, cache, overtaken, changed>>,
           StatusTypeOK', StaleStatusHasCause'
    PROVE  StatusInv'
<1>1. \A c \in Callers : \A i \in DOMAIN call[c].rrset :
          Answer(call[c].rrset[i])' = Answer(call[c].rrset[i])
  BY DEF Answer, callVars
<1> QED BY <1>1, NoCallMoves

\* A connection of the subscription is made or ends; nothing is pending then.
LEMMA ConnectionPreserves == ASSUME StatusInv, ConnectionStep PROVE StatusInv'
<1>1. UNCHANGED callVars /\ UNCHANGED <<store, cache, overtaken, changed, cause>>
  BY DEF ConnectionStep
<1>2. /\ stat \in Subs /\ pending \in [Subs -> Seq(Keys)] /\ phase \in [Subs -> Phases]
      /\ phase[stat] = "down" => pending[stat] = <<>>
  BY StatusAssumption DEF StatusInv, StatusTypeOK
<1>3. pending' = pending /\ phase' \in [Subs -> Phases] /\ (phase'[stat] = "down" => pending[stat] = <<>>)
  <2>1. CASE Connect(stat)
    BY <1>2, <2>1 DEF Connect, Phases
  <2>2. CASE Register(stat)
    BY <1>2, <2>2 DEF Register, Phases
  <2>3. CASE Close(stat)
    BY <1>2, <2>3 DEF Close, Phases
  <2>4. CASE OnStart(stat)
    BY <1>2, <2>4 DEF OnStart
  <2> QED BY <2>1, <2>2, <2>3, <2>4 DEF ConnectionStep
<1>4. StatusTypeOK' /\ StaleStatusHasCause'
  BY <1>1, <1>3 DEF StatusInv, StatusTypeOK, StaleStatusHasCause, callVars
<1> QED BY <1>1, <1>4, ChannelOnly

\* The connection is lost, and with it notifications.
LEMMA LosePreserves == ASSUME StatusInv, LoseConnection PROVE StatusInv'
<1>1. /\ UNCHANGED callVars /\ UNCHANGED <<store, cache, overtaken, changed>>
      /\ cause' = [k \in Keys |->
                     IF \E i \in DOMAIN pending[stat] :
                          i > Len(pending'[stat]) /\ pending[stat][i] = k
                     THEN cause[k] \union {"missed"} ELSE cause[k]]
      /\ phase' = [phase EXCEPT ![stat] = "closing"]
  BY DEF LoseConnection, Lose
<1>2. PICK n \in 0..Len(pending[stat]) : pending' = [pending EXCEPT ![stat] = SubSeq(@, 1, n)]
  BY DEF LoseConnection, Lose
<1>3. /\ stat \in Subs /\ pending[stat] \in Seq(Keys)
  BY StatusAssumption DEF StatusInv, StatusTypeOK
<1>4. /\ pending'[stat] = SubSeq(pending[stat], 1, n) /\ pending'[stat] \in Seq(Keys)
      /\ Len(pending'[stat]) = n
      /\ \A i \in DOMAIN pending'[stat] : pending'[stat][i] = pending[stat][i]
  <2>1. pending'[stat] = SubSeq(pending[stat], 1, n)
    BY <1>2, <1>3 DEF StatusInv, StatusTypeOK
  <2> QED BY <1>3, <2>1
<1>5. StatusTypeOK'
  <2>1. cause' \in [Keys -> SUBSET {"missed", "overtaken"}]
    BY <1>1 DEF StatusInv, StatusTypeOK
  <2>2. pending' \in [Subs -> Seq(Keys)]
    BY <1>2, <1>3, <1>4 DEF StatusInv, StatusTypeOK
  <2>3. phase' \in [Subs -> Phases] /\ phase'[stat] # "down"
    BY <1>1, <1>3 DEF StatusInv, StatusTypeOK, Phases
  <2> QED BY <1>1, <2>1, <2>2, <2>3 DEF StatusInv, StatusTypeOK, callVars
<1>6. StaleStatusHasCause'
  <2> SUFFICES ASSUME NEW k \in Keys, cache[k] # None, cause'[k] = {}, Plain(k),
                      \A i \in DOMAIN pending'[stat] : pending'[stat][i] # k
               PROVE  cache[k] = store[k]
    BY <1>1 DEF StaleStatusHasCause
  <2>1. /\ cause[k] = {}
        /\ \A i \in DOMAIN pending[stat] : i > n => pending[stat][i] # k
    BY <1>1, <1>4
  <2>2. \A i \in DOMAIN pending[stat] : i <= n => pending[stat][i] # k
    <3> SUFFICES ASSUME NEW i \in DOMAIN pending[stat], i <= n PROVE pending[stat][i] # k
      OBVIOUS
    <3>1. i \in DOMAIN pending'[stat]
      BY <1>3, <1>4
    <3> QED BY <1>4, <3>1
  <2>3. \A i \in DOMAIN pending[stat] : pending[stat][i] # k
    BY <1>3, <2>1, <2>2
  <2> QED BY <2>1, <2>3 DEF StatusInv, StaleStatusHasCause
<1> QED BY <1>1, <1>5, <1>6, ChannelOnly

\* What is notified is pending after it.
LEMMA NotifyAppends ==
    ASSUME StatusInv, NEW k \in Keys, Notify(stat, k)
    PROVE  /\ phase' = phase /\ phase'[stat] # "down" /\ pending' \in [Subs -> Seq(Keys)]
           /\ \E i \in DOMAIN pending'[stat] : pending'[stat][i] = k
           /\ \A i \in DOMAIN pending[stat] :
                 i \in DOMAIN pending'[stat] /\ pending'[stat][i] = pending[stat][i]
<1>1. /\ stat \in Subs /\ pending[stat] \in Seq(Keys) /\ pending \in [Subs -> Seq(Keys)]
  BY StatusAssumption DEF StatusInv, StatusTypeOK
<1>2. /\ pending' = [pending EXCEPT ![stat] = Append(@, k)] /\ phase' = phase
      /\ phase[stat] = "up"
  BY DEF Notify
<1>3. pending'[stat] = Append(pending[stat], k) /\ pending' \in [Subs -> Seq(Keys)]
  BY <1>1, <1>2
<1>4. /\ Len(pending[stat]) + 1 \in DOMAIN pending'[stat]
      /\ pending'[stat][Len(pending[stat]) + 1] = k
  BY <1>1, <1>3
<1>5. \A i \in DOMAIN pending[stat] :
          i \in DOMAIN pending'[stat] /\ pending'[stat][i] = pending[stat][i]
  BY <1>1, <1>3
<1> QED BY <1>2, <1>3, <1>4, <1>5

\* The checker stores an item, or one expires.
LEMMA WritePreserves ==
    ASSUME StatusInv, NEW k \in Keys, NEW v \in Items, Write(k, v)
    PROVE  StatusInv'
<1>1. /\ store' = [store EXCEPT ![k] = v] /\ UNCHANGED cache /\ UNCHANGED callVars /\ Watch
      /\ overtaken' = [c \in Callers |-> overtaken[c] \/ (stage[c] = "set" /\ KeyOf(c) = k)]
  BY DEF Write
<1>2. changed' \in [Callers -> BOOLEAN]
  BY <1>1, Watched
<1>3. overtaken' \in [Callers -> BOOLEAN]
  BY <1>1 DEF StatusInv, StatusTypeOK
<1>4. \A c \in Callers : overtaken'[c] <=> (overtaken[c] \/ (stage[c] = "set" /\ KeyOf(c) = k))
  BY <1>1
<1>5. store' \in [Keys -> Items] /\ \A j \in Keys \ {k} : store'[j] = store[j]
  BY <1>1 DEF StatusInv, StatusTypeOK
<1>6. StatusTypeOK' /\ StaleStatusHasCause'
  <2>1. CASE Notify(stat, k) /\ cause' = cause
    <3>1. /\ phase' = phase /\ phase'[stat] # "down" /\ pending' \in [Subs -> Seq(Keys)]
          /\ \E i \in DOMAIN pending'[stat] : pending'[stat][i] = k
          /\ \A i \in DOMAIN pending[stat] :
                i \in DOMAIN pending'[stat] /\ pending'[stat][i] = pending[stat][i]
      BY <2>1, NotifyAppends
    <3>2. StatusTypeOK'
      BY <1>1, <1>2, <1>3, <1>5, <2>1, <3>1 DEF StatusInv, StatusTypeOK, callVars
    <3>3. StaleStatusHasCause'
      <4> SUFFICES ASSUME NEW j \in Keys, cache[j] # None, cause[j] = {}, Plain(j),
                          \A i \in DOMAIN pending'[stat] : pending'[stat][i] # j
                   PROVE  cache[j] = store'[j]
        BY <1>1, <2>1 DEF StaleStatusHasCause
      <4>1. j # k /\ \A i \in DOMAIN pending[stat] : pending[stat][i] # j
        BY <3>1
      <4> QED BY <1>5, <4>1 DEF StatusInv, StaleStatusHasCause
    <3> QED BY <3>2, <3>3
  <2>2. CASE cause' = [cause EXCEPT ![k] = @ \union {"missed"}] /\ UNCHANGED channelVars
    <3>1. phase' = phase /\ pending' = pending
      BY <2>2 DEF channelVars
    <3>2. cause' \in [Keys -> SUBSET {"missed", "overtaken"}] /\ cause'[k] # {}
      BY <2>2 DEF StatusInv, StatusTypeOK
    <3>3. StatusTypeOK'
      BY <1>1, <1>2, <1>3, <1>5, <3>1, <3>2 DEF StatusInv, StatusTypeOK, callVars
    <3>4. \A j \in Keys \ {k} : cause'[j] = cause[j]
      BY <2>2 DEF StatusInv, StatusTypeOK
    <3>5. StaleStatusHasCause'
      BY <1>1, <1>5, <3>1, <3>2, <3>4 DEF StatusInv, StaleStatusHasCause
    <3> QED BY <3>3, <3>5
  <2> QED BY <2>1, <2>2 DEF Write
<1>7. \A c \in Callers : stage[c] # "idle" /\ ~changed'[c] =>
          /\ ~changed[c]
          /\ \A i \in DOMAIN call[c].rrset : Answer(call[c].rrset[i])' = Answer(call[c].rrset[i])
  BY <1>1, Watched DEF callVars
<1>8. \A c \in Callers : stage[c] = "set" /\ ~overtaken'[c] =>
          ~overtaken[c] /\ store'[KeyOf(c)] = store[KeyOf(c)]
  BY <1>4, <1>5, AtAnAddress
<1> QED BY <1>1, <1>6, <1>7, <1>8, NoCallMoves

\* The expiry of an item is renewed.
LEMMA ExpirationPreserves ==
    ASSUME StatusInv, NEW k \in Keys, SetHealthcheckItemExpiration(k)
    PROVE  StatusInv'
<1>1. /\ UNCHANGED callVars /\ UNCHANGED <<store, cache, overtaken, changed, cause>>
      /\ Notify(stat, k)
  BY DEF SetHealthcheckItemExpiration
<1>2. /\ phase' = phase /\ phase'[stat] # "down" /\ pending' \in [Subs -> Seq(Keys)]
      /\ \A i \in DOMAIN pending[stat] :
            i \in DOMAIN pending'[stat] /\ pending'[stat][i] = pending[stat][i]
  BY <1>1, NotifyAppends
<1>3. StatusTypeOK' /\ StaleStatusHasCause'
  <2>1. StatusTypeOK'
    BY <1>1, <1>2 DEF StatusInv, StatusTypeOK, callVars
  <2>2. StaleStatusHasCause'
    BY <1>1, <1>2 DEF StatusInv, StaleStatusHasCause
  <2> QED BY <2>1, <2>2
<1> QED BY <1>1, <1>3, ChannelOnly

\* Every state satisfies the inductive invariant.
THEOREM StatusInvariance == StatusSpec => []StatusInv
<1>1. StatusInit => StatusInv
  BY StatusInvInit
<1>2. StatusInv /\ [StatusNext]_statusVars => StatusInv'
  <2> SUFFICES ASSUME StatusInv, [StatusNext]_statusVars PROVE StatusInv'
    OBVIOUS
  <2>1. CASE \E c \in Callers, f \in Calls : FilterHealthcheck(c, f)
    BY <2>1, FilterPreserves
  <2>2. CASE \E c \in Callers : CacheGet(c)
    BY <2>2, CacheGetPreserves
  <2>3. CASE \E c \in Callers : LoadItem(c)
    BY <2>3, LoadItemPreserves
  <2>4. CASE \E c \in Callers : CacheSet(c)
    BY <2>4, CacheSetPreserves
  <2>5. CASE \E c \in Callers : FilterReturns(c)
    BY <2>5, ReturnPreserves
  <2>6. CASE Invalidate
    BY <2>6, InvalidatePreserves
  <2>7. CASE ConnectionStep
    BY <2>7, ConnectionPreserves
  <2>8. CASE LoseConnection
    BY <2>8, LosePreserves
  <2>9. CASE \E k \in Keys : Evict(k)
    BY <2>9, EvictPreserves
  <2>10. CASE \E k \in Keys : SetHealthcheckItemExpiration(k)
    BY <2>10, ExpirationPreserves
  <2>11. CASE \E k \in Keys, v \in Statuses \union {None} : Write(k, v)
    BY <2>11, WritePreserves DEF Items
  <2>12. CASE UNCHANGED statusVars
    <3>1. /\ UNCHANGED callVars /\ UNCHANGED <<store, cache, overtaken, changed, cause>>
          /\ phase' = phase /\ pending' = pending
      BY <2>12 DEF statusVars, channelVars
    <3>2. StatusTypeOK' /\ StaleStatusHasCause'
      BY <3>1 DEF StatusInv, StatusTypeOK, StaleStatusHasCause, callVars
    <3> QED BY <3>1, <3>2, ChannelOnly
  <2> QED BY <2>1, <2>2, <2>3, <2>4, <2>5, <2>6, <2>7, <2>8, <2>9, <2>10, <2>11, <2>12 DEF StatusNext
<1> QED BY <1>1, <1>2, PTL DEF StatusSpec

\* A cached status differs from Redis only while its notification is on the way,
\* or for one of the reasons the property names.
THEOREM StaleStatuses == StatusSpec => []StaleStatusHasCause
<1>1. StatusInv => StaleStatusHasCause
  BY DEF StatusInv
<1> QED BY <1>1, StatusInvariance, PTL

\* FilterHealthcheck, whatever the number of addresses and of concurrent calls,
\* keeps the best addresses if its answers do not change while it runs.
THEOREM HealthFilterKeepsBest == StatusSpec => []FilterKeepsBest
<1>1. StatusInv => FilterKeepsBest
  <2> SUFFICES ASSUME StatusInv, NEW c \in Callers, stage[c] = "done", ~changed[c]
               PROVE  call[c].white = Best(call[c])
    BY DEF FilterKeepsBest
  <2>1. Shape(call[c]) /\ call[c].left = {} /\ Known(call[c], Told(c))
    BY DEF StatusInv, CallInv
  <2>2. \A i \in call[c].given : call[c].rrset[i] \in Keys
    BY <2>1 DEF Shape, CallRecord
  <2>3. Told(c) \in [call[c].given -> Int]
    BY <2>2, AnswerIsInt DEF Told
  <2>4. call[c].white = BestBy(call[c].given, Told(c))
    BY <2>1, <2>3, KnownIsBest
  <2>5. BestBy(call[c].given, Told(c)) = Best(call[c])
    BY DEF BestBy, Best, Told
  <2> QED BY <2>4, <2>5
<1> QED BY <1>1, StatusInvariance, PTL

(***************************************************************************)
(* The geo filters.                                                        *)
(***************************************************************************)

\* What one filter lets through, of the addresses that it finds white or grey.
LEMMA SameIsMeantFor ==
    ASSUME NEW D, NEW mask \in [D -> {"white", "grey", "black"}], NEW want, NEW unknown, NEW has
    PROVE  /\ GetSame(want, unknown, has, mask) \in [D -> {"white", "grey", "black"}]
           /\ want = Failed => GetSame(want, unknown, has, mask) = mask
           /\ (want = unknown /\ want # Failed) =>
                 White(GetSame(want, unknown, has, mask))
                     = {i \in D : mask[i] # "black" /\ (has[i] = {} \/ unknown \in has[i])}
           /\ want # unknown =>
                 White(GetSame(want, unknown, has, mask)) = MeantFor(White(mask), want, unknown, has)
<1> DEFINE matching == {i \in White(mask) : want # unknown /\ want \in has[i]}
           first == IF want = unknown THEN mask
                    ELSE [i \in DOMAIN mask |-> IF i \in matching THEN "white"
                                                ELSE IF mask[i] = "white" THEN "grey" ELSE "black"]
           general == [i \in DOMAIN mask |->
                          IF first[i] # "black" /\ (has[i] = {} \/ unknown \in has[i])
                          THEN "white" ELSE "black"]
           out == GetSame(want, unknown, has, mask)
<1>1. out = IF want = Failed THEN mask ELSE IF matching # {} THEN first ELSE general
  BY DEF GetSame
<1>2. /\ first \in [D -> {"white", "grey", "black"}] /\ general \in [D -> {"white", "grey", "black"}]
      /\ DOMAIN mask = D
  OBVIOUS
<1>3. White(mask) = {i \in D : mask[i] = "white"} /\ matching \subseteq D
  BY DEF White, Coloured
<1>4. ASSUME want = unknown, want # Failed
      PROVE  White(out) = {i \in D : mask[i] # "black" /\ (has[i] = {} \/ unknown \in has[i])}
  <2>1. matching = {} /\ out = general /\ first = mask
    BY <1>1, <1>4
  <2>2. White(general) = {i \in D : general[i] = "white"}
    BY <1>2 DEF White, Coloured
  <2> QED BY <1>2, <2>1, <2>2
<1>5. ASSUME want # unknown PROVE White(out) = MeantFor(White(mask), want, unknown, has)
  <2>1. CASE want = Failed
    BY <1>1, <2>1 DEF MeantFor
  <2>2. CASE want # Failed /\ matching # {}
    <3>1. White(first) = {i \in D : first[i] = "white"}
      BY <1>2 DEF White, Coloured
    <3>2. White(first) = matching
      BY <1>2, <1>3, <1>5, <3>1
    <3>3. MeantFor(White(mask), want, unknown, has) = matching
      BY <2>2 DEF MeantFor
    <3> QED BY <1>1, <2>2, <3>2, <3>3
  <2>3. CASE want # Failed /\ matching = {}
    <3>1. White(general) = {i \in D : general[i] = "white"}
      BY <1>2 DEF White, Coloured
    <3>2. \A i \in D : first[i] # "black" <=> i \in White(mask)
      BY <1>2, <1>3, <1>5, <2>3
    <3>3. White(general) = {i \in White(mask) : has[i] = {} \/ unknown \in has[i]}
      BY <1>2, <1>3, <3>1, <3>2
    <3>4. MeantFor(White(mask), want, unknown, has) = {i \in White(mask) : has[i] = {} \/ unknown \in has[i]}
      BY <2>3 DEF MeantFor
    <3> QED BY <1>1, <2>3, <3>3, <3>4
  <2> QED BY <2>1, <2>2, <2>3
<1> QED BY <1>1, <1>2, <1>4, <1>5

\* The indexes of the first n places are in their order already.
LEMMA IntervalInOrder ==
    ASSUME NEW n \in Nat
    PROVE  InOrder(1..n) = [k \in 1..n |-> k]
<1>1. Cardinality(1..n) = n
  BY FS_Interval
<1>2. ASSUME NEW k \in 1..n
      PROVE  (CHOOSE i \in 1..n : Cardinality({j \in 1..n : j <= i}) = k) = k
  <2>1. \A i \in 1..n : Cardinality({j \in 1..n : j <= i}) = i
    <3> SUFFICES ASSUME NEW i \in 1..n PROVE Cardinality({j \in 1..n : j <= i}) = i
      OBVIOUS
    <3>1. {j \in 1..n : j <= i} = 1..i
      OBVIOUS
    <3>2. Cardinality(1..i) = i
      BY FS_Interval
    <3> QED BY <3>1, <3>2
  <2> QED BY <2>1
<1> QED BY <1>1, <1>2 DEF InOrder

\* By location the nearest addresses are let through, and all of them when no
\* distance is a number or the geo database does not answer.
LEMMA NearestPass ==
    ASSUME NEW n \in Nat, NEW client, NEW data, DOMAIN data = 1..n,
           \A i \in 1..n : client.dist[i] \in Nat \union {NaN}
    PROVE  White(GetMinimumDistance(client, data, [i \in 1..n |-> "white"]))
           = LET known == {i \in 1..n : client.dist[i] # NaN} IN
             IF client.country = Failed \/ known = {} THEN 1..n
             ELSE {i \in known : \A j \in known : client.dist[i] <= client.dist[j]}
<1> DEFINE mask == [i \in 1..n |-> "white"]
           whites == InOrder(White(mask))
           dists == [k \in DOMAIN whites |-> client.dist[whites[k]]]
           numbers == {dists[k] : k \in DOMAIN dists} \ {NaN}
           passed == {i \in White(mask) : dists[i] # NaN /\ \A d \in numbers : dists[i] <= d}
           known == {i \in 1..n : client.dist[i] # NaN}
           nearest == {i \in known : \A j \in known : client.dist[i] <= client.dist[j]}
           out == [i \in DOMAIN mask |->
                     IF i \in passed \/ (passed = {} /\ mask[i] = "white") THEN "white"
                     ELSE IF mask[i] = "white" THEN "grey" ELSE "black"]
<1>1. White(mask) = 1..n
  BY DEF White, Coloured
<1>2. GetMinimumDistance(client, data, mask) = IF client.country = Failed THEN mask ELSE out
  BY DEF GetMinimumDistance
<1>3. whites = [k \in 1..n |-> k]
  BY <1>1, IntervalInOrder
<1>4. /\ DOMAIN dists = 1..n /\ \A i \in 1..n : dists[i] = client.dist[i]
  BY <1>3
<1>5. passed = nearest
  <2> HIDE DEF dists, mask
  <2> QED BY <1>1, <1>4
<1>6. known # {} => nearest # {}
  <2> HAVE known # {}
  <2> DEFINE N == {client.dist[i] : i \in known}
  <2>1. N \in SUBSET Nat /\ N # {}
    OBVIOUS
  <2> HIDE DEF N
  <2>2. Min(N) \in N /\ \A y \in N : Min(N) <= y
    BY <2>1, MinIsLeast
  <2>3. PICK i \in known : client.dist[i] = Min(N)
    BY <2>2 DEF N
  <2>4. \A j \in known : client.dist[i] <= client.dist[j]
    BY <2>2, <2>3 DEF N
  <2> QED BY <2>4
<1>7. White(out) = IF passed = {} THEN 1..n ELSE passed
  <2> HIDE DEF passed
  <2>1. White(out) = {i \in 1..n : i \in passed \/ passed = {}}
    BY DEF White, Coloured
  <2>2. passed \subseteq 1..n
    BY <1>1 DEF passed
  <2> QED BY <2>1, <2>2
<1>8. passed = {} <=> known = {}
  BY <1>5, <1>6
<1>9. White(GetMinimumDistance(client, data, mask))
      = IF client.country = Failed \/ known = {} THEN 1..n ELSE nearest
  <2> HIDE DEF passed, known, nearest, out, mask
  <2> QED BY <1>1, <1>2, <1>5, <1>7, <1>8
<1> QED BY <1>9

\* The geo filters of DnsRequestHandler.filter let through exactly the addresses
\* of the reference, for every record set, client and filter; a distance is a
\* number or NaN.
THEOREM GeoFilterIsReference ==
    ASSUME NEW data, NEW n \in Nat, DOMAIN data = 1..n, NEW client, NEW geo,
           \A i \in DOMAIN data : client.dist[i] \in Nat \union {NaN}
    PROVE  White(GeoMask(client, data, geo)) = Eligible(client, data, geo)
<1> DEFINE all == DOMAIN data
           mask == [i \in all |-> "white"]
           country == [i \in all |-> data[i].country]
           asn == [i \in all |-> data[i].asn]
           byASN == MeantFor(all, client.asn, NoASN, asn)
           matched == client.asn \notin {Failed, NoASN} /\ \E i \in all : client.asn \in asn[i]
           second == GetSameASN(client, data, mask)
<1>1. /\ mask \in [all -> {"white", "grey", "black"}] /\ White(mask) = all
      /\ \A i \in all : mask[i] # "black"
  BY DEF White, Coloured
<1> HIDE DEF mask
<1>2. ASSUME NEW want, NEW unknown, NEW has
      PROVE  White(GetSame(want, unknown, has, mask)) = MeantFor(all, want, unknown, has)
  <2>1. CASE want = unknown /\ want # Failed
    <3>1. White(GetSame(want, unknown, has, mask))
              = {i \in all : has[i] = {} \/ unknown \in has[i]}
      BY <1>1, <2>1, SameIsMeantFor
    <3> QED BY <2>1, <3>1 DEF MeantFor
  <2>2. CASE want = Failed
    <3>1. GetSame(want, unknown, has, mask) = mask
      BY <1>1, <2>2, SameIsMeantFor
    <3> QED BY <1>1, <2>2, <3>1 DEF MeantFor
  <2>3. CASE want # unknown /\ want # Failed
    BY <1>1, <2>3, SameIsMeantFor
  <2> QED BY <2>1, <2>2, <2>3
<1>3. CASE geo = "asn"
  <2>1. GeoMask(client, data, geo) = second /\ Eligible(client, data, geo) = byASN
    BY <1>3 DEF GeoMask, Eligible, mask
  <2> QED BY <1>2, <2>1 DEF GetSameASN
<1>4. CASE geo = "country"
  <2>1. /\ GeoMask(client, data, geo) = GetSameCountry(client, data, mask)
        /\ Eligible(client, data, geo) = MeantFor(all, client.country, NoCountry, country)
    BY <1>4 DEF GeoMask, Eligible, mask
  <2> QED BY <1>2, <2>1 DEF GetSameCountry
<1>5. CASE geo = "asn+country"
  <2>1. /\ GeoMask(client, data, geo) = GetSameCountry(client, data, second)
        /\ Eligible(client, data, geo)
           = MeantFor(IF client.country = NoCountry /\ matched THEN all ELSE byASN,
                      client.country, NoCountry, country)
    BY <1>5 DEF GeoMask, Eligible, mask
  <2>2. second \in [all -> {"white", "grey", "black"}] /\ White(second) = byASN
    BY <1>1, <1>2, SameIsMeantFor DEF GetSameASN
  <2>3. \A i \in all : second[i] # "black" <=> i \in (IF matched THEN all ELSE byASN)
    <3> DEFINE matching == {i \in White(mask) : client.asn # NoASN /\ client.asn \in asn[i]}
    <3>1. CASE client.asn = Failed
      <4>1. second = mask /\ byASN = all
        BY <1>1, <3>1, SameIsMeantFor DEF GetSameASN, MeantFor
      <4> QED BY <1>1, <3>1, <4>1
    <3>2. CASE client.asn # Failed /\ matching # {}
      <4>1. matched
        BY <1>1, <3>2
      <4>2. second = [i \in DOMAIN mask |-> IF i \in matching THEN "white"
                                          ELSE IF mask[i] = "white" THEN "grey" ELSE "black"]
        BY <3>2 DEF GetSameASN, GetSame
      <4> QED BY <1>1, <4>1, <4>2 DEF mask
    <3>3. CASE client.asn # Failed /\ matching = {}
      <4>1. ~matched
        BY <1>1, <3>3
      <4>2. \A i \in all : second[i] \in {"white", "black"}
        BY <1>1, <3>3 DEF GetSameASN, GetSame
      <4>3. \A i \in all : second[i] = "white" <=> i \in byASN
        BY <2>2 DEF White, Coloured
      <4> QED BY <4>1, <4>2, <4>3
    <3> QED BY <3>1, <3>2, <3>3
  <2>7. GetSameCountry(client, data, second) = GetSame(client.country, NoCountry, country, second)
    BY DEF GetSameCountry
  <2> HIDE DEF second, matched, byASN, country
  <2>4. CASE client.country = Failed
    <3>1. GetSameCountry(client, data, second) = second
      BY <2>2, <2>4, <2>7, SameIsMeantFor
    <3> QED BY <2>1, <2>2, <2>4, <3>1, GeoAssumption DEF MeantFor
  <2>5. CASE client.country = NoCountry
    <3>1. White(GetSameCountry(client, data, second))
              = {i \in all : second[i] # "black" /\ (country[i] = {} \/ NoCountry \in country[i])}
      BY <2>2, <2>5, <2>7, SameIsMeantFor, GeoAssumption
    <3>2. byASN \subseteq all
      BY <2>2 DEF White, Coloured
    <3>3. White(GetSameCountry(client, data, second))
              = {i \in (IF matched THEN all ELSE byASN) : country[i] = {} \/ NoCountry \in country[i]}
      BY <2>3, <3>1, <3>2
    <3> QED BY <2>1, <2>5, <3>3, GeoAssumption DEF MeantFor
  <2>6. CASE client.country # Failed /\ client.country # NoCountry
    <3>1. White(GetSameCountry(client, data, second))
              = MeantFor(White(second), client.country, NoCountry, country)
      BY <2>2, <2>6, <2>7, SameIsMeantFor
    <3> QED BY <2>1, <2>2, <2>6, <3>1
  <2> QED BY <2>4, <2>5, <2>6
<1>6. CASE geo = "location"
  <2> DEFINE known == {i \in 1..n : client.dist[i] # NaN}
             nearest == {i \in known : \A j \in known : client.dist[i] <= client.dist[j]}
  <2>1. GeoMask(client, data, geo) = GetMinimumDistance(client, data, [i \in 1..n |-> "white"])
    BY <1>6 DEF GeoMask
  <2>2. Eligible(client, data, geo)
           = IF client.country = Failed \/ known = {} THEN 1..n ELSE nearest
    BY <1>6 DEF Eligible
  <2>3. White(GetMinimumDistance(client, data, [i \in 1..n |-> "white"]))
           = IF client.country = Failed \/ known = {} THEN 1..n ELSE nearest
    BY NearestPass
  <2> QED BY <2>1, <2>2, <2>3
<1>7. CASE geo \notin {"asn", "country", "asn+country", "location"}
  <2>1. GeoMask(client, data, geo) = mask /\ Eligible(client, data, geo) = all
    BY <1>7 DEF GeoMask, Eligible, mask
  <2> QED BY <1>1, <2>1
<1> QED BY <1>3, <1>4, <1>5, <1>6, <1>7

\* What the run checks of the geo filters, for record sets of any size.
THEOREM GeoFilterCalls ==
    ASSUME MaxAddresses \in Nat
    PROVE  AskSpec => []FilterIsReference
<1>1. AskInit => FilterIsReference
  BY DEF AskInit, FilterIsReference, Idle
<1>2. FilterIsReference /\ [AskNext]_asked => FilterIsReference'
  <2> SUFFICES ASSUME FilterIsReference, [AskNext]_asked PROVE FilterIsReference'
    OBVIOUS
  <2>1. ASSUME NEW T, NEW data \in Sets(T)
        PROVE  \E n \in Nat : DOMAIN data = 1..n /\ n <= MaxAddresses
    BY <2>1 DEF Sets
  <2>2. ASSUME NEW T, NEW data \in Sets(T), NEW client \in Clients \union Located, NEW geo,
               asked' = [fn |-> "filter", data |-> data, client |-> client, geo |-> geo,
                         mask |-> GeoMask(client, data, geo)]
        PROVE  FilterIsReference'
    <3>1. PICK n \in Nat : DOMAIN data = 1..n /\ n <= MaxAddresses
      BY <2>1
    <3>2. \A i \in DOMAIN data : client.dist[i] \in Nat \union {NaN}
      BY <3>1 DEF Clients, Located
    <3>3. White(GeoMask(client, data, geo)) = Eligible(client, data, geo)
      BY <3>1, <3>2, GeoFilterIsReference
    <3> QED BY <2>2, <3>3 DEF FilterIsReference
  <2>3. CASE CallGeoFilter
    BY <2>2, <2>3 DEF CallGeoFilter
  <2>4. CASE CallFindLocation \/ CallFindZone \/ CallOrderIps
    BY <2>4 DEF CallFindLocation, CallFindZone, CallOrderIps, FilterIsReference
  <2>5. CASE Answered
    BY <2>5 DEF Answered, Idle, FilterIsReference
  <2>6. CASE UNCHANGED asked
    BY <2>6 DEF FilterIsReference
  <2> QED BY <2>3, <2>4, <2>5, <2>6 DEF AskNext, Ask
<1> QED BY <1>1, <1>2, PTL DEF AskSpec

(***************************************************************************)
(* The sum of weights.  Weights is a fold: the least set for which a fact  *)
(* about it could be false cannot exist.                                   *)
(***************************************************************************)

\* The element that a fold takes first, and the function that it computes.
AnyOf(s) == CHOOSE x \in s : TRUE

FoldStep(data, s, f) == IF s = {} THEN 0 ELSE data[AnyOf(s)].weight + f[s \ {AnyOf(s)}]

IsSum(f, data, S) == f = [s \in SUBSET S |-> FoldStep(data, s, f)]

\* Among sets of finite sets there is a smallest one.
LEMMA SmallestSet ==
    ASSUME NEW B, B # {}, \A s \in B : IsFiniteSet(s)
    PROVE  \E s \in B : \A t \in B : Cardinality(s) <= Cardinality(t)
<1> DEFINE sizes == {Cardinality(s) : s \in B}
<1>1. sizes \in SUBSET Nat /\ sizes # {}
  BY FS_CardinalityType
<1>2. Min(sizes) \in sizes /\ \A y \in sizes : Min(sizes) <= y
  <2> HIDE DEF sizes
  <2> QED BY <1>1, MinIsLeast
<1> QED BY <1>2

\* A set without the element that is taken first is smaller.
LEMMA TakeOne ==
    ASSUME NEW S, IsFiniteSet(S), NEW s \in SUBSET S, s # {}
    PROVE  /\ AnyOf(s) \in s /\ s \ {AnyOf(s)} \in SUBSET S
           /\ IsFiniteSet(s) /\ Cardinality(s) \in Nat
           /\ \A i \in s : /\ IsFiniteSet(s \ {i}) /\ s \ {i} \in SUBSET S
                           /\ Cardinality(s \ {i}) = Cardinality(s) - 1
<1>1. AnyOf(s) \in s
  BY DEF AnyOf
<1>2. IsFiniteSet(s) /\ Cardinality(s) \in Nat
  BY FS_Subset, FS_CardinalityType
<1>3. \A i \in s : IsFiniteSet(s \ {i}) /\ Cardinality(s \ {i}) = Cardinality(s) - 1
  BY <1>2, FS_RemoveElement
<1> QED BY <1>1, <1>2, <1>3

\* The function that the fold is defined by exists.
LEMMA SumExists ==
    ASSUME NEW data, NEW S, IsFiniteSet(S)
    PROVE  \E f : IsSum(f, data, S)
<1> DEFINE Small(n) == {s \in SUBSET S : Cardinality(s) <= n}
           PartOfSum(f, n) == f = [s \in Small(n) |-> FoldStep(data, s, f)]
           Without == {n \in Nat : ~\E f : PartOfSum(f, n)}
<1>1. Cardinality(S) \in Nat /\ Small(Cardinality(S)) = SUBSET S
  BY FS_CardinalityType, FS_Subset
<1>2. SUFFICES Cardinality(S) \notin Without
  <2>1. PICK n : n = Cardinality(S)
    OBVIOUS
  <2>2. PICK f : PartOfSum(f, n)
    BY <1>1, <1>2, <2>1
  <2> QED BY <1>1, <2>1, <2>2 DEF IsSum
<1>3. SUFFICES ASSUME Without # {} PROVE FALSE
  OBVIOUS
<1>4. PICK m \in Without : \A y \in Without : m <= y
  <2>1. Without \in SUBSET Nat /\ Without # {}
    BY <1>3
  <2> HIDE DEF Without
  <2> QED BY <2>1, MinIsLeast
<1>5. m \in Nat /\ ~\E f : PartOfSum(f, m)
  BY <1>4
<1>6. PICK g : \A s \in Small(m) : s # {} => g[s \ {AnyOf(s)}] = FoldStep(data, s \ {AnyOf(s)}, g)
  <2>1. CASE m = 0
    <3>1. Small(m) \subseteq {{}}
      BY <2>1, FS_EmptySet, FS_Subset, FS_CardinalityType
    <3> QED BY <3>1
  <2>2. CASE m # 0
    <3>1. m - 1 \in Nat /\ ~(m <= m - 1)
      BY <1>5, <2>2
    <3>2. PICK g : PartOfSum(g, m - 1)
      BY <1>4, <3>1
    <3>3. ASSUME NEW s \in Small(m), s # {}
          PROVE  s \ {AnyOf(s)} \in Small(m - 1)
      BY <1>5, <3>1, <3>3, TakeOne
    <3> HIDE DEF Small
    <3>4. \A t \in Small(m - 1) : g[t] = FoldStep(data, t, g)
      BY <3>2
    <3> QED BY <3>3, <3>4
  <2> QED BY <2>1, <2>2
<1>7. PICK f : f = [s \in Small(m) |-> FoldStep(data, s, g)]
  OBVIOUS
<1>8. ASSUME NEW s \in Small(m) PROVE f[s] = FoldStep(data, s, f)
  <2>1. f[s] = FoldStep(data, s, g)
    BY <1>7
  <2>2. CASE s = {}
    BY <2>1, <2>2 DEF FoldStep
  <2>3. CASE s # {}
    <3>1. PICK t : t = s \ {AnyOf(s)}
      OBVIOUS
    <3>2. t \in Small(m)
      BY <1>5, <2>3, <3>1, TakeOne
    <3>3. f[t] = FoldStep(data, t, g)
      BY <1>7, <3>2
    <3>4. g[t] = FoldStep(data, t, g)
      BY <1>6, <2>3, <3>1
    <3> QED BY <2>1, <2>3, <3>1, <3>3, <3>4 DEF FoldStep
  <2> QED BY <2>2, <2>3
<1>9. PartOfSum(f, m)
  <2> HIDE DEF Small
  <2>1. f = [s \in Small(m) |-> f[s]]
    BY <1>7
  <2> QED BY <1>8, <2>1
<1> QED BY <1>5, <1>9

\* The fold is the value of that function.
LEMMA WeightsIsSum ==
    ASSUME NEW data, NEW S, IsFiniteSet(S)
    PROVE  \E f : IsSum(f, data, S) /\ Weights(data, S) = f[S]
<1>1. PICK f : f = CHOOSE g : IsSum(g, data, S)
  OBVIOUS
<1>2. IsSum(f, data, S)
  BY <1>1, SumExists
<1>3. Weights(data, S) = f[S]
  <2>1. Weights(data, S)
        = (CHOOSE g : g = [s \in SUBSET S |-> IF s = {} THEN 0
              ELSE data[CHOOSE x \in s : TRUE].weight + g[s \ {CHOOSE x \in s : TRUE}]])[S]
    BY DEF Weights, MapThenSumSet, MapThenFoldSet
  <2> QED BY <1>1, <2>1 DEF IsSum, FoldStep, AnyOf
<1> QED BY <1>2, <1>3

\* It is an integer, and does not depend on the set it was defined over.
LEMMA SumOfSubset ==
    ASSUME NEW data, NEW S, IsFiniteSet(S), \A i \in S : data[i].weight \in Int,
           NEW f, IsSum(f, data, S), NEW T \in SUBSET S, NEW g, IsSum(g, data, T)
    PROVE  \A s \in SUBSET T : f[s] \in Int /\ f[s] = g[s]
<1> DEFINE Wrong == {s \in SUBSET T : ~(f[s] \in Int /\ f[s] = g[s])}
<1>1. SUFFICES ASSUME Wrong # {} PROVE FALSE
  OBVIOUS
<1>2. \A s \in SUBSET T : s \in SUBSET S /\ IsFiniteSet(s)
  BY FS_Subset
<1>3. PICK s \in Wrong : \A t \in Wrong : Cardinality(s) <= Cardinality(t)
  BY <1>1, <1>2, SmallestSet
<1>4. f[s] = FoldStep(data, s, f) /\ g[s] = FoldStep(data, s, g)
  BY <1>2, <1>3 DEF IsSum
<1>5. s # {}
  BY <1>3, <1>4 DEF FoldStep
<1>6. PICK t : t = s \ {AnyOf(s)}
  OBVIOUS
<1>7. /\ AnyOf(s) \in S /\ t \in SUBSET T
      /\ Cardinality(s) \in Nat /\ Cardinality(t) = Cardinality(s) - 1
  BY <1>2, <1>3, <1>5, <1>6, TakeOne
<1>8. t \notin Wrong
  BY <1>3, <1>7
<1>9. f[t] \in Int /\ f[t] = g[t]
  BY <1>7, <1>8
<1>10. f[s] = data[AnyOf(s)].weight + f[t] /\ g[s] = data[AnyOf(s)].weight + g[t]
  BY <1>4, <1>5, <1>6 DEF FoldStep
<1>11. data[AnyOf(s)].weight \in Int
  BY <1>7
<1> QED BY <1>3, <1>9, <1>10, <1>11

\* Any element may be taken first.
LEMMA SumWithout ==
    ASSUME NEW data, NEW S, IsFiniteSet(S), \A i \in S : data[i].weight \in Int,
           NEW f, IsSum(f, data, S)
    PROVE  \A s \in SUBSET S : \A i \in s : f[s] = data[i].weight + f[s \ {i}]
<1> DEFINE Wrong == {s \in SUBSET S : \E i \in s : f[s] # data[i].weight + f[s \ {i}]}
<1>1. SUFFICES ASSUME Wrong # {} PROVE FALSE
  OBVIOUS
<1>2. \A s \in SUBSET S : IsFiniteSet(s) /\ f[s] \in Int
  BY FS_Subset, SumOfSubset
<1>3. PICK s \in Wrong : \A t \in Wrong : Cardinality(s) <= Cardinality(t)
  BY <1>1, <1>2, SmallestSet
<1>4. PICK i \in s : f[s] # data[i].weight + f[s \ {i}]
  BY <1>3
<1>5. PICK x : x = AnyOf(s)
  OBVIOUS
<1>6. x \in s /\ f[s] = data[x].weight + f[s \ {x}]
  BY <1>3, <1>4, <1>5, TakeOne DEF IsSum, FoldStep
<1>7. x # i
  BY <1>4, <1>6
<1>8. /\ s \ {x} \in SUBSET S /\ s \ {i} \in SUBSET S /\ Cardinality(s) \in Nat
      /\ Cardinality(s \ {x}) = Cardinality(s) - 1 /\ Cardinality(s \ {i}) = Cardinality(s) - 1
  BY <1>3, <1>4, <1>6, TakeOne
<1>9. s \ {x} \notin Wrong /\ s \ {i} \notin Wrong
  <2> HIDE DEF Wrong
  <2> QED BY <1>3, <1>8
<1>10. PICK t : t = s \ {x, i}
  OBVIOUS
<1>11. (s \ {x}) \ {i} = t /\ (s \ {i}) \ {x} = t /\ t \in SUBSET S
  BY <1>3, <1>10
<1>12. f[s \ {x}] = data[i].weight + f[t] /\ f[s \ {i}] = data[x].weight + f[t]
  BY <1>4, <1>6, <1>7, <1>8, <1>9, <1>11
<1>13. f[t] \in Int /\ data[i].weight \in Int /\ data[x].weight \in Int
  BY <1>2, <1>3, <1>4, <1>6, <1>11
<1> QED BY <1>4, <1>6, <1>12, <1>13

\* The sum of the weights of a set is an integer, and adds up.
LEMMA WeightsAddUp ==
    ASSUME NEW data, NEW S, IsFiniteSet(S), \A i \in S : data[i].weight \in Int
    PROVE  /\ Weights(data, S) \in Int
           /\ Weights(data, {}) = 0
           /\ \A i \in S : Weights(data, S) = data[i].weight + Weights(data, S \ {i})
<1>1. PICK f : IsSum(f, data, S) /\ Weights(data, S) = f[S]
  BY WeightsIsSum
<1>2. ASSUME NEW T \in SUBSET S PROVE Weights(data, T) = f[T] /\ f[T] \in Int
  <2>1. IsFiniteSet(T)
    BY FS_Subset
  <2>2. PICK g : IsSum(g, data, T) /\ Weights(data, T) = g[T]
    BY <2>1, WeightsIsSum
  <2>3. f[T] \in Int /\ f[T] = g[T]
    BY <1>1, <2>2, SumOfSubset
  <2> QED BY <2>2, <2>3
<1>3. f[{}] = 0
  BY <1>1 DEF IsSum, FoldStep
<1>4. \A i \in S : f[S] = data[i].weight + f[S \ {i}]
  BY <1>1, SumWithout
<1> QED BY <1>2, <1>3, <1>4

\* When no weight is negative, more addresses do not weigh less.
LEMMA WeightsGrow ==
    ASSUME NEW data, NEW S, IsFiniteSet(S), \A i \in S : data[i].weight \in Nat
    PROVE  \A T \in SUBSET S : /\ Weights(data, T) \in Nat
                               /\ Weights(data, T) <= Weights(data, S)
<1>1. ASSUME NEW T, IsFiniteSet(T), \A i \in T : data[i].weight \in Nat
      PROVE  Weights(data, T) \in Nat
  <2> DEFINE Wrong == {s \in SUBSET T : Weights(data, s) \notin Nat}
  <2>1. SUFFICES ASSUME Wrong # {} PROVE FALSE
    OBVIOUS
  <2>2. \A s \in SUBSET T : IsFiniteSet(s)
    BY <1>1, FS_Subset
  <2>3. PICK s \in Wrong : \A t \in Wrong : Cardinality(s) <= Cardinality(t)
    BY <2>1, <2>2, SmallestSet
  <2>4. s # {}
    <3>1. Weights(data, {}) = 0
      BY FS_EmptySet, WeightsAddUp
    <3> QED BY <2>3, <3>1
  <2>5. PICK i : i = AnyOf(s)
    OBVIOUS
  <2>6. /\ i \in s /\ i \in T /\ s \ {i} \in SUBSET T
        /\ Cardinality(s) \in Nat /\ Cardinality(s \ {i}) = Cardinality(s) - 1
    BY <1>1, <2>3, <2>4, <2>5, TakeOne
  <2>7. Weights(data, s \ {i}) \in Nat
    BY <2>3, <2>6
  <2>8. Weights(data, s) = data[i].weight + Weights(data, s \ {i})
    BY <1>1, <2>2, <2>3, <2>6, WeightsAddUp
  <2> QED BY <1>1, <2>3, <2>6, <2>7, <2>8
<1> DEFINE Wrong == {s \in SUBSET S : ~\A T \in SUBSET s : Weights(data, T) <= Weights(data, s)}
<1>2. \A s \in SUBSET S : IsFiniteSet(s) /\ Weights(data, s) \in Nat
  BY <1>1, FS_Subset
<1>3. SUFFICES ASSUME Wrong # {} PROVE FALSE
  BY <1>2
<1>4. PICK s \in Wrong : \A t \in Wrong : Cardinality(s) <= Cardinality(t)
  BY <1>2, <1>3, SmallestSet
<1>5. PICK T \in SUBSET s : ~(Weights(data, T) <= Weights(data, s))
  BY <1>4
<1>6. T # s
  BY <1>2, <1>4, <1>5
<1>7. PICK i \in s : i \notin T
  BY <1>6
<1>8. /\ T \in SUBSET (s \ {i}) /\ s \ {i} \in SUBSET S /\ Cardinality(s) \in Nat
      /\ Cardinality(s \ {i}) = Cardinality(s) - 1
  BY <1>4, <1>5, <1>7, TakeOne
<1>9. s \ {i} \notin Wrong
  BY <1>4, <1>8
<1>10. Weights(data, T) <= Weights(data, s \ {i})
  BY <1>8, <1>9
<1>11. Weights(data, s) = data[i].weight + Weights(data, s \ {i})
  BY <1>2, <1>4, <1>7, WeightsAddUp
<1>12. /\ Weights(data, s) \in Nat /\ Weights(data, s \ {i}) \in Nat
       /\ Weights(data, T) \in Nat /\ data[i].weight \in Nat
  BY <1>2, <1>4, <1>5, <1>7, <1>8
<1> QED BY <1>5, <1>10, <1>11, <1>12

(***************************************************************************)
(* The order of addresses.                                                 *)
(***************************************************************************)

\* The members of a set up to one of them; how many there are is its place.
Through(S, i) == {j \in S : j <= i}

\* A finite set of numbers that is not empty has a greatest element.
LEMMA MaxIsGreatest ==
    ASSUME NEW S \in SUBSET Nat, IsFiniteSet(S), S # {}
    PROVE  Max(S) \in S /\ \A y \in S : y <= Max(S)
<1>0. \A x \in S : x \in Int /\ x \in Nat
  OBVIOUS
<1> DEFINE Over(i) == {j \in S : j > i}
           B == {Over(i) : i \in S}
<1>1. \A i \in S : IsFiniteSet(Over(i)) /\ Cardinality(Over(i)) \in Nat
  BY FS_Subset, FS_CardinalityType
<1>2. PICK i \in S : \A t \in B : Cardinality(Over(i)) <= Cardinality(t)
  <2>1. B # {} /\ \A s \in B : IsFiniteSet(s)
    BY <1>1
  <2>2. PICK s \in B : \A t \in B : Cardinality(s) <= Cardinality(t)
    <3> HIDE DEF B
    <3> QED BY <2>1, SmallestSet
  <2> QED BY <2>2
<1>3. \A y \in S : y <= i
  <2> SUFFICES ASSUME NEW y \in S, y > i PROVE FALSE
    OBVIOUS
  <2>1. Over(y) \in SUBSET Over(i) /\ y \in Over(i) /\ y \notin Over(y)
    <3>1. (\A j \in S : j > y => j > i) /\ ~(y > y)
      BY <1>0
    <3> QED BY <3>1
  <2>2. Cardinality(Over(i)) <= Cardinality(Over(y))
    BY <1>2
  <2> HIDE DEF Over
  <2>3. Cardinality(Over(y)) <= Cardinality(Over(i)) /\ Cardinality(Over(i)) # Cardinality(Over(y))
    BY <1>1, <2>1, FS_Subset
  <2> QED BY <1>1, <2>2, <2>3
<1>4. \A y \in S : i >= y
  BY <1>0, <1>3
<1>5. Max(S) \in S /\ \A y \in S : Max(S) >= y
  BY <1>4 DEF Max
<1> QED BY <1>0, <1>5

\* What is least is the minimum, what is greatest the maximum.
LEMMA LeastIsMin ==
    ASSUME NEW S \in SUBSET Nat, NEW m \in S
    PROVE  /\ (\A y \in S : m <= y) => Min(S) = m
           /\ (\A y \in S : y <= m) => Max(S) = m
<1>0. \A x \in S : x \in Int /\ x \in Nat
  OBVIOUS
<1>1. ASSUME \A y \in S : m <= y PROVE Min(S) = m
  <2>1. Min(S) \in S /\ \A y \in S : Min(S) <= y
    BY MinIsLeast
  <2>2. PICK x \in S : x = Min(S)
    BY <2>1
  <2>3. x <= m /\ m <= x
    BY <1>1, <2>1, <2>2
  <2> QED BY <2>2, <2>3
<1>2. ASSUME \A y \in S : y <= m PROVE Max(S) = m
  <2>1. \A y \in S : m >= y
    BY <1>0, <1>2
  <2>2. Max(S) \in S /\ \A y \in S : Max(S) >= y
    BY <2>1 DEF Max
  <2>3. PICK x \in S : x = Max(S)
    BY <2>2
  <2>4. x >= m /\ x <= m
    BY <1>2, <2>2, <2>3
  <2> QED BY <2>3, <2>4
<1> QED BY <1>1, <1>2

\* Places are numbers from 1 on and grow with the members.
LEMMA PlacesGrow ==
    ASSUME NEW S \in SUBSET Nat, IsFiniteSet(S), NEW i \in S
    PROVE  /\ Cardinality(Through(S, i)) \in 1..Cardinality(S) /\ Cardinality(S) \in Nat
           /\ IsFiniteSet(Through(S, i))
           /\ \A j \in S : i < j <=> Cardinality(Through(S, i)) < Cardinality(Through(S, j))
<1>0. \A x \in S : x \in Int /\ x \in Nat
  OBVIOUS
<1>1. \A j \in S : /\ Through(S, j) \in SUBSET S /\ j \in Through(S, j)
                   /\ \A x \in S : x < j => /\ Through(S, x) \in SUBSET Through(S, j)
                                            /\ j \notin Through(S, x)
  <2>1. ASSUME NEW j \in S, NEW x \in S, x < j PROVE (\A y \in S : y <= x => y <= j) /\ ~(j <= x)
    BY <2>1
  <2>2. \A j \in S : j <= j
    BY <1>0
  <2> QED BY <2>1, <2>2 DEF Through
<1>2. \A j \in S : /\ IsFiniteSet(Through(S, j)) /\ Cardinality(Through(S, j)) \in Nat
                   /\ Cardinality(Through(S, j)) <= Cardinality(S)
                   /\ Cardinality(Through(S, j)) # 0
  BY <1>1, FS_Subset, FS_CardinalityType, FS_EmptySet
<1>3. \A j, x \in S : x < j => Cardinality(Through(S, x)) < Cardinality(Through(S, j))
  <2> SUFFICES ASSUME NEW j \in S, NEW x \in S, x < j
               PROVE  Cardinality(Through(S, x)) < Cardinality(Through(S, j))
    OBVIOUS
  <2>1. PICK X, J : X = Through(S, x) /\ J = Through(S, j)
    OBVIOUS
  <2>2. X \in SUBSET J /\ X # J /\ IsFiniteSet(J) /\ Cardinality(X) \in Nat /\ Cardinality(J) \in Nat
    BY <1>1, <1>2, <2>1
  <2>3. Cardinality(X) <= Cardinality(J) /\ Cardinality(X) # Cardinality(J)
    BY <2>2, FS_Subset
  <2> QED BY <2>1, <2>2, <2>3
<1>4. Cardinality(S) \in Nat
  BY FS_CardinalityType
<1>5. ASSUME NEW j \in S, Cardinality(Through(S, i)) < Cardinality(Through(S, j)) PROVE i < j
  <2>1. i # j
    BY <1>2, <1>5
  <2>2. ~(j < i)
    BY <1>2, <1>3, <1>5
  <2> QED BY <1>0, <2>1, <2>2
<1> QED BY <1>2, <1>3, <1>4, <1>5

\* Every place is taken: the least member whose place is not before k is at k, since
\* the member before it would not be before k either.
LEMMA PlacesAreTaken ==
    ASSUME NEW S \in SUBSET Nat, IsFiniteSet(S), NEW k \in 1..Cardinality(S)
    PROVE  \E i \in S : Cardinality(Through(S, i)) = k
<1>0. \A x \in S : x \in Int /\ x \in Nat
  OBVIOUS
<1> DEFINE late == {i \in S : k <= Cardinality(Through(S, i))}
<1>1. Cardinality(S) \in Nat /\ k \in Nat /\ S # {}
  BY FS_CardinalityType, FS_EmptySet
<1>2. late \in SUBSET Nat /\ late # {}
  <2>1. Max(S) \in S /\ \A y \in S : y <= Max(S)
    BY <1>1, MaxIsGreatest
  <2>2. Through(S, Max(S)) = S
    BY <2>1 DEF Through
  <2>3. Max(S) \in late
    BY <1>1, <2>1, <2>2
  <2> QED BY <2>3
<1>3. PICK i \in late : \A y \in late : i <= y
  <2> HIDE DEF late
  <2> QED BY <1>2, MinIsLeast
<1>4. PICK T : T = Through(S, i) \ {i}
  OBVIOUS
<1>5. i \in S /\ i \in Through(S, i) /\ T \in SUBSET S /\ \A y \in T : y < i
  BY <1>0, <1>3, <1>4 DEF Through
<1>6. IsFiniteSet(T) /\ Cardinality(T) = Cardinality(Through(S, i)) - 1 /\ Cardinality(Through(S, i)) \in Nat
  BY <1>4, <1>5, PlacesGrow, FS_RemoveElement
<1>7. SUFFICES ASSUME Cardinality(Through(S, i)) # k PROVE FALSE
  BY <1>5
<1>8. k <= Cardinality(T)
  BY <1>1, <1>3, <1>6, <1>7
<1>9. T # {}
  BY <1>1, <1>8, FS_EmptySet
<1>10. PICK p \in T : \A y \in T : y <= p
  BY <1>5, <1>6, <1>9, MaxIsGreatest
<1>11. Through(S, p) = T
  <2>1. p \in S /\ p < i
    BY <1>5, <1>10
  <2>2. ASSUME NEW y \in S PROVE y <= p <=> (y <= i /\ y # i)
    <3>1. CASE y \in T
      BY <1>5, <1>10, <2>1, <3>1
    <3>2. CASE y \notin T
      <4>1. ~(y <= i /\ y # i)
        BY <1>4, <3>2 DEF Through
      <4>2. ~(y <= p)
        BY <1>3, <2>1, <4>1
      <4> QED BY <4>1, <4>2
    <3> QED BY <3>1, <3>2
  <2> QED BY <1>4, <2>2 DEF Through
<1>12. p \in late /\ p < i
  BY <1>5, <1>8, <1>10, <1>11
<1> QED BY <1>0, <1>3, <1>5, <1>12

\* InOrder has each member at its place.
LEMMA InOrderHasPlaces ==
    ASSUME NEW S \in SUBSET Nat, IsFiniteSet(S)
    PROVE  /\ InOrder(S) \in Seq(S) /\ Len(InOrder(S)) = Cardinality(S) /\ Cardinality(S) \in Nat
           /\ \A k \in 1..Cardinality(S) :
                 InOrder(S)[k] \in S /\ Cardinality(Through(S, InOrder(S)[k])) = k
           /\ \A i \in S : InOrder(S)[Cardinality(Through(S, i))] = i
<1>0. \A x \in S : x \in Int /\ x \in Nat
  OBVIOUS
<1> DEFINE PlaceOf(k) == CHOOSE i \in S : Cardinality({j \in S : j <= i}) = k
<1>1. Cardinality(S) \in Nat
  BY FS_CardinalityType
<1>2. \A k \in 1..Cardinality(S) : PlaceOf(k) \in S /\ Cardinality(Through(S, PlaceOf(k))) = k
  BY PlacesAreTaken DEF Through
<1>3. InOrder(S) = [k \in 1..Cardinality(S) |-> PlaceOf(k)]
  BY DEF InOrder
<1> HIDE DEF PlaceOf
<1>4. InOrder(S) \in [1..Cardinality(S) -> S] /\ \A k \in 1..Cardinality(S) : InOrder(S)[k] = PlaceOf(k)
  BY <1>2, <1>3
<1>5. InOrder(S) \in Seq(S) /\ Len(InOrder(S)) = Cardinality(S)
  BY <1>1, <1>4
<1>6. ASSUME NEW i \in S PROVE InOrder(S)[Cardinality(Through(S, i))] = i
  <2>1. PICK k : k = Cardinality(Through(S, i))
    OBVIOUS
  <2>2. k \in 1..Cardinality(S)
    BY <2>1, PlacesGrow
  <2>3. PICK x \in S : x = InOrder(S)[k] /\ Cardinality(Through(S, x)) = k
    BY <1>2, <1>4, <2>2
  <2>4. ~(x < i) /\ ~(i < x)
    <3>1. k \in Int
      BY <1>1, <2>2
    <3>2. x < i <=> Cardinality(Through(S, x)) < Cardinality(Through(S, i))
      BY PlacesGrow
    <3>3. i < x <=> Cardinality(Through(S, i)) < Cardinality(Through(S, x))
      BY PlacesGrow
    <3> QED BY <2>1, <2>3, <3>1, <3>2, <3>3
  <2> QED BY <1>0, <2>1, <2>3, <2>4
<1> QED BY <1>1, <1>2, <1>4, <1>5, <1>6

\* It begins with the least member, ends with the greatest one, and goes from each
\* to the next greater one.
LEMMA InOrderAscends ==
    ASSUME NEW S \in SUBSET Nat, IsFiniteSet(S), S # {}
    PROVE  /\ Cardinality(S) \in Nat /\ Cardinality(S) >= 1
           /\ InOrder(S)[1] = Min(S)
           /\ InOrder(S)[Cardinality(S)] = Max(S)
           /\ \A k \in 1..(Cardinality(S) - 1) :
                 /\ InOrder(S)[k] # Max(S)
                 /\ InOrder(S)[k + 1] = Min({i \in S : i > InOrder(S)[k]})
<1>0. \A x \in S : x \in Int /\ x \in Nat
  OBVIOUS
<1>1. PICK s : s = InOrder(S)
  OBVIOUS
<1>2. /\ Cardinality(S) \in Nat /\ Cardinality(S) >= 1
      /\ \A k \in 1..Cardinality(S) : s[k] \in S /\ Cardinality(Through(S, s[k])) = k
  BY <1>1, InOrderHasPlaces, FS_EmptySet
<1>3. \A i, j \in S : i < j <=> Cardinality(Through(S, i)) < Cardinality(Through(S, j))
  BY PlacesGrow
<1>4. \A i \in S : Cardinality(Through(S, i)) \in 1..Cardinality(S)
  BY PlacesGrow
<1>5. \A k \in 1..Cardinality(S), i \in S : /\ (i < s[k]) <=> (Cardinality(Through(S, i)) < k)
                                            /\ (s[k] < i) <=> (k < Cardinality(Through(S, i)))
  <2> SUFFICES ASSUME NEW k \in 1..Cardinality(S), NEW i \in S
               PROVE  /\ (i < s[k]) <=> (Cardinality(Through(S, i)) < k)
                      /\ (s[k] < i) <=> (k < Cardinality(Through(S, i)))
    OBVIOUS
  <2>1. PICK x \in S : x = s[k] /\ Cardinality(Through(S, x)) = k
    BY <1>2
  <2> QED BY <1>3, <2>1
<1>6. s[1] = Min(S)
  <2>1. s[1] \in S /\ \A y \in S : ~(y < s[1])
    BY <1>2, <1>4, <1>5
  <2>2. \A y \in S : s[1] <= y
    <3>1. PICK x \in S : x = s[1]
      BY <2>1
    <3> QED BY <2>1, <3>1
  <2> QED BY <2>1, <2>2, LeastIsMin
<1>7. s[Cardinality(S)] = Max(S)
  <2>1. PICK c : c = Cardinality(S)
    OBVIOUS
  <2>2. s[c] \in S /\ \A y \in S : ~(s[c] < y)
    BY <1>2, <1>4, <1>5, <2>1
  <2>3. \A y \in S : y <= s[c]
    <3>1. PICK x \in S : x = s[c]
      BY <2>2
    <3> QED BY <2>2, <3>1
  <2> QED BY <2>1, <2>2, <2>3, LeastIsMin
<1>8. ASSUME NEW k \in 1..(Cardinality(S) - 1)
      PROVE  s[k] # Max(S) /\ s[k + 1] = Min({i \in S : i > s[k]})
  <2>1. k \in 1..Cardinality(S) /\ k + 1 \in 1..Cardinality(S) /\ k < k + 1 /\ k \in Int
    BY <1>2
  <2>2. s[k] \in S /\ s[k + 1] \in S /\ s[k] < s[k + 1]
    BY <1>2, <1>5, <2>1
  <2>3. \A y \in S : s[k] < y => ~(y < s[k + 1])
    BY <1>4, <1>5, <2>1
  <2>4. PICK T : T = {i \in S : i > s[k]}
    OBVIOUS
  <2>5. s[k + 1] \in T /\ T \in SUBSET Nat /\ \A y \in T : s[k + 1] <= y
    <3>1. PICK x \in S, y \in S : x = s[k] /\ y = s[k + 1] /\ x < y
      BY <2>2
    <3>2. \A z \in S : z > x => y <= z
      BY <2>3, <3>1
    <3> QED BY <2>4, <3>1, <3>2
  <2>6. Min(T) = s[k + 1]
    BY <2>5, LeastIsMin
  <2>7. Max(S) \in S /\ \A y \in S : y <= Max(S)
    BY MaxIsGreatest
  <2>8. s[k] # Max(S)
    <3>1. PICK x \in S, y \in S : x = s[k] /\ y = s[k + 1] /\ x < y
      BY <2>2
    <3> QED BY <2>7, <3>1
  <2> QED BY <2>4, <2>6, <2>8
<1> QED BY <1>1, <1>2, <1>6, <1>7, <1>8

\* One sequence after another.
LEMMA OneAfterAnother ==
    ASSUME NEW T, NEW s \in Seq(T), NEW t \in Seq(T)
    PROVE  /\ s \o t \in Seq(T) /\ Len(s \o t) = Len(s) + Len(t)
           /\ \A k \in 1..Len(s) : (s \o t)[k] = s[k]
           /\ \A k \in 1..Len(t) : (s \o t)[Len(s) + k] = t[k]
OBVIOUS

\* The members from one of them on, and then the others.
Rotated(W, index) == InOrder({i \in W : i >= index}) \o InOrder({i \in W : i < index})

\* The member after another one, around the end of the order.
After(W, x) == IF x = Max(W) THEN Min(W) ELSE Min({i \in W : i > x})

\* These are all of them, in their order rotated.
LEMMA RotationIsOrder ==
    ASSUME NEW W \in SUBSET Nat, IsFiniteSet(W), NEW index \in W,
           NEW r, r = Rotated(W, index)
    PROVE  /\ r \in Seq(W) /\ Len(r) = Cardinality(W) /\ r[1] = index /\ Len(r) >= 1
           /\ \A k \in 1..(Len(r) - 1) : r[k + 1] = After(W, r[k])
<1>1. PICK H, L : H = {i \in W : i >= index} /\ L = {i \in W : i < index}
  OBVIOUS
<1>2. /\ \A i \in W : i \in H \/ i \in L
      /\ \A i \in H : i \in W /\ i >= index /\ i \notin L
      /\ \A i \in L : i \in W /\ i < index
      /\ index \in H
  <2>1. \A i \in W : /\ i >= index \/ i < index
                     /\ ~(i >= index /\ i < index) /\ index >= index
    OBVIOUS
  <2> QED BY <1>1, <2>1
<1>3. /\ H \in SUBSET Nat /\ H \in SUBSET W /\ IsFiniteSet(H) /\ H # {}
      /\ L \in SUBSET Nat /\ L \in SUBSET W /\ IsFiniteSet(L)
  BY <1>2, FS_Subset
<1>4. Cardinality(W) = Cardinality(H) + Cardinality(L)
  <2>1. H \union L = W /\ H \intersect L = {}
    BY <1>2
  <2>2. Cardinality(H \union L) = Cardinality(H) + Cardinality(L) - Cardinality(H \intersect L)
    BY <1>3, FS_Union
  <2>3. Cardinality(W) = Cardinality(H) + Cardinality(L) - Cardinality({})
    BY <2>1, <2>2, Zenon
  <2>4. Cardinality(H) \in Nat /\ Cardinality(L) \in Nat /\ Cardinality({}) = 0
    BY <1>3, FS_CardinalityType, FS_EmptySet
  <2> QED BY <2>4, <2>3
<1>5. PICK s, t, h, l : s = InOrder(H) /\ t = InOrder(L) /\ h = Cardinality(H) /\ l = Cardinality(L)
  OBVIOUS
<1>6. /\ s \in Seq(H) /\ Len(s) = h /\ h \in Nat /\ h >= 1
      /\ t \in Seq(L) /\ Len(t) = l /\ l \in Nat
      /\ \A k \in 1..h : s[k] \in H
      /\ \A k \in 1..l : t[k] \in L
  BY <1>3, <1>5, InOrderHasPlaces, InOrderAscends
<1>7. /\ s[1] = Min(H) /\ s[h] = Max(H)
      /\ \A k \in 1..(h - 1) : s[k] # Max(H) /\ s[k + 1] = Min({i \in H : i > s[k]})
  <2>1. /\ InOrder(H)[1] = Min(H) /\ InOrder(H)[Cardinality(H)] = Max(H)
        /\ \A k \in 1..(Cardinality(H) - 1) :
              InOrder(H)[k] # Max(H) /\ InOrder(H)[k + 1] = Min({i \in H : i > InOrder(H)[k]})
    BY <1>3, InOrderAscends, Zenon
  <2> QED BY <1>5, <2>1, Zenon
<1>8. \A k \in 1..l : Cardinality(Through(L, t[k])) = k
  BY <1>3, <1>5, InOrderHasPlaces
<1>9. L # {} => /\ t[1] = Min(L)
                /\ \A k \in 1..(l - 1) : t[k + 1] = Min({i \in L : i > t[k]})
  <2>1. L # {} =>
          /\ InOrder(L)[1] = Min(L)
          /\ \A k \in 1..(Cardinality(L) - 1) : InOrder(L)[k + 1] = Min({i \in L : i > InOrder(L)[k]})
    BY <1>3, InOrderAscends, Zenon
  <2> QED BY <1>5, <2>1, Zenon
<1>10. r = s \o t
  BY <1>1, <1>5 DEF Rotated
<1>11. /\ r \in Seq(W) /\ Len(r) = h + l
       /\ \A k \in 1..h : r[k] = s[k]
       /\ \A k \in 1..l : r[h + k] = t[k]
  <2>1. ASSUME NEW S \in SUBSET W, NEW x \in Seq(S) PROVE x \in Seq(W)
    <3>1. Len(x) \in Nat /\ x \in [1..Len(x) -> S]
      OBVIOUS
    <3>2. x \in [1..Len(x) -> W]
      BY <3>1
    <3> QED BY <3>1, <3>2
  <2>2. s \in Seq(W) /\ t \in Seq(W)
    BY <1>3, <1>6, <2>1
  <2>3. /\ s \o t \in Seq(W) /\ Len(s \o t) = Len(s) + Len(t)
        /\ \A k \in 1..Len(s) : (s \o t)[k] = s[k]
        /\ \A k \in 1..Len(t) : (s \o t)[Len(s) + k] = t[k]
    BY <2>2, OneAfterAnother
  <2> QED BY <1>6, <1>10, <2>3, Zenon
<1>12. r[1] = index
  <2>1. s[1] = Min(H) /\ 1 \in 1..h
    BY <1>6, <1>7
  <2>2. \A y \in H : index <= y
    BY <1>2, <1>3
  <2>3. Min(H) = index
    BY <1>2, <1>3, <2>2, LeastIsMin
  <2> QED BY <1>11, <2>1, <2>3
<1>13. Max(W) = Max(H)
  <2>1. PICK m \in H : m = Max(H) /\ \A y \in H : y <= m
    BY <1>3, MaxIsGreatest
  <2>2. \A y \in W : y <= m
    <3> SUFFICES ASSUME NEW y \in W PROVE y <= m
      OBVIOUS
    <3>1. CASE y \in H
      BY <2>1, <3>1
    <3>2. CASE y \in L
      <4>1. y \in Nat /\ m \in Nat /\ index \in Nat /\ y < index /\ m >= index
        BY <1>2, <1>3, <2>1, <3>2
      <4> QED BY <4>1
    <3> QED BY <1>2, <3>1, <3>2
  <2>3. m \in W
    BY <1>2
  <2> QED BY <2>1, <2>2, <2>3, LeastIsMin
<1>14. ASSUME NEW k \in 1..(Len(r) - 1)
       PROVE  r[k + 1] = (IF r[k] = Max(W) THEN Min(W) ELSE Min({i \in W : i > r[k]}))
  <2>1. CASE k < h
    <3>1. k \in 1..(h - 1) /\ k \in 1..h /\ k + 1 \in 1..h
      BY <1>6, <1>11, <2>1
    <3>2. PICK a \in H : a = s[k]
      BY <1>6, <3>1
    <3>3. a # Max(H) /\ s[k + 1] = Min({i \in H : i > a})
      BY <1>7, <3>1, <3>2
    <3>4. {i \in H : i > a} = {i \in W : i > a}
      <4>1. ASSUME NEW i \in W PROVE (i > a) => i \in H
        <5>1. i \in Nat /\ a \in Nat /\ index \in Nat /\ a >= index
          BY <1>2, <1>3
        <5>2. i \in L => i < index
          BY <1>2
        <5> QED BY <1>2, <5>1, <5>2
      <4> QED BY <1>2, <4>1
    <3>5. r[k] = a /\ r[k + 1] = s[k + 1]
      BY <1>11, <3>1, <3>2
    <3> QED BY <1>13, <3>3, <3>4, <3>5
  <2>2. CASE k = h
    <3>1. h \in 1..h /\ 1 \in 1..l /\ r[k + 1] = r[h + 1]
      BY <1>6, <1>11, <2>2
    <3>2. r[k] = s[h] /\ r[h + 1] = t[1]
      BY <1>11, <2>2, <3>1
    <3>3. L # {}
      BY <1>6, <3>1
    <3>4. s[h] = Max(H) /\ t[1] = Min(L)
      BY <1>7, <1>9, <3>3
    <3>5. Min(W) = Min(L)
      <4>1. PICK m \in L : m = Min(L) /\ \A y \in L : m <= y
        BY <1>3, <3>3, MinIsLeast
      <4>2. \A y \in W : m <= y
        <5> SUFFICES ASSUME NEW y \in W PROVE m <= y
          OBVIOUS
        <5>1. CASE y \in L
          BY <4>1, <5>1
        <5>2. CASE y \in H
          <6>1. y \in Nat /\ m \in Nat /\ index \in Nat /\ m < index /\ y >= index
            BY <1>2, <1>3, <4>1, <5>2
          <6> QED BY <6>1
        <5> QED BY <1>2, <5>1, <5>2
      <4>3. m \in W
        BY <1>2
      <4> QED BY <4>1, <4>2, <4>3, LeastIsMin
    <3> QED BY <1>13, <3>1, <3>2, <3>4, <3>5
  <2>3. CASE k > h
    <3>1. PICK j : j = k - h
      OBVIOUS
    <3>2. j \in 1..(l - 1) /\ j \in 1..l /\ j + 1 \in 1..l /\ k = h + j /\ k + 1 = h + (j + 1)
      BY <1>6, <1>11, <2>3, <3>1
    <3>3. r[k] = t[j] /\ r[k + 1] = t[j + 1]
      <4>1. r[h + j] = t[j] /\ r[h + (j + 1)] = t[j + 1]
        BY <1>11, <3>2
      <4> QED BY <3>2, <4>1
    <3>4. PICK a \in L : a = t[j]
      BY <1>6, <3>2
    <3>5. PICK T : T = {i \in L : i > a}
      OBVIOUS
    <3>6. t[j + 1] = Min(T)
      BY <1>9, <3>2, <3>4, <3>5
    <3>7. PICK b \in L : b = t[j + 1]
      BY <1>6, <3>2
    <3>8. a < b
      <4>1. Cardinality(Through(L, a)) = j /\ Cardinality(Through(L, b)) = j + 1 /\ j \in Int
        BY <1>8, <3>2, <3>4, <3>7
      <4>2. a < b <=> Cardinality(Through(L, a)) < Cardinality(Through(L, b))
        BY <1>3, PlacesGrow
      <4> QED BY <4>1, <4>2
    <3>9. \A i \in T : b <= i
      <4>1. T \in SUBSET Nat /\ T # {}
        BY <1>3, <3>5, <3>7, <3>8
      <4> QED BY <3>6, <3>7, <4>1, MinIsLeast
    <3>10. PICK U : U = {i \in W : i > a}
      OBVIOUS
    <3>11. b \in U /\ U \in SUBSET Nat
      BY <1>2, <3>7, <3>8, <3>10
    <3>12. \A i \in U : b <= i
      <4> SUFFICES ASSUME NEW i \in U PROVE b <= i
        OBVIOUS
      <4>1. i \in W /\ i > a
        BY <3>10
      <4>2. CASE i \in L
        BY <3>5, <3>9, <4>1, <4>2
      <4>3. CASE i \in H
        <5>1. i \in Nat /\ b \in Nat /\ index \in Nat /\ b < index /\ i >= index
          BY <1>2, <1>3, <4>3
        <5> QED BY <5>1
      <4> QED BY <1>2, <4>1, <4>2, <4>3
    <3>13. Min(U) = b
      BY <3>11, <3>12, LeastIsMin
    <3>14. a # Max(W)
      <4>1. PICK m \in W : m = Max(W) /\ \A y \in W : y <= m
        BY MaxIsGreatest
      <4>2. b <= m /\ a \in Nat /\ b \in Nat /\ m \in Nat
        BY <1>2, <1>3, <4>1
      <4> QED BY <3>8, <4>1, <4>2
    <3> QED BY <3>3, <3>4, <3>7, <3>10, <3>13, <3>14
  <2>4. k < h \/ k = h \/ k > h
    BY <1>6, <1>11
  <2> QED BY <2>1, <2>2, <2>3, <2>4
<1>15. Len(r) = Cardinality(W) /\ Len(r) >= 1
  BY <1>4, <1>5, <1>6, <1>11
<1> QED BY <1>11, <1>12, <1>14, <1>15 DEF After

\* The remainder is one of the numbers below the divisor, and is its own remainder.
LEMMA Remainder ==
    ASSUME NEW x \in Nat, NEW m \in Nat, m > 0
    PROVE  /\ x % m \in 0..(m - 1)
           /\ x < m => x % m = x
           /\ (x % m) % m = x % m
<1>1. PICK y : y = x % m
  OBVIOUS
<1>2. y \in Nat /\ y < m
  BY <1>1
<1>3. y % m = y /\ (x < m => x % m = x)
  BY <1>2
<1> QED BY <1>1, <1>2, <1>3

\* By turn, orderIps begins with the address at the place of the turn.
LEMMA StartByTurn ==
    ASSUME NEW W \in SUBSET Nat, IsFiniteSet(W), W # {}, NEW data, NEW order, NEW now \in Nat,
           order = "rr" \/ (order = "weighted" /\ Weights(data, W) = 0)
    PROVE  /\ Start(data, order, W, now) = InOrder(W)[(now % Cardinality(W)) + 1]
           /\ Start(data, order, W, now) \in W
<1>1. Cardinality(W) \in Nat /\ Cardinality(W) > 0
  BY FS_CardinalityType, FS_EmptySet
<1>2. Start(data, order, W, now) = InOrder(W)[(now % Cardinality(W)) + 1]
  BY DEF Start
<1>3. (now % Cardinality(W)) + 1 \in 1..Cardinality(W)
  <2>1. now % Cardinality(W) \in 0..(Cardinality(W) - 1)
    BY <1>1, Remainder
  <2> QED BY <1>1, <2>1
<1> QED BY <1>2, <1>3, InOrderHasPlaces

\* By weight, it begins with the first of the addresses that the turn does not pass
\* over.
NotPassed(data, W, turn) == {i \in W : turn < Weights(data, Through(W, i))}

LEMMA StartIsNotPassed ==
    ASSUME NEW W, NEW data, NEW order, order = "weighted", NEW now, NEW sum,
           sum = Weights(data, W), sum > 0, NEW turn, turn = now % sum
    PROVE  Start(data, order, W, now) = Min(NotPassed(data, W, turn))
BY DEF Start, NotPassed, Through

LEMMA StartByWeight ==
    ASSUME NEW W \in SUBSET Nat, IsFiniteSet(W), W # {}, NEW data, NEW now \in Nat,
           \A i \in W : data[i].weight \in Int, Weights(data, W) > 0
    PROVE  LET start == Start(data, "weighted", W, now)
               turn == now % Weights(data, W)
           IN /\ start \in W /\ turn < Weights(data, Through(W, start))
              /\ \A i \in W : turn < Weights(data, Through(W, i)) => start <= i
<1>1. PICK sum : sum = Weights(data, W)
  OBVIOUS
<1>2. sum \in Nat /\ sum > 0
  <2>1. Weights(data, W) \in Int
    BY WeightsAddUp
  <2> QED BY <1>1, <2>1
<1>3. PICK turn : turn = now % sum
  OBVIOUS
<1>4. turn \in 0..(sum - 1)
  BY <1>2, <1>3, Remainder
<1>5. PICK C : C = NotPassed(data, W, turn)
  OBVIOUS
<1>6. Start(data, "weighted", W, now) = Min(C)
  BY <1>1, <1>2, <1>3, <1>5, StartIsNotPassed
<1>7. C # {} /\ C \in SUBSET Nat
  <2>1. PICK m \in W : \A y \in W : y <= m
    BY MaxIsGreatest
  <2>2. Through(W, m) = W
    BY <2>1 DEF Through
  <2>3. m \in C
    BY <1>1, <1>2, <1>4, <1>5, <2>2 DEF NotPassed
  <2> QED BY <1>5, <2>3 DEF NotPassed
<1>8. Min(C) \in C /\ \A y \in C : Min(C) <= y
  BY <1>7, MinIsLeast
<1> QED BY <1>1, <1>3, <1>5, <1>6, <1>8 DEF NotPassed

\* It always begins with an eligible address.
LEMMA StartIsEligible ==
    ASSUME NEW W \in SUBSET Nat, IsFiniteSet(W), W # {}, NEW data, NEW order, NEW now \in Nat,
           \A i \in W : data[i].weight \in Int
    PROVE  Start(data, order, W, now) \in W
<1>1. CASE order = "weighted" /\ Weights(data, W) > 0
  BY <1>1, StartByWeight
<1>2. CASE order = "rr" \/ (order = "weighted" /\ Weights(data, W) = 0)
  BY <1>2, StartByTurn
<1>3. CASE ~(order = "weighted" /\ Weights(data, W) > 0)
           /\ ~(order = "rr" \/ (order = "weighted" /\ Weights(data, W) = 0))
  <2>1. Start(data, order, W, now) = Min(W)
    BY <1>3 DEF Start
  <2> QED BY <2>1, MinIsLeast
<1> QED BY <1>1, <1>2, <1>3

\* The turns of m at which orderIps begins with an address.
TurnsOf(data, order, W, i, m) == {turn \in 0..(m - 1) : Start(data, order, W, turn) = i}

\* One turn in every round is an address's by turn.
LEMMA TurnsByTurn ==
    ASSUME NEW W \in SUBSET Nat, IsFiniteSet(W), W # {}, NEW data, NEW order, NEW i \in W,
           order = "rr" \/ (order = "weighted" /\ Weights(data, W) = 0)
    PROVE  Cardinality(TurnsOf(data, order, W, i, Cardinality(W))) = 1
<1>1. PICK n, p : n = Cardinality(W) /\ p = Cardinality(Through(W, i))
  OBVIOUS
<1>2. n \in Nat /\ n > 0 /\ p \in 1..n
  BY <1>1, FS_EmptySet, PlacesGrow
<1>3. ASSUME NEW turn \in 0..(n - 1) PROVE Start(data, order, W, turn) = i <=> turn = p - 1
  <2>1. turn \in Nat /\ turn % n = turn /\ turn + 1 \in 1..n
    BY <1>2, Remainder
  <2>2. Start(data, order, W, turn) = InOrder(W)[turn + 1]
    BY <1>1, <2>1, StartByTurn
  <2>3. Cardinality(Through(W, InOrder(W)[turn + 1])) = turn + 1 /\ InOrder(W)[p] = i
    BY <1>1, <2>1, InOrderHasPlaces
  <2>4. CASE Start(data, order, W, turn) = i
    BY <1>1, <1>2, <2>1, <2>2, <2>3, <2>4
  <2>5. CASE turn = p - 1
    <3>1. turn + 1 = p
      BY <1>2, <2>5
    <3> QED BY <2>2, <2>3, <2>5, <3>1
  <2> QED BY <2>4, <2>5
<1>4. {turn \in 0..(n - 1) : Start(data, order, W, turn) = i} = {p - 1}
  <2>1. p - 1 \in 0..(n - 1)
    BY <1>2
  <2> QED BY <1>3, <2>1
<1> QED BY <1>1, <1>4, FS_Singleton DEF TurnsOf

\* As many turns are an address's by weight as it weighs: those from the weight of
\* the addresses before it to their weight together with its own.
LEMMA TurnsByWeight ==
    ASSUME NEW W \in SUBSET Nat, IsFiniteSet(W), W # {}, NEW data, NEW i \in W,
           \A j \in W : data[j].weight \in Nat, Weights(data, W) > 0
    PROVE  Cardinality(TurnsOf(data, "weighted", W, i, Weights(data, W))) = data[i].weight
<1>1. PICK sum, T, L : sum = Weights(data, W) /\ T = Through(W, i) /\ L = T \ {i}
  OBVIOUS
<1>2. T \in SUBSET W /\ i \in T /\ L \in SUBSET W /\ L \in SUBSET Nat
  <2>1. i <= i
    OBVIOUS
  <2> QED BY <1>1, <2>1 DEF Through
<1>3. IsFiniteSet(T) /\ IsFiniteSet(L)
  BY <1>2, FS_Subset
<1>4. PICK before, upTo : before = Weights(data, L) /\ upTo = Weights(data, T)
  OBVIOUS
<1>5. /\ sum \in Nat /\ before \in Nat /\ upTo \in Nat /\ upTo <= sum
      /\ \A S \in SUBSET W : Weights(data, S) \in Nat
  BY <1>1, <1>2, <1>4, WeightsGrow
<1>6. upTo = data[i].weight + before /\ data[i].weight \in Nat
  <2>1. \A j \in T : data[j].weight \in Int
    <3> SUFFICES ASSUME NEW j \in T PROVE data[j].weight \in Int
      OBVIOUS
    <3>1. j \in W
      BY <1>2
    <3>2. data[j].weight \in Nat
      BY <3>1
    <3> QED BY <3>2
  <2>2. \A j \in T : Weights(data, T) = data[j].weight + Weights(data, T \ {j})
    BY <1>3, <2>1, WeightsAddUp
  <2>3. Weights(data, T) = data[i].weight + Weights(data, T \ {i})
    BY <1>2, <2>2
  <2> QED BY <1>1, <1>4, <2>3
<1>7. ASSUME NEW j \in W, j < i PROVE Weights(data, Through(W, j)) <= before
  <2>1. Through(W, j) \in SUBSET L
    <3>1. \A y \in W : y <= j => y <= i /\ y # i
      BY <1>7
    <3> QED BY <1>1, <3>1 DEF Through
  <2>2. \A k \in L : data[k].weight \in Nat
    BY <1>2
  <2> QED BY <1>3, <1>4, <2>1, <2>2, WeightsGrow
<1>8. L = {} => before = 0
  BY <1>3, <1>4, WeightsAddUp
<1>9. ASSUME L # {} PROVE \E j \in W : j < i /\ Through(W, j) = L
  <2>1. PICK p \in L : \A y \in L : y <= p
    BY <1>2, <1>3, <1>9, MaxIsGreatest
  <2>2. p \in W /\ p <= i /\ p # i
    BY <1>1, <2>1 DEF Through
  <2>3. p < i
    <3>1. p \in Nat /\ i \in Nat
      BY <2>2
    <3> QED BY <2>2, <3>1
  <2>4. ASSUME NEW y \in W PROVE y <= p <=> y \in L
    <3>1. y \in L <=> (y <= i /\ y # i)
      BY <1>1 DEF Through
    <3>2. CASE y \in L
      BY <2>1, <3>2
    <3>3. CASE y \notin L
      BY <2>2, <2>3, <3>1, <3>3
    <3> QED BY <3>2, <3>3
  <2>5. Through(W, p) = L
    BY <1>2, <2>4 DEF Through
  <2> QED BY <2>2, <2>3, <2>5
<1>10. ASSUME NEW turn \in 0..(sum - 1)
       PROVE  Start(data, "weighted", W, turn) = i <=> turn \in before..(upTo - 1)
  <2>1. PICK s : s = Start(data, "weighted", W, turn)
    OBVIOUS
  <2>2. turn \in Nat /\ turn % sum = turn /\ sum > 0
    BY <1>1, <1>5, Remainder
  <2>3. /\ s \in W /\ turn < Weights(data, Through(W, s))
        /\ \A j \in W : turn < Weights(data, Through(W, j)) => s <= j
    BY <1>1, <2>1, <2>2, StartByWeight
  <2>4. ASSUME s = i PROVE turn \in before..(upTo - 1)
    <3>1. turn < upTo
      BY <1>1, <1>4, <2>3, <2>4
    <3>2. before <= turn
      <4>1. CASE L = {}
        BY <1>8, <2>2, <4>1
      <4>2. CASE L # {}
        <5>1. PICK j \in W : j < i /\ Through(W, j) = L
          BY <1>9, <4>2
        <5>2. ~(s <= j)
          BY <2>4, <5>1
        <5>3. ~(turn < before)
          BY <1>4, <2>3, <5>1, <5>2
        <5> QED BY <1>5, <2>2, <5>3
      <4> QED BY <4>1, <4>2
    <3> QED BY <1>5, <2>2, <3>1, <3>2
  <2>5. ASSUME turn \in before..(upTo - 1) PROVE s = i
    <3>1. before <= turn /\ turn < upTo
      BY <1>5, <2>2, <2>5
    <3>2. s <= i
      BY <1>1, <1>4, <2>3, <3>1
    <3>3. ~(s < i)
      <4> SUFFICES ASSUME s < i PROVE FALSE
        OBVIOUS
      <4>1. PICK w : w = Weights(data, Through(W, s))
        OBVIOUS
      <4>2. w <= before /\ turn < w /\ w \in Nat
        <5>1. Through(W, s) \in SUBSET W
          BY DEF Through
        <5> QED BY <1>5, <1>7, <2>3, <4>1, <5>1
      <4> QED BY <1>5, <2>2, <3>1, <4>2
    <3> QED BY <2>3, <3>2, <3>3
  <2> QED BY <2>1, <2>4, <2>5
<1>11. {turn \in 0..(sum - 1) : Start(data, "weighted", W, turn) = i} = before..(upTo - 1)
  <2>1. \A turn \in before..(upTo - 1) : turn \in 0..(sum - 1)
    BY <1>5
  <2> QED BY <1>10, <2>1
<1>12. Cardinality(before..(upTo - 1)) = data[i].weight
  <2>1. Cardinality(before..(upTo - 1)) = IF before > upTo - 1 THEN 0 ELSE (upTo - 1) - before + 1
    BY <1>5, FS_Interval
  <2>2. PICK w \in Nat : w = data[i].weight /\ upTo = w + before
    BY <1>6
  <2>3. (IF before > upTo - 1 THEN 0 ELSE (upTo - 1) - before + 1) = w
    BY <1>5, <2>2
  <2> QED BY <2>1, <2>2, <2>3
<1> QED BY <1>1, <1>11, <1>12 DEF TurnsOf

\* orderIps gives the eligible addresses in a fair order, for every record set of
\* any size and weights, every mask, order and count, and every length of a second.
THEOREM OrderIpsIsFair ==
    ASSUME LastNanosecond \in Nat, NEW c, NEW n \in Nat, DOMAIN c.mask = 1..n,
           \A i \in 1..n : c.data[i].weight \in Int
    PROVE  FairOrder(c)
<1>1. PICK data, order : data = c.data /\ order = c.order
  OBVIOUS
<1>2. PICK W : W = White(c.mask)
  OBVIOUS
<1>3. W \in SUBSET (1..n) /\ W \in SUBSET Nat /\ \A i \in W : data[i].weight \in Int
  BY <1>1, <1>2 DEF White, Coloured
<1>4. IsFiniteSet(W) /\ Cardinality(W) \in Nat /\ (W = {} <=> Cardinality(W) = 0)
  <2>1. IsFiniteSet(1..n)
    <3>1. 1 \in Int /\ n \in Int
      OBVIOUS
    <3> QED BY <3>1, FS_Interval
  <2>2. PICK D : D = 1..n /\ IsFiniteSet(D)
    BY <2>1
  <2>3. IsFiniteSet(W)
    BY <1>3, <2>2, FS_Subset
  <2> QED BY <2>3, FS_CardinalityType, FS_EmptySet
<1>5. ASSUME NEW now \in Nat, W # {}, NEW index, index = Start(data, order, W, now),
             NEW given, given = Ordered(c, now)
      PROVE  /\ index \in W /\ given[1] = index
             /\ c.count = "single" => given = <<index>>
             /\ c.count # "single" => given = Rotated(W, index)
  <2>1. given = IF c.count = "single" THEN <<index>> ELSE Rotated(W, index)
    BY <1>1, <1>2, <1>5 DEF Ordered, orderIps, Rotated
  <2>2. index \in W
    BY <1>3, <1>4, <1>5, StartIsEligible
  <2>3. given[1] = index
    <3>1. CASE c.count = "single"
      BY <2>1, <3>1
    <3>2. CASE c.count # "single"
      <4>1. given = Rotated(W, index)
        BY <2>1, <3>2
      <4> QED BY <1>3, <1>4, <2>2, <4>1, RotationIsOrder
    <3> QED BY <3>1, <3>2
  <2> QED BY <2>1, <2>2, <2>3
<1>6. ASSUME NEW now \in 0..LastNanosecond, NEW given, given = Ordered(c, now)
      PROVE  /\ Len(given) = (IF c.count = "single" /\ Cardinality(W) > 0 THEN 1 ELSE Cardinality(W))
             /\ ToSet(given) \subseteq W
             /\ \A k \in 1..(Len(given) - 1) : given[k + 1] = After(W, given[k])
  <2>0. now \in Nat
    OBVIOUS
  <2>1. CASE W = {}
    <3>1. given = <<>>
      BY <1>2, <1>6, <2>1 DEF Ordered, orderIps
    <3>2. Len(given) = 0 /\ ToSet(given) = {}
      BY <3>1 DEF ToSet
    <3> QED BY <1>4, <2>1, <3>2
  <2>2. PICK index : index = Start(data, order, W, now)
    OBVIOUS
  <2>3. CASE W # {} /\ c.count = "single"
    <3>1. given = <<index>> /\ index \in W
      BY <1>6, <1>5, <2>0, <2>2, <2>3
    <3>2. Len(given) = 1 /\ ToSet(given) = {index}
      BY <3>1 DEF ToSet
    <3>3. Cardinality(W) > 0
      BY <1>4, <2>3
    <3> QED BY <2>3, <3>1, <3>2, <3>3
  <2>4. CASE W # {} /\ c.count # "single"
    <3>1. /\ given = Rotated(W, index)
          /\ index \in W
      BY <1>6, <1>5, <2>0, <2>2, <2>4
    <3>2. /\ given \in Seq(W) /\ Len(given) = Cardinality(W)
          /\ \A k \in 1..(Len(given) - 1) : given[k + 1] = After(W, given[k])
      BY <1>3, <1>4, <3>1, RotationIsOrder
    <3>3. ToSet(given) \subseteq W
      BY <3>2 DEF ToSet
    <3> QED BY <2>4, <3>2, <3>3
  <2> QED BY <2>1, <2>3, <2>4
<1>7. ASSUME NEW m \in Nat, m > 0, W # {},
             \A now \in Nat : Start(data, order, W, now) = Start(data, order, W, now % m)
      PROVE  \A now \in 0..LastNanosecond : Ordered(c, now) = Ordered(c, now % m)
  <2> SUFFICES ASSUME NEW now \in 0..LastNanosecond PROVE Ordered(c, now) = Ordered(c, now % m)
    OBVIOUS
  <2>1. PICK turn : turn = now % m
    OBVIOUS
  <2>2. now \in Nat /\ turn \in Nat
    BY <1>7, <2>1, Remainder
  <2>3. PICK index : index = Start(data, order, W, now)
    OBVIOUS
  <2>4. index = Start(data, order, W, turn)
    BY <1>7, <2>1, <2>2, <2>3
  <2>5. CASE c.count = "single"
    <3>1. Ordered(c, now) = <<index>>
      BY <1>7, <1>5, <2>2, <2>3, <2>5
    <3>2. Ordered(c, turn) = <<index>>
      BY <1>7, <1>5, <2>2, <2>4, <2>5
    <3> QED BY <2>1, <3>1, <3>2
  <2>6. CASE c.count # "single"
    <3>1. PICK r : r = Rotated(W, index)
      OBVIOUS
    <3>2. Ordered(c, now) = r
      BY <1>7, <1>5, <2>2, <2>3, <2>6, <3>1
    <3>3. Ordered(c, turn) = r
      BY <1>7, <1>5, <2>2, <2>4, <2>6, <3>1
    <3> QED BY <2>1, <3>2, <3>3
  <2> QED BY <2>5, <2>6
<1>8. ASSUME NEW m \in Nat, NEW i \in W
      PROVE  {turn \in 0..(m - 1) : Ordered(c, turn)[1] = i}
             = TurnsOf(data, order, W, i, m)
  <2>1. \A turn \in 0..(m - 1) : Ordered(c, turn)[1] = Start(data, order, W, turn)
    <3> SUFFICES ASSUME NEW turn \in 0..(m - 1)
                 PROVE  Ordered(c, turn)[1] = Start(data, order, W, turn)
      OBVIOUS
    <3>1. turn \in Nat /\ W # {}
      BY <1>8
    <3> QED BY <1>5, <3>1
  <2> QED BY <2>1 DEF TurnsOf
<1>9. ASSUME W # {}, order = "rr" \/ (order = "weighted" /\ Weights(data, W) = 0)
      PROVE  /\ \A now \in 0..LastNanosecond : Ordered(c, now) = Ordered(c, now % Cardinality(W))
             /\ \A i \in W :
                  Cardinality({turn \in 0..(Cardinality(W) - 1) : Ordered(c, turn)[1] = i}) = 1
  <2>1. PICK m \in Nat : m = Cardinality(W) /\ m > 0
    BY <1>4, <1>9
  <2>2. ASSUME NEW now \in Nat
        PROVE  Start(data, order, W, now) = Start(data, order, W, now % m)
    <3>1. PICK turn \in Nat : turn = now % m /\ turn % m = turn
      <4>1. now % m \in 0..(m - 1) /\ (now % m) % m = now % m
        BY <2>1, Remainder
      <4> QED BY <2>1, <4>1
    <3>2. Start(data, order, W, now) = InOrder(W)[(now % m) + 1]
      BY <1>3, <1>4, <1>9, <2>1, StartByTurn
    <3>3. Start(data, order, W, turn) = InOrder(W)[(turn % m) + 1]
      BY <1>3, <1>4, <1>9, <2>1, StartByTurn
    <3> QED BY <3>1, <3>2, <3>3
  <2>3. \A now \in 0..LastNanosecond : Ordered(c, now) = Ordered(c, now % m)
    BY <1>7, <1>9, <2>1, <2>2
  <2>4. ASSUME NEW i \in W PROVE Cardinality({turn \in 0..(m - 1) : Ordered(c, turn)[1] = i}) = 1
    <3>1. Cardinality(TurnsOf(data, order, W, i, m)) = 1
      BY <1>3, <1>4, <1>9, <2>1, TurnsByTurn
    <3> QED BY <1>8, <3>1
  <2> QED BY <2>1, <2>3, <2>4
<1>10. ASSUME order = "weighted", Weights(data, W) > 0, \A i \in W : data[i].weight >= 0
       PROVE  /\ \A now \in 0..LastNanosecond : Ordered(c, now) = Ordered(c, now % Weights(data, W))
              /\ \A i \in W :
                   Cardinality({turn \in 0..(Weights(data, W) - 1) : Ordered(c, turn)[1] = i})
                   = data[i].weight
  <2>1. Weights(data, W) \in Int /\ Weights(data, {}) = 0
    <3>1. Weights(data, W) \in Int
      BY <1>3, <1>4, WeightsAddUp
    <3>2. Weights(data, {}) = 0
      BY FS_EmptySet, WeightsAddUp
    <3> QED BY <3>1, <3>2
  <2>2. W # {}
    <3> SUFFICES ASSUME W = {} PROVE FALSE
      OBVIOUS
    <3>1. Weights(data, W) = 0
      BY <2>1
    <3>2. ~(0 > 0)
      OBVIOUS
    <3> QED BY <1>10, <3>1, <3>2
  <2>3. PICK m \in Nat : m = Weights(data, W) /\ m > 0
    BY <1>10, <2>1
  <2>4. ASSUME NEW now \in Nat
        PROVE  Start(data, order, W, now) = Start(data, order, W, now % m)
    <3>1. PICK turn \in Nat : turn = now % m /\ turn % m = turn
      <4>1. now % m \in 0..(m - 1) /\ (now % m) % m = now % m
        BY <2>3, Remainder
      <4> QED BY <2>3, <4>1
    <3>2. ASSUME NEW x \in Nat, x % m = turn
          PROVE  Start(data, order, W, x) = Min(NotPassed(data, W, turn))
      BY <1>10, <2>3, <3>2, StartIsNotPassed
    <3> QED BY <3>1, <3>2
  <2>5. \A now \in 0..LastNanosecond : Ordered(c, now) = Ordered(c, now % m)
    BY <1>7, <2>2, <2>3, <2>4
  <2>6. \A j \in W : data[j].weight \in Nat
    <3> SUFFICES ASSUME NEW j \in W PROVE data[j].weight \in Nat
      OBVIOUS
    <3>1. PICK w \in Int : w = data[j].weight /\ w >= 0
      BY <1>3, <1>10
    <3> QED BY <3>1
  <2>7. ASSUME NEW i \in W
        PROVE  Cardinality({turn \in 0..(m - 1) : Ordered(c, turn)[1] = i}) = data[i].weight
    <3>1. Cardinality(TurnsOf(data, order, W, i, m)) = data[i].weight
      BY <1>3, <1>4, <1>10, <2>2, <2>3, <2>6, TurnsByWeight
    <3> QED BY <1>8, <3>1
  <2> QED BY <2>3, <2>5, <2>7
<1>11. \A now \in 0..LastNanosecond :
          LET given == Ordered(c, now) IN
          /\ Len(given) = (IF c.count = "single" /\ Cardinality(W) > 0 THEN 1 ELSE Cardinality(W))
          /\ ToSet(given) \subseteq W
          /\ \A k \in 1..(Len(given) - 1) :
                given[k + 1] = (IF given[k] = Max(W) THEN Min(W) ELSE Min({i \in W : i > given[k]}))
  BY <1>6, Zenon DEF After
<1> QED BY <1>1, <1>2, <1>9, <1>10, <1>11, Zenon DEF FairOrder

\* What the run checks of the order of addresses, for record sets of any size.
THEOREM OrderCalls ==
    ASSUME MaxAddresses \in Nat, LastNanosecond \in Nat
    PROVE  AskSpec => []OrderIsFair
<1>1. AskInit => OrderIsFair
  BY DEF AskInit, OrderIsFair, Idle
<1>2. OrderIsFair /\ [AskNext]_asked => OrderIsFair'
  <2> SUFFICES ASSUME OrderIsFair, [AskNext]_asked PROVE OrderIsFair'
    OBVIOUS
  <2>1. CASE CallOrderIps
    <3>1. PICK data \in Sets(Weighted), order \in {"weighted", "rr", "none"}, count \in {"single", "multi"} :
            \E mask \in [DOMAIN data -> {"white", "grey", "black"}] :
              asked' = [fn |-> "orderIps", data |-> data, mask |-> mask, order |-> order, count |-> count]
      BY <2>1 DEF CallOrderIps
    <3>2. PICK mask \in [DOMAIN data -> {"white", "grey", "black"}] :
            asked' = [fn |-> "orderIps", data |-> data, mask |-> mask, order |-> order, count |-> count]
      BY <3>1
    <3>3. PICK n \in Nat : data \in [1..n -> Weighted]
      BY DEF Sets
    <3>4. PICK c : c = [fn |-> "orderIps", data |-> data, mask |-> mask, order |-> order, count |-> count]
      OBVIOUS
    <3>5. DOMAIN c.mask = 1..n /\ \A i \in 1..n : c.data[i].weight \in Int
      BY <3>3, <3>4 DEF Weighted
    <3>6. FairOrder(c)
      BY <3>5, OrderIpsIsFair
    <3> QED BY <3>2, <3>4, <3>6 DEF OrderIsFair
  <2>2. CASE CallFindLocation \/ CallFindZone \/ CallGeoFilter
    BY <2>2 DEF CallFindLocation, CallFindZone, CallGeoFilter, OrderIsFair
  <2>3. CASE Answered
    BY <2>3 DEF Answered, Idle, OrderIsFair
  <2>4. CASE UNCHANGED asked
    BY <2>4 DEF OrderIsFair
  <2> QED BY <2>1, <2>2, <2>3, <2>4 DEF AskNext, Ask
<1> QED BY <1>1, <1>2, PTL DEF AskSpec

(***************************************************************************)
(* The lookup of names.                                                    *)
(***************************************************************************)

\* Sequences are equal if they agree at every place.
LEMMA SameSequence ==
    ASSUME NEW L, NEW s \in Seq(L), NEW t \in Seq(L), Len(s) = Len(t),
           \A i \in 1..Len(s) : s[i] = t[i]
    PROVE  s = t
OBVIOUS

\* A prefix agrees at every place it has.
LEMMA PrefixPlaces ==
    ASSUME NEW L, NEW s \in Seq(L), NEW t \in Seq(L)
    PROVE  IsPrefix(s, t) <=> (Len(s) <= Len(t) /\ \A i \in 1..Len(s) : s[i] = t[i])
<1>1. ASSUME Len(s) <= Len(t)
      PROVE  SubSeq(s, 1, Len(s)) = SubSeq(t, 1, Len(s)) <=> \A i \in 1..Len(s) : s[i] = t[i]
  <2> DEFINE u == SubSeq(s, 1, Len(s))
             v == SubSeq(t, 1, Len(s))
  <2>1. /\ u \in Seq(L) /\ Len(u) = Len(s) /\ \A i \in 1..Len(s) : u[i] = s[i]
        /\ v \in Seq(L) /\ Len(v) = Len(s) /\ \A i \in 1..Len(s) : v[i] = t[i]
    BY <1>1
  <2> HIDE DEF u, v
  <2>2. u = v => \A i \in 1..Len(s) : s[i] = t[i]
    BY <2>1
  <2>3. (\A i \in 1..Len(s) : s[i] = t[i]) => u = v
    BY <2>1, SameSequence
  <2> QED BY <2>2, <2>3 DEF u, v
<1> QED BY <1>1 DEF IsPrefix

\* The ancestors of a name are its prefixes.
LEMMA PrefixesArePrefixes ==
    ASSUME NEW L, NEW s \in Seq(L)
    PROVE  Prefixes(s) = {p \in Seq(L) : IsPrefix(p, s)}
<1>1. ASSUME NEW l \in 0..Len(s)
      PROVE  SubSeq(s, 1, l) \in Seq(L) /\ IsPrefix(SubSeq(s, 1, l), s)
  <2>1. PICK p : p = SubSeq(s, 1, l)
    OBVIOUS
  <2>2. p \in Seq(L) /\ Len(p) = l /\ \A i \in 1..l : p[i] = s[i]
    BY <2>1
  <2>3. IsPrefix(p, s)
    BY <2>2, PrefixPlaces
  <2> QED BY <2>1, <2>2, <2>3
<1>2. ASSUME NEW p \in Seq(L), IsPrefix(p, s)
      PROVE  Len(p) \in 0..Len(s) /\ p = SubSeq(s, 1, Len(p))
  <2>1. Len(p) <= Len(s) /\ \A i \in 1..Len(p) : p[i] = s[i]
    BY <1>2, PrefixPlaces
  <2>2. /\ SubSeq(s, 1, Len(p)) \in Seq(L) /\ Len(SubSeq(s, 1, Len(p))) = Len(p)
        /\ \A i \in 1..Len(p) : SubSeq(s, 1, Len(p))[i] = s[i]
    BY <2>1
  <2> QED BY <2>1, <2>2, SameSequence
<1> QED BY <1>1, <1>2 DEF Prefixes

\* The shorter of two prefixes of a name is a prefix of the other.
LEMMA PrefixesAreNested ==
    ASSUME NEW L, NEW s \in Seq(L), NEW p \in Seq(L), NEW q \in Seq(L),
           IsPrefix(p, s), IsPrefix(q, s), Len(p) <= Len(q)
    PROVE  IsPrefix(p, q) /\ (Len(p) = Len(q) => p = q)
<1>1. /\ \A i \in 1..Len(p) : p[i] = s[i]
      /\ \A i \in 1..Len(q) : q[i] = s[i]
  BY PrefixPlaces
<1>2. \A i \in 1..Len(p) : p[i] = q[i]
  BY <1>1
<1>3. IsPrefix(p, q)
  BY <1>2, PrefixPlaces
<1> QED BY <1>2, <1>3, SameSequence

\* What the tree search returns.
LEMMA LongestIsLongest ==
    ASSUME NEW L, NEW keys \in SUBSET Seq(L), NEW name \in Seq(L)
    PROVE  LET below == {k \in keys : IsPrefix(k, name)} IN
           /\ below = {} => LongestPrefix(keys, name) = NoName
           /\ below # {} => /\ LongestPrefix(keys, name) \in below
                            /\ \A j \in below : Len(j) <= Len(LongestPrefix(keys, name))
<1> DEFINE below == {k \in keys : IsPrefix(k, name)}
           D == {Len(name) - Len(k) : k \in below}
<1>1. \A k \in below : Len(k) \in Nat /\ Len(name) - Len(k) \in Nat
  BY PrefixPlaces
<1>2. ASSUME below # {} PROVE \E k \in below : \A j \in below : Len(j) <= Len(k)
  <2>1. D \in SUBSET Nat /\ D # {}
    BY <1>1, <1>2
  <2>2. PICK d \in D : \A e \in D : d <= e
    <3> HIDE DEF D
    <3> QED BY <2>1, MinIsLeast
  <2>3. PICK k \in below : d = Len(name) - Len(k)
    OBVIOUS
  <2>4. \A j \in below : Len(name) - Len(k) <= Len(name) - Len(j)
    BY <2>2, <2>3
  <2>5. \A j \in below : Len(j) <= Len(k)
    BY <1>1, <2>4
  <2> QED BY <2>5
<1>3. LongestPrefix(keys, name)
        = IF below = {} THEN NoName ELSE CHOOSE k \in below : \A j \in below : Len(j) <= Len(k)
  BY DEF LongestPrefix
<1> HIDE DEF below
<1>4. below # {} => /\ LongestPrefix(keys, name) \in below
                    /\ \A j \in below : Len(j) <= Len(LongestPrefix(keys, name))
  BY <1>2, <1>3
<1>5. below = {} => LongestPrefix(keys, name) = NoName
  BY <1>3
<1> QED BY <1>4, <1>5 DEF below

\* FindZone returns the deepest of the zones that contain a name.
THEOREM FindZoneIsDeepest ==
    ASSUME NEW L, NEW zs \in SUBSET (Seq(L) \ {NoName}), NEW query \in Seq(L),
           NEW y \in zs, IsPrefix(y, query)
    PROVE  /\ FindZone(zs, query) \in zs /\ FindZone(zs, query) # NoName
           /\ IsPrefix(FindZone(zs, query), query) /\ IsPrefix(y, FindZone(zs, query))
<1> DEFINE below == {k \in zs : IsPrefix(k, query)}
           found == LongestPrefix(zs, query)
<1>1. zs \in SUBSET Seq(L) /\ y \in below
  OBVIOUS
<1>2. found \in below /\ \A j \in below : Len(j) <= Len(found)
  BY <1>1, LongestIsLongest
<1>3. IsPrefix(y, found)
  BY <1>1, <1>2, PrefixesAreNested
<1> QED BY <1>2, <1>3 DEF FindZone

\* Names of a zone are compared by what comes after the zone.
LEMMA BelowZone ==
    ASSUME NEW L, NEW y \in Seq(L), NEW r \in Seq(L), NEW l \in Seq(L)
    PROVE  /\ IsPrefix(y \o r, y \o l) <=> IsPrefix(r, l)
           /\ y \o r = y \o l => r = l
           /\ IsPrefix(y, y \o r)
<1> DEFINE n == Len(y)
           a == y \o r
           b == y \o l
<1>1. /\ a \in Seq(L) /\ Len(a) = n + Len(r) /\ b \in Seq(L) /\ Len(b) = n + Len(l)
      /\ \A i \in 1..n : a[i] = y[i] /\ b[i] = y[i]
      /\ \A i \in 1..Len(r) : a[n + i] = r[i]
      /\ \A i \in 1..Len(l) : b[n + i] = l[i]
      /\ n \in Nat /\ Len(r) \in Nat /\ Len(l) \in Nat
  OBVIOUS
<1> HIDE DEF a, b, n
<1>2. IsPrefix(a, b) => IsPrefix(r, l)
  <2> HAVE IsPrefix(a, b)
  <2>1. Len(a) <= Len(b) /\ \A i \in 1..Len(a) : a[i] = b[i]
    <3>1. a \in Seq(L) /\ b \in Seq(L)
      BY <1>1
    <3> QED BY <3>1, PrefixPlaces
  <2>2. \A i \in 1..Len(r) : n + i \in 1..Len(a) /\ i \in 1..Len(l)
    BY <1>1, <2>1
  <2>3. \A i \in 1..Len(r) : r[i] = l[i]
    BY <1>1, <2>1, <2>2
  <2> QED BY <1>1, <2>1, <2>3, PrefixPlaces
<1>3. IsPrefix(r, l) => IsPrefix(a, b)
  <2> HAVE IsPrefix(r, l)
  <2>1. Len(r) <= Len(l) /\ \A i \in 1..Len(r) : r[i] = l[i]
    BY PrefixPlaces
  <2>2. \A i \in 1..Len(a) : a[i] = b[i]
    <3> SUFFICES ASSUME NEW i \in 1..Len(a) PROVE a[i] = b[i]
      OBVIOUS
    <3>1. CASE i <= n
      BY <1>1, <3>1
    <3>2. CASE i > n
      <4>1. PICK j \in 1..Len(r) : j \in 1..Len(l) /\ n + j = i
        <5>1. i - n \in 1..Len(r) /\ i - n \in 1..Len(l) /\ n + (i - n) = i
          BY <1>1, <2>1, <3>2
        <5> QED BY <5>1
      <4>2. a[n + j] = r[j] /\ b[n + j] = l[j] /\ r[j] = l[j]
        BY <1>1, <2>1
      <4> QED BY <4>1, <4>2
    <3> QED BY <1>1, <3>1, <3>2
  <2>3. Len(a) <= Len(b)
    BY <1>1, <2>1
  <2> QED BY <1>1, <2>2, <2>3, PrefixPlaces
<1>4. a = b => r = l
  <2> HAVE a = b
  <2>1. Len(r) = Len(l)
    BY <1>1
  <2>2. \A i \in 1..Len(r) : r[i] = l[i]
    BY <1>1, <2>1
  <2> QED BY <2>1, <2>2, SameSequence
<1>5. IsPrefix(y, a)
  BY <1>1, PrefixPlaces DEF n
<1> QED BY <1>2, <1>3, <1>4, <1>5 DEF a, b

\* What comes after the zone.
LEMMA AfterZone ==
    ASSUME NEW L, NEW y \in Seq(L), NEW m \in Seq(L), IsPrefix(y, m)
    PROVE  /\ SubSeq(m, Len(y) + 1, Len(m)) \in Seq(L)
           /\ m = y \o SubSeq(m, Len(y) + 1, Len(m))
<1> DEFINE n == Len(y)
           r == SubSeq(m, n + 1, Len(m))
<1>1. n \in Nat /\ Len(m) \in Nat /\ n <= Len(m) /\ \A i \in 1..n : y[i] = m[i]
  BY PrefixPlaces
<1>2. r \in Seq(L) /\ Len(r) = Len(m) - n /\ \A i \in 1..(Len(m) - n) : r[i] = m[n + i]
  BY <1>1
<1> HIDE DEF r, n
<1>3. /\ y \o r \in Seq(L) /\ Len(y \o r) = Len(m)
      /\ \A i \in 1..n : (y \o r)[i] = y[i]
      /\ \A i \in 1..Len(r) : (y \o r)[n + i] = r[i]
  BY <1>1, <1>2 DEF n
<1>4. \A i \in 1..Len(m) : m[i] = (y \o r)[i]
  <2> SUFFICES ASSUME NEW i \in 1..Len(m) PROVE m[i] = (y \o r)[i]
    OBVIOUS
  <2>1. CASE i <= n
    BY <1>1, <1>3, <2>1
  <2>2. CASE i > n
    <3>1. PICK j \in 1..Len(r) : j \in 1..(Len(m) - n) /\ n + j = i
      <4>1. i - n \in 1..Len(r) /\ n + (i - n) = i /\ i - n \in 1..(Len(m) - n)
        BY <1>1, <1>2, <2>2
      <4> QED BY <4>1
    <3>2. r[j] = m[n + j] /\ (y \o r)[n + j] = r[j]
      BY <1>2, <1>3
    <3> QED BY <3>1, <3>2
  <2>3. i <= n \/ i > n
    BY <1>1
  <2> QED BY <2>1, <2>2, <2>3
<1>5. m = y \o r
  BY <1>3, <1>4, SameSequence
<1> QED BY <1>2, <1>5 DEF r, n

\* The closest encloser, in the tree of the locations: the zone, and below it the
\* longest prefix of the name that the tree has.
LEMMA TreeFindsEncloser ==
    ASSUME NEW L, NEW y \in Seq(L), NEW locations \in SUBSET (Seq(L) \ {NoName}),
           NEW rquery \in Seq(L), rquery # NoName,
           NEW prefix, prefix = LongestPrefix(LocationsTree(locations), rquery)
    PROVE  /\ prefix \in Seq(L) /\ IsPrefix(prefix, rquery)
           /\ ClosestEncloser(y, locations, y \o rquery) = y \o prefix
           /\ prefix = rquery <=> Exists(y, locations, y \o rquery)
<1> DEFINE tree == LocationsTree(locations)
           below == {k \in tree : IsPrefix(k, rquery)}
<1>1. tree = {k \in Seq(L) \ {NoName} : \E l \in locations : IsPrefix(k, l)}
  <2>1. \A l \in locations : Prefixes(l) = {p \in Seq(L) : IsPrefix(p, l)}
    BY PrefixesArePrefixes
  <2> QED BY <2>1 DEF LocationsTree
<1>2. /\ below = {} => prefix = NoName
      /\ below # {} => prefix \in below /\ \A j \in below : Len(j) <= Len(prefix)
  <2>1. tree \in SUBSET Seq(L)
    BY <1>1
  <2> QED BY <2>1, LongestIsLongest
<1> HIDE DEF tree
<1>3. prefix \in Seq(L) /\ IsPrefix(prefix, rquery)
  <2>1. CASE below = {}
    <3>1. prefix = <<>>
      BY <1>2, <2>1 DEF NoName
    <3>2. prefix \in Seq(L) /\ Len(prefix) = 0 /\ Len(rquery) \in Nat
      BY <3>1
    <3>3. Len(prefix) <= Len(rquery) /\ \A i \in 1..Len(prefix) : prefix[i] = rquery[i]
      BY <3>2
    <3> QED BY <3>2, <3>3, PrefixPlaces
  <2>2. CASE below # {}
    BY <1>1, <1>2, <2>2
  <2> QED BY <2>1, <2>2
<1>4. \A r \in Seq(L) : Exists(y, locations, y \o r) <=> (r = NoName \/ r \in tree)
  <2> SUFFICES ASSUME NEW r \in Seq(L)
               PROVE  Exists(y, locations, y \o r) <=> (r = NoName \/ r \in tree)
    OBVIOUS
  <2>1. y \o r = y <=> r = NoName
    BY DEF NoName
  <2>2. \A l \in locations : IsPrefix(y \o r, y \o l) <=> IsPrefix(r, l)
    BY BelowZone
  <2> QED BY <1>1, <2>1, <2>2 DEF Exists
<1>5. prefix = rquery <=> Exists(y, locations, y \o rquery)
  <2>1. ASSUME rquery \in tree PROVE prefix = rquery
    <3>1. rquery \in below /\ IsPrefix(rquery, rquery)
      BY <2>1, PrefixPlaces
    <3>2. Len(prefix) <= Len(rquery) /\ Len(rquery) <= Len(prefix)
      BY <1>2, <1>3, <3>1, PrefixPlaces
    <3> QED BY <1>3, <3>1, <3>2, PrefixesAreNested
  <2>2. prefix = rquery => rquery \in tree
    BY <1>2
  <2> QED BY <1>4, <2>1, <2>2
<1> DEFINE name == y \o rquery
           Good(n) == /\ IsPrefix(y, n) /\ Exists(y, locations, n)
                      /\ \A m \in Prefixes(name) : Exists(y, locations, m) => Len(m) <= Len(n)
           ce == y \o prefix
<1>6. name \in Seq(L) /\ Prefixes(name) = {p \in Seq(L) : IsPrefix(p, name)}
  <2>1. name \in Seq(L)
    OBVIOUS
  <2> HIDE DEF name
  <2> QED BY <2>1, PrefixesArePrefixes
<1>7. ce \in Prefixes(name) /\ IsPrefix(y, ce) /\ Exists(y, locations, ce)
  <2>1. ce \in Seq(L) /\ IsPrefix(y, ce) /\ IsPrefix(ce, name)
    BY <1>3, BelowZone
  <2>2. prefix = NoName \/ prefix \in tree
    BY <1>2
  <2> QED BY <1>3, <1>4, <1>6, <2>1, <2>2
<1>8. ASSUME NEW m \in Prefixes(name), Exists(y, locations, m)
      PROVE  Len(m) <= Len(ce)
  <2>1. m \in Seq(L) /\ IsPrefix(m, name)
    BY <1>6
  <2>2. Len(ce) = Len(y) + Len(prefix) /\ Len(prefix) \in Nat /\ Len(y) \in Nat /\ Len(m) \in Nat
    BY <1>3, <2>1
  <2>3. CASE Len(m) <= Len(y)
    BY <2>2, <2>3
  <2>4. CASE Len(m) > Len(y)
    <3>1. IsPrefix(y, m)
      <4>1. IsPrefix(y, name) /\ Len(y) <= Len(m)
        BY <2>2, <2>4, BelowZone
      <4> QED BY <1>6, <2>1, <4>1, PrefixesAreNested
    <3>2. PICK r \in Seq(L) : m = y \o r
      BY <2>1, <3>1, AfterZone
    <3>3. Len(m) = Len(y) + Len(r) /\ Len(r) \in Nat
      BY <3>2
    <3>4. r # NoName
      BY <2>2, <2>4, <3>3 DEF NoName
    <3>5. r \in tree /\ IsPrefix(r, rquery)
      BY <1>4, <1>8, <2>1, <3>2, <3>4, BelowZone
    <3>6. Len(r) <= Len(prefix)
      BY <1>2, <3>5
    <3> QED BY <2>2, <3>3, <3>6
  <2> QED BY <2>2, <2>3, <2>4
<1>9. ASSUME NEW n \in Prefixes(name), Good(n) PROVE n = ce
  <2>1. n \in Seq(L) /\ IsPrefix(n, name) /\ ce \in Seq(L) /\ IsPrefix(ce, name)
    BY <1>6, <1>7
  <2>2. Len(n) <= Len(ce) /\ Len(ce) <= Len(n)
    BY <1>7, <1>8, <1>9
  <2>3. Len(n) = Len(ce)
    BY <2>1, <2>2
  <2> HIDE DEF ce, name
  <2> QED BY <1>6, <2>1, <2>3, PrefixesAreNested
<1>10. ClosestEncloser(y, locations, name) = CHOOSE n \in Prefixes(name) : Good(n)
  BY DEF ClosestEncloser
<1>11. Good(ce)
  BY <1>7, <1>8
<1> HIDE DEF Good, ce, name
<1>12. ClosestEncloser(y, locations, name) = ce
  BY <1>7, <1>9, <1>10, <1>11
<1> QED BY <1>3, <1>5, <1>12 DEF name, ce

\* What FindLocation found is the RFC's match, and names the location to answer
\* the name from: its own, or the wildcard or the cut at its closest encloser.
AsRFC4592(y, locations, query, found) ==
    /\ found.match = ReferenceMatch(y, locations, query)
    /\ found.match = "exact" /\ query = y => found.location = Apex
    /\ found.match = "exact" /\ query # y =>
          query = y \o found.location /\ found.location \in locations
    /\ found.match = "wildcard" =>
          y \o found.location = SourceOfSynthesis(y, locations, query)
    /\ found.match = "ce" => y \o found.location = ClosestEncloser(y, locations, query)

\* Zone.FindLocation classifies every name of a zone as RFC 4592 does, whatever
\* locations the zone has, and returns the location to answer it from.
THEOREM FindLocationIsRFC4592 ==
    ASSUME NEW L, "*" \in L, NEW y \in Seq(L), NEW locations \in SUBSET (Seq(L) \ {NoName}),
           NEW query \in Seq(L), IsPrefix(y, query)
    PROVE  AsRFC4592(y, locations, query, FindLocation(y, locations, query))
<1>0. PICK found : found = FindLocation(y, locations, query)
  OBVIOUS
<1> SUFFICES AsRFC4592(y, locations, query, found)
  BY <1>0
<1>1. CASE query = y
  <2>1. found = [location |-> Apex, match |-> "exact"]
    BY <1>0, <1>1 DEF FindLocation
  <2>2. ReferenceMatch(y, locations, query) = "exact"
    <3>1. Exists(y, locations, query)
      BY <1>1 DEF Exists
    <3> QED BY <1>1, <3>1 DEF ReferenceMatch
  <2> QED BY <1>1, <2>1, <2>2 DEF AsRFC4592
<1>2. CASE query # y
  <2>1. PICK rquery \in Seq(L) : rquery = SubSeq(query, Len(y) + 1, Len(query))
                                 /\ query = y \o rquery
    BY AfterZone
  <2>2. rquery # NoName
    <3>1. y \o rquery = y <=> rquery = NoName
      BY DEF NoName
    <3> QED BY <1>2, <2>1, <3>1
  <2>3. PICK prefix : prefix = LongestPrefix(LocationsTree(locations), rquery)
    OBVIOUS
  <2>4. IsStrictPrefix(y, query) /\ Relative(y, query) = rquery
    BY <1>2, <2>1 DEF IsStrictPrefix, Relative
  <2>5. /\ prefix \in Seq(L) /\ IsPrefix(prefix, rquery)
        /\ ClosestEncloser(y, locations, query) = y \o prefix
        /\ prefix = rquery <=> Exists(y, locations, query)
    <3>1. /\ prefix \in Seq(L) /\ IsPrefix(prefix, rquery)
          /\ ClosestEncloser(y, locations, y \o rquery) = y \o prefix
          /\ prefix = rquery <=> Exists(y, locations, y \o rquery)
      BY <2>2, <2>3, TreeFindsEncloser
    <3> QED BY <2>1, <3>1
  <2>6. \A r \in Seq(L) : Owns(y, locations, y \o r) <=> r \in locations
    <3> SUFFICES ASSUME NEW r \in Seq(L)
                 PROVE  Owns(y, locations, y \o r) <=> r \in locations
      OBVIOUS
    <3>1. \A l \in locations : y \o r = y \o l => r = l
      BY BelowZone
    <3> QED BY <3>1 DEF Owns
  <2>7. SourceOfSynthesis(y, locations, query) = y \o Append(prefix, "*")
    <3>1. Append(y \o prefix, "*") = y \o Append(prefix, "*")
      <4>1. PICK a, b : a = Append(y \o prefix, "*") /\ b = y \o Append(prefix, "*")
        OBVIOUS
      <4>2. a \in Seq(L) /\ b \in Seq(L) /\ Len(a) = Len(b)
        BY <2>5, <4>1
      <4>3. \A i \in 1..Len(a) : a[i] = b[i]
        BY <2>5, <4>1
      <4> QED BY <4>1, <4>2, <4>3, SameSequence
    <3> QED BY <2>5, <3>1 DEF SourceOfSynthesis
  <2> DEFINE wild == Append(prefix, "*")
  <2>8. wild \in Seq(L)
    BY <2>5
  <2>9. found = CASE prefix = rquery /\ prefix \in locations -> [location |-> rquery, match |-> "exact"]
                  [] prefix = rquery /\ prefix \notin locations ->
                        [location |-> NoName, match |-> "emptyNonterminal"]
                  [] prefix # rquery /\ wild \in locations -> [location |-> wild, match |-> "wildcard"]
                  [] OTHER -> IF prefix \in locations THEN [location |-> prefix, match |-> "ce"]
                              ELSE [location |-> NoName, match |-> "none"]
    BY <1>0, <1>2, <2>3, <2>4 DEF FindLocation
  <2>10. Owns(y, locations, query) <=> rquery \in locations
    BY <2>1, <2>6
  <2>11. ReferenceMatch(y, locations, query)
         = CASE rquery \in locations -> "exact"
             [] rquery \notin locations /\ prefix = rquery -> "emptyNonterminal"
             [] prefix # rquery ->
                   IF wild \in locations THEN "wildcard"
                   ELSE IF prefix \in locations THEN "ce" ELSE "none"
    <3>1. /\ Owns(y, locations, SourceOfSynthesis(y, locations, query)) <=> wild \in locations
          /\ Owns(y, locations, ClosestEncloser(y, locations, query)) <=> prefix \in locations
      BY <2>5, <2>6, <2>7, <2>8
    <3> HIDE DEF wild
    <3> QED BY <1>2, <2>5, <2>10, <3>1 DEF ReferenceMatch
  <2>12. rquery \in locations => prefix = rquery
    <3>1. rquery \in locations => Exists(y, locations, query)
      <4>1. IsPrefix(query, query)
        BY PrefixPlaces
      <4> QED BY <2>1, <4>1 DEF Exists
    <3> QED BY <2>5, <3>1
  <2> HIDE DEF wild
  <2>13. CASE prefix = rquery /\ prefix \in locations
    <3>1. found = [location |-> rquery, match |-> "exact"]
      BY <2>9, <2>13
    <3>2. ReferenceMatch(y, locations, query) = "exact"
      BY <2>11, <2>13
    <3>3. found.match = "exact" /\ found.location = rquery /\ found.location \in locations
      BY <2>13, <3>1
    <3>4. query = y \o found.location
      BY <2>1, <3>3, Zenon
    <3> QED BY <1>2, <3>2, <3>3, <3>4, Zenon DEF AsRFC4592
  <2>14. CASE prefix = rquery /\ prefix \notin locations
    <3>1. found = [location |-> NoName, match |-> "emptyNonterminal"]
      BY <2>9, <2>14
    <3>2. ReferenceMatch(y, locations, query) = "emptyNonterminal"
      BY <2>11, <2>14
    <3> QED BY <3>1, <3>2 DEF AsRFC4592
  <2>15. CASE prefix # rquery /\ wild \in locations
    <3>1. found = [location |-> wild, match |-> "wildcard"]
      BY <2>9, <2>15
    <3>2. ReferenceMatch(y, locations, query) = "wildcard"
      BY <2>11, <2>12, <2>15
    <3>3. found.match = "wildcard" /\ found.location = wild
      BY <3>1
    <3>4. y \o found.location = SourceOfSynthesis(y, locations, query)
      BY <2>7, <3>3, Zenon DEF wild
    <3> QED BY <3>2, <3>3, <3>4, Zenon DEF AsRFC4592
  <2>16. CASE prefix # rquery /\ wild \notin locations
    <3>1. found = IF prefix \in locations THEN [location |-> prefix, match |-> "ce"]
                  ELSE [location |-> NoName, match |-> "none"]
      BY <2>9, <2>16
    <3>2. ReferenceMatch(y, locations, query) = IF prefix \in locations THEN "ce" ELSE "none"
      BY <2>11, <2>12, <2>16
    <3> QED BY <2>5, <3>1, <3>2 DEF AsRFC4592
  <2> QED BY <2>13, <2>14, <2>15, <2>16
<1> QED BY <1>1, <1>2

\* What the run checks of the lookups, for zones and names of any depth.
THEOREM LookupCalls ==
    ASSUME MaxLabels \in Nat, "@" \notin Labels
    PROVE  AskSpec => []LookupIsReference
<1> DEFINE L == Labels \union {"*", "z", "y", "a", "b"}
<1>1. AskInit => LookupIsReference
  BY DEF AskInit, LookupIsReference, Idle
<1>2. LookupIsReference /\ [AskNext]_asked => LookupIsReference'
  <2> SUFFICES ASSUME LookupIsReference, [AskNext]_asked PROVE LookupIsReference'
    OBVIOUS
  <2>1. Zone \in Seq(L) /\ Zone = <<"z">>
    BY DEF Zone
  <2>2. \A labels \in SUBSET L, n \in Nat :
            NamesUpTo(labels, n) \subseteq Seq(labels) \ {NoName}
    BY DEF NamesUpTo, NoName
  <2>3. Universe \in SUBSET (Seq(L) \ {NoName}) /\ Apex \notin Universe
    <3>1. NamesUpTo(Labels, MaxLabels) \subseteq Seq(Labels) \ {NoName}
      BY <2>2
    <3>2. NamesUpTo(Labels, MaxLabels - 1) \subseteq Seq(Labels) \ {NoName}
      <4>1. CASE MaxLabels = 0
        BY <4>1 DEF NamesUpTo
      <4>2. CASE MaxLabels # 0
        BY <2>2, <4>2
      <4> QED BY <4>1, <4>2
    <3>3. \A n \in Seq(Labels) \ {NoName} : n \in Seq(L) \ {NoName} /\ n # Apex
      BY DEF NoName, Apex
    <3>4. \A n \in Seq(Labels) \ {NoName} : Append(n, "*") \in Seq(L) \ {NoName} /\ Append(n, "*") # Apex
      BY DEF NoName, Apex
    <3>5. <<"*">> \in Seq(L) \ {NoName} /\ <<"*">> # Apex
      BY DEF NoName, Apex
    <3> QED BY <3>1, <3>2, <3>3, <3>4, <3>5 DEF Universe
  <2>4. \A q \in Queries : q \in Seq(L) /\ IsPrefix(Zone, q)
    <3> SUFFICES ASSUME NEW q \in Queries PROVE q \in Seq(L) /\ IsPrefix(Zone, q)
      OBVIOUS
    <3>1. CASE q = Zone
      <4>1. q \in Seq(L)
        BY <2>1, <3>1
      <4>2. IsPrefix(q, q)
        BY <4>1, PrefixPlaces
      <4> QED BY <3>1, <4>1, <4>2
    <3>2. CASE \E n \in NamesUpTo(Labels \union {"*"}, MaxLabels + 1) : q = Zone \o n
      <4>1. PICK n \in NamesUpTo(Labels \union {"*"}, MaxLabels + 1) : q = Zone \o n
        BY <3>2
      <4>2. n \in Seq(L)
        <5>1. n \in Seq(Labels \union {"*"})
          BY <2>2
        <5> QED BY <5>1
      <4>3. IsPrefix(Zone, Zone \o n)
        BY <2>1, <4>2, BelowZone
      <4> QED BY <2>1, <4>1, <4>2, <4>3
    <3> QED BY <3>1, <3>2 DEF Queries
  <2> HIDE DEF L
  <2>5. CASE CallFindZone
    <3>1. PICK zs \in SUBSET {Zone, <<"z", "a">>, <<"z", "a", "b">>, <<"y">>}, query \in Queries :
              asked' = [fn |-> "FindZone", zones |-> zs, query |-> query,
                        found |-> FindZone(zs, query)]
      BY <2>5 DEF CallFindZone
    <3>2. zs \in SUBSET (Seq(L) \ {NoName})
      <4>1. <<"z", "a">> \in Seq(L) /\ <<"z", "a">> # NoName
        BY DEF L, NoName
      <4>2. <<"z", "a", "b">> \in Seq(L) /\ <<"z", "a", "b">> # NoName
        BY DEF L, NoName
      <4>3. <<"y">> \in Seq(L) /\ <<"y">> # NoName
        BY DEF L, NoName
      <4>4. Zone # NoName
        BY <2>1 DEF NoName
      <4> QED BY <2>1, <4>1, <4>2, <4>3, <4>4
    <3>3. \A y \in zs : IsPrefix(y, query) =>
              FindZone(zs, query) # NoName /\ IsPrefix(y, FindZone(zs, query))
      BY <2>4, <3>2, FindZoneIsDeepest
    <3>4. /\ asked'.fn = "FindZone" /\ asked'.zones = zs /\ asked'.query = query
          /\ asked'.found = FindZone(zs, query)
      BY <3>1
    <3>5. \A y \in asked'.zones : IsPrefix(y, asked'.query) =>
              asked'.found # NoName /\ IsPrefix(y, asked'.found)
      BY <3>3, <3>4 DEF NoName
    <3> QED BY <3>4, <3>5 DEF LookupIsReference
  <2>6. CASE CallFindLocation
    <3>1. PICK locations \in SUBSET Universe, query \in Queries :
              asked' = [fn |-> "FindLocation", locations |-> locations, query |-> query,
                        found |-> FindLocation(Zone, locations, query)]
      BY <2>6 DEF CallFindLocation
    <3>2. PICK found : found = FindLocation(Zone, locations, query)
      OBVIOUS
    <3>3. locations \in SUBSET (Seq(L) \ {NoName}) /\ Apex \notin locations /\ "*" \in L
      BY <2>3 DEF L
    <3>4. AsRFC4592(Zone, locations, query, found)
      <4>1. /\ Zone \in Seq(L) /\ query \in Seq(L) /\ IsPrefix(Zone, query)
            /\ "*" \in L /\ locations \in SUBSET (Seq(L) \ {NoName})
        BY <2>1, <2>4, <3>3
      <4>2. AsRFC4592(Zone, locations, query, FindLocation(Zone, locations, query))
        BY <4>1, FindLocationIsRFC4592
      <4> QED BY <3>2, <4>2
    <3>5. /\ asked'.fn = "FindLocation" /\ asked'.locations = locations /\ asked'.query = query
          /\ asked'.found = found
      BY <3>1, <3>2
    <3>6. found.match = "exact" =>
              query = (IF found.location = Apex THEN Zone ELSE Zone \o found.location)
      BY <3>3, <3>4 DEF Apex, AsRFC4592
    <3>7. LookupIsReference'
        <=> /\ found.match = ReferenceMatch(Zone, locations, query)
            /\ found.match = "exact" =>
                  query = (IF found.location = Apex THEN Zone ELSE Zone \o found.location)
            /\ found.match = "wildcard" =>
                  Zone \o found.location = SourceOfSynthesis(Zone, locations, query)
            /\ found.match = "ce" =>
                  Zone \o found.location = ClosestEncloser(Zone, locations, query)
      BY <3>5 DEF LookupIsReference
    <3> QED BY <3>4, <3>6, <3>7 DEF AsRFC4592
  <2>7. CASE CallGeoFilter
    BY <2>7 DEF CallGeoFilter, LookupIsReference
  <2>8. CASE CallOrderIps
    BY <2>8 DEF CallOrderIps, LookupIsReference
  <2>9. CASE Answered
    BY <2>9 DEF Answered, Idle, LookupIsReference
  <2>10. CASE UNCHANGED asked
    BY <2>10 DEF LookupIsReference
  <2> QED BY <2>5, <2>6, <2>7, <2>8, <2>9, <2>10 DEF AskNext, Ask
<1> QED BY <1>1, <1>2, PTL DEF AskSpec

(***************************************************************************)
(* The answer to a query.                                                  *)
(***************************************************************************)

\* Labels and names, and the records of a section before it is signed.
Label == STRING \union {"*", "@"}
Name == Seq(Label)
RRTypes == {"CNAME", "NS", "DS", "SOA", "NSEC", "DNSKEY", "A", "TXT", "CAA"}
Record == [owner : Name, type : RRTypes, to : Name]

\* The steps after the final location was found, and those of a referral.
AnswerSteps == {"answer", "anameWithA", "aname", "alias", "upstream", "aliasCNAME", "aliasA",
                "aliasANAME", "caaClimb"}
ReferralSteps == {"ceNS", "ceDS", "glue", "ns", "ds"}
Ended == pc \in {"respond", "done"}

ResolverTypeOK ==
    /\ zones \in SUBSET Zones /\ records \in Contents /\ req \in Requests
    /\ pc \in {"findZone", "getZone", "loop", "cname", "respond", "done"}
              \union AnswerSteps \union ReferralSteps
    /\ zone \in Zones \union {NoName} /\ cur \in Name /\ loc \in Name
    /\ quiet \in BOOLEAN
    /\ pc # "done" => answer \in Seq(Record) /\ authority \in Seq(Record)

\* The name is in the zone, and it is absent there.
Absent ==
    IsPrefix(zone, cur) /\ ReferenceMatch(zone, Locations[zone], cur) \in {"none", "ce"}

\* CNAMEs that lead from the query name to another.
Linked(rrs, name) ==
    /\ \A i \in 1..Len(rrs) : rrs[i].type = "CNAME"
    /\ \A i \in 2..Len(rrs) : rrs[i - 1].to = rrs[i].owner
    /\ rrs # <<>> => rrs[1].owner = req.qname /\ rrs[Len(rrs)].to = name
    /\ rrs = <<>> => name = req.qname

\* While the request is handled: the answer leads to the name it is at, and the
\* authority section is empty unless it is a referral.
Handled ==
    ~Ended =>
        /\ res = "NOERROR"
        /\ pc # "findZone" => zone \in Zones
        /\ pc \in {"findZone", "getZone"} => cur = req.qname /\ answer = <<>>
        /\ IF Flattening THEN answer = <<>> ELSE Linked(answer, cur)
        /\ Flattening /\ pc \in AnswerSteps => cur = req.qname
        /\ pc \notin {"ceDS", "glue"} => authority = <<>>

\* In a referral: the name is absent, or delegated.
Referred ==
    /\ pc = "ceNS" => Absent
    /\ pc \in {"ceDS", "glue"} => Has(authority, "NS")
    /\ pc = "glue" /\ Dnssec => Has(authority, "NSEC") \/ Has(authority, "DS")

\* As long as nothing changes, the names it is at are in the zone of the query.
QuietZone ==
    quiet /\ ~Ended =>
        /\ pc # "findZone" => FindZone(zones, req.qname) = zone
        /\ pc = "loop" /\ Flattening => FindZone(zones, cur) = zone

\* AnswerChain, of a section that may not be signed yet.
Links(rrs) == {i \in DOMAIN rrs : rrs[i].type \notin {"SOA", "DNSKEY", "RRSIG"}}
Chained(rrs) ==
    \A i \in Links(rrs) :
        IF Flattening
        THEN rrs[i].owner = req.qname \/ rrs[i].type = "DS"
        ELSE /\ i = 1 => rrs[i].owner = req.qname
             /\ i > 1 => /\ i - 1 \in Links(rrs) /\ rrs[i - 1].type = "CNAME"
                         /\ rrs[i - 1].to = rrs[i].owner

\* NegativeIsComplete, of sections that may not be signed yet.
Negative(ans, auth, r, q) ==
    zone # NoName /\ ans = <<>> =>
        /\ q /\ r \in {"NOERROR", "NXDOMAIN"} => Has(auth, "SOA") \/ Has(auth, "NS")
        /\ Dnssec /\ r = "NOERROR" /\ req.qtype # "OTHER" =>
              Has(auth, "NSEC") \/ Has(auth, "DS")

\* What is known of a response before it is signed.
Response(ans, auth, r, q) ==
    /\ ans \in Seq(Record) /\ auth \in Seq(Record)
    /\ r = "NXDOMAIN" => ~Dnssec /\ Absent
    /\ Chained(ans) /\ Negative(ans, auth, r, q)

Unsigned == pc = "respond" => Response(answer, authority, res, quiet)

\* SignedSetsVerify, but for whose name servers an unsigned answer is.
SetsCovered ==
    Done /\ zone # NoName /\ Dnssec =>
        /\ \A i \in DOMAIN answer : LET r == answer[i] IN
              \/ r.type = "RRSIG" \/ Signed(answer, r)
              \/ r.type = "NS" /\ r.owner = req.qname /\ req.qname # zone
        /\ \A i \in DOMAIN authority : LET r == authority[i] IN
              r.type = "RRSIG" \/ (Signed(authority, r) <=> (r.type # "NS" \/ req.qname = zone))

\* NameErrorIsTrue, but for what is at the closest encloser.
AbsentNames == Done /\ res = "NXDOMAIN" => ~Dnssec /\ Absent

Responses == AbsentNames /\ AnswerChain /\ NegativeIsComplete /\ SetsCovered

\* The inductive invariant.
ResolverInv ==
    /\ ResolverTypeOK /\ Handled /\ Referred /\ QuietZone /\ Unsigned
    /\ Responses

\* SetToSeq enumerates a finite set.
LEMMA Enumerated ==
    ASSUME NEW S, IsFiniteSet(S)
    PROVE  /\ SetToSeq(S) \in Seq(S)
           /\ \A x \in S : \E i \in 1..Len(SetToSeq(S)) : SetToSeq(S)[i] = x
<1>1. PICK n \in Nat : n = Cardinality(S)
  BY FS_CardinalityType
<1>2. PICK f \in Bijection(1..n, S) : TRUE
  BY <1>1, FS_CardinalityType DEF ExistsBijection
<1>3. f \in [1..n -> S] /\ IsInjective(f)
  BY <1>2 DEF Bijection, Injection
<1>4. PICK t : t = SetToSeq(S)
  OBVIOUS
<1>5. t \in [1..n -> S] /\ IsInjective(t)
  BY <1>1, <1>3, <1>4 DEF SetToSeq
<1>6. IsFiniteSet(1..n) /\ Cardinality(1..n) = n
  BY FS_Interval
<1>7. t \in Surjection(1..n, S)
  BY <1>1, <1>5, <1>6, FS_Injection DEF Injection
<1>8. t \in Seq(S) /\ Len(t) = n
  BY <1>5
<1> QED BY <1>4, <1>7, <1>8 DEF Surjection

\* The records whose sets SignResponse covers, and the signature of a set.
Covers(rrs) == {j \in DOMAIN rrs : rrs[j].type # "NS" \/ req.qname = zone}
Signature(r) == RR(r.owner, "RRSIG", <<r.type>>)

\* SignResponse adds a signature for every set it covers, and nothing else.
LEMMA SignedSection ==
    ASSUME NEW rrs \in Seq(Record), NEW t, t = SignResponse(rrs)
    PROVE  /\ Len(t) \in Nat /\ DOMAIN t = 1..Len(t) /\ Len(t) >= Len(rrs)
           /\ \A i \in 1..Len(rrs) : t[i] = rrs[i]
           /\ \A i \in DOMAIN t : i > Len(rrs) => \E j \in Covers(rrs) : t[i] = Signature(rrs[j])
           /\ \A j \in Covers(rrs) : \E i \in DOMAIN t : t[i] = Signature(rrs[j])
<1> DEFINE J == Covers(rrs)
           f == [j \in J |-> Signature(rrs[j])]
<1>1. PICK S : S = {Signature(rrs[j]) : j \in J}
  OBVIOUS
<1>2. IsFiniteSet(J)
  <2>1. J \in SUBSET (1..Len(rrs)) /\ Len(rrs) \in Nat
    BY DEF Covers
  <2>2. IsFiniteSet(1..Len(rrs))
    BY <2>1, FS_Interval
  <2> HIDE DEF J
  <2> QED BY <2>1, <2>2, FS_Subset
<1>3. IsFiniteSet(S)
  <2>1. f \in Surjection(J, S)
    BY <1>1 DEF Surjection
  <2> HIDE DEF J, f
  <2> QED BY <1>2, <2>1, FS_Surjection
<1>4. t = rrs \o SetToSeq(S)
  <2>1. PICK P : P = {<<rrs[i].owner, rrs[i].type>> : i \in J}
    OBVIOUS
  <2>2. {RR(s[1], "RRSIG", <<s[2]>>) : s \in P} = S
    <3>1. \A i \in J : <<rrs[i].owner, rrs[i].type>> \in P
      BY <2>1
    <3>2. \A s \in P : \E i \in J : s[1] = rrs[i].owner /\ s[2] = rrs[i].type
      BY <2>1
    <3>3. \A s \in P : RR(s[1], "RRSIG", <<s[2]>>) \in S
      BY <1>1, <3>2 DEF Signature
    <3>4. \A x \in S : \E s \in P : x = RR(s[1], "RRSIG", <<s[2]>>)
      <4> SUFFICES ASSUME NEW i \in J
                   PROVE  \E s \in P : Signature(rrs[i]) = RR(s[1], "RRSIG", <<s[2]>>)
        BY <1>1
      <4>1. PICK s : s = <<rrs[i].owner, rrs[i].type>>
        OBVIOUS
      <4>2. s \in P /\ Signature(rrs[i]) = RR(s[1], "RRSIG", <<s[2]>>)
        BY <3>1, <4>1 DEF Signature
      <4> QED BY <4>2
    <3> HIDE DEF J
    <3> QED BY <3>3, <3>4
  <2> QED BY <2>1, <2>2 DEF SignResponse, Covers
<1>5. PICK u : u = SetToSeq(S)
  OBVIOUS
<1>6. u \in Seq(S) /\ \A x \in S : \E i \in 1..Len(u) : u[i] = x
  BY <1>3, <1>5, Enumerated
<1>7. /\ t = rrs \o u /\ Len(t) = Len(rrs) + Len(u)
      /\ Len(u) \in Nat /\ Len(rrs) \in Nat
      /\ DOMAIN t = 1..Len(t)
      /\ \A i \in 1..Len(rrs) : t[i] = rrs[i]
      /\ \A i \in 1..Len(u) : u[i] \in S /\ t[i + Len(rrs)] = u[i]
  <2>1. PICK R : R = Record \union S
    OBVIOUS
  <2>2. rrs \in Seq(R) /\ u \in Seq(R)
    BY <1>6, <2>1
  <2> QED BY <1>4, <1>5, <1>6, <2>2
<1>8. \A i \in DOMAIN t : i > Len(rrs) => t[i] \in S
  <2> SUFFICES ASSUME NEW i \in DOMAIN t, i > Len(rrs) PROVE t[i] \in S
    OBVIOUS
  <2>1. i - Len(rrs) \in 1..Len(u) /\ (i - Len(rrs)) + Len(rrs) = i
    BY <1>7
  <2> QED BY <1>7, <2>1
<1>9. \A x \in S : \E i \in DOMAIN t : t[i] = x
  <2> SUFFICES ASSUME NEW x \in S PROVE \E i \in DOMAIN t : t[i] = x
    OBVIOUS
  <2>1. PICK k \in 1..Len(u) : u[k] = x
    BY <1>6
  <2>2. k + Len(rrs) \in DOMAIN t /\ t[k + Len(rrs)] = x
    BY <1>7, <2>1
  <2> QED BY <2>2
<1>10. /\ \A j \in J : Signature(rrs[j]) \in S
       /\ \A x \in S : \E j \in J : x = Signature(rrs[j])
  BY <1>1
<1>11. Len(t) \in Nat /\ Len(t) >= Len(rrs)
  BY <1>7
<1> HIDE DEF J
<1>12. /\ \A i \in DOMAIN t : i > Len(rrs) => \E j \in J : t[i] = Signature(rrs[j])
       /\ \A j \in J : \E i \in DOMAIN t : t[i] = Signature(rrs[j])
  BY <1>8, <1>9, <1>10
<1> QED BY <1>7, <1>11, <1>12 DEF J

\* The names of the constants are names, and so is the target of a CNAME.
LEMMA ConstantNames ==
    /\ Zones \in SUBSET (Name \ {NoName})
    /\ \A y \in Zones : Locations[y] \in SUBSET (Name \ {NoName})
    /\ \A q \in Requests : q.qname \in Name
    /\ records \in Contents => \A y, l : Get(y, l).cname \in Name
    /\ NoName \in Name /\ Apex \in Name
<1>1. \A s \in Seq(STRING) : s \in Name
  <2> SUFFICES ASSUME NEW s \in Seq(STRING) PROVE s \in Name
    OBVIOUS
  <2>1. Len(s) \in Nat /\ s \in [1..Len(s) -> STRING]
    OBVIOUS
  <2>2. \A x \in STRING : x \in Label
    BY DEF Label
  <2> HIDE DEF Label
  <2>3. s \in [1..Len(s) -> Label]
    BY <2>1, <2>2
  <2> QED BY <2>1, <2>3 DEF Name
<1>2. NoName \in Name /\ Apex \in Name
  <2>1. "@" \in Label
    BY DEF Label
  <2> HIDE DEF Label
  <2> QED BY <2>1 DEF Name, NoName, Apex
<1>3. records \in Contents => \A y, l : Get(y, l).cname \in Name
  <2>1. NoRecords.cname = NoName
    BY DEF NoRecords
  <2>2. records \in Contents => \A k \in DOMAIN records : records[k].cname \in Name
    BY <1>1, ResolverAssumption
  <2> HIDE DEF NoRecords
  <2> QED BY <1>2, <2>1, <2>2 DEF Get
<1>4. Zones \in SUBSET (Name \ {NoName})
  BY <1>1, ResolverAssumption
<1>5. \A y \in Zones : Locations[y] \in SUBSET (Name \ {NoName})
  BY <1>1, ResolverAssumption
<1>6. \A q \in Requests : q.qname \in Name
  BY <1>1, ResolverAssumption
<1> QED BY <1>2, <1>3, <1>4, <1>5, <1>6

\* The zone that is found for a name is in the list, and the name is in it.
LEMMA ZoneOfName ==
    ASSUME NEW zs \in SUBSET Zones, NEW name \in Name
    PROVE  /\ FindZone(zs, name) \in zs \union {NoName}
           /\ FindZone(zs, name) # NoName => IsPrefix(FindZone(zs, name), name)
<1>1. zs \in SUBSET Seq(Label) /\ name \in Seq(Label)
  BY ConstantNames DEF Name
<1> HIDE DEF Label
<1>2. PICK below : below = {k \in zs : IsPrefix(k, name)}
  OBVIOUS
<1>3. /\ below = {} => LongestPrefix(zs, name) = NoName
      /\ below # {} => LongestPrefix(zs, name) \in below
  BY <1>1, <1>2, LongestIsLongest
<1> QED BY <1>2, <1>3 DEF FindZone

\* What a lookup in the zone returns.
LEMMA LookedUp ==
    ASSUME zone \in Zones, NEW name \in Name
    PROVE  /\ Lookup(name).location \in Name
           /\ name = zone => Lookup(name) = [location |-> Apex, match |-> "exact"]
           /\ IsPrefix(zone, name) =>
                 Lookup(name).match = ReferenceMatch(zone, Locations[zone], name)
<1>1. /\ zone \in Seq(Label) /\ name \in Seq(Label)
      /\ Locations[zone] \in SUBSET (Seq(Label) \ {NoName}) /\ "*" \in Label
  BY ConstantNames DEF Name, Label
<1> HIDE DEF Label
<1>2. IsPrefix(zone, name) => AsRFC4592(zone, Locations[zone], name, Lookup(name))
  BY <1>1, FindLocationIsRFC4592 DEF Lookup
<1>3. name = zone => Lookup(name) = [location |-> Apex, match |-> "exact"]
  BY DEF Lookup, FindLocation
<1>4. Lookup(name).location \in Locations[zone] \union {Apex, NoName}
  BY DEF Lookup, FindLocation
<1> QED BY <1>2, <1>3, <1>4, ConstantNames DEF AsRFC4592

\* A section that is continued.
LEMMA Continued ==
    ASSUME NEW s \in Seq(Record), NEW t \in Seq(Record)
    PROVE  /\ s \o t \in Seq(Record)
           /\ \A type : Has(s \o t, type) <=> Has(s, type) \/ Has(t, type)
           /\ s \o t = <<>> <=> s = <<>> /\ t = <<>>
<1>1. PICK u : u = s \o t
  OBVIOUS
<1> HIDE DEF Record
<1>2. /\ u \in Seq(Record) /\ Len(u) = Len(s) + Len(t) /\ Len(s) \in Nat /\ Len(t) \in Nat
      /\ DOMAIN u = 1..Len(u) /\ DOMAIN s = 1..Len(s) /\ DOMAIN t = 1..Len(t)
      /\ \A i \in 1..Len(s) : u[i] = s[i]
      /\ \A i \in 1..Len(t) : u[i + Len(s)] = t[i]
  BY <1>1
<1>3. ASSUME NEW type PROVE Has(u, type) <=> Has(s, type) \/ Has(t, type)
  <2>1. Has(s, type) => Has(u, type)
    BY <1>2 DEF Has
  <2>2. ASSUME NEW i \in 1..Len(t), t[i].type = type PROVE Has(u, type)
    <3>1. i + Len(s) \in DOMAIN u
      BY <1>2
    <3> QED BY <1>2, <2>2, <3>1 DEF Has
  <2>3. ASSUME NEW i \in DOMAIN u, u[i].type = type PROVE Has(s, type) \/ Has(t, type)
    <3>1. CASE i <= Len(s)
      BY <1>2, <2>3, <3>1 DEF Has
    <3>2. CASE i > Len(s)
      <4>1. i - Len(s) \in 1..Len(t) /\ (i - Len(s)) + Len(s) = i
        BY <1>2, <3>2
      <4>2. t[i - Len(s)].type = type
        BY <1>2, <2>3, <4>1
      <4> QED BY <1>2, <4>1, <4>2 DEF Has
    <3> QED BY <1>2, <3>1, <3>2
  <2> QED BY <1>2, <2>1, <2>2, <2>3 DEF Has
<1> QED BY <1>1, <1>2, <1>3

\* A section of one record.
LEMMA OneRecord ==
    ASSUME NEW r \in Record
    PROVE  /\ <<r>> \in Seq(Record) /\ <<r>> # <<>>
           /\ \A type : Has(<<r>>, type) <=> type = r.type
BY DEF Has

\* The empty section.
LEMMA NoRecord == <<>> \in Seq(Record) /\ \A type : ~Has(<<>>, type)
BY DEF Has

\* The records that answers are made of.
LEMMA Made ==
    ASSUME NEW name \in Name, NEW type \in RRTypes, NEW target \in Name
    PROVE  /\ RR(name, type, target) \in Record
           /\ RR(name, type, target).owner = name /\ RR(name, type, target).type = type
           /\ RR(name, type, target).to = target
BY DEF RR, Record

\* A denial.
LEMMA Denied ==
    ASSUME NEW name \in Name
    PROVE  /\ Denial(name) \in Seq(Record)
           /\ \A type : Has(Denial(name), type) <=> Dnssec /\ type = "NSEC"
<1>1. NSEC(name) \in Record /\ NSEC(name).type = "NSEC"
  BY Made, ConstantNames DEF NSEC, RRTypes
<1> QED BY <1>1, OneRecord, NoRecord DEF Denial

\* The zone's SOA.
LEMMA SOARecord ==
    ASSUME zone \in Zones
    PROVE  SOA \in Record /\ SOA.type = "SOA" /\ <<SOA>> \in Seq(Record) /\ Has(<<SOA>>, "SOA")
<1>1. SOA \in Record /\ SOA.type = "SOA"
  BY Made, ConstantNames DEF SOA, RRTypes
<1> QED BY <1>1, OneRecord

\* A response with SOA and a denial is complete.
LEMMA Complete ==
    ASSUME zone \in Zones, NEW name \in Name, NEW auth,
           auth = <<SOA>> \o Denial(name) \/ auth = Denial(name) \o <<SOA>>
    PROVE  /\ auth \in Seq(Record) /\ Has(auth, "SOA") /\ ~Has(auth, "NS")
           /\ Dnssec => Has(auth, "NSEC")
<1>1. <<SOA>> \in Seq(Record) /\ \A type : Has(<<SOA>>, type) <=> type = "SOA"
  BY SOARecord, OneRecord
<1>2. Denial(name) \in Seq(Record) /\ \A type : Has(Denial(name), type) <=> Dnssec /\ type = "NSEC"
  BY Denied
<1>3. PICK s, d : s = <<SOA>> /\ d = Denial(name)
  OBVIOUS
<1>4. /\ s \o d \in Seq(Record) /\ d \o s \in Seq(Record)
      /\ \A type : Has(s \o d, type) <=> Has(s, type) \/ Has(d, type)
      /\ \A type : Has(d \o s, type) <=> Has(d, type) \/ Has(s, type)
  BY <1>1, <1>2, <1>3, Continued
<1>5. auth = s \o d \/ auth = d \o s
  BY <1>3
<1>6. /\ Has(s, "SOA") /\ ~Has(s, "NS") /\ ~Has(d, "NS")
      /\ Dnssec => Has(d, "NSEC")
  BY <1>1, <1>2, <1>3
<1> QED BY <1>4, <1>5, <1>6

\* The answer so far is a chain.
LEMMA ChainSoFar ==
    ASSUME ResolverInv, ~Ended
    PROVE  answer \in Seq(Record) /\ Chained(answer) /\ Chained(<<>>)
<1>1. answer \in Seq(Record)
  BY DEF ResolverInv, ResolverTypeOK, Ended
<1>2. Chained(<<>>)
  BY DEF Chained, Links
<1>3. CASE Flattening
  BY <1>1, <1>2, <1>3 DEF ResolverInv, Handled
<1>4. CASE ~Flattening
  <2>1. Linked(answer, cur)
    BY <1>4 DEF ResolverInv, Handled
  <2>2. Len(answer) \in Nat /\ DOMAIN answer = 1..Len(answer)
    BY <1>1
  <2>3. Links(answer) = 1..Len(answer)
    BY <2>1, <2>2 DEF Links, Linked
  <2>4. \A i \in 1..Len(answer) :
            /\ i = 1 => answer[i].owner = req.qname
            /\ i > 1 => /\ i - 1 \in 1..Len(answer) /\ answer[i - 1].type = "CNAME"
                        /\ answer[i - 1].to = answer[i].owner
    BY <2>1, <2>2 DEF Linked
  <2> QED BY <1>1, <1>2, <1>4, <2>3, <2>4 DEF Chained
<1> QED BY <1>3, <1>4

\* A record that continues the chain, as the owner says or for its type.
Continues(r) ==
    \/ r.type \in {"SOA", "DNSKEY"}
    \/ r.owner = (IF Flattening THEN req.qname ELSE cur)
    \/ Flattening /\ r.type = "DS"

\* With such a record the answer is still a chain.
LEMMA ChainContinued ==
    ASSUME ResolverInv, ~Ended, NEW r \in Record, Continues(r)
    PROVE  /\ answer \o <<r>> \in Seq(Record) /\ answer \o <<r>> # <<>>
           /\ answer \o <<r>> = Append(answer, r)
           /\ Chained(answer \o <<r>>)
<1>1. PICK u : u = answer \o <<r>>
  OBVIOUS
<1>2. /\ answer \in Seq(Record) /\ Len(answer) \in Nat /\ DOMAIN answer = 1..Len(answer)
      /\ u = Append(answer, r) /\ u \in Seq(Record) /\ u # <<>>
      /\ Len(u) = Len(answer) + 1 /\ DOMAIN u = 1..Len(u) /\ u[Len(u)] = r
      /\ \A i \in 1..Len(answer) : u[i] = answer[i]
  <2> HIDE DEF Record
  <2> QED BY <1>1, ChainSoFar
<1>3. CASE Flattening
  <2>1. Len(u) = 1
    BY <1>2, <1>3 DEF ResolverInv, Handled
  <2>2. \A i \in Links(u) : u[i] = r /\ r.type \notin {"SOA", "DNSKEY"}
    BY <1>2, <2>1 DEF Links
  <2> QED BY <1>1, <1>2, <1>3, <2>2 DEF Chained, Continues
<1>4. CASE ~Flattening
  <2>1. Linked(answer, cur)
    BY <1>4 DEF ResolverInv, Handled
  <2>2. \A i \in 1..Len(answer) : i \in Links(u) /\ u[i].type = "CNAME"
    BY <1>2, <2>1 DEF Links, Linked
  <2>3. ASSUME NEW i \in Links(u)
        PROVE  /\ i = 1 => u[i].owner = req.qname
               /\ i > 1 => /\ i - 1 \in Links(u) /\ u[i - 1].type = "CNAME"
                           /\ u[i - 1].to = u[i].owner
    <3>1. i \in 1..(Len(answer) + 1)
      BY <1>2 DEF Links
    <3>2. CASE i <= Len(answer)
      <4>1. /\ i = 1 => answer[i].owner = req.qname
            /\ i > 1 => answer[i - 1].to = answer[i].owner /\ i - 1 \in 1..Len(answer)
        BY <1>2, <2>1, <3>1, <3>2 DEF Linked
      <4> QED BY <1>2, <2>2, <3>1, <3>2, <4>1
    <3>3. CASE i = Len(answer) + 1
      <4>1. u[i] = r /\ r.owner = cur
        BY <1>2, <1>4, <3>3 DEF Links, Continues
      <4>2. CASE answer = <<>>
        <5>1. i = 1 /\ cur = req.qname
          BY <2>1, <3>3, <4>2 DEF Linked
        <5> QED BY <4>1, <5>1
      <4>3. CASE answer # <<>>
        <5>1. i > 1 /\ i - 1 = Len(answer) /\ i - 1 \in 1..Len(answer)
          BY <1>2, <3>3, <4>3
        <5>2. answer[Len(answer)].to = cur
          BY <2>1, <4>3 DEF Linked
        <5> QED BY <1>2, <2>2, <4>1, <5>1, <5>2
      <4> QED BY <4>2, <4>3
    <3> QED BY <1>2, <3>1, <3>2, <3>3
  <2> QED BY <1>1, <1>2, <1>4, <2>3 DEF Chained
<1> QED BY <1>3, <1>4

\* Nothing is to be shown of a response that was not sent.
LEMMA NotSent == ASSUME pc' # "done" PROVE Responses'
BY DEF Responses, AbsentNames, AnswerChain, NegativeIsComplete, SetsCovered, Done

\* The request is the same in the next step, and so are its options.
LEMMA SameOptions ==
    ASSUME req' = req
    PROVE  (Dnssec' <=> Dnssec) /\ (Flattening' <=> Flattening)
BY DEF Dnssec, Flattening

\* A step that ends the handling of the request with a right response.
LEMMA Ends ==
    ASSUME ResolverInv, ~Ended, Elsewhere, pc' = "respond", cur' = cur, loc' = loc,
           quiet' \in BOOLEAN, Response(answer', authority', res', quiet')
    PROVE  ResolverInv'
<1>1. zones' = zones /\ records' = records /\ req' = req /\ zone' = zone
  BY DEF Elsewhere, envVars
<1>2. (Dnssec' <=> Dnssec) /\ (Flattening' <=> Flattening)
  BY <1>1, SameOptions
<1>3. ResolverTypeOK'
  BY <1>1 DEF ResolverInv, ResolverTypeOK, Response
<1>4. Handled' /\ Referred' /\ QuietZone'
  BY DEF Handled, Referred, QuietZone, Ended
<1>5. Absent => Absent'
  BY <1>1 DEF Absent
<1>6. Chained(answer')  => Chained(answer)'
  BY <1>1, <1>2 DEF Chained, Links
<1>7. Negative(answer', authority', res', quiet') => Negative(answer, authority, res, quiet)'
  BY <1>1, <1>2 DEF Negative, Has
<1>8. Unsigned'
  BY <1>1, <1>2, <1>5, <1>6, <1>7 DEF Unsigned, Response
<1>9. Responses'
  BY NotSent
<1> QED BY <1>3, <1>4, <1>8, <1>9 DEF ResolverInv

\* What holds while a request is handled.
LEMMA UnderWay ==
    ASSUME ResolverInv, ~Ended
    PROVE  /\ zones \in SUBSET Zones /\ records \in Contents /\ req \in Requests
           /\ cur \in Name /\ loc \in Name /\ quiet \in BOOLEAN
           /\ answer \in Seq(Record) /\ authority \in Seq(Record)
           /\ res = "NOERROR" /\ (pc # "findZone" => zone \in Zones)
           /\ req.qname \in Name /\ NoName \in Name /\ Apex \in Name
           /\ pc \notin {"ceDS", "glue"} => authority = <<>>
BY ConstantNames DEF ResolverInv, ResolverTypeOK, Handled, Ended

\* A call that fails ends with SERVFAIL.
LEMMA FailureEnds ==
    ASSUME ResolverInv, ~Ended, pc # "findZone", Elsewhere, UNCHANGED loopVars, CallFails,
           Break("SERVFAIL")
    PROVE  ResolverInv'
<1>1. /\ pc' = "respond" /\ res' = "SERVFAIL" /\ quiet' \in BOOLEAN
      /\ answer' = answer /\ authority' = authority /\ cur' = cur /\ loc' = loc
  BY UnderWay DEF Break, CallFails, loopVars
<1>2. answer \in Seq(Record) /\ Chained(answer) /\ authority \in Seq(Record)
  BY ChainSoFar, UnderWay
<1>3. Negative(answer', authority', res', quiet')
  BY <1>1 DEF Negative
<1>4. Response(answer', authority', res', quiet')
  BY <1>1, <1>2, <1>3 DEF Response
<1> QED BY <1>1, <1>4, Ends

\* At the final location the name is the one to answer under.
LEMMA FinalName ==
    ASSUME ResolverInv, pc \in AnswerSteps
    PROVE  /\ ~Ended /\ pc # "findZone" /\ zone \in Zones /\ authority = <<>> /\ res = "NOERROR"
           /\ cur = (IF Flattening THEN req.qname ELSE cur)
<1>1. ~Ended /\ pc # "findZone" /\ pc \notin {"ceDS", "glue"}
  BY DEF AnswerSteps, Ended
<1> QED BY <1>1, UnderWay DEF ResolverInv, Handled

\* Finish, with no record or with one that continues the answer.
LEMMA FinishEnds ==
    ASSUME ResolverInv, pc \in AnswerSteps, Elsewhere, UNCHANGED loopVars,
           quiet' \in BOOLEAN, NEW rrs, NEW r \in {"NOERROR", "SERVFAIL"}, Finish(rrs, r),
           rrs = <<>> \/ \E x \in Record : rrs = <<x>> /\ Continues(x)
    PROVE  ResolverInv'
<1>1. /\ ~Ended /\ zone \in Zones /\ authority = <<>> /\ res = "NOERROR"
  BY FinalName
<1>2. cur \in Name /\ answer \in Seq(Record) /\ cur' = cur /\ loc' = loc /\ pc' = "respond"
  BY <1>1, UnderWay DEF Finish, loopVars
<1>3. CASE rrs = <<>>
  <2>1. answer' = answer /\ Chained(answer)
    BY <1>1, <1>2, <1>3, ChainSoFar DEF Finish
  <2>2. res' = DeniedRes(cur, r) /\ res' # "NXDOMAIN"
    BY <1>3 DEF Finish, DeniedRes
  <2>3. authority' = Denial(cur) \o (IF res' = "NOERROR" THEN <<SOA>> ELSE <<>>)
    <3>1. PICK more : more = Denial(cur) \o (IF res' = "NOERROR" THEN <<SOA>> ELSE <<>>)
      OBVIOUS
    <3>2. more \in Seq(Record)
      BY <1>1, <1>2, <3>1, Denied, SOARecord, NoRecord, Continued
    <3>3. authority' = <<>> \o more
      BY <1>1, <1>3, <3>1 DEF Finish
    <3> QED BY <3>1, <3>2, <3>3
  <2>4. CASE res' = "NOERROR"
    <3>1. authority' = Denial(cur) \o <<SOA>>
      BY <2>3, <2>4
    <3>2. /\ authority' \in Seq(Record) /\ Has(authority', "SOA") /\ ~Has(authority', "NS")
          /\ Dnssec => Has(authority', "NSEC")
      BY <1>1, <1>2, <3>1, Complete
    <3>3. Negative(answer', authority', res', quiet')
      BY <3>2 DEF Negative
    <3>4. Response(answer', authority', res', quiet')
      BY <1>2, <2>1, <2>2, <3>2, <3>3 DEF Response
    <3> QED BY <1>1, <1>2, <3>4, Ends
  <2>5. CASE res' # "NOERROR"
    <3>1. authority' = Denial(cur) /\ Denial(cur) \in Seq(Record) /\ ~Has(Denial(cur), "NS")
      <4>1. Denial(cur) \in Seq(Record) /\ ~Has(Denial(cur), "NS")
        BY <1>2, Denied
      <4> QED BY <2>3, <2>5, <4>1
    <3>2. Negative(answer', authority', res', quiet')
      BY <2>2, <2>5 DEF Negative
    <3>3. Response(answer', authority', res', quiet')
      BY <1>2, <2>1, <2>2, <3>1, <3>2 DEF Response
    <3> QED BY <1>1, <1>2, <3>3, Ends
  <2> QED BY <2>4, <2>5
<1>4. CASE rrs # <<>>
  <2>1. PICK x \in Record : rrs = <<x>> /\ Continues(x)
    BY <1>4
  <2>2. answer' \in Seq(Record) /\ answer' # <<>> /\ Chained(answer')
    BY <1>1, <2>1, ChainContinued DEF Finish
  <2>3. authority' = <<>> /\ res' = r
    BY <1>1, <1>4 DEF Finish
  <2>4. Negative(answer', authority', res', quiet')
    BY <2>2 DEF Negative
  <2>5. Response(answer', authority', res', quiet')
    BY <2>2, <2>3, <2>4, NoRecord DEF Response
  <2> QED BY <1>1, <1>2, <2>5, Ends
<1> QED BY <1>3, <1>4

\* A step from call to call at the final location.
LEMMA NextCall ==
    ASSUME ResolverInv, pc \in AnswerSteps, pc' \in AnswerSteps, Elsewhere, UNCHANGED loopVars,
           UNCHANGED msgVars, quiet' \in BOOLEAN, quiet' => quiet
    PROVE  ResolverInv'
<1>1. /\ zones' = zones /\ records' = records /\ req' = req /\ zone' = zone
      /\ cur' = cur /\ loc' = loc /\ answer' = answer /\ authority' = authority /\ res' = res
  BY DEF Elsewhere, envVars, loopVars, msgVars
<1>2. (Dnssec' <=> Dnssec) /\ (Flattening' <=> Flattening)
  BY <1>1, SameOptions
<1>3. /\ pc \notin {"findZone", "getZone", "loop", "cname", "respond", "done"} \union ReferralSteps
      /\ pc' \notin {"findZone", "getZone", "loop", "cname", "respond", "done"} \union ReferralSteps
  BY DEF AnswerSteps, ReferralSteps
<1>4. ResolverTypeOK'
  BY <1>1, <1>3 DEF ResolverInv, ResolverTypeOK
<1>5. Linked(answer, cur) => Linked(answer, cur)'
  BY <1>1 DEF Linked
<1>6. Handled'
  BY <1>1, <1>2, <1>3, <1>5 DEF ResolverInv, Handled, Ended, ReferralSteps
<1>7. Referred' /\ QuietZone' /\ Unsigned'
  BY <1>1, <1>3 DEF ResolverInv, Referred, QuietZone, Unsigned, Ended, ReferralSteps
<1> QED BY <1>3, <1>4, <1>6, <1>7, NotSent DEF ResolverInv

\* A record under the name of the final location.
LEMMA OwnRecord ==
    ASSUME ResolverInv, pc \in AnswerSteps, NEW type \in RRTypes, NEW target \in Name
    PROVE  \E x \in Record : <<RR(cur, type, target)>> = <<x>> /\ Continues(x)
<1>1. cur \in Name /\ cur = (IF Flattening THEN req.qname ELSE cur)
  BY FinalName, UnderWay
<1>2. RR(cur, type, target) \in Record /\ RR(cur, type, target).owner = cur
  BY <1>1, Made
<1> QED BY <1>1, <1>2 DEF Continues

\* A record of the zone.
LEMMA ZoneRecord ==
    ASSUME ResolverInv, pc \in AnswerSteps, NEW type \in {"SOA", "DNSKEY"}
    PROVE  \E x \in Record : <<RR(zone, type, NoName)>> = <<x>> /\ Continues(x)
<1>1. zone \in Name /\ NoName \in Name /\ type \in RRTypes
  BY FinalName, ConstantNames DEF RRTypes
<1>2. RR(zone, type, NoName) \in Record /\ RR(zone, type, NoName).type = type
  BY <1>1, Made
<1> QED BY <1>2 DEF Continues

\* Calls work or fail, and leave the world as quiet as it was.
LEMMA QuietOnly ==
    ASSUME ResolverInv, CallWorks \/ CallFails
    PROVE  quiet' \in BOOLEAN /\ (quiet' => quiet)
<1>1. quiet \in BOOLEAN
  BY DEF ResolverInv, ResolverTypeOK
<1>2. quiet' = quiet
  BY DEF CallWorks, CallFails
<1> QED BY <1>1, <1>2

\* A record call that fails.
LEMMA ServfailKeeps ==
    ASSUME ResolverInv, ~Ended, pc # "findZone", Elsewhere, OrServfail
    PROVE  ResolverInv'
<1>1. CallFails /\ Break("SERVFAIL") /\ UNCHANGED loopVars
  BY DEF OrServfail
<1> QED BY <1>1, FailureEnds

\* The answers that need no record set.
LEMMA AnswerFromZoneKeeps == ASSUME ResolverInv, AnswerFromZone PROVE ResolverInv'
<1>1. /\ pc = "answer" /\ pc \in AnswerSteps /\ Elsewhere /\ UNCHANGED loopVars
      /\ quiet' \in BOOLEAN
  BY QuietOnly DEF AnswerFromZone, At, AnswerSteps
<1>2. ~Ended /\ zone \in Zones /\ authority = <<>> /\ res \in {"NOERROR", "SERVFAIL"}
  BY <1>1, FinalName
<1>3. ASSUME NEW rrs, Finish(rrs, res), rrs = <<>> \/ rrs = <<SOA>>
                                        \/ rrs = <<RR(zone, "DNSKEY", NoName)>>
      PROVE  ResolverInv'
  <2>1. rrs = <<>> \/ \E x \in Record : rrs = <<x>> /\ Continues(x)
    BY <1>1, <1>3, ZoneRecord DEF SOA
  <2> QED BY <1>1, <1>2, <1>3, <2>1, FinishEnds
<1>4. CASE req.qtype = "SOA" /\ Finish(<<SOA>>, res)
  BY <1>3, <1>4
<1>5. CASE /\ req.qtype = "DNSKEY"
           /\ Finish(IF req.dnssec THEN <<RR(zone, "DNSKEY", NoName)>> ELSE <<>>, res)
  <2>1. CASE req.dnssec
    BY <1>3, <1>5, <2>1
  <2>2. CASE ~req.dnssec
    BY <1>3, <1>5, <2>2
  <2> QED BY <2>1, <2>2
<1>6. CASE req.qtype = "DS" /\ Finish(<<>>, res)
  BY <1>3, <1>6
<1>7. CASE /\ req.qtype = "OTHER" /\ answer' = <<>> /\ authority' = <<SOA>> /\ res' = "NOERROR"
           /\ pc' = "respond"
  <2>1. <<SOA>> \in Seq(Record) /\ Has(<<SOA>>, "SOA") /\ ~Has(<<SOA>>, "NS")
    BY <1>2, SOARecord, OneRecord
  <2>2. Chained(<<>>) /\ <<>> \in Seq(Record)
    BY <1>2, ChainSoFar, NoRecord
  <2>3. Negative(answer', authority', res', quiet')
    BY <1>7, <2>1 DEF Negative
  <2>4. Response(answer', authority', res', quiet')
    BY <1>7, <2>1, <2>2, <2>3 DEF Response
  <2>5. cur' = cur /\ loc' = loc
    BY <1>1 DEF loopVars
  <2> QED BY <1>1, <1>2, <1>7, <2>4, <2>5, Ends
<1> QED BY <1>4, <1>5, <1>6, <1>7 DEF AnswerFromZone

\* The answer is the record set of the final location.
LEMMA ReadAnswerKeeps == ASSUME ResolverInv, ReadAnswer PROVE ResolverInv'
<1>1. pc = "answer" /\ pc \in AnswerSteps /\ Elsewhere /\ req.qtype \in {"CNAME", "NS", "TXT"}
  BY DEF ReadAnswer, At, AnswerSteps
<1>2. ~Ended /\ pc # "findZone" /\ res \in {"NOERROR", "SERVFAIL"}
  BY <1>1, FinalName
<1>3. CASE OrServfail
  BY <1>1, <1>2, <1>3, ServfailKeeps
<1>4. CASE ~OrServfail
  <2>1. PICK target : target = IF req.qtype = "CNAME" THEN Here.cname ELSE NoName
    OBVIOUS
  <2>2. target \in Name /\ req.qtype \in RRTypes
    BY <1>1, <1>2, <2>1, UnderWay, ConstantNames DEF Here, RRTypes
  <2>3. PICK rrs : rrs = IF ~Holds(Here, req.qtype) THEN <<>> ELSE <<RR(cur, req.qtype, target)>>
    OBVIOUS
  <2>4. Finish(rrs, res) /\ CallWorks /\ UNCHANGED loopVars
    BY <1>4, <2>1, <2>3 DEF ReadAnswer
  <2>5. rrs = <<>> \/ \E x \in Record : rrs = <<x>> /\ Continues(x)
    BY <1>1, <2>2, <2>3, OwnRecord
  <2> QED BY <1>1, <1>2, <2>4, <2>5, QuietOnly, FinishEnds
<1> QED BY <1>3, <1>4

\* Addresses are read first, and then the ANAME.
LEMMA ReadAKeeps == ASSUME ResolverInv, ReadA PROVE ResolverInv'
<1>1. pc = "answer" /\ pc \in AnswerSteps /\ Elsewhere
  BY DEF ReadA, At, AnswerSteps
<1>2. ~Ended /\ pc # "findZone"
  BY <1>1, FinalName
<1>3. CASE OrServfail
  BY <1>1, <1>2, <1>3, ServfailKeeps
<1>4. CASE ~OrServfail
  <2>1. CallWorks /\ UNCHANGED msgVars /\ UNCHANGED loopVars /\ pc' \in AnswerSteps
    BY <1>4 DEF ReadA, AnswerSteps
  <2> QED BY <1>1, <2>1, QuietOnly, NextCall
<1> QED BY <1>3, <1>4

\* Addresses, whether or not the filter lets any through.
LEMMA AddressesEnd ==
    ASSUME ResolverInv, pc \in AnswerSteps, Elsewhere, UNCHANGED loopVars, CallWorks,
           NEW from, Filtered(from) \/ Addresses(from)
    PROVE  ResolverInv'
<1>1. quiet' \in BOOLEAN
  BY QuietOnly
<1>2. CASE Addresses(from)
  <2>1. \E x \in Record : <<RR(cur, "A", NoName)>> = <<x>> /\ Continues(x)
    BY OwnRecord, ConstantNames DEF RRTypes
  <2> QED BY <1>1, <1>2, <2>1, FinishEnds DEF Addresses
<1>3. CASE Finish(<<>>, "NOERROR")
  BY <1>1, <1>3, FinishEnds
<1> QED BY <1>2, <1>3 DEF Filtered

\* No address.
LEMMA NoAddressEnds ==
    ASSUME ResolverInv, pc \in AnswerSteps, Elsewhere, UNCHANGED loopVars, CallWorks \/ CallFails,
           NEW r \in {"NOERROR", "SERVFAIL"}, NoAddress(r)
    PROVE  ResolverInv'
BY QuietOnly, FinishEnds DEF NoAddress

\* The addresses, or the ANAME, of the final location.
LEMMA ReadANAMEKeeps == ASSUME ResolverInv, ReadANAME PROVE ResolverInv'
<1>1. pc \in {"aname", "anameWithA"} /\ pc \in AnswerSteps /\ Elsewhere
  BY DEF ReadANAME, At, AnswerSteps
<1>2. ~Ended /\ pc # "findZone" /\ res \in {"NOERROR", "SERVFAIL"}
  BY <1>1, FinalName
<1>3. CASE OrServfail
  BY <1>1, <1>2, <1>3, ServfailKeeps
<1>4. CASE CallWorks /\ Filtered("own") /\ UNCHANGED loopVars
  BY <1>1, <1>4, AddressesEnd
<1>5. CASE CallWorks /\ Finish(<<>>, res) /\ UNCHANGED loopVars
  BY <1>1, <1>2, <1>5, QuietOnly, FinishEnds
<1>6. CASE CallWorks /\ pc' = "alias" /\ UNCHANGED <<msgVars, loopVars>>
  <2>1. pc' \in AnswerSteps
    BY <1>6 DEF AnswerSteps
  <2> QED BY <1>1, <1>6, <2>1, QuietOnly, NextCall
<1> QED BY <1>3, <1>4, <1>5, <1>6 DEF ReadANAME

\* The steps of findANAME.
LEMMA AliasKeeps ==
    ASSUME ResolverInv, AliasHop \/ Upstream \/ ReadAliasCNAME \/ ReadAliasA \/ ReadAliasANAME
    PROVE  ResolverInv'
<1>1. pc \in AnswerSteps /\ Elsewhere /\ UNCHANGED loopVars
  BY DEF AliasHop, Upstream, ReadAliasCNAME, ReadAliasA, ReadAliasANAME, At, AnswerSteps
<1>2. CASE (CallWorks \/ CallFails) /\ (NoAddress("SERVFAIL") \/ NoAddress("NOERROR"))
  BY <1>1, <1>2, NoAddressEnds
<1>3. CASE CallWorks /\ pc' \in AnswerSteps /\ UNCHANGED msgVars
  BY <1>1, <1>3, QuietOnly, NextCall
<1>4. CASE CallWorks /\ (Filtered("alias") \/ Addresses("upstream"))
  BY <1>1, <1>4, AddressesEnd
<1>5. CASE AliasHop
  BY <1>2, <1>3, <1>5 DEF AliasHop, AnswerSteps
<1>6. CASE Upstream
  BY <1>2, <1>4, <1>6 DEF Upstream, AliasFails
<1>7. CASE ReadAliasCNAME
  BY <1>2, <1>3, <1>7 DEF ReadAliasCNAME, AliasFails, AnswerSteps
<1>8. CASE ReadAliasA
  BY <1>2, <1>3, <1>4, <1>8 DEF ReadAliasA, AliasFails, AnswerSteps
<1>9. CASE ReadAliasANAME
  BY <1>2, <1>3, <1>9 DEF ReadAliasANAME, AliasFails, AnswerSteps
<1> QED BY <1>5, <1>6, <1>7, <1>8, <1>9

\* The steps of findCAA.
LEMMA CAAKeeps ==
    ASSUME ResolverInv, ReadFirstCAA \/ ClimbCAA \/ ReadLastCAA
    PROVE  ResolverInv'
<1>1. pc \in AnswerSteps /\ Elsewhere /\ UNCHANGED loopVars
  BY DEF ReadFirstCAA, ClimbCAA, ReadLastCAA, At, AnswerSteps
<1>2. res \in {"NOERROR", "SERVFAIL"}
  BY <1>1, FinalName
<1>3. ASSUME CallWorks \/ CallFails, NEW rrs, rrs = <<>> \/ rrs = <<RR(cur, "CAA", NoName)>>,
             Finish(rrs, res)
      PROVE  ResolverInv'
  <2>1. rrs = <<>> \/ \E x \in Record : rrs = <<x>> /\ Continues(x)
    BY <1>1, <1>3, OwnRecord, ConstantNames DEF RRTypes
  <2> QED BY <1>1, <1>2, <1>3, <2>1, QuietOnly, FinishEnds
<1>4. CASE (CallWorks \/ CallFails) /\ pc' \in AnswerSteps /\ UNCHANGED msgVars
  BY <1>1, <1>4, QuietOnly, NextCall
<1>5. CASE ReadFirstCAA
  BY <1>3, <1>4, <1>5 DEF ReadFirstCAA, AnswerSteps
<1>6. CASE ClimbCAA
  BY <1>1, <1>3, <1>4, <1>6 DEF ClimbCAA
<1>7. CASE ReadLastCAA
  <2>1. CASE CallFails /\ Finish(<<>>, res)
    BY <1>3, <2>1
  <2>2. CASE CallWorks /\ Finish(IF Get(zone, Apex).caa THEN <<RR(cur, "CAA", NoName)>> ELSE <<>>, res)
    <3>1. CASE Get(zone, Apex).caa
      BY <1>3, <2>2, <3>1
    <3>2. CASE ~Get(zone, Apex).caa
      BY <1>3, <2>2, <3>2
    <3> QED BY <3>1, <3>2
  <2> QED BY <1>7, <2>1, <2>2 DEF ReadLastCAA
<1> QED BY <1>5, <1>6, <1>7

\* The zone is found, or the request refused.
LEMMA FindZoneKeeps == ASSUME ResolverInv, FindZoneOfQuery PROVE ResolverInv'
<1>1. /\ pc = "findZone" /\ ~Ended /\ zone' = FindZone(zones, req.qname)
      /\ zones' = zones /\ records' = records /\ req' = req
      /\ cur' = cur /\ loc' = loc /\ answer' = answer /\ authority' = authority
      /\ quiet' = quiet
  BY DEF FindZoneOfQuery, Ended, envVars, loopVars, CallWorks
<1>2. /\ zone' \in zones \union {NoName} /\ zones \in SUBSET Zones /\ zones' \in SUBSET Zones
      /\ zone' # NoName => IsPrefix(zone', req.qname)
  BY <1>1, UnderWay, ZoneOfName
<1>3. (Dnssec' <=> Dnssec) /\ (Flattening' <=> Flattening)
  BY <1>1, SameOptions
<1>4. cur = req.qname /\ answer = <<>> /\ authority = <<>> /\ res = "NOERROR"
  BY <1>1 DEF ResolverInv, Handled, Ended
<1>5. ResolverTypeOK'
  BY <1>1, <1>2, <1>4 DEF ResolverInv, ResolverTypeOK, FindZoneOfQuery
<1>6. CASE zone' = NoName
  <2>1. pc' = "respond" /\ res' = "NOTAUTH"
    BY <1>6 DEF FindZoneOfQuery
  <2>2. Handled' /\ Referred' /\ QuietZone'
    BY <2>1 DEF Handled, Referred, QuietZone, Ended
  <2>3. Chained(answer)' /\ Negative(answer, authority, res, quiet)'
    BY <1>1, <1>4, <1>6 DEF Chained, Links, Negative
  <2>4. answer' \in Seq(Record) /\ authority' \in Seq(Record)
    BY <1>1, <1>4, NoRecord
  <2>5. Unsigned'
    BY <1>6, <2>1, <2>3, <2>4 DEF Unsigned, Response
  <2> QED BY <1>5, <2>1, <2>2, <2>5, NotSent DEF ResolverInv
<1>7. CASE zone' # NoName
  <2>1. pc' = "getZone" /\ res' = "NOERROR" /\ zone' \in Zones
    BY <1>2, <1>4, <1>7 DEF FindZoneOfQuery
  <2>2. Linked(answer, cur)'
    BY <1>1, <1>4 DEF Linked
  <2>3. Handled'
    BY <1>1, <1>3, <1>4, <2>1, <2>2 DEF Handled, Ended, AnswerSteps
  <2>4. Referred' /\ QuietZone' /\ Unsigned'
    BY <1>1, <1>4, <2>1 DEF Referred, QuietZone, Unsigned, Ended, ReferralSteps
  <2> QED BY <1>5, <2>1, <2>3, <2>4, NotSent DEF ResolverInv
<1> QED BY <1>6, <1>7

\* The zone is loaded.
LEMMA GetZoneKeeps == ASSUME ResolverInv, GetZone PROVE ResolverInv'
<1>1. pc = "getZone" /\ ~Ended /\ Elsewhere /\ UNCHANGED loopVars
  BY DEF GetZone, Ended
<1>2. CASE CallFails /\ Break("SERVFAIL")
  BY <1>1, <1>2, FailureEnds
<1>3. CASE CallWorks /\ pc' = "loop" /\ UNCHANGED msgVars
  <2>1. /\ zones' = zones /\ records' = records /\ req' = req /\ zone' = zone
        /\ cur' = cur /\ loc' = loc /\ answer' = answer /\ authority' = authority /\ res' = res
        /\ quiet' = quiet
    BY <1>1, <1>3 DEF Elsewhere, envVars, loopVars, msgVars, CallWorks
  <2>2. (Dnssec' <=> Dnssec) /\ (Flattening' <=> Flattening)
    BY <2>1, SameOptions
  <2>3. /\ cur = req.qname /\ answer = <<>> /\ authority = <<>> /\ res = "NOERROR" /\ zone \in Zones
        /\ quiet => FindZone(zones, req.qname) = zone
    BY <1>1 DEF ResolverInv, Handled, QuietZone, Ended
  <2>4. ResolverTypeOK'
    BY <1>1, <1>3, <2>1 DEF ResolverInv, ResolverTypeOK
  <2>5. Linked(answer, cur)'
    BY <2>1, <2>3 DEF Linked
  <2>6. Handled'
    BY <1>3, <2>1, <2>2, <2>3, <2>5 DEF Handled, Ended, AnswerSteps
  <2>7. Referred' /\ QuietZone' /\ Unsigned'
    BY <1>3, <2>1, <2>3 DEF Referred, QuietZone, Unsigned, Ended, ReferralSteps
  <2> QED BY <1>3, <2>4, <2>6, <2>7, NotSent DEF ResolverInv
<1> QED BY <1>2, <1>3 DEF GetZone

\* The loop is left after too many CNAMEs.
LEMMA TooManyHopsKeeps == ASSUME ResolverInv, TooManyHops PROVE ResolverInv'
<1>1. /\ pc = "loop" /\ ~Ended /\ Elsewhere /\ cur' = cur /\ loc' = loc /\ quiet' = quiet
      /\ pc' = "respond" /\ answer' = <<>> /\ res' = "SERVFAIL" /\ authority' = authority
  BY DEF TooManyHops, Ended, loopVars, CallWorks
<1>2. authority = <<>> /\ quiet \in BOOLEAN
  BY <1>1, UnderWay
<1>3. Negative(answer', authority', res', quiet')
  BY <1>1 DEF Negative
<1>4. Response(answer', authority', res', quiet')
  BY <1>1, <1>2, <1>3, ChainSoFar, NoRecord DEF Response
<1> QED BY <1>1, <1>2, <1>4, Ends

\* At the head of the loop.
LEMMA AtLoop ==
    ASSUME ResolverInv, InLoop
    PROVE  /\ pc = "loop" /\ ~Ended /\ Elsewhere /\ cur' = cur /\ quiet' = quiet
           /\ zones' = zones /\ records' = records /\ req' = req /\ zone' = zone
           /\ quiet \in BOOLEAN /\ authority = <<>> /\ res = "NOERROR" /\ zone \in Zones
           /\ cur \in Name /\ answer \in Seq(Record)
           /\ InZone => IsPrefix(zone, cur)
<1>1. /\ pc = "loop" /\ ~Ended /\ Elsewhere /\ cur' = cur /\ quiet' = quiet
      /\ zones' = zones /\ records' = records /\ req' = req /\ zone' = zone
  BY DEF InLoop, Ended, CallWorks, Elsewhere, envVars
<1>2. /\ quiet \in BOOLEAN /\ authority = <<>> /\ res = "NOERROR" /\ zone \in Zones
      /\ cur \in Name /\ zones \in SUBSET Zones /\ answer \in Seq(Record)
  BY <1>1, UnderWay
<1>3. InZone => IsPrefix(zone, cur)
  BY <1>2, ZoneOfName, ConstantNames DEF InZone
<1> QED BY <1>1, <1>2, <1>3

\* A CNAME, or a reload of the zone list, leads out of the zone.
LEMMA OutOfZoneKeeps == ASSUME ResolverInv, OutOfZone PROVE ResolverInv'
<1>1. InLoop /\ ~InZone /\ pc' = "respond" /\ res' = "NOERROR" /\ loc' = loc /\ answer' = answer
  BY DEF OutOfZone
<1>2. answer = <<>> => ~quiet
  <2> SUFFICES ASSUME answer = <<>>, quiet PROVE FALSE
    OBVIOUS
  <2>1. pc = "loop" /\ ~Ended
    BY <1>1, AtLoop
  <2>2. FindZone(zones, req.qname) = zone /\ (Flattening => FindZone(zones, cur) = zone)
    BY <2>1 DEF ResolverInv, QuietZone
  <2>3. ~Flattening => cur = req.qname
    BY <2>1 DEF ResolverInv, Handled, Linked
  <2> QED BY <1>1, <2>2, <2>3 DEF InZone
<1>3. PICK d : d = Denial(req.qname)
  OBVIOUS
<1>4. d \in Seq(Record) /\ (Dnssec => Has(d, "NSEC")) /\ ~Has(d, "NS")
  BY <1>1, <1>3, AtLoop, UnderWay, Denied
<1>5. authority' = (IF answer = <<>> THEN d ELSE <<>>)
  <2>1. authority' = <<>> \o (IF answer = <<>> THEN d ELSE <<>>)
    BY <1>1, <1>3, AtLoop DEF OutOfZone
  <2> QED BY <1>4, <2>1
<1>6. Negative(answer', authority', res', quiet')
  BY <1>1, <1>2, <1>4, <1>5, AtLoop DEF Negative
<1>7. Chained(answer) /\ answer \in Seq(Record)
  BY <1>1, AtLoop, ChainSoFar
<1>8. authority' \in Seq(Record) /\ ~Has(authority', "NS")
  BY <1>4, <1>5, NoRecord
<1>9. Response(answer', authority', res', quiet')
  BY <1>1, <1>6, <1>7, <1>8 DEF Response
<1> QED BY <1>1, <1>9, AtLoop, Ends

\* The tree has no location for the name.
LEMMA NoSuchNameKeeps == ASSUME ResolverInv, NoSuchName PROVE ResolverInv'
<1>1. /\ InLoop /\ InZone /\ Lookup(cur).match \in {"none", "emptyNonterminal"}
      /\ pc' = "respond" /\ loc' = loc /\ answer' = answer
      /\ res' = DeniedRes(cur, IF Lookup(cur).match = "none" THEN "NXDOMAIN" ELSE "NOERROR")
      /\ authority' = <<SOA>> \o Denial(cur)
  BY DEF NoSuchName
<1>2. /\ IsPrefix(zone, cur)
      /\ Lookup(cur).match = ReferenceMatch(zone, Locations[zone], cur)
  BY <1>1, AtLoop, LookedUp
<1>3. res' = "NXDOMAIN" => ~Dnssec /\ Absent
  BY <1>1, <1>2 DEF DeniedRes, Absent
<1>4. /\ authority' \in Seq(Record) /\ Has(authority', "SOA") /\ ~Has(authority', "NS")
      /\ Dnssec => Has(authority', "NSEC")
  BY <1>1, AtLoop, Complete
<1>5. Negative(answer', authority', res', quiet')
  BY <1>4 DEF Negative
<1>6. Chained(answer) /\ answer \in Seq(Record)
  BY <1>1, AtLoop, ChainSoFar
<1>7. Response(answer', authority', res', quiet')
  BY <1>1, <1>3, <1>4, <1>5, <1>6 DEF Response
<1> QED BY <1>1, <1>7, AtLoop, Ends

\* The tree has a location to answer from, or one that may be a delegation.
LEMMA NameMatchesKeeps == ASSUME ResolverInv, NameMatches PROVE ResolverInv'
<1>1. /\ InLoop /\ InZone /\ Lookup(cur).match \in {"ce", "wildcard", "exact"}
      /\ loc' = Lookup(cur).location
      /\ pc' = IF Lookup(cur).match = "ce" THEN "ceNS" ELSE "cname"
      /\ answer' = answer /\ authority' = authority /\ res' = res
  BY DEF NameMatches, msgVars
<1>2. /\ zone \in Zones /\ cur \in Name /\ IsPrefix(zone, cur) /\ pc = "loop" /\ ~Ended
  BY <1>1, AtLoop
<1>3. /\ loc' \in Name
      /\ pc' = "ceNS" => Absent
  BY <1>1, <1>2, LookedUp DEF Absent
<1>4. /\ cur' = cur /\ quiet' = quiet /\ zones' = zones /\ records' = records /\ req' = req
      /\ zone' = zone
  BY <1>1, AtLoop
<1>5. (Dnssec' <=> Dnssec) /\ (Flattening' <=> Flattening)
  BY <1>4, SameOptions
<1>6. Linked(answer, cur) => Linked(answer, cur)'
  BY <1>1, <1>4 DEF Linked
<1>7. pc' \in {"ceNS", "cname"} /\ (Absent => Absent')
  BY <1>1, <1>4 DEF Absent
<1>8. ResolverTypeOK'
  BY <1>1, <1>2, <1>3, <1>4, <1>7 DEF ResolverInv, ResolverTypeOK, ReferralSteps
<1>9. Handled'
  BY <1>1, <1>2, <1>4, <1>5, <1>6, <1>7 DEF ResolverInv, Handled, Ended, AnswerSteps
<1>10. Referred' /\ QuietZone' /\ Unsigned'
  BY <1>2, <1>3, <1>4, <1>5, <1>7 DEF ResolverInv, Referred, QuietZone, Unsigned, Ended
<1> QED BY <1>7, <1>8, <1>9, <1>10, NotSent DEF ResolverInv

\* A step that goes on with the request.
LEMMA GoesOn ==
    ASSUME ResolverInv, ~Ended, pc # "findZone", Elsewhere, loc' = loc, res' = res,
           quiet' \in BOOLEAN, quiet' => quiet, cur' \in Name,
           pc' \in {"loop"} \union AnswerSteps \union (ReferralSteps \ {"ceNS"}),
           answer' \in Seq(Record), authority' \in Seq(Record),
           IF Flattening THEN answer' = <<>> ELSE Linked(answer', cur'),
           Flattening /\ pc' \in AnswerSteps => cur' = req.qname,
           IF pc' \in {"ceDS", "glue"} THEN Has(authority', "NS") ELSE authority' = <<>>,
           pc' = "glue" /\ Dnssec => Has(authority', "NSEC") \/ Has(authority', "DS"),
           quiet /\ pc' = "loop" /\ Flattening => FindZone(zones, cur') = zone
    PROVE  ResolverInv'
<1>1. zones' = zones /\ records' = records /\ req' = req /\ zone' = zone
  BY DEF Elsewhere, envVars
<1>2. (Dnssec' <=> Dnssec) /\ (Flattening' <=> Flattening)
  BY <1>1, SameOptions
<1>3. pc' \notin {"findZone", "getZone", "cname", "ceNS", "respond", "done"}
  BY DEF AnswerSteps, ReferralSteps
<1>4. ResolverTypeOK'
  BY <1>1 DEF ResolverInv, ResolverTypeOK
<1>5. res = "NOERROR" /\ zone \in Zones
  BY UnderWay
<1>6. Linked(answer', cur') => Linked(answer, cur)'
  BY <1>1 DEF Linked
<1>7. Handled'
  BY <1>1, <1>2, <1>3, <1>5, <1>6 DEF Handled, Ended
<1>8. \A type : Has(authority', type) => Has(authority, type)'
  BY DEF Has
<1>9. Referred'
  BY <1>2, <1>3, <1>8 DEF Referred
<1>10. QuietZone'
  BY <1>1, <1>2 DEF ResolverInv, QuietZone
<1>11. Unsigned'
  BY <1>3 DEF Unsigned
<1> QED BY <1>3, <1>4, <1>7, <1>9, <1>10, <1>11, NotSent DEF ResolverInv

\* A request that is referred is under way.
LEMMA Referring ==
    ASSUME ResolverInv, pc \in ReferralSteps
    PROVE  ~Ended /\ pc # "findZone" /\ zone \in Zones
<1>1. ~Ended /\ pc # "findZone"
  BY DEF Ended, ReferralSteps
<1> QED BY <1>1, UnderWay

\* NS at the closest encloser: a delegation, or a name error.
LEMMA ReadEncloserNSKeeps == ASSUME ResolverInv, ReadEncloserNS PROVE ResolverInv'
<1>1. pc = "ceNS" /\ Elsewhere /\ pc \in ReferralSteps
  BY DEF ReadEncloserNS, At, ReferralSteps
<1>2. /\ ~Ended /\ pc # "findZone" /\ zone \in Zones /\ authority = <<>> /\ res = "NOERROR"
      /\ cur \in Name /\ loc \in Name /\ answer \in Seq(Record) /\ NoName \in Name
      /\ Absent
  BY <1>1, Referring, UnderWay DEF ResolverInv, Referred
<1>3. CASE OrServfail
  BY <1>1, <1>2, <1>3, ServfailKeeps
<1>4. CASE /\ CallWorks /\ authority' = Append(authority, RR(zone \o loc, "NS", NoName))
           /\ pc' = "ceDS" /\ UNCHANGED <<res, answer, loopVars>>
  <2>1. cur' = cur /\ loc' = loc /\ answer' = answer /\ res' = res
    BY <1>4 DEF loopVars
  <2>2. zone \o loc \in Name
    BY <1>2, ConstantNames DEF Name
  <2>3. PICK r \in Record : r = RR(zone \o loc, "NS", NoName) /\ r.type = "NS"
    BY <1>2, <2>2, Made DEF RRTypes
  <2>4. authority' = <<r>>
    BY <1>2, <1>4, <2>3
  <2>5. authority' \in Seq(Record) /\ Has(authority', "NS")
    BY <2>3, <2>4, OneRecord
  <2>6. IF Flattening THEN answer' = <<>> ELSE Linked(answer', cur')
    BY <1>2, <2>1 DEF ResolverInv, Handled
  <2>7. pc' = "ceDS" /\ pc' \in ReferralSteps \ {"ceNS"} /\ pc' \notin AnswerSteps
    BY <1>4 DEF ReferralSteps, AnswerSteps
  <2>8. quiet' \in BOOLEAN /\ (quiet' => quiet)
    BY <1>4, QuietOnly
  <2> QED BY <1>1, <1>2, <2>1, <2>5, <2>6, <2>7, <2>8, GoesOn
<1>5. CASE /\ CallWorks /\ authority' = <<SOA>> \o Denial(cur)
           /\ res' = DeniedRes(cur, "NXDOMAIN") /\ pc' = "respond" /\ UNCHANGED <<answer, loopVars>>
  <2>1. cur' = cur /\ loc' = loc /\ answer' = answer
    BY <1>5 DEF loopVars
  <2>2. /\ authority' \in Seq(Record) /\ Has(authority', "SOA") /\ ~Has(authority', "NS")
        /\ Dnssec => Has(authority', "NSEC")
    BY <1>2, <1>5, Complete
  <2>3. Negative(answer', authority', res', quiet')
    BY <2>2 DEF Negative
  <2>4. res' = "NXDOMAIN" => ~Dnssec
    BY <1>5 DEF DeniedRes
  <2>5. Chained(answer)
    BY <1>2, ChainSoFar
  <2>6. Response(answer', authority', res', quiet')
    BY <1>2, <2>1, <2>2, <2>3, <2>4, <2>5 DEF Response
  <2> QED BY <1>1, <1>2, <1>5, <2>1, <2>6, QuietOnly, Ends
<1> QED BY <1>3, <1>4, <1>5 DEF ReadEncloserNS

\* The DS of a delegation, or its denial.
LEMMA DSOrDenial ==
    ASSUME NEW name \in Name, NEW s, NEW d, s = IF d THEN <<RR(name, "DS", NoName)>> ELSE Denial(name)
    PROVE  s \in Seq(Record) /\ (Dnssec => Has(s, "NSEC") \/ Has(s, "DS"))
<1>1. PICK r \in Record : r = RR(name, "DS", NoName) /\ r.type = "DS"
  BY Made, ConstantNames DEF RRTypes
<1> QED BY <1>1, OneRecord, Denied

\* DS of the delegation above the name, or its denial.
LEMMA ReadEncloserDSKeeps == ASSUME ResolverInv, ReadEncloserDS PROVE ResolverInv'
<1>1. pc = "ceDS" /\ Elsewhere /\ pc \in ReferralSteps
  BY DEF ReadEncloserDS, At, ReferralSteps
<1>2. /\ ~Ended /\ pc # "findZone" /\ zone \in Zones /\ authority \in Seq(Record)
      /\ cur \in Name /\ loc \in Name /\ answer \in Seq(Record) /\ Has(authority, "NS")
  BY <1>1, Referring, UnderWay DEF ResolverInv, Referred
<1>3. CASE OrServfail
  BY <1>1, <1>2, <1>3, ServfailKeeps
<1>4. CASE ~OrServfail
  <2>1. /\ cur' = cur /\ loc' = loc /\ answer' = answer /\ res' = res /\ CallWorks /\ pc' = "glue"
        /\ authority' = authority \o
              (IF Here.ds THEN <<RR(zone \o loc, "DS", NoName)>> ELSE Denial(zone \o loc))
    BY <1>4 DEF ReadEncloserDS, loopVars
  <2>2. zone \o loc \in Name
    BY <1>2, ConstantNames DEF Name
  <2>3. PICK s : s = IF Here.ds THEN <<RR(zone \o loc, "DS", NoName)>> ELSE Denial(zone \o loc)
    OBVIOUS
  <2>4. s \in Seq(Record) /\ (Dnssec => Has(s, "NSEC") \/ Has(s, "DS"))
    BY <2>2, <2>3, DSOrDenial
  <2>5. authority' = authority \o s
    BY <2>1, <2>3
  <2>6. /\ authority' \in Seq(Record) /\ Has(authority', "NS")
        /\ Dnssec => Has(authority', "NSEC") \/ Has(authority', "DS")
    BY <1>2, <2>4, <2>5, Continued
  <2>7. IF Flattening THEN answer' = <<>> ELSE Linked(answer', cur')
    BY <1>2, <2>1 DEF ResolverInv, Handled
  <2>8. pc' = "glue" /\ pc' \in ReferralSteps \ {"ceNS"} /\ pc' \notin AnswerSteps
    BY <2>1 DEF ReferralSteps, AnswerSteps
  <2>9. quiet' \in BOOLEAN /\ (quiet' => quiet)
    BY <2>1, QuietOnly
  <2> QED BY <1>1, <1>2, <2>1, <2>6, <2>7, <2>8, <2>9, GoesOn
<1> QED BY <1>3, <1>4

\* The addresses of the name servers, and the end of the referral.
LEMMA GlueKeeps ==
    ASSUME ResolverInv, ReferralDone \/ \E h \in hosts : ReadGlue(h)
    PROVE  ResolverInv'
<1>1. pc = "glue" /\ Elsewhere /\ pc \in ReferralSteps
  BY DEF ReadGlue, ReferralDone, At, ReferralSteps
<1>2. /\ ~Ended /\ pc # "findZone" /\ zone \in Zones /\ authority \in Seq(Record)
      /\ cur \in Name /\ answer \in Seq(Record) /\ Has(authority, "NS")
      /\ Dnssec => Has(authority, "NSEC") \/ Has(authority, "DS")
  BY <1>1, Referring, UnderWay DEF ResolverInv, Referred
<1>3. ASSUME NEW h \in hosts, ReadGlue(h) PROVE ResolverInv'
  <2>1. /\ cur' = cur /\ loc' = loc /\ answer' = answer /\ authority' = authority /\ res' = res
        /\ pc' = "glue" /\ (CallWorks \/ CallFails)
    BY <1>1, <1>3 DEF ReadGlue, loopVars
  <2>2. IF Flattening THEN answer' = <<>> ELSE Linked(answer', cur')
    BY <1>2, <2>1 DEF ResolverInv, Handled
  <2>3. pc' \in ReferralSteps \ {"ceNS"} /\ pc' \notin AnswerSteps
    BY <2>1 DEF ReferralSteps, AnswerSteps
  <2>4. quiet' \in BOOLEAN /\ (quiet' => quiet)
    BY <2>1, QuietOnly
  <2> QED BY <1>1, <1>2, <2>1, <2>2, <2>3, <2>4, GoesOn
<1>4. CASE ReferralDone
  <2>1. /\ cur' = cur /\ loc' = loc /\ answer' = answer /\ authority' = authority
        /\ res' = "NOERROR" /\ pc' = "respond" /\ quiet' \in BOOLEAN
    BY <1>4, QuietOnly DEF ReferralDone, Break, loopVars
  <2>2. Negative(answer', authority', res', quiet')
    BY <1>2, <2>1 DEF Negative
  <2>3. Response(answer', authority', res', quiet')
    BY <1>2, <2>1, <2>2, ChainSoFar DEF Response
  <2> QED BY <1>1, <1>2, <2>1, <2>3, Ends
<1> QED BY <1>3, <1>4

\* Records that continue the chain to their target.
LEMMA LinkAdded ==
    ASSUME NEW rrs \in Seq(Record), Linked(rrs, cur), NEW target \in Name, cur \in Name
    PROVE  /\ Append(rrs, RR(cur, "CNAME", target)) \in Seq(Record)
           /\ Linked(Append(rrs, RR(cur, "CNAME", target)), target)
<1>1. PICK r \in Record : /\ r = RR(cur, "CNAME", target) /\ r.owner = cur /\ r.type = "CNAME"
                          /\ r.to = target
  BY Made DEF RRTypes
<1>2. PICK u : u = Append(rrs, r)
  OBVIOUS
<1>3. /\ u \in Seq(Record) /\ u # <<>> /\ Len(u) = Len(rrs) + 1 /\ Len(rrs) \in Nat
      /\ u[Len(u)] = r /\ \A i \in 1..Len(rrs) : u[i] = rrs[i]
  <2> HIDE DEF Record
  <2> QED BY <1>2
<1>4. \A i \in 1..Len(u) : u[i].type = "CNAME"
  BY <1>1, <1>3 DEF Linked
<1>5. rrs = <<>> => Len(u) = 1 /\ cur = req.qname
  BY <1>3 DEF Linked
<1>6. rrs # <<>> => Len(rrs) >= 1 /\ rrs[1].owner = req.qname /\ rrs[Len(rrs)].to = cur
  <2>1. rrs # <<>> => Len(rrs) >= 1
    BY <1>3
  <2> QED BY <2>1 DEF Linked
<1>7. u[1].owner = req.qname /\ u[Len(u)].to = target
  BY <1>1, <1>3, <1>5, <1>6
<1>8. ASSUME NEW i \in 2..Len(u) PROVE u[i - 1].to = u[i].owner
  <2>1. CASE i <= Len(rrs)
    <3>1. i \in 2..Len(rrs) /\ i - 1 \in 1..Len(rrs) /\ i \in 1..Len(rrs)
      BY <1>3, <2>1
    <3> QED BY <1>3, <3>1 DEF Linked
  <2>2. CASE i > Len(rrs)
    <3>1. i = Len(u) /\ i - 1 = Len(rrs) /\ i - 1 \in 1..Len(rrs) /\ rrs # <<>>
      BY <1>3, <2>2
    <3> QED BY <1>1, <1>3, <1>6, <3>1
  <2> QED BY <1>3, <2>1, <2>2
<1> QED BY <1>1, <1>2, <1>3, <1>4, <1>7, <1>8 DEF Linked

\* The CNAME is followed, left to the client, or there is none.
LEMMA ReadCNAMEKeeps == ASSUME ResolverInv, ReadCNAME PROVE ResolverInv'
<1>1. pc = "cname" /\ Elsewhere /\ ~Ended /\ pc # "findZone"
  BY DEF ReadCNAME, At, Ended
<1>2. /\ zone \in Zones /\ authority = <<>> /\ res = "NOERROR" /\ cur \in Name /\ loc \in Name
      /\ answer \in Seq(Record) /\ req.qname \in Name /\ records \in Contents
      /\ zones \in SUBSET Zones
  BY <1>1, UnderWay
<1>3. IF Flattening THEN answer = <<>> ELSE Linked(answer, cur)
  BY <1>1 DEF ResolverInv, Handled
<1>4. Here.cname \in Name
  BY <1>2, ConstantNames DEF Here
<1>5. CASE OrServfail
  BY <1>1, <1>5, ServfailKeeps
<1>6. CASE /\ CallWorks /\ Here.cname # NoName /\ Follow(Here.cname)
           /\ UNCHANGED <<authority, loc>>
  <2>1. authority' = <<>> /\ loc' = loc /\ quiet' \in BOOLEAN /\ (quiet' => quiet)
    BY <1>2, <1>6, QuietOnly
  <2>2. CASE ~Flattening
    <3>1. /\ answer' = Append(answer, RR(cur, "CNAME", Here.cname)) /\ cur' = Here.cname
          /\ pc' = "loop" /\ res' = res
      BY <1>6, <2>2 DEF Follow
    <3>2. answer' \in Seq(Record) /\ Linked(answer', cur')
      BY <1>2, <1>3, <1>4, <2>2, <3>1, LinkAdded
    <3>3. "loop" \notin AnswerSteps \union {"ceDS", "glue"}
      BY DEF AnswerSteps
    <3>4. authority' \in Seq(Record)
      BY <2>1, NoRecord
    <3> QED BY <1>1, <1>4, <2>1, <2>2, <3>1, <3>2, <3>3, <3>4, GoesOn
  <2>3. CASE Flattening /\ FindZone(zones, Here.cname) # zone
    <3>1. /\ answer' = Append(answer, RR(req.qname, "CNAME", Here.cname)) /\ cur' = cur
          /\ pc' = "respond" /\ res' = "NOERROR"
      BY <1>6, <2>3 DEF Follow
    <3>2. PICK r \in Record : /\ r = RR(req.qname, "CNAME", Here.cname) /\ r.owner = req.qname
      BY <1>2, <1>4, Made DEF RRTypes
    <3>3. answer' \in Seq(Record) /\ answer' # <<>> /\ Chained(answer')
      BY <1>1, <2>3, <3>1, <3>2, ChainContinued DEF Continues
    <3>4. Negative(answer', authority', res', quiet')
      BY <3>3 DEF Negative
    <3>5. Response(answer', authority', res', quiet')
      BY <2>1, <3>1, <3>3, <3>4, NoRecord DEF Response
    <3> QED BY <1>1, <2>1, <3>1, <3>5, Ends
  <2>4. CASE Flattening /\ FindZone(zones, Here.cname) = zone
    <3>1. answer' = answer /\ cur' = Here.cname /\ pc' = "loop" /\ res' = res
      BY <1>6, <2>4 DEF Follow
    <3>2. answer' = <<>>
      BY <1>3, <2>4, <3>1
    <3>3. "loop" \notin AnswerSteps \union {"ceDS", "glue"}
      BY DEF AnswerSteps
    <3>4. answer' \in Seq(Record) /\ authority' \in Seq(Record)
      BY <2>1, <3>2, NoRecord
    <3> QED BY <1>1, <1>4, <2>1, <2>4, <3>1, <3>2, <3>3, <3>4, GoesOn
  <2> QED BY <2>2, <2>3, <2>4
<1>7. CASE /\ CallWorks /\ pc' = (IF cur # zone THEN "ns" ELSE "answer")
           /\ cur' = (IF cur # zone THEN cur ELSE Owner) /\ UNCHANGED <<msgVars, loc>>
  <2>1. /\ authority' = <<>> /\ loc' = loc /\ answer' = answer /\ res' = res
        /\ quiet' \in BOOLEAN /\ (quiet' => quiet)
    BY <1>2, <1>7, QuietOnly DEF msgVars
  <2>2. cur' \in Name /\ (pc' = "answer" /\ Flattening => cur' = req.qname)
    BY <1>2, <1>7 DEF Owner
  <2>3. ~Flattening => cur' = cur
    BY <1>7 DEF Owner
  <2>4. /\ pc' \in {"ns", "answer"} /\ "ns" \in ReferralSteps /\ "ns" \notin AnswerSteps
        /\ "answer" \in AnswerSteps /\ "answer" \notin ReferralSteps
    BY <1>7 DEF ReferralSteps, AnswerSteps
  <2>5. IF Flattening THEN answer' = <<>> ELSE Linked(answer', cur')
    BY <1>3, <2>1, <2>3
  <2>6. answer' \in Seq(Record) /\ authority' \in Seq(Record)
    BY <1>2, <2>1, NoRecord
  <2> QED BY <1>1, <2>1, <2>2, <2>4, <2>5, <2>6, GoesOn
<1> QED BY <1>5, <1>6, <1>7 DEF ReadCNAME

\* NS below the zone's own name: a delegation, or the final location.
LEMMA ReadNSKeeps == ASSUME ResolverInv, ReadNS PROVE ResolverInv'
<1>1. pc = "ns" /\ Elsewhere /\ pc \in ReferralSteps
  BY DEF ReadNS, At, ReferralSteps
<1>2. /\ ~Ended /\ pc # "findZone"
      /\ authority = <<>> /\ cur \in Name /\ answer \in Seq(Record) /\ req.qname \in Name
  BY <1>1, Referring, UnderWay
<1>3. CASE OrServfail
  BY <1>1, <1>2, <1>3, ServfailKeeps
<1>4. CASE ~OrServfail
  <2>1. /\ CallWorks /\ pc' = (IF Here.ns # {} THEN "ds" ELSE "answer")
        /\ cur' = (IF Here.ns # {} THEN cur ELSE Owner)
        /\ authority' = <<>> /\ loc' = loc /\ answer' = answer /\ res' = res
    BY <1>2, <1>4 DEF ReadNS, msgVars
  <2>2. cur' \in Name /\ (pc' = "answer" /\ Flattening => cur' = req.qname)
    BY <1>2, <2>1 DEF Owner
  <2>3. ~Flattening => cur' = cur
    BY <2>1 DEF Owner
  <2>4. /\ pc' \in {"ds", "answer"} /\ "ds" \in ReferralSteps /\ "ds" \notin AnswerSteps
        /\ "answer" \in AnswerSteps
    BY <2>1 DEF ReferralSteps, AnswerSteps
  <2>5. IF Flattening THEN answer' = <<>> ELSE Linked(answer', cur')
    BY <1>2, <2>1, <2>3 DEF ResolverInv, Handled
  <2>6. answer' \in Seq(Record) /\ authority' \in Seq(Record)
    BY <1>2, <2>1, NoRecord
  <2>7. quiet' \in BOOLEAN /\ (quiet' => quiet)
    BY <2>1, QuietOnly
  <2> QED BY <1>1, <1>2, <2>1, <2>2, <2>4, <2>5, <2>6, <2>7, GoesOn
<1> QED BY <1>3, <1>4

\* DS of a delegation: the answer, or a referral.
LEMMA ReadDSKeeps == ASSUME ResolverInv, ReadDS PROVE ResolverInv'
<1>1. pc = "ds" /\ Elsewhere /\ pc \in ReferralSteps
  BY DEF ReadDS, At, ReferralSteps
<1>2. /\ ~Ended /\ pc # "findZone"
      /\ authority = <<>> /\ cur \in Name /\ answer \in Seq(Record) /\ NoName \in Name
  BY <1>1, Referring, UnderWay
<1>3. CASE OrServfail
  BY <1>1, <1>2, <1>3, ServfailKeeps
<1>4. CASE /\ CallWorks /\ answer' = Append(answer, RR(cur, "DS", NoName))
           /\ res' = "NOERROR" /\ pc' = "respond" /\ UNCHANGED <<authority, loopVars>>
  <2>1. cur' = cur /\ loc' = loc /\ authority' = <<>> /\ quiet' \in BOOLEAN
    BY <1>2, <1>4, QuietOnly DEF loopVars
  <2>2. PICK r \in Record : r = RR(cur, "DS", NoName) /\ r.owner = cur /\ r.type = "DS"
    BY <1>2, Made DEF RRTypes
  <2>3. answer' \in Seq(Record) /\ answer' # <<>> /\ Chained(answer')
    BY <1>2, <1>4, <2>2, ChainContinued DEF Continues
  <2>4. Negative(answer', authority', res', quiet')
    BY <2>3 DEF Negative
  <2>5. Response(answer', authority', res', quiet')
    BY <1>2, <1>4, <2>1, <2>3, <2>4, NoRecord DEF Response
  <2> QED BY <1>1, <1>2, <1>4, <2>1, <2>5, Ends
<1>5. CASE /\ CallWorks
           /\ authority' = authority
                 \o (IF Here.ds THEN <<RR(cur, "DS", NoName)>> ELSE Denial(cur))
                 \o <<RR(cur, "NS", NoName)>>
           /\ pc' = "glue" /\ UNCHANGED <<res, answer, loopVars>>
  <2>1. cur' = cur /\ loc' = loc /\ answer' = answer /\ res' = res
    BY <1>5 DEF loopVars
  <2>2. PICK s : s = IF Here.ds THEN <<RR(cur, "DS", NoName)>> ELSE Denial(cur)
    OBVIOUS
  <2>3. s \in Seq(Record) /\ (Dnssec => Has(s, "NSEC") \/ Has(s, "DS"))
    BY <1>2, <2>2, DSOrDenial
  <2>4. PICK n \in Record : n = RR(cur, "NS", NoName) /\ n.type = "NS"
    BY <1>2, Made DEF RRTypes
  <2>5. <<n>> \in Seq(Record) /\ Has(<<n>>, "NS")
    BY <2>4, OneRecord
  <2>6. authority' = s \o <<n>>
    <3>1. authority' = (<<>> \o s) \o <<n>>
      BY <1>2, <1>5, <2>2, <2>4
    <3>2. <<>> \o s = s
      BY <2>3
    <3> QED BY <3>1, <3>2
  <2>7. PICK t : t = <<n>>
    OBVIOUS
  <2>8. /\ authority' \in Seq(Record) /\ Has(authority', "NS")
        /\ Dnssec => Has(authority', "NSEC") \/ Has(authority', "DS")
    BY <2>3, <2>5, <2>6, <2>7, Continued
  <2>9. IF Flattening THEN answer' = <<>> ELSE Linked(answer', cur')
    BY <1>2, <2>1 DEF ResolverInv, Handled
  <2>10. pc' = "glue" /\ pc' \in ReferralSteps \ {"ceNS"} /\ pc' \notin AnswerSteps
    BY <1>5 DEF ReferralSteps, AnswerSteps
  <2>11. quiet' \in BOOLEAN /\ (quiet' => quiet)
    BY <1>5, QuietOnly
  <2> QED BY <1>1, <1>2, <2>1, <2>8, <2>9, <2>10, <2>11, GoesOn
<1> QED BY <1>3, <1>4, <1>5 DEF ReadDS

\* A section as it is sent: its records as they were, and then signatures.
LEMMA SentSection ==
    ASSUME NEW rrs \in Seq(Record), NEW t, t = IF Dnssec THEN SignResponse(rrs) ELSE rrs
    PROVE  /\ \A i \in 1..Len(rrs) : i \in DOMAIN t /\ t[i] = rrs[i] /\ t[i].type # "RRSIG"
           /\ \A i \in DOMAIN t : t[i].type = "RRSIG" \/ i \in 1..Len(rrs)
           /\ \A type : Has(rrs, type) => Has(t, type)
           /\ t = <<>> => rrs = <<>>
<1>1. /\ Len(rrs) \in Nat /\ DOMAIN rrs = 1..Len(rrs)
      /\ \A i \in 1..Len(rrs) : rrs[i].type # "RRSIG"
  <2>1. \A r \in Record : r.type # "RRSIG"
    BY DEF Record, RRTypes
  <2> HIDE DEF Record
  <2> QED BY <2>1
<1>2. CASE ~Dnssec
  BY <1>1, <1>2
<1>3. CASE Dnssec
  <2>1. /\ Len(t) \in Nat /\ DOMAIN t = 1..Len(t) /\ Len(t) >= Len(rrs)
        /\ \A i \in 1..Len(rrs) : t[i] = rrs[i]
        /\ \A i \in DOMAIN t : i > Len(rrs) => \E j \in Covers(rrs) : t[i] = Signature(rrs[j])
    BY <1>3, SignedSection
  <2>2. \A i \in 1..Len(rrs) : i \in DOMAIN t /\ t[i] = rrs[i] /\ t[i].type # "RRSIG"
    BY <1>1, <2>1
  <2>3. \A i \in DOMAIN t : t[i].type = "RRSIG" \/ i \in 1..Len(rrs)
    <3> SUFFICES ASSUME NEW i \in DOMAIN t, i \notin 1..Len(rrs) PROVE t[i].type = "RRSIG"
      OBVIOUS
    <3>1. i > Len(rrs)
      BY <1>1, <2>1
    <3>2. PICK j : t[i] = Signature(rrs[j])
      BY <2>1, <3>1
    <3> QED BY <3>2 DEF Signature, RR
  <2>4. \A type : Has(rrs, type) => Has(t, type)
    BY <1>1, <2>2 DEF Has
  <2>5. t = <<>> => rrs = <<>>
    BY <1>1, <2>1
  <2> QED BY <2>2, <2>3, <2>4, <2>5
<1> QED BY <1>2, <1>3

\* What SignResponse signs, and that it signs nothing else.
LEMMA SignsSets ==
    ASSUME NEW rrs \in Seq(Record), NEW t, t = SignResponse(rrs), NEW i \in 1..Len(rrs)
    PROVE  /\ rrs[i].type # "NS" \/ req.qname = zone => Signed(t, rrs[i])
           /\ Signed(t, rrs[i]) => rrs[i].type # "NS" \/ req.qname = zone
<1>1. /\ Len(rrs) \in Nat /\ DOMAIN rrs = 1..Len(rrs)
      /\ \A k \in 1..Len(rrs) : rrs[k].type # "RRSIG"
  <2>1. \A r \in Record : r.type # "RRSIG"
    BY DEF Record, RRTypes
  <2> HIDE DEF Record
  <2> QED BY <2>1
<1>2. /\ Len(t) \in Nat /\ DOMAIN t = 1..Len(t) /\ Len(t) >= Len(rrs)
      /\ \A k \in 1..Len(rrs) : t[k] = rrs[k]
      /\ \A k \in DOMAIN t : k > Len(rrs) => \E j \in Covers(rrs) : t[k] = Signature(rrs[j])
      /\ \A j \in Covers(rrs) : \E k \in DOMAIN t : t[k] = Signature(rrs[j])
  BY SignedSection
<1>3. ASSUME rrs[i].type # "NS" \/ req.qname = zone PROVE Signed(t, rrs[i])
  <2>1. i \in Covers(rrs)
    BY <1>1, <1>3 DEF Covers
  <2> QED BY <1>2, <2>1 DEF Signed, Signature
<1>4. ASSUME Signed(t, rrs[i]) PROVE rrs[i].type # "NS" \/ req.qname = zone
  <2>1. PICK k \in DOMAIN t : t[k] = Signature(rrs[i])
    BY <1>4 DEF Signed, Signature
  <2>2. t[k].type = "RRSIG" /\ t[k].to = <<rrs[i].type>>
    BY <2>1 DEF Signature, RR
  <2>3. k > Len(rrs)
    BY <1>1, <1>2, <2>2
  <2>4. PICK j \in Covers(rrs) : t[k] = Signature(rrs[j])
    BY <1>2, <2>3
  <2>5. <<rrs[j].type>> = <<rrs[i].type>>
    BY <2>2, <2>4 DEF Signature, RR
  <2>6. rrs[j].type = rrs[i].type
    BY <2>5
  <2> QED BY <2>4, <2>6 DEF Covers
<1> QED BY <1>3, <1>4

\* The response is signed and sent.
LEMMA RespondKeeps == ASSUME ResolverInv, Respond PROVE ResolverInv'
<1>1. /\ pc = "respond" /\ pc' = "done" /\ zones' = zones /\ records' = records /\ req' = req
      /\ zone' = zone /\ cur' = cur /\ loc' = loc /\ res' = res /\ quiet' = quiet
  BY DEF Respond, At, Elsewhere, envVars, loopVars
<1>2. (Dnssec' <=> Dnssec) /\ (Flattening' <=> Flattening)
  BY <1>1, SameOptions
<1>3. Response(answer, authority, res, quiet)
  BY <1>1 DEF ResolverInv, Unsigned
<1>4. PICK a, b : a = answer' /\ b = authority'
  OBVIOUS
<1>5. /\ a = (IF Dnssec THEN SignResponse(answer) ELSE answer) /\ answer \in Seq(Record)
      /\ b = (IF Dnssec THEN SignResponse(authority) ELSE authority) /\ authority \in Seq(Record)
  BY <1>3, <1>4 DEF Respond, Response
<1>6. /\ \A i \in 1..Len(answer) : i \in DOMAIN a /\ a[i] = answer[i] /\ a[i].type # "RRSIG"
      /\ \A i \in DOMAIN a : a[i].type = "RRSIG" \/ i \in 1..Len(answer)
      /\ a = <<>> => answer = <<>>
  BY <1>5, SentSection
<1>7. /\ \A i \in 1..Len(authority) :
             i \in DOMAIN b /\ b[i] = authority[i] /\ b[i].type # "RRSIG"
      /\ \A i \in DOMAIN b : b[i].type = "RRSIG" \/ i \in 1..Len(authority)
      /\ \A type : Has(authority, type) => Has(b, type)
  BY <1>5, SentSection
<1>8. DOMAIN answer = 1..Len(answer) /\ DOMAIN authority = 1..Len(authority)
  BY <1>5
<1>9. AbsentNames'
  BY <1>1, <1>2, <1>3 DEF AbsentNames, Response, Absent
<1>10. AnswerChain'
  <2>1. Links(a) = Links(answer) /\ \A i \in Links(answer) : a[i] = answer[i]
    <3>1. \A i \in Links(a) : i \in Links(answer)
      BY <1>6, <1>8 DEF Links
    <3>2. \A i \in Links(answer) : i \in Links(a) /\ a[i] = answer[i]
      BY <1>6, <1>8 DEF Links
    <3> QED BY <3>1, <3>2
  <2>2. Chained(answer)
    BY <1>3 DEF Response
  <2>3. Chained(a)
    <3> SUFFICES ASSUME NEW i \in Links(a)
                 PROVE  IF Flattening
                        THEN a[i].owner = req.qname \/ a[i].type = "DS"
                        ELSE /\ i = 1 => a[i].owner = req.qname
                             /\ i > 1 => /\ i - 1 \in Links(a) /\ a[i - 1].type = "CNAME"
                                         /\ a[i - 1].to = a[i].owner
      BY DEF Chained
    <3> QED BY <2>1, <2>2 DEF Chained
  <2> QED BY <1>1, <1>2, <1>4, <2>3 DEF AnswerChain, Chained, Links
<1>11. NegativeIsComplete'
  <2>1. Negative(answer, authority, res, quiet)
    BY <1>3 DEF Response
  <2>2. /\ Has(authority, "SOA") => Has(b, "SOA")
        /\ Has(authority, "NS") => Has(b, "NS")
        /\ Has(authority, "NSEC") => Has(b, "NSEC")
        /\ Has(authority, "DS") => Has(b, "DS")
    BY <1>7
  <2>3. Negative(a, b, res, quiet)
    BY <1>6, <2>1, <2>2 DEF Negative
  <2>4. \A type : Has(b, type) <=> Has(authority, type)'
    BY <1>4 DEF Has
  <2> QED BY <1>1, <1>2, <1>4, <2>3, <2>4 DEF NegativeIsComplete, Negative
<1>12. SetsCovered'
  <2> SUFFICES ASSUME zone # NoName, Dnssec PROVE SetsCovered'
    BY <1>1, <1>2 DEF SetsCovered
  <2>1. ASSUME NEW i \in DOMAIN a
        PROVE  \/ a[i].type = "RRSIG" \/ Signed(a, a[i])
               \/ a[i].type = "NS" /\ a[i].owner = req.qname /\ req.qname # zone
    <3> SUFFICES ASSUME i \in 1..Len(answer), ~Signed(a, a[i])
                 PROVE  a[i].type = "NS" /\ a[i].owner = req.qname /\ req.qname # zone
      BY <1>6, <2>1
    <3>1. a[i] = answer[i] /\ answer[i].type = "NS" /\ req.qname # zone
      BY <1>5, <1>6, SignsSets
    <3>2. i \in Links(answer)
      BY <1>8, <3>1 DEF Links
    <3>3. answer[i].owner = req.qname
      BY <1>3, <3>1, <3>2 DEF Response, Chained, Flattening
    <3> QED BY <3>1, <3>3
  <2>2. ASSUME NEW i \in DOMAIN b
        PROVE  b[i].type = "RRSIG" \/ (Signed(b, b[i]) <=> (b[i].type # "NS" \/ req.qname = zone))
    <3> SUFFICES ASSUME i \in 1..Len(authority)
                 PROVE  Signed(b, b[i]) <=> (b[i].type # "NS" \/ req.qname = zone)
      BY <1>7, <2>2
    <3>1. b[i] = authority[i]
      BY <1>7
    <3> QED BY <1>5, <3>1, SignsSets
  <2>3. \A r : /\ Signed(a, r) => Signed(answer, r)'
               /\ Signed(b, r) <=> Signed(authority, r)'
    BY <1>4 DEF Signed, RR
  <2> QED BY <1>1, <1>4, <2>1, <2>2, <2>3 DEF SetsCovered
<1>13. Responses'
  BY <1>9, <1>10, <1>11, <1>12 DEF Responses
<1>14. ResolverTypeOK'
  BY <1>1 DEF ResolverInv, ResolverTypeOK
<1>15. Handled' /\ Referred' /\ QuietZone' /\ Unsigned'
  BY <1>1 DEF Handled, Referred, QuietZone, Unsigned, Ended
<1> QED BY <1>13, <1>14, <1>15 DEF ResolverInv

\* The zone list or the records change under the request.
LEMMA DisturbKeeps == ASSUME ResolverInv, ReloadZones \/ ChangeRecords PROVE ResolverInv'
<1>1. /\ pc \notin {"findZone", "respond", "done"} /\ pc' = pc /\ req' = req /\ zone' = zone
      /\ cur' = cur /\ loc' = loc /\ answer' = answer /\ authority' = authority /\ res' = res
      /\ quiet' = FALSE
  BY DEF ReloadZones, ChangeRecords, Disturb, loopVars, msgVars
<1>2. zones' \in SUBSET Zones /\ records' \in Contents
  BY ResolverAssumption DEF ReloadZones, ChangeRecords, ResolverInv, ResolverTypeOK
<1>3. (Dnssec' <=> Dnssec) /\ (Flattening' <=> Flattening)
  BY <1>1, SameOptions
<1>4. /\ Linked(answer, cur) => Linked(answer, cur)'
      /\ Absent => Absent'
      /\ \A type : Has(authority, type) => Has(authority, type)'
  BY <1>1 DEF Linked, Absent, Has
<1>5. ResolverTypeOK'
  BY <1>1, <1>2 DEF ResolverInv, ResolverTypeOK
<1>6. Handled'
  BY <1>1, <1>3, <1>4 DEF ResolverInv, Handled, Ended
<1>7. Referred'
  BY <1>1, <1>3, <1>4 DEF ResolverInv, Referred
<1>8. QuietZone' /\ Unsigned'
  BY <1>1 DEF QuietZone, Unsigned
<1> QED BY <1>1, <1>5, <1>6, <1>7, <1>8, NotSent DEF ResolverInv

\* No step changes what was said of the state it leaves alone.
LEMMA ResolverStutters == ASSUME ResolverInv, UNCHANGED vars PROVE ResolverInv'
<1> USE DEF vars, envVars, loopVars, aliasVars, msgVars
<1>1. ResolverTypeOK'
  BY DEF ResolverInv, ResolverTypeOK
<1>2. (Dnssec' <=> Dnssec) /\ (Flattening' <=> Flattening)
  BY DEF Dnssec, Flattening
<1>3. /\ Linked(answer, cur) => Linked(answer, cur)'
      /\ Absent => Absent'
      /\ \A type : Has(authority, type) <=> Has(authority, type)'
      /\ Chained(answer) => Chained(answer)'
  BY <1>2 DEF Linked, Absent, Has, Chained, Links
<1>4. Handled' /\ Referred'
  BY <1>2, <1>3 DEF ResolverInv, Handled, Referred, Ended
<1>5. QuietZone'
  BY <1>2 DEF ResolverInv, QuietZone, Ended
<1>6. Negative(answer, authority, res, quiet) => Negative(answer, authority, res, quiet)'
  BY <1>2, <1>3 DEF Negative
<1>7. Unsigned'
  BY <1>2, <1>3, <1>6 DEF ResolverInv, Unsigned, Response
<1>8. \A r : /\ Signed(answer, r) <=> Signed(answer, r)'
             /\ Signed(authority, r) <=> Signed(authority, r)'
  BY DEF Signed
<1>9. AbsentNames' /\ AnswerChain'
  BY <1>2 DEF ResolverInv, Responses, AbsentNames, Absent, AnswerChain, Done
<1>10. NegativeIsComplete'
  BY <1>2, <1>3 DEF ResolverInv, Responses, NegativeIsComplete, Done
<1>11. SetsCovered'
  BY <1>2, <1>8 DEF ResolverInv, Responses, SetsCovered, Done
<1> QED BY <1>1, <1>2, <1>4, <1>5, <1>7, <1>9, <1>10, <1>11 DEF ResolverInv, Responses

\* The invariant of HandleRequest: at every call it makes, the answer so far leads
\* from the query name to the name it is at, and what it sends at the end is right.
THEOREM ResolverInvariance == Spec => []ResolverInv
<1>1. Init => ResolverInv
  <2> SUFFICES ASSUME Init PROVE ResolverInv
    OBVIOUS
  <2>1. /\ pc = "findZone" /\ zone = NoName /\ cur = req.qname /\ loc = NoName /\ res = "NOERROR"
        /\ answer = <<>> /\ authority = <<>> /\ quiet = TRUE /\ req \in Requests
        /\ zones \in SUBSET Zones /\ records \in Contents
    BY DEF Init
  <2>2. ResolverTypeOK
    BY <2>1, ConstantNames, NoRecord DEF ResolverTypeOK
  <2>3. Linked(answer, cur)
    BY <2>1 DEF Linked
  <2>4. Handled /\ Referred /\ QuietZone /\ Unsigned
    BY <2>1, <2>3 DEF Handled, Referred, QuietZone, Unsigned, AnswerSteps
  <2>5. Responses
    BY <2>1 DEF Responses, AbsentNames, AnswerChain, NegativeIsComplete, SetsCovered, Done
  <2> QED BY <2>2, <2>4, <2>5 DEF ResolverInv
<1>2. ResolverInv /\ [Next]_vars => ResolverInv'
  <2> SUFFICES ASSUME ResolverInv, [Next]_vars PROVE ResolverInv'
    OBVIOUS
  <2>1. CASE FindZoneOfQuery \/ GetZone
    BY <2>1, FindZoneKeeps, GetZoneKeeps
  <2>2. CASE LoopHead
    BY <2>2, TooManyHopsKeeps, OutOfZoneKeeps, NoSuchNameKeeps, NameMatchesKeeps DEF LoopHead
  <2>3. CASE ReadEncloserNS \/ ReadEncloserDS
    BY <2>3, ReadEncloserNSKeeps, ReadEncloserDSKeeps
  <2>4. CASE ReferralDone \/ \E h \in hosts : ReadGlue(h)
    BY <2>4, GlueKeeps
  <2>5. CASE ReadCNAME \/ ReadNS \/ ReadDS
    BY <2>5, ReadCNAMEKeeps, ReadNSKeeps, ReadDSKeeps
  <2>6. CASE AnswerFromZone \/ ReadAnswer \/ ReadA \/ ReadANAME
    BY <2>6, AnswerFromZoneKeeps, ReadAnswerKeeps, ReadAKeeps, ReadANAMEKeeps
  <2>7. CASE AliasHop \/ Upstream \/ ReadAliasCNAME \/ ReadAliasA \/ ReadAliasANAME
    BY <2>7, AliasKeeps
  <2>8. CASE ReadFirstCAA \/ ClimbCAA \/ ReadLastCAA
    BY <2>8, CAAKeeps
  <2>9. CASE Respond
    BY <2>9, RespondKeeps
  <2>10. CASE ReloadZones \/ ChangeRecords
    BY <2>10, DisturbKeeps
  <2>11. CASE UNCHANGED vars
    BY <2>11, ResolverStutters
  <2> QED BY <2>1, <2>2, <2>3, <2>4, <2>5, <2>6, <2>7, <2>8, <2>9, <2>10, <2>11 DEF Next, Step
<1> QED BY <1>1, <1>2, PTL DEF Spec

\* The answer section is a chain from the query name, over any number of CNAMEs
\* and whatever changes between the calls that read them.
THEOREM AnswersAreChains == Spec => []AnswerChain
<1>1. ResolverInv => AnswerChain
  BY DEF ResolverInv, Responses
<1> QED BY <1>1, ResolverInvariance, PTL

\* Negative answers have their SOA or are referrals unless something changed or
\* failed, and in a signed answer their denial whatever changed.
THEOREM NegativesAreComplete == Spec => []NegativeIsComplete
<1>1. ResolverInv => NegativeIsComplete
  BY DEF ResolverInv, Responses
<1> QED BY <1>1, ResolverInvariance, PTL

(***************************************************************************)
(* Quiet denials.                                                          *)
(*                                                                         *)
(* As long as nothing changes, the name that the loop is at is the one     *)
(* that Walk reaches with the CNAMEs followed so far.  A name without a    *)
(* CNAME to follow is where Walk ends, so that what is read at its         *)
(* location is what the outcome has.                                       *)
(***************************************************************************)
FollowOnce(n) ==
    IF /\ FindZone(zones, n) = zone
       /\ Lookup(n).match \in {"exact", "wildcard"}
       /\ req.qtype # "CNAME" /\ Get(zone, Lookup(n).location).cname # NoName
    THEN Get(zone, Lookup(n).location).cname ELSE n

IsWalk(w) == w[0] = req.qname /\ \A i \in 1..MaxHops : w[i] = FollowOnce(w[i - 1])

\* There is nothing of the type at a name, which is why it is denied.
NothingAt(n) ==
    \/ Lookup(n).match \in {"none", "emptyNonterminal", "ce"}
    \/ n # zone /\ Get(zone, Lookup(n).location).ns # {}
    \/ ~Holds(Get(zone, Lookup(n).location), req.qtype)

\* An empty successful answer to a plain query.
PlainDenial ==
    /\ res = "NOERROR" /\ answer = <<>>
    /\ req.qtype \in {"A", "CNAME", "NS", "TXT"} /\ source = "none"

\* The steps after it was found that the final location has no addresses.
NoAddressSteps == AnswerSteps \ {"answer", "anameWithA", "caaClimb"}

\* Where the steps of a request are on the walk.
OnWalk(w) ==
    /\ pc = "loop" /\ hops <= MaxHops => cur = w[hops]
    /\ pc \in {"cname", "ns", "ds", "ceNS"} =>
          /\ hops - 1 \in 0..MaxHops /\ cur = w[hops - 1] /\ FindZone(zones, cur) = zone
          /\ loc = Lookup(cur).location
    /\ pc = "cname" => Lookup(cur).match \in {"exact", "wildcard"}
    /\ pc \in {"ceNS", "ceDS", "glue"} => NothingAt(w[MaxHops])
    /\ pc \in {"ns", "ds"} => cur = w[MaxHops] /\ cur # zone
    /\ pc = "ds" => Here.ns # {}
    /\ pc \in AnswerSteps => loc = Lookup(w[MaxHops]).location
    /\ pc \in NoAddressSteps => req.qtype = "A" /\ ~Here.a
    /\ pc = "caaClimb" => req.qtype = "CAA"
    /\ Ended /\ PlainDenial => NothingAt(w[MaxHops])

WalkInv ==
    /\ hops \in Nat /\ (pc \in {"findZone", "getZone"} => hops = 0)
    /\ quiet /\ zone # NoName => \A w : IsWalk(w) => OnWalk(w)

\* Walk, which is defined by recursion, is a walk.
LEMMA WalkExists == IsWalk(Walk)
<1> DEFINE PartOfWalk(f, n) ==
      f = [i \in 0..n |-> IF i = 0 THEN req.qname ELSE FollowOnce(f[i - 1])]
<1> DEFINE Without == {n \in 0..MaxHops : ~\E f : PartOfWalk(f, n)}
<1>1. MaxHops \in Nat
  BY ResolverAssumption
<1>2. \E f : PartOfWalk(f, MaxHops)
  <2> SUFFICES ASSUME ~\E f : PartOfWalk(f, MaxHops) PROVE FALSE
    OBVIOUS
  <2>1. Without \in SUBSET Nat /\ Without # {}
    <3> HIDE DEF PartOfWalk
    <3>1. MaxHops \in Without
      BY <1>1
    <3> QED BY <1>1, <3>1
  <2>2. PICK m \in Without : \A y \in Without : m <= y
    <3> HIDE DEF Without
    <3> QED BY <2>1, MinIsLeast
  <2>3. m \in 0..MaxHops /\ ~\E f : PartOfWalk(f, m)
    OBVIOUS
  <2>4. CASE m = 0
    <3>1. PICK f : f = [i \in 0..0 |-> req.qname]
      OBVIOUS
    <3>2. f = [i \in 0..0 |-> IF i = 0 THEN req.qname ELSE FollowOnce(f[i - 1])]
      BY <3>1
    <3> QED BY <2>3, <2>4, <3>2
  <2>5. CASE m # 0
    <3>1. m - 1 \in 0..MaxHops /\ ~(m <= m - 1) /\ m \in Nat
      BY <1>1, <2>3, <2>5
    <3>2. m - 1 \notin Without
      BY <2>2, <3>1
    <3>3. PICK f : PartOfWalk(f, m - 1)
      BY <3>1, <3>2
    <3>4. \A i \in 0..(m - 1) : f[i] = IF i = 0 THEN req.qname ELSE FollowOnce(f[i - 1])
      BY <3>3
    <3>5. PICK g : g = [i \in 0..m |-> IF i = m THEN FollowOnce(f[m - 1]) ELSE f[i]]
      OBVIOUS
    <3>6. ASSUME NEW i \in 0..m PROVE g[i] = IF i = 0 THEN req.qname ELSE FollowOnce(g[i - 1])
      <4>1. CASE i = m
        <5>1. g[i] = FollowOnce(f[m - 1]) /\ g[m - 1] = f[m - 1]
          BY <3>1, <3>5, <4>1
        <5> QED BY <2>5, <4>1, <5>1
      <4>2. CASE i # m
        <5>1. i \in 0..(m - 1) /\ g[i] = f[i]
          BY <3>1, <3>5, <4>2
        <5>2. CASE i = 0
          BY <3>4, <5>1, <5>2
        <5>3. CASE i # 0
          <6>1. i - 1 \in 0..m /\ i - 1 # m
            BY <3>1, <5>1, <5>3
          <6>2. g[i - 1] = f[i - 1]
            BY <3>5, <6>1
          <6> QED BY <3>4, <5>1, <5>3, <6>2
        <5> QED BY <5>2, <5>3
      <4> QED BY <4>1, <4>2
    <3>7. g = [i \in 0..m |-> IF i = 0 THEN req.qname ELSE FollowOnce(g[i - 1])]
      <4>1. g = [i \in 0..m |-> g[i]]
        BY <3>5
      <4> QED BY <3>6, <4>1
    <3> QED BY <2>3, <3>7
  <2> QED BY <2>4, <2>5
<1>3. Walk = CHOOSE f : PartOfWalk(f, MaxHops)
  BY DEF Walk, FollowOnce
<1>4. PartOfWalk(Walk, MaxHops)
  BY <1>2, <1>3
<1>5. PICK w : w = Walk
  OBVIOUS
<1>6. w = [i \in 0..MaxHops |-> IF i = 0 THEN req.qname ELSE FollowOnce(w[i - 1])]
  BY <1>4, <1>5
<1>7. w[0] = req.qname /\ \A i \in 1..MaxHops : w[i] = FollowOnce(w[i - 1])
  BY <1>1, <1>6
<1> QED BY <1>5, <1>7 DEF IsWalk

\* A name with no CNAME to follow is where a walk ends.
LEMMA WalkEnds ==
    ASSUME NEW w, IsWalk(w), NEW k \in 0..MaxHops, FollowOnce(w[k]) = w[k]
    PROVE  w[MaxHops] = w[k]
<1> SUFFICES ASSUME w[MaxHops] # w[k] PROVE FALSE
  OBVIOUS
<1> DEFINE Later == {j \in k..MaxHops : w[j] # w[k]}
<1>1. MaxHops \in Nat
  BY ResolverAssumption
<1>2. Later \in SUBSET Nat /\ Later # {}
  BY <1>1
<1>3. PICK j \in Later : \A y \in Later : j <= y
  <2> HIDE DEF Later
  <2> QED BY <1>2, MinIsLeast
<1>4. j \in k..MaxHops /\ w[j] # w[k]
  OBVIOUS
<1>5. j - 1 \in k..MaxHops /\ j \in 1..MaxHops /\ ~(j <= j - 1)
  BY <1>1, <1>4
<1>6. w[j - 1] = w[k]
  BY <1>3, <1>5
<1>7. w[j] = FollowOnce(w[j - 1])
  BY <1>5 DEF IsWalk
<1> QED BY <1>4, <1>6, <1>7

\* Nothing is changed that a walk depends on.
SameWorld == zones' = zones /\ records' = records /\ req' = req /\ zone' = zone

LEMMA SameOutcome ==
    ASSUME SameWorld
    PROVE  /\ \A w : IsWalk(w)' <=> IsWalk(w)
           /\ \A n : NothingAt(n)' <=> NothingAt(n)
<1>1. \A n : FollowOnce(n)' = FollowOnce(n)
  BY DEF SameWorld, FollowOnce, Lookup, Get
<1>2. \A w : IsWalk(w)' <=> IsWalk(w)
  BY <1>1 DEF SameWorld, IsWalk
<1>3. ASSUME NEW n PROVE NothingAt(n)' <=> NothingAt(n)
  BY DEF SameWorld, NothingAt, Lookup, Get, Holds
<1> QED BY <1>2, <1>3

\* A request ends with an answer that is not a denial, or is a true one.
LEMMA EndsOnWalk ==
    ASSUME SameWorld, NEW w, pc' = "respond", PlainDenial' => NothingAt(w[MaxHops])
    PROVE  OnWalk(w)'
<1>1. NothingAt(w[MaxHops])' <=> NothingAt(w[MaxHops])
  BY SameOutcome
<1>2. PlainDenial' => NothingAt(w[MaxHops])'
  BY <1>1
<1> QED BY <1>2 DEF OnWalk, AnswerSteps, NoAddressSteps

\* What fails is no denial.
LEMMA FailsOnWalk ==
    ASSUME SameWorld, NEW w, OrServfail
    PROVE  OnWalk(w)'
BY EndsOnWalk DEF OrServfail, Break, PlainDenial

\* The walk ends at the name that the loop is at, when there is no CNAME to follow.
LEMMA EndsHere ==
    ASSUME NEW w, IsWalk(w), NEW k \in 0..MaxHops, cur = w[k],
           \/ Lookup(cur).match \notin {"exact", "wildcard"} \/ req.qtype = "CNAME"
           \/ Get(zone, Lookup(cur).location).cname = NoName
    PROVE  w[MaxHops] = cur
<1>1. FollowOnce(w[k]) = w[k]
  BY DEF FollowOnce
<1> QED BY <1>1, WalkEnds

\* What Holds asks of a record set.
LEMMA Asks ==
    \A r : /\ Holds(r, "A") <=> r.a
           /\ Holds(r, "NS") <=> r.ns # {}
           /\ Holds(r, "CNAME") <=> r.cname # NoName
           /\ Holds(r, "TXT") <=> r.txt
BY DEF Holds

\* At the final location there is what is at the end of the walk.
LEMMA HereIsThere ==
    ASSUME NEW w, OnWalk(w), pc \in AnswerSteps, ~Holds(Here, req.qtype)
    PROVE  NothingAt(w[MaxHops])
<1>1. Here = Get(zone, Lookup(w[MaxHops]).location)
  BY DEF OnWalk, Here
<1> QED BY <1>1 DEF NothingAt

(***************************************************************************)
(* The loop.                                                               *)
(***************************************************************************)
\* The head of the loop stops where the walk ends, or is one name further on it.
LEMMA LoopOnWalk ==
    ASSUME ResolverInv, WalkInv, LoopHead, quiet, NEW w, IsWalk(w), OnWalk(w)
    PROVE  OnWalk(w)'
<1>1. pc = "loop" /\ SameWorld /\ ~Ended /\ hops \in Nat
  BY DEF LoopHead, TooManyHops, OutOfZone, NoSuchName, NameMatches, InLoop, Elsewhere, SameWorld, envVars,
         Ended, WalkInv
<1>2. CASE TooManyHops
  <2>1. pc' = "respond" /\ res' = "SERVFAIL"
    BY <1>2 DEF TooManyHops
  <2> QED BY <1>1, <2>1, EndsOnWalk DEF PlainDenial
<1>3. CASE OutOfZone
  <2>1. pc' = "respond" /\ answer' = answer /\ FindZone(zones, cur) # zone
    BY <1>3 DEF OutOfZone, InZone
  <2>2. answer # <<>>
    <3>1. FindZone(zones, req.qname) = zone /\ (Flattening => FindZone(zones, cur) = zone)
      BY <1>1 DEF ResolverInv, QuietZone
    <3>2. ~Flattening => Linked(answer, cur)
      BY <1>1 DEF ResolverInv, Handled
    <3> QED BY <2>1, <3>1, <3>2 DEF Linked
  <2> QED BY <1>1, <2>1, <2>2, EndsOnWalk DEF PlainDenial
<1>4. CASE NoSuchName
  <2>1. /\ pc' = "respond" /\ hops \in 0..MaxHops /\ cur = w[hops]
        /\ Lookup(cur).match \in {"none", "emptyNonterminal"}
    BY <1>1, <1>4, ResolverAssumption DEF NoSuchName, InLoop, OnWalk
  <2>2. w[MaxHops] = cur
    BY <2>1, EndsHere
  <2>3. NothingAt(w[MaxHops])
    BY <2>1, <2>2 DEF NothingAt
  <2> QED BY <1>1, <2>1, <2>3, EndsOnWalk
<1>5. CASE NameMatches
  <2>1. /\ hops \in 0..MaxHops /\ cur = w[hops] /\ hops' = hops + 1 /\ cur' = cur
        /\ FindZone(zones, cur) = zone /\ loc' = Lookup(cur).location
        /\ Lookup(cur).match \in {"ce", "wildcard", "exact"}
        /\ pc' = IF Lookup(cur).match = "ce" THEN "ceNS" ELSE "cname"
    BY <1>1, <1>5, ResolverAssumption DEF NameMatches, InLoop, InZone, OnWalk
  <2>2. hops' - 1 = hops
    BY <1>1, <2>1
  <2>3. /\ hops' - 1 \in 0..MaxHops /\ cur' = w[hops' - 1] /\ FindZone(zones', cur') = zone'
        /\ loc' = Lookup(cur)'.location
    BY <1>1, <2>1, <2>2 DEF SameWorld, Lookup
  <2>4. CASE Lookup(cur).match = "ce"
    <3>1. w[MaxHops] = cur
      BY <2>1, <2>4, EndsHere
    <3>2. NothingAt(w[MaxHops])
      BY <2>4, <3>1 DEF NothingAt
    <3>3. NothingAt(w[MaxHops])' /\ pc' = "ceNS"
      BY <1>1, <2>1, <2>4, <3>2, SameOutcome
    <3> QED BY <2>3, <3>3 DEF OnWalk, AnswerSteps, NoAddressSteps, Ended
  <2>5. CASE Lookup(cur).match # "ce"
    <3>1. Lookup(cur)'.match \in {"exact", "wildcard"} /\ pc' = "cname"
      BY <1>1, <2>1, <2>5 DEF SameWorld, Lookup
    <3> QED BY <2>3, <3>1 DEF OnWalk, AnswerSteps, NoAddressSteps, Ended
  <2> QED BY <2>4, <2>5
<1> QED BY <1>2, <1>3, <1>4, <1>5 DEF LoopHead

\* A referral is of a name that is not there.
LEMMA EncloserOnWalk ==
    ASSUME ReadEncloserNS \/ ReadEncloserDS \/ ReferralDone \/ (\E h \in hosts : ReadGlue(h)),
           quiet', NEW w, OnWalk(w)
    PROVE  OnWalk(w)'
<1>1. SameWorld /\ pc \in {"ceNS", "ceDS", "glue"}
  BY DEF ReadEncloserNS, ReadEncloserDS, ReferralDone, ReadGlue, At, Elsewhere, SameWorld, envVars
<1>2. NothingAt(w[MaxHops])
  BY <1>1 DEF OnWalk
<1>3. NothingAt(w[MaxHops])'
  BY <1>1, <1>2, SameOutcome
<1>4. pc' \in {"ceDS", "glue", "respond"}
  BY DEF ReadEncloserNS, ReadEncloserDS, ReferralDone, ReadGlue, At, OrServfail, CallFails, Break
<1> QED BY <1>3, <1>4 DEF OnWalk, AnswerSteps, NoAddressSteps

\* A CNAME that is followed is the next step of the walk.
LEMMA CNAMEOnWalk ==
    ASSUME ResolverInv, WalkInv, ReadCNAME, quiet', NEW w, IsWalk(w), OnWalk(w)
    PROVE  OnWalk(w)'
<1>1. SameWorld /\ pc = "cname" /\ hops' = hops /\ loc' = loc /\ hops \in Nat
  BY DEF ReadCNAME, OrServfail, At, Elsewhere, SameWorld, envVars, loopVars, WalkInv
<1>2. PICK k : k = hops - 1
  OBVIOUS
<1>3. /\ k \in 0..MaxHops /\ cur = w[k] /\ FindZone(zones, cur) = zone /\ loc = Lookup(cur).location
      /\ Lookup(cur).match \in {"exact", "wildcard"}
  BY <1>1, <1>2 DEF OnWalk
<1>4. CASE Here.cname # NoName /\ req.qtype # "CNAME" /\ Follow(Here.cname)
  <2>1. \/ pc' = "respond" /\ answer' = Append(answer, RR(req.qname, "CNAME", Here.cname))
        \/ pc' = "loop" /\ cur' = Here.cname
    BY <1>4 DEF Follow
  <2>2. CASE pc' = "respond" /\ answer' = Append(answer, RR(req.qname, "CNAME", Here.cname))
    <3>1. answer \in Seq(Record)
      BY <1>1 DEF ResolverInv, ResolverTypeOK
    <3>2. PICK r, R : r = RR(req.qname, "CNAME", Here.cname) /\ R = Record \union {r}
      OBVIOUS
    <3>3. answer \in Seq(R) /\ r \in R /\ answer' = Append(answer, r)
      BY <2>2, <3>1, <3>2
    <3>4. answer' # <<>>
      BY <3>3
    <3> QED BY <1>1, <2>2, <3>4, EndsOnWalk DEF PlainDenial
  <2>3. CASE pc' = "loop" /\ cur' = Here.cname
    <3>1. FollowOnce(w[k]) = Here.cname
      BY <1>3, <1>4 DEF FollowOnce, Here
    <3>2. hops <= MaxHops => cur' = w[hops]
      <4> SUFFICES ASSUME hops <= MaxHops PROVE w[hops] = FollowOnce(w[k])
        BY <2>3, <3>1
      <4>1. hops \in 1..MaxHops
        BY <1>1, <1>2, <1>3, ResolverAssumption
      <4> QED BY <1>2, <4>1 DEF IsWalk
    <3> QED BY <1>1, <2>3, <3>2 DEF OnWalk, AnswerSteps, NoAddressSteps, Ended
  <2> QED BY <2>1, <2>2, <2>3
<1>5. CASE /\ ~(Here.cname # NoName /\ req.qtype # "CNAME")
           /\ pc' = (IF cur # zone THEN "ns" ELSE "answer") /\ cur' = (IF cur # zone THEN cur ELSE Owner)
  <2>1. w[MaxHops] = cur
    BY <1>3, <1>5, EndsHere DEF Here
  <2>2. CASE cur = zone
    <3>1. pc' = "answer" /\ loc' = Lookup(w[MaxHops])'.location
      BY <1>1, <1>3, <1>5, <2>1, <2>2 DEF SameWorld, Lookup
    <3> QED BY <3>1 DEF OnWalk, AnswerSteps, NoAddressSteps, Ended
  <2>3. CASE cur # zone
    <3>1. pc' = "ns" /\ cur' = cur /\ zone' = zone
      BY <1>1, <1>5, <2>3 DEF SameWorld
    <3>2. /\ hops' - 1 \in 0..MaxHops /\ cur' = w[hops' - 1] /\ FindZone(zones', cur') = zone'
          /\ loc' = Lookup(cur)'.location
      BY <1>1, <1>2, <1>3, <3>1 DEF SameWorld, Lookup
    <3> QED BY <2>1, <2>3, <3>1, <3>2 DEF OnWalk, AnswerSteps, NoAddressSteps, Ended
  <2> QED BY <2>2, <2>3
<1>6. CASE OrServfail
  BY <1>1, <1>6, FailsOnWalk
<1> QED BY <1>4, <1>5, <1>6 DEF ReadCNAME

\* A delegation at the end of the walk is a reason to deny.
LEMMA DelegationOnWalk ==
    ASSUME ReadNS \/ ReadDS, quiet', NEW w, OnWalk(w)
    PROVE  OnWalk(w)'
<1>1. SameWorld /\ pc \in {"ns", "ds"} /\ loc' = loc /\ hops' = hops
  BY DEF ReadNS, ReadDS, OrServfail, At, Elsewhere, SameWorld, envVars, loopVars
<1>2. /\ hops - 1 \in 0..MaxHops /\ cur = w[hops - 1] /\ FindZone(zones, cur) = zone
      /\ loc = Lookup(cur).location /\ cur = w[MaxHops] /\ cur # zone /\ (pc = "ds" => Here.ns # {})
  BY <1>1 DEF OnWalk
<1>3. Here.ns # {} => NothingAt(w[MaxHops])
  BY <1>2 DEF NothingAt, Here
<1>4. CASE ReadNS /\ ~OrServfail
  <2>1. pc' = (IF Here.ns # {} THEN "ds" ELSE "answer") /\ cur' = (IF Here.ns # {} THEN cur ELSE Owner)
    BY <1>4 DEF ReadNS
  <2>2. CASE Here.ns # {}
    <3>1. pc' = "ds" /\ cur' = cur /\ Here'.ns # {}
      BY <1>1, <2>1, <2>2 DEF SameWorld, Here, Get
    <3>2. /\ hops' - 1 \in 0..MaxHops /\ cur' = w[hops' - 1] /\ FindZone(zones', cur') = zone'
          /\ loc' = Lookup(cur)'.location /\ cur' = w[MaxHops] /\ cur' # zone'
      BY <1>1, <1>2, <3>1 DEF SameWorld, Lookup
    <3> QED BY <3>1, <3>2 DEF OnWalk, AnswerSteps, NoAddressSteps, Ended
  <2>3. CASE Here.ns = {}
    <3>1. pc' = "answer" /\ loc' = Lookup(w[MaxHops])'.location
      BY <1>1, <1>2, <2>1, <2>3 DEF SameWorld, Lookup
    <3> QED BY <3>1 DEF OnWalk, AnswerSteps, NoAddressSteps, Ended
  <2> QED BY <2>2, <2>3
<1>5. CASE ReadDS
  <2>1. NothingAt(w[MaxHops])'
    BY <1>1, <1>2, <1>3, <1>5, SameOutcome DEF ReadDS, At
  <2>2. pc' \in {"respond", "glue"}
    BY <1>5 DEF ReadDS, OrServfail, Break
  <2> QED BY <2>1, <2>2 DEF OnWalk, AnswerSteps, NoAddressSteps
<1>6. CASE OrServfail
  BY <1>1, <1>6, FailsOnWalk
<1> QED BY <1>4, <1>5, <1>6

(***************************************************************************)
(* The final location.                                                     *)
(***************************************************************************)
\* The request goes on at the final location.
LEMMA StaysOnWalk ==
    ASSUME NEW w, OnWalk(w), SameWorld, pc \in AnswerSteps, loc' = loc, pc' \in AnswerSteps,
           pc' \in NoAddressSteps => req.qtype = "A" /\ ~Here.a,
           pc' = "caaClimb" => req.qtype = "CAA"
    PROVE  OnWalk(w)'
<1>1. loc' = Lookup(w[MaxHops])'.location
  BY DEF OnWalk, SameWorld, Lookup
<1>2. Here' = Here /\ req' = req
  BY DEF SameWorld, Here, Get
<1>3. pc' \notin {"loop", "cname", "ns", "ds", "ceNS", "ceDS", "glue", "respond", "done"}
  BY DEF AnswerSteps
<1> QED BY <1>1, <1>2, <1>3 DEF OnWalk, Ended, NoAddressSteps

\* What is read for the answer is what is at the end of the walk.
LEMMA AnswersOnWalk ==
    ASSUME ResolverInv, AnswerFromZone \/ ReadAnswer \/ ReadA, quiet', NEW w, OnWalk(w)
    PROVE  OnWalk(w)'
<1>1. SameWorld /\ pc = "answer" /\ pc \in AnswerSteps /\ loc' = loc
  BY DEF AnswerFromZone, ReadAnswer, ReadA, OrServfail, At, Elsewhere, SameWorld, envVars,
         loopVars, AnswerSteps
<1>2. CASE AnswerFromZone
  <2>1. pc' = "respond" /\ req.qtype \in {"SOA", "DNSKEY", "DS", "OTHER"} /\ req' = req
    BY <1>1, <1>2 DEF AnswerFromZone, Finish, SameWorld
  <2> QED BY <1>1, <2>1, EndsOnWalk DEF PlainDenial
<1>3. CASE ReadAnswer /\ ~OrServfail
  <2>1. PICK rrs : rrs = IF ~Holds(Here, req.qtype) THEN <<>>
                         ELSE <<RR(cur, req.qtype, IF req.qtype = "CNAME" THEN Here.cname ELSE NoName)>>
    OBVIOUS
  <2>2. pc' = "respond" /\ answer' = answer \o rrs
    BY <1>3, <2>1 DEF ReadAnswer, Finish
  <2>3. CASE Holds(Here, req.qtype)
    <3>1. answer \in Seq(Record)
      BY <1>1 DEF ResolverInv, ResolverTypeOK
    <3>2. PICK r, R : R = Record \union {r} /\ rrs = <<r>>
      BY <2>1, <2>3
    <3>3. answer \in Seq(R) /\ rrs \in Seq(R) /\ Len(rrs) = 1
      BY <3>1, <3>2
    <3>4. answer' # <<>>
      BY <2>2, <3>3
    <3> QED BY <1>1, <2>2, <3>4, EndsOnWalk DEF PlainDenial
  <2>4. CASE ~Holds(Here, req.qtype)
    BY <1>1, <2>2, <2>4, HereIsThere, EndsOnWalk
  <2> QED BY <2>3, <2>4
<1>4. CASE ReadA /\ ~OrServfail
  <2>1. req.qtype = "A" /\ pc' = IF Here.a THEN "anameWithA" ELSE "aname"
    BY <1>4 DEF ReadA
  <2>2. /\ pc' \in AnswerSteps /\ pc' # "caaClimb"
        /\ pc' \in NoAddressSteps => req.qtype = "A" /\ ~Here.a
    BY <2>1 DEF AnswerSteps, NoAddressSteps
  <2> QED BY <1>1, <2>2, StaysOnWalk
<1>5. CASE OrServfail
  BY <1>1, <1>5, FailsOnWalk
<1> QED BY <1>2, <1>3, <1>4, <1>5

\* Whatever findANAME comes to, there was no address at the location itself.
LEMMA NoAddressOnWalk ==
    ASSUME NEW w, OnWalk(w), SameWorld, pc \in NoAddressSteps, loc' = loc,
           pc' \in NoAddressSteps \union {"respond"}
    PROVE  OnWalk(w)'
<1>1. pc \in AnswerSteps /\ req.qtype = "A" /\ ~Here.a
  BY DEF OnWalk, NoAddressSteps
<1>2. CASE pc' = "respond"
  <2>1. ~Holds(Here, req.qtype)
    BY <1>1, Asks
  <2> QED BY <1>1, <1>2, <2>1, HereIsThere, EndsOnWalk
<1>3. CASE pc' \in NoAddressSteps
  <2>1. pc' \in AnswerSteps /\ pc' # "caaClimb"
    BY <1>3 DEF NoAddressSteps
  <2> QED BY <1>1, <2>1, StaysOnWalk
<1> QED BY <1>2, <1>3

\* ANAME is used if there is no A.
LEMMA ANAMEOnWalk ==
    ASSUME ResolverInv, ReadANAME, quiet', NEW w, OnWalk(w)
    PROVE  OnWalk(w)'
<1>1. SameWorld /\ pc \in {"aname", "anameWithA"} /\ loc' = loc
  BY DEF ReadANAME, OrServfail, At, Elsewhere, SameWorld, envVars, loopVars
<1>2. CASE pc = "anameWithA" /\ ~OrServfail
  <2>1. pc' = "respond" /\ Filtered("own")
    BY <1>2 DEF ReadANAME, Filtered, Addresses, Finish
  <2>2. CASE Addresses("own")
    <3>1. source' = "own"
      BY <2>2 DEF Addresses
    <3> QED BY <1>1, <2>1, <3>1, EndsOnWalk DEF PlainDenial
  <2>3. CASE source' = "filtered"
    BY <1>1, <2>1, <2>3, EndsOnWalk DEF PlainDenial
  <2> QED BY <2>1, <2>2, <2>3 DEF Filtered
<1>3. CASE pc = "aname"
  <2>1. pc' \in {"respond", "alias"}
    BY <1>3 DEF ReadANAME, OrServfail, Break, Finish
  <2>2. pc \in NoAddressSteps /\ pc' \in NoAddressSteps \union {"respond"}
    BY <1>3, <2>1 DEF NoAddressSteps, AnswerSteps
  <2> QED BY <1>1, <2>2, NoAddressOnWalk
<1>4. CASE OrServfail
  BY <1>1, <1>4, FailsOnWalk
<1> QED BY <1>1, <1>2, <1>3, <1>4

\* findANAME leaves the location as it is.
LEMMA AliasOnWalk ==
    ASSUME AliasHop \/ Upstream \/ ReadAliasCNAME \/ ReadAliasA \/ ReadAliasANAME, quiet',
           NEW w, OnWalk(w)
    PROVE  OnWalk(w)'
<1>1. /\ SameWorld /\ loc' = loc
      /\ pc \in {"alias", "upstream", "aliasCNAME", "aliasA", "aliasANAME"}
  BY DEF AliasHop, Upstream, ReadAliasCNAME, ReadAliasA, ReadAliasANAME, At, Elsewhere, SameWorld, envVars,
         loopVars
<1>2. pc' \in {"respond", "alias", "upstream", "aliasCNAME", "aliasA", "aliasANAME"}
  BY DEF AliasHop, Upstream, ReadAliasCNAME, ReadAliasA, ReadAliasANAME, AliasFails, NoAddress, Filtered,
         Addresses, Finish
<1>3. pc \in NoAddressSteps /\ pc' \in NoAddressSteps \union {"respond"}
  BY <1>1, <1>2 DEF NoAddressSteps, AnswerSteps
<1> QED BY <1>1, <1>3, NoAddressOnWalk

\* findCAA is for CAA alone.
LEMMA CAAOnWalk ==
    ASSUME ReadFirstCAA \/ ClimbCAA \/ ReadLastCAA, NEW w, OnWalk(w)
    PROVE  OnWalk(w)'
<1>1. SameWorld /\ pc \in {"answer", "caaClimb"} /\ pc \in AnswerSteps /\ loc' = loc
  BY DEF ReadFirstCAA, ClimbCAA, ReadLastCAA, At, Elsewhere, SameWorld, envVars, loopVars, AnswerSteps
<1>2. req.qtype = "CAA" /\ req' = req
  BY <1>1 DEF ReadFirstCAA, ClimbCAA, ReadLastCAA, At, OnWalk, SameWorld
<1>3. pc' \in {"respond", "caaClimb"}
  BY DEF ReadFirstCAA, ClimbCAA, ReadLastCAA, At, Finish
<1>4. CASE pc' = "respond"
  BY <1>1, <1>2, <1>4, EndsOnWalk DEF PlainDenial
<1>5. CASE pc' = "caaClimb"
  <2>1. pc' \in AnswerSteps /\ pc' \notin NoAddressSteps
    BY <1>5 DEF AnswerSteps, NoAddressSteps
  <2> QED BY <1>1, <1>2, <2>1, StaysOnWalk
<1> QED BY <1>3, <1>4, <1>5

\* Signing makes no empty answer of one that has records.
LEMMA RespondOnWalk ==
    ASSUME ResolverInv, Respond, NEW w, OnWalk(w)
    PROVE  OnWalk(w)'
<1>1. SameWorld /\ pc = "respond" /\ pc' = "done" /\ res' = res /\ source' = source
  BY DEF Respond, At, Elsewhere, SameWorld, envVars, aliasVars
<1>2. answer' = <<>> => answer = <<>>
  <2>1. answer \in Seq(Record)
    BY <1>1 DEF ResolverInv, ResolverTypeOK
  <2>2. CASE ~Dnssec
    BY <2>2 DEF Respond
  <2>3. CASE Dnssec
    <3>1. answer' = SignResponse(answer)
      BY <2>3 DEF Respond
    <3>2. answer # <<>> => SignResponse(answer) # <<>>
      BY <2>1, SignedSection
    <3> QED BY <3>1, <3>2
  <2> QED BY <2>2, <2>3
<1>3. PlainDenial' => PlainDenial
  BY <1>1, <1>2 DEF PlainDenial, SameWorld
<1>4. PlainDenial' => NothingAt(w[MaxHops])
  BY <1>1, <1>3 DEF OnWalk, Ended
<1>5. PlainDenial' => NothingAt(w[MaxHops])'
  BY <1>1, <1>4, SameOutcome
<1> QED BY <1>1, <1>5 DEF OnWalk, AnswerSteps, NoAddressSteps

\* The invariant holds at first.
LEMMA WalkInvInit == Init => WalkInv
BY DEF Init, WalkInv

\* What is left to show of a step of a request whose zone was found.
LEMMA WalkKept ==
    ASSUME WalkInv, SameWorld, hops' \in Nat, pc' \notin {"findZone", "getZone"},
           quiet' /\ zone # NoName => quiet /\ \A w : IsWalk(w) /\ OnWalk(w) => OnWalk(w)'
    PROVE  WalkInv'
<1> SUFFICES ASSUME quiet', zone' # NoName, NEW w, IsWalk(w)' PROVE OnWalk(w)'
  BY DEF WalkInv
<1>1. zone # NoName /\ IsWalk(w)
  BY SameOutcome DEF SameWorld
<1>2. quiet /\ OnWalk(w)
  BY <1>1 DEF WalkInv
<1> QED BY <1>1, <1>2

\* The first two steps.
LEMMA FirstStepsOnWalk ==
    ASSUME ResolverInv, WalkInv, FindZoneOfQuery \/ GetZone
    PROVE  WalkInv'
<1>1. hops = 0 /\ hops' = 0 /\ ~Ended
  BY DEF FindZoneOfQuery, GetZone, WalkInv, loopVars, Ended
<1>2. CASE FindZoneOfQuery
  <2>1. \/ zone' = NoName /\ pc' = "respond"
        \/ zone' # NoName /\ pc' = "getZone"
    BY <1>2 DEF FindZoneOfQuery
  <2>2. CASE zone' = NoName
    BY <1>1, <2>2 DEF WalkInv
  <2>3. CASE pc' = "getZone"
    <3>1. \A w : OnWalk(w)'
      BY <2>3 DEF OnWalk, AnswerSteps, NoAddressSteps, Ended
    <3> QED BY <1>1, <3>1 DEF WalkInv
  <2> QED BY <2>1, <2>2, <2>3
<1>3. CASE GetZone
  <2>1. SameWorld /\ cur' = cur /\ cur = req.qname
    BY <1>1, <1>3 DEF GetZone, Elsewhere, SameWorld, envVars, loopVars, ResolverInv, Handled
  <2>2. \/ pc' = "respond" /\ res' = "SERVFAIL" /\ quiet' = quiet
        \/ pc' = "loop" /\ quiet' = quiet
    BY <1>3 DEF GetZone, CallWorks, CallFails, Break
  <2>3. ASSUME pc' = "loop", NEW w, IsWalk(w) PROVE OnWalk(w)'
    <3>1. cur' = w[hops']
      BY <1>1, <2>1, <2>3 DEF IsWalk
    <3> QED BY <2>3, <3>1 DEF OnWalk, AnswerSteps, NoAddressSteps, Ended
  <2>4. CASE pc' = "respond" /\ res' = "SERVFAIL" /\ quiet' = quiet
    BY <1>1, <2>1, <2>4, WalkKept, EndsOnWalk DEF PlainDenial
  <2>5. CASE pc' = "loop" /\ quiet' = quiet
    BY <1>1, <2>1, <2>3, <2>5, WalkKept
  <2> QED BY <2>2, <2>4, <2>5
<1> QED BY <1>2, <1>3

\* A step of the request leaves the world as it is, and quiet is not restored.
LEMMA QuietSteps ==
    ASSUME ResolverInv, WalkInv, Step, ~(FindZoneOfQuery \/ GetZone)
    PROVE  /\ SameWorld /\ hops' \in Nat /\ pc' \notin {"findZone", "getZone"}
           /\ quiet' => quiet
<1> USE DEF Step, LoopHead, TooManyHops, OutOfZone, NoSuchName, NameMatches, InLoop, ReadEncloserNS,
            ReadEncloserDS, ReadGlue, ReferralDone, ReadCNAME, ReadNS, ReadDS, AnswerFromZone, ReadAnswer,
            ReadA, ReadANAME, AliasHop, Upstream, ReadAliasCNAME, ReadAliasA, ReadAliasANAME,
            ReadFirstCAA, ClimbCAA, ReadLastCAA, Respond, At, OrServfail, AliasFails
<1>1. SameWorld
  BY DEF Elsewhere, SameWorld, envVars
<1>2. quiet' = quiet
  BY DEF CallWorks, CallFails
<1>3. hops' = hops \/ hops' = hops + 1
  BY DEF loopVars
<1>4. pc' \notin {"findZone", "getZone"}
  BY DEF Break, Follow, Finish, Filtered, Addresses, NoAddress
<1>5. hops' \in Nat
  BY <1>3 DEF WalkInv
<1> QED BY <1>1, <1>2, <1>4, <1>5

\* Every step of the request keeps it.
LEMMA WalkStep ==
    ASSUME ResolverInv, WalkInv, Step
    PROVE  WalkInv'
<1>1. CASE FindZoneOfQuery \/ GetZone
  BY <1>1, FirstStepsOnWalk
<1>2. CASE ~(FindZoneOfQuery \/ GetZone)
  <2>1. /\ SameWorld /\ hops' \in Nat /\ pc' \notin {"findZone", "getZone"}
        /\ quiet' => quiet
    BY <1>2, QuietSteps
  <2>2. ASSUME quiet', NEW w, IsWalk(w), OnWalk(w) PROVE OnWalk(w)'
    <3>1. CASE LoopHead
      BY <2>1, <2>2, <3>1, LoopOnWalk
    <3>2. CASE ReadEncloserNS \/ ReadEncloserDS \/ ReferralDone \/ \E h \in hosts : ReadGlue(h)
      BY <2>2, <3>2, EncloserOnWalk
    <3>3. CASE ReadCNAME \/ ReadNS \/ ReadDS
      BY <2>2, <3>3, CNAMEOnWalk, DelegationOnWalk
    <3>4. CASE AnswerFromZone \/ ReadAnswer \/ ReadA \/ ReadANAME
      BY <2>2, <3>4, AnswersOnWalk, ANAMEOnWalk
    <3>5. CASE AliasHop \/ Upstream \/ ReadAliasCNAME \/ ReadAliasA \/ ReadAliasANAME
      BY <2>2, <3>5, AliasOnWalk
    <3>6. CASE ReadFirstCAA \/ ClimbCAA \/ ReadLastCAA
      BY <2>2, <3>6, CAAOnWalk
    <3>7. CASE Respond
      BY <2>2, <3>7, RespondOnWalk
    <3> QED BY <1>2, <3>1, <3>2, <3>3, <3>4, <3>5, <3>6, <3>7 DEF Step
  <2> QED BY <2>1, <2>2, WalkKept
<1> QED BY <1>1, <1>2

\* A request that nothing disturbs is where its walk is.
LEMMA WalkInvariance == Spec => []WalkInv
<1>1. ResolverInv /\ WalkInv /\ [Next]_vars => WalkInv'
  <2> SUFFICES ASSUME ResolverInv, WalkInv, [Next]_vars PROVE WalkInv'
    OBVIOUS
  <2>1. CASE Step
    BY <2>1, WalkStep
  <2>2. CASE ReloadZones \/ ChangeRecords
    <3>1. quiet' = FALSE /\ hops' = hops /\ pc' = pc
      BY <2>2 DEF ReloadZones, ChangeRecords, Disturb, loopVars
    <3> QED BY <3>1 DEF WalkInv
  <2>3. CASE UNCHANGED vars
    <3>1. /\ SameWorld /\ hops' = hops /\ pc' = pc /\ quiet' = quiet /\ cur' = cur /\ loc' = loc
          /\ res' = res /\ answer' = answer /\ source' = source
      BY <2>3 DEF vars, envVars, loopVars, aliasVars, msgVars, SameWorld
    <3>2. ASSUME quiet', zone' # NoName, NEW w, IsWalk(w)' PROVE OnWalk(w)'
      <4>1. OnWalk(w)
        BY <3>1, <3>2, SameOutcome DEF WalkInv, SameWorld
      <4>2. NothingAt(w[MaxHops])' <=> NothingAt(w[MaxHops])
        BY <3>1, SameOutcome
      <4>3. /\ Lookup(cur)' = Lookup(cur) /\ Lookup(w[MaxHops])' = Lookup(w[MaxHops]) /\ Here' = Here
            /\ (PlainDenial' <=> PlainDenial)
        BY <3>1 DEF SameWorld, Lookup, Here, Get, PlainDenial
      <4> QED BY <3>1, <4>1, <4>2, <4>3 DEF OnWalk, SameWorld, Ended
    <3> QED BY <3>1, <3>2 DEF WalkInv
  <2> QED BY <2>1, <2>2, <2>3 DEF Next
<1> QED BY <1>1, WalkInvInit, ResolverInvariance, PTL DEF Spec

\* If nothing changed under a request, whatever failed, an empty successful answer
\* is the truth about the name that the CNAMEs of the query name lead to, whatever
\* zones, stores and bounds there are.
THEOREM QuietDenialsAreTrue == Spec => []QuietDenialIsTrue
<1>1. WalkInv => QuietDenialIsTrue
  <2> SUFFICES ASSUME WalkInv, Done, quiet, zone # NoName, PlainDenial PROVE NothingAt(Walk[MaxHops])
    BY DEF QuietDenialIsTrue, PlainDenial, NothingAt, Outcome
  <2>1. OnWalk(Walk)
    BY WalkExists DEF WalkInv
  <2> QED BY <2>1 DEF OnWalk, Ended, Done
<1> QED BY <1>1, WalkInvariance, PTL

\* A name error is told of a name below an existing one after its NS was read.
EncloserInv ==
    quiet /\ Ended /\ res = "NXDOMAIN" /\ Lookup(cur).match = "ce" =>
        Get(zone, Lookup(cur).location).ns = {}

\* Every step of the request keeps it.
LEMMA EncloserStep ==
    ASSUME ResolverInv, WalkInv, EncloserInv, Step
    PROVE  EncloserInv'
<1> SUFFICES ASSUME quiet', Ended', res' = "NXDOMAIN", Lookup(cur)'.match = "ce"
             PROVE  Get(zone, Lookup(cur).location)'.ns = {}
  BY DEF EncloserInv
<1>1. ~(FindZoneOfQuery \/ GetZone)
  <2>1. ASSUME FindZoneOfQuery \/ GetZone PROVE res' # "NXDOMAIN"
    <3>1. ~Ended
      BY <2>1 DEF FindZoneOfQuery, GetZone, Ended
    <3>2. res = "NOERROR"
      BY <3>1 DEF ResolverInv, Handled
    <3> QED BY <2>1, <3>2 DEF FindZoneOfQuery, GetZone, Break, msgVars
  <2> QED BY <2>1
<1>2. SameWorld /\ quiet
  BY <1>1, QuietSteps
<1>3. CASE Respond
  <2>1. Ended /\ cur' = cur /\ res' = res
    BY <1>3 DEF Respond, At, Ended, loopVars
  <2> QED BY <1>2, <2>1 DEF EncloserInv, SameWorld, Lookup, Get
<1>4. CASE NoSuchName
  <2>1. cur' = cur /\ Lookup(cur).match \in {"none", "emptyNonterminal"}
    BY <1>4 DEF NoSuchName, InLoop
  <2> QED BY <1>2, <2>1 DEF SameWorld, Lookup
<1>5. CASE ReadEncloserNS
  <2>1. pc = "ceNS" /\ cur' = cur /\ Here.ns = {}
    BY <1>5 DEF ReadEncloserNS, OrServfail, Break, At, Ended, loopVars
  <2>2. OnWalk(Walk)
    <3>1. zone # NoName
      BY <2>1, UnderWay, ResolverAssumption DEF Ended
    <3> QED BY <1>2, <3>1, WalkExists DEF WalkInv
  <2>3. loc = Lookup(cur).location
    BY <2>1, <2>2 DEF OnWalk
  <2> QED BY <1>2, <2>1, <2>3 DEF SameWorld, Lookup, Get, Here
<1>6. CASE ~Respond /\ ~NoSuchName /\ ~ReadEncloserNS
  <2>1. ~Ended
    BY <1>6 DEF Step, LoopHead, TooManyHops, OutOfZone, NameMatches, InLoop, FindZoneOfQuery,
                GetZone, ReadEncloserDS, ReadGlue, ReferralDone, ReadCNAME, ReadNS, ReadDS,
                AnswerFromZone, ReadAnswer, ReadA, ReadANAME, AliasHop, Upstream, ReadAliasCNAME, ReadAliasA,
                ReadAliasANAME, ReadFirstCAA, ClimbCAA, ReadLastCAA, At, Ended
  <2>2. res = "NOERROR"
    BY <2>1 DEF ResolverInv, Handled
  <2>3. ASSUME NEW rrs, NEW r \in {"NOERROR", "SERVFAIL"}, Finish(rrs, r) PROVE res' # "NXDOMAIN"
    BY <2>3 DEF Finish, DeniedRes
  <2>4. CASE LoopHead \/ ReadEncloserDS \/ ReferralDone \/ ReadCNAME \/ ReadNS \/ ReadDS \/ ReadA
             \/ \E h \in hosts : ReadGlue(h)
    BY <1>6, <2>2, <2>4 DEF LoopHead, TooManyHops, OutOfZone, NameMatches, ReadEncloserDS, ReadGlue,
         ReferralDone, ReadCNAME, Follow, ReadNS, ReadDS, ReadA, OrServfail, Break, msgVars
  <2>5. CASE AnswerFromZone \/ ReadAnswer
    BY <2>2, <2>3, <2>5 DEF AnswerFromZone, ReadAnswer, OrServfail, Break
  <2>6. ASSUME NEW from, Addresses(from) \/ Filtered(from) PROVE res' # "NXDOMAIN"
    BY <2>3, <2>6 DEF Addresses, Filtered
  <2>7. ASSUME NEW r \in {"NOERROR", "SERVFAIL"}, NoAddress(r) PROVE res' # "NXDOMAIN"
    BY <2>3, <2>7 DEF NoAddress
  <2>8. CASE ReadANAME
    <3>1. Filtered("own") \/ Finish(<<>>, res) \/ res' \in {res, "SERVFAIL"}
      BY <2>8 DEF ReadANAME, OrServfail, Break, msgVars
    <3> QED BY <2>2, <2>3, <2>6, <3>1
  <2>9. CASE AliasHop \/ Upstream \/ ReadAliasCNAME \/ ReadAliasA \/ ReadAliasANAME
    <3>1. \/ Addresses("upstream") \/ Filtered("alias") \/ res' = res
          \/ NoAddress("NOERROR") \/ NoAddress("SERVFAIL")
      BY <2>9 DEF AliasHop, Upstream, ReadAliasCNAME, ReadAliasA, ReadAliasANAME, AliasFails, msgVars
    <3> QED BY <2>2, <2>6, <2>7, <3>1
  <2>10. CASE ReadFirstCAA \/ ClimbCAA \/ ReadLastCAA
    <3>1. Finish(<<RR(cur, "CAA", NoName)>>, res) \/ Finish(<<>>, res) \/ res' = res
      BY <2>10 DEF ReadFirstCAA, ClimbCAA, ReadLastCAA, msgVars
    <3> QED BY <2>2, <2>3, <3>1
  <2> QED BY <1>1, <1>6, <2>4, <2>5, <2>8, <2>9, <2>10 DEF Step
<1> QED BY <1>3, <1>4, <1>5, <1>6

\* A name error is told only of names of the zone that do not exist and that no
\* wildcard covers, and never in a signed answer, whatever changes or fails under
\* the request; nor of names below a delegation, whatever fails, unless the records
\* change.
THEOREM NameErrorsAreTrue == Spec => []NameErrorIsTrue
<1>1. Init => EncloserInv
  BY DEF Init, EncloserInv
<1>2. ResolverInv /\ WalkInv /\ EncloserInv /\ [Next]_vars => EncloserInv'
  <2> SUFFICES ASSUME ResolverInv, WalkInv, EncloserInv, [Next]_vars PROVE EncloserInv'
    OBVIOUS
  <2>1. CASE Step
    BY <2>1, EncloserStep
  <2>2. CASE ReloadZones \/ ChangeRecords
    <3>1. quiet' = FALSE
      BY <2>2 DEF ReloadZones, ChangeRecords, Disturb
    <3> QED BY <3>1 DEF EncloserInv
  <2>3. CASE UNCHANGED vars
    BY <2>3 DEF vars, envVars, loopVars, msgVars, EncloserInv, Ended, Lookup, Get
  <2> QED BY <2>1, <2>2, <2>3 DEF Next
<1>3. ResolverInv /\ EncloserInv => NameErrorIsTrue
  <2> SUFFICES ASSUME ResolverInv, EncloserInv, Done, res = "NXDOMAIN" PROVE NameErrorIsTrue
    BY DEF NameErrorIsTrue
  <2>1. ~Dnssec /\ Absent
    BY DEF ResolverInv, Responses, AbsentNames
  <2> QED BY <2>1 DEF Absent, EncloserInv, NameErrorIsTrue, Ended, Done
<1> QED BY <1>1, <1>2, <1>3, ResolverInvariance, WalkInvariance, PTL DEF Spec

(***************************************************************************)
(* Signatures.  That an NS set is left unsigned for the name of the        *)
(* question is seen as the response is signed; that it is the zone's own,  *)
(* on the way to the final location, where other names than the zone's are *)
(* answered only if they are no delegation.                                *)
(***************************************************************************)
NSOnWalk(w) ==
    /\ pc = "answer" => w[MaxHops] = zone \/ Here.ns = {}
    /\ Ended /\ Flattening /\ Has(answer, "NS") => w[MaxHops] = zone

NSInv == quiet /\ zone # NoName => \A w : IsWalk(w) => NSOnWalk(w)

\* At the final location are the zone's name servers, or none.
LEMMA FinalNS ==
    ASSUME WalkInv, Step, pc' = "answer", quiet', NEW w, IsWalk(w), OnWalk(w)
    PROVE  w[MaxHops] = zone \/ Here'.ns = {}
<1>1. ReadCNAME \/ ReadNS
  BY DEF Step, FindZoneOfQuery, GetZone, LoopHead, TooManyHops, OutOfZone, NoSuchName, NameMatches,
         ReadEncloserNS, ReadEncloserDS, ReadGlue, ReferralDone, ReadDS, AnswerFromZone, ReadAnswer,
         ReadA, ReadANAME, AliasHop, Upstream, ReadAliasCNAME, ReadAliasA, ReadAliasANAME, ReadFirstCAA,
         ClimbCAA, ReadLastCAA, Respond, At, OrServfail, AliasFails, Break, Finish, Filtered, Addresses,
         NoAddress
<1>2. SameWorld /\ loc' = loc
  BY <1>1 DEF ReadCNAME, ReadNS, OrServfail, At, Elsewhere, SameWorld, envVars, loopVars
<1>3. CASE ReadCNAME
  <2>1. /\ pc = "cname" /\ cur = zone /\ ~(Here.cname # NoName /\ req.qtype # "CNAME")
    BY <1>3 DEF ReadCNAME, At, OrServfail, Break, Follow
  <2>2. PICK k : k = hops - 1
    OBVIOUS
  <2>3. k \in 0..MaxHops /\ cur = w[k] /\ loc = Lookup(cur).location
    BY <2>1, <2>2 DEF OnWalk
  <2> QED BY <2>1, <2>3, EndsHere DEF Here
<1>4. CASE ReadNS
  <2>1. Here.ns = {}
    BY <1>4 DEF ReadNS, At, OrServfail, Break
  <2> QED BY <1>2, <2>1 DEF SameWorld, Here, Get
<1> QED BY <1>1, <1>3, <1>4

\* The answer stays as it is, is emptied, or gets one record that is no NS.
AddsNoNS ==
    \/ answer' = answer \/ answer' = <<>> \/ answer' = answer \o <<>>
    \/ \E r : r.type # "NS" /\ (answer' = Append(answer, r) \/ answer' = answer \o <<r>>)

\* No step but that which reads NS for the answer adds one.
LEMMA NoNSAdded ==
    ASSUME ResolverInv, Step, ~FindZoneOfQuery, ~ReadAnswer, Flattening, ~Ended
    PROVE  ~Has(answer', "NS")
<1>1. answer = <<>>
  BY DEF ResolverInv, Handled
<1>2. AddsNoNS
  <2>1. \A name, type, to : type # "NS" => RR(name, type, to).type # "NS"
    BY DEF RR
  <2>2. SOA.type # "NS"
    BY <2>1 DEF SOA
  <2>3. ASSUME NEW rrs, NEW r, Finish(rrs, r), rrs = <<>> \/ \E x : rrs = <<x>> /\ x.type # "NS"
        PROVE  AddsNoNS
    BY <2>3 DEF Finish, AddsNoNS
  <2>4. CASE GetZone \/ LoopHead \/ ReadEncloserNS \/ ReadEncloserDS \/ ReferralDone \/ ReadNS
             \/ ReadA \/ \E h \in hosts : ReadGlue(h)
    BY <2>4 DEF GetZone, LoopHead, TooManyHops, OutOfZone, NoSuchName, NameMatches, ReadEncloserNS,
                ReadEncloserDS, ReadGlue, ReferralDone, ReadNS, ReadA, OrServfail, Break, msgVars, AddsNoNS
  <2>5. CASE ReadCNAME
    BY <2>1, <2>5 DEF ReadCNAME, Follow, OrServfail, Break, msgVars, AddsNoNS
  <2>6. CASE ReadDS
    BY <2>1, <2>6 DEF ReadDS, OrServfail, Break, AddsNoNS
  <2>7. CASE AnswerFromZone
    <3>1. \/ Finish(<<SOA>>, res) \/ Finish(<<>>, res) \/ answer' = <<>>
          \/ Finish(<<RR(zone, "DNSKEY", NoName)>>, res)
      BY <2>7 DEF AnswerFromZone
    <3> QED BY <2>1, <2>2, <2>3, <3>1 DEF AddsNoNS
  <2>8. ASSUME NEW from, Addresses(from) \/ Filtered(from) PROVE AddsNoNS
    <3>1. Finish(<<RR(cur, "A", NoName)>>, "NOERROR") \/ Finish(<<>>, "NOERROR")
      BY <2>8 DEF Addresses, Filtered
    <3> QED BY <2>1, <2>3, <3>1
  <2>9. ASSUME NEW r, NoAddress(r) PROVE AddsNoNS
    BY <2>3, <2>9 DEF NoAddress
  <2>10. CASE ReadANAME
    <3>1. Filtered("own") \/ Finish(<<>>, res) \/ answer' = answer
      BY <2>10 DEF ReadANAME, OrServfail, Break, msgVars
    <3> QED BY <2>3, <2>8, <3>1 DEF AddsNoNS
  <2>11. CASE AliasHop \/ Upstream \/ ReadAliasCNAME \/ ReadAliasA \/ ReadAliasANAME
    <3>1. \/ Addresses("upstream") \/ Filtered("alias") \/ answer' = answer
          \/ NoAddress("NOERROR") \/ NoAddress("SERVFAIL")
      BY <2>11 DEF AliasHop, Upstream, ReadAliasCNAME, ReadAliasA, ReadAliasANAME, AliasFails, msgVars
    <3> QED BY <2>8, <2>9, <3>1 DEF AddsNoNS
  <2>12. CASE ReadFirstCAA \/ ClimbCAA \/ ReadLastCAA
    <3>1. Finish(<<RR(cur, "CAA", NoName)>>, res) \/ Finish(<<>>, res) \/ answer' = answer
      BY <2>12 DEF ReadFirstCAA, ClimbCAA, ReadLastCAA, msgVars
    <3> QED BY <2>1, <2>3, <3>1 DEF AddsNoNS
  <2>13. ~Respond
    BY DEF Respond, At, Ended
  <2> QED BY <2>4, <2>5, <2>6, <2>7, <2>10, <2>11, <2>12, <2>13 DEF Step
<1>3. CASE answer' = answer \/ answer' = <<>> \/ answer' = answer \o <<>>
  BY <1>1, <1>3 DEF Has
<1>4. CASE \E r : r.type # "NS" /\ (answer' = Append(answer, r) \/ answer' = answer \o <<r>>)
  <2>1. PICK r : r.type # "NS" /\ (answer' = Append(answer, r) \/ answer' = answer \o <<r>>)
    BY <1>4
  <2>2. answer' = <<r>>
    BY <1>1, <2>1
  <2>3. PICK t : t = <<r>>
    OBVIOUS
  <2>4. DOMAIN t = {1} /\ t[1] = r
    BY <2>3
  <2>5. answer' = t
    BY <2>2, <2>3
  <2> QED BY <2>1, <2>4, <2>5 DEF Has
<1> QED BY <1>2, <1>3, <1>4 DEF AddsNoNS

\* Every step of the request keeps whose name servers are answered.
LEMMA NSStep ==
    ASSUME ResolverInv, WalkInv, NSInv, Step
    PROVE  NSInv'
<1> SUFFICES ASSUME quiet', zone' # NoName, NEW w, IsWalk(w)' PROVE NSOnWalk(w)'
  BY DEF NSInv
<1>1. CASE FindZoneOfQuery \/ GetZone
  <2>1. pc' # "answer" /\ (Ended' => answer' = <<>>)
    <3>1. ~Ended /\ answer = <<>>
      BY <1>1 DEF FindZoneOfQuery, GetZone, Ended, ResolverInv, Handled
    <3> QED BY <1>1, <3>1 DEF FindZoneOfQuery, GetZone, Break, msgVars
  <2> QED BY <2>1 DEF NSOnWalk, Has
<1>2. CASE ~(FindZoneOfQuery \/ GetZone)
  <2>1. SameWorld /\ quiet
    BY <1>2, QuietSteps
  <2>2. zone # NoName /\ IsWalk(w) /\ (Flattening' <=> Flattening)
    BY <2>1, SameOutcome, SameOptions DEF SameWorld
  <2>3. OnWalk(w) /\ NSOnWalk(w)
    BY <2>1, <2>2 DEF WalkInv, NSInv
  <2>4. pc' = "answer" => w[MaxHops] = zone' \/ Here'.ns = {}
    BY <2>1, <2>2, <2>3, FinalNS DEF SameWorld
  <2>5. ASSUME Ended', Flattening, Has(answer', "NS") PROVE w[MaxHops] = zone
    <3>1. CASE Respond
      <4>1. pc = "respond" /\ answer' = IF Dnssec THEN SignResponse(answer) ELSE answer
        BY <3>1 DEF Respond, At
      <4>2. answer \in Seq(Record)
        BY <4>1 DEF ResolverInv, ResolverTypeOK
      <4>3. Has(answer, "NS")
        <5>1. PICK t : t = answer'
          OBVIOUS
        <5>2. /\ \A i \in 1..Len(answer) : i \in DOMAIN t /\ t[i] = answer[i]
              /\ \A i \in DOMAIN t : t[i].type = "RRSIG" \/ i \in 1..Len(answer)
          BY <4>1, <4>2, <5>1, SentSection
        <5>3. PICK i \in DOMAIN t : t[i].type = "NS"
          BY <2>5, <5>1 DEF Has
        <5>4. i \in 1..Len(answer) /\ answer[i].type = "NS"
          BY <5>2, <5>3
        <5> QED BY <4>2, <5>4 DEF Has
      <4> QED BY <2>3, <2>5, <4>1, <4>3 DEF NSOnWalk, Ended
    <3>2. CASE ReadAnswer
      <4>1. pc = "answer" /\ Here.ns = {} => w[MaxHops] = zone \/ req.qtype # "NS" \/ ~Holds(Here, req.qtype)
        BY Asks
      <4>2. answer = <<>>
        BY <2>5, <3>2 DEF ResolverInv, Handled, ReadAnswer, At, Ended
      <4>3. PICK rrs : /\ answer' = answer \o rrs
                       /\ \/ rrs = <<>>
                          \/ /\ Holds(Here, req.qtype)
                             /\ \E x : rrs = <<x>> /\ x.type = req.qtype
        <5>1. \A name, type, to : RR(name, type, to).type = type
          BY DEF RR
        <5>2. OrServfail => answer' = answer \o <<>>
          BY <4>2 DEF OrServfail, Break
        <5> QED BY <3>2, <4>2, <5>1, <5>2 DEF ReadAnswer, Finish
      <4>4. CASE rrs = <<>>
        BY <2>5, <4>2, <4>3, <4>4 DEF Has
      <4>5. CASE Holds(Here, req.qtype) /\ \E x : rrs = <<x>> /\ x.type = req.qtype
        <5>1. PICK x : rrs = <<x>> /\ x.type = req.qtype
          BY <4>5
        <5>2. PICK t : t = <<x>>
          OBVIOUS
        <5>3. DOMAIN t = {1} /\ t[1] = x /\ answer' = t
          <6>1. answer' = <<>> \o <<x>>
            BY <4>2, <4>3, <5>1
          <6> QED BY <5>2, <6>1
        <5>4. req.qtype = "NS"
          BY <2>5, <5>1, <5>3 DEF Has
        <5>5. pc = "answer" /\ Here.ns # {}
          BY <3>2, <4>5, <5>4, Asks DEF ReadAnswer, At
        <5> QED BY <2>3, <5>5 DEF NSOnWalk
      <4> QED BY <4>3, <4>4, <4>5
    <3>3. CASE ~Respond /\ ~ReadAnswer
      <4>1. ~Ended
        BY <3>3 DEF Step, LoopHead, TooManyHops, OutOfZone, NoSuchName, NameMatches, InLoop, FindZoneOfQuery,
                    GetZone, ReadEncloserNS, ReadEncloserDS, ReadGlue, ReferralDone, ReadCNAME, ReadNS, ReadDS,
                    AnswerFromZone, ReadA, ReadANAME, AliasHop, Upstream, ReadAliasCNAME, ReadAliasA,
                    ReadAliasANAME, ReadFirstCAA, ClimbCAA, ReadLastCAA, At, Ended
      <4> QED BY <1>2, <2>5, <3>3, <4>1, NoNSAdded
    <3> QED BY <3>1, <3>2, <3>3
  <2>6. Has(answer, "NS")' => Has(answer', "NS")
    BY DEF Has
  <2> QED BY <2>1, <2>2, <2>4, <2>5, <2>6 DEF NSOnWalk, SameWorld
<1> QED BY <1>1, <1>2

\* Every set of a signed response is signed, but for the zone's own NS set when it is
\* answered under the name of an alias, and for the delegations in the authority
\* section of a question for another name than the zone's: for any zones, stores and
\* bounds, and if something changes under the request but for whose NS they are.
THEOREM SignaturesCoverSets == Spec => []SignedSetsVerify
<1>1. Init => NSInv
  BY DEF Init, NSInv
<1>2. ResolverInv /\ WalkInv /\ NSInv /\ [Next]_vars => NSInv'
  <2> SUFFICES ASSUME ResolverInv, WalkInv, NSInv, [Next]_vars PROVE NSInv'
    OBVIOUS
  <2>1. CASE Step
    BY <2>1, NSStep
  <2>2. CASE ReloadZones \/ ChangeRecords
    <3>1. quiet' = FALSE
      BY <2>2 DEF ReloadZones, ChangeRecords, Disturb
    <3> QED BY <3>1 DEF NSInv
  <2>3. CASE UNCHANGED vars
    <3>1. SameWorld /\ pc' = pc /\ quiet' = quiet /\ loc' = loc /\ answer' = answer
      BY <2>3 DEF vars, envVars, loopVars, msgVars, SameWorld
    <3>2. ASSUME NEW w PROVE (NSOnWalk(w)' <=> NSOnWalk(w)) /\ (IsWalk(w)' <=> IsWalk(w))
      <4>1. Here' = Here /\ (Flattening' <=> Flattening) /\ (Has(answer, "NS")' <=> Has(answer, "NS"))
        BY <3>1, SameOptions DEF SameWorld, Here, Get, Has
      <4> QED BY <3>1, <4>1, SameOutcome DEF NSOnWalk, SameWorld, Ended
    <3> QED BY <3>1, <3>2 DEF NSInv, SameWorld
  <2> QED BY <2>1, <2>2, <2>3 DEF Next
<1>3. ResolverInv /\ NSInv => SignedSetsVerify
  <2> SUFFICES ASSUME ResolverInv, NSInv, Done, zone # NoName, Dnssec PROVE SignedSetsVerify
    BY DEF SignedSetsVerify
  <2>1. SetsCovered
    BY DEF ResolverInv, Responses
  <2>2. ASSUME quiet, Has(answer, "NS") PROVE Outcome.name = zone
    <3>1. NSOnWalk(Walk)
      BY <2>2, WalkExists DEF NSInv
    <3>2. Walk[MaxHops] = zone
      BY <2>2, <3>1 DEF NSOnWalk, Ended, Done, Flattening
    <3> QED BY <3>2 DEF Outcome
  <2>3. ASSUME NEW i \in DOMAIN answer, answer[i].type = "NS" PROVE Has(answer, "NS")
    BY <2>3 DEF Has
  <2> QED BY <2>1, <2>2, <2>3 DEF SetsCovered, SignedSetsVerify
<1> QED BY <1>1, <1>2, <1>3, ResolverInvariance, WalkInvariance, PTL DEF Spec
==============================================================================
