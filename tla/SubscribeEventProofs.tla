------------------------ MODULE SubscribeEventProofs ------------------------
(***************************************************************************)
(* Proofs about SubscribeEvent, for every set of subscriptions and keys    *)
(* and every bound on the unread notifications; and, at the end, about the *)
(* data handler that starts two of them and shuts them down.  Only those   *)
(* last proofs use the assumption that there are two.                      *)
(***************************************************************************)
EXTENDS UpdaterShutdown, TLAPS

(***************************************************************************)
(* The inductive invariant.  A receiver, its connection and its result are *)
(* one resource: it is in exactly one place, and psc says whether there is *)
(* one.  None of the properties is inductive without the part about where  *)
(* the loop is, since it is the loop that creates and consumes it.         *)
(***************************************************************************)
ConnInv(s) ==
    /\ rcv[s] # "none" <=> link[s] # "none"
    /\ rcv[s] # "none" => psc[s] /\ done[s] = <<>>
    /\ done[s] = <<>> \/ done[s] = <<"error">> \/ done[s] = <<"nil">>
    /\ done[s] = <<"nil">> => loop[s] = "draining"

LoopInv(s) ==
    /\ loop[s] = "spawned" => rcv[s] = "none" /\ ~psc[s] /\ done[s] = <<>>
    /\ loop[s] \in {"select", "draining"} =>
          (psc[s] <=> (rcv[s] # "none" \/ done[s] # <<>>))
    /\ loop[s] = "stopped" => rcv[s] = "none" /\ done[s] = <<>>
    /\ unsub[s] => loop[s] \in {"draining", "stopped"}
    /\ link[s] = "unsubscribed" => unsub[s]

IInv == TypeOK /\ \A s \in Subs : ConnInv(s) /\ LoopInv(s)

\* A prefix of a sequence is a sequence of the same elements.
LEMMA PrefixIsSeq ==
    ASSUME NEW S, NEW q \in Seq(S), NEW n \in 0..Len(q)
    PROVE  SubSeq(q, 1, n) \in Seq(S)
OBVIOUS

\* A whole sequence is one of its prefixes.
LEMMA WholePrefix ==
    ASSUME NEW S, NEW q \in Seq(S)
    PROVE  Len(q) \in 0..Len(q) /\ SubSeq(q, 1, Len(q)) = q
OBVIOUS

\* The first value sent to the empty channel done is its only one.
LEMMA OneValueSent ==
    ASSUME NEW s \in Subs, NEW x \in {"error", "nil"},
           done \in [Subs -> Seq({"error", "nil"})], done[s] = <<>>,
           done' = [done EXCEPT ![s] = Append(@, x)]
    PROVE  done'[s] = <<x>>
<1>1. done'[s] = Append(done[s], x)
    OBVIOUS
<1>2. Append(<<>>, x) = <<x>>
    OBVIOUS
<1> QED BY <1>1, <1>2, Zenon

\* Nothing is left of done after its value has been received.
LEMMA NothingLeft ==
    ASSUME NEW d, d = <<"error">> \/ d = <<"nil">>
    PROVE  /\ Tail(d) = <<>>
           /\ Head(d) = "error" <=> d = <<"error">>
<1>1. Tail(<<"error">>) = <<>> /\ Tail(<<"nil">>) = <<>>
    OBVIOUS
<1>2. Head(<<"error">>) = "error" /\ Head(<<"nil">>) # "error" /\ <<"error">> # <<"nil">>
    OBVIOUS
<1> QED BY <1>1, <1>2, Zenon

\* Every step of Init and Next preserves the types: no goroutine of
\* SubscribeEvent leaves the states its control flow knows.
LEMMA TypeStep == TypeOK /\ [Next]_vars => TypeOK'
<1> SUFFICES ASSUME TypeOK, [Next]_vars PROVE TypeOK'
    OBVIOUS
<1> USE DEF TypeOK
<1>1. CASE UNCHANGED vars
    BY <1>1 DEF vars
<1>2. ASSUME NEW s \in Subs, LoopStep(s) PROVE TypeOK'
  <2>1. CASE StartConnected(s)
    BY <2>1 DEF StartConnected, InitAndSubscribe
  <2>2. CASE StartUnconnected(s)
    BY <2>2 DEF StartUnconnected
  <2>3. CASE Tick(s)
    BY <2>3 DEF Tick, InitAndSubscribe
  <2>4. CASE HandleDone(s)
    <3>1. done' \in [Subs -> Seq({"error", "nil"})]
        BY <2>4 DEF HandleDone
    <3>2. psc' \in [Subs -> BOOLEAN]
      <4> DEFINE b == IF Head(done[s]) = "error" THEN FALSE ELSE psc[s]
      <4>1. b \in BOOLEAN
        OBVIOUS
      <4>2. psc' = [psc EXCEPT ![s] = b]
        BY <2>4 DEF HandleDone
      <4> QED BY <4>1, <4>2
    <3> QED BY <2>4, <3>1, <3>2 DEF HandleDone
  <2>5. CASE HandleQuit(s)
    BY <2>5 DEF HandleQuit
  <2>6. CASE Drain(s)
    BY <2>6 DEF Drain
  <2> QED BY <1>2, <2>1, <2>2, <2>3, <2>4, <2>5, <2>6 DEF LoopStep
<1>3. ASSUME NEW s \in Subs, ReceiverStep(s) PROVE TypeOK'
  <2>1. CASE OnStart(s)
    BY <2>1 DEF OnStart
  <2>2. CASE OnMessage(s)
    BY <2>2 DEF OnMessage
  <2>3. CASE ReceiveError(s)
    BY <2>3 DEF ReceiveError, Finish
  <2>4. CASE ReceivePUnsubscribe(s)
    BY <2>4 DEF ReceivePUnsubscribe, Finish
  <2> QED BY <1>3, <2>1, <2>2, <2>3, <2>4 DEF ReceiverStep
<1>4. ASSUME NEW s \in Subs, ServerStep(s) PROVE TypeOK'
  <2>1. CASE Disconnect(s)
    <3>1. PICK n \in 0..Len(inbox[s]) :
             inbox' = [inbox EXCEPT ![s] = SubSeq(@, 1, n)]
        BY <2>1 DEF Disconnect
    <3>2. SubSeq(inbox[s], 1, n) \in Seq(Keys)
        BY PrefixIsSeq
    <3> QED BY <2>1, <3>1, <3>2 DEF Disconnect
  <2>2. CASE ServerSubscribe(s)
    BY <2>2 DEF ServerSubscribe
  <2>3. ASSUME NEW k \in Keys, ServerNotify(s, k) PROVE TypeOK'
    BY <2>3 DEF ServerNotify
  <2>4. CASE ServerUnsubscribe(s)
    BY <2>4 DEF ServerUnsubscribe
  <2> QED BY <1>4, <2>1, <2>2, <2>3, <2>4 DEF ServerStep
<1>5. ASSUME NEW s \in Subs, RequestQuit(s) PROVE TypeOK'
    BY <1>5 DEF RequestQuit
<1> QED BY <1>1, <1>2, <1>3, <1>4, <1>5 DEF Next

\* The goroutines and channels of every subscription stay well typed.
THEOREM TypeCorrect == Spec => []TypeOK
<1>1. Init => TypeOK
    BY DEF Init, TypeOK
<1> QED BY <1>1, TypeStep, PTL DEF Spec

\* A step of one subscription preserves the invariant of every subscription.
LEMMA IInvStep == IInv /\ [Next]_vars => IInv'
<1> SUFFICES ASSUME IInv, [Next]_vars PROVE IInv'
    OBVIOUS
<1>1. TypeOK'
    BY TypeStep DEF IInv
<1>2. SUFFICES ASSUME NEW t \in Subs PROVE (ConnInv(t) /\ LoopInv(t))'
    BY <1>1 DEF IInv
<1> USE DEF IInv, TypeOK, ConnInv, LoopInv
<1>3. CASE UNCHANGED vars
    BY <1>3 DEF vars
<1>4. ASSUME NEW s \in Subs, LoopStep(s) PROVE (ConnInv(t) /\ LoopInv(t))'
  <2>1. CASE StartConnected(s)
    BY <2>1 DEF StartConnected, InitAndSubscribe
  <2>2. CASE StartUnconnected(s)
    BY <2>2 DEF StartUnconnected
  <2>3. CASE Tick(s)
    BY <2>3 DEF Tick, InitAndSubscribe
  <2>4. CASE HandleDone(s)
    <3>1. done[s] = <<"error">>
        BY <2>4 DEF HandleDone
    <3>2. Tail(done[s]) = <<>> /\ Head(done[s]) = "error"
      <4> HIDE DEF IInv, TypeOK, ConnInv, LoopInv
      <4> QED BY <3>1, NothingLeft
    <3>3. /\ done' = [done EXCEPT ![s] = <<>>]
          /\ psc' = [psc EXCEPT ![s] = FALSE]
        BY <2>4, <3>2 DEF HandleDone
    <3>4. rcv[s] = "none" /\ loop[s] = "select"
        BY <2>4, <3>1 DEF HandleDone
    <3>5. UNCHANGED <<loop, rcv, quit, link, inbox, unsub>>
        BY <2>4 DEF HandleDone
    <3>6. CASE t = s
        BY <3>3, <3>4, <3>5, <3>6
    <3>7. CASE t # s
        BY <3>3, <3>5, <3>7
    <3> QED BY <3>6, <3>7
  <2>5. CASE HandleQuit(s)
    BY <2>5 DEF HandleQuit
  <2>6. CASE Drain(s)
    <3>1. done[s] = <<"error">> \/ done[s] = <<"nil">>
        BY <2>6 DEF Drain
    <3>2. Tail(done[s]) = <<>>
      <4> HIDE DEF IInv, TypeOK, ConnInv, LoopInv
      <4> QED BY <3>1, NothingLeft
    <3>3. rcv[s] = "none"
        BY <3>1, <2>6 DEF Drain
    <3>4. done' = [done EXCEPT ![s] = <<>>]
        BY <2>6, <3>2 DEF Drain
    <3>5. CASE t = s
      <4>1. /\ done'[t] = <<>> /\ loop'[t] = "stopped"
            /\ rcv'[t] = "none" /\ link'[t] = "none"
        BY <2>6, <3>3, <3>4, <3>5 DEF Drain
      <4> QED BY <4>1
    <3>6. CASE t # s
        BY <2>6, <3>4, <3>6 DEF Drain
    <3> QED BY <3>5, <3>6
  <2> QED BY <1>4, <2>1, <2>2, <2>3, <2>4, <2>5, <2>6 DEF LoopStep
<1>5. ASSUME NEW s \in Subs, ReceiverStep(s) PROVE (ConnInv(t) /\ LoopInv(t))'
  <2>1. CASE OnStart(s)
    BY <2>1 DEF OnStart
  <2>2. CASE OnMessage(s)
    BY <2>2 DEF OnMessage
  <2>3. CASE ReceiveError(s)
    <3>1. done[s] = <<>> /\ done \in [Subs -> Seq({"error", "nil"})]
        BY <2>3 DEF ReceiveError, Finish
    <3>2. done'[s] = <<"error">>
      <4> HIDE DEF IInv, TypeOK, ConnInv, LoopInv
      <4>1. done' = [done EXCEPT ![s] = Append(@, "error")]
        BY <2>3 DEF ReceiveError, Finish
      <4> QED BY <3>1, <4>1, OneValueSent
    <3> QED BY <2>3, <3>2 DEF ReceiveError, Finish
  <2>4. CASE ReceivePUnsubscribe(s)
    <3>1. done[s] = <<>> /\ done \in [Subs -> Seq({"error", "nil"})]
        BY <2>4 DEF ReceivePUnsubscribe, Finish
    <3>2. done'[s] = <<"nil">>
      <4> HIDE DEF IInv, TypeOK, ConnInv, LoopInv
      <4>1. done' = [done EXCEPT ![s] = Append(@, "nil")]
        BY <2>4 DEF ReceivePUnsubscribe, Finish
      <4> QED BY <3>1, <4>1, OneValueSent
    <3> QED BY <2>4, <3>2 DEF ReceivePUnsubscribe, Finish
  <2> QED BY <1>5, <2>1, <2>2, <2>3, <2>4 DEF ReceiverStep
<1>6. ASSUME NEW s \in Subs, ServerStep(s) PROVE (ConnInv(t) /\ LoopInv(t))'
  <2>1. CASE ServerSubscribe(s)
    BY <2>1 DEF ServerSubscribe
  <2>2. ASSUME NEW k \in Keys, ServerNotify(s, k) PROVE (ConnInv(t) /\ LoopInv(t))'
    BY <2>2 DEF ServerNotify
  <2>3. CASE ServerUnsubscribe(s)
    BY <2>3 DEF ServerUnsubscribe
  <2>4. CASE Disconnect(s)
    BY <2>4 DEF Disconnect
  <2> QED BY <1>6, <2>1, <2>2, <2>3, <2>4 DEF ServerStep
<1>7. ASSUME NEW s \in Subs, RequestQuit(s) PROVE (ConnInv(t) /\ LoopInv(t))'
    BY <1>7 DEF RequestQuit
<1> QED BY <1>3, <1>4, <1>5, <1>6, <1>7 DEF Next

\* The inductive invariant holds before any goroutine of SubscribeEvent runs.
LEMMA IInvInit == Init => IInv
BY DEF Init, IInv, TypeOK, ConnInv, LoopInv

\* The inductive invariant holds in every reachable state.
THEOREM Invariance == Spec => []IInv
BY IInvInit, IInvStep, PTL DEF Spec

\* A receiver never dereferences a nil psc, never uses a closed connection and
\* never blocks on done.
THEOREM ReceiverSafety == Spec => []ReceiverIsSafe
<1>1. IInv => ReceiverIsSafe
    BY DEF IInv, ConnInv, ReceiverIsSafe
<1> QED BY <1>1, Invariance, PTL

\* psc is an exact record of whether there is a receiver to wait for.
THEOREM PscIsExact == Spec => []PscTellsReceiver
<1>1. IInv => PscTellsReceiver
    BY DEF IInv, LoopInv, PscTellsReceiver
<1> QED BY <1>1, Invariance, PTL

\* Only an unsubscription that the loop asked for ends a receiver quietly.
THEOREM NilMeansAsked == Spec => []NilOnlyWhenDraining
<1>1. IInv => NilOnlyWhenDraining
  <2> SUFFICES ASSUME IInv, NEW s \in Subs,
                      NEW i \in 1..Len(done[s]), done[s][i] = "nil"
               PROVE  loop[s] = "draining"
    BY DEF NilOnlyWhenDraining
  <2>1. done[s] = <<"nil">>
    BY DEF IInv, ConnInv
  <2> QED BY <2>1 DEF IInv, ConnInv
<1> QED BY <1>1, Invariance, PTL

\* The ticker never starts a second receiver.
THEOREM SingleReceiver == Spec => OneReceiver
<1> DEFINE P == \A s \in Subs :
                   rcv'[s] = "starting" /\ rcv[s] # "starting" => rcv[s] = "none"
<1>1. IInv /\ [Next]_vars => [P]_vars
  <2> SUFFICES ASSUME IInv, Next, NEW t \in Subs,
                      rcv'[t] = "starting", rcv[t] # "starting"
               PROVE  rcv[t] = "none"
    OBVIOUS
  <2> USE DEF IInv, TypeOK
  <2>1. ASSUME NEW s \in Subs, LoopStep(s) PROVE rcv[t] = "none"
    BY <2>1 DEF LoopStep, StartConnected, StartUnconnected, Tick, InitAndSubscribe,
       HandleDone, HandleQuit, Drain, LoopInv, ConnInv
  <2>2. ASSUME NEW s \in Subs, ReceiverStep(s) PROVE rcv[t] = "none"
    BY <2>2 DEF ReceiverStep, OnStart, OnMessage, ReceiveError,
       ReceivePUnsubscribe, Finish
  <2>3. ASSUME NEW s \in Subs, ServerStep(s) \/ RequestQuit(s) PROVE rcv[t] = "none"
    BY <2>3 DEF ServerStep, ServerSubscribe, ServerNotify, ServerUnsubscribe,
       Disconnect, RequestQuit
  <2> QED BY <2>1, <2>2, <2>3 DEF Next
<1> QED BY <1>1, Invariance, PTL DEF Spec, OneReceiver

(***************************************************************************)
(* SubscribeEvent implements NotificationChannel.                          *)
(***************************************************************************)

\* Every step is a step of the channel seen by the callbacks, or changes none
\* of it: the steps of the loop that handle done and quit are invisible.
LEMMA ChannelStep ==
    IInv /\ [Next]_vars => [Channel!ChannelNext]_(Channel!channelVars)
<1> SUFFICES ASSUME IInv, [Next]_vars
             PROVE  [Channel!ChannelNext]_(Channel!channelVars)
    OBVIOUS
<1> USE DEF IInv, TypeOK, phaseOf
<1>1. CASE UNCHANGED vars
    BY <1>1 DEF vars, Channel!channelVars
<1>2. ASSUME NEW s \in Subs, StartConnected(s) \/ Tick(s) PROVE Channel!Connect(s)
  <2>1. link[s] = "none"
    BY <1>2 DEF StartConnected, Tick, ConnInv, LoopInv
  <2>2. InitAndSubscribe(s)
    BY <1>2 DEF StartConnected, Tick
  <2> QED BY <2>1, <2>2 DEF InitAndSubscribe, Channel!Connect
<1>3. ASSUME NEW s \in Subs,
             \/ StartUnconnected(s) \/ HandleDone(s) \/ HandleQuit(s)
             \/ Drain(s) \/ RequestQuit(s)
      PROVE  UNCHANGED Channel!channelVars
    BY <1>3 DEF StartUnconnected, HandleDone, HandleQuit, Drain, RequestQuit,
       Channel!channelVars
<1>4. ASSUME NEW s \in Subs, OnStart(s) PROVE Channel!OnStart(s)
    BY <1>4 DEF OnStart, Channel!OnStart, ConnInv
<1>5. ASSUME NEW s \in Subs, OnMessage(s) PROVE Channel!OnMessage(s)
    BY <1>5 DEF OnMessage, Channel!OnMessage, ConnInv
<1>6. ASSUME NEW s \in Subs, ReceiveError(s) \/ ReceivePUnsubscribe(s)
      PROVE  Channel!Close(s)
  <2>1. /\ link[s] \in {"broken", "unsubscribed"}
        /\ rcv[s] = "receiving" /\ inbox[s] = <<>>
        /\ rcv' = [rcv EXCEPT ![s] = "none"]
        /\ link' = [link EXCEPT ![s] = "none"]
        /\ inbox' = inbox
    BY <1>6 DEF ReceiveError, ReceivePUnsubscribe, Finish
  <2> QED BY <2>1 DEF Channel!Close
<1>7. ASSUME NEW s \in Subs, ServerSubscribe(s) PROVE Channel!Register(s)
    BY <1>7 DEF ServerSubscribe, Channel!Register
<1>8. ASSUME NEW s \in Subs, NEW k \in Keys, ServerNotify(s, k)
      PROVE  Channel!Notify(s, k)
    BY <1>8 DEF ServerNotify, Channel!Notify
<1>9. ASSUME NEW s \in Subs, ServerUnsubscribe(s) \/ Disconnect(s)
      PROVE  Channel!Lose(s)
  <2>1. CASE Disconnect(s)
    BY <2>1 DEF Disconnect, Channel!Lose
  <2>2. CASE ServerUnsubscribe(s)
    <3>1. /\ Len(inbox[s]) \in 0..Len(inbox[s])
          /\ SubSeq(inbox[s], 1, Len(inbox[s])) = inbox[s]
        BY WholePrefix
    <3>2. inbox' = [inbox EXCEPT ![s] = SubSeq(@, 1, Len(@))]
        BY <2>2, <3>1 DEF ServerUnsubscribe
    <3> QED BY <2>2, <3>1, <3>2 DEF ServerUnsubscribe, Channel!Lose
  <2> QED BY <1>9, <2>1, <2>2
<1> QED
    BY <1>1, <1>2, <1>3, <1>4, <1>5, <1>6, <1>7, <1>8, <1>9
       DEF Next, LoopStep, ReceiverStep, ServerStep, Channel!ChannelNext

\* The callbacks of a subscription see a NotificationChannel, for any number of
\* subscriptions, keys and unread notifications.
THEOREM Refinement == Spec => ImplementsChannel
<1>1. Init => Channel!ChannelInit
    BY DEF Init, Channel!ChannelInit, phaseOf
<1> QED BY <1>1, ChannelStep, Invariance, PTL
        DEF Spec, ImplementsChannel, Channel!ChannelSpec
(***************************************************************************)
(* ShutDown.                                                               *)
(***************************************************************************)

\* A subscription that is not started has not moved, and one that has been
\* told to quit was told by the updater, the zone list first.
QuitOrder ==
    /\ \A s \in Subs : ~Started(s) => loop[s] = "spawned"
    /\ \A s \in Subs :
          quit[s] \/ loop[s] \in {"draining", "stopped"} =>
              updater = "returned" \/ (updater = "quitting" /\ s = zoneList)

\* Wait is passed at once, or waited for with the zone list started.
WaitInv ==
    /\ caller \in {"running", "closed"} => ~covered
    /\ caller = "waiting" => covered
    /\ covered => updater # "spawned"

\* The inductive invariant of the data handler's shutdown.
ShutInv ==
    /\ IInv /\ ShutTypeOK
    /\ WaitGroupCounts /\ QuitOrder /\ WaitInv /\ ReturnMeansStopped

\* A step of the data handler is a step of its subscriptions, or none.
LEMMA ShutStep == [ShutNext]_allVars => [Next]_vars
<1> SUFFICES ASSUME [ShutNext]_allVars PROVE [Next]_vars
  OBVIOUS
<1>1. CASE UNCHANGED allVars
  BY <1>1 DEF allVars
<1>2. CASE StartZoneList \/ StartZoneKeys \/ CloseQuit \/ CallWait \/ WaitReturns
  BY <1>2 DEF StartZoneList, StartZoneKeys, CloseQuit, CallWait, WaitReturns
<1>3. CASE QuitZoneList \/ QuitZoneKeys
  <2>1. zoneList \in Subs /\ zoneKeys \in Subs
    BY SubsAssumption
  <2> QED BY <1>3, <2>1 DEF QuitZoneList, QuitZoneKeys, Next
<1>4. CASE \E s \in Subs : SubscriptionStep(s) \/ DrainAndDone(s)
  BY <1>4 DEF SubscriptionStep, DrainAndDone, Next, LoopStep
<1> QED BY <1>1, <1>2, <1>3, <1>4 DEF ShutNext

\* The invariant holds when NewDataHandler spawns the updater.
LEMMA ShutInvInit == ShutInit => ShutInv
<1> SUFFICES ASSUME ShutInit PROVE ShutInv
  OBVIOUS
<1>1. IInv
  BY IInvInit DEF ShutInit
<1>2. loop = [s \in Subs |-> "spawned"] /\ quit = [s \in Subs |-> FALSE]
  BY DEF ShutInit, Init
<1>3. ShutTypeOK
  <2>1. TypeOK /\ quitWG \in 0..2
    BY <1>1 DEF ShutInit, IInv
  <2> QED BY <2>1 DEF ShutInit, ShutTypeOK
<1>4. WaitGroupCounts
  BY SubsAssumption DEF ShutInit, WaitGroupCounts, Started
<1>5. QuitOrder /\ WaitInv /\ ReturnMeansStopped
  BY <1>2 DEF ShutInit, QuitOrder, WaitInv, ReturnMeansStopped
<1> QED BY <1>1, <1>3, <1>4, <1>5 DEF ShutInv

\* The updater starts its subscriptions.
LEMMA StartPreserves ==
    ASSUME ShutInv, IInv', StartZoneList \/ StartZoneKeys
    PROVE  ShutInv'
<1> USE SubsAssumption DEF ShutInv
<1>1. UNCHANGED <<loop, quit, caller, covered>> /\ TypeOK'
  BY DEF StartZoneList, StartZoneKeys, vars, IInv
<1>2. WaitGroupCounts' /\ ShutTypeOK'
  BY <1>1 DEF StartZoneList, StartZoneKeys, WaitGroupCounts, Started, QuitOrder, ShutTypeOK
<1>3. QuitOrder'
  BY <1>1 DEF StartZoneList, StartZoneKeys, QuitOrder, Started
<1>4. WaitInv' /\ ReturnMeansStopped'
  BY <1>1 DEF StartZoneList, StartZoneKeys, WaitInv, ReturnMeansStopped
<1> QED BY <1>2, <1>3, <1>4

\* The updater tells its subscriptions to quit.
LEMMA QuitPreserves ==
    ASSUME ShutInv, IInv', QuitZoneList \/ QuitZoneKeys
    PROVE  ShutInv'
<1> USE SubsAssumption DEF ShutInv
<1>1. UNCHANGED <<loop, quitWG, caller, covered>> /\ TypeOK'
  BY DEF QuitZoneList, QuitZoneKeys, RequestQuit, IInv
<1>2. WaitGroupCounts' /\ ShutTypeOK'
  BY <1>1 DEF QuitZoneList, QuitZoneKeys, WaitGroupCounts, Started, ShutTypeOK
<1>3. QuitOrder'
  <2>1. \/ updater' = "quitting" /\ quit' = [quit EXCEPT ![zoneList] = TRUE]
        \/ updater' = "returned"
    BY DEF QuitZoneList, QuitZoneKeys, RequestQuit
  <2>2. updater \in {"select", "quitting"}
    BY DEF QuitZoneList, QuitZoneKeys
  <2>3. CASE updater' = "returned"
    <3>1. \A s \in Subs : Started(s)'
      BY <2>3 DEF Started
    <3> QED BY <2>3, <3>1 DEF QuitOrder
  <2>4. CASE updater' = "quitting" /\ quit' = [quit EXCEPT ![zoneList] = TRUE]
    <3>1. updater = "select"
      BY <2>4 DEF QuitZoneList, QuitZoneKeys
    <3>2. \A s \in Subs : ~quit[s] /\ loop[s] \notin {"draining", "stopped"}
      BY <3>1 DEF QuitOrder
    <3>3. ~quit'[zoneKeys]
      BY <2>4, <3>2 DEF IInv, TypeOK
    <3> QED BY <1>1, <2>4, <3>2, <3>3 DEF QuitOrder, Started
  <2> QED BY <2>1, <2>3, <2>4
<1>4. WaitInv' /\ ReturnMeansStopped'
  BY <1>1 DEF QuitZoneList, QuitZoneKeys, WaitInv, ReturnMeansStopped
<1> QED BY <1>2, <1>3, <1>4

\* The caller of ShutDown.  Wait returns with the counter at zero: the zone
\* list, which was started, has stopped, so that the updater had started both
\* and told the other one too.
LEMMA CallerPreserves ==
    ASSUME ShutInv, IInv', CloseQuit \/ CallWait \/ WaitReturns
    PROVE  ShutInv'
<1> USE SubsAssumption DEF ShutInv
<1>1. UNCHANGED <<loop, quit, updater, quitWG>> /\ TypeOK'
  BY DEF CloseQuit, CallWait, WaitReturns, vars, IInv
<1>2. \/ caller' = "closed" /\ covered' = covered /\ caller = "running"
      \/ caller' = "returned" /\ covered' = FALSE
      \/ caller' = "waiting" /\ covered' = TRUE /\ quitWG > 0
      \/ WaitReturns
  <2>1. CASE CallWait
    <3>1. CASE quitWG = 0
      <4>1. (quitWG > 0) = FALSE
        BY <3>1
      <4> QED BY <2>1, <3>1, <4>1 DEF CallWait
    <3>2. CASE quitWG # 0
      <4>1. (quitWG > 0) = TRUE
        BY <3>2 DEF ShutTypeOK
      <4> QED BY <2>1, <3>2, <4>1 DEF CallWait
    <3> QED BY <3>1, <3>2
  <2> QED BY <2>1 DEF CloseQuit
<1>3. WaitGroupCounts' /\ QuitOrder'
  BY <1>1 DEF WaitGroupCounts, Started, QuitOrder
<1>4. ShutTypeOK'
  BY <1>1, <1>2 DEF ShutTypeOK, WaitReturns
<1>5. WaitInv'
  <2>1. quitWG > 0 => updater # "spawned"
    BY DEF WaitGroupCounts, Started
  <2> QED BY <1>1, <1>2, <2>1 DEF WaitInv, WaitReturns
<1>6. ReturnMeansStopped'
  <2>1. CASE CloseQuit \/ CallWait
    BY <1>1, <1>2, <2>1 DEF CloseQuit, CallWait, WaitReturns, ReturnMeansStopped
  <2>2. CASE WaitReturns
    <3>1. quitWG = 0 /\ updater # "spawned"
      BY <2>2 DEF WaitReturns, WaitInv
    <3>2. Started(zoneList)
      BY <3>1 DEF Started, ShutTypeOK
    <3>3. loop[zoneList] = "stopped"
      BY <3>1, <3>2 DEF WaitGroupCounts
    <3>4. Started(zoneKeys)
      BY <3>3 DEF QuitOrder, Started
    <3>5. loop[zoneKeys] = "stopped"
      BY <3>1, <3>4 DEF WaitGroupCounts
    <3> QED BY <1>1, <3>3, <3>5 DEF ReturnMeansStopped
  <2> QED BY <2>1, <2>2
<1> QED BY <1>3, <1>4, <1>5, <1>6

\* A step of a running subscription.
LEMMA SubscriptionPreserves ==
    ASSUME ShutInv, IInv', NEW s \in Subs, SubscriptionStep(s)
    PROVE  ShutInv'
<1> USE DEF ShutInv
<1>1. UNCHANGED <<updater, quitWG, caller, covered>> /\ TypeOK' /\ TypeOK /\ Started(s)
  BY DEF SubscriptionStep, shutVars, IInv
<1>2. /\ \A t \in Subs \ {s} : loop'[t] = loop[t] /\ quit'[t] = quit[t]
      /\ (loop[s] # "stopped" /\ loop'[s] # "stopped") \/ loop'[s] = loop[s]
      /\ quit'[s] => quit[s]
      /\ loop'[s] = "draining" => quit[s] \/ loop[s] = "draining"
  <2>1. CASE StartConnected(s) \/ StartUnconnected(s) \/ Tick(s) \/ HandleDone(s)
    BY <1>1, <2>1 DEF StartConnected, StartUnconnected, Tick, HandleDone, TypeOK
  <2>2. CASE HandleQuit(s)
    BY <1>1, <2>2 DEF HandleQuit, TypeOK
  <2>3. CASE ReceiverStep(s) \/ ServerStep(s)
    BY <2>3 DEF ReceiverStep, ServerStep, OnStart, OnMessage, ReceiveError, Finish,
       ReceivePUnsubscribe, ServerSubscribe, ServerNotify, ServerUnsubscribe, Disconnect
  <2> QED BY <2>1, <2>2, <2>3 DEF SubscriptionStep
<1>3. \A t \in Subs : Started(t)' <=> Started(t)
  BY <1>1 DEF Started
<1>4. WaitGroupCounts'
  BY <1>1, <1>2, <1>3, SubsAssumption DEF WaitGroupCounts
<1>5. QuitOrder'
  BY <1>1, <1>2, <1>3 DEF QuitOrder
<1>6. WaitInv' /\ ReturnMeansStopped'
  BY <1>1, <1>2 DEF WaitInv, ReturnMeansStopped
<1> QED BY <1>1, <1>4, <1>5, <1>6 DEF ShutTypeOK

\* A subscription receives its last result and calls Done.
LEMMA DrainPreserves ==
    ASSUME ShutInv, IInv', NEW s \in Subs, DrainAndDone(s)
    PROVE  ShutInv'
<1> USE DEF ShutInv
<1>1. /\ UNCHANGED <<updater, caller, covered, quit>> /\ TypeOK' /\ TypeOK
      /\ loop[s] = "draining" /\ loop' = [loop EXCEPT ![s] = "stopped"]
      /\ quitWG' = quitWG - 1
  BY DEF DrainAndDone, Drain, IInv
<1>2. Started(s)
  BY <1>1 DEF QuitOrder
<1>3. \A t \in Subs : Started(t)' <=> Started(t)
  BY <1>1 DEF Started
<1>4. WaitGroupCounts' /\ quitWG' \in 0..2
  BY <1>1, <1>2, <1>3, SubsAssumption DEF WaitGroupCounts, ShutTypeOK, TypeOK
<1>5. QuitOrder' /\ WaitInv' /\ ReturnMeansStopped'
  BY <1>1, <1>2, <1>3 DEF QuitOrder, WaitInv, ReturnMeansStopped, TypeOK
<1> QED BY <1>1, <1>4, <1>5 DEF ShutTypeOK

\* No step of the data handler leaves the invariant.
LEMMA ShutInvNext == ShutInv /\ [ShutNext]_allVars => ShutInv'
<1> SUFFICES ASSUME ShutInv, [ShutNext]_allVars PROVE ShutInv'
  OBVIOUS
<1>1. IInv'
  BY ShutStep, IInvStep DEF ShutInv
<1>2. CASE StartZoneList \/ StartZoneKeys
  BY <1>1, <1>2, StartPreserves
<1>3. CASE QuitZoneList \/ QuitZoneKeys
  BY <1>1, <1>3, QuitPreserves
<1>4. CASE CloseQuit \/ CallWait \/ WaitReturns
  BY <1>1, <1>4, CallerPreserves
<1>5. CASE \E s \in Subs : SubscriptionStep(s) \/ DrainAndDone(s)
  BY <1>1, <1>5, SubscriptionPreserves, DrainPreserves
<1>6. CASE UNCHANGED allVars
  BY <1>1, <1>6 DEF allVars, vars, shutVars, ShutInv, ShutTypeOK, IInv, WaitGroupCounts,
     QuitOrder, WaitInv, ReturnMeansStopped, Started
<1> QED BY <1>2, <1>3, <1>4, <1>5, <1>6 DEF ShutNext

\* The inductive invariant of the data handler's shutdown holds for ever.
THEOREM ShutInvariance == ShutSpec => []ShutInv
<1>1. ShutInit /\ [][ShutNext]_allVars => []ShutInv
  BY ShutInvInit, ShutInvNext, PTL
<1> QED BY <1>1, PTL DEF ShutSpec

\* ShutDown returns only with both subscriptions stopped, once the updater had
\* registered one of them when Wait was called.
THEOREM ShutDownStops == ShutSpec => []ReturnMeansStopped
<1>1. ShutInv => ReturnMeansStopped
  BY DEF ShutInv
<1> QED BY <1>1, ShutInvariance, PTL

\* quitWG counts the running subscriptions, and Done never makes it negative.
THEOREM WaitGroupIsExact == ShutSpec => [](WaitGroupCounts /\ quitWG \in 0..2)
<1>1. ShutInv => WaitGroupCounts /\ quitWG \in 0..2
  BY DEF ShutInv, ShutTypeOK
<1> QED BY <1>1, ShutInvariance, PTL

\* The subscriptions of a data handler that is started and shut down keep
\* their receivers safe, and their callbacks see notification channels.
THEOREM ShutKeepsSubscriptions ==
    ShutSpec => []ReceiverIsSafe /\ []PscTellsReceiver /\ ImplementsChannel
<1>1. ShutInv => IInv /\ ReceiverIsSafe /\ PscTellsReceiver
  BY DEF ShutInv, IInv, ConnInv, LoopInv, ReceiverIsSafe, PscTellsReceiver
<1>2. ShutInit => Channel!ChannelInit
  BY DEF ShutInit, Init, Channel!ChannelInit, phaseOf
<1>3. IInv /\ [ShutNext]_allVars => [Channel!ChannelNext]_(Channel!channelVars)
  BY ShutStep, ChannelStep
<1> QED BY <1>1, <1>2, <1>3, ShutInvariance, PTL
        DEF ShutSpec, ImplementsChannel, Channel!ChannelSpec
=============================================================================
