--------------------------- MODULE SubscribeEvent ---------------------------
(***************************************************************************)
(* hiredis.SubscribeEvent: for every subscription a loop goroutine (ticker,*)
(* quit and done in one select) and, while there is a connection, a        *)
(* receiver goroutine (the closure Subscribe).  They share the variable    *)
(* psc without a lock and talk over the channel done, of capacity 1.       *)
(*                                                                         *)
(* The steps that change nothing are left out: a failing Init on a tick    *)
(* (psc stays nil), Ping, and the receiver reading a pong or the           *)
(* confirmation of its own PSUBSCRIBE.  A receive that times out after two *)
(* minutes is a connection failure like any other.                         *)
(***************************************************************************)
EXTENDS Naturals, Sequences

CONSTANTS Subs,        \* the calls of SubscribeEvent in one process
          Keys,        \* the keys a notification can name
          MaxPending   \* bound: unread notifications of one connection

ASSUME MaxPendingAssumption == MaxPending \in Nat

VARIABLES loop,    \* where the loop goroutine is
          psc,     \* psc # nil
          rcv,     \* where the receiver goroutine is; none if there is none
          done,    \* the contents of channel done
          quit,    \* a WaitGroup is waiting in channel quit
          link,    \* the connection psc stands for, as the server sees it
          inbox,   \* notifications on that connection, not yet received
          unsub    \* PUNSUBSCRIBE has been written to it

vars == <<loop, psc, rcv, done, quit, link, inbox, unsub>>

DoneCap == 1

\* The type invariant: what the goroutines and channels of one call of
\* SubscribeEvent can hold.
TypeOK ==
    /\ loop \in [Subs -> {"spawned", "select", "draining", "stopped"}]
    /\ psc \in [Subs -> BOOLEAN]
    /\ rcv \in [Subs -> {"none", "starting", "receiving"}]
    /\ done \in [Subs -> Seq({"error", "nil"})]
    /\ quit \in [Subs -> BOOLEAN]
    /\ link \in [Subs -> {"none", "sent", "registered", "unsubscribed", "broken"}]
    /\ inbox \in [Subs -> Seq(Keys)]
    /\ unsub \in [Subs -> BOOLEAN]

Init ==
    /\ loop = [s \in Subs |-> "spawned"]
    /\ psc = [s \in Subs |-> FALSE]
    /\ rcv = [s \in Subs |-> "none"]
    /\ done = [s \in Subs |-> <<>>]
    /\ quit = [s \in Subs |-> FALSE]
    /\ link = [s \in Subs |-> "none"]
    /\ inbox = [s \in Subs |-> <<>>]
    /\ unsub = [s \in Subs |-> FALSE]

(***************************************************************************)
(* The loop goroutine.                                                     *)
(***************************************************************************)

\* Init() succeeds and Subscribe is started: PSUBSCRIBE is written on a fresh
\* connection, psc is set, and the receiver runs.
InitAndSubscribe(s) ==
    /\ psc' = [psc EXCEPT ![s] = TRUE]
    /\ rcv' = [rcv EXCEPT ![s] = "starting"]
    /\ link' = [link EXCEPT ![s] = "sent"]
    /\ inbox' = [inbox EXCEPT ![s] = <<>>]
    /\ unsub' = [unsub EXCEPT ![s] = FALSE]

StartConnected(s) ==
    /\ loop[s] = "spawned"
    /\ InitAndSubscribe(s)
    /\ loop' = [loop EXCEPT ![s] = "select"]
    /\ UNCHANGED <<done, quit>>

StartUnconnected(s) ==
    /\ loop[s] = "spawned"
    /\ loop' = [loop EXCEPT ![s] = "select"]
    /\ UNCHANGED <<psc, rcv, done, quit, link, inbox, unsub>>

\* WRONG: a tick that does not look at psc before it connects.
TickAlways(s) ==
    /\ loop[s] = "select"
    /\ InitAndSubscribe(s)
    /\ UNCHANGED <<loop, done, quit>>

\* WRONG: a tick that never reconnects.
TickNever(s) ==
    /\ loop[s] = "select"
    /\ UNCHANGED vars

Tick(s) ==
    /\ loop[s] = "select"
    /\ ~psc[s]
    /\ InitAndSubscribe(s)
    /\ UNCHANGED <<loop, done, quit>>

\* WRONG: a failed connection is logged and psc is kept.
HandleDoneKeepingPsc(s) ==
    /\ loop[s] = "select"
    /\ done[s] # <<>>
    /\ done' = [done EXCEPT ![s] = Tail(@)]
    /\ UNCHANGED <<loop, psc, rcv, quit, link, inbox, unsub>>

HandleDone(s) ==
    /\ loop[s] = "select"
    /\ done[s] # <<>>
    /\ done' = [done EXCEPT ![s] = Tail(@)]
    /\ psc' = [psc EXCEPT ![s] = IF Head(done[s]) = "error" THEN FALSE ELSE @]
    /\ UNCHANGED <<loop, rcv, quit, link, inbox, unsub>>

HandleQuit(s) ==
    /\ loop[s] = "select"
    /\ quit[s]
    /\ quit' = [quit EXCEPT ![s] = FALSE]
    /\ unsub' = [unsub EXCEPT ![s] = psc[s]]
    /\ loop' = [loop EXCEPT ![s] = "draining"]
    /\ UNCHANGED <<psc, rcv, done, link, inbox>>

Drain(s) ==
    /\ loop[s] = "draining"
    /\ done[s] # <<>>
    /\ done' = [done EXCEPT ![s] = Tail(@)]
    /\ loop' = [loop EXCEPT ![s] = "stopped"]
    /\ UNCHANGED <<psc, rcv, quit, link, inbox, unsub>>

(***************************************************************************)
(* The receiver goroutine.                                                 *)
(***************************************************************************)

OnStart(s) ==
    /\ rcv[s] = "starting"
    /\ rcv' = [rcv EXCEPT ![s] = "receiving"]
    /\ UNCHANGED <<loop, psc, done, quit, link, inbox, unsub>>

OnMessage(s) ==
    /\ rcv[s] = "receiving"
    /\ inbox[s] # <<>>
    /\ inbox' = [inbox EXCEPT ![s] = Tail(@)]
    /\ UNCHANGED <<loop, psc, rcv, done, quit, link, unsub>>

\* The result goes to done, which blocks when done is full, and the deferred
\* Close runs.
Finish(s, result) ==
    /\ rcv[s] = "receiving"
    /\ inbox[s] = <<>>
    /\ Len(done[s]) < DoneCap
    /\ done' = [done EXCEPT ![s] = Append(@, result)]
    /\ rcv' = [rcv EXCEPT ![s] = "none"]
    /\ link' = [link EXCEPT ![s] = "none"]
    /\ UNCHANGED <<loop, psc, quit, inbox, unsub>>

\* WRONG: a failed connection is reported like an unsubscription.
ReceiveErrorAsNil(s) == link[s] = "broken" /\ Finish(s, "nil")

\* WRONG: the receiver closes done, which the loop takes for no result.
ReceiveErrorCloses(s) == link[s] = "broken" /\ Finish(s, "closed")

ReceiveError(s) == link[s] = "broken" /\ Finish(s, "error")

ReceivePUnsubscribe(s) == link[s] = "unsubscribed" /\ Finish(s, "nil")

(***************************************************************************)
(* The Redis server, the network, and the owner of channel quit.           *)
(***************************************************************************)

ServerSubscribe(s) ==
    /\ link[s] = "sent"
    /\ link' = [link EXCEPT ![s] = "registered"]
    /\ UNCHANGED <<loop, psc, rcv, done, quit, inbox, unsub>>

ServerNotify(s, k) ==
    /\ link[s] = "registered"
    /\ Len(inbox[s]) < MaxPending
    /\ inbox' = [inbox EXCEPT ![s] = Append(@, k)]
    /\ UNCHANGED <<loop, psc, rcv, done, quit, link, unsub>>

ServerUnsubscribe(s) ==
    /\ unsub[s]
    /\ link[s] = "registered"
    /\ link' = [link EXCEPT ![s] = "unsubscribed"]
    /\ UNCHANGED <<loop, psc, rcv, done, quit, inbox, unsub>>

\* The connection breaks; an unread suffix of what the server sent is lost.
Disconnect(s) ==
    /\ link[s] \in {"sent", "registered", "unsubscribed"}
    /\ link' = [link EXCEPT ![s] = "broken"]
    /\ \E n \in 0..Len(inbox[s]) :
          inbox' = [inbox EXCEPT ![s] = SubSeq(@, 1, n)]
    /\ UNCHANGED <<loop, psc, rcv, done, quit, unsub>>

\* quit has capacity 1 and is sent to once.
RequestQuit(s) ==
    /\ loop[s] \in {"spawned", "select"}
    /\ ~quit[s]
    /\ quit' = [quit EXCEPT ![s] = TRUE]
    /\ UNCHANGED <<loop, psc, rcv, done, link, inbox, unsub>>

LoopStep(s) ==
    \/ StartConnected(s)
    \/ StartUnconnected(s)
    \/ Tick(s)
    \/ HandleDone(s)
    \/ HandleQuit(s)
    \/ Drain(s)

ReceiverStep(s) ==
    \/ OnStart(s)
    \/ OnMessage(s)
    \/ ReceiveError(s)
    \/ ReceivePUnsubscribe(s)

ServerStep(s) ==
    \/ ServerSubscribe(s)
    \/ \E k \in Keys : ServerNotify(s, k)
    \/ ServerUnsubscribe(s)
    \/ Disconnect(s)

Next ==
    \E s \in Subs :
        \/ LoopStep(s)
        \/ ReceiverStep(s)
        \/ ServerStep(s)
        \/ RequestQuit(s)

\* Goroutines are scheduled; a server that is connected reads its input; a
\* tick comes every minute and one of them finds Redis reachable.
Fairness ==
    \A s \in Subs :
        /\ WF_vars(StartConnected(s) \/ StartUnconnected(s))
        /\ WF_vars(Tick(s))
        /\ WF_vars(HandleDone(s))
        /\ WF_vars(HandleQuit(s))
        /\ WF_vars(Drain(s))
        /\ WF_vars(ReceiverStep(s))
        /\ WF_vars(ServerSubscribe(s))
        /\ WF_vars(ServerUnsubscribe(s))

Spec == Init /\ [][Next]_vars /\ Fairness

(***************************************************************************)
(* Properties.                                                             *)
(***************************************************************************)

\* The receiver dereferences psc on every receive, and the loop sets psc to
\* nil without a lock: whenever a receiver exists psc is set, its connection
\* has not been closed, and it can put its result into done without blocking.
ReceiverIsSafe ==
    \A s \in Subs :
        rcv[s] # "none" => psc[s] /\ link[s] # "none" /\ done[s] = <<>>

\* psc tells the loop exactly whether a receiver is alive or has left its
\* result in done; a tick therefore never starts a second receiver and never
\* leaves the subscription without one.
PscTellsReceiver ==
    \A s \in Subs :
        loop[s] \in {"select", "draining"} =>
            (psc[s] <=> (rcv[s] # "none" \/ done[s] # <<>>))

\* No step starts a receiver while another one of the subscription runs.
OneReceiver ==
    [][\A s \in Subs :
          rcv'[s] = "starting" /\ rcv[s] # "starting" => rcv[s] = "none"]_vars

\* A receiver ends with a nil result only because the loop asked for it, so
\* a loop still in its select never mistakes a lost connection for a live one.
NilOnlyWhenDraining ==
    \A s \in Subs :
        (\E i \in 1..Len(done[s]) : done[s][i] = "nil") => loop[s] = "draining"

\* What TestSubscribeEvent takes for granted: a loop that is told to quit
\* calls Done on the WaitGroup it was given.  False when psc is nil at that
\* moment: the loop waits in <-done and no receiver is left to write to it.
QuitAlwaysStops ==
    \A s \in Subs : (loop[s] = "draining") ~> (loop[s] = "stopped")

\* After a connection has failed, onStart is called on a new one, unless the
\* loop is told to quit.
Reconnects ==
    \A s \in Subs :
        link[s] = "broken" ~> (rcv[s] = "starting" \/ loop[s] # "select")

(***************************************************************************)
(* The callbacks of a subscription see a NotificationChannel.              *)
(***************************************************************************)
phaseOf(s) ==
    CASE link[s] = "none" -> "down"
      [] link[s] = "sent" -> "requested"
      [] link[s] = "registered" -> "up"
      [] OTHER -> "closing"

Channel == INSTANCE NotificationChannel WITH
    phase <- [s \in Subs |-> phaseOf(s)],
    starting <- [s \in Subs |-> rcv[s] = "starting"],
    pending <- inbox

\* Whatever the loop, the ticker and the quit channel do, the callbacks see
\* connections one after the other, one onStart each, and every notification
\* of a live connection once and in order.
ImplementsChannel == Channel!ChannelSpec
=============================================================================
