------------------------- MODULE NotificationChannel -------------------------
(***************************************************************************)
(* What hiredis.SubscribeEvent promises to the two callbacks it is given,  *)
(* without the goroutines, channels and timers it is built from.           *)
(*                                                                         *)
(* A subscription is a sequence of connections, never two at a time.  On   *)
(* each connection onStart is called exactly once, before any onMessage.   *)
(* A keyspace notification published while the server has the subscription *)
(* registered is handed to onMessage once and in order, unless the         *)
(* connection fails first; one published at any other time is lost.  The   *)
(* promise says nothing about the order of onStart and of the registration *)
(* at the server: PSUBSCRIBE is only written to the socket when onStart    *)
(* runs, and the confirmation is not waited for.                           *)
(***************************************************************************)
EXTENDS Naturals, Sequences

CONSTANTS Subs,        \* the subscriptions of one process
          Keys,        \* the Redis keys a notification can name
          MaxPending   \* bound: undelivered notifications of one connection

ASSUME MaxPendingAssumption == MaxPending \in Nat

VARIABLES phase,       \* the life of the current connection
          starting,    \* onStart has not been called on it yet
          pending      \* notifications sent to it and not handled yet

channelVars == <<phase, starting, pending>>

\* down: no connection.  requested: PSUBSCRIBE written.  up: registered at
\* the server.  closing: failed or unsubscribed; what was received before
\* can still be handled.
Phases == {"down", "requested", "up", "closing"}

ChannelTypeOK ==
    /\ phase \in [Subs -> Phases]
    /\ starting \in [Subs -> BOOLEAN]
    /\ pending \in [Subs -> Seq(Keys)]

ChannelInit ==
    /\ phase = [s \in Subs |-> "down"]
    /\ starting = [s \in Subs |-> FALSE]
    /\ pending = [s \in Subs |-> <<>>]

Connect(s) ==
    /\ phase[s] = "down"
    /\ phase' = [phase EXCEPT ![s] = "requested"]
    /\ starting' = [starting EXCEPT ![s] = TRUE]
    /\ pending' = [pending EXCEPT ![s] = <<>>]

Register(s) ==
    /\ phase[s] = "requested"
    /\ phase' = [phase EXCEPT ![s] = "up"]
    /\ UNCHANGED <<starting, pending>>

Notify(s, k) ==
    /\ phase[s] = "up"
    /\ Len(pending[s]) < MaxPending
    /\ pending' = [pending EXCEPT ![s] = Append(@, k)]
    /\ UNCHANGED <<phase, starting>>

\* The connection fails, or is given up by an unsubscription; bytes that
\* were not read yet may be lost with it.
Lose(s) ==
    /\ phase[s] # "down"
    /\ phase' = [phase EXCEPT ![s] = "closing"]
    /\ \E n \in 0..Len(pending[s]) :
          pending' = [pending EXCEPT ![s] = SubSeq(@, 1, n)]
    /\ UNCHANGED starting

OnStart(s) ==
    /\ phase[s] # "down"
    /\ starting[s]
    /\ starting' = [starting EXCEPT ![s] = FALSE]
    /\ UNCHANGED <<phase, pending>>

OnMessage(s) ==
    /\ phase[s] # "down"
    /\ ~starting[s]
    /\ pending[s] # <<>>
    /\ pending' = [pending EXCEPT ![s] = Tail(@)]
    /\ UNCHANGED <<phase, starting>>

Close(s) ==
    /\ phase[s] = "closing"
    /\ ~starting[s]
    /\ pending[s] = <<>>
    /\ phase' = [phase EXCEPT ![s] = "down"]
    /\ UNCHANGED <<starting, pending>>

ChannelNext ==
    \E s \in Subs :
        \/ Connect(s)
        \/ Register(s)
        \/ \E k \in Keys : Notify(s, k)
        \/ Lose(s)
        \/ OnStart(s)
        \/ OnMessage(s)
        \/ Close(s)

ChannelSpec == ChannelInit /\ [][ChannelNext]_channelVars
==============================================================================
