---------------------------- MODULE RedisPubSub ----------------------------
(* The fan-out of packages/infrastructure/redis/src/pubsub: every subscriber   *)
(* of a process adds a listener to one connection, and the channels of that    *)
(* connection are shared by all of them.  Publishing is fire and forget.       *)
EXTENDS Naturals

CONSTANTS
    Subscriber,     \* calls of subscribe in one process
    Channel,
    MaxPublished,   \* bound: payloads published
    MaxFaults       \* bound: times the connection drops

RedisPubSubAssumption ==
    /\ MaxPublished \in Nat
    /\ MaxFaults \in Nat

VARIABLES
    channelOf,    \* subscriber -> the channel it asks for
    phase,        \* subscriber -> "idle" | "waiting" | "subscribing" | "subscribed" | "unsubscribing" | "done" | "failed"
    listeners,    \* listeners on the connection's 'message' event
    ready,        \* the connection can take commands
    channels,     \* channels the connection is subscribed to, kept by ioredis across reconnections
    messages,     \* channel -> payloads Redis has sent and the process has not read
    published,    \* payloads published
    faults,       \* drops left
    strays        \* history: <<subscriber, its phase>> of calls to a handler that is not subscribed

vars == <<channelOf, phase, listeners, ready, channels, messages, published, faults, strays>>

Init ==
    /\ channelOf \in [Subscriber -> Channel]
    /\ phase = [s \in Subscriber |-> "idle"]
    /\ listeners = {}
    /\ ready = TRUE
    /\ channels = {}
    /\ messages = [k \in Channel |-> 0]
    /\ published = 0
    /\ faults = MaxFaults
    /\ strays = {}

Moves(s, from, to) ==
    /\ phase[s] = from
    /\ phase' = [phase EXCEPT ![s] = to]

----------------------------------------------------------------------------
(* subscribe adds its listener before anything can fail. *)
Subscribe(s) ==
    /\ Moves(s, "idle", "waiting")
    /\ listeners' = listeners \union {s}
    /\ UNCHANGED <<channelOf, ready, channels, messages, published, faults, strays>>

(* RedisReady.wait resolves, or rejects with the connection's next error. *)
Ready(s) ==
    /\ ready
    /\ Moves(s, "waiting", "subscribing")
    /\ UNCHANGED <<channelOf, listeners, ready, channels, messages, published, faults, strays>>

NotReady(s) ==
    /\ ~ready
    /\ Moves(s, "waiting", "failed")
    /\ UNCHANGED <<channelOf, listeners, ready, channels, messages, published, faults, strays>>

(* SUBSCRIBE is answered; without a connection it rejects (no offline queue). *)
Subscribed(s) ==
    /\ ready
    /\ Moves(s, "subscribing", "subscribed")
    /\ channels' = channels \union {channelOf[s]}
    /\ UNCHANGED <<channelOf, listeners, ready, messages, published, faults, strays>>

FailedButQueued(s) ==
    /\ ~ready
    /\ Moves(s, "subscribing", "failed")
    /\ channels' = channels \union {channelOf[s]}
    /\ UNCHANGED <<channelOf, listeners, ready, messages, published, faults, strays>>

SubscribeFailed(s) ==
    /\ ~ready
    /\ Moves(s, "subscribing", "failed")
    /\ UNCHANGED <<channelOf, listeners, ready, channels, messages, published, faults, strays>>

(* The returned function removes the listener, then sends UNSUBSCRIBE for the  *)
(* whole connection.                                                           *)
Unsubscribe(s) ==
    /\ Moves(s, "subscribed", "unsubscribing")
    /\ listeners' = listeners \ {s}
    /\ UNCHANGED <<channelOf, ready, channels, messages, published, faults, strays>>

Unsubscribed(s) ==
    /\ Moves(s, "unsubscribing", "done")
    /\ channels' = IF ready THEN channels \ {channelOf[s]} ELSE channels
    /\ UNCHANGED <<channelOf, listeners, ready, messages, published, faults, strays>>

(* PUBLISH: Redis sends the payload to the connection if it has the channel. *)
Publish(k) ==
    /\ published < MaxPublished
    /\ published' = published + 1
    /\ messages' = IF ready /\ k \in channels THEN [messages EXCEPT ![k] = @ + 1] ELSE messages
    /\ UNCHANGED <<channelOf, phase, listeners, ready, channels, faults, strays>>

(* A message arrives: every listener of its channel runs its handler. *)
Deliver(k) ==
    /\ messages[k] > 0
    /\ messages' = [messages EXCEPT ![k] = @ - 1]
    /\ strays' = strays \union
        {<<s, phase[s]>> : s \in {t \in listeners : channelOf[t] = k /\ phase[t] # "subscribed"}}
    /\ UNCHANGED <<channelOf, phase, listeners, ready, channels, published, faults>>

----------------------------------------------------------------------------
(* The connection drops with the messages under way; ioredis reconnects and    *)
(* subscribes again to the channels it knows.                                  *)
Drop ==
    /\ ready
    /\ faults > 0
    /\ faults' = faults - 1
    /\ ready' = FALSE
    /\ messages' = [k \in Channel |-> 0]
    /\ UNCHANGED <<channelOf, phase, listeners, channels, published, strays>>

Reconnect ==
    /\ ~ready
    /\ ready' = TRUE
    /\ UNCHANGED <<channelOf, phase, listeners, channels, messages, published, faults, strays>>

Next ==
    \/ \E s \in Subscriber :
        \/ Subscribe(s) \/ Ready(s) \/ NotReady(s) \/ Subscribed(s) \/ SubscribeFailed(s)
        \/ Unsubscribe(s) \/ Unsubscribed(s)
    \/ \E k \in Channel : Publish(k) \/ Deliver(k)
    \/ Drop
    \/ Reconnect

Spec == Init /\ [][Next]_vars

----------------------------------------------------------------------------
TypeOK ==
    /\ channelOf \in [Subscriber -> Channel]
    /\ phase \in [Subscriber -> {"idle", "waiting", "subscribing", "subscribed", "unsubscribing", "done", "failed"}]
    /\ listeners = {s \in Subscriber : phase[s] \in {"waiting", "subscribing", "subscribed", "failed"}}
    /\ ready \in BOOLEAN
    /\ channels \subseteq Channel
    /\ messages \in [Channel -> 0 .. MaxPublished]
    /\ published \in 0 .. MaxPublished

Peers(s) == {t \in Subscriber \ {s} : channelOf[t] = channelOf[s]}

(* A subscriber hears its channel, also after the connection came back, unless  *)
(* another subscriber of the same channel has unsubscribed.                     *)
DeafNeedsPeerLeaving ==
    \A s \in Subscriber :
        phase[s] = "subscribed" /\ channelOf[s] \notin channels => \E t \in Peers(s) : phase[t] = "done"

(* A handler is never called once its owner has begun to unsubscribe. *)
SilentAfterUnsubscribe == \A stray \in strays : stray[2] \notin {"unsubscribing", "done"}

(* The listener of a failed subscribe stays on the connection; its handler is    *)
(* called only when another subscriber has the channel.                          *)
LeakedHandlerNeedsPeer ==
    \A stray \in strays : stray[2] = "failed" =>
        \E t \in Peers(stray[1]) : phase[t] \in {"subscribed", "unsubscribing", "done"}

(* "Lightweight fan-out": what is published on a channel reaches the handler of  *)
(* every subscriber of it while the connection is up.                            *)
EverySubscriberHears ==
    \A s \in Subscriber : phase[s] = "subscribed" /\ ready => channelOf[s] \in channels
=============================================================================
