---------------------------- MODULE EventDeliveries ----------------------------
(***************************************************************************)
(* Events leave the harness: the bus hands each to every webhook sender    *)
(* that was configured, one after the other, in the thread that emits it;  *)
(* a sender posts it to its URLs, retrying what raises; a request for      *)
(* approval is put to the notification channels after its event.           *)
(*                                                                         *)
(* Senders are known by the order of their configuration.  A post that     *)
(* raises may have arrived: the answer was lost.  The other subscribers    *)
(* only record, and the bus goes on whatever they raise: they are left out.*)
(***************************************************************************)
EXTENDS Integers, Sequences, FiniteSets

CONSTANTS
  Threads,    \* that emit events
  UrlLists,   \* what webhooks may be configured with: sequences of URLs
  Channels,   \* of notifications
  MaxRetries, \* of a post
  MaxEvents,  \* bound: events
  MaxUrls     \* bound: URLs of all senders together

VARIABLES
  stage,      \* how far each thread has come with its event
  work,       \* what it has left to do for it, and has done
  events,     \* bus.events: the type of each
  senders,    \* the URLs of each sender that subscribed, oldest first
  deliveries, \* sender.deliveries, of each
  channels,   \* the registered channels, in their order
  notified,   \* manager.deliveries
  audience,   \* history: the senders to whom each event was to be handed
  arrived     \* history: which posts of which event arrived: sender and URL

busVars == <<events, audience>>
senderVars == <<senders, deliveries, arrived>>
channelVars == <<channels, notified>>
vars == <<stage, work, busVars, senderVars, channelVars>>

Types == {"approval:requested", "run:created"}
Webhooks == {"approval:requested"} \* of the types, those that are forwarded

Idle == [event |-> 0, left |-> <<>>, url |-> 1, attempt |-> 1, made |-> <<>>]

TypeOK ==
  /\ stage \in [Threads -> {"idle", "publish", "notify"}]
  /\ \A t \in Threads :
       /\ stage[t] = "idle" <=> work[t] = Idle
       /\ stage[t] # "idle" => work[t].event \in DOMAIN events
       /\ work[t].attempt \in 1 .. MaxRetries + 1
  /\ events \in Seq(Types)
  /\ DOMAIN deliveries = DOMAIN senders
  /\ \A s \in DOMAIN senders : \A d \in DOMAIN deliveries[s] :
       deliveries[s][d].url \in DOMAIN senders[s]
  /\ channels \in Seq(Channels)

Init ==
  /\ stage = [t \in Threads |-> "idle"] /\ work = [t \in Threads |-> Idle]
  /\ events = <<>> /\ audience = <<>>
  /\ senders = <<>> /\ deliveries = <<>> /\ arrived = {}
  /\ channels = <<>> /\ notified = <<>>

-----------------------------------------------------------------------------
(* The bus *)

Destinations == UNION {{s} \X DOMAIN senders[s] : s \in DOMAIN senders}

\* The senders of earlier calls keep their subscriptions.
ConfigureWebhooks(urls) ==
  /\ Cardinality(Destinations) + Len(urls) <= MaxUrls
  /\ senders' = Append(senders, urls) /\ deliveries' = Append(deliveries, <<>>)
  /\ UNCHANGED <<stage, work, busVars, arrived, channelVars>>

Subscribers(type) == IF type \in Webhooks THEN [s \in DOMAIN senders |-> s] ELSE <<>>

\* The subscribers are those of now.  A gate that creates a request emits it so.
Emit(t, type) ==
  /\ stage[t] = "idle" /\ Len(events) < MaxEvents
  /\ stage' = [stage EXCEPT ![t] = "publish"]
  /\ work' = [work EXCEPT ![t].event = Len(events) + 1, ![t].left = Subscribers(type)]
  /\ events' = Append(events, type)
  /\ audience' = Append(audience, Subscribers(type))
  /\ UNCHANGED <<senderVars, channelVars>>

-----------------------------------------------------------------------------
(* A sender *)

Delivery(w, success) == [event |-> w.event, url |-> w.url, success |-> success, attempts |-> w.attempt]

Sending(t) == stage[t] = "publish" /\ work[t].left # <<>>
Posting(t) == Sending(t) /\ work[t].url <= Len(senders[Head(work[t].left)])

\* One attempt; what raises is tried again, up to the last attempt.
SendToUrl(t, arrives, raises) ==
  /\ Posting(t)
  /\ ~raises => arrives
  /\ LET w == work[t] IN
     /\ arrived' = IF arrives THEN arrived \cup {<<w.event, Head(w.left), w.url>>} ELSE arrived
     /\ work' = [work EXCEPT ![t] =
          IF raises /\ w.attempt <= MaxRetries THEN [w EXCEPT !.attempt = @ + 1]
          ELSE [w EXCEPT !.url = @ + 1, !.attempt = 1, !.made = Append(@, Delivery(w, ~raises))]]
  /\ UNCHANGED <<stage, busVars, senders, deliveries, channelVars>>

\* The deliveries are listed when the last URL is done with.
EndSend(t) ==
  /\ Sending(t) /\ ~Posting(t)
  /\ deliveries' = [deliveries EXCEPT ![Head(work[t].left)] = @ \o work[t].made]
  /\ work' = [work EXCEPT ![t].left = Tail(@), ![t].url = 1, ![t].made = <<>>]
  /\ UNCHANGED <<stage, busVars, senders, arrived, channelVars>>

-----------------------------------------------------------------------------
(* Notifications *)

\* Register adds a channel, or replaces the one of its name, where it is.
Register(channel) ==
  /\ \A i \in DOMAIN channels : channels[i] # channel
  /\ channels' = Append(channels, channel)
  /\ UNCHANGED <<stage, work, busVars, senderVars, notified>>

Unregister(channel) ==
  /\ \E i \in DOMAIN channels :
       /\ channels[i] = channel
       /\ channels' = SubSeq(channels, 1, i - 1) \o SubSeq(channels, i + 1, Len(channels))
  /\ UNCHANGED <<stage, work, busVars, senderVars, notified>>

\* The event of a request was handed to all: the channels of now are told.  Other
\* events end here.
EndEmit(t) ==
  /\ stage[t] = "publish" /\ work[t].left = <<>>
  /\ IF events[work[t].event] = "approval:requested"
     THEN /\ stage' = [stage EXCEPT ![t] = "notify"]
          /\ work' = [work EXCEPT ![t].left = channels]
     ELSE /\ stage' = [stage EXCEPT ![t] = "idle"]
          /\ work' = [work EXCEPT ![t] = Idle]
  /\ UNCHANGED <<busVars, senderVars, channelVars>>

\* A channel that fails, or raises, is a delivery that did not succeed.
Notify(t, success) ==
  /\ stage[t] = "notify" /\ work[t].left # <<>>
  /\ work' = [work EXCEPT ![t].left = Tail(@),
                          ![t].made = Append(@, [channel |-> Head(work[t].left), success |-> success])]
  /\ UNCHANGED <<stage, busVars, senderVars, channelVars>>

EndNotify(t) ==
  /\ stage[t] = "notify" /\ work[t].left = <<>>
  /\ notified' = Append(notified, [event |-> work[t].event, made |-> work[t].made])
  /\ stage' = [stage EXCEPT ![t] = "idle"]
  /\ work' = [work EXCEPT ![t] = Idle]
  /\ UNCHANGED <<busVars, senderVars, channels>>

-----------------------------------------------------------------------------
Next ==
  \/ \E urls \in UrlLists : ConfigureWebhooks(urls)
  \/ \E channel \in Channels : Register(channel) \/ Unregister(channel)
  \/ \E t \in Threads :
       \/ \E type \in Types : Emit(t, type)
       \/ EndSend(t) \/ EndEmit(t) \/ EndNotify(t)
       \/ \E arrives, raises \in BOOLEAN : SendToUrl(t, arrives, raises)
       \/ \E success \in BOOLEAN : Notify(t, success)

Spec == Init /\ [][Next]_vars

-----------------------------------------------------------------------------
(* Properties *)

\* No thread has yet to hand this event to this sender.
HandedOver(e, s) ==
  \A t \in Threads :
    ~ /\ stage[t] = "publish" /\ work[t].event = e
      /\ \E i \in DOMAIN work[t].left : work[t].left[i] = s

\* Once an event was handed to a sender, whatever failed before, and whichever
\* threads emit and configure at once, the sender lists one delivery of it for each
\* of its URLs, none if it subscribed too late: a success arrived, a failure was
\* tried as often as it may be.  And a request for approval is never lost between
\* the bus and the channels: the thread that created it is at work, or they were told.
EventsAreDelivered ==
  \A e \in DOMAIN events :
    /\ \A s \in DOMAIN senders :
         LET mine == {d \in DOMAIN deliveries[s] : deliveries[s][d].event = e}
             to == \E i \in DOMAIN audience[e] : audience[e][i] = s
         IN HandedOver(e, s) =>
              /\ {deliveries[s][d].url : d \in mine} = IF to THEN DOMAIN senders[s] ELSE {}
              /\ Cardinality(mine) = IF to THEN Len(senders[s]) ELSE 0
              /\ \A d \in mine :
                   IF deliveries[s][d].success THEN <<e, s, deliveries[s][d].url>> \in arrived
                   ELSE deliveries[s][d].attempts = MaxRetries + 1
    /\ events[e] = "approval:requested" =>
         \/ \E t \in Threads : work[t].event = e
         \/ \E n \in DOMAIN notified : notified[n].event = e
=============================================================================
