--------------------------- MODULE ServicesHoldProofs ---------------------------
(***************************************************************************)
(* Theorems about the event bus with its senders and channels and about    *)
(* the cost tracker, and what all services share without a lock, for every *)
(* value of the constants.                                                 *)
(***************************************************************************)
EXTENDS SharedServicesProofs

-----------------------------------------------------------------------------
(* EventDeliveries *)

Posts == [event : Nat, url : Nat, success : BOOLEAN, attempts : Nat]
Notes == [channel : Channels, success : BOOLEAN]

EventTypes ==
  /\ stage \in [Processes -> {"idle", "publish", "notify"}]
  /\ DOMAIN work = Processes
  /\ events \in Seq(Delivering!Types)
  /\ audience \in Seq(Seq(Nat)) /\ Len(audience) = Len(events)
  /\ senders \in Seq(UrlLists)
  /\ deliveries \in Seq(Seq(Posts)) /\ Len(deliveries) = Len(senders)
  /\ channels \in Seq(Channels)
  /\ notified \in Seq([event : Nat, made : Seq(Notes)])

\* A success arrived, a failure was tried as often as it may be.
Told(d, e, s, i, there) ==
  /\ d.event = e /\ d.url = i
  /\ IF d.success THEN <<e, s, i>> \in there ELSE d.attempts = PostRetries + 1

\* What a thread holds of its event: the senders that remain are the last ones of its
\* audience, and the posts made so far are those of the first URLs of the sender at hand.
Working(t) ==
  LET w == work[t] IN
  /\ w = [event |-> w.event, left |-> w.left, url |-> w.url, attempt |-> w.attempt,
          made |-> w.made]
  /\ w.attempt \in 1 .. PostRetries + 1
  /\ stage[t] = "idle" => w = Delivering!Idle
  /\ stage[t] # "idle" => w.event \in DOMAIN events
  /\ stage[t] = "notify" => w.left \in Seq(Channels) /\ w.made \in Seq(Notes)
  /\ stage[t] = "publish" =>
       /\ w.left \in Seq(Nat) /\ Len(w.left) <= Len(audience[w.event])
       /\ \A i \in 1 .. Len(w.left) : w.left[i] = Len(audience[w.event]) - Len(w.left) + i
       /\ w.url \in Nat \ {0} /\ w.made \in Seq(Posts) /\ Len(w.made) = w.url - 1
       /\ w.left = <<>> => w.url = 1
       /\ w.left # <<>> =>
            /\ w.url <= Len(senders[Head(w.left)]) + 1
            /\ \A i \in 1 .. Len(w.made) : Told(w.made[i], w.event, Head(w.left), i, arrived)

\* No two threads are at work for one event.
OwnEvents ==
  \A t, u \in Processes :
    t # u /\ stage[t] # "idle" /\ stage[u] # "idle" => work[t].event # work[u].event

\* An event is for the senders there were when it was emitted, or for none.
Audiences ==
  \A e \in DOMAIN audience :
    /\ Len(audience[e]) <= Len(senders)
    /\ \A i \in 1 .. Len(audience[e]) : audience[e][i] = i

Waits(e, s) ==
  \E t \in Processes :
    /\ stage[t] = "publish" /\ work[t].event = e
    /\ Len(audience[e]) - Len(work[t].left) < s

Untouched(e, s) == \A d \in DOMAIN deliveries[s] : deliveries[s][d].event # e

\* The deliveries of an event are next to each other, one for each URL.
Delivered(e, s) ==
  \E o \in 0 .. Len(deliveries[s]) :
    /\ o + Len(senders[s]) <= Len(deliveries[s])
    /\ \A d \in DOMAIN deliveries[s] :
         deliveries[s][d].event = e <=> d \in o + 1 .. o + Len(senders[s])
    /\ \A i \in 1 .. Len(senders[s]) : Told(deliveries[s][o + i], e, s, i, arrived)

Ledger ==
  \A e \in DOMAIN events, s \in DOMAIN senders :
    IF s <= Len(audience[e]) /\ ~Waits(e, s) THEN Delivered(e, s) ELSE Untouched(e, s)

Known ==
  \A s \in DOMAIN senders : \A d \in DOMAIN deliveries[s] :
    deliveries[s][d].event \in DOMAIN events /\ deliveries[s][d].url \in DOMAIN senders[s]

Requested ==
  \A e \in DOMAIN events : events[e] = "approval:requested" =>
    \/ \E t \in Processes : work[t].event = e
    \/ \E n \in DOMAIN notified : notified[n].event = e

EventInv ==
  /\ EventTypes /\ (\A t \in Processes : Working(t)) /\ OwnEvents
  /\ Audiences /\ Ledger /\ Known /\ Requested

LEMMA EventsInit == Delivering!Init => EventInv
<1> SUFFICES ASSUME Delivering!Init PROVE EventInv
  OBVIOUS
<1>1. /\ stage = [t \in Processes |-> "idle"] /\ work = [t \in Processes |-> Delivering!Idle]
      /\ events = <<>> /\ audience = <<>> /\ senders = <<>> /\ deliveries = <<>>
      /\ channels = <<>> /\ notified = <<>>
  BY DEF Delivering!Init
<1>2. EventTypes
  BY <1>1 DEF EventTypes
<1>3. \A t \in Processes : Working(t)
  BY <1>1, ServicesAssumption DEF Working, Delivering!Idle, ServicesAssumption
<1>4. OwnEvents /\ Audiences /\ Ledger /\ Known /\ Requested
  BY <1>1 DEF OwnEvents, Audiences, Ledger, Known, Requested
<1>5. QED
  BY <1>2, <1>3, <1>4 DEF EventInv

\* What the steps below use of the types.
LEMMA EventFacts ==
  ASSUME EventInv
  PROVE  /\ PostRetries \in Nat
         /\ Len(events) \in Nat /\ DOMAIN events = 1 .. Len(events)
         /\ DOMAIN audience = 1 .. Len(events)
         /\ \A e \in 1 .. Len(events) :
              audience[e] \in Seq(Nat) /\ Len(audience[e]) \in Nat /\ DOMAIN audience[e] = 1 .. Len(audience[e])
         /\ Len(senders) \in Nat /\ DOMAIN senders = 1 .. Len(senders)
         /\ DOMAIN deliveries = 1 .. Len(senders)
         /\ \A s \in 1 .. Len(senders) :
              /\ senders[s] \in UrlLists /\ Len(senders[s]) \in Nat /\ DOMAIN senders[s] = 1 .. Len(senders[s])
              /\ deliveries[s] \in Seq(Posts) /\ Len(deliveries[s]) \in Nat
              /\ DOMAIN deliveries[s] = 1 .. Len(deliveries[s])
         /\ Len(notified) \in Nat /\ DOMAIN notified = 1 .. Len(notified)
<1>1. PostRetries \in Nat
  BY ServicesAssumption DEF ServicesAssumption
<1>2. Len(events) \in Nat /\ DOMAIN events = 1 .. Len(events)
  BY LenProperties DEF EventInv, EventTypes
<1>3. DOMAIN audience = 1 .. Len(events)
  BY LenProperties DEF EventInv, EventTypes
<1>4. \A e \in 1 .. Len(events) : audience[e] \in Seq(Nat)
  BY ElementOfSeq DEF EventInv, EventTypes
<1>5. \A e \in 1 .. Len(events) : Len(audience[e]) \in Nat /\ DOMAIN audience[e] = 1 .. Len(audience[e])
  BY <1>4, LenProperties
<1>6. Len(senders) \in Nat /\ DOMAIN senders = 1 .. Len(senders) /\ DOMAIN deliveries = 1 .. Len(senders)
  BY LenProperties DEF EventInv, EventTypes
<1>7. \A s \in 1 .. Len(senders) : senders[s] \in UrlLists /\ deliveries[s] \in Seq(Posts)
  BY ElementOfSeq DEF EventInv, EventTypes
<1>8. \A s \in 1 .. Len(senders) : Len(senders[s]) \in Nat /\ DOMAIN senders[s] = 1 .. Len(senders[s])
  BY <1>7, ServicesAssumption DEF ServicesAssumption
<1>9. \A s \in 1 .. Len(senders) : Len(deliveries[s]) \in Nat /\ DOMAIN deliveries[s] = 1 .. Len(deliveries[s])
  BY <1>7, LenProperties
<1>10. Len(notified) \in Nat /\ DOMAIN notified = 1 .. Len(notified)
  BY LenProperties DEF EventInv, EventTypes
<1>11. QED
  BY <1>1, <1>2, <1>3, <1>4, <1>5, <1>6, <1>7, <1>8, <1>9, <1>10

\* The deliveries of an event are there for good.
LEMMA DeliveredKept ==
  ASSUME NEW e, NEW s, senders'[s] = senders[s], deliveries'[s] = deliveries[s],
         arrived \subseteq arrived', Delivered(e, s)
  PROVE  Delivered(e, s)'
<1>1. PICK o \in 0 .. Len(deliveries[s]) :
        /\ o + Len(senders[s]) <= Len(deliveries[s])
        /\ \A d \in DOMAIN deliveries[s] :
             deliveries[s][d].event = e <=> d \in o + 1 .. o + Len(senders[s])
        /\ \A i \in 1 .. Len(senders[s]) : Told(deliveries[s][o + i], e, s, i, arrived)
  BY DEF Delivered
<1>2. \A i \in 1 .. Len(senders[s]) : Told(deliveries[s][o + i], e, s, i, arrived')
  BY <1>1 DEF Told
<1>3. QED
  BY <1>1, <1>2 DEF Delivered

\* A channel registers, or is removed: nothing but the channels changes.
LEMMA EventsChannels ==
  ASSUME EventInv, NEW channel \in Channels,
         Delivering!Register(channel) \/ Delivering!Unregister(channel)
  PROVE  EventInv'
<1>1. UNCHANGED <<stage, work, events, audience, senders, deliveries, arrived, notified>>
  BY DEF Delivering!Register, Delivering!Unregister, Delivering!busVars, Delivering!senderVars
<1>2. channels \in Seq(Channels)
  BY DEF EventInv, EventTypes
<1>3. channels' \in Seq(Channels)
  <2>1. CASE Delivering!Register(channel)
    BY <1>2, <2>1, AppendProperties DEF Delivering!Register
  <2>2. CASE Delivering!Unregister(channel)
    <3>1. PICK i \in DOMAIN channels :
            channels' = SubSeq(channels, 1, i - 1) \o SubSeq(channels, i + 1, Len(channels))
      BY <2>2 DEF Delivering!Unregister
    <3>2. i \in 1 .. Len(channels)
      BY <1>2, LenProperties
    <3>3. QED
      BY <1>2, <3>1, <3>2, SequenceWithout
  <2>3. QED
    BY <2>1, <2>2
<1>4. EventTypes'
  BY <1>1, <1>3 DEF EventInv, EventTypes
<1>5. (\A t \in Processes : Working(t))'
  BY <1>1 DEF EventInv, Working
<1>6. OwnEvents' /\ Audiences' /\ Known' /\ Requested'
  BY <1>1 DEF EventInv, OwnEvents, Audiences, Known, Requested
<1>7. Ledger'
  <2>1. \A e \in DOMAIN events, s \in DOMAIN senders :
          /\ Waits(e, s)' <=> Waits(e, s)
          /\ Delivered(e, s)' <=> Delivered(e, s)
          /\ Untouched(e, s)' <=> Untouched(e, s)
    BY <1>1 DEF Waits, Delivered, Untouched, Told
  <2>2. QED
    BY <1>1, <2>1 DEF EventInv, Ledger
<1>8. QED
  BY <1>4, <1>5, <1>6, <1>7 DEF EventInv

\* A webhook that is configured now is for no event so far.
LEMMA EventsConfigure ==
  ASSUME EventInv, NEW urls \in UrlLists, Delivering!ConfigureWebhooks(urls)
  PROVE  EventInv'
<1> DEFINE n == Len(senders)
<1>0. /\ senders' = Append(senders, urls) /\ deliveries' = Append(deliveries, <<>>)
      /\ UNCHANGED <<stage, work, events, audience, arrived, channels, notified>>
  BY DEF Delivering!ConfigureWebhooks, Delivering!busVars, Delivering!channelVars
<1>1. /\ senders \in Seq(UrlLists) /\ deliveries \in Seq(Seq(Posts)) /\ Len(deliveries) = n
      /\ <<>> \in Seq(Posts) /\ n \in Nat
      /\ DOMAIN senders = 1 .. n /\ DOMAIN deliveries = 1 .. n
  BY LenProperties DEF EventInv, EventTypes
<1>2. /\ senders' \in Seq(UrlLists) /\ Len(senders') = n + 1
      /\ \A s \in 1 .. n : senders'[s] = senders[s]
      /\ senders'[n + 1] = urls
  BY <1>0, <1>1, AppendProperties
<1>3. /\ deliveries' \in Seq(Seq(Posts)) /\ Len(deliveries') = n + 1
      /\ \A s \in 1 .. n : deliveries'[s] = deliveries[s]
      /\ deliveries'[n + 1] = <<>>
  BY <1>0, <1>1, AppendProperties
<1>4. DOMAIN senders' = 1 .. n + 1
  BY <1>2, LenProperties
<1>5. EventTypes'
  BY <1>0, <1>2, <1>3 DEF EventInv, EventTypes
<1>6. \A e \in DOMAIN events : Len(audience[e]) <= n /\ Len(audience[e]) \in Nat
  BY EventFacts DEF EventInv, Audiences
<1>7. ASSUME NEW t \in Processes PROVE Working(t)'
  <2> DEFINE w == work[t]
  <2>1. Working(t)
    BY DEF EventInv
  <2>2. CASE stage[t] = "publish" /\ w.left # <<>>
    <3>1. /\ w.left \in Seq(Nat) /\ Len(w.left) <= Len(audience[w.event])
          /\ \A i \in 1 .. Len(w.left) : w.left[i] = Len(audience[w.event]) - Len(w.left) + i
          /\ w.event \in DOMAIN events
      BY <2>1, <2>2 DEF Working
    <3>2. Len(w.left) \in Nat \ {0} /\ Head(w.left) = w.left[1]
      BY <2>2, <3>1, EmptySeq
    <3>3. Head(w.left) \in 1 .. n
      <4> DEFINE A == Len(audience[w.event])
                 L == Len(w.left)
      <4>1. /\ A \in Nat /\ A <= n /\ L \in Nat \ {0} /\ L <= A
            /\ Head(w.left) = A - L + 1
        <5>1. 1 \in 1 .. L
          BY <3>2
        <5>2. w.left[1] = A - L + 1
          BY <3>1, <5>1
        <5>3. QED
          BY <1>6, <3>1, <3>2, <5>2
      <4> HIDE DEF A, L, n
      <4>2. QED
        BY <1>1, <4>1
    <3>4. senders'[Head(w.left)] = senders[Head(w.left)]
      BY <1>2, <3>3
    <3>5. QED
      BY <1>0, <2>1, <3>4 DEF Working, Told
  <2>3. CASE ~(stage[t] = "publish" /\ w.left # <<>>)
    BY <1>0, <2>1, <2>3 DEF Working
  <2>4. QED
    BY <2>2, <2>3
<1>8. OwnEvents' /\ Requested'
  BY <1>0 DEF EventInv, OwnEvents, Requested
<1>9. Audiences'
  BY <1>0, <1>1, <1>2, <1>6, EventFacts DEF EventInv, Audiences
<1>10. Known'
  <2>1. ASSUME NEW s \in 1 .. n + 1, NEW d \in DOMAIN deliveries'[s]
        PROVE  deliveries'[s][d].event \in DOMAIN events /\ deliveries'[s][d].url \in DOMAIN senders'[s]
    <3>1. CASE s = n + 1
      <4>1. deliveries'[s] = <<>>
        BY <1>3, <3>1
      <4>2. DOMAIN deliveries'[s] = {}
        BY <4>1
      <4>3. QED
        BY <4>2
    <3>2. CASE s \in 1 .. n
      BY <1>1, <1>2, <1>3, <3>2 DEF EventInv, Known
    <3>3. QED
      BY <1>1, <3>1, <3>2
  <2>2. QED
    BY <1>0, <1>4, <2>1 DEF Known
<1>11. Ledger'
  <2>1. ASSUME NEW e \in DOMAIN events, NEW s \in 1 .. n + 1
        PROVE  IF s <= Len(audience[e]) /\ ~Waits(e, s) THEN Delivered(e, s)' ELSE Untouched(e, s)'
    <3>1. CASE s = n + 1
      <4>1. deliveries'[s] = <<>> /\ ~(s <= Len(audience[e]))
        BY <1>1, <1>3, <1>6, <3>1
      <4>2. QED
        BY <4>1 DEF Untouched
    <3>2. CASE s \in 1 .. n
      <4>1. senders'[s] = senders[s] /\ deliveries'[s] = deliveries[s] /\ arrived' = arrived
        BY <1>0, <1>2, <1>3, <3>2
      <4>2. IF s <= Len(audience[e]) /\ ~Waits(e, s) THEN Delivered(e, s) ELSE Untouched(e, s)
        BY <1>1, <3>2 DEF EventInv, Ledger
      <4>3. QED
        BY <4>1, <4>2, DeliveredKept DEF Untouched
    <3>3. QED
      BY <1>1, <3>1, <3>2
  <2>2. \A e \in DOMAIN events, s \in 1 .. n + 1 : Waits(e, s)' <=> Waits(e, s)
    BY <1>0 DEF Waits
  <2>3. QED
    BY <1>0, <1>4, <2>1, <2>2 DEF Ledger
<1>12. QED
  BY <1>5, <1>7, <1>8, <1>9, <1>10, <1>11 DEF EventInv

\* What a thread holds stays sound while others go on.
LEMMA WorkingKept ==
  ASSUME EventInv, NEW u \in Processes, stage'[u] = stage[u], work'[u] = work[u],
         senders' = senders, arrived \subseteq arrived',
         \A e \in DOMAIN events : e \in DOMAIN events' /\ audience'[e] = audience[e]
  PROVE  Working(u)'
<1>1. Working(u)
  BY DEF EventInv
<1>2. CASE stage[u] = "idle"
  BY <1>1, <1>2 DEF Working
<1>3. CASE stage[u] # "idle"
  <2>1. work[u].event \in DOMAIN events'
        /\ audience'[work[u].event] = audience[work[u].event]
    BY <1>1, <1>3 DEF Working
  <2>2. ASSUME NEW i \in 1 .. Len(work[u].made),
               Told(work[u].made[i], work[u].event, Head(work[u].left), i, arrived)
        PROVE  Told(work[u].made[i], work[u].event, Head(work[u].left), i, arrived')
    BY <2>2 DEF Told
  <2> DEFINE told == \A i \in 1 .. Len(work[u].made) :
                       Told(work[u].made[i], work[u].event, Head(work[u].left), i, arrived)
  <2>3. told => told'
    BY <2>2
  <2>4. QED
    BY <1>1, <1>3, <2>1, <2>3 DEF Working
<1>4. QED
  BY <1>2, <1>3

LEMMA LedgerKept ==
  ASSUME EventInv, UNCHANGED <<events, audience, senders, deliveries>>, arrived \subseteq arrived',
         \A e \in DOMAIN events, s \in DOMAIN senders :
           s <= Len(audience[e]) => (Waits(e, s)' <=> Waits(e, s))
  PROVE  Ledger' /\ Audiences' /\ Known'
<1>1. Audiences' /\ Known'
  BY DEF EventInv, Audiences, Known
<1>2. \A e \in DOMAIN events, s \in DOMAIN senders : Untouched(e, s)' <=> Untouched(e, s)
  BY DEF Untouched
<1>3. \A e \in DOMAIN events, s \in DOMAIN senders : Delivered(e, s) => Delivered(e, s)'
  BY DeliveredKept
<1>4. QED
  BY <1>1, <1>2, <1>3 DEF EventInv, Ledger

\* A channel is told.
LEMMA EventsNotify ==
  ASSUME EventInv, NEW t \in Processes, NEW success \in BOOLEAN, Delivering!Notify(t, success)
  PROVE  EventInv'
<1> DEFINE w == work[t]
           note == [channel |-> Head(w.left), success |-> success]
<1>0. /\ stage[t] = "notify" /\ w.left # <<>>
      /\ work' = [work EXCEPT ![t].left = Tail(w.left), ![t].made = Append(w.made, note)]
      /\ UNCHANGED <<stage, events, audience, senders, deliveries, arrived, channels, notified>>
  BY DEF Delivering!Notify, Delivering!busVars, Delivering!senderVars, Delivering!channelVars
<1>1. DOMAIN work = Processes /\ Working(t)
  BY DEF EventInv, EventTypes
<1>2. w.left \in Seq(Channels) /\ w.made \in Seq(Notes) /\ w.event \in DOMAIN events
  BY <1>0, <1>1 DEF Working
<1>3. Tail(w.left) \in Seq(Channels) /\ note \in Notes
  BY <1>0, <1>2, HeadTailProperties DEF Notes
<1>4. Append(w.made, note) \in Seq(Notes)
  BY <1>2, <1>3, AppendProperties
<1>5. /\ work'[t] = [event |-> w.event, left |-> Tail(w.left), url |-> w.url,
                     attempt |-> w.attempt, made |-> Append(w.made, note)]
      /\ DOMAIN work' = Processes
      /\ \A u \in Processes : u # t => work'[u] = work[u]
  <2>1. w = [event |-> w.event, left |-> w.left, url |-> w.url, attempt |-> w.attempt, made |-> w.made]
    BY <1>1 DEF Working
  <2> HIDE DEF note
  <2>2. QED
    BY <1>0, <1>1, <2>1
<1> HIDE DEF note
<1>6. \A u \in Processes : work'[u].event = work[u].event
  BY <1>5
<1>7. EventTypes'
  BY <1>0, <1>5 DEF EventInv, EventTypes
<1>8. Working(t)'
  BY <1>0, <1>1, <1>2, <1>3, <1>4, <1>5 DEF Working
<1>9. \A u \in Processes : Working(u)'
  <2> TAKE u \in Processes
  <2>1. CASE u # t
    BY <1>0, <1>5, <2>1, WorkingKept
  <2>2. QED
    BY <1>8, <2>1
<1>10. OwnEvents' /\ Requested'
  <2>1. OwnEvents'
    BY <1>0, <1>6 DEF EventInv, OwnEvents
  <2>2. Requested /\ UNCHANGED <<events, notified>>
    BY <1>0 DEF EventInv
  <2>3. Requested'
    BY <1>6, <2>2 DEF Requested
  <2>4. QED
    BY <2>1, <2>3
<1>11. \A e \in DOMAIN events, s \in DOMAIN senders : Waits(e, s)' <=> Waits(e, s)
  BY <1>0, <1>5 DEF Waits
<1>12. Ledger' /\ Audiences' /\ Known'
  BY <1>0, <1>11, LedgerKept
<1>13. QED
  BY <1>7, <1>9, <1>10, <1>12 DEF EventInv

\* All channels were told.
LEMMA EventsEndNotify ==
  ASSUME EventInv, NEW t \in Processes, Delivering!EndNotify(t)
  PROVE  EventInv'
<1> DEFINE w == work[t]
           entry == [event |-> w.event, made |-> w.made]
<1>0. /\ stage[t] = "notify" /\ w.left = <<>>
      /\ notified' = Append(notified, entry)
      /\ stage' = [stage EXCEPT ![t] = "idle"]
      /\ work' = [work EXCEPT ![t] = Delivering!Idle]
      /\ UNCHANGED <<events, audience, senders, deliveries, arrived, channels>>
  BY DEF Delivering!EndNotify, Delivering!busVars, Delivering!senderVars, Delivering!channelVars
<1>1. DOMAIN work = Processes /\ DOMAIN stage = Processes /\ Working(t)
  BY DEF EventInv, EventTypes
<1>2. w.made \in Seq(Notes) /\ w.event \in DOMAIN events /\ w.event \in Nat
  BY <1>0, <1>1, EventFacts DEF Working
<1>3. /\ notified \in Seq([event : Nat, made : Seq(Notes)]) /\ entry \in [event : Nat, made : Seq(Notes)]
      /\ DOMAIN notified = 1 .. Len(notified) /\ Len(notified) \in Nat
  BY <1>2, EventFacts DEF EventInv, EventTypes
<1>4. /\ notified' \in Seq([event : Nat, made : Seq(Notes)]) /\ Len(notified') = Len(notified) + 1
      /\ \A n \in 1 .. Len(notified) : notified'[n] = notified[n]
      /\ notified'[Len(notified) + 1] = entry
  BY <1>0, <1>3, AppendProperties
<1>5. DOMAIN notified' = 1 .. Len(notified) + 1
  BY <1>4, LenProperties
<1>6. /\ work'[t] = Delivering!Idle /\ stage'[t] = "idle" /\ DOMAIN work' = Processes
      /\ \A u \in Processes : u # t => work'[u] = work[u] /\ stage'[u] = stage[u]
  BY <1>0, <1>1
<1>7. EventTypes'
  BY <1>0, <1>4, <1>6 DEF EventInv, EventTypes
<1>8. Working(t)'
  BY <1>6, ServicesAssumption DEF Working, Delivering!Idle, ServicesAssumption
<1>9. \A u \in Processes : Working(u)'
  <2> TAKE u \in Processes
  <2>1. CASE u # t
    BY <1>0, <1>6, <2>1, WorkingKept
  <2>2. QED
    BY <1>8, <2>1
<1>10. OwnEvents'
  BY <1>6 DEF EventInv, OwnEvents
<1>11. Requested'
  <2> SUFFICES ASSUME NEW e \in DOMAIN events, events[e] = "approval:requested"
               PROVE  \/ \E u \in Processes : work'[u].event = e
                      \/ \E n \in DOMAIN notified' : notified'[n].event = e
    BY <1>0 DEF Requested
  <2>1. CASE \E n \in DOMAIN notified : notified[n].event = e
    BY <1>3, <1>4, <1>5, <2>1
  <2>2. CASE w.event = e
    <3>1. Len(notified) + 1 \in DOMAIN notified' /\ notified'[Len(notified) + 1].event = e
      BY <1>3, <1>4, <1>5, <2>2
    <3>2. QED
      BY <3>1
  <2>3. CASE \E u \in Processes : u # t /\ work[u].event = e
    BY <1>6, <2>3
  <2>4. QED
    BY <2>1, <2>2, <2>3 DEF EventInv, Requested
<1>12. \A e \in DOMAIN events, s \in DOMAIN senders : Waits(e, s)' <=> Waits(e, s)
  <2> TAKE e \in DOMAIN events, s \in DOMAIN senders
  <2>1. \A u \in Processes :
          (stage'[u] = "publish" <=> stage[u] = "publish") /\ (stage[u] = "publish" => work'[u] = work[u])
    BY <1>0, <1>6
  <2>2. QED
    BY <1>0, <2>1 DEF Waits
<1>13. Ledger' /\ Audiences' /\ Known'
  BY <1>0, <1>12, LedgerKept
<1>14. QED
  BY <1>7, <1>9, <1>10, <1>11, <1>13 DEF EventInv

\* An event is emitted, to be handed to the senders of now.
LEMMA EventsEmit ==
  ASSUME EventInv, NEW t \in Processes, NEW type \in Delivering!Types, Delivering!Emit(t, type)
  PROVE  EventInv'
<1> DEFINE n == Len(events)
           to == Delivering!Subscribers(type)
<1>0. /\ stage[t] = "idle"
      /\ stage' = [stage EXCEPT ![t] = "publish"]
      /\ work' = [work EXCEPT ![t].event = n + 1, ![t].left = to]
      /\ events' = Append(events, type) /\ audience' = Append(audience, to)
      /\ UNCHANGED <<senders, deliveries, arrived, channels, notified>>
  BY DEF Delivering!Emit, Delivering!senderVars, Delivering!channelVars
<1>1. DOMAIN work = Processes /\ DOMAIN stage = Processes /\ work[t] = Delivering!Idle
  BY <1>0 DEF EventInv, EventTypes, Working
<1>2. /\ to \in Seq(Nat) /\ Len(to) \in Nat /\ Len(to) <= Len(senders)
      /\ DOMAIN to = 1 .. Len(to) /\ \A i \in 1 .. Len(to) : to[i] = i
  <2>1. Len(senders) \in Nat /\ DOMAIN senders = 1 .. Len(senders)
    BY EventFacts
  <2> DEFINE m == Len(senders)
             ids == [s \in 1 .. m |-> s]
  <2> HIDE DEF m
  <2>2. ids \in [1 .. m -> Nat] /\ m \in Nat
    BY <2>1 DEF m
  <2>3. ids \in Seq(Nat)
    BY <2>2, SeqDef
  <2>4. Len(ids) = m
    BY <2>2, <2>3, LenProperties
  <2>5. to = ids \/ to = <<>>
    BY <2>1 DEF Delivering!Subscribers, m
  <2>6. CASE to = ids
    BY <2>2, <2>3, <2>4, <2>6 DEF m
  <2>7. CASE to = <<>>
    BY <2>1, <2>7, EmptySeq
  <2>8. QED
    BY <2>5, <2>6, <2>7
<1> HIDE DEF to
<1>3. /\ events \in Seq(Delivering!Types) /\ audience \in Seq(Seq(Nat)) /\ Len(audience) = n
      /\ n \in Nat /\ DOMAIN events = 1 .. n /\ DOMAIN audience = 1 .. n
  BY EventFacts DEF EventInv, EventTypes
<1>4. /\ events' \in Seq(Delivering!Types) /\ Len(events') = n + 1
      /\ events'[n + 1] = type /\ \A e \in 1 .. n : events'[e] = events[e]
  BY <1>0, <1>3, AppendProperties
<1>5. /\ audience' \in Seq(Seq(Nat)) /\ Len(audience') = n + 1
      /\ audience'[n + 1] = to /\ \A e \in 1 .. n : audience'[e] = audience[e]
  BY <1>0, <1>2, <1>3, AppendProperties
<1>6. DOMAIN events' = 1 .. n + 1 /\ DOMAIN audience' = 1 .. n + 1
  BY <1>4, <1>5, LenProperties
<1> HIDE DEF n
<1>7. /\ work'[t] = [event |-> n + 1, left |-> to, url |-> 1, attempt |-> 1, made |-> <<>>]
      /\ stage'[t] = "publish" /\ DOMAIN work' = Processes
      /\ \A u \in Processes : u # t => work'[u] = work[u] /\ stage'[u] = stage[u]
  <2>1. work' = [work EXCEPT ![t] = [work[t] EXCEPT !.event = n + 1, !.left = to]]
    BY <1>0
  <2>2. [work[t] EXCEPT !.event = n + 1, !.left = to]
          = [event |-> n + 1, left |-> to, url |-> 1, attempt |-> 1, made |-> <<>>]
    <3> DEFINE w == work[t]
    <3>1. w = [event |-> w.event, left |-> w.left, url |-> w.url, attempt |-> w.attempt,
              made |-> w.made]
      BY DEF EventInv, Working
    <3>2. w.url = 1 /\ w.attempt = 1 /\ w.made = <<>>
      BY <1>1 DEF Delivering!Idle
    <3> HIDE DEF w
    <3>3. [w EXCEPT !.event = n + 1, !.left = to]
            = [event |-> n + 1, left |-> to, url |-> w.url, attempt |-> w.attempt, made |-> w.made]
      <4> DEFINE x == n + 1
      <4> HIDE DEF x
      <4>1. [w EXCEPT !.event = x]
              = [event |-> x, left |-> w.left, url |-> w.url, attempt |-> w.attempt, made |-> w.made]
        BY <3>1
      <4>2. [w EXCEPT !.event = x, !.left = to] = [[w EXCEPT !.event = x] EXCEPT !.left = to]
        OBVIOUS
      <4> DEFINE r == [event |-> x, left |-> w.left, url |-> w.url, attempt |-> w.attempt,
                       made |-> w.made]
      <4>3. [r EXCEPT !.left = to]
              = [event |-> x, left |-> to, url |-> w.url, attempt |-> w.attempt, made |-> w.made]
        OBVIOUS
      <4> HIDE DEF r
      <4>4. [w EXCEPT !.event = x] = r
        BY <4>1 DEF r
      <4>5. QED
        BY <4>2, <4>3, <4>4, Zenon DEF x
    <3>4. QED
      BY <3>2, <3>3 DEF w
  <2>3. QED
    BY <1>0, <1>1, <2>1, <2>2
<1>8. EventTypes'
  BY <1>0, <1>4, <1>5, <1>7 DEF EventInv, EventTypes
<1>9. Working(t)'
  <2>1. /\ work'[t].event = n + 1 /\ work'[t].left = to /\ work'[t].url = 1
        /\ work'[t].attempt = 1 /\ work'[t].made = <<>>
    BY <1>7
  <2>2. work'[t].attempt \in 1 .. PostRetries + 1
    BY <2>1, EventFacts
  <2>3. n + 1 \in DOMAIN events'
    BY <1>3, <1>6
  <2>4. Len(audience'[n + 1]) = Len(to)
    BY <1>5
  <2>5. \A i \in 1 .. Len(to) : to[i] = Len(to) - Len(to) + i
    BY <1>2
  <2>6. work'[t].left # <<>> => work'[t].url <= Len(senders'[Head(work'[t].left)]) + 1
    <3> SUFFICES ASSUME to # <<>> PROVE 1 <= Len(senders[Head(to)]) + 1
      BY <1>0, <2>1
    <3>1. Len(to) \in Nat \ {0} /\ Head(to) = to[1]
      BY <1>2, EmptySeq
    <3>2. Head(to) \in 1 .. Len(senders)
      BY <1>2, <3>1, EventFacts
    <3>3. Len(senders[Head(to)]) \in Nat
      BY <3>2, EventFacts
    <3>4. QED
      BY <3>3
  <2>7. <<>> \in Seq(Posts) /\ Len(<<>>) = 0
    BY EmptySeq
  <2>8. /\ work'[t].left \in Seq(Nat) /\ Len(work'[t].left) <= Len(audience'[work'[t].event])
        /\ \A i \in 1 .. Len(work'[t].left) :
             work'[t].left[i] = Len(audience'[work'[t].event]) - Len(work'[t].left) + i
        /\ work'[t].url \in Nat \ {0} /\ work'[t].made \in Seq(Posts)
        /\ Len(work'[t].made) = work'[t].url - 1
    BY <1>2, <2>1, <2>4, <2>5, <2>7
  <2>9. \A i \in 1 .. Len(work'[t].made) : FALSE
    BY <2>1, <2>7
  <2>10. work'[t] = [event |-> work'[t].event, left |-> work'[t].left, url |-> work'[t].url,
                     attempt |-> work'[t].attempt, made |-> work'[t].made]
    BY <1>7
  <2>11. QED
    BY <1>7, <2>1, <2>2, <2>3, <2>6, <2>8, <2>9, <2>10 DEF Working
<1>10. \A u \in Processes : Working(u)'
  <2> TAKE u \in Processes
  <2>1. CASE u # t
    <3>1. \A e \in DOMAIN events : e \in DOMAIN events' /\ audience'[e] = audience[e]
      BY <1>3, <1>5, <1>6
    <3>2. QED
      BY <1>0, <1>7, <2>1, <3>1, WorkingKept
  <2>2. QED
    BY <1>9, <2>1
<1>11. \A u \in Processes : stage[u] # "idle" => work[u].event \in 1 .. n
  BY <1>3 DEF EventInv, Working
<1>12. OwnEvents'
  BY <1>3, <1>7, <1>11 DEF EventInv, OwnEvents
<1>13. Requested'
  <2> SUFFICES ASSUME NEW e \in 1 .. n + 1, events'[e] = "approval:requested"
               PROVE  \/ \E u \in Processes : work'[u].event = e
                      \/ \E m \in DOMAIN notified : notified[m].event = e
    BY <1>0, <1>6 DEF Requested
  <2>1. CASE e = n + 1
    BY <1>7, <2>1
  <2>2. CASE e \in 1 .. n /\ \E m \in DOMAIN notified : notified[m].event = e
    BY <2>2
  <2>3. CASE e \in 1 .. n /\ \E u \in Processes : work[u].event = e
    <3>1. PICK u \in Processes : work[u].event = e
      BY <2>3
    <3>2. u # t
      BY <1>1, <1>3, <2>3, <3>1 DEF Delivering!Idle
    <3>3. QED
      BY <1>7, <3>1, <3>2
  <2>4. e = n + 1 \/ e \in 1 .. n
    BY <1>3
  <2>5. e \in 1 .. n => events[e] = "approval:requested"
    BY <1>4
  <2>6. QED
    BY <1>3, <2>1, <2>2, <2>3, <2>4, <2>5 DEF EventInv, Requested
<1>14. Audiences'
  <2> SUFFICES ASSUME NEW e \in 1 .. n + 1
               PROVE  /\ Len(audience'[e]) <= Len(senders)
                      /\ \A i \in 1 .. Len(audience'[e]) : audience'[e][i] = i
    BY <1>0, <1>6 DEF Audiences
  <2>1. CASE e = n + 1
    BY <1>2, <1>5, <2>1
  <2>2. CASE e \in 1 .. n
    BY <1>3, <1>5, <2>2 DEF EventInv, Audiences
  <2>3. QED
    BY <1>3, <2>1, <2>2
<1>15. Known'
  BY <1>0, <1>3, <1>6 DEF EventInv, Known
<1>16. Ledger'
  <2> SUFFICES ASSUME NEW e \in 1 .. n + 1, NEW s \in DOMAIN senders
               PROVE  IF s <= Len(audience'[e]) /\ ~Waits(e, s)'
                      THEN Delivered(e, s)' ELSE Untouched(e, s)'
    BY <1>0, <1>6 DEF Ledger
  <2>1. CASE e = n + 1
    <3>1. Untouched(e, s)'
      BY <1>0, <1>3, <2>1 DEF EventInv, Known, Untouched
    <3>2. Waits(e, s)'
      <4>1. work'[t].event = e /\ work'[t].left = to /\ stage'[t] = "publish" /\ audience'[e] = to
        BY <1>5, <1>7, <2>1
      <4>2. s \in Int /\ 0 < s
        BY EventFacts
      <4>3. Len(audience'[e]) - Len(work'[t].left) < s
        BY <1>2, <4>1, <4>2
      <4>4. QED
        BY <4>1, <4>3 DEF Waits
    <3>3. QED
      BY <3>1, <3>2
  <2>2. CASE e \in 1 .. n
    <3>1. Waits(e, s)' <=> Waits(e, s)
      <4>1. audience'[e] = audience[e]
        BY <1>5, <2>2
      <4>2. work'[t].event # e /\ stage[t] # "publish"
        BY <1>0, <1>3, <1>7, <2>2
      <4>3. QED
        BY <1>7, <4>1, <4>2 DEF Waits
    <3>2. Untouched(e, s)' <=> Untouched(e, s)
      BY <1>0 DEF Untouched
    <3>3. Delivered(e, s) => Delivered(e, s)'
      BY <1>0, DeliveredKept
    <3>4. QED
      BY <1>3, <1>5, <2>2, <3>1, <3>2, <3>3 DEF EventInv, Ledger
  <2>3. QED
    BY <1>3, <2>1, <2>2
<1>17. QED
  BY <1>8, <1>10, <1>12, <1>13, <1>14, <1>15, <1>16 DEF EventInv

\* The event was handed to all its senders.
LEMMA EventsEndEmit ==
  ASSUME EventInv, NEW t \in Processes, Delivering!EndEmit(t)
  PROVE  EventInv'
<1> DEFINE w == work[t]
           approves == events[w.event] = "approval:requested"
<1>0. /\ stage[t] = "publish" /\ w.left = <<>>
      /\ IF approves THEN /\ stage' = [stage EXCEPT ![t] = "notify"]
                      /\ work' = [work EXCEPT ![t].left = channels]
                 ELSE /\ stage' = [stage EXCEPT ![t] = "idle"]
                      /\ work' = [work EXCEPT ![t] = Delivering!Idle]
      /\ UNCHANGED <<events, audience, senders, deliveries, arrived, channels, notified>>
  BY DEF Delivering!EndEmit, Delivering!busVars, Delivering!senderVars, Delivering!channelVars
<1>1. DOMAIN work = Processes /\ DOMAIN stage = Processes /\ Working(t) /\ channels \in Seq(Channels)
  BY DEF EventInv, EventTypes
<1>2. /\ w.event \in DOMAIN events /\ w.url = 1 /\ w.attempt \in 1 .. PostRetries + 1
      /\ w.made \in Seq(Posts) /\ Len(w.made) = 0
      /\ w = [event |-> w.event, left |-> w.left, url |-> w.url, attempt |-> w.attempt,
              made |-> w.made]
  BY <1>0, <1>1 DEF Working
<1>3. w.made = <<>>
  BY <1>2, EmptySeq
<1>4. work'[t] = IF approves THEN [event |-> w.event, left |-> channels, url |-> 1,
                               attempt |-> w.attempt, made |-> <<>>]
                 ELSE Delivering!Idle
  <2>1. CASE approves
    BY <1>0, <1>1, <1>2, <1>3, <2>1
  <2>2. CASE ~approves
    BY <1>0, <1>1, <2>2
  <2>3. QED
    BY <2>1, <2>2
<1>5. /\ DOMAIN work' = Processes /\ stage'[t] = IF approves THEN "notify" ELSE "idle"
      /\ stage' \in [Processes -> {"idle", "publish", "notify"}]
      /\ \A u \in Processes : u # t => work'[u] = work[u] /\ stage'[u] = stage[u]
  <2>1. stage \in [Processes -> {"idle", "publish", "notify"}]
    BY DEF EventInv, EventTypes
  <2>2. CASE approves
    BY <1>0, <1>1, <2>1, <2>2
  <2>3. CASE ~approves
    BY <1>0, <1>1, <2>1, <2>3
  <2>4. QED
    BY <2>2, <2>3
<1> HIDE DEF approves
<1>6. EventTypes'
  BY <1>0, <1>5 DEF EventInv, EventTypes
<1>7. Working(t)'
  <2>1. CASE approves
    <3>1. /\ work'[t].event = w.event /\ work'[t].left = channels /\ work'[t].url = 1
          /\ work'[t].attempt = w.attempt /\ work'[t].made = <<>>
          /\ work'[t] = [event |-> work'[t].event, left |-> work'[t].left, url |-> work'[t].url,
                         attempt |-> work'[t].attempt, made |-> work'[t].made]
      BY <1>4, <2>1
    <3>2. <<>> \in Seq(Notes)
      BY EmptySeq
    <3>3. QED
      BY <1>0, <1>1, <1>2, <1>5, <2>1, <3>1, <3>2 DEF Working
  <2>2. CASE ~approves
    BY <1>4, <1>5, <2>2, ServicesAssumption DEF Working, Delivering!Idle, ServicesAssumption
  <2>3. QED
    BY <2>1, <2>2
<1>8. \A u \in Processes : Working(u)'
  <2> TAKE u \in Processes
  <2>1. CASE u # t
    BY <1>0, <1>5, <2>1, WorkingKept
  <2>2. QED
    BY <1>7, <2>1
<1>9. approves => work'[t].event = w.event
  BY <1>4
<1>10. OwnEvents'
  BY <1>0, <1>5, <1>9 DEF EventInv, OwnEvents
<1>11. Requested'
  <2> SUFFICES ASSUME NEW e \in DOMAIN events, events[e] = "approval:requested"
               PROVE  \/ \E u \in Processes : work'[u].event = e
                      \/ \E n \in DOMAIN notified : notified[n].event = e
    BY <1>0 DEF Requested
  <2>1. CASE w.event = e
    BY <1>9, <2>1 DEF approves
  <2>2. CASE \E u \in Processes : u # t /\ work[u].event = e
    BY <1>5, <2>2
  <2>3. QED
    BY <2>1, <2>2 DEF EventInv, Requested
<1>12. ASSUME NEW e \in DOMAIN events, NEW s \in DOMAIN senders, s <= Len(audience[e])
       PROVE  Waits(e, s)' <=> Waits(e, s)
  <2>1. stage'[t] # "publish"
    BY <1>5
  <2>2. w.event = e => ~(Len(audience[e]) - Len(w.left) < s)
    <3>1. Len(w.left) = 0 /\ Len(audience[e]) \in Nat /\ s \in Int
      BY <1>0, EventFacts
    <3>2. QED
      BY <1>12, <3>1
  <2>3. QED
    BY <1>0, <1>5, <2>1, <2>2 DEF Waits
<1>13. Ledger' /\ Audiences' /\ Known'
  BY <1>0, <1>12, LedgerKept
<1>14. QED
  BY <1>6, <1>8, <1>10, <1>11, <1>13 DEF EventInv

\* A post is tried: it may arrive, and it may raise.
LEMMA EventsSendToUrl ==
  ASSUME EventInv, NEW t \in Processes, NEW arrives \in BOOLEAN, NEW raises \in BOOLEAN,
         Delivering!SendToUrl(t, arrives, raises)
  PROVE  EventInv'
<1> DEFINE w == work[t]
           s == Head(w.left)
           again == raises /\ w.attempt <= PostRetries
           post == [event |-> w.event, url |-> w.url, success |-> ~raises, attempts |-> w.attempt]
<1>0. /\ stage[t] = "publish" /\ w.left # <<>> /\ w.url <= Len(senders[s])
      /\ ~raises => arrives
      /\ arrived' = IF arrives THEN arrived \cup {<<w.event, s, w.url>>} ELSE arrived
      /\ work' = [work EXCEPT ![t] =
           IF again THEN [w EXCEPT !.attempt = w.attempt + 1]
           ELSE [w EXCEPT !.url = w.url + 1, !.attempt = 1, !.made = Append(w.made, post)]]
      /\ UNCHANGED <<stage, events, audience, senders, deliveries, channels, notified>>
  BY DEF Delivering!SendToUrl, Delivering!busVars, Delivering!channelVars, Delivering!Posting,
         Delivering!Sending, Delivering!Delivery
<1> HIDE DEF post
<1>1. DOMAIN work = Processes /\ Working(t) /\ arrived \subseteq arrived'
  BY <1>0 DEF EventInv, EventTypes
<1>2. /\ w = [event |-> w.event, left |-> w.left, url |-> w.url, attempt |-> w.attempt,
              made |-> w.made]
      /\ w.attempt \in 1 .. PostRetries + 1 /\ w.event \in DOMAIN events
      /\ w.left \in Seq(Nat) /\ Len(w.left) <= Len(audience[w.event])
      /\ \A i \in 1 .. Len(w.left) : w.left[i] = Len(audience[w.event]) - Len(w.left) + i
      /\ w.url \in Nat \ {0} /\ w.made \in Seq(Posts) /\ Len(w.made) = w.url - 1
      /\ \A i \in 1 .. Len(w.made) : Told(w.made[i], w.event, s, i, arrived)
  BY <1>0, <1>1 DEF Working
<1>3. PostRetries \in Nat /\ w.event \in Nat
  BY <1>2, EventFacts
<1>4. /\ again => work'[t] = [event |-> w.event, left |-> w.left, url |-> w.url,
                             attempt |-> w.attempt + 1, made |-> w.made]
      /\ ~again => work'[t] = [event |-> w.event, left |-> w.left, url |-> w.url + 1,
                              attempt |-> 1, made |-> Append(w.made, post)]
      /\ DOMAIN work' = Processes
      /\ \A u \in Processes : u # t => work'[u] = work[u]
  <2> DEFINE x == IF again THEN [w EXCEPT !.attempt = w.attempt + 1]
                  ELSE [w EXCEPT !.url = w.url + 1, !.attempt = 1, !.made = Append(w.made, post)]
  <2>1. work' = [work EXCEPT ![t] = x]
    BY <1>0
  <2>2. again => x = [event |-> w.event, left |-> w.left, url |-> w.url,
                      attempt |-> w.attempt + 1, made |-> w.made]
    BY <1>2
  <2>3. ~again => x = [event |-> w.event, left |-> w.left, url |-> w.url + 1,
                       attempt |-> 1, made |-> Append(w.made, post)]
    BY <1>2
  <2> HIDE DEF x, again
  <2>4. work'[t] = x /\ DOMAIN work' = Processes /\ \A u \in Processes : u # t => work'[u] = work[u]
    BY <1>1, <2>1
  <2>5. QED
    BY <2>2, <2>3, <2>4
<1>5. \A u \in Processes : work'[u].event = work[u].event /\ work'[u].left = work[u].left
  BY <1>4
<1>6. EventTypes'
  BY <1>0, <1>4 DEF EventInv, EventTypes
<1>7. \A i \in 1 .. Len(w.made) : Told(w.made[i], w.event, s, i, arrived')
  <2> TAKE i \in 1 .. Len(w.made)
  <2>1. Told(w.made[i], w.event, s, i, arrived)
    BY <1>2
  <2>2. QED
    BY <1>0, <1>1, <1>5, <2>1 DEF Told
<1>8. Working(t)'
  <2>1. CASE again
    <3>1. /\ work'[t].event = w.event /\ work'[t].left = w.left /\ work'[t].url = w.url
          /\ work'[t].attempt = w.attempt + 1 /\ work'[t].made = w.made
          /\ work'[t] = [event |-> work'[t].event, left |-> work'[t].left, url |-> work'[t].url,
                         attempt |-> work'[t].attempt, made |-> work'[t].made]
      BY <1>4, <2>1
    <3>2. w.attempt + 1 \in 1 .. PostRetries + 1
      BY <1>2, <1>3, <2>1
    <3>3. Working(t)
      BY <1>1
    <3>4. \A i \in 1 .. Len(w.made) : Told(w.made[i], w.event, s, i, arrived')
      BY <1>7
    <3>5. QED
      BY <1>0, <1>2, <3>1, <3>2, <3>3, <3>4 DEF Working
  <2>2. CASE ~again
    <3> DEFINE made == Append(w.made, post)
    <3>1. /\ work'[t].event = w.event /\ work'[t].left = w.left /\ work'[t].url = w.url + 1
          /\ work'[t].attempt = 1 /\ work'[t].made = made
          /\ work'[t] = [event |-> work'[t].event, left |-> work'[t].left, url |-> work'[t].url,
                         attempt |-> work'[t].attempt, made |-> work'[t].made]
      BY <1>4, <2>2
    <3>2. post \in Posts
      BY <1>2, <1>3 DEF post, Posts
    <3>3. /\ made \in Seq(Posts) /\ Len(made) = w.url
          /\ \A i \in 1 .. Len(w.made) : made[i] = w.made[i]
          /\ made[w.url] = post
      <4>1. /\ made \in Seq(Posts) /\ Len(made) = Len(w.made) + 1
            /\ \A i \in 1 .. Len(w.made) : made[i] = w.made[i]
            /\ made[Len(w.made) + 1] = post
        BY <1>2, <3>2, AppendProperties
      <4>2. Len(w.made) + 1 = w.url
        BY <1>2
      <4>3. QED
        BY <4>1, <4>2
    <3> HIDE DEF made
    <3>4. Told(post, w.event, s, w.url, arrived')
      <4>1. post.event = w.event /\ post.url = w.url /\ post.success = ~raises /\ post.attempts = w.attempt
        BY DEF post
      <4>2. CASE raises
        <5>1. w.attempt = PostRetries + 1
          BY <1>2, <1>3, <2>2, <4>2
        <5>2. QED
          BY <4>1, <4>2, <5>1, <1>5 DEF Told
      <4>3. CASE ~raises
        <5>1. <<w.event, s, w.url>> \in arrived'
          BY <1>0, <4>3
        <5>2. QED
          BY <1>5, <4>1, <4>3, <5>1 DEF Told
      <4>4. QED
        BY <4>2, <4>3
    <3>5. ASSUME NEW i \in 1 .. Len(made)
          PROVE  Told(made[i], w.event, s, i, arrived')
      <4>1. CASE i = w.url
        BY <1>5, <3>1, <3>3, <3>4, <4>1 DEF Told
      <4>2. CASE i \in 1 .. Len(w.made)
        BY <1>5, <1>7, <3>1, <3>3, <4>2 DEF Told
      <4>3. QED
        BY <1>2, <3>3, <4>1, <4>2
    <3>6. 1 \in 1 .. PostRetries + 1 /\ w.url + 1 \in Nat \ {0} /\ Len(made) = (w.url + 1) - 1
          /\ w.url + 1 <= Len(senders[s]) + 1
      <4>1. s \in DOMAIN senders
        <5> DEFINE A == Len(audience[w.event])
                   L == Len(w.left)
                   n == Len(senders)
        <5>1. L \in Nat \ {0} /\ s = w.left[1]
          BY <1>0, <1>2, EmptySeq
        <5>2. 1 \in 1 .. L
          BY <5>1
        <5>3. s = A - L + 1
          BY <1>2, <5>1, <5>2
        <5>4. A \in Nat /\ A <= n /\ L <= A /\ n \in Nat /\ DOMAIN senders = 1 .. n
          BY <1>2, EventFacts DEF EventInv, Audiences
        <5> HIDE DEF A, L, n, s
        <5>5. QED
          BY <5>1, <5>3, <5>4
      <4>2. Len(senders[s]) \in Nat
        BY <4>1, EventFacts
      <4> DEFINE m == Len(senders[s])
      <4>3. m \in Nat /\ w.url <= m
        BY <1>0, <4>2
      <4> HIDE DEF m
      <4>4. w.url + 1 <= m + 1
        BY <1>2, <4>3
      <4>5. w.url + 1 <= Len(senders[s]) + 1
        BY <4>4 DEF m
      <4>6. Len(made) = (w.url + 1) - 1
        BY <1>2, <3>3
      <4>7. 1 \in 1 .. PostRetries + 1 /\ w.url + 1 \in Nat \ {0}
        BY <1>2, <1>3
      <4>8. QED
        BY <4>5, <4>6, <4>7
    <3>7. UNCHANGED <<stage, events, audience, senders>>
      BY <1>0
    <3>8. QED
      BY <1>0, <1>2, <3>1, <3>3, <3>5, <3>6, <3>7 DEF Working
  <2>3. QED
    BY <2>1, <2>2
<1>9. \A u \in Processes : Working(u)'
  <2> TAKE u \in Processes
  <2>1. CASE u # t
    BY <1>0, <1>1, <1>4, <2>1, WorkingKept
  <2>2. QED
    BY <1>8, <2>1
<1>10. OwnEvents'
  BY <1>0, <1>5 DEF EventInv, OwnEvents
<1>11. Requested'
  <2>1. Requested /\ UNCHANGED <<events, notified>>
    BY <1>0 DEF EventInv
  <2>2. QED
    BY <1>5, <2>1 DEF Requested
<1>12. \A e \in DOMAIN events, x \in DOMAIN senders : Waits(e, x)' <=> Waits(e, x)
  BY <1>0, <1>5 DEF Waits
<1>13. Ledger' /\ Audiences' /\ Known'
  BY <1>0, <1>1, <1>12, LedgerKept
<1>14. QED
  BY <1>6, <1>9, <1>10, <1>11, <1>13 DEF EventInv
\* The deliveries of a sender are listed when it is done with its URLs.
LEMMA EventsEndSend ==
  ASSUME EventInv, NEW t \in Processes, Delivering!EndSend(t)
  PROVE  EventInv'
<1> DEFINE w == work[t]
           s == Head(w.left)
           E == w.event
           A == Len(audience[E])
           L == Len(w.left)
           k == Len(deliveries[s])
           m == Len(senders[s])
           n == Len(senders)
<1>0. /\ stage[t] = "publish" /\ w.left # <<>> /\ ~(w.url <= m)
      /\ deliveries' = [deliveries EXCEPT ![s] = deliveries[s] \o w.made]
      /\ work' = [work EXCEPT ![t].left = Tail(w.left), ![t].url = 1, ![t].made = <<>>]
      /\ UNCHANGED <<stage, events, audience, senders, arrived, channels, notified>>
  BY DEF Delivering!EndSend, Delivering!busVars, Delivering!channelVars, Delivering!Posting,
         Delivering!Sending
<1>1. DOMAIN work = Processes /\ Working(t)
  BY DEF EventInv, EventTypes
<1>2. /\ w = [event |-> w.event, left |-> w.left, url |-> w.url, attempt |-> w.attempt,
              made |-> w.made]
      /\ w.attempt \in 1 .. PostRetries + 1 /\ E \in DOMAIN events
      /\ w.left \in Seq(Nat) /\ L <= A
      /\ \A i \in 1 .. L : w.left[i] = A - L + i
      /\ w.url \in Nat \ {0} /\ w.made \in Seq(Posts) /\ Len(w.made) = w.url - 1
      /\ w.url <= m + 1
      /\ \A i \in 1 .. Len(w.made) : Told(w.made[i], E, s, i, arrived)
  BY <1>0, <1>1 DEF Working
<1>3. /\ L \in Nat \ {0} /\ A \in Nat /\ A <= n /\ n \in Nat /\ L <= A
      /\ DOMAIN senders = 1 .. n /\ DOMAIN deliveries = 1 .. n
  <2>1. L \in Nat \ {0}
    BY <1>0, <1>2, EmptySeq
  <2>2. A \in Nat /\ A <= n /\ n \in Nat /\ DOMAIN senders = 1 .. n /\ DOMAIN deliveries = 1 .. n
    BY <1>2, EventFacts DEF EventInv, Audiences
  <2>3. QED
    BY <1>2, <2>1, <2>2
<1>4. s = A - L + 1 /\ s \in 1 .. n
  <2>1. s = w.left[1] /\ 1 \in 1 .. L
    BY <1>2, <1>3
  <2>2. s = A - L + 1
    BY <1>2, <2>1
  <2> HIDE DEF s, A, L, n
  <2>3. QED
    BY <1>3, <2>2
<1>5. /\ deliveries[s] \in Seq(Posts) /\ k \in Nat /\ DOMAIN deliveries[s] = 1 .. k
      /\ m \in Nat /\ DOMAIN senders[s] = 1 .. m
  BY <1>4, EventFacts
<1>6. Len(w.made) = m
  <2> HIDE DEF m
  <2> DEFINE l == Len(w.made)
  <2>1. l = w.url - 1
    BY <1>2
  <2> HIDE DEF l
  <2>2. l = m
    BY <1>0, <1>2, <1>5, <2>1
  <2>3. QED
    BY <2>2 DEF l
<1> DEFINE new == deliveries[s] \o w.made
<1>7. /\ new \in Seq(Posts) /\ Len(new) = k + m
      /\ \A i \in 1 .. k + m : new[i] = IF i <= k THEN deliveries[s][i] ELSE w.made[i - k]
  <2>1. /\ new \in Seq(Posts) /\ Len(new) = Len(deliveries[s]) + Len(w.made)
        /\ \A i \in 1 .. Len(deliveries[s]) + Len(w.made) :
             new[i] = IF i <= Len(deliveries[s]) THEN deliveries[s][i] ELSE w.made[i - Len(deliveries[s])]
    <3> DEFINE a == deliveries[s]
               b == w.made
    <3>1. a \in Seq(Posts) /\ b \in Seq(Posts)
      BY <1>2, <1>5
    <3> HIDE DEF a, b
    <3>2. /\ a \o b \in Seq(Posts) /\ Len(a \o b) = Len(a) + Len(b)
          /\ \A i \in 1 .. Len(a) + Len(b) : (a \o b)[i] = IF i <= Len(a) THEN a[i] ELSE b[i - Len(a)]
      BY <3>1, ConcatProperties
    <3>3. QED
      BY <3>2 DEF a, b
  <2> HIDE DEF new
  <2>2. QED
    BY <1>6, <2>1
<1>8. DOMAIN new = 1 .. k + m
  BY <1>7, LenProperties
<1>9. /\ Tail(w.left) \in Seq(Nat) /\ Len(Tail(w.left)) = L - 1
      /\ \A i \in 1 .. L - 1 : Tail(w.left)[i] = w.left[i + 1]
  BY <1>0, <1>2, HeadTailProperties
<1> DEFINE rest == Tail(w.left)
<1> HIDE DEF rest
<1>10. /\ work'[t] = [event |-> E, left |-> rest, url |-> 1, attempt |-> w.attempt, made |-> <<>>]
       /\ DOMAIN work' = Processes
       /\ \A u \in Processes : u # t => work'[u] = work[u]
  <2> DEFINE none == <<>>
             x == [w EXCEPT !.left = rest, !.url = 1, !.made = none]
  <2>1. work' = [work EXCEPT ![t] = x]
    BY <1>0 DEF rest
  <2>s. w = [event |-> w.event, left |-> w.left, url |-> w.url, attempt |-> w.attempt,
             made |-> w.made]
    BY <1>2
  <2> HIDE DEF none, w
  <2>2. x = [event |-> w.event, left |-> rest, url |-> 1, attempt |-> w.attempt, made |-> none]
    <3> DEFINE r == [w EXCEPT !.left = rest]
               q == [r EXCEPT !.url = 1]
    <3>1. r = [event |-> w.event, left |-> rest, url |-> w.url, attempt |-> w.attempt,
               made |-> w.made]
      BY <2>s
    <3>2. x = [q EXCEPT !.made = none]
      OBVIOUS
    <3> HIDE DEF r
    <3>3. q = [event |-> w.event, left |-> rest, url |-> 1, attempt |-> w.attempt, made |-> w.made]
      BY <3>1
    <3> HIDE DEF q, x
    <3>4. QED
      BY <3>2, <3>3
  <2> HIDE DEF x
  <2>3. work'[t] = x /\ DOMAIN work' = Processes /\ \A u \in Processes : u # t => work'[u] = work[u]
    BY <1>1, <2>1
  <2>4. QED
    BY <2>2, <2>3 DEF none
<1>11. /\ work'[t].event = E /\ work'[t].left = rest /\ work'[t].url = 1
       /\ work'[t].attempt = w.attempt /\ work'[t].made = <<>>
       /\ work'[t] = [event |-> work'[t].event, left |-> work'[t].left, url |-> work'[t].url,
                      attempt |-> work'[t].attempt, made |-> work'[t].made]
  BY <1>10
<1>12. /\ deliveries' \in Seq(Seq(Posts)) /\ Len(deliveries') = n
       /\ deliveries'[s] = new /\ \A x \in 1 .. n : x # s => deliveries'[x] = deliveries[x]
  <2>1. deliveries \in Seq(Seq(Posts)) /\ Len(deliveries) = n /\ n \in Nat
    BY <1>3 DEF EventInv, EventTypes
  <2>2. new \in Seq(Posts) /\ deliveries' = [deliveries EXCEPT ![s] = new]
    BY <1>0, <1>7
  <2> HIDE DEF new, s, n
  <2>3. s \in 1 .. Len(deliveries)
    BY <1>4, <2>1
  <2>4. /\ [deliveries EXCEPT ![s] = new] \in Seq(Seq(Posts))
        /\ Len([deliveries EXCEPT ![s] = new]) = Len(deliveries)
        /\ \A j \in 1 .. Len(deliveries) :
             [deliveries EXCEPT ![s] = new][j] = IF j = s THEN new ELSE deliveries[j]
    BY <2>1, <2>2, <2>3, ExceptSeq
  <2>5. QED
    BY <1>4, <2>1, <2>2, <2>4
<1>13. DOMAIN deliveries' = 1 .. n
  BY <1>12, LenProperties
<1>14. EventTypes'
  BY <1>0, <1>10, <1>12 DEF EventInv, EventTypes
<1>15. Working(t)'
  <2>1. <<>> \in Seq(Posts) /\ Len(<<>>) = 0
    BY EmptySeq
  <2>2. Len(rest) <= A
    <3> DEFINE l == Len(rest)
    <3>1. l = L - 1
      BY <1>9 DEF rest
    <3> HIDE DEF l, L, A
    <3>2. l <= A
      BY <1>3, <3>1
    <3>3. QED
      BY <3>2 DEF l
  <2>3. \A i \in 1 .. Len(rest) : rest[i] = A - Len(rest) + i
    <3> DEFINE l == Len(rest)
    <3>1. l = L - 1 /\ \A i \in 1 .. L - 1 : rest[i] = w.left[i + 1]
      BY <1>9 DEF rest
    <3>2. \A i \in 1 .. L : w.left[i] = A - L + i
      BY <1>2
    <3> HIDE DEF l, L, A, w
    <3>3. \A i \in 1 .. l : rest[i] = A - l + i
      <4> TAKE i \in 1 .. l
      <4>1. i \in 1 .. L - 1 /\ i + 1 \in 1 .. L /\ A - L + (i + 1) = A - l + i
        BY <1>3, <3>1
      <4>2. QED
        BY <3>1, <3>2, <4>1
    <3>4. QED
      BY <3>3 DEF l
  <2>4. rest # <<>> => 1 <= Len(senders[Head(rest)]) + 1
    <3> SUFFICES ASSUME rest # <<>> PROVE 1 <= Len(senders[Head(rest)]) + 1
      OBVIOUS
    <3> DEFINE l == Len(rest)
    <3>0. rest \in Seq(Nat)
      BY <1>9 DEF rest
    <3>1. l \in Nat \ {0} /\ Head(rest) = rest[1]
      BY <3>0, EmptySeq
    <3>2. 1 \in 1 .. l
      BY <3>1
    <3>3. Head(rest) = A - l + 1 /\ l <= A
      BY <2>2, <2>3, <3>1, <3>2
    <3> HIDE DEF l, A, n
    <3>4. Head(rest) \in 1 .. n
      BY <1>3, <3>1, <3>3
    <3>5. Len(senders[Head(rest)]) \in Nat
      BY <3>4, EventFacts DEF n
    <3>6. QED
      BY <3>5
  <2>5. rest \in Seq(Nat)
    BY <1>9 DEF rest
  <2>6. \A i \in 1 .. Len(work'[t].made) : FALSE
    BY <1>11, <2>1
  <2>7. stage'[t] = "publish" /\ E \in DOMAIN events' /\ audience'[E] = audience[E] /\ senders' = senders
    BY <1>0, <1>2
  <2>8. 1 \in Nat \ {0} /\ Len(<<>>) = 1 - 1
    BY <2>1
  <2> HIDE DEF E, w
  <2>9. w.attempt \in 1 .. PostRetries + 1
    BY <1>2
  <2>10. QED
    BY <1>11, <2>1, <2>2, <2>3, <2>4, <2>5, <2>6, <2>7, <2>8, <2>9 DEF Working
<1>16. \A u \in Processes : Working(u)'
  <2> TAKE u \in Processes
  <2>1. CASE u # t
    BY <1>0, <1>10, <2>1, WorkingKept
  <2>2. QED
    BY <1>15, <2>1
<1>17. \A u \in Processes : work'[u].event = work[u].event
  BY <1>10, <1>11
<1>18. OwnEvents'
  BY <1>0, <1>17 DEF EventInv, OwnEvents
<1>19. Requested'
  <2>1. Requested /\ UNCHANGED <<events, notified>>
    BY <1>0 DEF EventInv
  <2>2. QED
    BY <1>17, <2>1 DEF Requested
<1>20. Audiences'
  BY <1>0 DEF EventInv, Audiences
<1>21. \A i \in 1 .. m : Told(w.made[i], E, s, i, arrived)
  BY <1>2, <1>6
<1>22. \A i \in 1 .. k + m : IF i <= k THEN new[i] = deliveries[s][i]
                             ELSE i - k \in 1 .. m /\ new[i] = w.made[i - k]
  <2> HIDE DEF k, m, new
  <2>1. QED
    BY <1>5, <1>7
<1>23. Known'
  <2> SUFFICES ASSUME NEW x \in 1 .. n, NEW d \in DOMAIN deliveries'[x]
               PROVE  deliveries'[x][d].event \in DOMAIN events /\ deliveries'[x][d].url \in DOMAIN senders[x]
    BY <1>0, <1>3 DEF Known
  <2>1. CASE x # s
    BY <1>3, <1>12, <2>1 DEF EventInv, Known
  <2>2. CASE x = s
    <3>1. d \in 1 .. k + m /\ deliveries'[x][d] = new[d]
      BY <1>8, <1>12, <2>2
    <3>2. CASE d <= k
      <4>1. d \in 1 .. k
        <5> HIDE DEF k, m
        <5>1. QED
          BY <1>5, <3>1, <3>2
      <4>2. new[d] = deliveries[s][d] /\ d \in DOMAIN deliveries[s]
        BY <1>5, <1>22, <3>1, <3>2, <4>1
      <4>3. QED
        BY <1>3, <1>4, <2>2, <3>1, <4>2 DEF EventInv, Known
    <3>3. CASE ~(d <= k)
      <4>1. d - k \in 1 .. m /\ new[d] = w.made[d - k]
        BY <1>22, <3>1, <3>3
      <4>2. Told(w.made[d - k], E, s, d - k, arrived)
        BY <1>21, <4>1
      <4>3. QED
        <5>1. deliveries'[x][d].event = E /\ deliveries'[x][d].url = d - k
          BY <3>1, <4>1, <4>2 DEF Told
        <5>2. d - k \in DOMAIN senders[x]
          BY <1>5, <2>2, <4>1
        <5>3. QED
          BY <1>2, <5>1, <5>2
    <3>4. QED
      BY <3>2, <3>3
  <2>3. QED
    BY <2>1, <2>2
<1>24. ASSUME NEW e \in DOMAIN events, NEW x \in 1 .. n
       PROVE  Waits(e, x)' <=> Waits(e, x) /\ ~(e = E /\ x = s)
  <2>1. \A u \in Processes : u # t => stage'[u] = stage[u] /\ work'[u] = work[u]
    BY <1>0, <1>10
  <2>2. \A u \in Processes : stage[u] = "publish" /\ work[u].event = E => u = t
    BY <1>0 DEF EventInv, OwnEvents
  <2>3. stage'[t] = "publish" /\ work'[t].event = E /\ work'[t].left = rest /\ audience' = audience
    BY <1>0, <1>11
  <2>4. CASE e # E
    BY <1>0, <2>1, <2>3, <2>4 DEF Waits
  <2>5. CASE e = E
    <3>1. Waits(e, x)' <=> A - Len(rest) < x
      BY <2>1, <2>2, <2>3, <2>5, <1>0 DEF Waits
    <3>2. Waits(e, x) <=> A - L < x
      BY <2>2, <2>5, <1>0 DEF Waits
    <3> DEFINE l == Len(rest)
    <3>3. l = L - 1
      BY <1>9 DEF rest
    <3> HIDE DEF l, L, A, s, n
    <3>4. A - l < x <=> A - L < x /\ x # s
      BY <1>3, <1>4, <3>3
    <3>5. QED
      BY <2>5, <3>1, <3>2, <3>4 DEF l
  <2>6. QED
    BY <2>4, <2>5
<1>25. Waits(E, s) /\ s <= A
  <2>1. A - L < s /\ s <= A
    <3> HIDE DEF A, L, s, n
    <3>1. QED
      BY <1>3, <1>4
  <2>2. QED
    BY <1>0, <2>1 DEF Waits
<1>26. Ledger'
  <2> SUFFICES ASSUME NEW e \in DOMAIN events, NEW x \in 1 .. n
               PROVE  IF x <= Len(audience[e]) /\ ~Waits(e, x)'
                      THEN Delivered(e, x)' ELSE Untouched(e, x)'
    BY <1>0, <1>3 DEF Ledger
  <2>1. IF x <= Len(audience[e]) /\ ~Waits(e, x) THEN Delivered(e, x) ELSE Untouched(e, x)
    BY <1>3 DEF EventInv, Ledger
  <2>2. CASE x # s
    <3>1. deliveries'[x] = deliveries[x] /\ senders' = senders /\ arrived' = arrived
      BY <1>0, <1>12, <2>2
    <3>2. QED
      BY <1>24, <2>1, <2>2, <3>1, DeliveredKept DEF Untouched
  <2>3. CASE x = s /\ e = E
    <3>1. Untouched(e, s)
      BY <1>25, <2>1, <2>3
    <3>2. ASSUME NEW d \in DOMAIN new PROVE new[d].event = e <=> d \in k + 1 .. k + m
      <4>1. CASE d <= k
        <5>1. d \in 1 .. k /\ new[d] = deliveries[s][d]
          <6> HIDE DEF k, m, new
          <6>1. QED
            BY <1>5, <1>8, <1>22, <3>2, <4>1
        <5>2. new[d].event # e
          BY <1>5, <3>1, <5>1 DEF Untouched
        <5> HIDE DEF k, m
        <5>3. QED
          BY <1>5, <4>1, <5>2
      <4>2. CASE ~(d <= k)
        <5>1. d - k \in 1 .. m /\ new[d] = w.made[d - k] /\ d \in 1 .. k + m
          BY <1>8, <1>22, <4>2
        <5>2. new[d].event = e
          BY <1>21, <2>3, <5>1 DEF Told
        <5> HIDE DEF k, m
        <5>3. d \in k + 1 .. k + m
          BY <1>5, <4>2, <5>1
        <5>4. QED
          BY <5>2, <5>3
      <4>3. QED
        BY <4>1, <4>2
    <3>3. ASSUME NEW i \in 1 .. m PROVE Told(new[k + i], e, s, i, arrived)
      <4>1. new[k + i] = w.made[i]
        <5> HIDE DEF k, m, new
        <5>1. k + i \in 1 .. k + m /\ ~(k + i <= k) /\ (k + i) - k = i
          BY <1>5
        <5>2. QED
          BY <1>22, <5>1
      <4>2. QED
        BY <1>21, <2>3, <4>1
    <3>4. k \in 0 .. Len(new) /\ k + m <= Len(new)
      <4> DEFINE l == Len(new)
      <4>1. l = k + m
        BY <1>7
      <4> HIDE DEF k, m, l
      <4>2. k \in 0 .. l /\ k + m <= l
        BY <1>5, <4>1
      <4>3. QED
        BY <4>2 DEF l
    <3>5. deliveries'[s] = new /\ senders' = senders /\ arrived' = arrived
      BY <1>0, <1>12
    <3> HIDE DEF new, k
    <3>6. \E o \in 0 .. Len(new) :
            /\ o + m <= Len(new)
            /\ \A d \in DOMAIN new : new[d].event = e <=> d \in o + 1 .. o + m
            /\ \A i \in 1 .. m : Told(new[o + i], e, s, i, arrived)
      BY <3>2, <3>3, <3>4
    <3>7. Delivered(e, x)'
      <4> HIDE DEF s
      <4>1. QED
        BY <2>3, <3>5, <3>6 DEF Delivered
    <3>8. QED
      BY <1>24, <1>25, <2>3, <3>7
  <2>4. CASE x = s /\ e # E
    <3>0. Waits(e, x)' <=> Waits(e, x)
      BY <1>24, <2>4
    <3>1. \A d \in DOMAIN new :
            \/ d \in 1 .. k /\ new[d] = deliveries[s][d]
            \/ ~(d <= k) /\ d \in Int /\ new[d].event # e
      <4> TAKE d \in DOMAIN new
      <4>1. CASE d <= k
        <5>1. d \in 1 .. k /\ new[d] = deliveries[s][d]
          <6> HIDE DEF k, m, new
          <6>1. QED
            BY <1>5, <1>8, <1>22, <4>1
        <5> HIDE DEF k, new
        <5>2. QED
          BY <5>1
      <4>2. CASE ~(d <= k)
        <5>1. d - k \in 1 .. m /\ new[d] = w.made[d - k] /\ d \in 1 .. k + m
          BY <1>8, <1>22, <4>2
        <5>2. new[d].event = E
          <6>1. Told(w.made[d - k], E, s, d - k, arrived)
            BY <1>21, <5>1
          <6>2. QED
            BY <5>1, <6>1 DEF Told
        <5>3. QED
          BY <2>4, <4>2, <5>1, <5>2
      <4>3. QED
        BY <4>1, <4>2
    <3>2. deliveries'[s] = new /\ senders' = senders /\ arrived' = arrived
      BY <1>0, <1>12
    <3>3. Untouched(e, x) => Untouched(e, x)'
      BY <1>5, <2>4, <3>1, <3>2 DEF Untouched
    <3>4. ASSUME Delivered(e, x) PROVE Delivered(e, x)'
      <4>1. PICK o \in 0 .. k :
              /\ o + m <= k
              /\ \A d \in DOMAIN deliveries[s] : deliveries[s][d].event = e <=> d \in o + 1 .. o + m
              /\ \A i \in 1 .. m : Told(deliveries[s][o + i], e, s, i, arrived)
        BY <2>4, <3>4 DEF Delivered
      <4>2. o \in 0 .. Len(new) /\ o + m <= Len(new)
        <5> DEFINE l == Len(new)
        <5>1. l = k + m
          BY <1>7
        <5> HIDE DEF k, m, l
        <5>2. o \in 0 .. l /\ o + m <= l
          BY <1>5, <4>1, <5>1
        <5>3. QED
          BY <5>2 DEF l
      <4>3. \A d \in DOMAIN new : new[d].event = e <=> d \in o + 1 .. o + m
        <5> TAKE d \in DOMAIN new
        <5>1. CASE d \in 1 .. k /\ new[d] = deliveries[s][d]
          BY <1>5, <4>1, <5>1
        <5>2. CASE ~(d <= k) /\ d \in Int /\ new[d].event # e
          <6> HIDE DEF k, m, new
          <6>1. d \notin o + 1 .. o + m
            BY <1>5, <4>1, <5>2
          <6>2. QED
            BY <5>2, <6>1
        <5>3. QED
          BY <3>1, <5>1, <5>2
      <4>4. \A i \in 1 .. m : new[o + i] = deliveries[s][o + i]
        <5> TAKE i \in 1 .. m
        <5> HIDE DEF k, m, new
        <5>1. o + i \in 1 .. k + m /\ o + i <= k
          BY <1>5, <4>1
        <5>2. QED
          BY <1>22, <5>1
      <4>5. \A i \in 1 .. m : Told(new[o + i], e, s, i, arrived)
        BY <4>1, <4>4
      <4> HIDE DEF new, k
      <4>6. \E q \in 0 .. Len(new) :
              /\ q + m <= Len(new)
              /\ \A d \in DOMAIN new : new[d].event = e <=> d \in q + 1 .. q + m
              /\ \A i \in 1 .. m : Told(new[q + i], e, s, i, arrived)
        BY <4>2, <4>3, <4>5
      <4> HIDE DEF s
      <4>7. QED
        BY <2>4, <3>2, <4>6 DEF Delivered
    <3>5. QED
      BY <2>1, <3>0, <3>3, <3>4
  <2>5. QED
    BY <2>2, <2>3, <2>4
<1>27. QED
  BY <1>14, <1>16, <1>18, <1>19, <1>20, <1>23, <1>26 DEF EventInv

LEMMA EventsNext == EventInv /\ [Delivering!Next]_(Delivering!vars) => EventInv'
<1> SUFFICES ASSUME EventInv, [Delivering!Next]_(Delivering!vars) PROVE EventInv'
  OBVIOUS
<1>1. CASE UNCHANGED Delivering!vars
  <2>1. UNCHANGED <<stage, work, events, audience, senders, deliveries, arrived, channels, notified>>
    BY <1>1 DEF Delivering!vars, Delivering!busVars, Delivering!senderVars, Delivering!channelVars
  <2>2. EventTypes'
    BY <2>1 DEF EventInv, EventTypes
  <2>3. \A t \in Processes : Working(t)'
    BY <2>1, WorkingKept
  <2>4. OwnEvents' /\ Requested'
    BY <2>1 DEF EventInv, OwnEvents, Requested
  <2>5. \A e \in DOMAIN events, s \in DOMAIN senders : Waits(e, s)' <=> Waits(e, s)
    BY <2>1 DEF Waits
  <2>6. Ledger' /\ Audiences' /\ Known'
    BY <2>1, <2>5, LedgerKept
  <2>7. QED
    BY <2>2, <2>3, <2>4, <2>6 DEF EventInv
<1>2. CASE \E urls \in UrlLists : Delivering!ConfigureWebhooks(urls)
  BY <1>2, EventsConfigure
<1>3. CASE \E channel \in Channels : Delivering!Register(channel) \/ Delivering!Unregister(channel)
  BY <1>3, EventsChannels
<1>4. ASSUME NEW t \in Processes, \E type \in Delivering!Types : Delivering!Emit(t, type)
      PROVE  EventInv'
  BY <1>4, EventsEmit
<1>5. ASSUME NEW t \in Processes,
             Delivering!EndSend(t) \/ Delivering!EndEmit(t) \/ Delivering!EndNotify(t)
      PROVE  EventInv'
  BY <1>5, EventsEndSend, EventsEndEmit, EventsEndNotify
<1>6. ASSUME NEW t \in Processes, NEW arrives \in BOOLEAN, NEW raises \in BOOLEAN,
             Delivering!SendToUrl(t, arrives, raises)
      PROVE  EventInv'
  BY <1>6, EventsSendToUrl
<1>7. ASSUME NEW t \in Processes, NEW success \in BOOLEAN, Delivering!Notify(t, success)
      PROVE  EventInv'
  BY <1>7, EventsNotify
<1>8. QED
  BY <1>1, <1>2, <1>3, <1>4, <1>5, <1>6, <1>7 DEF Delivering!Next

LEMMA EventsTypes == EventInv => Delivering!TypeOK
<1> SUFFICES ASSUME EventInv PROVE Delivering!TypeOK
  OBVIOUS
<1>1. \A t \in Processes :
        /\ stage[t] = "idle" <=> work[t] = Delivering!Idle
        /\ stage[t] # "idle" => work[t].event \in DOMAIN events
        /\ work[t].attempt \in 1 .. PostRetries + 1
  <2> TAKE t \in Processes
  <2>1. Working(t) /\ DOMAIN events = 1 .. Len(events)
    BY EventFacts DEF EventInv
  <2>2. work[t] = Delivering!Idle => work[t].event = 0
    BY DEF Delivering!Idle
  <2>3. QED
    BY <2>1, <2>2 DEF Working
<1>2. DOMAIN deliveries = DOMAIN senders
  BY EventFacts
<1>3. QED
  BY <1>1, <1>2 DEF EventInv, EventTypes, Known, Delivering!TypeOK

\* The service's cardinality is that of the library.
LEMMA DeliveringCardinality == \A S : Delivering!Cardinality(S) = Cardinality(S)
BY DEF Delivering!Cardinality, Cardinality

LEMMA EventsHold == EventInv => Delivering!EventsAreDelivered
<1> SUFFICES ASSUME EventInv PROVE Delivering!EventsAreDelivered
  OBVIOUS
<1>1. ASSUME NEW e \in DOMAIN events, NEW s \in DOMAIN senders, Delivering!HandedOver(e, s)
      PROVE  LET mine == {d \in DOMAIN deliveries[s] : deliveries[s][d].event = e}
                 to == \E i \in DOMAIN audience[e] : audience[e][i] = s
             IN /\ {deliveries[s][d].url : d \in mine} = IF to THEN DOMAIN senders[s] ELSE {}
                /\ Delivering!Cardinality(mine) = IF to THEN Len(senders[s]) ELSE 0
                /\ \A d \in mine :
                     IF deliveries[s][d].success THEN <<e, s, deliveries[s][d].url>> \in arrived
                     ELSE deliveries[s][d].attempts = PostRetries + 1
  <2> DEFINE mine == {d \in DOMAIN deliveries[s] : deliveries[s][d].event = e}
             to == \E i \in DOMAIN audience[e] : audience[e][i] = s
             A == Len(audience[e])
             m == Len(senders[s])
             k == Len(deliveries[s])
  <2>1. /\ A \in Nat /\ m \in Nat /\ k \in Nat /\ s \in Nat /\ 1 <= s
        /\ DOMAIN audience[e] = 1 .. A
        /\ DOMAIN senders[s] = 1 .. m /\ DOMAIN deliveries[s] = 1 .. k
    BY EventFacts
  <2>2. to <=> s <= A
    <3>1. \A i \in 1 .. A : audience[e][i] = i
      BY EventFacts DEF EventInv, Audiences
    <3> HIDE DEF A
    <3>2. QED
      BY <2>1, <3>1
  <2>3. s <= A => ~Waits(e, s)
    <3> SUFFICES ASSUME s <= A, Waits(e, s) PROVE FALSE
      OBVIOUS
    <3>1. PICK t \in Processes :
            stage[t] = "publish" /\ work[t].event = e /\ A - Len(work[t].left) < s
      BY DEF Waits
    <3> DEFINE L == Len(work[t].left)
    <3>2. /\ work[t].left \in Seq(Nat) /\ L <= A
          /\ \A i \in 1 .. L : work[t].left[i] = A - L + i
      BY <3>1 DEF EventInv, Working
    <3>3. L \in Nat /\ DOMAIN work[t].left = 1 .. L
      BY <3>2, LenProperties
    <3> HIDE DEF L
    <3> DEFINE a == A
    <3>4. a \in Nat /\ L <= a /\ a - L < s /\ s <= a /\ \A i \in 1 .. L : work[t].left[i] = a - L + i
      BY <2>1, <3>1, <3>2 DEF L
    <3> HIDE DEF a
    <3>5. s - (a - L) \in 1 .. L /\ a - L + (s - (a - L)) = s
      BY <2>1, <3>3, <3>4
    <3>6. work[t].left[s - (a - L)] = s
      BY <3>4, <3>5
    <3>7. QED
      BY <1>1, <3>1, <3>3, <3>5, <3>6 DEF Delivering!HandedOver
  <2>4. CASE ~to
    <3>1. Untouched(e, s)
      BY <2>2, <2>4 DEF EventInv, Ledger
    <3>2. mine = {}
      BY <3>1 DEF Untouched
    <3>3. Delivering!Cardinality(mine) = 0
      BY <3>2, DeliveringCardinality, FS_EmptySet
    <3> HIDE DEF mine
    <3>4. QED
      BY <2>4, <3>2, <3>3 DEF mine
  <2>5. CASE to
    <3>1. Delivered(e, s)
      BY <2>2, <2>3, <2>5 DEF EventInv, Ledger
    <3>2. PICK o \in 0 .. k :
            /\ o + m <= k
            /\ \A d \in DOMAIN deliveries[s] : deliveries[s][d].event = e <=> d \in o + 1 .. o + m
            /\ \A i \in 1 .. m : Told(deliveries[s][o + i], e, s, i, arrived)
      BY <3>1 DEF Delivered
    <3>3. mine = o + 1 .. o + m
      <4> HIDE DEF m, k
      <4>1. \A d \in o + 1 .. o + m : d \in 1 .. k
        BY <2>1, <3>2
      <4>2. QED
        BY <2>1, <3>2, <4>1
    <3>4. Cardinality(mine) = m
      <4> HIDE DEF m, mine
      <4>1. o + 1 \in Int /\ o + m \in Int
        BY <2>1, <3>2
      <4>2. Cardinality(o + 1 .. o + m) = IF o + 1 > o + m THEN 0 ELSE (o + m) - (o + 1) + 1
        BY <4>1, FS_Interval
      <4>3. QED
        BY <2>1, <3>2, <3>3, <4>2
    <3>5. \A d \in mine : d - o \in 1 .. m /\ o + (d - o) = d
      <4> HIDE DEF m, mine
      <4>1. QED
        BY <2>1, <3>2, <3>3
    <3>6. \A i \in 1 .. m : o + i \in mine
      <4> HIDE DEF m, mine
      <4>1. QED
        BY <2>1, <3>2, <3>3
    <3> HIDE DEF mine
    <3>7. \A d \in mine : Told(deliveries[s][d], e, s, d - o, arrived)
      BY <3>2, <3>5
    <3>8. {deliveries[s][d].url : d \in mine} = 1 .. m
      <4>1. \A d \in mine : deliveries[s][d].url \in 1 .. m
        BY <3>5, <3>7 DEF Told
      <4>2. \A i \in 1 .. m : o + i \in mine /\ deliveries[s][o + i].url = i
        BY <3>2, <3>6 DEF Told
      <4> HIDE DEF m
      <4>3. \A i \in 1 .. m : i \in {deliveries[s][d].url : d \in mine}
        BY <4>2
      <4>4. QED
        BY <4>1, <4>3
    <3>9. \A d \in mine :
            IF deliveries[s][d].success THEN <<e, s, deliveries[s][d].url>> \in arrived
            ELSE deliveries[s][d].attempts = PostRetries + 1
      BY <3>7 DEF Told
    <3>10. QED
      BY <2>1, <2>5, <3>4, <3>8, <3>9, DeliveringCardinality DEF mine
  <2>6. QED
    BY <2>4, <2>5
<1>2. ASSUME NEW e \in DOMAIN events, events[e] = "approval:requested"
      PROVE  \/ \E t \in Processes : work[t].event = e
             \/ \E n \in DOMAIN notified : notified[n].event = e
  BY <1>2 DEF EventInv, Requested
<1>3. QED
  BY <1>1, <1>2 DEF Delivering!EventsAreDelivered

\* Of EventDeliveries: whichever threads emit and configure at once, and whatever failed
\* before, each event that was handed to a sender has one delivery for each URL, and no
\* request for approval is lost on its way to the channels (EventBus.emit,
\* WebhookSender.handle, NotificationManager.notify).
THEOREM EventsReachThoseTheyAreFor ==
  Spec => [](part = "delivering" => Delivering!TypeOK /\ Delivering!EventsAreDelivered)
<1> DEFINE Inv == part = "delivering" => EventInv
<1>1. Init => Inv
  BY EventsInit DEF Init
<1>2. Inv /\ [Next]_vars => Inv'
  <2>1. ASSUME Inv, Next PROVE Inv'
    <3>1. SUFFICES ASSUME part' = "delivering" PROVE EventInv'
      OBVIOUS
    <3>2. part = "delivering" /\ Delivering!Next
      BY <2>1, <3>1 DEF Next
    <3>3. QED
      BY <2>1, <3>2, EventsNext
  <2>2. ASSUME Inv, UNCHANGED vars PROVE Inv'
    <3>1. UNCHANGED part /\ UNCHANGED Delivering!vars
      BY <2>2 DEF vars, eventVars, Delivering!vars, Delivering!busVars, Delivering!senderVars,
                  Delivering!channelVars
    <3>2. QED
      BY <2>2, <3>1, EventsNext
  <2>3. QED
    BY <2>1, <2>2
<1>3. Inv => (part = "delivering" => Delivering!TypeOK /\ Delivering!EventsAreDelivered)
  BY EventsTypes, EventsHold
<1>4. QED
  BY <1>1, <1>2, <1>3, PTL DEF Spec

-----------------------------------------------------------------------------
(* CostTracker *)

CostStages == {"idle", "total", "take", "daily", "estimate", "warn", "exceed"}
Tracked == [key : CostKeys, day : Costing!Days, cost : Amounts, total : BOOLEAN, daily : BOOLEAN,
            current : Nat, budget : Budgets \cup {None}]

CostTypes ==
  /\ stage \in [Processes -> CostStages] /\ DOMAIN held = Processes
  /\ \A t \in Processes : stage[t] # "idle" => held[t] \in Tracked
  /\ DOMAIN total \subseteq CostKeys /\ \A k \in DOMAIN total : total[k] \in Nat
  /\ DOMAIN daily \subseteq Costing!Days \X CostKeys /\ \A c \in DOMAIN daily : daily[c] \in Nat
  /\ budget \in [CostKeys -> Budgets \cup {None}]
  /\ warned \subseteq Costing!Days \X CostKeys /\ asked \subseteq Costing!Days \X CostKeys
  /\ today \in Costing!Days
  /\ reset \in [stage : {"idle", "total", "daily", "warned"}, keys : SUBSET CostKeys,
                days : SUBSET Costing!Days, all : BOOLEAN, disturbed : BOOLEAN]
  /\ spent \in [CostKeys -> Nat]

\* What threads have yet to add to the counters of a key, and what its days come to.
Due(k, stages) ==
  [t \in Processes |-> IF stage[t] \in stages /\ held[t].key = k THEN held[t].cost ELSE 0]
DueToTotal(k) == Sum(Due(k, {"total"}), Processes)
DueToDays(k) == Sum(Due(k, {"total", "take", "daily"}), Processes)
OfDays(k) == Sum([d \in Costing!Days |-> Costing!Cost(daily, <<d, k>>)], Costing!Days)

\* A settled key is not tracked while it is reset, no thread holds a counter of it that
\* was dropped, and what was spent on it is in its counters or yet to be added to them.
Settled(k) ==
  /\ k \in reset.keys =>
       /\ ~Costing!Tracking(k) /\ reset.days = Costing!Days
       /\ reset.stage = "daily" => spent[k] = 0
  /\ \A t \in Processes : stage[t] # "idle" /\ held[t].key = k => held[t].total /\ held[t].daily
  /\ spent[k] = Costing!Cost(total, k) + DueToTotal(k)
  /\ ~(reset.stage = "daily" /\ k \in reset.keys) => spent[k] = OfDays(k) + DueToDays(k)

Exceeds(d, k) == budget[k] # None /\ Costing!Cost(daily, <<d, k>>) > budget[k]

\* A thread is about to put the budget of a key on a day to a human.
Asking(d, k) ==
  \E t \in Processes :
    /\ stage[t] \in {"estimate", "warn", "exceed"} /\ held[t].day = d /\ held[t].key = k
    /\ stage[t] # "estimate" => held[t].budget # None /\ held[t].current > held[t].budget

CostInv ==
  /\ CostTypes
  /\ \A k \in CostKeys \ unsettled : Settled(k)
  /\ \A d \in Costing!Days, k \in CostKeys :
       Exceeds(d, k) /\ <<d, k>> \notin changed => <<d, k>> \in asked \/ Asking(d, k)

LEMMA CostInit == Costing!Init => CostInv
<1> SUFFICES ASSUME Costing!Init PROVE CostInv
  OBVIOUS
<1>1. /\ stage = [t \in Processes |-> "idle"] /\ held = [t \in Processes |-> None]
      /\ total = <<>> /\ daily = <<>> /\ budget = [k \in CostKeys |-> None]
      /\ warned = {} /\ asked = {} /\ today = 1 /\ reset = Costing!Idle
      /\ spent = [k \in CostKeys |-> 0] /\ unsettled = {} /\ changed = {}
  BY DEF Costing!Init
<1>2. 1 \in Costing!Days /\ IsFiniteSet(Processes)
  BY ServicesAssumption DEF ServicesAssumption, Costing!Days
<1>3. DOMAIN total = {} /\ DOMAIN daily = {}
  BY <1>1
<1>4. CostTypes
  <2>1. reset \in [stage : {"idle", "total", "daily", "warned"}, keys : SUBSET CostKeys,
                   days : SUBSET Costing!Days, all : BOOLEAN, disturbed : BOOLEAN]
    BY <1>1 DEF Costing!Idle
  <2>2. QED
    BY <1>1, <1>2, <1>3, <2>1 DEF CostTypes, CostStages
<1>5. \A k \in CostKeys : Settled(k)
  <2> TAKE k \in CostKeys
  <2>1. \A s : \A t \in Processes : "idle" \notin s => Due(k, s)[t] = 0
    BY <1>1 DEF Due
  <2>2. DueToTotal(k) = 0 /\ DueToDays(k) = 0
    <3>1. "idle" \notin {"total"} /\ "idle" \notin {"total", "take", "daily"}
      OBVIOUS
    <3>2. QED
      BY <2>1, <3>1, SumZero DEF DueToTotal, DueToDays
  <2>3. Costing!Cost(total, k) = 0 /\ OfDays(k) = 0
    <3>1. \A c : Costing!Cost(total, c) = 0 /\ Costing!Cost(daily, c) = 0
      BY <1>3 DEF Costing!Cost
    <3>2. QED
      BY <3>1, SumZero DEF OfDays
  <2>4. k \notin reset.keys
    BY <1>1 DEF Costing!Idle
  <2>5. \A t \in Processes : stage[t] = "idle"
    BY <1>1
  <2>6. spent[k] = 0
    BY <1>1
  <2>7. QED
    BY <2>2, <2>3, <2>4, <2>5, <2>6 DEF Settled
<1>6. \A d \in Costing!Days, k \in CostKeys : ~Exceeds(d, k)
  BY <1>1 DEF Exceeds
<1>7. QED
  BY <1>4, <1>5, <1>6 DEF CostInv

\* What the steps below use of the types.
LEMMA CostFacts ==
  ASSUME CostInv
  PROVE  /\ IsFiniteSet(Processes) /\ IsFiniteSet(Costing!Days)
         /\ Amounts \subseteq Nat /\ Budgets \subseteq Int
         /\ \A k \in CostKeys : Costing!Cost(total, k) \in Nat
         /\ \A d \in Costing!Days, k \in CostKeys : Costing!Cost(daily, <<d, k>>) \in Nat
         /\ \A t \in Processes : stage[t] # "idle" =>
              /\ held[t].key \in CostKeys /\ held[t].day \in Costing!Days /\ held[t].cost \in Nat
              /\ held[t].current \in Nat /\ held[t].budget \in Budgets \cup {None}
              /\ held[t].total \in BOOLEAN /\ held[t].daily \in BOOLEAN
         /\ \A k : \A s : "idle" \notin s => \A t \in Processes : Due(k, s)[t] \in Nat
<1>1. /\ IsFiniteSet(Processes) /\ MaxDay \in Nat /\ Amounts \subseteq Nat /\ Budgets \subseteq Int
  BY ServicesAssumption DEF ServicesAssumption
<1>2. IsFiniteSet(Costing!Days)
  BY <1>1, FS_Interval DEF Costing!Days
<1>3. \A k \in CostKeys : Costing!Cost(total, k) \in Nat
  BY DEF CostInv, CostTypes, Costing!Cost
<1>4. \A d \in Costing!Days, k \in CostKeys : Costing!Cost(daily, <<d, k>>) \in Nat
  BY DEF CostInv, CostTypes, Costing!Cost
<1>5. \A t \in Processes : stage[t] # "idle" =>
        /\ held[t].key \in CostKeys /\ held[t].day \in Costing!Days /\ held[t].cost \in Nat
        /\ held[t].current \in Nat /\ held[t].budget \in Budgets \cup {None}
        /\ held[t].total \in BOOLEAN /\ held[t].daily \in BOOLEAN
  BY <1>1 DEF CostInv, CostTypes, Tracked
<1>6. \A k : \A s : "idle" \notin s => \A t \in Processes : Due(k, s)[t] \in Nat
  BY <1>5 DEF Due
<1>7. QED
  BY <1>1, <1>2, <1>3, <1>4, <1>5, <1>6

LEMMA WithCosts ==
  ASSUME NEW table, NEW c, NEW n \in Nat, \A x \in DOMAIN table : table[x] \in Nat
  PROVE  /\ DOMAIN Costing!With(table, c, n) = DOMAIN table \cup {c}
         /\ \A x \in DOMAIN table \cup {c} : Costing!With(table, c, n)[x] \in Nat
         /\ \A x : Costing!Cost(Costing!With(table, c, n), x)
                     = Costing!Cost(table, x) + (IF x = c THEN n ELSE 0)
BY DEF Costing!With, Costing!Cost

\* What is added to the counter of a day is added to its key.
LEMMA DaysWith ==
  ASSUME CostInv, NEW d \in Costing!Days, NEW j \in CostKeys, NEW n \in Nat,
         daily' = Costing!With(daily, <<d, j>>, n), NEW k \in CostKeys
  PROVE  OfDays(k)' = OfDays(k) + (IF k = j THEN n ELSE 0)
<1> DEFINE g == [x \in Costing!Days |-> Costing!Cost(daily, <<x, k>>)]
           h == [x \in Costing!Days |-> Costing!Cost(daily', <<x, k>>)]
<1>1. \A c : Costing!Cost(daily', c) = Costing!Cost(daily, c) + (IF c = <<d, j>> THEN n ELSE 0)
  <2>1. \A x \in DOMAIN daily : daily[x] \in Nat
    BY DEF CostInv, CostTypes
  <2> DEFINE c == <<d, j>>
  <2>2. daily' = Costing!With(daily, c, n)
    OBVIOUS
  <2> HIDE DEF c
  <2>3. \A x : Costing!Cost(Costing!With(daily, c, n), x)
                 = Costing!Cost(daily, x) + (IF x = c THEN n ELSE 0)
    BY <2>1 DEF Costing!With, Costing!Cost
  <2>4. \A x : Costing!Cost(daily', x) = Costing!Cost(daily, x) + (IF x = c THEN n ELSE 0)
    BY <2>2, <2>3
  <2>5. QED
    BY <2>4 DEF c
<1>2. \A x \in Costing!Days : g[x] \in Nat
  BY CostFacts
<1>3. \A x \in Costing!Days : h[x] = g[x] + (IF x = d /\ k = j THEN n ELSE 0)
  BY <1>1
<1>4. IsFiniteSet(Costing!Days)
  BY CostFacts
<1>5. OfDays(k) = Sum(g, Costing!Days) /\ OfDays(k)' = Sum(h, Costing!Days)
  <2>1. Costing!Days' = Costing!Days
    BY DEF Costing!Days
  <2>2. QED
    BY <2>1 DEF OfDays
<1> HIDE DEF g, h
<1>6. \A x \in Costing!Days : h[x] \in Nat /\ (x # d => h[x] = g[x])
  BY <1>2, <1>3
<1>7. Sum(h, Costing!Days) = Sum(g, Costing!Days) - g[d] + h[d]
  BY <1>2, <1>4, <1>6, SumChange
<1>8. Sum(g, Costing!Days) \in Nat
  BY <1>2, <1>4, SumFinite
<1>9. QED
  BY <1>2, <1>3, <1>5, <1>7, <1>8

LEMMA DaysSame ==
  ASSUME NEW k, \A d \in Costing!Days : Costing!Cost(daily', <<d, k>>) = Costing!Cost(daily, <<d, k>>)
  PROVE  OfDays(k)' = OfDays(k)
<1> DEFINE g == [x \in Costing!Days |-> Costing!Cost(daily, <<x, k>>)]
           h == [x \in Costing!Days |-> Costing!Cost(daily', <<x, k>>)]
<1>1. OfDays(k) = Sum(g, Costing!Days) /\ OfDays(k)' = Sum(h, Costing!Days)
  <2>1. Costing!Days' = Costing!Days
    BY DEF Costing!Days
  <2>2. QED
    BY <2>1 DEF OfDays
<1>2. h = g
  OBVIOUS
<1>3. QED
  BY <1>1, <1>2

\* The stages of a call, one after the other.
CallSteps ==
  {<<"total", "take">>, <<"take", "daily">>, <<"daily", "estimate">>, <<"estimate", "warn">>,
   <<"warn", "exceed">>, <<"exceed", "idle">>}

\* A thread goes on with its call.
GoesOn(t, from, to) ==
  /\ <<from, to>> \in CallSteps /\ stage[t] = from /\ stage' = [stage EXCEPT ![t] = to]
  /\ \A u \in Processes :
       /\ held'[u].key = held[u].key /\ held'[u].cost = held[u].cost
       /\ held'[u].total = held[u].total /\ held'[u].daily = held[u].daily

\* What it adds to a counter is no longer due.
LEMMA DueMoves ==
  ASSUME CostInv, NEW t \in Processes, NEW from, NEW to, GoesOn(t, from, to), NEW k
  PROVE  /\ DueToTotal(k) \in Nat /\ DueToDays(k) \in Nat
         /\ DueToTotal(k)'
              = DueToTotal(k) - (IF held[t].key = k /\ from = "total" THEN held[t].cost ELSE 0)
         /\ DueToDays(k)'
              = DueToDays(k) - (IF held[t].key = k /\ from = "daily" THEN held[t].cost ELSE 0)
<1>0. /\ <<from, to>> \in CallSteps /\ stage[t] = from /\ stage' = [stage EXCEPT ![t] = to]
      /\ \A u \in Processes : held'[u].key = held[u].key /\ held'[u].cost = held[u].cost
  BY DEF GoesOn
<1>1. IsFiniteSet(Processes) /\ from # "idle" /\ held[t].cost \in Nat
  BY <1>0, CostFacts DEF CallSteps
<1>2. /\ stage'[t] = to /\ \A u \in Processes : u # t => stage'[u] = stage[u]
      /\ stage \in [Processes -> CostStages]
  BY <1>0 DEF CostInv, CostTypes
<1>3. ASSUME NEW s, "idle" \notin s
      PROVE  /\ Sum(Due(k, s), Processes) \in Nat
             /\ Sum(Due(k, s), Processes)' = Sum(Due(k, s), Processes)
                  - (IF held[t].key = k /\ from \in s THEN held[t].cost ELSE 0)
                  + (IF held[t].key = k /\ to \in s THEN held[t].cost ELSE 0)
  <2> DEFINE g == Due(k, s)
             h == [u \in Processes |-> IF stage'[u] \in s /\ held'[u].key = k THEN held'[u].cost ELSE 0]
  <2>1. Sum(Due(k, s), Processes)' = Sum(h, Processes)
    BY DEF Due
  <2>2. \A u \in Processes : g[u] \in Nat
    BY <1>3, CostFacts
  <2>3. /\ \A u \in Processes : u # t => h[u] = g[u]
        /\ h[t] = (IF held[t].key = k /\ to \in s THEN held[t].cost ELSE 0)
        /\ g[t] = (IF held[t].key = k /\ from \in s THEN held[t].cost ELSE 0)
    BY <1>0, <1>2 DEF Due
  <2> HIDE DEF g, h
  <2>4. \A u \in Processes : h[u] \in Nat
    BY <1>1, <2>2, <2>3
  <2>5. Sum(h, Processes) = Sum(g, Processes) - g[t] + h[t]
    <3>1. \A u \in Processes : g[u] \in Nat /\ h[u] \in Nat
      BY <2>2, <2>4
    <3>2. \A u \in Processes : u # t => h[u] = g[u]
      BY <2>3
    <3>3. QED
      BY <1>1, <3>1, <3>2, SumChange
  <2>6. Sum(g, Processes) \in Nat
    BY <1>1, <2>2, SumFinite
  <2>7. QED
    BY <2>1, <2>3, <2>5, <2>6 DEF g
<1>4. "idle" \notin {"total"} /\ "idle" \notin {"total", "take", "daily"}
  OBVIOUS
<1>5. /\ from \in {"total"} <=> from = "total"
      /\ ~(to \in {"total"})
  BY <1>0 DEF CallSteps
<1>6. /\ DueToTotal(k) \in Nat
      /\ DueToTotal(k)' = DueToTotal(k) - (IF held[t].key = k /\ from = "total" THEN held[t].cost ELSE 0)
  BY <1>1, <1>3, <1>4, <1>5 DEF DueToTotal
<1>7. \/ from \in {"total", "take"} /\ to \in {"take", "daily"}
      \/ from = "daily" /\ to = "estimate"
      \/ from \notin {"total", "take", "daily"} /\ to \notin {"total", "take", "daily"}
  BY <1>0 DEF CallSteps
<1>8. /\ DueToDays(k) \in Nat
      /\ DueToDays(k)' = DueToDays(k)
           - (IF held[t].key = k /\ from \in {"total", "take", "daily"} THEN held[t].cost ELSE 0)
           + (IF held[t].key = k /\ to \in {"total", "take", "daily"} THEN held[t].cost ELSE 0)
  BY <1>3, <1>4 DEF DueToDays
<1>9. DueToDays(k)' = DueToDays(k) - (IF held[t].key = k /\ from = "daily" THEN held[t].cost ELSE 0)
  BY <1>1, <1>7, <1>8
<1>10. QED
  BY <1>6, <1>8, <1>9

\* So what is spent stays in the counters or due to them.
LEMMA SettledMoves ==
  ASSUME CostInv, NEW t \in Processes, NEW from, NEW to, GoesOn(t, from, to),
         reset'.keys = reset.keys, reset'.days = reset.days, reset'.stage = reset.stage,
         UNCHANGED spent, NEW k \in CostKeys, Settled(k),
         Costing!Cost(total', k)
           = Costing!Cost(total, k) + (IF held[t].key = k /\ from = "total" THEN held[t].cost ELSE 0),
         OfDays(k)' = OfDays(k) + (IF held[t].key = k /\ from = "daily" THEN held[t].cost ELSE 0)
  PROVE  Settled(k)'
<1>0. /\ <<from, to>> \in CallSteps /\ stage[t] = from /\ stage' = [stage EXCEPT ![t] = to]
      /\ \A u \in Processes :
           /\ held'[u].key = held[u].key
           /\ held'[u].total = held[u].total /\ held'[u].daily = held[u].daily
  BY DEF GoesOn
<1>1. \A u \in Processes : stage'[u] # "idle" => stage[u] # "idle"
  BY <1>0 DEF CostInv, CostTypes, CallSteps
<1>2. Costing!Tracking(k)' => Costing!Tracking(k)
  BY <1>0, <1>1 DEF Costing!Tracking
<1>3. /\ DueToTotal(k) \in Nat /\ DueToDays(k) \in Nat
      /\ DueToTotal(k)'
           = DueToTotal(k) - (IF held[t].key = k /\ from = "total" THEN held[t].cost ELSE 0)
      /\ DueToDays(k)'
           = DueToDays(k) - (IF held[t].key = k /\ from = "daily" THEN held[t].cost ELSE 0)
  BY DueMoves
<1>4. held[t].cost \in Nat /\ Costing!Cost(total, k) \in Nat
  BY <1>0, CostFacts DEF CallSteps
<1>5. OfDays(k) \in Nat
  <2>1. IsFiniteSet(Costing!Days) /\ \A d \in Costing!Days : Costing!Cost(daily, <<d, k>>) \in Nat
    BY CostFacts
  <2>2. QED
    BY <2>1, SumFinite DEF OfDays
<1>6. spent[k] = Costing!Cost(total, k) + DueToTotal(k) =>
        spent'[k] = Costing!Cost(total', k) + DueToTotal(k)'
  BY <1>3, <1>4
<1>7. spent[k] = OfDays(k) + DueToDays(k) => spent'[k] = OfDays(k)' + DueToDays(k)'
  BY <1>3, <1>4, <1>5
<1>8. Costing!Days' = Costing!Days /\ Costing!Cost(total, k)' = Costing!Cost(total', k)
  BY DEF Costing!Days, Costing!Cost
<1>9. QED
  BY <1>0, <1>1, <1>2, <1>6, <1>7, <1>8 DEF Settled

LEMMA DueSame ==
  ASSUME UNCHANGED stage, NEW k,
         \A t \in Processes :
           stage[t] # "idle" => held'[t].key = held[t].key /\ held'[t].cost = held[t].cost
  PROVE  /\ DueToTotal(k)' = DueToTotal(k) /\ DueToDays(k)' = DueToDays(k)
         /\ Costing!Tracking(k)' <=> Costing!Tracking(k)
<1>1. ASSUME NEW s, "idle" \notin s PROVE Due(k, s)' = Due(k, s)
  BY <1>1 DEF Due
<1>2. Due(k, {"total"})' = Due(k, {"total"})
  BY <1>1
<1>3. Due(k, {"total", "take", "daily"})' = Due(k, {"total", "take", "daily"})
  BY <1>1
<1>4. DueToTotal(k)' = DueToTotal(k) /\ DueToDays(k)' = DueToDays(k)
  BY <1>2, <1>3 DEF DueToTotal, DueToDays
<1>5. Costing!Tracking(k)' <=> Costing!Tracking(k)
  BY DEF Costing!Tracking
<1>6. QED
  BY <1>4, <1>5

\* Nothing is due to a key that is not tracked.
LEMMA NothingDue ==
  ASSUME NEW k, ~Costing!Tracking(k)
  PROVE  DueToTotal(k) = 0 /\ DueToDays(k) = 0
<1>1. ASSUME NEW s, "idle" \notin s PROVE \A t \in Processes : Due(k, s)[t] = 0
  BY <1>1 DEF Due, Costing!Tracking
<1>2. \A t \in Processes : Due(k, {"total"})[t] = 0
  BY <1>1
<1>3. \A t \in Processes : Due(k, {"total", "take", "daily"})[t] = 0
  BY <1>1
<1>4. QED
  BY <1>2, <1>3, SumZero DEF DueToTotal, DueToDays

\* That one thread is about to ask a human for a day and a key.
Asks(t, d, k) ==
  /\ stage[t] \in {"estimate", "warn", "exceed"} /\ held[t].day = d /\ held[t].key = k
  /\ stage[t] # "estimate" => held[t].budget # None /\ held[t].current > held[t].budget

\* What the steps have to show of budgets that are exceeded.
Watched(d, k) == Exceeds(d, k) /\ <<d, k>> \notin changed => <<d, k>> \in asked \/ Asking(d, k)

\* A step of one thread keeps what the others are about to ask.
LEMMA OthersAsk ==
  ASSUME NEW t \in Processes, NEW d, NEW k,
         \A u \in Processes : u # t => stage'[u] = stage[u] /\ held'[u] = held[u],
         Asking(d, k), Asks(t, d, k) => Asks(t, d, k)'
  PROVE  Asking(d, k)'
<1>1. PICK u \in Processes : Asks(u, d, k)
  BY DEF Asking, Asks
<1>2. Asks(u, d, k)'
  <2>1. CASE u = t
    BY <1>1, <2>1
  <2>2. CASE u # t
    BY <1>1, <2>2 DEF Asks
  <2>3. QED
    BY <2>1, <2>2
<1>3. QED
  BY <1>2 DEF Asking, Asks

\* Costs and budgets that do not grow are watched as they were.
LEMMA WatchedKept ==
  ASSUME CostInv, NEW d \in Costing!Days, NEW k \in CostKeys,
         Exceeds(d, k)' => Exceeds(d, k), changed \subseteq changed', asked \subseteq asked',
         Asking(d, k) => Asking(d, k)' \/ <<d, k>> \in asked'
  PROVE  Watched(d, k)'
<1>1. Watched(d, k)
  BY DEF CostInv, Watched
<1>2. QED
  BY <1>1 DEF Watched

\* The invariant, put together from what the steps show.
LEMMA CostParts ==
  ASSUME CostTypes', \A k \in CostKeys \ unsettled' : Settled(k)',
         \A d \in Costing!Days, k \in CostKeys : Watched(d, k)'
  PROVE  CostInv'
<1>1. Costing!Days' = Costing!Days
  BY DEF Costing!Days
<1>2. QED
  BY <1>1 DEF CostInv, Watched

LEMMA CostTrack ==
  ASSUME CostInv, NEW t \in Processes, NEW n \in Amounts, NEW k \in CostKeys, Costing!Track(t, k, n)
  PROVE  CostInv'
<1> DEFINE entry == [key |-> k, day |-> today, cost |-> n, total |-> TRUE,
                     daily |-> TRUE, current |-> 0, budget |-> None]
<1>1. /\ stage[t] = "idle" /\ stage' = [stage EXCEPT ![t] = "total"]
      /\ held' = [held EXCEPT ![t] = entry]
      /\ total' = Costing!With(total, k, 0)
      /\ Costing!Disturbs("total", k \notin DOMAIN total)
      /\ spent' = [spent EXCEPT ![k] = @ + n]
      /\ unsettled' = IF k \in reset.keys THEN unsettled \cup {k} ELSE unsettled
      /\ UNCHANGED <<daily, budget, warned, asked, today, changed>>
  BY DEF Costing!Track, Costing!Goes
<1>2. CostTypes /\ n \in Nat /\ IsFiniteSet(Processes)
  BY CostFacts DEF CostInv
<1>3. /\ stage'[t] = "total" /\ \A u \in Processes : u # t => stage'[u] = stage[u]
      /\ held'[t] = entry /\ \A u \in Processes : u # t => held'[u] = held[u]
      /\ stage' \in [Processes -> CostStages] /\ DOMAIN held' = Processes
  <2> HIDE DEF entry
  <2>1. QED
    BY <1>1, <1>2 DEF CostTypes, CostStages
<1>4. /\ reset' \in [stage : {"idle", "total", "daily", "warned"}, keys : SUBSET CostKeys,
                     days : SUBSET Costing!Days, all : BOOLEAN, disturbed : BOOLEAN]
      /\ reset'.keys = reset.keys /\ reset'.days = reset.days /\ reset'.stage = reset.stage
  BY <1>1, <1>2 DEF CostTypes, Costing!Disturbs
<1>5. /\ DOMAIN total' \subseteq CostKeys /\ \A j \in DOMAIN total' : total'[j] \in Nat
      /\ \A j : Costing!Cost(total', j) = Costing!Cost(total, j)
  <2>1. \A j \in DOMAIN total : total[j] \in Nat
    BY <1>2 DEF CostTypes
  <2>2. \A j : Costing!Cost(total, j) = IF j \in DOMAIN total THEN total[j] ELSE 0
    BY DEF Costing!Cost
  <2>3. total' = [x \in DOMAIN total \cup {k} |->
                    IF x = k THEN Costing!Cost(total, k) + 0 ELSE total[x]]
    BY <1>1 DEF Costing!With
  <2>4. Costing!Cost(total, k) \in Nat
    BY <2>1, <2>2
  <2>5. QED
    BY <1>2, <2>1, <2>2, <2>3, <2>4 DEF CostTypes, Costing!Cost
<1>6. entry \in Tracked
  BY <1>2 DEF Tracked, CostTypes
<1>7. spent' \in [CostKeys -> Nat] /\ \A j \in CostKeys : spent'[j] = spent[j] + (IF j = k THEN n ELSE 0)
  BY <1>1, <1>2 DEF CostTypes
<1>8. CostTypes'
  <2>1. Costing!Days' = Costing!Days /\ Tracked' = Tracked
    BY DEF Costing!Days, Tracked
  <2>2. \A u \in Processes : stage'[u] # "idle" => held'[u] \in Tracked
    <3> HIDE DEF entry
    <3>1. QED
      BY <1>2, <1>3, <1>6 DEF CostTypes
  <2>3. DOMAIN daily' \subseteq Costing!Days \X CostKeys /\ \A c \in DOMAIN daily' : daily'[c] \in Nat
    BY <1>1, <1>2 DEF CostTypes
  <2>4. QED
    BY <1>1, <1>2, <1>3, <1>4, <1>5, <1>7, <2>1, <2>2, <2>3 DEF CostTypes
<1>9. ASSUME NEW j \in CostKeys, NEW s, "total" \in s, "idle" \notin s
      PROVE  /\ Sum(Due(j, s), Processes) \in Nat
             /\ Sum(Due(j, s), Processes)'
                  = Sum(Due(j, s), Processes) + (IF j = k THEN n ELSE 0)
  <2> DEFINE g == Due(j, s)
             h == [u \in Processes |-> IF stage'[u] \in s /\ held'[u].key = j THEN held'[u].cost ELSE 0]
  <2>1. Sum(Due(j, s), Processes)' = Sum(h, Processes)
    BY DEF Due
  <2>2. \A u \in Processes : g[u] \in Nat
    BY <1>9, CostFacts
  <2>3. g[t] = 0 /\ h[t] = (IF j = k THEN n ELSE 0) /\ \A u \in Processes : u # t => h[u] = g[u]
    BY <1>1, <1>3, <1>9 DEF Due
  <2> HIDE DEF g, h
  <2>4. \A u \in Processes : g[u] \in Nat /\ h[u] \in Nat
    BY <1>2, <2>2, <2>3
  <2>5. \A u \in Processes : u # t => h[u] = g[u]
    BY <2>3
  <2>6. Sum(h, Processes) = Sum(g, Processes) - g[t] + h[t]
    BY <1>2, <2>4, <2>5, SumChange
  <2>7. Sum(g, Processes) \in Nat
    BY <1>2, <2>2, SumFinite
  <2>8. QED
    BY <1>2, <2>1, <2>3, <2>6, <2>7 DEF g
<1>10. ASSUME NEW j \in CostKeys \ unsettled' PROVE Settled(j)'
  <2>1. Settled(j) /\ (j \in reset.keys => j # k)
    BY <1>1, <1>10 DEF CostInv
  <2>2. /\ DueToTotal(j) \in Nat /\ DueToTotal(j)' = DueToTotal(j) + (IF j = k THEN n ELSE 0)
    BY <1>9 DEF DueToTotal
  <2>3. /\ DueToDays(j) \in Nat /\ DueToDays(j)' = DueToDays(j) + (IF j = k THEN n ELSE 0)
    BY <1>9 DEF DueToDays
  <2>4. OfDays(j)' = OfDays(j)
    BY <1>1, DaysSame
  <2>5. j # k => (Costing!Tracking(j)' => Costing!Tracking(j))
    BY <1>3 DEF Costing!Tracking
  <2>6. \A u \in Processes : stage'[u] # "idle" /\ held'[u].key = j => held'[u].total /\ held'[u].daily
    BY <1>3, <2>1 DEF Settled
  <2>7. Costing!Days' = Costing!Days /\ Costing!Cost(total, j)' = Costing!Cost(total, j)
    BY <1>5 DEF Costing!Days, Costing!Cost
  <2>8. OfDays(j) \in Nat /\ Costing!Cost(total, j) \in Nat /\ spent[j] \in Nat
    <3>1. IsFiniteSet(Costing!Days) /\ \A d \in Costing!Days : Costing!Cost(daily, <<d, j>>) \in Nat
      BY CostFacts
    <3>2. OfDays(j) \in Nat
      BY <3>1, SumFinite DEF OfDays
    <3>3. QED
      BY <1>2, <3>2, CostFacts DEF CostTypes
  <2>9. spent'[j] = Costing!Cost(total, j)' + DueToTotal(j)'
    BY <1>2, <1>7, <2>1, <2>2, <2>7, <2>8 DEF Settled
  <2>10. ~(reset.stage = "daily" /\ j \in reset.keys) => spent'[j] = OfDays(j)' + DueToDays(j)'
    BY <1>2, <1>7, <2>1, <2>3, <2>4, <2>8 DEF Settled
  <2>11. j \in reset.keys => spent'[j] = spent[j]
    BY <1>7, <2>1, <2>8
  <2>12. j \in reset'.keys =>
           /\ ~Costing!Tracking(j)' /\ reset'.days = Costing!Days
           /\ reset'.stage = "daily" => spent'[j] = 0
    BY <1>4, <2>1, <2>5, <2>11 DEF Settled
  <2>13. QED
    BY <1>4, <2>6, <2>7, <2>9, <2>10, <2>12 DEF Settled
<1>11. ASSUME NEW d \in Costing!Days, NEW j \in CostKeys PROVE Watched(d, j)'
  <2>1. Exceeds(d, j)' => Exceeds(d, j)
    BY <1>1 DEF Exceeds, Costing!Cost
  <2>2. Asking(d, j) => Asking(d, j)'
    <3>1. ~Asks(t, d, j)
      BY <1>1 DEF Asks
    <3>2. QED
      BY <1>3, <3>1, OthersAsk
  <2>3. QED
    BY <1>1, <2>1, <2>2, WatchedKept
<1>12. QED
  BY <1>8, <1>10, <1>11, CostParts

\* Steps of a call that leave the threads' records alone go on with it.
LEMMA GoesOnKept ==
  ASSUME NEW t \in Processes, NEW from, NEW to, <<from, to>> \in CallSteps,
         Costing!Goes(t, from, to), UNCHANGED held
  PROVE  /\ GoesOn(t, from, to)
         /\ \A u \in Processes : u # t => stage'[u] = stage[u] /\ held'[u] = held[u]
BY DEF GoesOn, Costing!Goes

\* The types of such a step, but for the counters.
LEMMA CallTypes ==
  ASSUME CostTypes, NEW t \in Processes, NEW from, NEW to, GoesOn(t, from, to),
         DOMAIN held' = Processes, \A u \in Processes : held[u] \in Tracked => held'[u] \in Tracked
  PROVE  /\ stage' \in [Processes -> CostStages] /\ DOMAIN held' = Processes
         /\ \A u \in Processes : stage'[u] # "idle" => held'[u] \in Tracked
<1>1. /\ stage \in [Processes -> CostStages]
      /\ <<from, to>> \in CallSteps /\ stage[t] = from /\ stage' = [stage EXCEPT ![t] = to]
  BY DEF CostTypes, GoesOn
<1>2. to \in CostStages /\ from # "idle"
  BY <1>1 DEF CallSteps, CostStages
<1>3. stage' \in [Processes -> CostStages] /\ \A u \in Processes : stage'[u] # "idle" => stage[u] # "idle"
  BY <1>1, <1>2
<1>4. QED
  BY <1>3 DEF CostTypes

LEMMA CostAddTotal ==
  ASSUME CostInv, NEW t \in Processes, Costing!AddTotal(t)
  PROVE  CostInv'
<1>1. /\ Costing!Goes(t, "total", "take") /\ UNCHANGED held
      /\ total' = IF held[t].total THEN Costing!With(total, held[t].key, held[t].cost) ELSE total
      /\ UNCHANGED <<daily, budget, warned, asked, today, reset, spent, unsettled, changed>>
  BY DEF Costing!AddTotal, Costing!history
<1>2. /\ GoesOn(t, "total", "take")
      /\ \A u \in Processes : u # t => stage'[u] = stage[u] /\ held'[u] = held[u]
  BY <1>1, GoesOnKept DEF CallSteps
<1>3. CostTypes /\ stage[t] = "total" /\ stage'[t] = "take"
  BY <1>1 DEF CostInv, CostTypes, Costing!Goes
<1>4. held[t].key \in CostKeys /\ held[t].cost \in Nat
  BY <1>3, CostFacts
<1>5. /\ DOMAIN total' \subseteq CostKeys /\ \A j \in DOMAIN total' : total'[j] \in Nat
      /\ \A j : Costing!Cost(total', j) = Costing!Cost(total, j)
                  + (IF held[t].total /\ j = held[t].key THEN held[t].cost ELSE 0)
  <2> DEFINE k == held[t].key
             n == held[t].cost
  <2>1. \A j \in DOMAIN total : total[j] \in Nat
    BY <1>3 DEF CostTypes
  <2>2. k \in CostKeys /\ n \in Nat /\ DOMAIN total \subseteq CostKeys
    BY <1>3, <1>4 DEF CostTypes
  <2>3. total' = IF held[t].total THEN Costing!With(total, k, n) ELSE total
    BY <1>1
  <2> HIDE DEF k, n
  <2>4. /\ DOMAIN total' \subseteq CostKeys /\ \A j \in DOMAIN total' : total'[j] \in Nat
        /\ \A j : Costing!Cost(total', j) = Costing!Cost(total, j)
                    + (IF held[t].total /\ j = k THEN n ELSE 0)
    <3>1. CASE held[t].total
      BY <2>1, <2>2, <2>3, <3>1 DEF Costing!With, Costing!Cost
    <3>2. CASE ~held[t].total
      BY <2>1, <2>2, <2>3, <3>2 DEF Costing!Cost
    <3>3. QED
      BY <3>1, <3>2
  <2>5. QED
    BY <2>4 DEF k, n
<1>6. CostTypes'
  <2>1. Costing!Days' = Costing!Days /\ Tracked' = Tracked
    BY DEF Costing!Days, Tracked
  <2>2. /\ stage' \in [Processes -> CostStages] /\ DOMAIN held' = Processes
        /\ \A u \in Processes : stage'[u] # "idle" => held'[u] \in Tracked
    <3>1. DOMAIN held' = Processes /\ \A u \in Processes : held[u] \in Tracked => held'[u] \in Tracked
      BY <1>1, <1>3 DEF CostTypes
    <3>2. QED
      BY <1>2, <1>3, <3>1, CallTypes
  <2>3. QED
    BY <1>1, <1>3, <1>5, <2>1, <2>2 DEF CostTypes
<1>7. ASSUME NEW k \in CostKeys \ unsettled' PROVE Settled(k)'
  <2>1. Settled(k)
    BY <1>1, <1>7 DEF CostInv
  <2>2. held[t].key = k => held[t].total
    BY <1>3, <2>1 DEF Settled
  <2>3. Costing!Cost(total', k)
          = Costing!Cost(total, k) + (IF held[t].key = k THEN held[t].cost ELSE 0)
    BY <1>5, <2>2
  <2>4. OfDays(k)' = OfDays(k) /\ OfDays(k) \in Nat
    <3>1. IsFiniteSet(Costing!Days) /\ \A d \in Costing!Days : Costing!Cost(daily, <<d, k>>) \in Nat
      BY CostFacts
    <3>2. OfDays(k) \in Nat
      BY <3>1, SumFinite DEF OfDays
    <3>3. QED
      BY <1>1, <3>2, DaysSame
  <2>5. reset'.keys = reset.keys /\ reset'.days = reset.days /\ reset'.stage = reset.stage
        /\ UNCHANGED spent
    BY <1>1
  <2>6. QED
    BY <1>2, <2>1, <2>3, <2>4, <2>5, SettledMoves
<1>8. ASSUME NEW d \in Costing!Days, NEW k \in CostKeys PROVE Watched(d, k)'
  <2>1. Exceeds(d, k)' => Exceeds(d, k)
    BY <1>1 DEF Exceeds, Costing!Cost
  <2>2. Asking(d, k) => Asking(d, k)'
    <3>1. ~Asks(t, d, k)
      BY <1>3 DEF Asks
    <3>2. QED
      BY <1>2, <3>1, OthersAsk
  <2>3. QED
    BY <1>1, <2>1, <2>2, WatchedKept
<1>9. QED
  BY <1>6, <1>7, <1>8, CostParts

\* What is added to the counter of a day, if it is still in the table.
LEMMA DailyWith ==
  ASSUME CostTypes, NEW d \in Costing!Days, NEW j \in CostKeys, NEW n \in Nat,
         daily' = Costing!With(daily, <<d, j>>, n)
  PROVE  /\ DOMAIN daily' \subseteq Costing!Days \X CostKeys
         /\ \A c \in DOMAIN daily' : daily'[c] \in Nat
         /\ \A c : Costing!Cost(daily', c)
                     = Costing!Cost(daily, c) + (IF c = <<d, j>> THEN n ELSE 0)
<1> DEFINE c == <<d, j>>
<1>1. /\ c \in Costing!Days \X CostKeys /\ daily' = Costing!With(daily, c, n)
      /\ DOMAIN daily \subseteq Costing!Days \X CostKeys /\ \A x \in DOMAIN daily : daily[x] \in Nat
  BY DEF CostTypes
<1> HIDE DEF c
<1>2. /\ DOMAIN daily' \subseteq Costing!Days \X CostKeys
      /\ \A x \in DOMAIN daily' : daily'[x] \in Nat
      /\ \A x : Costing!Cost(daily', x) = Costing!Cost(daily, x) + (IF x = c THEN n ELSE 0)
  BY <1>1 DEF Costing!With, Costing!Cost
<1>3. QED
  BY <1>2 DEF c

LEMMA CostTakeDaily ==
  ASSUME CostInv, NEW t \in Processes, Costing!TakeDaily(t)
  PROVE  CostInv'
<1>1. /\ Costing!Goes(t, "take", "daily") /\ UNCHANGED held
      /\ daily' = Costing!With(daily, <<held[t].day, held[t].key>>, 0)
      /\ Costing!Disturbs("daily", <<held[t].day, held[t].key>> \notin DOMAIN daily)
      /\ UNCHANGED <<total, budget, warned, asked, today, spent, unsettled, changed>>
  BY DEF Costing!TakeDaily, Costing!history
<1>2. /\ GoesOn(t, "take", "daily")
      /\ \A u \in Processes : u # t => stage'[u] = stage[u] /\ held'[u] = held[u]
  BY <1>1, GoesOnKept DEF CallSteps
<1>3. CostTypes /\ stage[t] = "take" /\ stage'[t] = "daily"
  BY <1>1 DEF CostInv, CostTypes, Costing!Goes
<1>4. held[t].key \in CostKeys /\ held[t].day \in Costing!Days /\ 0 \in Nat
  BY <1>3, CostFacts
<1>5. /\ DOMAIN daily' \subseteq Costing!Days \X CostKeys
      /\ \A c \in DOMAIN daily' : daily'[c] \in Nat
      /\ \A c : Costing!Cost(daily', c)
                  = Costing!Cost(daily, c) + (IF c = <<held[t].day, held[t].key>> THEN 0 ELSE 0)
  BY <1>1, <1>3, <1>4, DailyWith
<1>6. \A d \in Costing!Days, k \in CostKeys :
        Costing!Cost(daily', <<d, k>>) = Costing!Cost(daily, <<d, k>>)
  <2>1. \A d \in Costing!Days, k \in CostKeys : Costing!Cost(daily, <<d, k>>) \in Nat
    BY CostFacts
  <2>2. \A c : Costing!Cost(daily', c) = Costing!Cost(daily, c) + 0
    BY <1>5
  <2> TAKE d \in Costing!Days, k \in CostKeys
  <2> DEFINE c == <<d, k>>
  <2>3. Costing!Cost(daily, c) \in Nat
    BY <2>1
  <2> HIDE DEF c
  <2>4. Costing!Cost(daily', c) = Costing!Cost(daily, c)
    BY <2>2, <2>3
  <2>5. QED
    BY <2>4 DEF c
<1>7. /\ reset' \in [stage : {"idle", "total", "daily", "warned"}, keys : SUBSET CostKeys,
                     days : SUBSET Costing!Days, all : BOOLEAN, disturbed : BOOLEAN]
      /\ reset'.keys = reset.keys /\ reset'.days = reset.days /\ reset'.stage = reset.stage
  BY <1>1, <1>3 DEF CostTypes, Costing!Disturbs
<1>8. CostTypes'
  <2>1. Costing!Days' = Costing!Days /\ Tracked' = Tracked
    BY DEF Costing!Days, Tracked
  <2>2. /\ stage' \in [Processes -> CostStages] /\ DOMAIN held' = Processes
        /\ \A u \in Processes : stage'[u] # "idle" => held'[u] \in Tracked
    <3>1. DOMAIN held' = Processes /\ \A u \in Processes : held[u] \in Tracked => held'[u] \in Tracked
      BY <1>1, <1>3 DEF CostTypes
    <3>2. QED
      BY <1>2, <1>3, <3>1, CallTypes
  <2>3. QED
    BY <1>1, <1>3, <1>5, <1>7, <2>1, <2>2 DEF CostTypes
<1>9. ASSUME NEW k \in CostKeys \ unsettled' PROVE Settled(k)'
  <2>1. Settled(k)
    BY <1>1, <1>9 DEF CostInv
  <2>2. Costing!Cost(total', k) = Costing!Cost(total, k) /\ Costing!Cost(total, k) \in Nat
    BY <1>1, CostFacts DEF Costing!Cost
  <2>3. OfDays(k)' = OfDays(k) /\ OfDays(k) \in Nat
    <3>1. IsFiniteSet(Costing!Days) /\ \A d \in Costing!Days : Costing!Cost(daily, <<d, k>>) \in Nat
      BY CostFacts
    <3>2. OfDays(k) \in Nat
      BY <3>1, SumFinite DEF OfDays
    <3>3. QED
      BY <1>6, <3>2, DaysSame
  <2>4. UNCHANGED spent
    BY <1>1
  <2>5. QED
    BY <1>2, <1>7, <2>1, <2>2, <2>3, <2>4, SettledMoves
<1>10. ASSUME NEW d \in Costing!Days, NEW k \in CostKeys PROVE Watched(d, k)'
  <2>1. Exceeds(d, k)' => Exceeds(d, k)
    <3>1. Costing!Cost(daily, <<d, k>>)' = Costing!Cost(daily', <<d, k>>)
      BY DEF Costing!Cost
    <3>2. QED
      BY <1>1, <1>6, <3>1 DEF Exceeds
  <2>2. Asking(d, k) => Asking(d, k)'
    <3>1. ~Asks(t, d, k)
      BY <1>3 DEF Asks
    <3>2. QED
      BY <1>2, <3>1, OthersAsk
  <2>3. QED
    BY <1>1, <2>1, <2>2, WatchedKept
<1>11. QED
  BY <1>8, <1>9, <1>10, CostParts

LEMMA CostAddDaily ==
  ASSUME CostInv, NEW t \in Processes, Costing!AddDaily(t)
  PROVE  CostInv'
<1> DEFINE day == held[t].day
           key == held[t].key
           n == held[t].cost
<1>1. /\ Costing!Goes(t, "daily", "estimate") /\ UNCHANGED held
      /\ daily' = IF held[t].daily THEN Costing!With(daily, <<day, key>>, n) ELSE daily
      /\ UNCHANGED <<total, budget, warned, asked, today, reset, spent, unsettled, changed>>
  BY DEF Costing!AddDaily, Costing!history
<1>2. /\ GoesOn(t, "daily", "estimate")
      /\ \A u \in Processes : u # t => stage'[u] = stage[u] /\ held'[u] = held[u]
  BY <1>1, GoesOnKept DEF CallSteps
<1>3. CostTypes /\ stage[t] = "daily" /\ stage'[t] = "estimate"
  BY <1>1 DEF CostInv, CostTypes, Costing!Goes
<1>4. key \in CostKeys /\ day \in Costing!Days /\ n \in Nat
  BY <1>3, CostFacts
<1>5. /\ DOMAIN daily' \subseteq Costing!Days \X CostKeys
      /\ \A c \in DOMAIN daily' : daily'[c] \in Nat
      /\ \A d \in Costing!Days, k \in CostKeys : <<d, k>> # <<day, key>> =>
           Costing!Cost(daily', <<d, k>>) = Costing!Cost(daily, <<d, k>>)
  <2>1. CASE held[t].daily
    <3> HIDE DEF day, key, n
    <3>1. /\ DOMAIN daily' \subseteq Costing!Days \X CostKeys
          /\ \A c \in DOMAIN daily' : daily'[c] \in Nat
          /\ \A c : Costing!Cost(daily', c)
                      = Costing!Cost(daily, c) + (IF c = <<day, key>> THEN n ELSE 0)
      BY <1>1, <1>3, <1>4, <2>1, DailyWith
    <3>2. \A d \in Costing!Days, k \in CostKeys : Costing!Cost(daily, <<d, k>>) \in Nat
      BY CostFacts
    <3>3. \A c : c # <<day, key>> => Costing!Cost(daily', c) = Costing!Cost(daily, c) + 0
      BY <3>1
    <3>4. QED
      BY <3>1, <3>2, <3>3
  <2>2. CASE ~held[t].daily
    BY <1>1, <1>3, <2>2 DEF CostTypes
  <2>3. QED
    BY <2>1, <2>2
<1>6. CostTypes'
  <2>1. Costing!Days' = Costing!Days /\ Tracked' = Tracked
    BY DEF Costing!Days, Tracked
  <2>2. /\ stage' \in [Processes -> CostStages] /\ DOMAIN held' = Processes
        /\ \A u \in Processes : stage'[u] # "idle" => held'[u] \in Tracked
    <3>1. DOMAIN held' = Processes /\ \A u \in Processes : held[u] \in Tracked => held'[u] \in Tracked
      BY <1>1, <1>3 DEF CostTypes
    <3>2. QED
      BY <1>2, <1>3, <3>1, CallTypes
  <2>3. QED
    BY <1>1, <1>3, <1>5, <2>1, <2>2 DEF CostTypes
<1>7. ASSUME NEW k \in CostKeys \ unsettled' PROVE Settled(k)'
  <2>1. Settled(k)
    BY <1>1, <1>7 DEF CostInv
  <2>2. held[t].key = k => held[t].daily
    BY <1>3, <2>1 DEF Settled
  <2>3. Costing!Cost(total', k) = Costing!Cost(total, k) /\ Costing!Cost(total, k) \in Nat
    BY <1>1, CostFacts DEF Costing!Cost
  <2>4. OfDays(k) \in Nat
    <3>1. IsFiniteSet(Costing!Days) /\ \A d \in Costing!Days : Costing!Cost(daily, <<d, k>>) \in Nat
      BY CostFacts
    <3>2. QED
      BY <3>1, SumFinite DEF OfDays
  <2>5. OfDays(k)' = OfDays(k) + (IF key = k THEN n ELSE 0)
    <3>1. CASE held[t].daily
      <4> HIDE DEF day, key, n
      <4>1. daily' = Costing!With(daily, <<day, key>>, n)
        BY <1>1, <3>1
      <4>2. OfDays(k)' = OfDays(k) + (IF k = key THEN n ELSE 0)
        BY <1>4, <4>1, DaysWith
      <4>3. QED
        BY <4>2
    <3>2. CASE ~held[t].daily
      <4>1. OfDays(k)' = OfDays(k)
        BY <1>1, <3>2, DaysSame
      <4>2. QED
        BY <2>2, <2>4, <3>2, <4>1
    <3>3. QED
      BY <3>1, <3>2
  <2>6. /\ reset'.keys = reset.keys /\ reset'.days = reset.days /\ reset'.stage = reset.stage
        /\ UNCHANGED spent
    BY <1>1
  <2>7. QED
    BY <1>2, <2>1, <2>3, <2>5, <2>6, SettledMoves
<1>8. ASSUME NEW d \in Costing!Days, NEW k \in CostKeys PROVE Watched(d, k)'
  <2>1. CASE d = day /\ k = key
    <3>1. Asks(t, d, k)'
      BY <1>1, <1>3, <2>1 DEF Asks
    <3>2. Asking(d, k)'
      BY <3>1 DEF Asking, Asks
    <3>3. QED
      BY <3>2 DEF Watched
  <2>2. CASE ~(d = day /\ k = key)
    <3>1. Exceeds(d, k)' => Exceeds(d, k)
      <4>1. Costing!Cost(daily, <<d, k>>)' = Costing!Cost(daily, <<d, k>>)
        <5>1. Costing!Cost(daily, <<d, k>>)' = Costing!Cost(daily', <<d, k>>)
          BY DEF Costing!Cost
        <5>2. <<d, k>> # <<day, key>>
          BY <2>2
        <5> HIDE DEF day, key
        <5>3. QED
          BY <1>5, <5>1, <5>2
      <4>2. QED
        BY <1>1, <4>1 DEF Exceeds
    <3>2. Asking(d, k) => Asking(d, k)'
      <4>1. ~Asks(t, d, k)
        BY <1>3 DEF Asks
      <4>2. QED
        BY <1>2, <4>1, OthersAsk
    <3>3. QED
      BY <1>1, <3>1, <3>2, WatchedKept
  <2>3. QED
    BY <2>1, <2>2
<1>9. QED
  BY <1>6, <1>7, <1>8, CostParts

\* The steps of a call that change neither a counter nor what was spent.
LEMMA SettledGoesOn ==
  ASSUME CostInv, NEW t \in Processes, NEW from, NEW to, GoesOn(t, from, to),
         from \notin {"total", "daily"}, UNCHANGED <<total, daily, reset, spent>>,
         NEW k \in CostKeys, Settled(k)
  PROVE  Settled(k)'
<1>1. Costing!Cost(total', k) = Costing!Cost(total, k) /\ Costing!Cost(total, k) \in Nat
  BY CostFacts DEF Costing!Cost
<1>2. OfDays(k)' = OfDays(k) /\ OfDays(k) \in Nat
  <2>1. IsFiniteSet(Costing!Days) /\ \A d \in Costing!Days : Costing!Cost(daily, <<d, k>>) \in Nat
    BY CostFacts
  <2>2. OfDays(k) \in Nat
    BY <2>1, SumFinite DEF OfDays
  <2>3. QED
    BY <2>2, DaysSame
<1>3. /\ reset'.keys = reset.keys /\ reset'.days = reset.days /\ reset'.stage = reset.stage
      /\ UNCHANGED spent
  OBVIOUS
<1>4. /\ Costing!Cost(total', k)
           = Costing!Cost(total, k) + (IF held[t].key = k /\ from = "total" THEN held[t].cost ELSE 0)
      /\ OfDays(k)' = OfDays(k) + (IF held[t].key = k /\ from = "daily" THEN held[t].cost ELSE 0)
  BY <1>1, <1>2
<1>5. QED
  BY <1>3, <1>4, SettledMoves

LEMMA CostEstimateDaily ==
  ASSUME CostInv, NEW t \in Processes, Costing!EstimateDaily(t)
  PROVE  CostInv'
<1> DEFINE day == held[t].day
           key == held[t].key
           n == Costing!Cost(daily, <<day, key>>)
           entry == [held[t] EXCEPT !.current = n, !.budget = budget[key]]
<1>1. /\ Costing!Goes(t, "estimate", "warn")
      /\ held' = [held EXCEPT ![t] = entry]
      /\ changed' = changed \ {<<day, key>>}
      /\ UNCHANGED <<total, daily, budget, warned, asked, today, reset, spent, unsettled>>
  BY DEF Costing!EstimateDaily, Costing!books
<1>2. /\ CostTypes /\ stage[t] = "estimate" /\ stage'[t] = "warn" /\ stage' = [stage EXCEPT ![t] = "warn"]
      /\ \A u \in Processes : u # t => stage'[u] = stage[u]
  BY <1>1 DEF CostInv, CostTypes, Costing!Goes
<1>3. /\ DOMAIN held' = Processes /\ held'[t] = entry
      /\ \A u \in Processes : u # t => held'[u] = held[u]
  <2> HIDE DEF entry
  <2>1. QED
    BY <1>1, <1>2 DEF CostTypes
<1>4. key \in CostKeys /\ day \in Costing!Days /\ n \in Nat /\ budget[key] \in Budgets \cup {None}
  BY <1>2, CostFacts DEF CostTypes
<1>5. held[t] \in Tracked
  BY <1>2 DEF CostTypes
<1>6. /\ entry \in Tracked
      /\ entry.key = key /\ entry.day = day /\ entry.cost = held[t].cost
      /\ entry.total = held[t].total /\ entry.daily = held[t].daily
      /\ entry.current = n /\ entry.budget = budget[key]
  <2> DEFINE b == budget[key]
             c == n
  <2>1. c \in Nat /\ b \in Budgets \cup {None}
    BY <1>4
  <2> HIDE DEF b, c
  <2>2. /\ [held[t] EXCEPT !.current = c, !.budget = b] \in Tracked
        /\ [held[t] EXCEPT !.current = c, !.budget = b].key = key
        /\ [held[t] EXCEPT !.current = c, !.budget = b].day = day
        /\ [held[t] EXCEPT !.current = c, !.budget = b].cost = held[t].cost
        /\ [held[t] EXCEPT !.current = c, !.budget = b].total = held[t].total
        /\ [held[t] EXCEPT !.current = c, !.budget = b].daily = held[t].daily
        /\ [held[t] EXCEPT !.current = c, !.budget = b].current = c
        /\ [held[t] EXCEPT !.current = c, !.budget = b].budget = b
    BY <1>5, <2>1 DEF Tracked
  <2>3. QED
    BY <2>2 DEF b, c
<1>7. GoesOn(t, "estimate", "warn")
  <2>1. \A u \in Processes :
          /\ held'[u].key = held[u].key /\ held'[u].cost = held[u].cost
          /\ held'[u].total = held[u].total /\ held'[u].daily = held[u].daily
    <3> HIDE DEF entry
    <3>1. QED
      BY <1>3, <1>6
  <2>2. QED
    BY <1>2, <2>1 DEF GoesOn, CallSteps
<1>8. CostTypes'
  <2>1. Costing!Days' = Costing!Days /\ Tracked' = Tracked
    BY DEF Costing!Days, Tracked
  <2>2. /\ stage' \in [Processes -> CostStages] /\ DOMAIN held' = Processes
        /\ \A u \in Processes : stage'[u] # "idle" => held'[u] \in Tracked
    <3>1. \A u \in Processes : held[u] \in Tracked => held'[u] \in Tracked
      <4> HIDE DEF entry
      <4>1. QED
        BY <1>3, <1>6
    <3>2. QED
      BY <1>2, <1>3, <1>7, <3>1, CallTypes
  <2>3. QED
    BY <1>1, <1>2, <2>1, <2>2 DEF CostTypes
<1>9. ASSUME NEW k \in CostKeys \ unsettled' PROVE Settled(k)'
  <2>1. Settled(k) /\ UNCHANGED <<total, daily, reset, spent>>
    BY <1>1, <1>9 DEF CostInv
  <2>2. QED
    BY <1>7, <2>1, SettledGoesOn
<1>10. ASSUME NEW d \in Costing!Days, NEW k \in CostKeys PROVE Watched(d, k)'
  <2>1. Exceeds(d, k)' => Exceeds(d, k)
    BY <1>1 DEF Exceeds, Costing!Cost
  <2>2. CASE d = day /\ k = key
    <3>1. ASSUME Exceeds(d, k) PROVE Asking(d, k)'
      <4>1. budget[key] # None /\ n > budget[key]
        BY <2>2, <3>1 DEF Exceeds
      <4> DEFINE rec == held'[t]
      <4>2. /\ rec.day = day /\ rec.key = key /\ rec.budget = budget[key] /\ rec.current = n
        BY <1>3, <1>6
      <4> HIDE DEF day, key, n, rec
      <4>3. rec.budget # None /\ rec.current > rec.budget /\ rec.day = d /\ rec.key = k
        BY <2>2, <4>1, <4>2
      <4>4. Asks(t, d, k)'
        BY <1>2, <4>3 DEF Asks, rec
      <4>5. QED
        BY <4>4 DEF Asking, Asks
    <3>2. QED
      BY <2>1, <3>1 DEF Watched
  <2>3. CASE ~(d = day /\ k = key)
    <3>1. Asking(d, k) => Asking(d, k)'
      <4>1. ~Asks(t, d, k)
        BY <2>3 DEF Asks
      <4>2. QED
        BY <1>2, <1>3, <4>1, OthersAsk
    <3>2. <<d, k>> \notin changed' => <<d, k>> \notin changed
      BY <1>1, <2>3
    <3>3. Watched(d, k)
      BY DEF CostInv, Watched
    <3>4. QED
      BY <1>1, <2>1, <3>1, <3>2, <3>3 DEF Watched
  <2>4. QED
    BY <2>2, <2>3
<1>11. QED
  BY <1>8, <1>9, <1>10, CostParts

LEMMA CostWarn ==
  ASSUME CostInv, NEW t \in Processes, Costing!Warn(t)
  PROVE  CostInv'
<1>1. /\ Costing!Goes(t, "warn", "exceed")
      /\ warned' = IF held[t].budget # None /\ 10 * held[t].current >= 8 * held[t].budget
                   THEN warned \cup {<<held[t].day, held[t].key>>} ELSE warned
      /\ UNCHANGED <<held, total, daily, budget, asked, today, reset, spent, unsettled, changed>>
  BY DEF Costing!Warn, Costing!books, Costing!history
<1>2. /\ GoesOn(t, "warn", "exceed")
      /\ \A u \in Processes : u # t => stage'[u] = stage[u] /\ held'[u] = held[u]
  BY <1>1, GoesOnKept DEF CallSteps
<1>3. CostTypes /\ stage[t] = "warn" /\ stage'[t] = "exceed"
  BY <1>1 DEF CostInv, CostTypes, Costing!Goes
<1>4. held[t].key \in CostKeys /\ held[t].day \in Costing!Days
  BY <1>3, CostFacts
<1>5. warned' \subseteq Costing!Days \X CostKeys
  BY <1>1, <1>3, <1>4 DEF CostTypes
<1>6. CostTypes'
  <2>1. Costing!Days' = Costing!Days /\ Tracked' = Tracked
    BY DEF Costing!Days, Tracked
  <2>2. /\ stage' \in [Processes -> CostStages] /\ DOMAIN held' = Processes
        /\ \A u \in Processes : stage'[u] # "idle" => held'[u] \in Tracked
    <3>1. DOMAIN held' = Processes /\ \A u \in Processes : held[u] \in Tracked => held'[u] \in Tracked
      BY <1>1, <1>3 DEF CostTypes
    <3>2. QED
      BY <1>2, <1>3, <3>1, CallTypes
  <2>3. QED
    BY <1>1, <1>3, <1>5, <2>1, <2>2 DEF CostTypes
<1>7. ASSUME NEW k \in CostKeys \ unsettled' PROVE Settled(k)'
  <2>1. Settled(k) /\ UNCHANGED <<total, daily, reset, spent>>
    BY <1>1, <1>7 DEF CostInv
  <2>2. QED
    BY <1>2, <2>1, SettledGoesOn
<1>8. ASSUME NEW d \in Costing!Days, NEW k \in CostKeys PROVE Watched(d, k)'
  <2>1. Exceeds(d, k)' => Exceeds(d, k)
    BY <1>1 DEF Exceeds, Costing!Cost
  <2>2. Asking(d, k) => Asking(d, k)'
    <3>1. Asks(t, d, k) => Asks(t, d, k)'
      BY <1>1, <1>3 DEF Asks
    <3>2. QED
      BY <1>2, <3>1, OthersAsk
  <2>3. QED
    BY <1>1, <2>1, <2>2, WatchedKept
<1>9. QED
  BY <1>6, <1>7, <1>8, CostParts

LEMMA CostExceed ==
  ASSUME CostInv, NEW t \in Processes, Costing!Exceed(t)
  PROVE  CostInv'
<1>1. /\ Costing!Goes(t, "exceed", "idle")
      /\ asked' = IF held[t].budget # None /\ held[t].current > held[t].budget
                  THEN asked \cup {<<held[t].day, held[t].key>>} ELSE asked
      /\ UNCHANGED <<held, total, daily, budget, warned, today, reset, spent, unsettled, changed>>
  BY DEF Costing!Exceed, Costing!books, Costing!history
<1>2. /\ GoesOn(t, "exceed", "idle")
      /\ \A u \in Processes : u # t => stage'[u] = stage[u] /\ held'[u] = held[u]
  BY <1>1, GoesOnKept DEF CallSteps
<1>3. CostTypes /\ stage[t] = "exceed" /\ stage'[t] = "idle"
  BY <1>1 DEF CostInv, CostTypes, Costing!Goes
<1>4. held[t].key \in CostKeys /\ held[t].day \in Costing!Days
  BY <1>3, CostFacts
<1>5. asked' \subseteq Costing!Days \X CostKeys
  BY <1>1, <1>3, <1>4 DEF CostTypes
<1>6. CostTypes'
  <2>1. Costing!Days' = Costing!Days /\ Tracked' = Tracked
    BY DEF Costing!Days, Tracked
  <2>2. /\ stage' \in [Processes -> CostStages] /\ DOMAIN held' = Processes
        /\ \A u \in Processes : stage'[u] # "idle" => held'[u] \in Tracked
    <3>1. DOMAIN held' = Processes /\ \A u \in Processes : held[u] \in Tracked => held'[u] \in Tracked
      BY <1>1, <1>3 DEF CostTypes
    <3>2. QED
      BY <1>2, <1>3, <3>1, CallTypes
  <2>3. QED
    BY <1>1, <1>3, <1>5, <2>1, <2>2 DEF CostTypes
<1>7. ASSUME NEW k \in CostKeys \ unsettled' PROVE Settled(k)'
  <2>1. Settled(k) /\ UNCHANGED <<total, daily, reset, spent>>
    BY <1>1, <1>7 DEF CostInv
  <2>2. QED
    BY <1>2, <2>1, SettledGoesOn
<1>8. ASSUME NEW d \in Costing!Days, NEW k \in CostKeys PROVE Watched(d, k)'
  <2>1. Exceeds(d, k)' => Exceeds(d, k)
    BY <1>1 DEF Exceeds, Costing!Cost
  <2>2. Asking(d, k) => Asking(d, k)' \/ <<d, k>> \in asked'
    <3>1. CASE Asks(t, d, k)
      BY <1>1, <1>3, <3>1 DEF Asks
    <3>2. CASE ~Asks(t, d, k)
      BY <1>2, <3>2, OthersAsk
    <3>3. QED
      BY <3>1, <3>2
  <2>3. changed \subseteq changed' /\ asked \subseteq asked'
    BY <1>1
  <2>4. QED
    BY <2>1, <2>2, <2>3, WatchedKept
<1>9. QED
  BY <1>6, <1>7, <1>8, CostParts

\* A step that leaves calls, counters and what was spent alone keeps a key settled, if a
\* reset that is under way then neither tracks it nor leaves counters of it.
LEMMA SettledKept ==
  ASSUME CostInv, UNCHANGED <<stage, held, total, daily, spent>>, NEW k \in CostKeys, Settled(k),
         k \in reset'.keys => ~Costing!Tracking(k) /\ reset'.days = Costing!Days,
         ~(reset'.stage = "daily" /\ k \in reset'.keys), reset.stage # "daily" \/ k \notin reset.keys
  PROVE  Settled(k)'
<1>1. /\ DueToTotal(k)' = DueToTotal(k) /\ DueToDays(k)' = DueToDays(k)
      /\ Costing!Tracking(k)' <=> Costing!Tracking(k)
  BY DueSame
<1>2. OfDays(k)' = OfDays(k)
  BY DaysSame
<1>3. Costing!Days' = Costing!Days /\ Costing!Cost(total, k)' = Costing!Cost(total, k)
  BY DEF Costing!Days, Costing!Cost
<1>4. QED
  BY <1>1, <1>2, <1>3 DEF Settled

\* A step that leaves costs, budgets and calls alone keeps what is watched.
LEMMA WatchedSame ==
  ASSUME CostInv, UNCHANGED <<stage, held, daily, budget, asked, changed>>,
         NEW d \in Costing!Days, NEW k \in CostKeys
  PROVE  Watched(d, k)'
<1>1. Exceeds(d, k)' => Exceeds(d, k)
  BY DEF Exceeds, Costing!Cost
<1>2. Asking(d, k) => Asking(d, k)'
  BY DEF Asking
<1>3. QED
  BY <1>1, <1>2, WatchedKept

LEMMA CostSetBudget ==
  ASSUME CostInv, NEW j \in CostKeys, NEW n \in Budgets, Costing!SetBudget(j, n)
  PROVE  CostInv'
<1>1. /\ budget' = [budget EXCEPT ![j] = n] /\ changed' = changed \cup (Costing!Days \X {j})
      /\ UNCHANGED <<stage, held, total, daily, warned, asked, today, reset, spent, unsettled>>
  BY DEF Costing!SetBudget, Costing!books
<1>2. CostTypes
  BY DEF CostInv
<1>3. budget' \in [CostKeys -> Budgets \cup {None}] /\ \A k \in CostKeys : k # j => budget'[k] = budget[k]
  BY <1>1, <1>2 DEF CostTypes
<1>4. CostTypes'
  <2>1. Costing!Days' = Costing!Days /\ Tracked' = Tracked
    BY DEF Costing!Days, Tracked
  <2>2. QED
    BY <1>1, <1>2, <1>3, <2>1 DEF CostTypes
<1>5. ASSUME NEW k \in CostKeys \ unsettled' PROVE Settled(k)'
  <2>1. Settled(k)
    BY <1>1, <1>5 DEF CostInv
  <2>2. /\ DueToTotal(k)' = DueToTotal(k) /\ DueToDays(k)' = DueToDays(k)
        /\ Costing!Tracking(k)' <=> Costing!Tracking(k)
    BY <1>1, DueSame
  <2>3. OfDays(k)' = OfDays(k)
    BY <1>1, DaysSame
  <2>4. Costing!Days' = Costing!Days /\ Costing!Cost(total, k)' = Costing!Cost(total, k)
    BY <1>1 DEF Costing!Days, Costing!Cost
  <2>5. QED
    BY <1>1, <2>1, <2>2, <2>3, <2>4 DEF Settled
<1>6. ASSUME NEW d \in Costing!Days, NEW k \in CostKeys PROVE Watched(d, k)'
  <2>1. CASE k = j
    <3>1. <<d, k>> \in changed'
      BY <1>1, <2>1
    <3>2. QED
      BY <3>1 DEF Watched
  <2>2. CASE k # j
    <3>1. Exceeds(d, k)' => Exceeds(d, k)
      BY <1>1, <1>3, <2>2 DEF Exceeds, Costing!Cost
    <3>2. Asking(d, k) => Asking(d, k)'
      BY <1>1 DEF Asking
    <3>3. changed \subseteq changed' /\ asked \subseteq asked'
      BY <1>1
    <3>4. QED
      BY <3>1, <3>2, <3>3, WatchedKept
  <2>3. QED
    BY <2>1, <2>2
<1>7. QED
  BY <1>4, <1>5, <1>6, CostParts

\* Records of resets.
Resets == [stage : {"idle", "total", "daily", "warned"}, keys : SUBSET CostKeys,
           days : SUBSET Costing!Days, all : BOOLEAN, disturbed : BOOLEAN]

LEMMA IdleReset == Costing!Idle \in Resets /\ Costing!Idle.keys = {} /\ Costing!Idle.stage = "idle"
BY DEF Costing!Idle, Resets

\* The types of a step of a reset that leaves the rest alone.
LEMMA ResetTypes ==
  ASSUME CostTypes, reset' \in Resets, warned' \subseteq warned,
         UNCHANGED <<stage, held, total, daily, budget, asked, today, spent>>
  PROVE  CostTypes'
<1>1. Costing!Days' = Costing!Days /\ Tracked' = Tracked
  BY DEF Costing!Days, Tracked
<1>2. QED
  BY <1>1 DEF CostTypes, Resets

LEMMA CostReset ==
  ASSUME CostInv, NEW ks \in Scopes, Costing!Reset(ks)
  PROVE  CostInv'
<1>1. /\ reset = Costing!Idle
      /\ reset' = [Costing!Idle EXCEPT !.stage = "total", !.keys = ks, !.days = Costing!Days,
                                       !.all = ks = CostKeys]
      /\ unsettled' = unsettled \cup {k \in ks : Costing!Tracking(k)}
      /\ UNCHANGED <<stage, held, total, daily, budget, warned, asked, today, spent, changed>>
  BY DEF Costing!Reset, Costing!books
<1>2. ks \subseteq CostKeys
  BY ServicesAssumption DEF ServicesAssumption
<1>3. /\ reset' \in Resets
      /\ reset'.stage = "total" /\ reset'.keys = ks /\ reset'.days = Costing!Days
  <2> DEFINE a == ks = CostKeys
  <2>1. a \in BOOLEAN
    OBVIOUS
  <2>2. reset' = [Costing!Idle EXCEPT !.stage = "total", !.keys = ks, !.days = Costing!Days, !.all = a]
    BY <1>1
  <2> HIDE DEF a
  <2>3. QED
    BY <1>2, <2>1, <2>2 DEF Resets, Costing!Idle
<1>4. CostTypes'
  <2>1. CostTypes
    BY DEF CostInv
  <2>2. QED
    BY <1>1, <1>3, <2>1, ResetTypes
<1>5. ASSUME NEW k \in CostKeys \ unsettled' PROVE Settled(k)'
  <2>1. Settled(k) /\ (k \in ks => ~Costing!Tracking(k))
    BY <1>1, <1>5 DEF CostInv
  <2>2. reset.stage # "daily"
    BY <1>1, IdleReset
  <2>3. QED
    BY <1>1, <1>3, <2>1, <2>2, SettledKept
<1>6. \A d \in Costing!Days, k \in CostKeys : Watched(d, k)'
  BY <1>1, WatchedSame
<1>7. QED
  BY <1>4, <1>5, <1>6, CostParts

LEMMA CostResetDaily ==
  ASSUME CostInv, NEW day \in Costing!Days, NEW ks \in Scopes, Costing!ResetDaily(day, ks)
  PROVE  CostInv'
<1>1. /\ reset = Costing!Idle
      /\ reset' = [Costing!Idle EXCEPT !.stage = "daily", !.keys = ks, !.days = {day}]
      /\ unsettled' = unsettled \cup ks
      /\ UNCHANGED <<stage, held, total, daily, budget, warned, asked, today, spent, changed>>
  BY DEF Costing!ResetDaily, Costing!books
<1>2. ks \subseteq CostKeys
  BY ServicesAssumption DEF ServicesAssumption
<1>3. reset' \in Resets /\ reset'.keys = ks
  BY <1>1, <1>2 DEF Resets, Costing!Idle
<1>4. CostTypes'
  <2>1. CostTypes
    BY DEF CostInv
  <2>2. QED
    BY <1>1, <1>3, <2>1, ResetTypes
<1>5. ASSUME NEW k \in CostKeys \ unsettled' PROVE Settled(k)'
  <2>1. Settled(k) /\ k \notin reset'.keys
    BY <1>1, <1>3, <1>5 DEF CostInv
  <2>2. reset.stage # "daily"
    BY <1>1, IdleReset
  <2>3. QED
    BY <1>1, <2>1, <2>2, SettledKept
<1>6. \A d \in Costing!Days, k \in CostKeys : Watched(d, k)'
  BY <1>1, WatchedSame
<1>7. QED
  BY <1>4, <1>5, <1>6, CostParts

\* A reset that raises leaves the keys it was for unsettled.
LEMMA CostRaises ==
  ASSUME CostInv, reset' = Costing!Idle, unsettled' = unsettled \cup reset.keys,
         UNCHANGED <<stage, held, total, daily, budget, warned, asked, today, spent, changed>>
  PROVE  CostInv'
<1>1. CostTypes'
  <2>1. CostTypes
    BY DEF CostInv
  <2>2. QED
    BY <2>1, IdleReset, ResetTypes
<1>2. ASSUME NEW k \in CostKeys \ unsettled' PROVE Settled(k)'
  <2>1. Settled(k) /\ k \notin reset.keys /\ k \notin reset'.keys
    BY <1>2, IdleReset DEF CostInv
  <2>2. QED
    BY <2>1, SettledKept
<1>3. \A d \in Costing!Days, k \in CostKeys : Watched(d, k)'
  BY WatchedSame
<1>4. QED
  BY <1>1, <1>2, <1>3, CostParts

LEMMA CostClearWarnings ==
  ASSUME CostInv, Costing!ClearWarnings
  PROVE  CostInv'
<1>1. /\ reset.stage = "warned" /\ reset' = Costing!Idle /\ warned' = {}
      /\ UNCHANGED <<stage, held, total, daily, budget, asked, today, spent, unsettled, changed>>
  BY DEF Costing!ClearWarnings, Costing!books, Costing!history
<1>2. CostTypes'
  <2>1. CostTypes
    BY DEF CostInv
  <2>2. QED
    BY <1>1, <2>1, IdleReset, ResetTypes
<1>3. ASSUME NEW k \in CostKeys \ unsettled' PROVE Settled(k)'
  <2>1. Settled(k) /\ k \notin reset'.keys
    BY <1>1, <1>3, IdleReset DEF CostInv
  <2>2. QED
    BY <1>1, <2>1, SettledKept
<1>4. \A d \in Costing!Days, k \in CostKeys : Watched(d, k)'
  BY <1>1, WatchedSame
<1>5. QED
  BY <1>2, <1>3, <1>4, CostParts

\* Threads whose records only lose a counter ask as they did.
LEMMA AskingDropped ==
  ASSUME UNCHANGED stage, NEW d, NEW k,
         \A t \in Processes : stage[t] # "idle" =>
           /\ held'[t].day = held[t].day /\ held'[t].key = held[t].key
           /\ held'[t].budget = held[t].budget /\ held'[t].current = held[t].current
  PROVE  Asking(d, k) => Asking(d, k)'
<1>1. SUFFICES ASSUME Asking(d, k) PROVE Asking(d, k)'
  OBVIOUS
<1>2. PICK t \in Processes : Asks(t, d, k)
  BY <1>1 DEF Asking, Asks
<1>3. Asks(t, d, k)'
  BY <1>2 DEF Asks
<1>4. QED
  BY <1>3 DEF Asking, Asks

LEMMA CostResetTotals ==
  ASSUME CostInv, Costing!ResetTotals
  PROVE  CostInv'
<1>1. CASE Costing!Raises
  <2>1. /\ reset' = Costing!Idle /\ unsettled' = unsettled \cup reset.keys
        /\ UNCHANGED <<stage, held, total, daily, budget, warned, asked, today, spent, changed>>
    BY <1>1 DEF Costing!ResetTotals
  <2>2. QED
    BY <2>1, CostRaises
<1>2. CASE ~Costing!Raises
  <2> DEFINE hit(t) == stage[t] # "idle" /\ held[t].key \in reset.keys
  <2>1. /\ reset.stage = "total"
        /\ reset' = [reset EXCEPT !.stage = "daily", !.disturbed = FALSE]
        /\ total' = Costing!Restrict(total, DOMAIN total \ reset.keys)
        /\ held' = [t \in Processes |-> IF hit(t) THEN [held[t] EXCEPT !.total = FALSE] ELSE held[t]]
        /\ spent' = [k \in CostKeys |-> IF k \in reset.keys THEN 0 ELSE spent[k]]
        /\ UNCHANGED <<stage, daily, budget, warned, asked, today, unsettled, changed>>
    BY <1>2 DEF Costing!ResetTotals
  <2>2. CostTypes /\ reset \in Resets
    BY DEF CostInv, CostTypes, Resets
  <2>3. /\ reset' \in Resets /\ reset'.stage = "daily"
        /\ reset'.keys = reset.keys /\ reset'.days = reset.days
    BY <2>1, <2>2 DEF Resets
  <2>4. /\ DOMAIN total' = DOMAIN total \ reset.keys
        /\ \A k \in DOMAIN total' : total'[k] = total[k]
    BY <2>1 DEF Costing!Restrict
  <2>5. \A k : Costing!Cost(total', k) = IF k \in reset.keys THEN 0 ELSE Costing!Cost(total, k)
    BY <2>4 DEF Costing!Cost
  <2>6. \A t \in Processes : held[t] \in Tracked =>
          /\ [held[t] EXCEPT !.total = FALSE] \in Tracked
          /\ [held[t] EXCEPT !.total = FALSE].key = held[t].key
          /\ [held[t] EXCEPT !.total = FALSE].day = held[t].day
          /\ [held[t] EXCEPT !.total = FALSE].cost = held[t].cost
          /\ [held[t] EXCEPT !.total = FALSE].daily = held[t].daily
          /\ [held[t] EXCEPT !.total = FALSE].current = held[t].current
          /\ [held[t] EXCEPT !.total = FALSE].budget = held[t].budget
    BY DEF Tracked
  <2>7. \A t \in Processes : stage[t] # "idle" =>
          /\ held'[t] \in Tracked /\ held'[t].key = held[t].key /\ held'[t].day = held[t].day
          /\ held'[t].cost = held[t].cost /\ held'[t].daily = held[t].daily
          /\ held'[t].current = held[t].current /\ held'[t].budget = held[t].budget
    <3> TAKE t \in Processes
    <3>1. SUFFICES ASSUME stage[t] # "idle"
                   PROVE  /\ held'[t] \in Tracked /\ held'[t].key = held[t].key /\ held'[t].day = held[t].day
                          /\ held'[t].cost = held[t].cost /\ held'[t].daily = held[t].daily
                          /\ held'[t].current = held[t].current /\ held'[t].budget = held[t].budget
      OBVIOUS
    <3>2. held[t] \in Tracked
      BY <2>2, <3>1 DEF CostTypes
    <3>3. held'[t] = [held[t] EXCEPT !.total = FALSE] \/ held'[t] = held[t]
      BY <2>1
    <3>4. QED
      BY <2>6, <3>2, <3>3
  <2>8. CostTypes'
    <3>1. Costing!Days' = Costing!Days /\ Tracked' = Tracked
      BY DEF Costing!Days, Tracked
    <3>2. spent' \in [CostKeys -> Nat]
      BY <2>1, <2>2 DEF CostTypes
    <3>3. DOMAIN total' \subseteq CostKeys /\ \A k \in DOMAIN total' : total'[k] \in Nat
      BY <2>2, <2>4 DEF CostTypes
    <3>4. DOMAIN held' = Processes
      BY <2>1
    <3>5. \A t \in Processes : stage'[t] # "idle" => held'[t] \in Tracked'
      BY <2>1, <2>7, <3>1
    <3>6. QED
      BY <2>1, <2>2, <2>3, <3>1, <3>2, <3>3, <3>4, <3>5 DEF CostTypes, Resets
  <2>9. ASSUME NEW k \in CostKeys \ unsettled' PROVE Settled(k)'
    <3>1. Settled(k)
      BY <2>1, <2>9 DEF CostInv
    <3>2. /\ DueToTotal(k)' = DueToTotal(k) /\ DueToDays(k)' = DueToDays(k)
          /\ Costing!Tracking(k)' <=> Costing!Tracking(k)
      BY <2>1, <2>7, DueSame
    <3>3. OfDays(k)' = OfDays(k)
      BY <2>1, DaysSame
    <3>4. Costing!Days' = Costing!Days /\ Costing!Cost(total, k)' = Costing!Cost(total', k)
      BY DEF Costing!Days, Costing!Cost
    <3>5. CASE k \in reset.keys
      <4>1. ~Costing!Tracking(k) /\ reset.days = Costing!Days
        BY <3>1, <3>5 DEF Settled
      <4>2. DueToTotal(k) = 0
        BY <4>1, NothingDue
      <4>3. Costing!Cost(total', k) = 0 /\ spent'[k] = 0
        BY <2>1, <2>5, <3>5
      <4>4. \A t \in Processes : ~(stage'[t] # "idle" /\ held'[t].key = k)
        BY <3>2, <4>1 DEF Costing!Tracking
      <4>5. QED
        BY <2>3, <3>2, <3>4, <3>5, <4>1, <4>2, <4>3, <4>4 DEF Settled
    <3>6. CASE k \notin reset.keys
      <4>1. Costing!Cost(total', k) = Costing!Cost(total, k) /\ spent'[k] = spent[k]
        BY <2>1, <2>5, <3>6
      <4>2. ASSUME NEW t \in Processes, stage'[t] # "idle", held'[t].key = k
            PROVE  held'[t].total /\ held'[t].daily
        <5>1. stage[t] # "idle" /\ held[t].key = k
          BY <2>1, <2>7, <4>2
        <5>2. held'[t] = held[t]
          BY <2>1, <3>6, <5>1
        <5>3. QED
          BY <3>1, <5>1, <5>2 DEF Settled
      <4>3. QED
        BY <2>3, <3>1, <3>2, <3>3, <3>4, <3>6, <4>1, <4>2 DEF Settled
    <3>7. QED
      BY <3>5, <3>6
  <2>10. ASSUME NEW d \in Costing!Days, NEW k \in CostKeys PROVE Watched(d, k)'
    <3>1. Exceeds(d, k)' => Exceeds(d, k)
      BY <2>1 DEF Exceeds, Costing!Cost
    <3>2. Asking(d, k) => Asking(d, k)'
      BY <2>1, <2>7, AskingDropped
    <3>3. QED
      BY <2>1, <3>1, <3>2, WatchedKept
  <2>11. QED
    BY <2>8, <2>9, <2>10, CostParts
<1>3. QED
  BY <1>1, <1>2

LEMMA CostResetDailies ==
  ASSUME CostInv, Costing!ResetDailies
  PROVE  CostInv'
<1>1. CASE Costing!Raises
  <2>1. /\ reset' = Costing!Idle /\ unsettled' = unsettled \cup reset.keys
        /\ UNCHANGED <<stage, held, total, daily, budget, warned, asked, today, spent, changed>>
    BY <1>1 DEF Costing!ResetDailies
  <2>2. QED
    BY <2>1, CostRaises
<1>2. CASE ~Costing!Raises
  <2> DEFINE gone == (reset.days \X reset.keys) \cap DOMAIN daily
             hit(t) == stage[t] # "idle" /\ <<held[t].day, held[t].key>> \in gone
  <2>1. /\ reset.stage = "daily"
        /\ reset' = IF reset.all THEN [reset EXCEPT !.stage = "warned"] ELSE Costing!Idle
        /\ daily' = Costing!Restrict(daily, DOMAIN daily \ gone)
        /\ warned' = IF reset.all THEN warned ELSE warned \ gone
        /\ held' = [t \in Processes |-> IF hit(t) THEN [held[t] EXCEPT !.daily = FALSE] ELSE held[t]]
        /\ UNCHANGED <<stage, total, budget, asked, today, spent, unsettled, changed>>
    BY <1>2 DEF Costing!ResetDailies
  <2>2. CostTypes /\ reset \in Resets
    BY DEF CostInv, CostTypes, Resets
  <2>3. /\ reset' \in Resets /\ reset'.stage # "daily"
        /\ ((reset'.keys = reset.keys /\ reset'.days = reset.days) \/ reset'.keys = {})
    <3>1. CASE reset.all
      BY <2>1, <2>2, <3>1 DEF Resets
    <3>2. CASE ~reset.all
      BY <2>1, <3>2, IdleReset
    <3>3. QED
      BY <3>1, <3>2
  <2>4. /\ DOMAIN daily' = DOMAIN daily \ gone
        /\ \A c \in DOMAIN daily' : daily'[c] = daily[c]
    <3> HIDE DEF gone
    <3>1. QED
      BY <2>1 DEF Costing!Restrict
  <2>5. \A c : Costing!Cost(daily', c)
                 = IF c \in reset.days \X reset.keys THEN 0 ELSE Costing!Cost(daily, c)
    BY <2>4 DEF Costing!Cost
  <2>6. \A t \in Processes : held[t] \in Tracked =>
          /\ [held[t] EXCEPT !.daily = FALSE] \in Tracked
          /\ [held[t] EXCEPT !.daily = FALSE].key = held[t].key
          /\ [held[t] EXCEPT !.daily = FALSE].day = held[t].day
          /\ [held[t] EXCEPT !.daily = FALSE].cost = held[t].cost
          /\ [held[t] EXCEPT !.daily = FALSE].total = held[t].total
          /\ [held[t] EXCEPT !.daily = FALSE].current = held[t].current
          /\ [held[t] EXCEPT !.daily = FALSE].budget = held[t].budget
    BY DEF Tracked
  <2>7. \A t \in Processes : stage[t] # "idle" =>
          /\ held'[t] \in Tracked /\ held'[t].key = held[t].key /\ held'[t].day = held[t].day
          /\ held'[t].cost = held[t].cost /\ held'[t].total = held[t].total
          /\ held'[t].current = held[t].current /\ held'[t].budget = held[t].budget
    <3> TAKE t \in Processes
    <3>1. SUFFICES ASSUME stage[t] # "idle"
                   PROVE  /\ held'[t] \in Tracked /\ held'[t].key = held[t].key /\ held'[t].day = held[t].day
                          /\ held'[t].cost = held[t].cost /\ held'[t].total = held[t].total
                          /\ held'[t].current = held[t].current /\ held'[t].budget = held[t].budget
      OBVIOUS
    <3>2. held[t] \in Tracked
      BY <2>2, <3>1 DEF CostTypes
    <3>3. held'[t] = [held[t] EXCEPT !.daily = FALSE] \/ held'[t] = held[t]
      BY <2>1
    <3>4. QED
      BY <2>6, <3>2, <3>3
  <2>8. CostTypes'
    <3>1. Costing!Days' = Costing!Days /\ Tracked' = Tracked
      BY DEF Costing!Days, Tracked
    <3>2. DOMAIN daily' \subseteq Costing!Days \X CostKeys /\ \A c \in DOMAIN daily' : daily'[c] \in Nat
      <4> HIDE DEF gone
      <4>1. QED
        BY <2>2, <2>4 DEF CostTypes
    <3>3. DOMAIN held' = Processes
      BY <2>1
    <3>4. \A t \in Processes : stage'[t] # "idle" => held'[t] \in Tracked'
      BY <2>1, <2>7, <3>1
    <3>5. warned' \subseteq Costing!Days \X CostKeys
      BY <2>1, <2>2 DEF CostTypes
    <3>6. QED
      BY <2>1, <2>2, <2>3, <3>1, <3>2, <3>3, <3>4, <3>5 DEF CostTypes, Resets
  <2>9. ASSUME NEW k \in CostKeys \ unsettled' PROVE Settled(k)'
    <3>1. Settled(k)
      BY <2>1, <2>9 DEF CostInv
    <3>2. /\ DueToTotal(k)' = DueToTotal(k) /\ DueToDays(k)' = DueToDays(k)
          /\ Costing!Tracking(k)' <=> Costing!Tracking(k)
      BY <2>1, <2>7, DueSame
    <3>3. Costing!Days' = Costing!Days /\ Costing!Cost(total, k)' = Costing!Cost(total, k)
      BY <2>1 DEF Costing!Days, Costing!Cost
    <3>4. CASE k \in reset.keys
      <4>1. ~Costing!Tracking(k) /\ reset.days = Costing!Days /\ spent[k] = 0
        BY <2>1, <3>1, <3>4 DEF Settled
      <4>2. DueToDays(k) = 0
        BY <4>1, NothingDue
      <4>3. OfDays(k)' = 0
        <5> DEFINE h == [d \in Costing!Days |-> Costing!Cost(daily', <<d, k>>)]
        <5>1. OfDays(k)' = Sum(h, Costing!Days)
          BY <3>3 DEF OfDays
        <5>2. \A d \in Costing!Days : h[d] = 0
          BY <2>5, <3>4, <4>1
        <5> HIDE DEF h
        <5>3. QED
          BY <5>1, <5>2, SumZero
      <4>4. \A t \in Processes : ~(stage'[t] # "idle" /\ held'[t].key = k)
        BY <3>2, <4>1 DEF Costing!Tracking
      <4>5. k \in reset'.keys => reset'.days = Costing!Days
        BY <2>3, <4>1
      <4>6. spent'[k] = OfDays(k)' + DueToDays(k)'
        BY <2>1, <3>2, <4>1, <4>2, <4>3
      <4>7. QED
        BY <2>1, <2>3, <3>1, <3>2, <3>3, <4>1, <4>4, <4>5, <4>6 DEF Settled
    <3>5. CASE k \notin reset.keys
      <4>1. OfDays(k)' = OfDays(k)
        <5>1. \A d \in Costing!Days : Costing!Cost(daily', <<d, k>>) = Costing!Cost(daily, <<d, k>>)
          BY <2>5, <3>5
        <5>2. QED
          BY <5>1, DaysSame
      <4>2. ASSUME NEW t \in Processes, stage'[t] # "idle", held'[t].key = k
            PROVE  held'[t].total /\ held'[t].daily
        <5>1. stage[t] # "idle" /\ held[t].key = k
          BY <2>1, <2>7, <4>2
        <5>2. held'[t] = held[t]
          BY <2>1, <3>5, <5>1
        <5>3. QED
          BY <3>1, <5>1, <5>2 DEF Settled
      <4>3. k \notin reset'.keys
        BY <2>3, <3>5
      <4>4. QED
        BY <2>1, <3>1, <3>2, <3>3, <3>5, <4>1, <4>2, <4>3 DEF Settled
    <3>6. QED
      BY <3>4, <3>5
  <2>10. ASSUME NEW d \in Costing!Days, NEW k \in CostKeys PROVE Watched(d, k)'
    <3>1. Exceeds(d, k)' => Exceeds(d, k)
      <4> DEFINE c == Costing!Cost(daily, <<d, k>>)
                 e == Costing!Cost(daily', <<d, k>>)
      <4>1. c \in Nat /\ (e = 0 \/ e = c)
        BY <2>5, CostFacts
      <4>2. budget[k] # None => budget[k] \in Int
        BY <2>2, CostFacts DEF CostTypes
      <4>3. Exceeds(d, k)' => budget[k] # None /\ e > budget[k]
        BY <2>1 DEF Exceeds, Costing!Cost
      <4> HIDE DEF c, e
      <4>4. Exceeds(d, k)' => budget[k] # None /\ c > budget[k]
        BY <4>1, <4>2, <4>3
      <4>5. QED
        BY <4>4 DEF Exceeds, c
    <3>2. Asking(d, k) => Asking(d, k)'
      BY <2>1, <2>7, AskingDropped
    <3>3. QED
      BY <2>1, <3>1, <3>2, WatchedKept
  <2>11. QED
    BY <2>8, <2>9, <2>10, CostParts
<1>3. QED
  BY <1>1, <1>2

LEMMA CostNextDay ==
  ASSUME CostInv, today' \in Costing!Days,
         UNCHANGED <<stage, held, total, daily, budget, warned, asked, reset, spent, unsettled, changed>>
  PROVE  CostInv'
<1>1. CostTypes'
  <2>1. Costing!Days' = Costing!Days /\ Tracked' = Tracked
    BY DEF Costing!Days, Tracked
  <2>2. QED
    BY <2>1 DEF CostInv, CostTypes
<1>2. ASSUME NEW k \in CostKeys \ unsettled' PROVE Settled(k)'
  <2>1. Settled(k)
    BY <1>2 DEF CostInv
  <2>2. /\ DueToTotal(k)' = DueToTotal(k) /\ DueToDays(k)' = DueToDays(k)
        /\ Costing!Tracking(k)' <=> Costing!Tracking(k)
    BY DueSame
  <2>3. OfDays(k)' = OfDays(k)
    BY DaysSame
  <2>4. Costing!Days' = Costing!Days /\ Costing!Cost(total, k)' = Costing!Cost(total, k)
    BY DEF Costing!Days, Costing!Cost
  <2>5. QED
    BY <2>1, <2>2, <2>3, <2>4 DEF Settled
<1>3. \A d \in Costing!Days, k \in CostKeys : Watched(d, k)'
  BY WatchedSame
<1>4. QED
  BY <1>1, <1>2, <1>3, CostParts

LEMMA CostNext == CostInv /\ [Costing!Next]_Costing!vars => CostInv'
<1> SUFFICES ASSUME CostInv, [Costing!Next]_Costing!vars PROVE CostInv'
  OBVIOUS
<1>1. ASSUME NEW t \in Processes,
             \/ \E k \in CostKeys, n \in Amounts : Costing!Track(t, k, n)
             \/ Costing!AddTotal(t) \/ Costing!TakeDaily(t) \/ Costing!AddDaily(t)
             \/ Costing!EstimateDaily(t) \/ Costing!Warn(t) \/ Costing!Exceed(t)
      PROVE  CostInv'
  BY <1>1, CostTrack, CostAddTotal, CostTakeDaily, CostAddDaily, CostEstimateDaily, CostWarn,
     CostExceed
<1>2. ASSUME NEW k \in CostKeys, NEW n \in Budgets, Costing!SetBudget(k, n) PROVE CostInv'
  BY <1>2, CostSetBudget
<1>3. ASSUME NEW ks \in Scopes,
             Costing!Reset(ks) \/ \E day \in Costing!Days : Costing!ResetDaily(day, ks)
      PROVE  CostInv'
  BY <1>3, CostReset, CostResetDaily
<1>4. ASSUME Costing!ResetTotals \/ Costing!ResetDailies \/ Costing!ClearWarnings PROVE CostInv'
  BY <1>4, CostResetTotals, CostResetDailies, CostClearWarnings
<1>5. ASSUME Costing!NextDay PROVE CostInv'
  <2>1. /\ UNCHANGED <<stage, held, total, daily, budget, warned, asked, reset, spent, unsettled, changed>>
        /\ today < MaxDay /\ today' = today + 1 /\ today \in Costing!Days
    BY <1>5 DEF Costing!NextDay, Costing!books, Costing!history, CostInv, CostTypes
  <2>2. today' \in Costing!Days
    BY <2>1, ServicesAssumption DEF ServicesAssumption, Costing!Days
  <2>3. QED
    BY <2>1, <2>2, CostNextDay
<1>6. ASSUME UNCHANGED Costing!vars PROVE CostInv'
  <2>1. UNCHANGED <<stage, held, total, daily, budget, warned, asked, today, reset, spent, unsettled,
                    changed>>
    BY <1>6 DEF Costing!vars
  <2>2. today' \in Costing!Days
    BY <2>1 DEF CostInv, CostTypes
  <2>3. QED
    BY <2>1, <2>2, CostNextDay
<1>7. QED
  BY <1>1, <1>2, <1>3, <1>4, <1>5, <1>6 DEF Costing!Next

LEMMA CostHasTypes == CostInv => Costing!TypeOK
<1> SUFFICES ASSUME CostInv PROVE Costing!TypeOK
  OBVIOUS
<1>1. \A k \in DOMAIN total : total[k] >= 0
  BY DEF CostInv, CostTypes
<1>2. QED
  BY <1>1 DEF CostInv, CostTypes, CostStages, Tracked, Costing!TypeOK

\* report_period adds up the days.
IsReport(f, k) ==
  f = [s \in SUBSET Costing!Days |->
        IF s = {} THEN 0
        ELSE Costing!Cost(daily, <<CHOOSE d \in s : TRUE, k>>) + f[s \ {CHOOSE d \in s : TRUE}]]

LEMMA ReportIsSum ==
  ASSUME CostInv, NEW k \in CostKeys
  PROVE  Costing!ReportPeriod(k) = OfDays(k)
<1> DEFINE g == [d \in Costing!Days |-> Costing!Cost(daily, <<d, k>>)]
<1>1. Costing!ReportPeriod(k) = (CHOOSE f : IsReport(f, k))[Costing!Days]
  BY Zenon DEF Costing!ReportPeriod, Costing!MapThenSumSet, Costing!MapThenFoldSet, IsReport
<1>2. ASSUME NEW f PROVE IsReport(f, k) <=> IsFold(f, g, Costing!Days)
  <2> DEFINE a == [s \in SUBSET Costing!Days |->
                    IF s = {} THEN 0
                    ELSE Costing!Cost(daily, <<CHOOSE d \in s : TRUE, k>>)
                           + f[s \ {CHOOSE d \in s : TRUE}]]
             b == [s \in SUBSET Costing!Days |->
                    IF s = {} THEN 0
                    ELSE g[CHOOSE d \in s : TRUE] + f[s \ {CHOOSE d \in s : TRUE}]]
  <2>1. ASSUME NEW s \in SUBSET Costing!Days, s # {}
        PROVE  g[CHOOSE d \in s : TRUE] = Costing!Cost(daily, <<CHOOSE d \in s : TRUE, k>>)
    BY <2>1
  <2> HIDE DEF g
  <2>2. a = b
    BY <2>1
  <2>3. QED
    BY <2>2 DEF IsReport, IsFold
<1>3. (CHOOSE f : IsReport(f, k)) = (CHOOSE f : IsFold(f, g, Costing!Days))
  <2> HIDE DEF g
  <2>1. QED
    BY <1>2
<1>4. IsFiniteSet(Costing!Days) /\ \A d \in Costing!Days : g[d] \in Nat
  BY CostFacts
<1>5. OfDays(k) = Sum(g, Costing!Days)
  BY DEF OfDays
<1> HIDE DEF g
<1>6. QED
  BY <1>1, <1>3, <1>4, <1>5, FoldIsSum

LEMMA CostHolds == CostInv => Costing!CostsAreWatched
<1> SUFFICES ASSUME CostInv, NEW k \in CostKeys, ~Costing!Tracking(k)
             PROVE  /\ k \notin unsettled /\ k \notin reset.keys =>
                         /\ Costing!Cost(total, k) = spent[k]
                         /\ Costing!ReportPeriod(k) = spent[k]
                    /\ k \in Costing!OverBudget /\ <<today, k>> \notin changed => <<today, k>> \in asked
  BY DEF Costing!CostsAreWatched
<1>1. ASSUME k \notin unsettled, k \notin reset.keys
      PROVE  Costing!Cost(total, k) = spent[k] /\ Costing!ReportPeriod(k) = spent[k]
  <2>1. Settled(k)
    BY <1>1 DEF CostInv
  <2>2. DueToTotal(k) = 0 /\ DueToDays(k) = 0
    BY NothingDue
  <2>3. Costing!Cost(total, k) \in Nat /\ OfDays(k) \in Nat
    <3>1. IsFiniteSet(Costing!Days) /\ \A d \in Costing!Days : Costing!Cost(daily, <<d, k>>) \in Nat
      BY CostFacts
    <3>2. OfDays(k) \in Nat
      BY <3>1, SumFinite DEF OfDays
    <3>3. QED
      BY <3>2, CostFacts
  <2>4. spent[k] = Costing!Cost(total, k) /\ spent[k] = OfDays(k)
    BY <1>1, <2>1, <2>2, <2>3 DEF Settled
  <2>5. QED
    BY <2>4, ReportIsSum
<1>2. ASSUME k \in Costing!OverBudget, <<today, k>> \notin changed PROVE <<today, k>> \in asked
  <2>1. today \in Costing!Days /\ Exceeds(today, k)
    BY <1>2 DEF CostInv, CostTypes, Exceeds, Costing!OverBudget
  <2>2. ~Asking(today, k)
    BY DEF Asking, Costing!Tracking
  <2>3. QED
    BY <1>2, <2>1, <2>2 DEF CostInv
<1>3. QED
  BY <1>1, <1>2

\* Whatever threads and resets do to each other's counters, when the calls of a key have
\* been tracked and no reset came between, its total and the sum over its days are what
\* was spent, and a budget found exceeded has been put to a human (CostTracker.track,
\* reset, report_period).
THEOREM CostsReachHumans ==
  Spec => [](part = "costing" => Costing!TypeOK /\ Costing!CostsAreWatched)
<1> DEFINE Inv == part = "costing" => CostInv
<1>1. Init => Inv
  BY CostInit DEF Init
<1>2. Inv /\ [Next]_vars => Inv'
  <2>1. ASSUME Inv, Next PROVE Inv'
    <3>1. SUFFICES ASSUME part' = "costing" PROVE CostInv'
      OBVIOUS
    <3>2. part = "costing" /\ Costing!Next
      BY <2>1, <3>1 DEF Next
    <3>3. QED
      BY <2>1, <3>2, CostNext
  <2>2. ASSUME Inv, UNCHANGED vars PROVE Inv'
    <3>1. UNCHANGED part /\ UNCHANGED Costing!vars
      BY <2>2 DEF vars, costVars, Costing!vars
    <3>2. QED
      BY <2>2, <3>1, CostNext
  <2>3. QED
    BY <2>1, <2>2
<1>3. Inv => (part = "costing" => Costing!TypeOK /\ Costing!CostsAreWatched)
  BY CostHasTypes, CostHolds
<1>4. QED
  BY <1>1, <1>2, <1>3, PTL DEF Spec

-----------------------------------------------------------------------------
\* What threads, coroutines and processes share without a lock holds of every service:
\* cached responses and the statistics of the cache, costs and budgets, events and their
\* deliveries, cached business lines, and runs within a dry run.
THEOREM SharedServicesAreSound == Spec => []SharedServicesHold
<1>1. (part = "caching" => Caching!TypeOK /\ Caching!CacheKeepsItsWord)
      /\ (part = "costing" => Costing!TypeOK /\ Costing!CostsAreWatched)
      /\ (part = "delivering" => Delivering!TypeOK /\ Delivering!EventsAreDelivered)
      /\ (part = "lining" => Lining!TypeOK /\ Lining!CacheFollowsRows)
      /\ (part = "drying" => Drying!TypeOK /\ Drying!DryRunHolds)
        => SharedServicesHold
  BY DEF SharedServicesHold
<1>2. QED
  BY <1>1, CacheKeepsWord, CostsReachHumans, EventsReachThoseTheyAreFor, CachedLinesFollowRows,
     DryRunsDoNotRun, PTL

\* Each service keeps the types of its module: the state its commands, threads and ticks
\* leave, however they interleave, is one the next of them can be in.
THEOREM ServicesHaveTypes == Spec => []TypeOK
<1>1. (part = "feedback" => FeedInv)
      /\ (part = "recommending" => CommandsInv)
      /\ (part = "learning" => LearnInv)
      /\ (part = "caching" => Caching!TypeOK /\ Caching!CacheKeepsItsWord)
      /\ (part = "costing" => Costing!TypeOK /\ Costing!CostsAreWatched)
      /\ (part = "delivering" => Delivering!TypeOK /\ Delivering!EventsAreDelivered)
      /\ (part = "lining" => Lining!TypeOK /\ Lining!CacheFollowsRows)
      /\ (part = "drying" => Drying!TypeOK /\ Drying!DryRunHolds)
        => TypeOK
  BY FeedHasTypes, CommandsHaveTypes, LearnHasTypes DEF TypeOK
<1>2. QED
  BY <1>1, FeedbackKeeps, RecommendingKeeps, LearningKeeps, CacheKeepsWord, CostsReachHumans,
     EventsReachThoseTheyAreFor, CachedLinesFollowRows, DryRunsDoNotRun, PTL
=================================================================================
