------------------------------ MODULE EventHub ------------------------------
(* The event stream of the control plane (control/events.go's sseHub and       *)
(* server.go's handleEvents): publishers hand each event to every subscriber   *)
(* with room in its channel, browser tabs come and go, the server closes.  An  *)
(* event is its number in the order of publication.                            *)
EXTENDS Naturals, Sequences, FiniteSets

CONSTANTS Tab,         \* the requests of GET /api/events
          SubBuffer,   \* the capacity of a subscriber's channel
          MaxEvent     \* bound: the events published

ASSUME HubAssumption == SubBuffer \in Nat \ {0} /\ MaxEvent \in Nat

VARIABLES subs,        \* sseHub.subs
          hubClosed,   \* sseHub.closed
          published,   \* events published so far
          channel,     \* what each tab's channel holds
          shut,        \* how often each tab's channel was closed
          tab,         \* where each handler is
          got,         \* ghost: what each tab was sent
          from,        \* ghost: events published before it subscribed
          wasFull      \* ghost: tabs whose channel was found full

hubvars == <<subs, hubClosed, published, channel, shut, tab, got, from, wasFull>>

HubInit ==
    /\ subs = {} /\ hubClosed = FALSE /\ published = 0
    /\ channel = [t \in Tab |-> <<>>]
    /\ shut = [t \in Tab |-> 0]
    /\ tab = [t \in Tab |-> "new"]
    /\ got = [t \in Tab |-> <<>>]
    /\ from = [t \in Tab |-> 0]
    /\ wasFull = {}

\* Mutant: the closed hub is not looked at.
subscribeAlways(t) ==
    /\ tab[t] = "new"
    /\ tab' = [tab EXCEPT ![t] = "streaming"]
    /\ from' = [from EXCEPT ![t] = published]
    /\ subs' = subs \cup {t}
    /\ UNCHANGED <<hubClosed, published, channel, shut, got, wasFull>>

\* subscribe: a hub that is closed hands out a closed channel.
subscribe(t) ==
    /\ tab[t] = "new"
    /\ tab' = [tab EXCEPT ![t] = "streaming"]
    /\ from' = [from EXCEPT ![t] = published]
    /\ IF hubClosed THEN shut' = [shut EXCEPT ![t] = 1] /\ UNCHANGED subs
                    ELSE subs' = subs \cup {t} /\ UNCHANGED shut
    /\ UNCHANGED <<hubClosed, published, channel, got, wasFull>>

\* Mutant: the channel is closed whether or not the hub has closed it.
unsubscribeAlways(t) ==
    /\ tab[t] = "leaving"
    /\ tab' = [tab EXCEPT ![t] = "gone"]
    /\ subs' = subs \ {t}
    /\ shut' = [shut EXCEPT ![t] = @ + 1]
    /\ UNCHANGED <<hubClosed, published, channel, got, from, wasFull>>

\* unsubscribe: deferred by the handler; the hub may have closed the channel.
unsubscribe(t) ==
    /\ tab[t] = "leaving"
    /\ tab' = [tab EXCEPT ![t] = "gone"]
    /\ IF t \in subs
         THEN subs' = subs \ {t} /\ shut' = [shut EXCEPT ![t] = @ + 1]
         ELSE UNCHANGED <<subs, shut>>
    /\ UNCHANGED <<hubClosed, published, channel, got, from, wasFull>>

HasRoom(t) == Len(channel[t]) < SubBuffer

Deliver(to) ==
    /\ published < MaxEvent
    /\ published' = published + 1
    /\ channel' = [t \in Tab |-> IF t \in to THEN Append(channel[t], published + 1)
                                             ELSE channel[t]]
    /\ got' = [t \in Tab |-> IF t \in to THEN Append(got[t], published + 1) ELSE got[t]]
    /\ wasFull' = wasFull \cup {t \in subs : ~HasRoom(t)}
    /\ UNCHANGED <<subs, hubClosed, shut, tab, from>>

\* Mutant: a full channel ends the round.
publishUntilFull ==
    IF \A t \in subs : HasRoom(t)
      THEN Deliver(subs)
      ELSE \E to \in SUBSET {t \in subs : HasRoom(t)} : Deliver(to)

\* publish: a full channel is passed over, the others get the event.
publish == Deliver({t \in subs : HasRoom(t)})

\* close: every subscriber's channel is closed and forgotten, once.
close ==
    /\ ~hubClosed
    /\ hubClosed' = TRUE
    /\ subs' = {}
    /\ shut' = [t \in Tab |-> IF t \in subs THEN shut[t] + 1 ELSE shut[t]]
    /\ UNCHANGED <<published, channel, tab, got, from, wasFull>>

\* handleEvents: write what arrives; leave when the channel is closed and
\* drained, or when the browser goes away.
handleEvents(t) ==
    /\ tab[t] = "streaming"
    /\ \/ channel[t] # <<>> /\ channel' = [channel EXCEPT ![t] = Tail(@)] /\ UNCHANGED tab
       \/ /\ channel[t] = <<>> /\ shut[t] > 0
          /\ tab' = [tab EXCEPT ![t] = "leaving"] /\ UNCHANGED channel
    /\ UNCHANGED <<subs, hubClosed, published, shut, got, from, wasFull>>

BrowserLeaves(t) ==
    /\ tab[t] = "streaming"
    /\ tab' = [tab EXCEPT ![t] = "leaving"]
    /\ UNCHANGED <<subs, hubClosed, published, channel, shut, got, from, wasFull>>

HandlerStep(t) == handleEvents(t) \/ unsubscribe(t)

HubNext ==
    \/ \E t \in Tab : subscribe(t) \/ HandlerStep(t) \/ BrowserLeaves(t)
    \/ publish \/ close

HubSpec == HubInit /\ [][HubNext]_hubvars
HubFairSpec == HubSpec /\ \A t \in Tab : WF_hubvars(HandlerStep(t))

-----------------------------------------------------------------------------
\* No channel is closed twice and none in subs is closed, so neither close nor
\* publish can panic, in whatever order tabs leave and the hub closes
\* (events.go:79-111).
ChannelsCloseOnce ==
    /\ \A t \in Tab : shut[t] <= 1
    /\ \A t \in subs : shut[t] = 0

\* A tab that kept up was sent every event since it subscribed, whatever the other
\* tabs did: a full channel costs only its own tab (events.go:89-98).
SlowTabCostsNoOther ==
    \A t \in subs : t \notin wasFull =>
        got[t] = [i \in 1 .. published - from[t] |-> from[t] + i]

\* Once the hub is closed the event handlers all return, those that subscribe
\* after the close included, so no stream outlives it (events.go:67-77, 100-111).
\* The process closes the hub only after it has waited for its requests, so this
\* is about what is still streaming then.
StreamsEnd == hubClosed ~> \A t \in Tab : tab[t] \in {"new", "gone"}
=============================================================================
