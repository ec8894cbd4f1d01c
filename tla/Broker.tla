------------------------------- MODULE Broker -------------------------------
(***************************************************************************)
(* The publish/subscribe broker of the CLI                                 *)
(* (src/cli/internal/pubsub/broker.go).  Every service of the CLI embeds   *)
(* one: sessions, messages, permissions, files, agent events, log lines.   *)
(*                                                                         *)
(* Publish copies the set of channels under the read lock and sends after  *)
(* it has released it, never waiting for a reader.  A channel is closed by *)
(* the goroutine that waits for its subscriber's context, or by Shutdown.  *)
(* One step is one critical section of b.mu, or one channel operation      *)
(* outside of it.                                                          *)
(***************************************************************************)
EXTENDS Naturals, Sequences, FiniteSets

CONSTANTS Subs,        \* the channels subscriptions make, each used once
          Pubs,        \* the goroutines that publish, each one event at a time
          BufferSize,  \* capacity of a channel: 64 in the code
          MaxEvents    \* bound: the events each goroutine publishes

ASSUME BrokerAssumption ==
  /\ IsFiniteSet(Subs)
  /\ BufferSize \in Nat \ {0}
  /\ MaxEvents \in [Pubs -> Nat]

VARIABLES
  done,       \* b.done is closed
  shutdown,   \* the call of Shutdown: "no", "closing" (waits for b.mu), "over"
  subs,       \* b.subs
  subCount,   \* b.subCount
  state,      \* of a channel: "new", "open", "closed"
  buffer,     \* the events in a channel
  cancelled,  \* the context of a subscription is done
  watcher,    \* the goroutine of a subscription still waits for that context
  todo,       \* the channels a Publish has yet to send to
  panic,      \* "none", or the operation on a closed channel: "send", "close"
  offered,    \* how many events a goroutine has begun to publish
  got,        \* ghost: what a subscriber has received
  since,      \* ghost: offered, at the time of the subscription
  overrun     \* ghost: an event found this channel's buffer full

channelVars == <<state, buffer, got, since, overrun>>
registryVars == <<done, shutdown, subs, subCount, cancelled, watcher>>
brokerVars == <<registryVars, channelVars, todo, offered, panic>>

Running == panic = "none"

\* An event is known by its publisher and its number there.
Events == Pubs \X Nat
-----------------------------------------------------------------------------
BrokerInit ==
  /\ done = FALSE /\ shutdown = "no"
  /\ subs = {} /\ subCount = 0
  /\ state = [s \in Subs |-> "new"]
  /\ buffer = [s \in Subs |-> <<>>]
  /\ cancelled = [s \in Subs |-> FALSE]
  /\ watcher = [s \in Subs |-> FALSE]
  /\ todo = [p \in Pubs |-> {}]
  /\ panic = "none"
  /\ offered = [p \in Pubs |-> 0]
  /\ got = [s \in Subs |-> <<>>]
  /\ since = [s \in Subs |-> [p \in Pubs |-> 0]]
  /\ overrun = [s \in Subs |-> FALSE]

\* After Shutdown has begun a subscriber gets a closed channel nobody registers.
SubscribeLate(s) ==
  /\ state[s] = "new" /\ done
  /\ state' = [state EXCEPT ![s] = "closed"]
  /\ since' = [since EXCEPT ![s] = offered]
  /\ UNCHANGED <<registryVars, buffer, got, overrun, todo, offered, panic>>

Subscribe(s) ==
  /\ state[s] = "new" /\ ~done
  /\ state' = [state EXCEPT ![s] = "open"]
  /\ subs' = subs \cup {s}
  /\ subCount' = subCount + 1
  /\ watcher' = [watcher EXCEPT ![s] = TRUE]
  /\ since' = [since EXCEPT ![s] = offered]
  /\ UNCHANGED <<done, shutdown, cancelled, buffer, got, overrun, todo, offered, panic>>

\* The owner of the subscription's context cancels it.
CancelContext(s) ==
  /\ watcher[s] /\ ~cancelled[s]
  /\ cancelled' = [cancelled EXCEPT ![s] = TRUE]
  /\ UNCHANGED <<done, shutdown, subs, subCount, watcher, channelVars, todo, offered, panic>>

\* Closing a closed channel panics.
Close(chans) ==
  /\ state' = [s \in Subs |-> IF s \in chans THEN "closed" ELSE state[s]]
  /\ panic' = IF \E s \in chans : state[s] = "closed" THEN "close" ELSE panic

\* The watcher after its context is done: it leaves the closing to a Shutdown
\* that has begun.
Unsubscribe(s) ==
  /\ watcher[s] /\ cancelled[s]
  /\ watcher' = [watcher EXCEPT ![s] = FALSE]
  /\ IF done
       THEN UNCHANGED <<subs, subCount, state, panic>>
       ELSE /\ subs' = subs \ {s}
            /\ subCount' = subCount - 1
            /\ Close({s})
  /\ UNCHANGED <<done, shutdown, cancelled, buffer, got, since, overrun, todo, offered>>

\* Shutdown closes b.done before it takes b.mu.
BeginShutdown ==
  /\ ~done
  /\ done' = TRUE /\ shutdown' = "closing"
  /\ UNCHANGED <<subs, subCount, cancelled, watcher, channelVars, todo, offered, panic>>

\* Variant: the channels are forgotten and not closed.
EndShutdownOpen ==
  /\ shutdown = "closing"
  /\ shutdown' = "over"
  /\ subs' = {} /\ subCount' = 0
  /\ UNCHANGED <<done, cancelled, watcher, channelVars, todo, offered, panic>>

EndShutdown ==
  /\ shutdown = "closing"
  /\ shutdown' = "over"
  /\ subs' = {} /\ subCount' = 0
  /\ Close(subs)
  /\ UNCHANGED <<done, cancelled, watcher, buffer, got, since, overrun, todo, offered>>
-----------------------------------------------------------------------------
\* Variant: the copy leaves out the channels that nobody has read empty.
BeginPublishIdle(p) ==
  /\ todo[p] = {} /\ offered[p] < MaxEvents[p]
  /\ offered' = [offered EXCEPT ![p] = @ + 1]
  /\ todo' = [todo EXCEPT ![p] = IF done THEN {} ELSE {s \in subs : buffer[s] = <<>>}]
  /\ UNCHANGED <<registryVars, channelVars, panic>>

\* The part of Publish under the read lock: the copy of the set of channels, or
\* the return after a Shutdown.
BeginPublish(p) ==
  /\ todo[p] = {} /\ offered[p] < MaxEvents[p]
  /\ offered' = [offered EXCEPT ![p] = @ + 1]
  /\ todo' = [todo EXCEPT ![p] = IF done THEN {} ELSE subs]
  /\ UNCHANGED <<registryVars, channelVars, panic>>

\* Variant: the publisher waits for room in the buffer.
SendWaiting(p, s) ==
  /\ s \in todo[p]
  /\ state[s] = "closed" \/ Len(buffer[s]) < BufferSize
  /\ todo' = [todo EXCEPT ![p] = @ \ {s}]
  /\ buffer' = IF state[s] = "closed" THEN buffer
                                      ELSE [buffer EXCEPT ![s] = Append(@, <<p, offered[p]>>)]
  /\ panic' = IF state[s] = "closed" THEN "send" ELSE panic
  /\ UNCHANGED <<registryVars, state, got, since, offered, overrun>>

\* Variant: the event is sent and stays to be sent.
SendTwice(p, s) ==
  /\ s \in todo[p] /\ state[s] = "open" /\ Len(buffer[s]) < BufferSize
  /\ buffer' = [buffer EXCEPT ![s] = Append(@, <<p, offered[p]>>)]
  /\ UNCHANGED <<registryVars, state, got, since, overrun, todo, offered, panic>>

\* The select with a default: the event goes into the buffer or is dropped; a
\* closed channel panics.
Send(p, s) ==
  /\ s \in todo[p]
  /\ todo' = [todo EXCEPT ![p] = @ \ {s}]
  /\ LET room == Len(buffer[s]) < BufferSize IN
       IF state[s] = "closed"
         THEN panic' = "send" /\ UNCHANGED <<buffer, overrun>>
         ELSE /\ buffer' = IF room THEN [buffer EXCEPT ![s] = Append(@, <<p, offered[p]>>)]
                                   ELSE buffer
              /\ overrun' = [overrun EXCEPT ![s] = @ \/ ~room]
              /\ UNCHANGED panic
  /\ UNCHANGED <<registryVars, state, got, since, offered>>

\* A reader may take what was buffered before its channel was closed.
Receive(s) ==
  /\ buffer[s] # <<>>
  /\ got' = [got EXCEPT ![s] = Append(@, Head(buffer[s]))]
  /\ buffer' = [buffer EXCEPT ![s] = Tail(@)]
  /\ UNCHANGED <<registryVars, state, since, overrun, todo, offered, panic>>
-----------------------------------------------------------------------------
SubscriberStep(s) == SubscribeLate(s) \/ Subscribe(s) \/ CancelContext(s) \/ Receive(s)
BrokerNext ==
  /\ Running
  /\ \/ \E s \in Subs : SubscriberStep(s) \/ Unsubscribe(s)
     \/ BeginShutdown \/ EndShutdown
     \/ \E p \in Pubs : BeginPublish(p) \/ \E s \in Subs : Send(p, s)

BrokerSpec == BrokerInit /\ [][BrokerNext]_brokerVars

\* A goroutine that can run runs: a publisher that has its copy, a watcher whose
\* context is done, a Shutdown that waits for the lock.  Nobody has to subscribe,
\* cancel, publish or read.
BrokerFairness ==
  /\ WF_brokerVars(Running /\ EndShutdown)
  /\ \A s \in Subs : WF_brokerVars(Running /\ Unsubscribe(s))
  /\ \A p \in Pubs : WF_brokerVars(Running /\ \E s \in Subs : Send(p, s))

BrokerFairSpec == BrokerSpec /\ BrokerFairness
=============================================================================
