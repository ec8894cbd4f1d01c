-------------------------- MODULE BrokerProperties --------------------------
(***************************************************************************)
(* What the broker promises.                                               *)
(***************************************************************************)
EXTENDS Broker

\* Types of all variables.
TypeOK ==
  /\ done \in BOOLEAN /\ shutdown \in {"no", "closing", "over"}
  /\ subs \subseteq Subs /\ subCount \in Nat
  /\ state \in [Subs -> {"new", "open", "closed"}]
  /\ buffer \in [Subs -> Seq(Events)] /\ got \in [Subs -> Seq(Events)]
  /\ cancelled \in [Subs -> BOOLEAN] /\ watcher \in [Subs -> BOOLEAN]
  /\ overrun \in [Subs -> BOOLEAN]
  /\ todo \in [Pubs -> SUBSET Subs]
  /\ panic \in {"none", "send", "close"}
  /\ offered \in [Pubs -> Nat]
  /\ since \in [Subs -> [Pubs -> Nat]]

\* The set of channels, their number and the channels that are open always agree,
\* whoever closes them (broker.go:32-49, 67-82): a Publish never copies a channel
\* that is closed already, and GetSubscriberCount tells the truth.
RegisteredAreOpen ==
  Running => /\ subs = {s \in Subs : state[s] = "open"}
             /\ subCount = Cardinality(subs)

\* No channel is closed twice, although its watcher and a Shutdown both may close it
\* and b.done is closed outside of the lock (broker.go:32-49, 67-82).
NoDoubleClose == panic # "close"

\* What reached s, in the order it did.
All(s) == got[s] \o buffer[s]
\* The places of p's events in it, and the number of the last that was sent to s.
OfPub(s, p) == {i \in DOMAIN All(s) : All(s)[i][1] = p}
LastSent(s, p) == offered[p] - (IF s \in todo[p] THEN 1 ELSE 0)

\* s got of p exactly what was sent since it subscribed, each event once and in order.
GotAll(s, p) ==
  /\ {All(s)[i][2] : i \in OfPub(s, p)} = since[s][p] + 1 .. LastSent(s, p)
  /\ \A i, j \in OfPub(s, p) : i < j => All(s)[i][2] < All(s)[j][2]

\* A subscriber that keeps up misses nothing before a Shutdown: as long as its channel
\* is open and no event found its buffer full, it got, of each publisher and in order,
\* exactly the events whose Publish began after it subscribed, but for the one that is
\* being sent (broker.go:93-116).
KeepsUpGetsAll ==
  \A s \in Subs, p \in Pubs : state[s] = "open" /\ ~overrun[s] /\ ~done => GotAll(s, p)

\* A Publish ends however slow the readers are (broker.go:110-115).
PublishEnds == \A p \in Pubs : todo[p] # {} ~> (todo[p] = {} \/ ~Running)

\* A subscription whose context is done has its channel closed in the end, by its
\* watcher or by the Shutdown that the watcher leaves it to (broker.go:67-82).
CancelledIsClosed ==
  \A s \in Subs : watcher[s] /\ cancelled[s] ~> (state[s] = "closed" \/ ~Running)

\* Nobody waits for a slow reader or for a Shutdown that is over: the senders and the
\* watchers come to their end (broker.go:67-82, 110-115).
BrokerEnds == PublishEnds /\ CancelledIsClosed

-----------------------------------------------------------------------------
\* The broker implements EventStream, which stops when a Shutdown begins: what is owed
\* to a subscriber is what publishers that copied its channel have yet to send.
Stream == INSTANCE EventStream WITH
  stopped <- done,
  live <- {s \in Subs : state[s] = "open"},
  ended <- {s \in Subs : state[s] = "closed"},
  owed <- [s \in Subs |-> {p \in Pubs : s \in todo[p] /\ state[s] = "open"}],
  backlog <- buffer,
  last <- offered

\* Every Publish before a Shutdown owes its event to every open channel, and none is
\* dropped unless the buffer is full or the channel is closed (broker.go:51-116).  A send
\* on a closed channel ends the program and with it the behaviour: nothing here forbids it.
ImplementsEventStream == Stream!Spec
=============================================================================
