--------------------------- MODULE StreamsProofs ----------------------------
(***************************************************************************)
(* For every set of subscriptions and publishers, every buffer size and    *)
(* every number of events: the registry is the set of open channels, no    *)
(* channel is closed twice, who keeps up misses nothing, and the broker    *)
(* implements EventStream.  For every number of retries, of pieces and of  *)
(* requests of the provider: what the run stores is one whole answer, a    *)
(* stream ends quietly only where it is known to, and attempts are         *)
(* bounded.                                                                *)
(***************************************************************************)
EXTENDS BrokerProperties, ProviderStreamProperties, FiniteSetTheorems, SequenceTheorems, TLAPS

(* The broker. *)

\* The registry, whether the program still runs or not.
RegistryInv ==
  /\ subs = {s \in Subs : state[s] = "open"}
  /\ subCount = Cardinality(subs)

\* Until a Shutdown begins, the channels that have a watcher are those that are open.
WatchersInv ==
  /\ shutdown = "no" <=> ~done
  /\ ~done => \A s \in Subs : watcher[s] <=> state[s] = "open"

\* Only channels that were subscribed are sent to, and no buffer exceeds its capacity.
SendersInv ==
  /\ \A p \in Pubs, s \in Subs : s \in todo[p] => state[s] # "new"
  /\ \A s \in Subs : Len(buffer[s]) <= BufferSize

IInv == TypeOK /\ RegistryInv /\ WatchersInv /\ SendersInv /\ NoDoubleClose
-----------------------------------------------------------------------------
\* The initial states satisfy the invariant.
LEMMA InitIInv == BrokerInit => IInv
<1>1. ASSUME BrokerInit PROVE RegistryInv
  <2>1. {s \in Subs : state[s] = "open"} = {}
    BY <1>1 DEF BrokerInit
  <2> QED BY <2>1, <1>1, FS_EmptySet DEF BrokerInit, RegistryInv
<1>2. ASSUME BrokerInit PROVE TypeOK
  <2>1. <<>> \in Seq(Events)
    OBVIOUS
  <2>2. /\ buffer \in [Subs -> Seq(Events)] /\ got \in [Subs -> Seq(Events)]
        /\ todo \in [Pubs -> SUBSET Subs] /\ since \in [Subs -> [Pubs -> Nat]]
    BY <1>2, <2>1 DEF BrokerInit
  <2> QED BY <1>2, <2>2 DEF BrokerInit, TypeOK
<1>3. ASSUME BrokerInit PROVE SendersInv
  BY <1>3, BrokerAssumption DEF BrokerInit, SendersInv
<1>4. ASSUME BrokerInit PROVE WatchersInv /\ NoDoubleClose
  BY <1>4 DEF BrokerInit, WatchersInv, NoDoubleClose
<1> QED BY <1>1, <1>2, <1>3, <1>4 DEF IInv

\* Every set of subscriptions is finite.
LEMMA SubsFinite == ASSUME NEW S, S \subseteq Subs PROVE IsFiniteSet(S)
BY BrokerAssumption, FS_Subset

\* Closing channels that are open closes none twice, and leaves the others as they were.
LEMMA CloseOpen ==
  ASSUME TypeOK, RegistryInv, NEW chans, chans \subseteq subs, Close(chans)
  PROVE  /\ panic' = panic
         /\ state' \in [Subs -> {"new", "open", "closed"}]
         /\ {s \in Subs : state'[s] = "open"} = subs \ chans
         /\ \A s \in Subs : state'[s] = "new" <=> state[s] = "new"
BY DEF Close, RegistryInv, TypeOK
-----------------------------------------------------------------------------
\* A subscription.
LEMMA SubscribeIInv ==
  ASSUME IInv, NEW s \in Subs, SubscribeLate(s) \/ Subscribe(s)
  PROVE  IInv'
<1>1. CASE SubscribeLate(s)
  <2>1. RegistryInv'
    BY <1>1 DEF IInv, TypeOK, RegistryInv, SubscribeLate, registryVars
  <2>2. TypeOK'
    BY <1>1 DEF IInv, TypeOK, SubscribeLate, registryVars
  <2>3. SendersInv' /\ WatchersInv' /\ NoDoubleClose'
    BY <1>1 DEF IInv, TypeOK, SendersInv, WatchersInv, NoDoubleClose, SubscribeLate, registryVars
  <2> QED BY <2>1, <2>2, <2>3 DEF IInv
<1>2. CASE Subscribe(s)
  <2>1. s \notin subs
    BY <1>2 DEF IInv, RegistryInv, Subscribe
  <2>2. Cardinality(subs \cup {s}) = Cardinality(subs) + 1
    BY <2>1, SubsFinite, FS_AddElement DEF IInv, TypeOK
  <2>3. RegistryInv'
    BY <1>2, <2>2 DEF IInv, TypeOK, RegistryInv, Subscribe
  <2>4. TypeOK'
    BY <1>2 DEF IInv, TypeOK, Subscribe
  <2>5. SendersInv' /\ WatchersInv' /\ NoDoubleClose'
    BY <1>2 DEF IInv, TypeOK, SendersInv, WatchersInv, NoDoubleClose, Subscribe
  <2> QED BY <2>3, <2>4, <2>5 DEF IInv
<1> QED BY <1>1, <1>2

\* The watcher of a subscription closes its channel.
LEMMA UnsubscribeIInv ==
  ASSUME IInv, NEW s \in Subs, Unsubscribe(s)
  PROVE  IInv'
<1>1. CASE done
  <2>1. UNCHANGED <<subs, subCount, state, panic>> /\ watcher' \in [Subs -> BOOLEAN]
    BY <1>1 DEF IInv, TypeOK, Unsubscribe
  <2> QED BY <1>1, <2>1 DEF IInv, TypeOK, RegistryInv, SendersInv, WatchersInv, NoDoubleClose, Unsubscribe
<1>2. CASE ~done
  <2>1. s \in subs
    BY <1>2 DEF IInv, RegistryInv, WatchersInv, Unsubscribe
  <2>2. Close({s}) /\ subs' = subs \ {s} /\ subCount' = subCount - 1
    BY <1>2 DEF Unsubscribe
  <2>3. Cardinality(subs \ {s}) = Cardinality(subs) - 1 /\ Cardinality(subs \ {s}) \in Nat
    BY <2>1, SubsFinite, FS_RemoveElement, FS_CardinalityType DEF IInv, TypeOK
  <2>4. /\ panic' = panic
        /\ state' \in [Subs -> {"new", "open", "closed"}]
        /\ {q \in Subs : state'[q] = "open"} = subs \ {s}
        /\ \A q \in Subs : state'[q] = "new" <=> state[q] = "new"
    BY <2>1, <2>2, CloseOpen DEF IInv
  <2>5. RegistryInv'
    BY <2>2, <2>3, <2>4 DEF IInv, RegistryInv
  <2>6. TypeOK'
    BY <2>2, <2>3, <2>4, <1>2 DEF IInv, TypeOK, RegistryInv, Unsubscribe
  <2>7. SendersInv' /\ NoDoubleClose'
    BY <2>4, <1>2 DEF IInv, SendersInv, NoDoubleClose, Unsubscribe
  <2>8. WatchersInv'
    <3>1. \A q \in Subs : state'[q] = "open" <=> q \in subs \ {s}
      BY <2>4
    <3>2. \A q \in Subs : watcher'[q] <=> q \in subs \ {s}
      BY <1>2 DEF IInv, TypeOK, RegistryInv, WatchersInv, Unsubscribe
    <3> QED BY <3>1, <3>2, <1>2 DEF IInv, WatchersInv, Unsubscribe
  <2> QED BY <2>5, <2>6, <2>7, <2>8 DEF IInv
<1> QED BY <1>1, <1>2

\* Both halves of Shutdown.
LEMMA ShutdownIInv ==
  ASSUME IInv, BeginShutdown \/ EndShutdown
  PROVE  IInv'
<1>1. CASE BeginShutdown
  BY <1>1 DEF IInv, TypeOK, RegistryInv, SendersInv, WatchersInv, NoDoubleClose, BeginShutdown, channelVars
<1>2. CASE EndShutdown
  <2>1. Close(subs) /\ subs' = {} /\ subCount' = 0
    BY <1>2 DEF EndShutdown
  <2>2. /\ panic' = panic
        /\ state' \in [Subs -> {"new", "open", "closed"}]
        /\ {q \in Subs : state'[q] = "open"} = {}
        /\ \A q \in Subs : state'[q] = "new" <=> state[q] = "new"
    BY <2>1, CloseOpen DEF IInv
  <2>3. RegistryInv'
    BY <2>1, <2>2, FS_EmptySet DEF RegistryInv
  <2>4. TypeOK'
    BY <1>2, <2>1, <2>2 DEF IInv, TypeOK, EndShutdown
  <2>5. SendersInv' /\ NoDoubleClose' /\ WatchersInv'
    BY <1>2, <2>2 DEF IInv, SendersInv, WatchersInv, NoDoubleClose, EndShutdown
  <2> QED BY <2>3, <2>4, <2>5 DEF IInv
<1> QED BY <1>1, <1>2

\* A Publish: its copy of the channels, and its sends.
LEMMA PublishIInv ==
  ASSUME IInv, NEW p \in Pubs, BeginPublish(p) \/ \E s \in Subs : Send(p, s)
  PROVE  IInv'
<1>1. CASE BeginPublish(p)
  <2>1. TypeOK'
    BY <1>1 DEF IInv, TypeOK, BeginPublish, registryVars, channelVars
  <2>2. RegistryInv' /\ WatchersInv' /\ NoDoubleClose'
    BY <1>1 DEF IInv, RegistryInv, WatchersInv, NoDoubleClose, BeginPublish, registryVars, channelVars
  <2>3. SendersInv'
    BY <1>1 DEF IInv, TypeOK, RegistryInv, SendersInv, BeginPublish, registryVars, channelVars
  <2> QED BY <2>1, <2>2, <2>3 DEF IInv
<1>2. ASSUME NEW s \in Subs, Send(p, s) PROVE IInv'
  <2>1. /\ todo' = [todo EXCEPT ![p] = @ \ {s}]
        /\ UNCHANGED <<registryVars, state, got, since, offered>>
    BY <1>2 DEF Send
  <2>2. <<p, offered[p]>> \in Events
    BY DEF IInv, TypeOK, Events
  <2>3. /\ buffer' \in [Subs -> Seq(Events)]
        /\ overrun' \in [Subs -> BOOLEAN]
        /\ panic' \in {"none", "send"}
        /\ \A q \in Subs : Len(buffer'[q]) <= BufferSize
    <3>1. CASE state[s] = "closed"
      BY <1>2, <3>1 DEF IInv, TypeOK, SendersInv, NoDoubleClose, Send
    <3>2. CASE state[s] # "closed" /\ Len(buffer[s]) < BufferSize
      <4> DEFINE longer == Append(buffer[s], <<p, offered[p]>>)
      <4>2. longer \in Seq(Events) /\ Len(longer) <= BufferSize
        BY <2>2, <3>2, BrokerAssumption DEF IInv, TypeOK
      <4>3. buffer' = [buffer EXCEPT ![s] = longer] /\ panic' = panic
            /\ overrun' \in [Subs -> BOOLEAN]
        BY <1>2, <3>2 DEF Send, IInv, TypeOK
      <4> HIDE DEF longer
      <4> QED BY <4>2, <4>3 DEF IInv, TypeOK, SendersInv, NoDoubleClose
    <3>3. CASE state[s] # "closed" /\ ~(Len(buffer[s]) < BufferSize)
      BY <1>2, <3>3 DEF IInv, TypeOK, SendersInv, NoDoubleClose, Send
    <3> QED BY <3>1, <3>2, <3>3
  <2>4. TypeOK'
    BY <2>1, <2>3 DEF IInv, TypeOK, registryVars
  <2>5. RegistryInv' /\ WatchersInv' /\ NoDoubleClose'
    BY <2>1, <2>3 DEF IInv, RegistryInv, WatchersInv, NoDoubleClose, registryVars
  <2>6. SendersInv'
    BY <2>1, <2>3 DEF IInv, TypeOK, SendersInv
  <2> QED BY <2>4, <2>5, <2>6 DEF IInv
<1> QED BY <1>1, <1>2

\* The other steps of a subscriber.
LEMMA ReaderIInv ==
  ASSUME IInv, NEW s \in Subs, CancelContext(s) \/ Receive(s)
  PROVE  IInv'
<1>1. CASE CancelContext(s)
  BY <1>1 DEF IInv, TypeOK, RegistryInv, SendersInv, WatchersInv, NoDoubleClose, CancelContext, channelVars
<1>2. CASE Receive(s)
  <2>1. /\ buffer' \in [Subs -> Seq(Events)] /\ got' \in [Subs -> Seq(Events)]
        /\ \A q \in Subs : Len(buffer'[q]) <= BufferSize
    <3>1. Head(buffer[s]) \in Events /\ Tail(buffer[s]) \in Seq(Events)
          /\ Len(Tail(buffer[s])) <= Len(buffer[s])
      BY <1>2 DEF IInv, TypeOK, Receive
    <3> QED BY <1>2, <3>1, BrokerAssumption DEF IInv, TypeOK, SendersInv, Receive
  <2> QED BY <1>2, <2>1 DEF IInv, TypeOK, RegistryInv, SendersInv, WatchersInv, NoDoubleClose,
                         Receive, registryVars
<1> QED BY <1>1, <1>2

\* Every step keeps the invariant.
LEMMA NextIInv == IInv /\ [BrokerNext]_brokerVars => IInv'
<1> SUFFICES ASSUME IInv, [BrokerNext]_brokerVars PROVE IInv'
  OBVIOUS
<1>1. CASE UNCHANGED brokerVars
  BY <1>1 DEF IInv, TypeOK, RegistryInv, SendersInv, WatchersInv, NoDoubleClose, brokerVars,
              registryVars, channelVars
<1>2. CASE BrokerNext
  BY <1>2, SubscribeIInv, UnsubscribeIInv, ShutdownIInv, PublishIInv, ReaderIInv
  DEF BrokerNext, SubscriberStep
<1> QED BY <1>1, <1>2

\* The invariant of the broker.
THEOREM BrokerInvariant == BrokerSpec => []IInv
BY InitIInv, NextIInv, PTL DEF BrokerSpec

\* The types of the broker's variables.
THEOREM BrokerTypes == BrokerSpec => []TypeOK
<1>1. IInv => TypeOK BY DEF IInv
<1> QED BY <1>1, BrokerInvariant, PTL

\* The registry, its count and the open channels agree (broker.go:31-80).
THEOREM BrokerRegistry == BrokerSpec => []RegisteredAreOpen
<1>1. IInv => RegisteredAreOpen BY DEF IInv, RegistryInv, RegisteredAreOpen
<1> QED BY <1>1, BrokerInvariant, PTL

\* A watcher and a Shutdown never close the same channel (broker.go:31-80).
THEOREM BrokerClosesOnce == BrokerSpec => []NoDoubleClose
<1>1. IInv => NoDoubleClose BY DEF IInv
<1> QED BY <1>1, BrokerInvariant, PTL
-----------------------------------------------------------------------------
(* A subscriber that keeps up. *)

\* A channel nobody subscribed to is empty, and nothing older than a subscription is
\* counted as sent to it.
KeepsUpInv ==
  /\ IInv /\ KeepsUpGetsAll
  /\ \A s \in Subs : state[s] = "new" => buffer[s] = <<>> /\ got[s] = <<>>
  /\ \A s \in Subs, p \in Pubs :
       state[s] = "open" /\ ~done => since[s][p] <= LastSent(s, p)

\* What reached a subscriber are events.
LEMMA AllTyped ==
  ASSUME TypeOK, NEW s \in Subs
  PROVE  /\ All(s) \in Seq(Events)
         /\ \A p \in Pubs : LastSent(s, p) \in Int /\ since[s][p] \in Nat
  BY DEF TypeOK, All, LastSent

LEMMA KeepsUpInit == BrokerInit => KeepsUpInv
  BY InitIInv DEF BrokerInit, KeepsUpInv, KeepsUpGetsAll

\* A step that leaves a channel's contents and its senders leaves what it got.
LEMMA GotAllKept ==
  ASSUME NEW s \in Subs, NEW p \in Pubs, GotAll(s, p),
         got'[s] = got[s], buffer'[s] = buffer[s], since'[s][p] = since[s][p],
         LastSent(s, p)' = LastSent(s, p)
  PROVE  GotAll(s, p)'
<1>1. All(s)' = All(s)
  BY DEF All
<1>2. OfPub(s, p)' = OfPub(s, p)
  BY <1>1 DEF OfPub
<1>3. QED
  BY <1>1, <1>2 DEF GotAll

\* Steps that open no channel and reach no buffer.
LEMMA ContentsKept ==
  ASSUME KeepsUpInv, IInv', UNCHANGED <<buffer, got, since, overrun, todo, offered>>,
         done => done',
         \A s \in Subs : (state'[s] = "open" /\ ~done' => state[s] = "open")
                         /\ (state'[s] = "new" => state[s] = "new")
  PROVE  KeepsUpInv'
<1>1. \A s \in Subs, p \in Pubs : LastSent(s, p)' = LastSent(s, p)
  BY DEF LastSent
<1>2. ASSUME NEW s \in Subs, NEW p \in Pubs, state'[s] = "open", ~overrun'[s], ~done'
      PROVE  GotAll(s, p)'
  <2>1. GotAll(s, p)
    BY <1>2 DEF KeepsUpInv, KeepsUpGetsAll, GotAll
  <2>2. QED
    BY <1>1, <2>1, GotAllKept
<1>3. QED
  BY <1>1, <1>2 DEF KeepsUpInv, KeepsUpGetsAll, GotAll

LEMMA SubscribeKeepsUp ==
  ASSUME KeepsUpInv, NEW s \in Subs, Subscribe(s)
  PROVE  KeepsUpInv'
<1>1. IInv /\ IInv'
  BY SubscribeIInv DEF KeepsUpInv
<1>2. /\ state' = [state EXCEPT ![s] = "open"] /\ state[s] = "new" /\ ~done
      /\ since' = [since EXCEPT ![s] = offered]
      /\ UNCHANGED <<done, buffer, got, overrun, todo, offered>>
  BY DEF Subscribe
<1>3. TypeOK /\ TypeOK'
  BY <1>1 DEF IInv
<1>4. \A q \in Subs, p \in Pubs : LastSent(q, p)' = LastSent(q, p)
  BY <1>2 DEF LastSent
<1>5. ASSUME NEW p \in Pubs PROVE GotAll(s, p)' /\ since'[s][p] <= LastSent(s, p)'
  <2>1. s \notin todo[p]
    BY <1>1, <1>2 DEF IInv, SendersInv
  <2>2. LastSent(s, p)' = offered[p] /\ since'[s][p] = offered[p] /\ offered[p] \in Nat
    BY <1>2, <1>3, <2>1 DEF LastSent, TypeOK
  <2>3. All(s)' = <<>>
    BY <1>2 DEF KeepsUpInv, All
  <2>4. OfPub(s, p)' = {}
    BY <2>3 DEF OfPub
  <2>5. since'[s][p] + 1 .. LastSent(s, p)' = {}
    BY <2>2
  <2>6. QED
    BY <2>2, <2>4, <2>5 DEF GotAll
<1>6. ASSUME NEW q \in Subs, q # s
      PROVE  state'[q] = state[q] /\ \A p \in Pubs : since'[q][p] = since[q][p]
  BY <1>2, <1>3, <1>6 DEF TypeOK
<1>7. ASSUME NEW q \in Subs, NEW p \in Pubs, state'[q] = "open", ~overrun'[q], ~done'
      PROVE  GotAll(q, p)'
  <2>1. CASE q = s
    BY <1>5, <2>1
  <2>2. CASE q # s
    <3>1. GotAll(q, p)
      BY <1>2, <1>6, <1>7, <2>2 DEF KeepsUpInv, KeepsUpGetsAll, GotAll
    <3>2. QED
      BY <1>2, <1>4, <1>6, <2>2, <3>1, GotAllKept
  <2>3. QED
    BY <2>1, <2>2
<1>8. \A q \in Subs : state'[q] = "new" => buffer'[q] = <<>> /\ got'[q] = <<>>
  BY <1>2, <1>3 DEF KeepsUpInv, TypeOK
<1>9. ASSUME NEW q \in Subs, NEW p \in Pubs, state'[q] = "open", ~done'
      PROVE  since'[q][p] <= LastSent(q, p)'
  BY <1>2, <1>4, <1>5, <1>6, <1>9 DEF KeepsUpInv
<1>10. QED
  BY <1>1, <1>7, <1>8, <1>9 DEF KeepsUpInv, KeepsUpGetsAll, GotAll

\* A Publish copies every open channel, so that its event is still to be sent to each.
LEMMA BeginKeepsUp ==
  ASSUME KeepsUpInv, NEW p \in Pubs, BeginPublish(p)
  PROVE  KeepsUpInv'
<1>1. IInv /\ IInv'
  BY PublishIInv DEF KeepsUpInv
<1>2. /\ todo[p] = {} /\ offered' = [offered EXCEPT ![p] = @ + 1]
      /\ todo' = [todo EXCEPT ![p] = IF done THEN {} ELSE subs]
      /\ UNCHANGED <<done, state, buffer, got, since, overrun>>
  BY DEF BeginPublish, registryVars, channelVars
<1>3. ASSUME NEW s \in Subs, NEW q \in Pubs, state[s] = "open", ~done
      PROVE  LastSent(s, q)' = LastSent(s, q)
  <2>1. s \in subs
    BY <1>1, <1>3 DEF IInv, RegistryInv
  <2>2. QED
    BY <1>1, <1>2, <1>3, <2>1 DEF LastSent, IInv, TypeOK
<1>4. ASSUME NEW s \in Subs, NEW q \in Pubs, state'[s] = "open", ~overrun'[s], ~done'
      PROVE  GotAll(s, q)'
  <2>1. GotAll(s, q)
    BY <1>2, <1>4 DEF KeepsUpInv, KeepsUpGetsAll, GotAll
  <2>2. QED
    BY <1>2, <1>3, <1>4, <2>1, GotAllKept
<1>5. QED
  BY <1>1, <1>2, <1>3, <1>4 DEF KeepsUpInv, KeepsUpGetsAll, GotAll

\* What is appended to the second of two sequences is appended to both.
LEMMA AppendToSecond ==
  ASSUME NEW S, NEW a \in Seq(S), NEW b \in Seq(S), NEW e \in S
  PROVE  a \o Append(b, e) = Append(a \o b, e)
<1>1. <<e>> \in Seq(S) /\ a \o b \in Seq(S)
  BY ConcatProperties
<1>2. (a \o b) \o <<e>> = a \o (b \o <<e>>)
  BY <1>1, ConcatAssociative
<1>3. QED
  BY <1>1, <1>2, AppendIsConcat

LEMMA AllAppended ==
  ASSUME TypeOK, NEW s \in Subs, NEW e \in Events, got' = got, buffer'[s] = Append(buffer[s], e)
  PROVE  All(s)' = Append(All(s), e)
<1>1. PICK a \in Seq(Events), b \in Seq(Events) : a = got[s] /\ b = buffer[s]
  BY DEF TypeOK
<1>2. a \o Append(b, e) = Append(a \o b, e)
  BY AppendToSecond
<1>3. QED
  BY <1>1, <1>2 DEF All

\* An event that finds room is the next of its publisher.
LEMMA SentIsNext ==
  ASSUME KeepsUpInv, NEW p \in Pubs, NEW s \in Subs, Send(p, s),
         state[s] = "open", ~overrun'[s], ~done, NEW q \in Pubs
  PROVE  GotAll(s, q)'
<1>1. TypeOK /\ TypeOK'
  BY PublishIInv DEF KeepsUpInv, IInv
<1>2. DEFINE event == <<p, offered[p]>>
             old == All(s)
             new == Append(old, event)
             last == Len(old) + 1
<1>3. /\ ~overrun[s] /\ s \in todo[p] /\ todo' = [todo EXCEPT ![p] = @ \ {s}]
      /\ buffer' = [buffer EXCEPT ![s] = Append(@, event)]
      /\ UNCHANGED <<got, since, offered>>
  BY <1>1 DEF Send, TypeOK
<1>4. old \in Seq(Events) /\ event \in Events /\ offered[p] \in Nat /\ since[s][q] \in Nat
  BY <1>1, AllTyped DEF TypeOK, Events
<1>5. All(s)' = new
  <2>1. got[s] \in Seq(Events) /\ buffer[s] \in Seq(Events) /\ buffer'[s] = Append(buffer[s], event)
    BY <1>1, <1>3 DEF TypeOK
  <2>2. QED
    BY <1>1, <1>3, <1>4, <2>1, AllAppended
<1>6. GotAll(s, q) /\ since[s][q] <= LastSent(s, q)
  BY <1>3 DEF KeepsUpInv, KeepsUpGetsAll, GotAll
<1>7. /\ Len(old) \in Nat /\ DOMAIN old = 1 .. Len(old) /\ DOMAIN new = 1 .. last
      /\ \A i \in DOMAIN old : new[i] = old[i] /\ old[i] \in Events
      /\ new[last] = event
  BY <1>4
<1>8. CASE q # p
  <2>1. LastSent(s, q)' = LastSent(s, q)
    BY <1>1, <1>3, <1>8 DEF LastSent, TypeOK
  <2>2. OfPub(s, q)' = OfPub(s, q) /\ \A i \in OfPub(s, q) : i \in DOMAIN old
    BY <1>5, <1>7, <1>8 DEF OfPub
  <2>3. \A i \in OfPub(s, q) : All(s)'[i] = All(s)[i]
    BY <1>5, <1>7, <2>2
  <2>4. since'[s][q] = since[s][q]
    BY <1>3
  <2>5. {All(s)'[i][2] : i \in OfPub(s, q)} = {All(s)[i][2] : i \in OfPub(s, q)}
    BY <2>3
  <2>6. QED
    BY <1>6, <2>1, <2>2, <2>3, <2>4, <2>5 DEF GotAll
<1>9. CASE q = p
  <2>1. LastSent(s, p)' = offered[p] /\ LastSent(s, p) = offered[p] - 1
    BY <1>1, <1>3 DEF LastSent, TypeOK
  <2>2. OfPub(s, p)' = OfPub(s, p) \cup {last} /\ \A i \in OfPub(s, p) : i \in DOMAIN old
    BY <1>5, <1>7 DEF OfPub
  <2>3. \A i \in OfPub(s, p) : i < last /\ new[i] = old[i] /\ old[i][2] < offered[p]
    <3>1. ASSUME NEW i \in OfPub(s, p) PROVE old[i][2] \in since[s][p] + 1 .. LastSent(s, p)
      BY <1>6, <1>9, <3>1 DEF GotAll
    <3>2. QED
      BY <1>4, <1>7, <1>9, <2>1, <2>2, <3>1
  <2>4. new[last][2] = offered[p]
    BY <1>7
  <2> DEFINE reached == {old[i][2] : i \in OfPub(s, p)}
  <2>5. {new[i][2] : i \in OfPub(s, p) \cup {last}} = reached \cup {offered[p]}
    BY <2>3, <2>4
  <2>6. reached = since[s][p] + 1 .. offered[p] - 1
    BY <1>6, <1>9, <2>1 DEF GotAll
  <2>7. since[s][p] + 1 .. offered[p] = (since[s][p] + 1 .. offered[p] - 1) \cup {offered[p]}
    BY <1>4, <1>6, <1>9, <2>1
  <2>8. {new[i][2] : i \in OfPub(s, p) \cup {last}} = since[s][p] + 1 .. offered[p]
    BY <2>5, <2>6, <2>7
  <2>9. \A i, j \in OfPub(s, p) \cup {last} : i < j => new[i][2] < new[j][2]
    <3>1. ASSUME NEW i \in OfPub(s, p) \cup {last}, NEW j \in OfPub(s, p) \cup {last}, i < j
          PROVE  new[i][2] < new[j][2]
      <4>1. i \in OfPub(s, p)
        BY <1>7, <2>2, <2>3, <3>1
      <4>2. CASE j = last
        BY <2>3, <2>4, <4>1, <4>2
      <4>3. CASE j \in OfPub(s, p)
        <5>1. old[i][2] < old[j][2]
          BY <1>6, <1>9, <3>1, <4>1, <4>3 DEF GotAll
        <5>2. QED
          BY <2>3, <4>1, <4>3, <5>1
      <4>4. QED
        BY <4>2, <4>3
    <3>2. QED
      BY <3>1
  <2>10. since'[s][p] = since[s][p]
    BY <1>3
  <2> HIDE DEF new
  <2>11. QED
    BY <1>5, <1>9, <2>1, <2>2, <2>8, <2>9, <2>10 DEF GotAll
<1>10. QED
  BY <1>8, <1>9

LEMMA SendKeepsUp ==
  ASSUME KeepsUpInv, NEW p \in Pubs, NEW s \in Subs, Send(p, s)
  PROVE  KeepsUpInv'
<1>1. IInv /\ IInv'
  BY PublishIInv DEF KeepsUpInv
<1>2. /\ s \in todo[p] /\ todo' = [todo EXCEPT ![p] = @ \ {s}]
      /\ UNCHANGED <<done, state, got, since, offered>>
      /\ \A q \in Subs \ {s} : buffer'[q] = buffer[q] /\ overrun'[q] = overrun[q]
  BY <1>1 DEF Send, registryVars, IInv, TypeOK
<1>3. state[s] # "new"
  BY <1>1, <1>2 DEF IInv, SendersInv
<1>4. ASSUME NEW q \in Subs, q # s, NEW r \in Pubs PROVE LastSent(q, r)' = LastSent(q, r)
  BY <1>1, <1>2, <1>4 DEF LastSent, IInv, TypeOK
<1>5. ASSUME NEW r \in Pubs PROVE LastSent(s, r) <= LastSent(s, r)'
  BY <1>1, <1>2 DEF LastSent, IInv, TypeOK
<1>6. ASSUME NEW q \in Subs, NEW r \in Pubs, state'[q] = "open", ~overrun'[q], ~done'
      PROVE  GotAll(q, r)'
  <2>1. CASE q = s
    BY <1>2, <1>6, <2>1, SentIsNext
  <2>2. CASE q # s
    <3>1. GotAll(q, r)
      BY <1>2, <1>6, <2>2 DEF KeepsUpInv, KeepsUpGetsAll, GotAll
    <3>2. QED
      BY <1>2, <1>4, <2>2, <3>1, GotAllKept
  <2>3. QED
    BY <2>1, <2>2
<1>7. \A q \in Subs : state'[q] = "new" => buffer'[q] = <<>> /\ got'[q] = <<>>
  BY <1>2, <1>3 DEF KeepsUpInv
<1>8. ASSUME NEW q \in Subs, NEW r \in Pubs, state'[q] = "open", ~done'
      PROVE  since'[q][r] <= LastSent(q, r)'
  <2>1. since[q][r] <= LastSent(q, r) /\ since'[q][r] = since[q][r]
    BY <1>2, <1>8 DEF KeepsUpInv
  <2>2. LastSent(q, r) \in Int /\ LastSent(q, r)' \in Int /\ since[q][r] \in Nat
    BY <1>1, <1>2, SMTT(40) DEF IInv, TypeOK, LastSent
  <2>3. LastSent(q, r) <= LastSent(q, r)'
    BY <1>4, <1>5, <2>2
  <2>4. QED
    BY <2>1, <2>2, <2>3
<1>9. QED
  BY <1>1, <1>6, <1>7, <1>8 DEF KeepsUpInv, KeepsUpGetsAll, GotAll

\* What moves from the head of one sequence to the end of another.
LEMMA TakenAndLeft ==
  ASSUME NEW S, NEW a \in Seq(S), NEW b \in Seq(S), b # <<>>
  PROVE  Append(a, Head(b)) \o Tail(b) = a \o b
<1>1. Head(b) \in S /\ Tail(b) \in Seq(S) /\ <<Head(b)>> \in Seq(S)
  OBVIOUS
<1>2. <<Head(b)>> \o Tail(b) = b
  <2>1. Len(b) \in Nat /\ Len(b) > 0 /\ Len(Tail(b)) = Len(b) - 1
    OBVIOUS
  <2>2. Len(<<Head(b)>> \o Tail(b)) = Len(b)
    BY <1>1, <2>1, ConcatProperties
  <2>3. \A i \in 1 .. Len(b) : (<<Head(b)>> \o Tail(b))[i] = b[i]
    BY <1>1, <2>1
  <2>4. QED
    BY <1>1, <2>2, <2>3, ConcatProperties, SeqEqual
<1>3. Append(a, Head(b)) = a \o <<Head(b)>>
  BY <1>1, AppendIsConcat
<1>4. (a \o <<Head(b)>>) \o Tail(b) = a \o (<<Head(b)>> \o Tail(b))
  BY <1>1, ConcatAssociative
<1>5. QED
  BY <1>2, <1>3, <1>4

\* What is taken from a channel stays where it was in what reached its reader.
LEMMA ReceiveKeepsUp ==
  ASSUME KeepsUpInv, NEW s \in Subs, Receive(s)
  PROVE  KeepsUpInv'
<1>1. IInv /\ IInv'
  BY ReaderIInv DEF KeepsUpInv
<1>2. /\ buffer[s] # <<>>
      /\ got' = [got EXCEPT ![s] = Append(@, Head(buffer[s]))]
      /\ buffer' = [buffer EXCEPT ![s] = Tail(@)]
      /\ UNCHANGED <<done, state, since, overrun, todo, offered>>
  BY DEF Receive, registryVars
<1>3. \A q \in Subs : All(q)' = All(q)
  <2>1. ASSUME NEW q \in Subs, q # s PROVE All(q)' = All(q)
    BY <1>1, <1>2, <2>1 DEF All, IInv, TypeOK
  <2>2. got[s] \in Seq(Events) /\ buffer[s] \in Seq(Events)
    BY <1>1 DEF IInv, TypeOK
  <2>3. Append(got[s], Head(buffer[s])) \o Tail(buffer[s]) = got[s] \o buffer[s]
    BY <1>2, <2>2, TakenAndLeft
  <2>4. All(s)' = All(s)
    BY <1>1, <1>2, <2>3 DEF All, IInv, TypeOK
  <2>5. QED
    BY <2>1, <2>4
<1>4. \A q \in Subs, p \in Pubs : OfPub(q, p)' = OfPub(q, p) /\ LastSent(q, p)' = LastSent(q, p)
  BY <1>2, <1>3 DEF OfPub, LastSent
<1>5. ASSUME NEW q \in Subs, NEW p \in Pubs, state'[q] = "open", ~overrun'[q], ~done'
      PROVE  GotAll(q, p)'
  <2>1. GotAll(q, p)
    BY <1>2, <1>5 DEF KeepsUpInv, KeepsUpGetsAll, GotAll
  <2>2. QED
    BY <1>2, <1>3, <1>4, <2>1 DEF GotAll
<1>6. \A q \in Subs : state'[q] = "new" => buffer'[q] = <<>> /\ got'[q] = <<>>
  BY <1>1, <1>2 DEF KeepsUpInv, IInv, TypeOK
<1>7. \A q \in Subs, p \in Pubs : state'[q] = "open" /\ ~done' => since'[q][p] <= LastSent(q, p)'
  BY <1>2, <1>4 DEF KeepsUpInv
<1>8. QED
  BY <1>1, <1>5, <1>6, <1>7 DEF KeepsUpInv, KeepsUpGetsAll, GotAll

\* Steps that close channels, or none.
LEMMA OthersKeepUp ==
  ASSUME KeepsUpInv, BrokerNext,
         \/ \E s \in Subs : SubscribeLate(s) \/ CancelContext(s) \/ Unsubscribe(s)
         \/ BeginShutdown \/ EndShutdown
  PROVE  KeepsUpInv'
<1>1. IInv /\ IInv'
  BY NextIInv DEF KeepsUpInv
<1>2. UNCHANGED <<buffer, got, since, overrun, todo, offered>> \/ \E s \in Subs : SubscribeLate(s)
  BY DEF CancelContext, Unsubscribe, BeginShutdown, EndShutdown, channelVars
<1>3. CASE \E s \in Subs : SubscribeLate(s)
  <2>1. done /\ done' /\ UNCHANGED <<buffer, got>>
    BY <1>3 DEF SubscribeLate, registryVars
  <2>2. \A q \in Subs : state'[q] = "new" => state[q] = "new"
    BY <1>1, <1>3 DEF SubscribeLate, IInv, TypeOK
  <2>3. QED
    BY <1>1, <2>1, <2>2 DEF KeepsUpInv, KeepsUpGetsAll
<1>4. ASSUME UNCHANGED <<buffer, got, since, overrun, todo, offered>>,
             ~ \E s \in Subs : SubscribeLate(s)
      PROVE  KeepsUpInv'
  <2>1. done => done'
    BY <1>4 DEF CancelContext, Unsubscribe, BeginShutdown, EndShutdown
  <2>2. ASSUME NEW q \in Subs
        PROVE  (state'[q] = "open" => state[q] = "open") /\ (state'[q] = "new" => state[q] = "new")
    BY <1>4 DEF CancelContext, Unsubscribe, BeginShutdown, EndShutdown, Close, channelVars
  <2>3. QED
    BY <1>1, <1>4, <2>1, <2>2, ContentsKept
<1>5. QED
  BY <1>2, <1>3, <1>4

\* Whoever keeps up misses nothing, for any number of subscribers and publishers and
\* whatever the size of a buffer (broker.go:93-116).
THEOREM BrokerMissesNothing == BrokerSpec => []KeepsUpGetsAll
<1>1. BrokerInit => KeepsUpInv
  BY KeepsUpInit
<1>2. KeepsUpInv /\ [BrokerNext]_brokerVars => KeepsUpInv'
  <2>1. SUFFICES ASSUME KeepsUpInv, [BrokerNext]_brokerVars PROVE KeepsUpInv'
    OBVIOUS
  <2>2. CASE UNCHANGED brokerVars
    <3>1. IInv'
      BY <2>1, NextIInv DEF KeepsUpInv
    <3>2. UNCHANGED <<done, state, buffer, got, since, overrun, todo, offered>>
      BY <2>2 DEF brokerVars, registryVars, channelVars
    <3>3. QED
      BY <2>1, <3>1, <3>2, ContentsKept
  <2>3. CASE BrokerNext
    BY <2>1, <2>3, SubscribeKeepsUp, BeginKeepsUp, SendKeepsUp, ReceiveKeepsUp, OthersKeepUp
    DEF BrokerNext, SubscriberStep
  <2>4. QED
    BY <2>1, <2>2, <2>3
<1>3. KeepsUpInv => KeepsUpGetsAll
  BY DEF KeepsUpInv
<1>4. QED
  BY <1>1, <1>2, <1>3, PTL DEF BrokerSpec
-----------------------------------------------------------------------------
(* The refinement. *)

\* The abstract state of the broker.
LiveSubs == {s \in Subs : state[s] = "open"}
EndedSubs == {s \in Subs : state[s] = "closed"}
OwedTo == [s \in Subs |-> {p \in Pubs : s \in todo[p] /\ state[s] = "open"}]

\* The initial states of the broker are initial streams.
LEMMA InitRefines == BrokerInit => Stream!Init
BY DEF BrokerInit, Stream!Init

\* Closing open channels ends their subscriptions, closing none is a stutter.
LEMMA CloseRefines ==
  ASSUME IInv, NEW chans, chans \subseteq subs, Close(chans), UNCHANGED <<done, todo, buffer, offered>>
  PROVE  [Stream!Next]_(Stream!vars)
<1>1. \A s \in Subs : /\ s \in chans => state[s] = "open" /\ state'[s] = "closed"
                      /\ s \notin chans => state'[s] = state[s]
  BY DEF IInv, TypeOK, RegistryInv, Close
<1>2. chans \in SUBSET Subs
  BY DEF IInv, TypeOK
<1>3. CASE chans = {}
  BY <1>1, <1>3 DEF Stream!vars
<1>4. CASE chans # {}
  <2>1. chans \cap EndedSubs = {}
    BY <1>1, <1>2 DEF EndedSubs
  <2>2. LiveSubs' = LiveSubs \ chans /\ EndedSubs' = EndedSubs \cup chans
    BY <1>1, <1>2 DEF LiveSubs, EndedSubs
  <2>3. OwedTo' = [s \in Subs |-> IF s \in chans THEN {} ELSE OwedTo[s]]
    <3>1. ASSUME NEW s \in Subs
          PROVE  OwedTo'[s] = IF s \in chans THEN {} ELSE OwedTo[s]
      BY <1>1 DEF OwedTo
    <3> QED BY <3>1 DEF OwedTo
  <2>4. Stream!End(chans)
    BY <1>4, <2>1, <2>2, <2>3 DEF Stream!End, LiveSubs, EndedSubs, OwedTo
  <2> QED BY <1>2, <2>4 DEF Stream!Next
<1> QED BY <1>3, <1>4

\* A subscription begins, or ends before it began.
LEMMA SubscribeRefines ==
  ASSUME IInv, NEW s \in Subs, SubscribeLate(s) \/ Subscribe(s)
  PROVE  Stream!Next
<1>0. state[s] = "new" /\ (\A p \in Pubs : s \notin todo[p]) /\ OwedTo[s] = {}
  BY DEF IInv, SendersInv, SubscribeLate, Subscribe, OwedTo
<1>1. CASE SubscribeLate(s)
  <2>1. \A q \in Subs : state'[q] = IF q = s THEN "closed" ELSE state[q]
    BY <1>1 DEF SubscribeLate, IInv, TypeOK
  <2>2. {s} \cap EndedSubs = {} /\ LiveSubs' = LiveSubs \ {s} /\ EndedSubs' = EndedSubs \cup {s}
    BY <1>0, <2>1 DEF LiveSubs, EndedSubs
  <2>3. OwedTo' = [q \in Subs |-> IF q \in {s} THEN {} ELSE OwedTo[q]]
    <3>1. ASSUME NEW q \in Subs PROVE OwedTo'[q] = IF q \in {s} THEN {} ELSE OwedTo[q]
      BY <1>1, <2>1 DEF OwedTo, SubscribeLate
    <3> QED BY <3>1 DEF OwedTo
  <2>4. Stream!End({s})
    BY <1>1, <2>2, <2>3 DEF Stream!End, LiveSubs, EndedSubs, OwedTo, SubscribeLate, registryVars
  <2> QED BY <2>4 DEF Stream!Next
<1>2. CASE Subscribe(s)
  <2>1. \A q \in Subs : state'[q] = IF q = s THEN "open" ELSE state[q]
    BY <1>2 DEF Subscribe, IInv, TypeOK
  <2>2. s \notin LiveSubs \cup EndedSubs /\ LiveSubs' = LiveSubs \cup {s} /\ EndedSubs' = EndedSubs
    BY <1>0, <2>1 DEF LiveSubs, EndedSubs
  <2>3. OwedTo' = OwedTo
    <3>1. ASSUME NEW q \in Subs PROVE OwedTo'[q] = OwedTo[q]
      BY <1>0, <1>2, <2>1 DEF OwedTo, Subscribe
    <3> QED BY <3>1 DEF OwedTo
  <2>4. Stream!Begin(s)
    BY <1>2, <2>2, <2>3 DEF Stream!Begin, LiveSubs, EndedSubs, OwedTo, Subscribe
  <2> QED BY <2>4 DEF Stream!Next
<1> QED BY <1>1, <1>2

\* A Publish is owed to the channels it copied.
LEMMA BeginPublishRefines ==
  ASSUME IInv, NEW p \in Pubs, BeginPublish(p)
  PROVE  Stream!Next
<1>1. \A s \in Subs : p \notin OwedTo[s]
  BY DEF BeginPublish, OwedTo
<1>2. UNCHANGED <<LiveSubs, EndedSubs, buffer>> /\ offered' = [offered EXCEPT ![p] = @ + 1]
  BY DEF BeginPublish, channelVars, LiveSubs, EndedSubs
<1> DEFINE to == IF done THEN {} ELSE LiveSubs
<1>3. todo'[p] = to
  BY DEF BeginPublish, IInv, TypeOK, RegistryInv, LiveSubs
<1>4. \A q \in Pubs : q # p => todo'[q] = todo[q]
  BY DEF BeginPublish, IInv, TypeOK
<1>5. OwedTo' = [s \in Subs |-> IF s \in LiveSubs /\ ~done THEN OwedTo[s] \cup {p} ELSE OwedTo[s]]
  <2>1. ASSUME NEW s \in Subs
        PROVE  OwedTo'[s] = IF s \in LiveSubs /\ ~done THEN OwedTo[s] \cup {p} ELSE OwedTo[s]
    <3>1. state'[s] = state[s] /\ (s \in to => state[s] = "open")
      BY DEF BeginPublish, channelVars, LiveSubs
    <3> QED BY <1>1, <1>3, <1>4, <3>1 DEF OwedTo, BeginPublish
  <2> QED BY <2>1 DEF OwedTo
<1>6. Stream!Publish(p)
  BY <1>1, <1>2, <1>5 DEF Stream!Publish, BeginPublish, registryVars, LiveSubs, EndedSubs, OwedTo
<1> QED BY <1>6 DEF Stream!Next

\* A send delivers what is owed, loses it to a full buffer, or meets a closed channel.
LEMMA SendRefines ==
  ASSUME IInv, NEW p \in Pubs, NEW s \in Subs, Send(p, s)
  PROVE  [Stream!Next]_(Stream!vars)
<1>1. /\ s \in todo[p] /\ state[s] \in {"open", "closed"}
      /\ UNCHANGED <<done, LiveSubs, EndedSubs, state, offered>>
  BY DEF Send, registryVars, IInv, TypeOK, SendersInv, LiveSubs, EndedSubs
<1>2. \A q \in Pubs : todo'[q] = IF q = p THEN todo[q] \ {s} ELSE todo[q]
  BY DEF Send, IInv, TypeOK
<1>3. CASE state[s] = "closed"
  <2>1. OwedTo' = OwedTo
    <3>1. ASSUME NEW q \in Subs PROVE OwedTo'[q] = OwedTo[q]
      BY <1>1, <1>2, <1>3 DEF OwedTo
    <3> QED BY <3>1 DEF OwedTo
  <2>2. buffer' = buffer
    BY <1>3 DEF Send
  <2> QED BY <1>1, <2>1, <2>2 DEF Stream!vars, LiveSubs, EndedSubs, OwedTo
<1>4. CASE state[s] = "open"
  <2>1. p \in OwedTo[s]
    BY <1>1, <1>4 DEF OwedTo
  <2>2. OwedTo' = [OwedTo EXCEPT ![s] = @ \ {p}]
    <3>1. ASSUME NEW q \in Subs
          PROVE  OwedTo'[q] = IF q = s THEN OwedTo[s] \ {p} ELSE OwedTo[q]
      BY <1>1, <1>2 DEF OwedTo
    <3> QED BY <3>1 DEF OwedTo
  <2>3. CASE Len(buffer[s]) < BufferSize
    <3>1. buffer' = [buffer EXCEPT ![s] = Append(@, <<p, offered[p]>>)]
      BY <1>4, <2>3 DEF Send
    <3>2. Stream!Deliver(p, s)
      BY <1>1, <2>1, <2>2, <3>1 DEF Stream!Deliver, LiveSubs, EndedSubs, OwedTo
    <3> QED BY <3>2 DEF Stream!Next
  <2>4. CASE ~(Len(buffer[s]) < BufferSize)
    <3>1. buffer' = buffer
      BY <1>4, <2>4 DEF Send
    <3>2. Len(buffer[s]) = BufferSize
      BY <2>4, BrokerAssumption DEF IInv, TypeOK, SendersInv
    <3>3. Stream!Lose(p, s)
      BY <1>1, <2>1, <2>2, <3>1, <3>2 DEF Stream!Lose, LiveSubs, EndedSubs, OwedTo
    <3> QED BY <3>3 DEF Stream!Next
  <2> QED BY <2>3, <2>4
<1> QED BY <1>1, <1>3, <1>4

\* Every step of the broker is a step of the stream or a stutter.
LEMMA NextRefines == IInv /\ [BrokerNext]_brokerVars => [Stream!Next]_(Stream!vars)
<1> SUFFICES ASSUME IInv, [BrokerNext]_brokerVars PROVE [Stream!Next]_(Stream!vars)
  OBVIOUS
<1>1. CASE UNCHANGED brokerVars
  BY <1>1 DEF Stream!vars, brokerVars, registryVars, channelVars
<1>2. ASSUME NEW s \in Subs, SubscriberStep(s) PROVE [Stream!Next]_(Stream!vars)
  <2>1. CASE CancelContext(s)
    BY <2>1 DEF CancelContext, registryVars, channelVars, Stream!vars
  <2>2. CASE Receive(s)
    <3>1. Stream!Read(s)
      BY <2>2 DEF Receive, registryVars, Stream!Read
    <3> QED BY <3>1 DEF Stream!Next
  <2> QED BY <1>2, <2>1, <2>2, SubscribeRefines DEF SubscriberStep
<1>3. ASSUME NEW s \in Subs, Unsubscribe(s) PROVE [Stream!Next]_(Stream!vars)
  <2>1. CASE done
    BY <1>3, <2>1 DEF Unsubscribe, Stream!vars
  <2>2. CASE ~done
    <3>1. s \in subs
      BY <1>3, <2>2 DEF IInv, RegistryInv, WatchersInv, Unsubscribe
    <3> QED BY <1>3, <2>2, <3>1, CloseRefines DEF Unsubscribe
  <2> QED BY <2>1, <2>2
<1>4. CASE BeginShutdown
  <2>1. Stream!Stop
    BY <1>4 DEF BeginShutdown, channelVars, Stream!Stop
  <2> QED BY <2>1 DEF Stream!Next
<1>5. CASE EndShutdown
  BY <1>5, CloseRefines DEF EndShutdown
<1> QED BY <1>1, <1>2, <1>3, <1>4, <1>5, BeginPublishRefines, SendRefines DEF BrokerNext

\* The broker implements the abstract stream of events (broker.go:31-118).
THEOREM BrokerImplementsStream == BrokerSpec => ImplementsEventStream
<1>1. BrokerInit /\ []IInv /\ [][BrokerNext]_brokerVars => Stream!Spec
  BY InitRefines, NextRefines, PTL DEF Stream!Spec
<1> QED BY <1>1, BrokerInvariant, PTL DEF BrokerSpec, ImplementsEventStream
-----------------------------------------------------------------------------
(* The stream of a provider. *)

\* The strengthening of AnswerWhole, EndsTold and of the bounds of StreamTypeOK: how
\* far the pieces of the running attempt have come, and what is still on its way.

Piece == Nat \X Nat
Kinds == {"note", "delta", "complete", "error", "nil error"}

StreamTypes ==
  /\ client \in Clients
  /\ at \in {"new", "next", "some", "stopped", "refused", "backoff", "again", "ending", "closed",
             "panicked"}
  /\ attempts \in Nat
  /\ content \in Seq(Piece) /\ text \in Seq(Piece) /\ answers \in Seq(Seq(Piece))
  /\ ctxDone \in BOOLEAN
  /\ reader \in {"creating", "reading", "checking", "left", "done", "died"}

Listening == reader \in {"creating", "reading", "checking"}

\* The first n pieces of attempt a.
Pieces(a, n) == [i \in 1 .. n |-> <<a, i>>]

\* The event of the last piece of the running attempt.
Delta == [type |-> "delta", content |-> <<<<attempts, Len(content)>>>>]

Idle == sent \in {<<>>, <<Note>>}
TellsFailure == sent \in {<<Failure>>, <<NilFailure>>}
TellsPiece == sent \in {<<Delta>>, <<Note, Delta>>}
TellsAnswer == sent \in {<<Complete>>, <<Note, Complete>>}

Exclusive ==
  /\ Idle => ~TellsFailure /\ ~TellsPiece /\ ~TellsAnswer
  /\ TellsFailure => ~TellsPiece /\ ~TellsAnswer
  /\ TellsPiece => ~TellsAnswer
  /\ sent = <<>> => Idle

\* What is on its way, and where the client stands then.
OnItsWay ==
  /\ \/ Idle \/ TellsFailure
     \/ TellsPiece /\ at = "some" /\ content # <<>>
     \/ TellsAnswer /\ at \in {"stopped", "ending"} /\ answers = <<>>
  /\ at \in {"new", "backoff", "closed"} => sent = <<>>

\* A client that may still send another request has sent no text.
NoTextYet ==
  /\ at \in {"new", "next", "again", "refused"} => content = <<>>
  /\ at = "backoff" /\ client # "gemini" => content = <<>>
  /\ at = "stopped" => client \in Proxies \cup {"anthropic"}

\* The message is what was sent, up to what is on its way; a run that left may miss more.
TextSoFar ==
  /\ content = Pieces(attempts, Len(content))
  /\ text = Pieces(attempts, Len(text))
  /\ Len(text) + (IF TellsPiece THEN 1 ELSE 0) <= Len(content)
  /\ Listening => Len(content) <= Len(text) + (IF TellsPiece THEN 1 ELSE 0)

AnswerOnce ==
  answers # <<>> => /\ answers = <<text>> /\ text = content
                    /\ at \in {"stopped", "ending", "closed"}

Excused ==
  \/ client \in Proxies \cup {"anthropic"}
  \/ client \in Compatible /\ ctxDone

QuietEnds ==
  /\ reader = "done" => at = "closed" /\ sent = <<>>
  /\ (Listening \/ reader = "done") /\ at \in {"ending", "closed"} /\ Idle /\ answers = <<>> =>
       Excused

AttemptsCounted ==
  /\ at = "new" => attempts = 0
  /\ client # "gemini" /\ at \in {"backoff", "again"} => attempts <= MaxRetries
  /\ client = "gemini" /\ at = "again" => attempts < MaxSends
  /\ attempts <= IF client = "gemini" THEN MaxSends ELSE MaxRetries + 1

StreamInv ==
  /\ StreamTypes /\ OnItsWay /\ NoTextYet /\ TextSoFar /\ AnswerOnce /\ QuietEnds /\ AttemptsCounted
-----------------------------------------------------------------------------
\* The first pieces of an attempt: their number, and one more of them.
LEMMA PiecesGrow ==
  ASSUME NEW a \in Nat, NEW n \in Nat
  PROVE  /\ Pieces(a, n) \in Seq(Piece)
         /\ Len(Pieces(a, n)) = n
         /\ Pieces(a, n) \o <<<<a, n + 1>>>> = Pieces(a, n + 1)
<1>1. Pieces(a, n) \in Seq(Piece) /\ Len(Pieces(a, n)) = n
  BY DEF Pieces, Piece
<1>2. Pieces(a, n + 1) \in Seq(Piece) /\ Len(Pieces(a, n + 1)) = n + 1
  BY DEF Pieces, Piece
<1>3. Pieces(a, n) \o <<<<a, n + 1>>>> \in Seq(Piece)
  BY <1>1 DEF Piece
<1>4. Len(Pieces(a, n) \o <<<<a, n + 1>>>>) = n + 1
  BY <1>1
<1>5. \A i \in 1 .. n + 1 :
        /\ Pieces(a, n + 1)[i] = <<a, i>>
        /\ i # n + 1 => i \in 1 .. n /\ Pieces(a, n)[i] = <<a, i>>
  BY DEF Pieces
<1>6. \A i \in 1 .. n + 1 :
        (Pieces(a, n) \o <<<<a, n + 1>>>>)[i] = IF i = n + 1 THEN <<a, n + 1>> ELSE Pieces(a, n)[i]
  BY <1>1
<1>7. \A i \in 1 .. n + 1 : (Pieces(a, n) \o <<<<a, n + 1>>>>)[i] = Pieces(a, n + 1)[i]
  BY <1>5, <1>6, Zenon
<1>8. Pieces(a, n) \o <<<<a, n + 1>>>> = Pieces(a, n + 1)
  <2>1. Len(Pieces(a, n) \o <<<<a, n + 1>>>>) = Len(Pieces(a, n + 1)) /\ Len(Pieces(a, n + 1)) = n + 1
    BY <1>2, <1>4
  <2>2. QED
    BY <1>2, <1>3, <1>4, <1>7, <2>1, SeqEqual
<1>9. QED
  BY <1>1, <1>8

\* No pieces of one attempt are no pieces of another.
LEMMA NoPieces ==
  ASSUME NEW a \in Nat
  PROVE  Pieces(a, 0) = <<>>
BY DEF Pieces

\* Only the empty sequence has no elements.
LEMMA EmptyLen ==
  ASSUME NEW s \in Seq(Piece)
  PROVE  s = <<>> <=> Len(s) = 0
OBVIOUS

\* The heads and tails of what is sent.
LEMMA HeadTail ==
  ASSUME NEW a, NEW b
  PROVE  /\ Head(<<a>>) = a /\ Tail(<<a>>) = <<>>
         /\ Head(<<a, b>>) = a /\ Tail(<<a, b>>) = <<b>>
         /\ <<>> \o <<a>> = <<a>> /\ <<a>> \o <<b>> = <<a, b>>
<1> DEFINE S == {a, b}
<1>1. <<>> \in Seq(S) /\ <<a>> \in Seq(S) /\ <<b>> \in Seq(S) /\ <<a, b>> \in Seq(S)
  OBVIOUS
<1>2. Head(<<a>>) = a /\ Head(<<a, b>>) = a
  OBVIOUS
<1>3. Tail(<<a>>) = <<>>
  OBVIOUS
<1>4. Tail(<<a, b>>) = <<b>>
  <2>1. Tail(<<a, b>>) \in Seq(S) /\ Len(Tail(<<a, b>>)) = 1 /\ Len(<<b>>) = 1
    BY <1>1
  <2>2. Tail(<<a, b>>)[1] = b /\ <<b>>[1] = b
    BY <1>1
  <2>3. \A i \in 1 .. 1 : Tail(<<a, b>>)[i] = <<b>>[i]
    BY <2>2
  <2> QED BY <1>1, <2>1, <2>3, SeqEqual
<1>5. <<>> \o <<a>> = <<a>>
  BY <1>1, ConcatEmptySeq
<1>6. <<a>> \o <<b>> = <<a, b>>
  <2>1. <<a>> \o <<b>> \in Seq(S) /\ Len(<<a>> \o <<b>>) = 2 /\ Len(<<a, b>>) = 2
    BY <1>1
  <2>2. (<<a>> \o <<b>>)[1] = a /\ (<<a>> \o <<b>>)[2] = b
    BY <1>1
  <2>3. \A i \in 1 .. 2 : (<<a>> \o <<b>>)[i] = <<a, b>>[i]
    BY <2>2
  <2> QED BY <1>1, <2>1, <2>3, SeqEqual
<1> QED BY <1>2, <1>3, <1>4, <1>5, <1>6

\* The kinds of events.
LEMMA EventKinds ==
  /\ Note.type = "note" /\ Failure.type = "error" /\ NilFailure.type = "nil error"
  /\ Delta.type = "delta" /\ Complete.type = "complete"
BY DEF Note, Failure, NilFailure, Delta, Complete

\* The last of what is sent.
LEMMA LastOf ==
  ASSUME NEW a, NEW b
  PROVE  /\ <<a>>[Len(<<a>>)] = a /\ Len(<<a>>) = 1
         /\ <<a, b>>[Len(<<a, b>>)] = b /\ Len(<<a, b>>) = 2
OBVIOUS

\* What is on its way is one thing at a time.
LEMMA OneThing == Exclusive
<1> DEFINE Last == sent[Len(sent)]
<1>1. Idle => sent = <<>> \/ Last = Note
  BY LastOf DEF Idle
<1>2. TellsFailure => sent # <<>> /\ Last \in {Failure, NilFailure}
  <2>1. sent = <<Failure>> => Last = Failure
    BY LastOf
  <2>2. sent = <<NilFailure>> => Last = NilFailure
    BY LastOf
  <2> QED BY <2>1, <2>2 DEF TellsFailure
<1>3. TellsPiece => sent # <<>> /\ Last = Delta
  <2>1. sent = <<Delta>> => sent # <<>> /\ Last = Delta
    BY LastOf
  <2>2. sent = <<Note, Delta>> => sent # <<>> /\ Last = Delta
    BY LastOf
  <2> QED BY <2>1, <2>2 DEF TellsPiece
<1>4. TellsAnswer => sent # <<>> /\ Last = Complete
  <2>1. sent = <<Complete>> => sent # <<>> /\ Last = Complete
    BY LastOf
  <2>2. sent = <<Note, Complete>> => sent # <<>> /\ Last = Complete
    BY LastOf
  <2> QED BY <2>1, <2>2 DEF TellsAnswer
<1>5. sent = <<>> => Idle
  BY DEF Idle
<1> HIDE DEF Last
<1> QED BY <1>1, <1>2, <1>3, <1>4, <1>5, EventKinds DEF Exclusive

\* (And after a step.)
LEMMA OneThingNext == Exclusive'
BY OneThing, PTL

\* The initial states satisfy the invariant.
LEMMA StreamInitInv == StreamInit => StreamInv
<1> SUFFICES ASSUME StreamInit PROVE StreamInv
  OBVIOUS
<1>1. StreamTypes
  <2>1. <<>> \in Seq(Piece) /\ <<>> \in Seq(Seq(Piece))
    OBVIOUS
  <2> QED BY <2>1 DEF StreamInit, StreamTypes
<1>2. OnItsWay /\ NoTextYet /\ AnswerOnce /\ QuietEnds
  BY DEF StreamInit, OnItsWay, Idle, NoTextYet, AnswerOnce, QuietEnds
<1>3. TextSoFar
  <2>1. Pieces(0, 0) = <<>> /\ Len(<<>>) = 0 /\ ~TellsPiece
    BY NoPieces, OneThing DEF StreamInit, Exclusive
  <2> QED BY <2>1 DEF StreamInit, TextSoFar
<1>4. AttemptsCounted
  BY StreamAssumption DEF StreamInit, AttemptsCounted
<1> QED BY <1>1, <1>2, <1>3, <1>4 DEF StreamInv
-----------------------------------------------------------------------------
\* A step that leaves what was read, and the pieces, as they were and sends no piece
\* keeps the text in step with what was sent.
LEMMA TextStays ==
  ASSUME StreamTypes, TextSoFar, ~TellsPiece, ~TellsPiece',
         UNCHANGED <<attempts, content, text>>,
         reader' = reader \/ ~Listening'
  PROVE  TextSoFar'
BY DEF TextSoFar, Listening, StreamTypes

\* A request.
LEMMA BeginInv == ASSUME StreamInv, Begin PROVE StreamInv'
<1> USE DEF StreamInv
<1>1. sent' \in {<<>>, <<Note>>} /\ Idle /\ Idle' /\ content = <<>> /\ content' = <<>>
  BY OneThing DEF Begin, CanSend, Idle, Exclusive, NoTextYet, Note
<1>2. ~TellsPiece /\ ~TellsPiece'
  BY <1>1, OneThing, OneThingNext DEF Exclusive
<1>3. text = <<>> /\ Len(content) = 0 /\ Len(text) = 0 /\ attempts' \in Nat
  BY <1>1, <1>2, EmptyLen DEF TextSoFar, StreamTypes, Begin
<1>4. TextSoFar'
  <2>1. content' = <<>> /\ text' = <<>> /\ Len(<<>>) = 0 /\ Pieces(attempts', 0) = <<>>
    BY <1>1, <1>3, NoPieces DEF Begin, readerVars
  <2> QED BY <2>1, <1>2 DEF TextSoFar
<1>5. StreamTypes'
  BY <1>1, <1>3 DEF StreamTypes, Begin, readerVars
<1>6. OnItsWay' /\ NoTextYet' /\ AnswerOnce' /\ QuietEnds'
  BY <1>1 DEF OnItsWay, NoTextYet, AnswerOnce, QuietEnds, Begin, readerVars, StreamTypes
<1>7. AttemptsCounted'
  BY StreamAssumption DEF AttemptsCounted, Begin, StreamTypes
<1> QED BY <1>4, <1>5, <1>6, <1>7

\* A piece of text.
LEMMA ChunkInv == ASSUME StreamInv, Chunk PROVE StreamInv'
<1> USE DEF StreamInv
<1> DEFINE n == Len(content)
           piece == <<<<attempts, n + 1>>>>
<1>1. content' = content \o piece /\ at' = "some" /\ ~TellsPiece /\ answers = <<>> /\ at \in {"next", "some"}
  BY OneThing DEF Chunk, CanSend, Exclusive, AnswerOnce
<1>2. n \in Nat /\ attempts \in Nat /\ attempts' = attempts /\ content = Pieces(attempts, n)
  BY DEF StreamTypes, Chunk, TextSoFar
<1>3. content' = Pieces(attempts, n + 1) /\ Len(content') = n + 1 /\ content' \in Seq(Piece) /\ content' # <<>>
  <2>1. content' = Pieces(attempts, n + 1)
    <3>1. Pieces(attempts, n) \o piece = Pieces(attempts, n + 1)
      BY <1>2, PiecesGrow
    <3> QED BY <3>1, <1>1, <1>2
  <2>2. Pieces(attempts, n + 1) \in Seq(Piece) /\ Len(Pieces(attempts, n + 1)) = n + 1
    <3>1. n + 1 \in Nat
      BY <1>2
    <3> QED BY <3>1, <1>2, PiecesGrow
  <2>3. content' \in Seq(Piece) /\ Len(content') = n + 1
    BY <2>1, <2>2
  <2>4. Len(<<>>) = 0 /\ n + 1 # 0
    BY <1>2
  <2>5. content' # <<>>
    BY <2>3, <2>4
  <2> QED BY <2>1, <2>3, <2>5
<1>4. TellsPiece'
  <2>1. Delta' = [type |-> "delta", content |-> piece]
    BY <1>2, <1>3 DEF Delta
  <2>2. <<>> \o <<Delta'>> = <<Delta'>> /\ <<Note>> \o <<Delta'>> = <<Note, Delta'>>
    BY HeadTail
  <2>3. \/ sent' = <<>> \o <<Delta'>>
        \/ sent' = <<Note>> \o <<Delta'>>
    BY <2>1, Zenon DEF Chunk
  <2>4. sent' \in {<<Delta'>>, <<Note, Delta'>>}
    BY <2>2, <2>3, Zenon
  <2> QED BY <2>4, Zenon DEF TellsPiece
<1>5. TextSoFar'
  <2>1. text' = text /\ reader' = reader /\ Len(text) \in Nat
    BY DEF Chunk, readerVars, StreamTypes
  <2>2. Len(text) <= n /\ (Listening => n <= Len(text))
    BY <1>1, <1>2, <2>1 DEF TextSoFar
  <2> QED BY <1>1, <1>2, <1>3, <1>4, <2>1, <2>2 DEF TextSoFar, Listening
<1>6. StreamTypes'
  BY <1>1, <1>2, <1>3 DEF StreamTypes, Chunk, readerVars
<1>7. OnItsWay' /\ NoTextYet' /\ AnswerOnce'
  BY <1>1, <1>3, <1>4 DEF OnItsWay, NoTextYet, AnswerOnce, Chunk, readerVars
<1>8. QuietEnds' /\ AttemptsCounted'
  BY <1>1, <1>2 DEF QuietEnds, AttemptsCounted, Chunk, readerVars
<1> QED BY <1>5, <1>6, <1>7, <1>8

\* Something without text.
LEMMA OtherInv == ASSUME StreamInv, Other PROVE StreamInv'
<1> USE DEF StreamInv
<1>1. Idle /\ Idle' /\ ~TellsPiece /\ ~TellsPiece' /\ answers = <<>> /\ answers' = answers
  BY OneThing, OneThingNext DEF Other, CanSend, Idle, Exclusive, AnswerOnce, Note, readerVars
<1>2. UNCHANGED <<client, attempts, content, ctxDone, text, reader>>
  BY DEF Other, readerVars
<1>3. TextSoFar'
  BY <1>1, <1>2, TextStays
<1>4. StreamTypes'
  BY <1>1, <1>2 DEF StreamTypes, Other
<1>5. OnItsWay' /\ NoTextYet' /\ AnswerOnce' /\ QuietEnds' /\ AttemptsCounted'
  BY <1>1, <1>2 DEF OnItsWay, NoTextYet, AnswerOnce, QuietEnds, AttemptsCounted, Other
<1> QED BY <1>3, <1>4, <1>5

\* The end of an answer, told by the service.
LEMMA StopInv == ASSUME StreamInv, Stop PROVE StreamInv'
<1> USE DEF StreamInv
<1>1. UNCHANGED <<client, attempts, content, ctxDone, text, reader, answers>> /\ at' = "stopped"
  BY DEF Stop, readerVars
<1>2. TellsAnswer'
  <2>1. Complete' = Complete /\ Note' = Note
    BY <1>1 DEF Complete, Note
  <2>2. sent' \in {<<Complete>>, <<Note, Complete>>}
    BY HeadTail DEF Stop
  <2> QED BY <2>1, <2>2 DEF TellsAnswer
<1>3. ~TellsPiece /\ ~TellsPiece' /\ ~Idle' /\ answers = <<>>
  BY <1>2, OneThing, OneThingNext DEF Exclusive, Stop, CanSend, AnswerOnce
<1>4. TextSoFar'
  BY <1>1, <1>3, TextStays
<1>5. StreamTypes'
  BY <1>1 DEF StreamTypes
<1>6. OnItsWay' /\ NoTextYet' /\ AnswerOnce' /\ QuietEnds' /\ AttemptsCounted'
  BY <1>1, <1>2, <1>3 DEF OnItsWay, NoTextYet, AnswerOnce, QuietEnds, AttemptsCounted, Stop
<1> QED BY <1>4, <1>5, <1>6

\* A step of the client that sends a failure: one it tells, or its last.
LEMMA FailureInv ==
  ASSUME StreamInv, sent = <<>>, sent' \in {<<Failure>>, <<NilFailure>>},
         UNCHANGED <<client, attempts, content, ctxDone, readerVars>>,
         at # "closed", at' = "ending" \/ (at' = at /\ at \in {"next", "some"})
  PROVE  StreamInv'
<1> USE DEF StreamInv
<1>1. TellsFailure'
  BY DEF TellsFailure, Failure, NilFailure
<1>2. ~TellsPiece /\ ~TellsPiece' /\ ~Idle'
  BY <1>1, OneThing, OneThingNext DEF Exclusive
<1>3. TextSoFar'
  BY <1>2, TextStays DEF readerVars
<1>4. StreamTypes'
  BY DEF StreamTypes, readerVars
<1>5. OnItsWay' /\ NoTextYet' /\ QuietEnds' /\ AttemptsCounted'
  BY <1>1, <1>2 DEF OnItsWay, NoTextYet, QuietEnds, AttemptsCounted, readerVars
<1>6. AnswerOnce'
  BY DEF AnswerOnce, readerVars
<1> QED BY <1>3, <1>4, <1>5, <1>6

\* The client's last step before it closes its channel, without a failure.
LEMMA FinishInv ==
  ASSUME StreamInv, sent = <<>>, at \notin {"closed", "panicked"}, at' = "ending",
         UNCHANGED <<client, attempts, content, ctxDone, readerVars>>,
         \/ TellsAnswer' /\ answers = <<>>
         \/ sent' = <<>> /\ Excused
  PROVE  StreamInv'
<1> USE DEF StreamInv
<1>1. ~TellsPiece /\ ~TellsPiece'
  BY OneThing, OneThingNext DEF Exclusive
<1>2. TextSoFar'
  BY <1>1, TextStays DEF readerVars
<1>3. StreamTypes'
  BY DEF StreamTypes, readerVars
<1>4. (Idle' => Excused') /\ (sent' = <<>> => Idle')
  BY OneThingNext DEF Exclusive, Excused
<1>5. reader # "done"
  BY DEF QuietEnds
<1>6. OnItsWay' /\ NoTextYet' /\ AttemptsCounted' /\ AnswerOnce'
  BY <1>4 DEF OnItsWay, NoTextYet, AttemptsCounted, AnswerOnce, readerVars
<1>7. QuietEnds'
  BY <1>4, <1>5 DEF QuietEnds, readerVars
<1> QED BY <1>2, <1>3, <1>6, <1>7

\* A step of the client that moves on with nothing, or with a note, on its way.
LEMMA MoveInv ==
  ASSUME StreamInv, sent = <<>>, sent' \in {<<>>, <<Note>>},
         UNCHANGED <<client, attempts, content, ctxDone, readerVars>>,
         at' \in {"backoff", "again", "panicked"}, NoTextYet',
         at' = "backoff" => sent' = <<>>,
         at # "closed", answers = <<>>, AttemptsCounted'
  PROVE  StreamInv'
<1> USE DEF StreamInv
<1>1. Idle /\ Idle' /\ ~TellsPiece /\ ~TellsPiece'
  BY OneThing, OneThingNext DEF Idle, Exclusive, Note
<1>2. TextSoFar'
  BY <1>1, TextStays DEF readerVars
<1>3. StreamTypes'
  BY DEF StreamTypes, readerVars
<1>4. OnItsWay' /\ AnswerOnce' /\ QuietEnds'
  BY <1>1 DEF OnItsWay, AnswerOnce, QuietEnds, readerVars
<1> QED BY <1>2, <1>3, <1>4

\* The end of an answer, as each client takes it.
LEMMA EndInv == ASSUME StreamInv, End PROVE StreamInv'
<1>1. /\ sent = <<>> /\ at \in {"next", "some", "stopped"} /\ client \in Clients
      /\ UNCHANGED <<client, attempts, content, ctxDone, readerVars>>
      /\ at \in {"next", "some"} => answers = <<>>
      /\ Complete' = Complete /\ Note' = Note
  BY DEF End, CanSend, StreamInv, StreamTypes, AnswerOnce, Complete, Note
<1>2. CASE client \in Compatible
  <2>1. at # "stopped"
    BY <1>2 DEF StreamInv, NoTextYet, Compatible, Proxies
  <2>2. CASE at = "next"
    <3>1. at' = "panicked" /\ sent' = <<>>
      BY <1>1, <1>2, <2>2 DEF End, Compatible
    <3>2. NoTextYet' /\ AttemptsCounted'
      BY <1>1, <3>1 DEF NoTextYet, AttemptsCounted, StreamInv
    <3> QED BY <1>1, <2>2, <3>1, <3>2, MoveInv
  <2>3. CASE at = "some"
    <3>1. at' = "ending" /\ sent' = <<Complete>>
      BY <1>1, <1>2, <2>3 DEF End, Finish, Compatible
    <3>2. TellsAnswer'
      BY <1>1, <3>1 DEF TellsAnswer
    <3> QED BY <1>1, <2>3, <3>1, <3>2, FinishInv
  <2> QED BY <1>1, <2>1, <2>2, <2>3
<1>3. CASE client = "gemini"
  <2>1. at # "stopped" /\ client \notin Compatible
    BY <1>3 DEF StreamInv, NoTextYet, Compatible, Proxies
  <2>2. CASE at = "next"
    <3>1. at' = "again" /\ sent' = <<Note>> /\ attempts < MaxSends
      BY <1>1, <1>3, <2>1, <2>2 DEF End
    <3>2. NoTextYet' /\ AttemptsCounted'
      BY <1>1, <1>3, <2>2, <3>1 DEF NoTextYet, AttemptsCounted, StreamInv
    <3> QED BY <1>1, <2>2, <3>1, <3>2, MoveInv
  <2>3. CASE at = "some"
    <3>1. at' = "ending" /\ sent' = <<Note, Complete>>
      BY <1>1, <1>3, <2>1, <2>3 DEF End, Finish
    <3>2. TellsAnswer'
      BY <1>1, <3>1 DEF TellsAnswer
    <3> QED BY <1>1, <2>3, <3>1, <3>2, FinishInv
  <2> QED BY <1>1, <2>1, <2>2, <2>3
<1>4. CASE client \in Proxies \cup {"anthropic"}
  <2>1. at' = "ending" /\ sent' = <<>>
    BY <1>4 DEF End, Finish, Compatible, Proxies
  <2>2. Excused
    BY <1>4 DEF Excused
  <2> QED BY <1>1, <2>1, <2>2, FinishInv
<1> QED BY <1>1, <1>2, <1>3, <1>4 DEF Clients

\* An error of a request.
LEMMA FailInv ==
  ASSUME StreamInv, NEW error, Fail(error)
  PROVE  StreamInv'
<1>1. /\ sent = <<>> /\ at \in {"next", "some", "stopped", "refused"} /\ error \in Errors
      /\ UNCHANGED <<client, attempts, content, ctxDone, readerVars>>
  BY DEF Fail, CanSend
<1>2. CASE ShouldRetry(error)
  <2>1. at' = "backoff" /\ sent' = <<>> /\ error # "other" /\ attempts <= MaxRetries
    BY <1>1, <1>2 DEF Fail, ShouldRetry
  <2>2. at = "next" \/ (at = "some" /\ client = "gemini")
    BY <1>1, <2>1 DEF Errors
  <2>3. answers = <<>>
    BY <2>2 DEF StreamInv, AnswerOnce
  <2>4. NoTextYet' /\ AttemptsCounted'
    BY <1>1, <2>1, <2>2 DEF StreamInv, NoTextYet, AttemptsCounted
  <2> QED BY <1>1, <2>1, <2>3, <2>4, MoveInv
<1>3. CASE ~ShouldRetry(error)
  <2>1. at' = "ending" /\ sent' \in {<<Failure>>, <<NilFailure>>}
    BY <1>3 DEF Fail, Finish
  <2> QED BY <1>1, <2>1, FailureInv
<1> QED BY <1>2, <1>3

\* Steps of the client that send nothing or a failure.
LEMMA WaitInv ==
  ASSUME StreamInv, CannotStart \/ Trouble \/ CancelBackoff \/ Timer \/ CloseChannel
  PROVE  StreamInv'
<1>0. at \in {"next", "some", "new", "backoff"} => answers = <<>>
  BY DEF StreamInv, AnswerOnce
<1>a. at \in {"new", "backoff"} => sent = <<>>
  BY DEF StreamInv, OnItsWay
<1>1. CASE CannotStart
  BY <1>1, <1>a, FailureInv DEF CannotStart, Finish
<1>2. CASE Trouble
  BY <1>2, FailureInv DEF Trouble, CanSend
<1>3. CASE CancelBackoff
  <2>1. CASE client \in Compatible
    <3>1. at' = "ending" /\ sent' = <<>> /\ Excused
      BY <1>3, <2>1 DEF CancelBackoff, Finish, Excused
    <3> QED BY <1>3, <1>a, <3>1, FinishInv DEF CancelBackoff
  <2>2. CASE client \notin Compatible
    <3>1. at' = "ending" /\ sent' = <<Failure>>
      BY <1>3, <2>2 DEF CancelBackoff, Finish
    <3> QED BY <1>3, <1>a, <3>1, FailureInv DEF CancelBackoff
  <2> QED BY <2>1, <2>2
<1>4. CASE Timer
  <2>1. at' \in {"again", "panicked"} /\ (at' = "again" => client # "gemini") /\ sent' = <<>>
    BY <1>4, <1>a DEF Timer
  <2>2. NoTextYet' /\ AttemptsCounted'
    BY <1>4, <2>1 DEF Timer, StreamInv, NoTextYet, AttemptsCounted
  <2> QED BY <1>4, <1>0, <1>a, <2>1, <2>2, MoveInv DEF Timer
<1>5. CASE CloseChannel
  <2> USE DEF StreamInv
  <2>1. sent = <<>> /\ sent' = <<>> /\ Idle /\ Idle' /\ ~TellsPiece /\ ~TellsPiece'
    BY <1>5, OneThing, OneThingNext DEF CloseChannel, CanSend, Exclusive
  <2>2. TextSoFar'
    BY <1>5, <2>1, TextStays DEF CloseChannel, readerVars
  <2>3. StreamTypes' /\ OnItsWay' /\ NoTextYet' /\ AttemptsCounted'
    BY <1>5, <2>1 DEF CloseChannel, StreamTypes, OnItsWay, NoTextYet, AttemptsCounted, readerVars
  <2>5. AnswerOnce'
    <3>1. UNCHANGED <<content, text, answers>> /\ at = "ending" /\ at' = "closed"
      BY <1>5 DEF CloseChannel, readerVars
    <3> QED BY <3>1 DEF AnswerOnce
  <2>4. QuietEnds'
    <3>1. /\ UNCHANGED <<client, ctxDone, reader, answers>>
          /\ at = "ending" /\ at' = "closed"
      BY <1>5 DEF CloseChannel, readerVars
    <3>2. Listening' = Listening /\ Excused' = Excused
      BY <3>1 DEF Listening, Excused
    <3> QED BY <3>1, <3>2, <2>1 DEF QuietEnds
  <2> QED BY <2>2, <2>3, <2>4, <2>5
<1> QED BY <1>1, <1>2, <1>3, <1>4, <1>5

\* A step of the run that takes no event.
LEMMA LookInv ==
  ASSUME StreamInv, CreateMessage \/ CheckContext \/ ReadEnd \/ Cancel
  PROVE  StreamInv'
<1> USE DEF StreamInv
<1>1. /\ UNCHANGED <<client, at, sent, attempts, content, text, answers>>
      /\ ctxDone => ctxDone'
      /\ reader' \in {"creating", "reading", "checking", "left", "done", "died"} /\ ctxDone' \in BOOLEAN
      /\ Listening' => Listening
      /\ reader' = "done" => reader = "done" \/ (Listening /\ at = "closed" /\ sent = <<>>)
  BY DEF CreateMessage, CheckContext, ReadEnd, Cancel, clientVars, readerVars, Listening, StreamTypes
<1>2. /\ Idle' = Idle /\ TellsFailure' = TellsFailure
      /\ TellsPiece' = TellsPiece /\ TellsAnswer' = TellsAnswer
  BY <1>1 DEF Idle, TellsFailure, TellsPiece, TellsAnswer, Note, Failure, NilFailure, Delta, Complete
<1>3. StreamTypes' /\ OnItsWay' /\ NoTextYet' /\ AnswerOnce' /\ AttemptsCounted'
  BY <1>1, <1>2 DEF StreamTypes, OnItsWay, NoTextYet, AnswerOnce, AttemptsCounted
<1>4. TextSoFar'
  BY <1>1, <1>2 DEF TextSoFar
<1>5. QuietEnds'
  BY <1>1, <1>2 DEF QuietEnds, Excused
<1> QED BY <1>3, <1>4, <1>5

\* The first of what is on its way.
LEMMA FirstOnItsWay ==
  ASSUME OnItsWay, sent # <<>>
  PROVE  \/ /\ Head(sent) = Note
            /\ \/ Idle /\ Tail(sent) = <<>>
               \/ TellsPiece /\ Tail(sent) = <<Delta>>
               \/ TellsAnswer /\ Tail(sent) = <<Complete>>
         \/ TellsFailure /\ Tail(sent) = <<>> /\ Head(sent) \in {Failure, NilFailure}
         \/ TellsPiece /\ Tail(sent) = <<>> /\ Head(sent) = Delta
         \/ TellsAnswer /\ Tail(sent) = <<>> /\ Head(sent) = Complete
<1>1. CASE Idle
  BY <1>1, HeadTail DEF Idle
<1>2. CASE TellsFailure
  BY <1>2, HeadTail DEF TellsFailure
<1>3. CASE TellsPiece
  <2>1. CASE sent = <<Delta>>
    BY <1>3, <2>1, HeadTail
  <2>2. CASE sent = <<Note, Delta>>
    BY <1>3, <2>2, HeadTail
  <2> QED BY <1>3, <2>1, <2>2 DEF TellsPiece
<1>4. CASE TellsAnswer
  <2>1. CASE sent = <<Complete>>
    BY <1>4, <2>1, HeadTail
  <2>2. CASE sent = <<Note, Complete>>
    BY <1>4, <2>2, HeadTail
  <2> QED BY <1>4, <2>1, <2>2 DEF TellsAnswer
<1> QED BY <1>1, <1>2, <1>3, <1>4 DEF OnItsWay

\* A run that leaves may leave events behind.
LEMMA LeaveInv ==
  ASSUME StreamInv, ReadEvent, reader' \in {"left", "died"}, UNCHANGED <<text, answers>>
  PROVE  StreamInv'
<1> USE DEF StreamInv
<1>1. sent' = Tail(sent) /\ UNCHANGED <<client, at, attempts, content, ctxDone>> /\ sent # <<>>
  BY DEF ReadEvent
<1>2. Note' = Note /\ Delta' = Delta /\ Complete' = Complete
  BY <1>1 DEF Note, Delta, Complete
<1>3. \/ Idle'
      \/ TellsPiece /\ TellsPiece'
      \/ TellsAnswer /\ TellsAnswer'
  <2>1. sent' = <<>> => Idle'
    BY DEF Idle
  <2>2. sent' = <<Delta>> => TellsPiece'
    BY <1>2 DEF TellsPiece
  <2>3. sent' = <<Complete>> => TellsAnswer'
    BY <1>2 DEF TellsAnswer
  <2> QED BY <1>1, <2>1, <2>2, <2>3, FirstOnItsWay
<1>4. ~Listening' /\ reader' # "done"
  BY DEF Listening
<1>5. TellsPiece' => TellsPiece
  BY <1>3, OneThingNext DEF Exclusive
<1>6. TextSoFar'
  BY <1>1, <1>4, <1>5 DEF TextSoFar, StreamTypes
<1>7. StreamTypes' /\ NoTextYet' /\ AttemptsCounted' /\ QuietEnds'
  BY <1>1, <1>4 DEF StreamTypes, NoTextYet, AttemptsCounted, QuietEnds
<1>8. OnItsWay'
  <2>1. \/ Idle'
        \/ TellsPiece' /\ at' = "some" /\ content' # <<>>
        \/ TellsAnswer' /\ at' \in {"stopped", "ending"} /\ answers' = <<>>
    BY <1>1, <1>3, OneThing DEF OnItsWay, Exclusive
  <2>2. at \notin {"new", "backoff", "closed"}
    BY <1>1 DEF OnItsWay
  <2> QED BY <1>1, <2>1, <2>2 DEF OnItsWay
<1>9. AnswerOnce'
  <2>1. UNCHANGED <<at, content, text, answers>>
    BY <1>1
  <2> QED BY <2>1 DEF AnswerOnce
<1> QED BY <1>6, <1>7, <1>8, <1>9

\* A note is read.
LEMMA ReadNoteInv ==
  ASSUME StreamInv, ReadEvent, reader' = "checking", UNCHANGED <<text, answers>>,
         Head(sent) = Note
  PROVE  StreamInv'
<1> USE DEF StreamInv
<1>1. /\ sent' = Tail(sent) /\ sent # <<>> /\ reader = "reading"
      /\ UNCHANGED <<client, at, attempts, content, ctxDone, text, answers>>
  BY DEF ReadEvent
<1>2. Note' = Note /\ Delta' = Delta /\ Complete' = Complete
  BY <1>1 DEF Note, Delta, Complete
<1>3. \/ Idle /\ Idle'
      \/ TellsPiece /\ TellsPiece'
      \/ TellsAnswer /\ TellsAnswer'
  <2>1. sent' = <<>> => Idle'
    BY DEF Idle
  <2>2. sent' = <<Delta>> => TellsPiece'
    BY <1>2 DEF TellsPiece
  <2>3. sent' = <<Complete>> => TellsAnswer'
    BY <1>2 DEF TellsAnswer
  <2>4. Head(sent) \notin {Failure, NilFailure, Delta, Complete}
    BY EventKinds
  <2> QED BY <1>1, <2>1, <2>2, <2>3, <2>4, FirstOnItsWay
<1>4. Listening /\ Listening' /\ Excused' = Excused
  BY <1>1 DEF Listening, Excused
<1>5. (TellsPiece' <=> TellsPiece) /\ (Idle' => Idle)
  BY <1>3, OneThing, OneThingNext DEF Exclusive
<1>6. TextSoFar'
  BY <1>1, <1>4, <1>5 DEF TextSoFar
<1>7. StreamTypes' /\ NoTextYet' /\ AttemptsCounted'
  BY <1>1 DEF StreamTypes, NoTextYet, AttemptsCounted
<1>8. OnItsWay'
  <2>1. \/ Idle'
        \/ TellsPiece' /\ at' = "some" /\ content' # <<>>
        \/ TellsAnswer' /\ at' \in {"stopped", "ending"} /\ answers' = <<>>
    BY <1>1, <1>3, OneThing DEF OnItsWay, Exclusive
  <2>2. at \notin {"new", "backoff", "closed"}
    BY <1>1 DEF OnItsWay
  <2> QED BY <1>1, <2>1, <2>2 DEF OnItsWay
<1>9. AnswerOnce'
  <2>1. UNCHANGED <<at, content, text, answers>>
    BY <1>1
  <2> QED BY <2>1 DEF AnswerOnce
<1>10. QuietEnds'
  BY <1>1, <1>4, <1>5 DEF QuietEnds
<1> QED BY <1>6, <1>7, <1>8, <1>9, <1>10

\* A piece of text is read: it is the last there is, and the next of the message.
LEMMA ReadPieceInv ==
  ASSUME StreamInv, ReadEvent, reader' \in {"checking", "left"}, UNCHANGED answers,
         TellsPiece, Head(sent) = Delta, Tail(sent) = <<>>, text' = text \o Delta.content
  PROVE  StreamInv'
<1> USE DEF StreamInv
<1>1. /\ sent' = <<>> /\ reader = "reading"
      /\ UNCHANGED <<client, at, attempts, content, ctxDone, answers>>
      /\ at = "some" /\ answers = <<>>
  <2>1. at = "some"
    BY OneThing DEF OnItsWay, Exclusive
  <2> QED BY <2>1 DEF ReadEvent, AnswerOnce
<1>2. Idle' /\ ~TellsPiece'
  BY <1>1, OneThingNext DEF Exclusive
<1>3. Len(text) \in Nat /\ Len(content) = Len(text) + 1 /\ attempts \in Nat
  BY <1>1 DEF TextSoFar, Listening, StreamTypes
<1>4. text' = Pieces(attempts, Len(text)) \o <<<<attempts, Len(text) + 1>>>>
  BY <1>3 DEF TextSoFar, Delta
<1>5. text' = Pieces(attempts, Len(text) + 1)
  BY <1>3, <1>4, PiecesGrow
<1>6. text' \in Seq(Piece) /\ Len(text') = Len(content)
  <2>1. Len(text) + 1 \in Nat
    BY <1>3
  <2> QED BY <1>3, <1>5, <2>1, PiecesGrow
<1>7. TextSoFar'
  BY <1>1, <1>2, <1>3, <1>5, <1>6 DEF TextSoFar
<1>8. StreamTypes' /\ NoTextYet' /\ AttemptsCounted' /\ QuietEnds' /\ AnswerOnce'
  BY <1>1, <1>6 DEF StreamTypes, NoTextYet, AttemptsCounted, QuietEnds, AnswerOnce
<1>9. OnItsWay'
  BY <1>1, <1>2 DEF OnItsWay
<1> QED BY <1>7, <1>8, <1>9

\* The answer is read: all its pieces were read before.
LEMMA ReadAnswerInv ==
  ASSUME StreamInv, ReadEvent, reader' \in {"checking", "left"}, UNCHANGED text,
         TellsAnswer, Head(sent) = Complete, Tail(sent) = <<>>,
         answers' = Append(answers, Complete.content)
  PROVE  StreamInv'
<1> USE DEF StreamInv
<1>1. /\ sent' = <<>> /\ reader = "reading"
      /\ UNCHANGED <<client, at, attempts, content, ctxDone, text>>
      /\ at \in {"stopped", "ending"} /\ answers = <<>>
  <2>1. at \in {"stopped", "ending"} /\ answers = <<>>
    BY OneThing DEF OnItsWay, Exclusive
  <2> QED BY <2>1 DEF ReadEvent
<1>2. Idle' /\ ~TellsPiece' /\ ~TellsPiece
  BY <1>1, OneThing, OneThingNext DEF Exclusive
<1>3. content = text
  <2>1. Len(text) = Len(content)
    BY <1>1, <1>2 DEF TextSoFar, Listening, StreamTypes
  <2> QED BY <2>1 DEF TextSoFar
<1>4. answers' = <<text>>
  BY <1>1, <1>3 DEF Complete
<1>5. AnswerOnce' /\ answers' # <<>>
  BY <1>1, <1>3, <1>4 DEF AnswerOnce
<1>6. TextSoFar'
  BY <1>1, <1>2 DEF TextSoFar, Listening
<1>7. StreamTypes'
  BY <1>1, <1>4 DEF StreamTypes
<1>8. NoTextYet' /\ AttemptsCounted' /\ QuietEnds'
  BY <1>1, <1>5 DEF NoTextYet, AttemptsCounted, QuietEnds
<1>9. OnItsWay'
  BY <1>1, <1>2 DEF OnItsWay
<1> QED BY <1>5, <1>6, <1>7, <1>8, <1>9

\* Whatever the run reads.
LEMMA ReadInv == ASSUME StreamInv, ReadEvent PROVE StreamInv'
<1>1. sent # <<>> /\ OnItsWay /\ reader' \in {"left", "died", "checking"}
  BY DEF ReadEvent, StreamInv
<1>2. CASE ctxDone
  BY <1>2, LeaveInv DEF ReadEvent
<1>3. CASE ~ctxDone
  <2>1. /\ text' = IF Head(sent).type = "delta" THEN text \o Head(sent).content ELSE text
        /\ answers' = IF Head(sent).type = "complete" THEN Append(answers, Head(sent).content)
                                                      ELSE answers
    BY <1>3 DEF ReadEvent
  <2>2. CASE Head(sent) = Note
    <3>1. UNCHANGED <<text, answers>>
      BY <2>1, <2>2, EventKinds
    <3> QED BY <1>1, <2>2, <3>1, LeaveInv, ReadNoteInv
  <2>3. CASE Head(sent) \in {Failure, NilFailure}
    <3>1. UNCHANGED <<text, answers>>
      BY <2>1, <2>3, EventKinds
    <3>2. reader' \in {"left", "died"}
      BY <1>3, <2>3, EventKinds DEF ReadEvent
    <3> QED BY <3>1, <3>2, LeaveInv
  <2>4. CASE TellsPiece /\ Tail(sent) = <<>> /\ Head(sent) = Delta
    <3>1. text' = text \o Delta.content /\ answers' = answers
      BY <2>1, <2>4, EventKinds
    <3>2. reader' \in {"checking", "left"}
      BY <1>3, <2>4, EventKinds DEF ReadEvent
    <3> QED BY <2>4, <3>1, <3>2, ReadPieceInv
  <2>5. CASE TellsAnswer /\ Tail(sent) = <<>> /\ Head(sent) = Complete
    <3>1. text' = text /\ answers' = Append(answers, Complete.content)
      BY <2>1, <2>5, EventKinds
    <3>2. reader' \in {"checking", "left"}
      BY <1>3, <2>5, EventKinds DEF ReadEvent
    <3> QED BY <2>5, <3>1, <3>2, ReadAnswerInv
  <2> QED BY <1>1, <2>2, <2>3, <2>4, <2>5, FirstOnItsWay
<1> QED BY <1>2, <1>3

\* Every step keeps the invariant.
LEMMA StreamStepInv == ASSUME StreamInv, [StreamNext]_streamVars PROVE StreamInv'
<1>1. CASE Begin
  BY <1>1, BeginInv
<1>2. CASE Chunk
  BY <1>2, ChunkInv
<1>3. CASE Other
  BY <1>3, OtherInv
<1>4. CASE Stop
  BY <1>4, StopInv
<1>5. CASE End
  BY <1>5, EndInv
<1>6. CASE \E error \in {"limit", "token", "other"} : Fail(error)
  BY <1>6, FailInv
<1>7. CASE CannotStart \/ Trouble \/ CancelBackoff \/ Timer \/ CloseChannel
  BY <1>7, WaitInv
<1>8. CASE CreateMessage \/ CheckContext \/ ReadEnd \/ Cancel
  BY <1>8, LookInv
<1>9. CASE ReadEvent
  BY <1>9, ReadInv
<1>10. CASE UNCHANGED streamVars
  <2>1. UNCHANGED <<client, at, sent, attempts, content, ctxDone, reader, text, answers>>
    BY <1>10 DEF streamVars, clientVars, readerVars
  <2>2. /\ Idle' = Idle /\ TellsFailure' = TellsFailure
        /\ TellsPiece' = TellsPiece /\ TellsAnswer' = TellsAnswer
    BY <2>1 DEF Idle, TellsFailure, TellsPiece, TellsAnswer, Note, Failure, NilFailure, Delta, Complete
  <2>3. Listening' = Listening /\ Excused' = Excused
    BY <2>1 DEF Listening, Excused
  <2>4. StreamTypes' /\ OnItsWay' /\ NoTextYet'
    BY <2>1, <2>2 DEF StreamInv, StreamTypes, OnItsWay, NoTextYet
  <2>5. TextSoFar' /\ AnswerOnce'
    BY <2>1, <2>2, <2>3 DEF StreamInv, TextSoFar, AnswerOnce
  <2>6. QuietEnds' /\ AttemptsCounted'
    BY <2>1, <2>2, <2>3 DEF StreamInv, QuietEnds, AttemptsCounted
  <2> QED BY <2>4, <2>5, <2>6 DEF StreamInv
<1> QED BY <1>1, <1>2, <1>3, <1>4, <1>5, <1>6, <1>7, <1>8, <1>9, <1>10
        DEF StreamNext, ClientStep, ReaderStep

\* The invariant of a stream: what is on its way, and how much of the running attempt
\* the message holds.
THEOREM StreamInvariant == StreamSpec => []StreamInv
BY StreamInitInv, StreamStepInv, PTL DEF StreamSpec

\* The message holds one answer, whole and once, whatever was retried.
THEOREM AnswersAreWhole == StreamSpec => []AnswerWhole
<1>1. StreamInv => AnswerWhole
  <2> SUFFICES ASSUME StreamInv PROVE AnswerWhole
    OBVIOUS
  <2>1. ASSUME NEW i \in DOMAIN text PROVE text[i] = <<text[1][1], i>>
    <3>1. text = Pieces(attempts, Len(text)) /\ Len(text) \in Nat /\ i \in 1 .. Len(text)
      BY <2>1 DEF StreamInv, StreamTypes, TextSoFar
    <3>2. text[i] = <<attempts, i>> /\ text[1] = <<attempts, 1>>
      BY <3>1 DEF Pieces
    <3> QED BY <3>2
  <2>2. answers \in {<<>>, <<text>>}
    BY DEF StreamInv, AnswerOnce
  <2> QED BY <2>1, <2>2 DEF AnswerWhole
<1> QED BY <1>1, StreamInvariant, PTL

\* A stream that ends without an error has given its answer, but where it is known not to.
THEOREM EndsAreTold == StreamSpec => []EndsTold
<1>1. StreamInv => EndsTold
  BY DEF StreamInv, QuietEnds, Excused, EndsTold, Idle
<1> QED BY <1>1, StreamInvariant, PTL

\* The types of the variables, and the bound of attempts.
THEOREM StreamsAreTyped == StreamSpec => []StreamTypeOK
<1>1. StreamInv => StreamTypeOK
  <2> SUFFICES ASSUME StreamInv PROVE StreamTypeOK
    OBVIOUS
  <2>1. Len(sent) <= 2
    <3>1. Len(<<>>) = 0 /\ \A a, b : Len(<<a>>) = 1 /\ Len(<<a, b>>) = 2
      OBVIOUS
    <3>2. CASE Idle \/ TellsFailure
      BY <3>1, <3>2 DEF Idle, TellsFailure
    <3>3. CASE TellsPiece
      <4>1. sent = <<Delta>> \/ sent = <<Note, Delta>>
        BY <3>3 DEF TellsPiece
      <4>2. Len(<<Delta>>) = 1 /\ Len(<<Note, Delta>>) = 2
        BY LastOf
      <4>3. Len(sent) \in {1, 2}
        BY <4>1, <4>2, Zenon
      <4> QED BY <4>3
    <3>4. CASE TellsAnswer
      <4>1. sent = <<Complete>> \/ sent = <<Note, Complete>>
        BY <3>4 DEF TellsAnswer
      <4>2. Len(<<Complete>>) = 1 /\ Len(<<Note, Complete>>) = 2
        BY LastOf
      <4>3. Len(sent) \in {1, 2}
        BY <4>1, <4>2, Zenon
      <4> QED BY <4>3
    <3> QED BY <3>2, <3>3, <3>4 DEF StreamInv, OnItsWay
  <2> QED BY <2>1 DEF StreamInv, StreamTypes, AttemptsCounted, StreamTypeOK
<1> QED BY <1>1, StreamInvariant, PTL
=============================================================================
