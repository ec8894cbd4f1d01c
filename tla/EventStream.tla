----------------------------- MODULE EventStream -----------------------------
(***************************************************************************)
(* What the services of the CLI may expect of a subscription, without      *)
(* locks, contexts or channels: a subscriber is owed every event that is   *)
(* published while it is subscribed, gets each at most once, from one      *)
(* publisher in order, and loses one only when its backlog is full or its  *)
(* subscription ends.  Once the stream is stopped, what is published       *)
(* reaches nobody, although a subscription may still have to end.          *)
(***************************************************************************)
EXTENDS Naturals, Sequences

CONSTANTS Subs, Pubs, BufferSize

VARIABLES
  stopped,  \* no event is taken any more
  live,     \* the subscriptions
  ended,    \* those that are over
  owed,     \* of a subscription: the publishers whose last event is to come
  backlog,  \* events a subscriber has yet to read
  last      \* the number of a publisher's last event

vars == <<stopped, live, ended, owed, backlog, last>>

Init ==
  /\ stopped = FALSE /\ live = {} /\ ended = {}
  /\ owed = [s \in Subs |-> {}]
  /\ backlog = [s \in Subs |-> <<>>]
  /\ last = [p \in Pubs |-> 0]

Begin(s) ==
  /\ ~stopped /\ s \notin live \cup ended
  /\ live' = live \cup {s}
  /\ UNCHANGED <<stopped, ended, owed, backlog, last>>

\* Several subscriptions may end at once, and one may end before it began.
End(over) ==
  /\ over # {} /\ over \cap ended = {}
  /\ live' = live \ over
  /\ ended' = ended \cup over
  /\ owed' = [s \in Subs |-> IF s \in over THEN {} ELSE owed[s]]
  /\ UNCHANGED <<stopped, backlog, last>>

Stop ==
  /\ ~stopped
  /\ stopped' = TRUE
  /\ UNCHANGED <<live, ended, owed, backlog, last>>

\* Every subscription is owed the event, unless the stream is stopped.
Publish(p) ==
  /\ \A s \in Subs : p \notin owed[s]
  /\ last' = [last EXCEPT ![p] = @ + 1]
  /\ owed' = [s \in Subs |-> IF s \in live /\ ~stopped THEN owed[s] \cup {p} ELSE owed[s]]
  /\ UNCHANGED <<stopped, live, ended, backlog>>

Deliver(p, s) ==
  /\ p \in owed[s]
  /\ owed' = [owed EXCEPT ![s] = @ \ {p}]
  /\ backlog' = [backlog EXCEPT ![s] = Append(@, <<p, last[p]>>)]
  /\ UNCHANGED <<stopped, live, ended, last>>

Lose(p, s) ==
  /\ p \in owed[s] /\ Len(backlog[s]) = BufferSize
  /\ owed' = [owed EXCEPT ![s] = @ \ {p}]
  /\ UNCHANGED <<stopped, live, ended, backlog, last>>

Read(s) ==
  /\ backlog[s] # <<>>
  /\ backlog' = [backlog EXCEPT ![s] = Tail(@)]
  /\ UNCHANGED <<stopped, live, ended, owed, last>>

Next ==
  \/ Stop
  \/ \E s \in Subs : Begin(s) \/ Read(s)
  \/ \E over \in SUBSET Subs : End(over)
  \/ \E p \in Pubs : Publish(p) \/ \E s \in Subs : Deliver(p, s) \/ Lose(p, s)

Spec == Init /\ [][Next]_vars
=============================================================================
