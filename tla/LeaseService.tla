---------------------------- MODULE LeaseService ----------------------------
(***************************************************************************)
(* What Heaven's lease endpoints promise, with no table, log or daemon: a  *)
(* scope has at most one holder; a client is told it has a scope only      *)
(* while its owner holds it; and a scope is freed only when no client of   *)
(* its holder relies on it any more.  Restarts are invisible.              *)
(***************************************************************************)
CONSTANTS Clients, Owners, OwnerOf, Scopes, Nobody

VARIABLES
  holder,   \* scope -> owner or Nobody
  relies    \* client -> scopes it was told it holds and has not given up

serviceVars == <<holder, relies>>

ServiceTypeOK ==
  /\ holder \in [Scopes -> Owners \cup {Nobody}]
  /\ relies \in [Clients -> SUBSET Scopes]

ServiceInit ==
  /\ holder = [k \in Scopes |-> Nobody]
  /\ relies = [c \in Clients |-> {}]

Grant(o, k) ==
  /\ holder[k] = Nobody
  /\ holder' = [holder EXCEPT ![k] = o]
  /\ UNCHANGED relies

Tell(c, K) ==
  /\ \A k \in K : holder[k] = OwnerOf[c]
  /\ relies' = [relies EXCEPT ![c] = @ \cup K]
  /\ UNCHANGED holder

GiveUp(c, K) ==
  /\ relies' = [relies EXCEPT ![c] = @ \ K]
  /\ UNCHANGED holder

Free(k) ==
  /\ holder[k] # Nobody
  /\ \A c \in Clients : k \notin relies[c]
  /\ holder' = [holder EXCEPT ![k] = Nobody]
  /\ UNCHANGED relies

ServiceNext ==
  \/ \E k \in Scopes : Free(k) \/ \E o \in Owners : Grant(o, k)
  \/ \E c \in Clients, K \in SUBSET Scopes : Tell(c, K) \/ GiveUp(c, K)

ServiceSpec == ServiceInit /\ [][ServiceNext]_serviceVars

\* Nobody relies on a scope that another owner holds.
Exclusion == \A c \in Clients : \A k \in relies[c] : holder[k] = OwnerOf[c]
=============================================================================
