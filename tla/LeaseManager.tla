---------------------------- MODULE LeaseManager ----------------------------
(***************************************************************************)
(* heaven/leases.go: the in-memory lease table and its scope index, and    *)
(* the replay that rebuilds them.  Each operator is one iteration of the   *)
(* loop of Acquire, of Release or of replayEvents; HeavenServer runs the   *)
(* loops under lm.mu.                                                      *)
(***************************************************************************)
EXTENDS EventLog

VARIABLES
  leases,   \* lease_id -> Lease, NoLease where the map has no entry
  scopes,   \* scope key -> lease_id, None where the map has no entry
  used      \* every id generateID returned (16 random bytes: never twice)

leaseVars == <<leases, scopes, used>>

NoLease == [owner |-> None, scope |-> None]
Lease   == [owner : Owners, scope : Scopes]

LeaseTypeOK ==
  /\ leases \in [LeaseIds -> Lease \cup {NoLease}]
  /\ scopes \in [Scopes -> LeaseIds \cup {None}]
  /\ used \subseteq LeaseIds

EmptyTable ==
  /\ leases = [l \in LeaseIds |-> NoLease]
  /\ scopes = [k \in Scopes |-> None]

Active(l) == leases[l] # NoLease

\* The scope's slot in the index names a lease of another owner.
HeldByOther(o, k) ==
  /\ scopes[k] # None
  /\ Active(scopes[k])
  /\ leases[scopes[k]].owner # o

\* Variants of Issue: an id of the table's gaps instead of a fresh one, and no
\* look at the index.
IssueReusedId(l, o, k) ==
  /\ scopes[k] = None
  /\ ~Active(l)
  /\ leases' = [leases EXCEPT ![l] = [owner |-> o, scope |-> k]]
  /\ scopes' = [scopes EXCEPT ![k] = l]
  /\ used' = used \cup {l}
  /\ TryAppend(LeaseIssued(l, o, k))
IssueOverHeld(l, o, k) ==
  /\ l \in LeaseIds \ used
  /\ leases' = [leases EXCEPT ![l] = [owner |-> o, scope |-> k]]
  /\ scopes' = [scopes EXCEPT ![k] = l]
  /\ used' = used \cup {l}
  /\ TryAppend(LeaseIssued(l, o, k))

\* Acquire on a free scope: both maps are set, then the event is logged and
\* the error of the append is dropped.
Issue(l, o, k) ==
  /\ scopes[k] = None
  /\ l \in LeaseIds \ used
  /\ leases' = [leases EXCEPT ![l] = [owner |-> o, scope |-> k]]
  /\ scopes' = [scopes EXCEPT ![k] = l]
  /\ used' = used \cup {l}
  /\ TryAppend(LeaseIssued(l, o, k))

\* Variants of Drop: the release is not logged, or the index keeps the scope.
DropUnlogged(l) ==
  \/ /\ Active(l)
     /\ scopes' = [scopes EXCEPT ![leases[l].scope] = None]
     /\ leases' = [leases EXCEPT ![l] = NoLease]
     /\ UNCHANGED <<used, logVars>>
  \/ ~Active(l) /\ UNCHANGED <<leaseVars, logVars>>
DropLeaseOnly(l) ==
  \/ /\ Active(l)
     /\ leases' = [leases EXCEPT ![l] = NoLease]
     /\ UNCHANGED <<scopes, used>>
     /\ TryAppend(LeaseReleased(l))
  \/ ~Active(l) /\ UNCHANGED <<leaseVars, logVars>>

\* Release of one id; ids that are not in the table are skipped, and there
\* is no check that the caller owns the lease.
Drop(l) ==
  \/ /\ Active(l)
     /\ scopes' = [scopes EXCEPT ![leases[l].scope] = None]
     /\ leases' = [leases EXCEPT ![l] = NoLease]
     /\ UNCHANGED used
     /\ TryAppend(LeaseReleased(l))
  \/ /\ ~Active(l)
     /\ UNCHANGED <<leaseVars, logVars>>

\* OwnerHoldsScope, the question validate-manifest asks per scope.
OwnerHoldsScope(o, k) ==
  scopes[k] # None /\ Active(scopes[k]) /\ leases[scopes[k]].owner = o

\* Variant of the replay: a release clears only the index.
ReplayKeepsLease(e) ==
  \/ /\ e.type = "lease_issued"
     /\ leases' = [leases EXCEPT ![e.id] = [owner |-> e.owner, scope |-> e.scope]]
     /\ scopes' = [scopes EXCEPT ![e.scope] = e.id]
  \/ /\ e.type = "lease_released" /\ Active(e.id)
     /\ scopes' = [scopes EXCEPT ![leases[e.id].scope] = None]
     /\ UNCHANGED leases
  \/ /\ e.type # "lease_issued"
     /\ e.type = "lease_released" => ~Active(e.id)
     /\ UNCHANGED <<leases, scopes>>

\* replayEvents on one line: an issue overwrites whatever the index names, a
\* release of an id that is not in the table is skipped.
ReplayLeaseLine(e) ==
  \/ /\ e.type = "lease_issued"
     /\ leases' = [leases EXCEPT ![e.id] = [owner |-> e.owner, scope |-> e.scope]]
     /\ scopes' = [scopes EXCEPT ![e.scope] = e.id]
  \/ /\ e.type = "lease_released" /\ Active(e.id)
     /\ scopes' = [scopes EXCEPT ![leases[e.id].scope] = None]
     /\ leases' = [leases EXCEPT ![e.id] = NoLease]
  \/ /\ e.type # "lease_issued"
     /\ e.type = "lease_released" => ~Active(e.id)
     /\ UNCHANGED <<leases, scopes>>

-----------------------------------------------------------------------------
(* What the file says of a lease, without running the replay. *)

IssuedAt(i, l)   == log[i].type = "lease_issued" /\ log[i].id = l
ReleasedAt(i, l) == log[i].type = "lease_released" /\ log[i].id = l

\* After the first n lines, lease l has been issued and not released since.
LiveAfter(l, n) ==
  \E i \in 1 .. n : /\ IssuedAt(i, l)
                    /\ \A j \in (i + 1) .. n : ~ReleasedAt(j, l)
=============================================================================
