-------------------------- MODULE HeavenProperties --------------------------
(***************************************************************************)
(* What the daemon of HeavenServer owes its clients.                       *)
(***************************************************************************)
EXTENDS HeavenServer

\* A scope in the index names a lease that exists and covers that scope, so
\* Acquire never dereferences a nil lease (leases.go:114-120).  It holds
\* whatever writes fail, during the replay too.
IndexedLeaseExists == \A k \in Scopes : scopes[k] # None => leases[scopes[k]].scope = k

\* Two live leases never cover the same scope: every lease of the table is the
\* one its scope's index entry names ("exclusive scope lock", leases.go:13).
OneLeasePerScope == \A l \in LeaseIds : Active(l) => scopes[leases[l].scope] = l

\* How far into the log the table has got: all of it once the daemon serves.
Applied == IF phase = "up" THEN Len(log) ELSE pos

\* The table is what the log says: a lease is in it exactly when it was issued
\* and not released in the lines applied so far.  This is what makes the replay
\* of leases.go:45-81 rebuild the table that Acquire and Release left.
TableIsReplay == \A l \in LeaseIds : Active(l) <=> LiveAfter(l, Applied)

\* A lease the daemon told a client it holds, and that the client has not asked
\* to release, is in the table in its owner's name: across crashes, lost
\* responses, and releases that other clients send or send again.
AckedLeasesHeld ==
  phase = "up" => \A c \in Clients : \A l \in held[c] :
                    leases[l].owner = OwnerOf[c] /\ scopes[leases[l].scope] = l

OwnersDrop ==
  \A l \in LeaseIds : (Active(l) /\ ~Active(l)' /\ phase' = "up") =>
    \E c \in Clients : pc[c] = "releasing" /\ OwnerOf[c] = leases[l].owner

\* Only a release by a client of its owner takes a lease out of the table of a
\* running daemon, however late or often the release is sent.
OnlyOwnerDrops == [][OwnersDrop]_vars

\* "Monotonic version counter per file path" (fileclock.go:9): no client is ever
\* shown a clock below one that was already shown, across restarts too.
ClocksNeverBehind == phase = "up" => \A p \in Paths : seen[p] <= clocks[p]

LinesStay ==
  \A i \in 1 .. Len(log) : (i < Len(log) \/ ~openLine) =>
    i <= Len(log') /\ log'[i] = log[i]

\* The log only grows: a line that has its newline is never changed, whatever
\* fails; only the tail a short write left can be spoilt by the next append.
CompletedLinesStay == [][LinesStay]_logVars

\* Every request is answered or dies with the daemon: no handler waits for
\* lm.mu for ever and no lease loop runs for ever.
RequestsEnd == \A c \in Clients : (pc[c] # "idle") ~> (pc[c] = "idle")

-----------------------------------------------------------------------------
(* The abstract lease service: the log decides who holds a scope, so the   *)
(* crash and the replay are stuttering steps.                              *)

\* The line that issued a lease.
IssueLine(l) == CHOOSE i \in 1 .. Len(log) : IssuedAt(i, l)

\* The live leases on scope k, and its holder, according to the whole log.
LeasesOn(k) == {l \in LeaseIds : LiveAfter(l, Len(log)) /\ log[IssueLine(l)].scope = k}
AnyOf(S) == CHOOSE x \in S : TRUE
LoggedHolder(k) ==
  IF LeasesOn(k) = {} THEN None ELSE log[IssueLine(AnyOf(LeasesOn(k)))].owner

Holders == [k \in Scopes |-> LoggedHolder(k)]
Relied  == [c \in Clients |-> {log[IssueLine(l)].scope : l \in held[c]}]

Service == INSTANCE LeaseService WITH
  Nobody <- None, holder <- Holders, relies <- Relied

\* The daemon implements the abstract lease service.
ImplementsLeaseService == Service!ServiceSpec
=============================================================================
