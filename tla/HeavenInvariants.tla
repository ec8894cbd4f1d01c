-------------------------- MODULE HeavenInvariants --------------------------
(***************************************************************************)
(* The inductive invariants behind the lease properties: LeaseInv holds    *)
(* whatever writes fail, ExactInv and, for the clocks, ClockInv when none  *)
(* does.                                                                   *)
(***************************************************************************)
EXTENDS HeavenProperties, FiniteSets

Issued(i)   == i \in 1 .. Len(log) /\ log[i].type = "lease_issued"
Released(i) == i \in 1 .. Len(log) /\ log[i].type = "lease_released"

\* generateID never repeats an id, so the log issues each at most once.
IssuedOnce ==
  \A i, j \in 1 .. Len(log) : Issued(i) /\ Issued(j) /\ log[i].id = log[j].id => i = j

IssuedUsed == \A i \in 1 .. Len(log) : Issued(i) => log[i].id \in used

ActiveUsed == \A l \in LeaseIds : Active(l) => l \in used

\* During the replay the table only has leases of the lines already read.
BootPrefix ==
  /\ pos <= Len(log)
  /\ phase = "boot" =>
       \A l \in LeaseIds : Active(l) => \E i \in 1 .. pos : Issued(i) /\ log[i].id = l

\* Table and log agree on what a lease covers and whose it is.
IssueMatches ==
  \A i \in 1 .. Len(log) : Issued(i) /\ Active(log[i].id) =>
    leases[log[i].id] = [owner |-> log[i].owner, scope |-> log[i].scope]

\* What a client was told, or is about to be told, is in its owner's name.
Told(c) == known[c] \cup got[c]
ToldOwned ==
  \A c \in Clients : \A l \in Told(c) :
    /\ l \in used
    /\ Active(l) => leases[l].owner = OwnerOf[c]
    /\ \A i \in 1 .. Len(log) : Issued(i) /\ log[i].id = l => log[i].owner = OwnerOf[c]

\* A release is for leases its client was told of.
ReleasesKnown ==
  \A c \in Clients : pc[c] \in {"release", "releasing"} => todo[c] \subseteq known[c]

LeaseInv ==
  /\ TypeOK /\ IssuedOnce /\ IssuedUsed /\ ActiveUsed /\ BootPrefix
  /\ IndexedLeaseExists /\ IssueMatches /\ ToldOwned /\ ReleasesKnown

-----------------------------------------------------------------------------

\* A scope is issued again only after its last lease was released.
LogExclusive ==
  \A i, j \in 1 .. Len(log) :
    Issued(i) /\ Issued(j) /\ j < i /\ log[i].scope = log[j].scope =>
      \E m \in (j + 1) .. (i - 1) : Released(m) /\ log[m].id = log[j].id

\* What a client relies on, or is about to be told, the whole log holds live.
ToldLive ==
  \A c \in Clients : \A l \in held[c] \cup got[c] : LiveAfter(l, Len(log))

\* A client relies on leases it knows and is not releasing, and only an
\* acquire collects leases.
RequestsApart ==
  \A c \in Clients :
    /\ held[c] \subseteq known[c]
    /\ pc[c] \in {"release", "releasing"} => todo[c] \cap held[c] = {}
    /\ pc[c] \notin {"acquiring", "done"} => got[c] = {}

ExactInv ==
  /\ LeaseInv /\ ~openLine
  /\ TableIsReplay /\ OneLeasePerScope /\ LogExclusive /\ ToldLive /\ RequestsApart
-----------------------------------------------------------------------------

\* The lines among the first n of s that count path p up.
Bumps(s, p, n) == {i \in 1 .. n : s[i].type = "file_clock_inc" /\ p \in s[i].paths}

\* A clock is the number of its increments in the lines applied, and no client
\* has been shown more increments than the whole log holds.
ClockInv ==
  /\ TypeOK /\ ~openLine
  /\ phase = "boot" => pos <= Len(log)
  /\ \A p \in Paths :
       /\ clocks[p] = Cardinality(Bumps(log, p, Applied))
       /\ seen[p] <= Cardinality(Bumps(log, p, Len(log)))
-----------------------------------------------------------------------------
(* How a request comes nearer its answer. *)

\* lm.mu excludes: of two loops over leases one is over.
OneInside ==
  \A c, d \in Clients : {pc[c], pc[d]} \subseteq {"acquiring", "releasing"} => c = d

\* Acquire's loop has a case for every scope: no entry of the index leads nowhere.
LoopGoesOn ==
  \A c \in Clients : pc[c] = "acquiring" =>
    \A k \in todo[c] :
      HeldByOther(OwnerOf[c], k) \/ OwnerHoldsScope(OwnerOf[c], k) \/ scopes[k] = None

\* Steps of its handler before a request is answered.
WorkLeft(c) ==
  CASE pc[c] = "idle" -> 0
    [] pc[c] \in {"done", "incremented"} -> 1
    [] pc[c] \in {"event", "inc"} -> 2
    [] pc[c] \in {"acquiring", "releasing"} -> 2 + Cardinality(todo[c])
    [] OTHER -> 3 + Cardinality(todo[c])

\* Each step of a handler brings its request nearer the answer; no other request,
\* failing write, restart or lost response adds to what a handler has to do.
WorkRunsDown ==
  [][\A c \in Clients : pc[c] # "idle" =>
       /\ WorkLeft(c)' <= WorkLeft(c)
       /\ Lock(c) \/ Handler(c) => WorkLeft(c)' < WorkLeft(c)]_vars
=============================================================================
