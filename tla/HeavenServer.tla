---------------------------- MODULE HeavenServer ----------------------------
(***************************************************************************)
(* heaven/server.go: the daemon's state-changing handlers around the lease *)
(* table, the file clocks and the event log, run concurrently by clients,  *)
(* with crashes of the daemon and the replay at boot.                      *)
(*                                                                         *)
(* A step is what the code does without releasing the lock it needs: a     *)
(* handler that holds lm.mu (or fc.mu) excludes only the handlers that     *)
(* want the same mutex, so the iterations of a lease loop interleave with  *)
(* clock increments and with other appends.  A crash between the update of *)
(* a map and the append that follows it is a crash before that iteration:  *)
(* the map dies with the process.                                          *)
(***************************************************************************)
EXTENDS LeaseManager, FileClock

CONSTANTS
  Clients,      \* one outstanding request each
  OwnerOf,      \* the owner_id a client sends
  Endpoints,    \* the endpoints the clients of an instance call
  MaxRequests,  \* bound: requests sent in a behaviour
  MaxCrashes    \* bound: crashes in a behaviour

ASSUME ClientAssumption ==
  OwnerOf \in [Clients -> Owners] /\ MaxRequests \in Nat /\ MaxCrashes \in Nat

VARIABLES
  phase,     \* "boot" while NewServer replays, "up" once it serves
  pos,       \* lines of the log replayed so far
  stateRev,  \* Server.stateRev
  pc,        \* where each client's request is in its handler
  todo,      \* what the request's loop has still to handle
  got,       \* lease ids an Acquire has collected in its result
  known,     \* lease ids the client has ever been told
  held,      \* those of them it has not asked to release
  seen,      \* path -> highest clock any response has carried
  sent, crashes

clientVars == <<pc, todo, got, known, held, seen>>
bounds     == <<sent, crashes>>
vars == <<logVars, leaseVars, clocks, phase, pos, stateRev, clientVars, bounds>>

Stages == {"idle", "acquire", "acquiring", "release", "releasing",
           "inc", "incremented", "event", "done"}

ServerTypeOK ==
  /\ phase \in {"boot", "up"} /\ pos \in Nat /\ stateRev \in Nat
  /\ pc \in [Clients -> Stages]
  /\ todo \in [Clients -> SUBSET (Scopes \cup LeaseIds \cup Paths)]
  /\ got \in [Clients -> SUBSET LeaseIds]
  /\ known \in [Clients -> SUBSET LeaseIds]
  /\ held \in [Clients -> SUBSET LeaseIds]
  /\ seen \in [Paths -> Nat]
  /\ sent \in 0 .. MaxRequests
  /\ crashes \in 0 .. MaxCrashes

\* What a request carries, by the handler it is in.
WorkOK ==
  \A c \in Clients :
    /\ pc[c] \in {"acquire", "acquiring"} => todo[c] \subseteq Scopes
    /\ pc[c] \in {"release", "releasing"} => todo[c] \subseteq LeaseIds
    /\ pc[c] \in {"inc", "incremented"} => todo[c] \subseteq Paths

TypeOK == LogTypeOK /\ LeaseTypeOK /\ ClockTypeOK /\ ServerTypeOK /\ WorkOK

Init ==
  /\ LogInit /\ EmptyTable /\ used = {} /\ ZeroClocks
  /\ phase = "boot" /\ pos = 0 /\ stateRev = 0
  /\ pc = [c \in Clients |-> "idle"]
  /\ todo = [c \in Clients |-> {}]
  /\ got = [c \in Clients |-> {}]
  /\ known = [c \in Clients |-> {}]
  /\ held = [c \in Clients |-> {}]
  /\ seen = [p \in Paths |-> 0]
  /\ sent = 0 /\ crashes = 0

-----------------------------------------------------------------------------
(* Boot: NewLeaseManager and NewFileClock each replay the log; nobody      *)
(* appends meanwhile, so one pass stands for both.                         *)

ReplayLine ==
  /\ phase = "boot" /\ pos < Len(log)
  /\ ReplayLeaseLine(log[pos + 1])
  /\ ReplayClockLine(log[pos + 1])
  /\ pos' = pos + 1
  /\ UNCHANGED <<logVars, used, phase, stateRev, clientVars, bounds>>

\* state_rev restarts from the number of lines, malformed ones included.
Serve ==
  /\ phase = "boot" /\ pos = Len(log)
  /\ phase' = "up" /\ pos' = 0
  /\ stateRev' = Len(log)
  /\ UNCHANGED <<logVars, leaseVars, clocks, clientVars, bounds>>

\* The process dies: its maps and the requests in flight are gone; events.log
\* and what the clients were told remain.
Crash ==
  /\ crashes < MaxCrashes /\ crashes' = crashes + 1
  /\ phase' = "boot" /\ pos' = 0 /\ stateRev' = 0
  /\ leases' = [l \in LeaseIds |-> NoLease]
  /\ scopes' = [k \in Scopes |-> None]
  /\ clocks' = [p \in Paths |-> 0]
  /\ pc' = [c \in Clients |-> "idle"]
  /\ todo' = [c \in Clients |-> {}]
  /\ got' = [c \in Clients |-> {}]
  /\ UNCHANGED <<logVars, used, known, held, seen, sent>>

-----------------------------------------------------------------------------
(* Requests.  Send is the client's; the other steps are the handler's.     *)

Goto(c, s) == pc' = [pc EXCEPT ![c] = s]

Send(c, s, work) ==
  /\ phase = "up" /\ pc[c] = "idle"
  /\ s \in Endpoints
  /\ sent < MaxRequests /\ sent' = sent + 1
  /\ Goto(c, s)
  /\ todo' = [todo EXCEPT ![c] = work]
  /\ UNCHANGED <<logVars, leaseVars, clocks, phase, pos, stateRev, got, known, seen, crashes>>

SendAcquire(c) ==
  /\ \E K \in SUBSET Scopes \ {{}} : Send(c, "acquire", K)
  /\ UNCHANGED held

\* A release names leases the client was given, perhaps ones it has already
\* released (a retry); from then on it does not rely on them.
SendRelease(c) ==
  \E L \in SUBSET known[c] \ {{}} :
    /\ Send(c, "release", L)
    /\ held' = [held EXCEPT ![c] = @ \ L]

SendFileClockInc(c) ==
  /\ \E P \in SUBSET Paths \ {{}} : Send(c, "inc", P)
  /\ UNCHANGED held

\* POST /event, with an event no replay reads (God's own event types).
SendEvent(c) == Send(c, "event", {}) /\ UNCHANGED held

\* POST /blob, /ir/build and /prompt/store: no event, only stateRev.
SendUnlogged(c) == Send(c, "done", {}) /\ UNCHANGED held

\* lm.mu: one client at a time is inside Acquire or Release.
LeasesLocked == \E c \in Clients : pc[c] \in {"acquiring", "releasing"}

Lock(c) ==
  /\ phase = "up" /\ ~LeasesLocked
  /\ \/ pc[c] = "acquire" /\ Goto(c, "acquiring")
     \/ pc[c] = "release" /\ Goto(c, "releasing")
  /\ UNCHANGED <<logVars, leaseVars, clocks, phase, pos, stateRev,
                 todo, got, known, held, seen, bounds>>

\* One scope of the request; the order is the client's choice.
AcquireScope(c) ==
  /\ phase = "up" /\ pc[c] = "acquiring"
  /\ \E k \in todo[c] :
       /\ todo' = [todo EXCEPT ![c] = @ \ {k}]
       /\ \/ /\ HeldByOther(OwnerOf[c], k)
             /\ UNCHANGED <<logVars, leaseVars, got>>
          \/ /\ OwnerHoldsScope(OwnerOf[c], k)
             /\ got' = [got EXCEPT ![c] = @ \cup {scopes[k]}]
             /\ UNCHANGED <<logVars, leaseVars>>
          \/ \E l \in LeaseIds :
               /\ Issue(l, OwnerOf[c], k)
               /\ got' = [got EXCEPT ![c] = @ \cup {l}]
  /\ UNCHANGED <<clocks, phase, pos, stateRev, pc, known, held, seen, bounds>>

ReleaseId(c) ==
  /\ phase = "up" /\ pc[c] = "releasing"
  /\ \E l \in todo[c] :
       /\ todo' = [todo EXCEPT ![c] = @ \ {l}]
       /\ Drop(l)
  /\ UNCHANGED <<clocks, phase, pos, stateRev, pc, got, known, held, seen, bounds>>

\* Variant: Release returns without the Unlock.
UnlockAfterAcquire(c) ==
  /\ phase = "up" /\ pc[c] = "acquiring" /\ todo[c] = {}
  /\ Goto(c, "done")
  /\ UNCHANGED <<logVars, leaseVars, clocks, phase, pos, stateRev,
                 todo, got, known, held, seen, bounds>>

\* The loop is over and the deferred Unlock runs.
Unlock(c) ==
  /\ phase = "up" /\ pc[c] \in {"acquiring", "releasing"} /\ todo[c] = {}
  /\ Goto(c, "done")
  /\ UNCHANGED <<logVars, leaseVars, clocks, phase, pos, stateRev,
                 todo, got, known, held, seen, bounds>>

\* handleFileClockInc: Increment, and a 500 without a revision if it failed.
IncFileClock(c) ==
  /\ phase = "up" /\ pc[c] = "inc"
  /\ \/ /\ Increment(todo[c])
        /\ Goto(c, "incremented")
        /\ UNCHANGED todo
     \/ /\ IncrementFails(todo[c])
        /\ Goto(c, "idle")
        /\ todo' = [todo EXCEPT ![c] = {}]
  /\ UNCHANGED <<leaseVars, phase, pos, stateRev, got, known, held, seen, bounds>>

\* ... then the clocks of the response are read again, after other handlers
\* may have run.
ReplyClocks(c) ==
  /\ phase = "up" /\ pc[c] = "incremented"
  /\ stateRev' = stateRev + 1
  /\ seen' = [p \in Paths |-> IF p \in todo[c] /\ clocks[p] > seen[p]
                              THEN clocks[p] ELSE seen[p]]
  /\ Goto(c, "idle")
  /\ todo' = [todo EXCEPT ![c] = {}]
  /\ UNCHANGED <<logVars, leaseVars, clocks, phase, pos, got, known, held, bounds>>

\* handleFileClockGet: changes nothing but what the clients have seen.
GetClocks ==
  /\ phase = "up" /\ \E p \in Paths : clocks[p] > seen[p]
  /\ \E p \in Paths : /\ clocks[p] > seen[p]
                      /\ seen' = [seen EXCEPT ![p] = clocks[p]]
  /\ UNCHANGED <<logVars, leaseVars, clocks, phase, pos, stateRev,
                 pc, todo, got, known, held, bounds>>

AppendEvent(c) ==
  /\ phase = "up" /\ pc[c] = "event"
  /\ \/ Written(Other) /\ Goto(c, "done")
     \/ WriteFails(Other) /\ Goto(c, "idle")
  /\ UNCHANGED <<leaseVars, clocks, phase, pos, stateRev,
                 todo, got, known, held, seen, bounds>>

\* stateRev.Add(1) and the response.  An Acquire tells its leases, unless the
\* response does not reach the client.
Reply(c) ==
  /\ phase = "up" /\ pc[c] = "done"
  /\ stateRev' = stateRev + 1
  /\ \/ /\ known' = [known EXCEPT ![c] = @ \cup got[c]]
        /\ held' = [held EXCEPT ![c] = @ \cup got[c]]
     \/ UNCHANGED <<known, held>>
  /\ got' = [got EXCEPT ![c] = {}]
  /\ todo' = [todo EXCEPT ![c] = {}]
  /\ Goto(c, "idle")
  /\ UNCHANGED <<logVars, leaseVars, clocks, phase, pos, seen, bounds>>

-----------------------------------------------------------------------------

ClientSends(c) ==
  SendAcquire(c) \/ SendRelease(c) \/ SendFileClockInc(c) \/ SendEvent(c) \/ SendUnlogged(c)

Handler(c) ==
  AcquireScope(c) \/ ReleaseId(c) \/ Unlock(c) \/ IncFileClock(c)
    \/ ReplyClocks(c) \/ AppendEvent(c) \/ Reply(c)

Next ==
  \/ ReplayLine \/ Serve \/ Crash \/ GetClocks
  \/ \E c \in Clients : ClientSends(c) \/ Lock(c) \/ Handler(c)

Spec == Init /\ [][Next]_vars

\* A goroutine that can run runs, and sync.RWMutex does not starve a writer.
\* Nothing makes a client send, a write fail or the process die.
Fairness ==
  /\ WF_vars(ReplayLine) /\ WF_vars(Serve)
  /\ \A c \in Clients : SF_vars(Lock(c)) /\ WF_vars(Handler(c))

FairSpec == Spec /\ Fairness
=============================================================================
