---------------------------- MODULE HeavenProofs ----------------------------
(***************************************************************************)
(* Theorems about HeavenServer, for every set of clients, scopes, paths    *)
(* and lease ids and every bound: what holds whatever writes fail, and     *)
(* what holds when every write succeeds.                                   *)
(***************************************************************************)
EXTENDS HeavenInvariants, SequenceTheorems, FiniteSetTheorems, TLAPS

USE NoneAssumption, FaultsAssumption, ClientAssumption

-----------------------------------------------------------------------------
(* The log. *)

\* Each constructor of an event makes a line.
LEMMA LinesAreLines ==
  /\ Other \in Line /\ Malformed \in Line
  /\ \A l \in LeaseIds : LeaseReleased(l) \in Line
  /\ \A l \in LeaseIds, o \in Owners, k \in Scopes : LeaseIssued(l, o, k) \in Line
  /\ \A P \in SUBSET Paths : FileClockInc(P) \in Line
BY DEF Line

\* What the type field of a line says of its other fields.
LEMMA LineFields ==
  ASSUME NEW e \in Line
  PROVE  /\ e.type = "lease_issued" =>
              e.id \in LeaseIds /\ e.owner \in Owners /\ e.scope \in Scopes
         /\ e.type = "lease_released" => e.id \in LeaseIds
         /\ e.paths \in SUBSET Paths
<1>1. CASE \E l \in LeaseIds, o \in Owners, k \in Scopes : e = LeaseIssued(l, o, k)
  BY <1>1 DEF LeaseIssued
<1>2. CASE \E l \in LeaseIds : e = LeaseReleased(l)
  BY <1>2 DEF LeaseReleased
<1>3. CASE \E P \in SUBSET Paths : e = FileClockInc(P)
  BY <1>3 DEF FileClockInc
<1>4. CASE e \in {Other, Malformed}
  BY <1>4 DEF Other, Malformed, Blank
<1>5. QED
  BY <1>1, <1>2, <1>3, <1>4 DEF Line

\* An append leaves the file a sequence of lines; it changes at most the last
\* one, and only when that one was torn.
LEMMA ExtendedLog ==
  ASSUME LogTypeOK, NEW e \in Line
  PROVE  /\ Extended(e) \in Seq(Line) /\ Extended(e) # <<>>
         /\ ~openLine => /\ Len(Extended(e)) = Len(log) + 1
                         /\ Extended(e)[Len(log) + 1] = e
                         /\ \A i \in 1 .. Len(log) : Extended(e)[i] = log[i]
         /\ openLine => /\ Len(Extended(e)) = Len(log)
                        /\ Extended(e)[Len(log)] = Malformed
                        /\ \A i \in 1 .. Len(log) - 1 : Extended(e)[i] = log[i]
<1>1. CASE ~openLine
  BY <1>1 DEF Extended, LogTypeOK
<1>2. CASE openLine
  <2>1. Len(log) \in 1 .. Len(log)
    BY <1>2, EmptySeq DEF LogTypeOK
  <2>2. Extended(e) = [log EXCEPT ![Len(log)] = Malformed]
    BY <1>2 DEF Extended
  <2>3. /\ Extended(e) \in Seq(Line) /\ Len(Extended(e)) = Len(log)
        /\ \A j \in 1 .. Len(log) : Extended(e)[j] = IF j = Len(log) THEN Malformed ELSE log[j]
    BY <2>1, <2>2, ExceptSeq, LinesAreLines DEF LogTypeOK
  <2>4. QED
    BY <1>2, <2>1, <2>3, EmptySeq
<1>3. QED
  BY <1>1, <1>2 DEF LogTypeOK

LEMMA AppendType ==
  ASSUME LogTypeOK, NEW e \in Line, TryAppend(e)
  PROVE  LogTypeOK'
<1>1. /\ Extended(e) \in Seq(Line) /\ Extended(e) # <<>>
      /\ Extended(Malformed) \in Seq(Line) /\ Extended(Malformed) # <<>>
  BY ExtendedLog, LinesAreLines
<1>2. CASE Written(e)
  BY <1>1, <1>2 DEF LogTypeOK, Written
<1>3. CASE WriteFails(e)
  <2>1. faults' \in 0 .. MaxFaults
    BY <1>3 DEF LogTypeOK, WriteFails
  <2>2. \/ log' = log /\ openLine' = openLine
        \/ log' \in {Extended(e), Extended(Malformed)} /\ openLine' = TRUE
    BY <1>3 DEF WriteFails
  <2>3. log' \in Seq(Line)
    BY <1>1, <2>2 DEF LogTypeOK
  <2>4. openLine' \in BOOLEAN /\ (openLine' => log' # <<>>)
    <3>1. CASE log' = log /\ openLine' = openLine
      BY <3>1, Zenon DEF LogTypeOK
    <3>2. CASE log' \in {Extended(e), Extended(Malformed)} /\ openLine' = TRUE
      BY <1>1, <3>2, Zenon
    <3>3. QED
      BY <2>2, <3>1, <3>2, Zenon
  <2>5. QED
    BY <2>1, <2>3, <2>4 DEF LogTypeOK
<1>4. QED
  BY <1>2, <1>3 DEF TryAppend

\* A line of the log is a line.
LEMMA LogLine ==
  ASSUME LogTypeOK, NEW i \in 1 .. Len(log)
  PROVE  log[i] \in Line
BY ElementOfSeq DEF LogTypeOK

-----------------------------------------------------------------------------
(* Type correctness. *)

\* One iteration of a lease loop keeps the log and the lease table well typed.
LEMMA IssueType ==
  ASSUME LogTypeOK, LeaseTypeOK, NEW l \in LeaseIds, NEW o \in Owners, NEW k \in Scopes,
         Issue(l, o, k)
  PROVE  LogTypeOK' /\ LeaseTypeOK'
<1>1. LogTypeOK'
  BY AppendType, LinesAreLines DEF Issue
<1>2. LeaseTypeOK'
  BY DEF Issue, LeaseTypeOK, Lease, NoLease
<1>3. QED
  BY <1>1, <1>2

LEMMA DropType ==
  ASSUME LogTypeOK, LeaseTypeOK, NEW l \in LeaseIds, Drop(l)
  PROVE  LogTypeOK' /\ LeaseTypeOK'
<1>1. CASE Active(l) /\ TryAppend(LeaseReleased(l))
           /\ scopes' = [scopes EXCEPT ![leases[l].scope] = None]
           /\ leases' = [leases EXCEPT ![l] = NoLease]
           /\ UNCHANGED used
  BY <1>1, AppendType, LinesAreLines DEF LeaseTypeOK
<1>2. CASE UNCHANGED <<leaseVars, logVars>>
  BY <1>2 DEF leaseVars, logVars, LeaseTypeOK, LogTypeOK
<1>3. QED
  BY <1>1, <1>2 DEF Drop

LEMMA ReplayLeaseType ==
  ASSUME LeaseTypeOK, NEW e \in Line, ReplayLeaseLine(e), UNCHANGED used
  PROVE  LeaseTypeOK'
<1>1. CASE e.type = "lease_issued"
  BY <1>1, LineFields DEF ReplayLeaseLine, LeaseTypeOK, Lease, NoLease
<1>2. CASE e.type # "lease_issued"
  BY <1>2, LineFields DEF ReplayLeaseLine, LeaseTypeOK
<1>3. QED
  BY <1>1, <1>2

LEMMA BumpedType ==
  ASSUME ClockTypeOK, NEW P
  PROVE  Bumped(P) \in [Paths -> Nat]
BY DEF ClockTypeOK, Bumped

\* Steps that touch neither the log nor the lease table nor the clocks.
LEMMA SameComponents ==
  ASSUME LogTypeOK, LeaseTypeOK, ClockTypeOK, UNCHANGED <<logVars, leaseVars, clocks>>
  PROVE  LogTypeOK' /\ LeaseTypeOK' /\ ClockTypeOK'
<1>1. LogTypeOK'
  BY Zenon DEF LogTypeOK, logVars
<1>2. LeaseTypeOK' /\ ClockTypeOK'
  BY DEF LeaseTypeOK, ClockTypeOK, leaseVars
<1>3. QED
  BY <1>1, <1>2

LEMMA TypeInit == Init => TypeOK
<1> SUFFICES ASSUME Init PROVE TypeOK
  OBVIOUS
<1>1. LogTypeOK
  <2>1. openLine \in BOOLEAN /\ ~openLine
    BY Zenon DEF Init, LogInit
  <2>2. log \in Seq(Line) /\ faults \in 0 .. MaxFaults
    BY EmptySeq DEF Init, LogInit
  <2>3. QED
    BY <2>1, <2>2, Zenon DEF LogTypeOK
<1>2. LeaseTypeOK /\ ClockTypeOK
  BY DEF Init, EmptyTable, ZeroClocks, LeaseTypeOK, ClockTypeOK
<1>3. ServerTypeOK /\ WorkOK
  BY DEF Init, ServerTypeOK, WorkOK, Stages
<1>4. QED
  BY <1>1, <1>2, <1>3 DEF TypeOK

LEMMA TypeStep == TypeOK /\ [Next]_vars => TypeOK'
<1> SUFFICES ASSUME TypeOK, [Next]_vars PROVE TypeOK'
  OBVIOUS
<1> USE DEF TypeOK, ServerTypeOK, WorkOK, Stages, Goto
<1>1. CASE ReplayLine
  <2>1. log[pos + 1] \in Line
    BY <1>1, LogLine DEF ReplayLine, LogTypeOK
  <2>2. LeaseTypeOK'
    BY <1>1, <2>1, ReplayLeaseType DEF ReplayLine
  <2>3. ClockTypeOK'
    BY <1>1, BumpedType DEF ReplayLine, ReplayClockLine, ClockTypeOK
  <2>4. LogTypeOK' /\ ServerTypeOK' /\ WorkOK'
    BY <1>1 DEF ReplayLine, LogTypeOK, logVars, clientVars, bounds
  <2>5. QED
    BY <2>2, <2>3, <2>4
<1>2. CASE Serve
  <2>1. Len(log) \in Nat
    BY LenProperties DEF LogTypeOK
  <2>2. LogTypeOK' /\ LeaseTypeOK' /\ ClockTypeOK'
    BY <1>2, SameComponents DEF Serve
  <2>3. ServerTypeOK' /\ WorkOK'
    BY <1>2, <2>1 DEF Serve, clientVars, bounds
  <2>4. QED
    BY <2>2, <2>3
<1>3. CASE Crash
  <2>1. LogTypeOK' /\ LeaseTypeOK' /\ ClockTypeOK'
    BY <1>3 DEF Crash, LogTypeOK, LeaseTypeOK, ClockTypeOK, logVars, NoLease
  <2>2. ServerTypeOK' /\ WorkOK'
    BY <1>3 DEF Crash
  <2>3. QED
    BY <2>1, <2>2
<1>4. CASE GetClocks
  <2>1. LogTypeOK' /\ LeaseTypeOK' /\ ClockTypeOK'
    BY <1>4, SameComponents DEF GetClocks
  <2>2. ServerTypeOK' /\ WorkOK'
    BY <1>4 DEF GetClocks, bounds, ClockTypeOK
  <2>3. QED
    BY <2>1, <2>2
<1>5. ASSUME NEW c \in Clients, ClientSends(c) PROVE TypeOK'
  <2>1. LogTypeOK' /\ LeaseTypeOK' /\ ClockTypeOK'
    BY <1>5, SameComponents DEF ClientSends, SendAcquire, SendRelease, SendFileClockInc,
                                SendEvent, SendUnlogged, Send
  <2>2. CASE SendAcquire(c)
    BY <2>1, <2>2 DEF SendAcquire, Send
  <2>3. CASE SendRelease(c)
    BY <2>1, <2>3 DEF SendRelease, Send
  <2>4. CASE SendFileClockInc(c)
    BY <2>1, <2>4 DEF SendFileClockInc, Send
  <2>5. CASE SendEvent(c) \/ SendUnlogged(c)
    BY <2>1, <2>5 DEF SendEvent, SendUnlogged, Send
  <2>6. QED
    BY <1>5, <2>2, <2>3, <2>4, <2>5 DEF ClientSends
<1>6. ASSUME NEW c \in Clients, Lock(c) PROVE TypeOK'
  <2>1. LogTypeOK' /\ LeaseTypeOK' /\ ClockTypeOK'
    BY <1>6, SameComponents DEF Lock
  <2>2. QED
    BY <1>6, <2>1 DEF Lock, bounds
<1>7. ASSUME NEW c \in Clients, AcquireScope(c) PROVE TypeOK'
  <2>1. PICK k \in todo[c] :
          /\ todo' = [todo EXCEPT ![c] = @ \ {k}]
          /\ \/ UNCHANGED <<logVars, leaseVars, got>>
             \/ /\ OwnerHoldsScope(OwnerOf[c], k)
                /\ got' = [got EXCEPT ![c] = @ \cup {scopes[k]}]
                /\ UNCHANGED <<logVars, leaseVars>>
             \/ \E l \in LeaseIds : /\ Issue(l, OwnerOf[c], k)
                                    /\ got' = [got EXCEPT ![c] = @ \cup {l}]
    BY <1>7 DEF AcquireScope
  <2>2. k \in Scopes /\ OwnerOf[c] \in Owners
    BY <1>7, <2>1 DEF AcquireScope
  <2>3. ClockTypeOK'
    BY <1>7 DEF AcquireScope, ClockTypeOK
  <2>4. LogTypeOK' /\ LeaseTypeOK'
    BY <2>1, <2>2, <2>3, IssueType, SameComponents, <1>7 DEF AcquireScope
  <2>5. got' \in [Clients -> SUBSET LeaseIds]
    BY <2>1, <2>2 DEF OwnerHoldsScope, LeaseTypeOK
  <2>6. ServerTypeOK' /\ WorkOK'
    BY <1>7, <2>1, <2>5 DEF AcquireScope, bounds
  <2>7. QED
    BY <2>3, <2>4, <2>6
<1>8. ASSUME NEW c \in Clients, ReleaseId(c) PROVE TypeOK'
  <2>1. PICK l \in todo[c] : todo' = [todo EXCEPT ![c] = @ \ {l}] /\ Drop(l)
    BY <1>8 DEF ReleaseId
  <2>2. l \in LeaseIds
    BY <1>8, <2>1 DEF ReleaseId
  <2>3. LogTypeOK' /\ LeaseTypeOK' /\ ClockTypeOK'
    BY <1>8, <2>1, <2>2, DropType DEF ReleaseId, ClockTypeOK
  <2>4. QED
    BY <1>8, <2>1, <2>3 DEF ReleaseId, bounds
<1>9. ASSUME NEW c \in Clients, Unlock(c) PROVE TypeOK'
  <2>1. LogTypeOK' /\ LeaseTypeOK' /\ ClockTypeOK'
    BY <1>9, SameComponents DEF Unlock
  <2>2. QED
    BY <1>9, <2>1 DEF Unlock, bounds
<1>10. ASSUME NEW c \in Clients, IncFileClock(c) PROVE TypeOK'
  <2>1. todo[c] \in SUBSET Paths
    BY <1>10 DEF IncFileClock
  <2>2. LogTypeOK'
    BY <1>10, <2>1, AppendType, LinesAreLines
       DEF IncFileClock, Increment, IncrementFails, TryAppend
  <2>3. ClockTypeOK'
    BY <1>10, BumpedType DEF IncFileClock, Increment, IncrementFails, ClockTypeOK
  <2>4. LeaseTypeOK'
    BY <1>10 DEF IncFileClock, LeaseTypeOK, leaseVars
  <2>5. QED
    BY <1>10, <2>2, <2>3, <2>4 DEF IncFileClock, bounds
<1>11. ASSUME NEW c \in Clients, ReplyClocks(c) PROVE TypeOK'
  <2>1. LogTypeOK' /\ LeaseTypeOK' /\ ClockTypeOK'
    BY <1>11, SameComponents DEF ReplyClocks
  <2>2. QED
    BY <1>11, <2>1 DEF ReplyClocks, bounds, ClockTypeOK
<1>12. ASSUME NEW c \in Clients, AppendEvent(c) PROVE TypeOK'
  <2>1. LogTypeOK'
    BY <1>12, AppendType, LinesAreLines DEF AppendEvent, TryAppend
  <2>2. LeaseTypeOK' /\ ClockTypeOK'
    BY <1>12 DEF AppendEvent, LeaseTypeOK, ClockTypeOK, leaseVars
  <2>3. QED
    BY <1>12, <2>1, <2>2 DEF AppendEvent, bounds
<1>13. ASSUME NEW c \in Clients, Reply(c) PROVE TypeOK'
  <2>1. LogTypeOK' /\ LeaseTypeOK' /\ ClockTypeOK'
    BY <1>13, SameComponents DEF Reply
  <2>2. QED
    BY <1>13, <2>1 DEF Reply, bounds
<1>14. CASE UNCHANGED vars
  <2>1. LogTypeOK' /\ LeaseTypeOK' /\ ClockTypeOK'
    BY <1>14, SameComponents DEF vars
  <2>2. QED
    BY <1>14, <2>1 DEF vars, clientVars, bounds
<1>15. QED
  BY <1>1, <1>2, <1>3, <1>4, <1>5, <1>6, <1>7, <1>8, <1>9, <1>10, <1>11, <1>12, <1>13, <1>14
     DEF Next, Handler

\* Every variable of the daemon keeps its type, and a request in a handler
\* carries what that handler expects.
THEOREM TypeCorrect == Spec => []TypeOK
<1>1. QED
  BY TypeInit, TypeStep, PTL DEF Spec
-----------------------------------------------------------------------------
(* The lease properties that hold whatever writes fail, from LeaseInv. *)

-----------------------------------------------------------------------------
(* What an append does to the lines of the log. *)

\* Every line after an append is an old line, the new event, or what is left
\* of a torn line.
LEMMA AppendedLines ==
  ASSUME LogTypeOK, NEW e \in Line, TryAppend(e)
  PROVE  /\ Len(log) \in Nat /\ Len(log') \in Nat /\ Len(log) <= Len(log')
         /\ \A i \in 1 .. Len(log') :
              \/ log'[i] = Malformed
              \/ i \in 1 .. Len(log) /\ log'[i] = log[i]
              \/ i = Len(log) + 1 /\ log'[i] = e
<1> DEFINE Appended(x, L) ==
      /\ Len(log) <= Len(L)
      /\ \A i \in 1 .. Len(L) :
           \/ L[i] = Malformed
           \/ i \in 1 .. Len(log) /\ L[i] = log[i]
           \/ i = Len(log) + 1 /\ L[i] = x
<1>1. Len(log) \in Nat /\ log' \in Seq(Line) /\ Len(log') \in Nat
  BY AppendType, LenProperties DEF LogTypeOK
<1>2. ASSUME NEW x \in Line PROVE Appended(x, Extended(x))
  <2>1. Len(Extended(x)) \in Nat
    BY ExtendedLog, LenProperties
  <2>2. CASE openLine
    BY <1>1, <2>1, <2>2, ExtendedLog
  <2>3. CASE ~openLine
    BY <1>1, <2>1, <2>3, ExtendedLog
  <2>4. QED
    BY <2>2, <2>3
<1>3. Appended(e, Extended(e)) /\ Appended(Malformed, Extended(Malformed)) /\ Appended(e, log)
  BY <1>1, <1>2, LinesAreLines
<1>4. log' \in {log, Extended(e), Extended(Malformed)}
  BY DEF TryAppend, Written, WriteFails
<1>5. Appended(e, log')
  <2>1. Appended(e, Extended(Malformed))
    BY <1>3
  <2>2. QED
    BY <1>3, <1>4, <2>1
<1>6. QED
  BY <1>1, <1>5

\* A line that has its newline survives an append unchanged.
LEMMA AppendKeeps ==
  ASSUME LogTypeOK, NEW e \in Line, TryAppend(e)
  PROVE  LinesStay
<1>1. Len(log) \in Nat
  BY LenProperties DEF LogTypeOK
<1>2. log' \in {log, Extended(e), Extended(Malformed)}
  BY DEF TryAppend, Written, WriteFails
<1>3. ASSUME NEW l \in {e, Malformed}, NEW i \in 1 .. Len(log), i < Len(log) \/ ~openLine
      PROVE  i <= Len(Extended(l)) /\ Extended(l)[i] = log[i]
  <2>1. l \in Line
    BY LinesAreLines
  <2>2. CASE openLine
    BY <1>1, <1>3, <2>1, <2>2, ExtendedLog
  <2>3. CASE ~openLine
    BY <1>1, <2>1, <2>3, ExtendedLog
  <2>4. QED
    BY <2>2, <2>3
<1>4. QED
  BY <1>1, <1>2, <1>3 DEF LinesStay

\* Appending anything but an issue leaves the issues of the log alone.
LEMMA SameIssues ==
  ASSUME LogTypeOK, NEW e \in Line, e.type # "lease_issued", TryAppend(e)
  PROVE  /\ Len(log) \in Nat /\ Len(log') \in Nat /\ Len(log) <= Len(log')
         /\ \A i : Issued(i)' => Issued(i) /\ log'[i] = log[i]
<1>1. Malformed.type # "lease_issued"
  BY DEF Malformed, Blank
<1>2. QED
  BY <1>1, AppendedLines DEF Issued

\* Appending an issue leaves the earlier issues of the log alone.
LEMMA NewIssue ==
  ASSUME LogTypeOK, NEW e \in Line, TryAppend(e)
  PROVE  /\ Len(log) \in Nat /\ Len(log') \in Nat /\ Len(log) <= Len(log')
         /\ \A i : Issued(i)' =>
              \/ Issued(i) /\ log'[i] = log[i]
              \/ i = Len(log) + 1 /\ log'[i] = e
<1>1. Malformed.type # "lease_issued"
  BY DEF Malformed, Blank
<1>2. QED
  BY <1>1, AppendedLines DEF Issued

-----------------------------------------------------------------------------
(* LeaseInv, one lemma per kind of step. *)

LeaseParts ==
  /\ IssuedOnce /\ IssuedUsed /\ ActiveUsed /\ BootPrefix
  /\ IndexedLeaseExists /\ IssueMatches /\ ToldOwned

NoNewIssue ==
  /\ Len(log) \in Nat /\ Len(log') \in Nat /\ Len(log) <= Len(log')
  /\ \A i : Issued(i)' => Issued(i) /\ log'[i] = log[i]

LEMMA SameLog ==
  ASSUME LogTypeOK, UNCHANGED logVars
  PROVE  NoNewIssue
BY LenProperties DEF LogTypeOK, logVars, NoNewIssue, Issued

LEMMA LoggedOther ==
  ASSUME LogTypeOK, NEW e \in Line, e.type # "lease_issued", TryAppend(e)
  PROVE  NoNewIssue
BY SameIssues DEF NoNewIssue

\* A step that leaves the table alone and issues nothing.
LEMMA QuietStep ==
  ASSUME LeaseParts, pos \in Nat, NoNewIssue, UNCHANGED <<leaseVars, phase, pos>>,
         phase = "up" \/ log' = log,
         \A c \in Clients : Told(c)' \subseteq Told(c)
  PROVE  LeaseParts'
<1> USE DEF LeaseParts, NoNewIssue, leaseVars, Active
<1>1. IssuedOnce' /\ IssuedUsed'
  BY DEF IssuedOnce, IssuedUsed, Issued
<1>2. ActiveUsed' /\ IndexedLeaseExists'
  BY DEF ActiveUsed, IndexedLeaseExists
<1>3. BootPrefix'
  <2>1. pos' <= Len(log')
    BY DEF BootPrefix
  <2>2. ASSUME phase' = "boot", NEW l \in LeaseIds, Active(l)'
        PROVE  \E i \in 1 .. pos' : Issued(i)' /\ log'[i].id = l
    BY <2>2 DEF BootPrefix, Issued
  <2>3. QED
    BY <2>1, <2>2 DEF BootPrefix
<1>4. IssueMatches'
  BY DEF IssueMatches, Issued
<1>5. ToldOwned'
  BY DEF ToldOwned, Issued
<1>6. QED
  BY <1>1, <1>2, <1>3, <1>4, <1>5

\* Acquire's fresh id names a lease that nothing has mentioned yet.
LEMMA IssueStep ==
  ASSUME TypeOK, LeaseParts, phase = "up", NEW l \in LeaseIds, NEW k \in Scopes,
         NEW c \in Clients, Issue(l, OwnerOf[c], k), UNCHANGED <<phase, pos, known>>,
         got' = [got EXCEPT ![c] = @ \cup {l}]
  PROVE  LeaseParts'
<1> DEFINE e == LeaseIssued(l, OwnerOf[c], k)
<1> USE DEF Issue, NoLease
<1>1. /\ e \in Line /\ e.type = "lease_issued" /\ e.id = l
      /\ e.owner = OwnerOf[c] /\ e.scope = k
  BY LinesAreLines DEF LeaseIssued
<1>0. LogTypeOK /\ TryAppend(e)
  BY DEF TypeOK
<1> HIDE DEF e
<1>2. /\ Len(log) \in Nat /\ Len(log') \in Nat /\ Len(log) <= Len(log')
      /\ \A i : Issued(i)' =>
           \/ Issued(i) /\ log'[i] = log[i]
           \/ i = Len(log) + 1 /\ log'[i] = e
  BY <1>0, <1>1, NewIssue
<1>3. ~Active(l) /\ \A i : Issued(i) => log[i].id # l
  BY DEF LeaseParts, IssuedUsed, ActiveUsed, Issued
<1>4. /\ leases' = [leases EXCEPT ![l] = [owner |-> OwnerOf[c], scope |-> k]]
      /\ scopes' = [scopes EXCEPT ![k] = l] /\ used' = used \cup {l}
      /\ leases \in [LeaseIds -> Lease \cup {NoLease}]
      /\ scopes \in [Scopes -> LeaseIds \cup {None}]
  BY DEF TypeOK, LeaseTypeOK
<1>5. /\ IssuedOnce /\ IssuedUsed /\ ActiveUsed /\ BootPrefix
      /\ IndexedLeaseExists /\ IssueMatches /\ ToldOwned
  BY DEF LeaseParts
<1>6. IssuedOnce'
  BY <1>1, <1>2, <1>3, <1>5 DEF IssuedOnce, Issued
<1>7. IssuedUsed' /\ ActiveUsed'
  BY <1>1, <1>2, <1>4, <1>5 DEF IssuedUsed, ActiveUsed, Active, Issued
<1>8. BootPrefix'
  BY <1>2, <1>5 DEF BootPrefix, TypeOK, ServerTypeOK
<1>9. IndexedLeaseExists'
  <2>1. \A k2 \in Scopes : k2 # k /\ scopes[k2] # None => scopes[k2] # l
    BY <1>3, <1>5 DEF IndexedLeaseExists, Active
  <2>2. QED
    BY <1>4, <1>5, <2>1 DEF IndexedLeaseExists
<1>10. IssueMatches'
  BY <1>1, <1>2, <1>3, <1>4, <1>5 DEF IssueMatches, Active, Issued
<1>11. ToldOwned'
  <2>1. ASSUME NEW d \in Clients, NEW m \in Told(d)'
        PROVE  m \in Told(d) \/ (m = l /\ d = c)
    BY DEF Told, TypeOK, ServerTypeOK
  <2>2. ASSUME NEW d \in Clients, NEW m \in Told(d), m # l
        PROVE  /\ m \in used'
               /\ Active(m)' => leases'[m].owner = OwnerOf[d]
               /\ \A i \in 1 .. Len(log') : Issued(i)' /\ log'[i].id = m => log'[i].owner = OwnerOf[d]
    BY <1>1, <1>2, <1>4, <1>5, <2>2 DEF ToldOwned, Active, Issued
  <2>3. /\ l \in used' /\ leases'[l].owner = OwnerOf[c]
        /\ \A i \in 1 .. Len(log') : Issued(i)' /\ log'[i].id = l => log'[i].owner = OwnerOf[c]
    BY <1>1, <1>2, <1>3, <1>4
  <2>4. \A d \in Clients : l \notin Told(d)
    BY <1>5 DEF ToldOwned
  <2>5. QED
    BY <2>1, <2>2, <2>3, <2>4 DEF ToldOwned
<1>12. QED
  BY <1>6, <1>7, <1>8, <1>9, <1>10, <1>11 DEF LeaseParts

\* Release clears the scope of the lease it takes out.
LEMMA DropStep ==
  ASSUME TypeOK, LeaseParts, phase = "up", NEW l \in LeaseIds, Drop(l),
         UNCHANGED <<phase, pos, known, got>>
  PROVE  LeaseParts'
<1> USE DEF NoLease
<1>1. CASE UNCHANGED <<leaseVars, logVars>>
  BY <1>1, SameLog, QuietStep DEF TypeOK, ServerTypeOK, Told
<1>2. CASE /\ Active(l) /\ TryAppend(LeaseReleased(l))
           /\ scopes' = [scopes EXCEPT ![leases[l].scope] = None]
           /\ leases' = [leases EXCEPT ![l] = NoLease]
           /\ UNCHANGED used
  <2>1. NoNewIssue
    BY <1>2, LinesAreLines, LoggedOther DEF LeaseReleased, TypeOK
  <2>2. /\ IssuedOnce /\ IssuedUsed /\ ActiveUsed /\ BootPrefix
        /\ IndexedLeaseExists /\ IssueMatches /\ ToldOwned
    BY DEF LeaseParts
  <2>3. /\ leases \in [LeaseIds -> Lease \cup {NoLease}]
        /\ scopes \in [Scopes -> LeaseIds \cup {None}] /\ pos \in Nat
    BY DEF TypeOK, LeaseTypeOK, ServerTypeOK
  <2>4. \A m \in LeaseIds : Active(m)' => Active(m) /\ leases'[m] = leases[m] /\ m # l
    BY <1>2, <2>3 DEF Active
  <2>5. IssuedOnce' /\ IssuedUsed'
    BY <1>2, <2>1, <2>2 DEF IssuedOnce, IssuedUsed, NoNewIssue, Issued
  <2>6. ActiveUsed' /\ BootPrefix'
    BY <1>2, <2>1, <2>2, <2>3, <2>4 DEF ActiveUsed, BootPrefix, NoNewIssue
  <2>7. IndexedLeaseExists'
    <3>1. \A k \in Scopes : scopes'[k] # None => scopes'[k] = scopes[k] /\ scopes[k] # l
      BY <1>2, <2>2, <2>3 DEF IndexedLeaseExists, Active, Lease
    <3>2. QED
      BY <1>2, <2>2, <2>3, <3>1 DEF IndexedLeaseExists
  <2>8. IssueMatches'
    <3>1. \A i \in 1 .. Len(log') : Issued(i)' => log'[i].id \in LeaseIds
      BY <2>1, LogLine, LineFields DEF NoNewIssue, Issued, TypeOK
    <3>2. QED
      BY <2>1, <2>2, <2>4, <3>1 DEF IssueMatches, NoNewIssue, Issued
  <2>9. ToldOwned'
    <3>1. \A d \in Clients : Told(d)' = Told(d) /\ Told(d) \subseteq LeaseIds
      BY DEF Told, TypeOK, ServerTypeOK
    <3>2. QED
      BY <1>2, <2>1, <2>2, <2>4, <3>1 DEF ToldOwned, NoNewIssue, Issued
  <2>10. QED
    BY <2>5, <2>6, <2>7, <2>8, <2>9 DEF LeaseParts
<1>3. QED
  BY <1>1, <1>2 DEF Drop

\* The replay of one more line.
LEMMA ReplayStep ==
  ASSUME TypeOK, LeaseParts, ReplayLine
  PROVE  LeaseParts'
<1> DEFINE e == log[pos + 1]
<1> USE DEF ReplayLine, NoLease
<1>1. /\ IssuedOnce /\ IssuedUsed /\ ActiveUsed /\ BootPrefix
      /\ IndexedLeaseExists /\ IssueMatches /\ ToldOwned
  BY DEF LeaseParts
<1>2. /\ Len(log) \in Nat /\ pos \in Nat /\ pos < Len(log) /\ phase = "boot"
      /\ log' = log /\ pos' = pos + 1 /\ UNCHANGED <<phase, used, known, got>>
      /\ leases \in [LeaseIds -> Lease \cup {NoLease}]
      /\ scopes \in [Scopes -> LeaseIds \cup {None}]
  BY LenProperties DEF TypeOK, LogTypeOK, LeaseTypeOK, ServerTypeOK, logVars, clientVars
<1>3. e \in Line /\ pos + 1 \in 1 .. Len(log)
  BY <1>2, LogLine DEF TypeOK
<1>4. IssuedOnce' /\ IssuedUsed'
  BY <1>1, <1>2 DEF IssuedOnce, IssuedUsed, Issued
<1>5. \A d \in Clients : Told(d)' = Told(d) /\ Told(d) \subseteq LeaseIds
  BY <1>2 DEF Told, TypeOK, ServerTypeOK
<1>6. CASE e.type = "lease_issued"
  <2>1. /\ leases' = [leases EXCEPT ![e.id] = [owner |-> e.owner, scope |-> e.scope]]
        /\ scopes' = [scopes EXCEPT ![e.scope] = e.id]
        /\ e.id \in LeaseIds /\ e.owner \in Owners /\ e.scope \in Scopes
    BY <1>3, <1>6, LineFields DEF ReplayLeaseLine
  <2>2. Issued(pos + 1)
    BY <1>3, <1>6 DEF Issued
  <2>3. ~Active(e.id)
    BY <1>1, <1>2, <1>3, <2>1, <2>2 DEF BootPrefix, IssuedOnce, Issued
  <2>4. ActiveUsed' /\ BootPrefix'
    <3>1. \A m \in LeaseIds : Active(m)' => Active(m) \/ m = e.id
      BY <1>2, <2>1 DEF Active
    <3>2. ActiveUsed'
      BY <1>1, <1>2, <1>3, <2>2, <3>1 DEF ActiveUsed, IssuedUsed
    <3>3. ASSUME NEW m \in LeaseIds, Active(m)'
          PROVE  \E i \in 1 .. pos + 1 : Issued(i)' /\ log[i].id = m
      BY <1>1, <1>2, <1>3, <2>2, <3>1, <3>3 DEF BootPrefix, Issued
    <3>4. QED
      BY <1>2, <3>2, <3>3 DEF BootPrefix
  <2>5. IndexedLeaseExists'
    <3>1. \A k \in Scopes : scopes[k] # None => scopes[k] # e.id
      BY <1>1, <2>3 DEF IndexedLeaseExists, Active
    <3>2. QED
      BY <1>1, <1>2, <2>1, <3>1 DEF IndexedLeaseExists
  <2>6. IssueMatches'
    BY <1>1, <1>2, <1>3, <2>1, <2>2 DEF IssueMatches, IssuedOnce, Active, Issued
  <2>7. ToldOwned'
    BY <1>1, <1>2, <1>3, <1>5, <2>1, <2>2 DEF ToldOwned, Active, Issued
  <2>8. QED
    BY <1>4, <2>4, <2>5, <2>6, <2>7 DEF LeaseParts
<1>7. CASE e.type = "lease_released" /\ Active(e.id)
  <2>1. /\ scopes' = [scopes EXCEPT ![leases[e.id].scope] = None]
        /\ leases' = [leases EXCEPT ![e.id] = NoLease]
        /\ e.id \in LeaseIds
    BY <1>3, <1>7, LineFields DEF ReplayLeaseLine
  <2>2. \A m \in LeaseIds : Active(m)' => Active(m) /\ leases'[m] = leases[m] /\ m # e.id
    BY <1>2, <2>1 DEF Active
  <2>3. ActiveUsed' /\ BootPrefix'
    BY <1>1, <1>2, <2>2 DEF ActiveUsed, BootPrefix, Issued
  <2>4. IndexedLeaseExists'
    <3>1. \A k \in Scopes : scopes'[k] # None => scopes'[k] = scopes[k] /\ scopes[k] # e.id
      BY <1>1, <1>2, <2>1 DEF IndexedLeaseExists, Lease
    <3>2. QED
      BY <1>1, <1>2, <2>1, <3>1 DEF IndexedLeaseExists
  <2>5. IssueMatches'
    <3>1. \A i \in 1 .. Len(log) : Issued(i) => log[i].id \in LeaseIds
      BY LogLine, LineFields DEF Issued, TypeOK
    <3>2. QED
      BY <1>1, <1>2, <2>2, <3>1 DEF IssueMatches, Issued
  <2>6. ToldOwned'
    BY <1>1, <1>2, <1>5, <2>2 DEF ToldOwned, Issued
  <2>7. QED
    BY <1>4, <2>3, <2>4, <2>5, <2>6 DEF LeaseParts
<1>8. CASE UNCHANGED <<leases, scopes>>
  <2>1. ActiveUsed' /\ BootPrefix' /\ IndexedLeaseExists'
    BY <1>1, <1>2, <1>8 DEF ActiveUsed, BootPrefix, IndexedLeaseExists, Active, Issued
  <2>2. IssueMatches' /\ ToldOwned'
    BY <1>1, <1>2, <1>5, <1>8 DEF IssueMatches, ToldOwned, Active, Issued
  <2>3. QED
    BY <1>4, <2>1, <2>2 DEF LeaseParts
<1>9. QED
  BY <1>6, <1>7, <1>8 DEF ReplayLeaseLine

\* Reply and the other steps that neither write the log nor touch the table.
LEMMA LocalStep ==
  ASSUME TypeOK, LeaseParts, UNCHANGED <<logVars, leaseVars, phase, pos>>,
         \A c \in Clients : Told(c)' \subseteq Told(c)
  PROVE  LeaseParts'
BY SameLog, QuietStep DEF TypeOK, ServerTypeOK, logVars

\* Acquire on a scope its owner already holds returns the lease it has.
LEMMA FoundStep ==
  ASSUME TypeOK, LeaseParts, UNCHANGED <<logVars, leaseVars, phase, pos, known>>,
         NEW c \in Clients, NEW k \in Scopes, OwnerHoldsScope(OwnerOf[c], k),
         got' = [got EXCEPT ![c] = @ \cup {scopes[k]}]
  PROVE  LeaseParts'
<1> DEFINE l == scopes[k]
<1>1. /\ IssuedOnce /\ IssuedUsed /\ ActiveUsed /\ BootPrefix
      /\ IndexedLeaseExists /\ IssueMatches /\ ToldOwned
  BY DEF LeaseParts
<1>2. l \in LeaseIds /\ Active(l) /\ leases[l].owner = OwnerOf[c]
  BY DEF OwnerHoldsScope, TypeOK, LeaseTypeOK
<1>3. UNCHANGED <<log, leases, scopes, used, phase, pos>>
  BY DEF logVars, leaseVars
<1>4. IssuedOnce' /\ IssuedUsed' /\ ActiveUsed' /\ BootPrefix' /\ IndexedLeaseExists' /\ IssueMatches'
  BY <1>1, <1>3 DEF IssuedOnce, IssuedUsed, ActiveUsed, BootPrefix, IndexedLeaseExists,
                    IssueMatches, Issued, Active
<1>5. \A d \in Clients : \A m \in Told(d)' : m \in Told(d) \/ (m = l /\ d = c)
  BY DEF Told, TypeOK, ServerTypeOK
<1> HIDE DEF l
<1>6. /\ l \in used
      /\ \A i \in 1 .. Len(log) : Issued(i) /\ log[i].id = l => log[i].owner = OwnerOf[c]
  <2>1. l \in used
    BY <1>1, <1>2 DEF ActiveUsed
  <2>2. ASSUME NEW i \in 1 .. Len(log), Issued(i), log[i].id = l
        PROVE  log[i].owner = OwnerOf[c]
    <3>1. leases[l] = [owner |-> log[i].owner, scope |-> log[i].scope]
      BY <1>1, <1>2, <2>2 DEF IssueMatches
    <3>2. QED
      BY <1>2, <3>1
  <2>3. QED
    BY <2>1, <2>2
<1>7. ToldOwned'
  BY <1>1, <1>2, <1>3, <1>5, <1>6 DEF ToldOwned, Issued, Active
<1>8. QED
  BY <1>1, <1>4, <1>7 DEF LeaseParts

-----------------------------------------------------------------------------
(* The invariant. *)

LEMMA LeaseInit == Init => LeaseInv
<1> SUFFICES ASSUME Init PROVE LeaseInv
  OBVIOUS
<1>1. TypeOK /\ log = <<>> /\ Len(log) = 0
  BY TypeInit, EmptySeq DEF Init, LogInit
<1>2. /\ leases = [l \in LeaseIds |-> NoLease] /\ scopes = [k \in Scopes |-> None]
      /\ pos = 0
      /\ \A c \in Clients : Told(c) = {} /\ pc[c] = "idle"
  BY DEF Init, EmptyTable, Told
<1>3. QED
  BY <1>1, <1>2 DEF LeaseInv, IssuedOnce, IssuedUsed, ActiveUsed, BootPrefix, Active,
                    IndexedLeaseExists, IssueMatches, ToldOwned, ReleasesKnown, Issued

LEMMA LeaseStep == LeaseInv /\ [Next]_vars => LeaseInv'
<1> SUFFICES ASSUME LeaseInv, [Next]_vars PROVE LeaseInv'
  OBVIOUS
<1>0. TypeOK /\ TypeOK' /\ LeaseParts /\ ReleasesKnown
  BY TypeStep DEF LeaseInv, LeaseParts
<1> SUFFICES LeaseParts' /\ ReleasesKnown'
  BY <1>0 DEF LeaseInv, LeaseParts
<1> USE DEF Goto, clientVars, bounds
<1>t. /\ pc \in [Clients -> Stages] /\ got \in [Clients -> SUBSET LeaseIds]
      /\ known \in [Clients -> SUBSET LeaseIds]
      /\ todo \in [Clients -> SUBSET (Scopes \cup LeaseIds \cup Paths)]
  BY <1>0 DEF TypeOK, ServerTypeOK
<1>1. CASE ReplayLine
  <2>1. ReleasesKnown'
    BY <1>0, <1>1 DEF ReplayLine, ReleasesKnown
  <2>2. QED
    BY <1>0, <1>1, <2>1, ReplayStep
<1>2. CASE Serve
  <2>1. /\ ReleasesKnown' /\ UNCHANGED <<logVars, leaseVars, known, got>>
        /\ phase' = "up" /\ pos' = 0 /\ Len(log) \in Nat
    BY <1>0, <1>2, LenProperties DEF Serve, ReleasesKnown, TypeOK, LogTypeOK
  <2>2. LeaseParts'
    BY <1>0, <2>1 DEF LeaseParts, logVars, leaseVars, IssuedOnce, IssuedUsed, ActiveUsed, BootPrefix,
                      IndexedLeaseExists, IssueMatches, ToldOwned, Told, Issued, Active
  <2>3. QED
    BY <2>1, <2>2
<1>3. CASE Crash
  <2>1. /\ UNCHANGED <<log, used, known>> /\ phase' = "boot" /\ pos' = 0 /\ Len(log) \in Nat
        /\ \A l \in LeaseIds : ~Active(l)'
        /\ \A k \in Scopes : scopes'[k] = None
        /\ \A c \in Clients : pc'[c] = "idle" /\ got'[c] = {}
    BY <1>0, <1>3, LenProperties DEF Crash, logVars, Active, TypeOK, LogTypeOK
  <2>2. \A i \in 1 .. Len(log) : Issued(i) => log[i].id \in LeaseIds
    BY <1>0, LogLine, LineFields DEF Issued, TypeOK
  <2>3. LeaseParts'
    BY <1>0, <1>t, <2>1, <2>2
       DEF LeaseParts, IssuedOnce, IssuedUsed, ActiveUsed, BootPrefix,
           IndexedLeaseExists, IssueMatches, ToldOwned, Told, Issued
  <2>4. QED
    BY <2>1, <2>3 DEF ReleasesKnown
<1>4. CASE GetClocks
  <2>1. UNCHANGED <<logVars, leaseVars, phase, pos, pc, todo, got, known>>
    BY <1>4 DEF GetClocks
  <2>2. QED
    BY <1>0, <2>1, LocalStep DEF Told, ReleasesKnown
<1>5. ASSUME NEW c \in Clients, ClientSends(c) PROVE LeaseParts' /\ ReleasesKnown'
  <2>1. UNCHANGED <<logVars, leaseVars, phase, pos, got, known>>
    BY <1>5 DEF ClientSends, SendAcquire, SendRelease, SendFileClockInc, SendEvent,
                SendUnlogged, Send
  <2>2. LeaseParts'
    BY <1>0, <2>1, LocalStep DEF Told
  <2>3. pc'[c] = "release" => todo'[c] \subseteq known[c]
    BY <1>5, <1>t DEF ClientSends, SendAcquire, SendRelease, SendFileClockInc, SendEvent,
                SendUnlogged, Send
  <2>4. pc'[c] # "releasing" /\ \A d \in Clients \ {c} : pc'[d] = pc[d] /\ todo'[d] = todo[d]
    BY <1>5, <1>t DEF ClientSends, SendAcquire, SendRelease, SendFileClockInc, SendEvent,
                SendUnlogged, Send
  <2>5. ReleasesKnown'
    BY <1>0, <2>1, <2>3, <2>4 DEF ReleasesKnown
  <2>6. QED
    BY <2>2, <2>5
<1>6. ASSUME NEW c \in Clients, Lock(c) PROVE LeaseParts' /\ ReleasesKnown'
  <2>1. UNCHANGED <<logVars, leaseVars, phase, pos, todo, got, known>>
    BY <1>6 DEF Lock
  <2>2. \A d \in Clients : pc'[d] \in {"release", "releasing"} => pc[d] \in {"release", "releasing"}
    BY <1>6, <1>t DEF Lock
  <2>3. QED
    BY <1>0, <2>1, <2>2, LocalStep DEF Told, ReleasesKnown
<1>7. ASSUME NEW c \in Clients, AcquireScope(c) PROVE LeaseParts' /\ ReleasesKnown'
  <2>1. PICK k \in todo[c] :
          /\ todo' = [todo EXCEPT ![c] = @ \ {k}]
          /\ \/ UNCHANGED <<logVars, leaseVars, got>>
             \/ /\ OwnerHoldsScope(OwnerOf[c], k)
                /\ got' = [got EXCEPT ![c] = @ \cup {scopes[k]}]
                /\ UNCHANGED <<logVars, leaseVars>>
             \/ \E l \in LeaseIds : /\ Issue(l, OwnerOf[c], k)
                                    /\ got' = [got EXCEPT ![c] = @ \cup {l}]
    BY <1>7 DEF AcquireScope
  <2>2. /\ phase = "up" /\ UNCHANGED <<phase, pos, known, pc>> /\ pc[c] = "acquiring"
        /\ k \in Scopes
    BY <1>0, <1>7, <2>1 DEF AcquireScope, TypeOK, WorkOK
  <2>3. ReleasesKnown'
    BY <1>0, <1>t, <2>1, <2>2 DEF ReleasesKnown
  <2>4. CASE UNCHANGED <<logVars, leaseVars, got>>
    BY <1>0, <2>2, <2>3, <2>4, LocalStep DEF Told
  <2>5. CASE /\ OwnerHoldsScope(OwnerOf[c], k)
             /\ got' = [got EXCEPT ![c] = @ \cup {scopes[k]}]
             /\ UNCHANGED <<logVars, leaseVars>>
    BY <1>0, <1>t, <2>2, <2>3, <2>5, FoundStep
  <2>6. ASSUME NEW l \in LeaseIds, Issue(l, OwnerOf[c], k), got' = [got EXCEPT ![c] = @ \cup {l}]
        PROVE  LeaseParts'
    BY <1>0, <2>2, <2>6, IssueStep
  <2>7. QED
    BY <2>1, <2>3, <2>4, <2>5, <2>6
<1>8. ASSUME NEW c \in Clients, ReleaseId(c) PROVE LeaseParts' /\ ReleasesKnown'
  <2>1. PICK l \in todo[c] : todo' = [todo EXCEPT ![c] = @ \ {l}] /\ Drop(l)
    BY <1>8 DEF ReleaseId
  <2>2. /\ phase = "up" /\ UNCHANGED <<phase, pos, known, got, pc>> /\ l \in LeaseIds
    BY <1>0, <1>8, <2>1 DEF ReleaseId, TypeOK, WorkOK
  <2>3. ReleasesKnown'
    BY <1>0, <1>t, <2>1, <2>2 DEF ReleasesKnown
  <2>4. QED
    BY <1>0, <2>1, <2>2, <2>3, DropStep
<1>9. ASSUME NEW c \in Clients, Unlock(c) PROVE LeaseParts' /\ ReleasesKnown'
  <2>1. UNCHANGED <<logVars, leaseVars, phase, pos, todo, got, known>>
        /\ pc' = [pc EXCEPT ![c] = "done"]
    BY <1>9 DEF Unlock
  <2>2. QED
    BY <1>0, <1>t, <2>1, LocalStep DEF Told, ReleasesKnown
<1>10. ASSUME NEW c \in Clients, IncFileClock(c) PROVE LeaseParts' /\ ReleasesKnown'
  <2>1. /\ UNCHANGED <<leaseVars, phase, pos, got, known>> /\ phase = "up" /\ pc[c] = "inc"
        /\ todo[c] \subseteq Paths
    BY <1>0, <1>10 DEF IncFileClock, TypeOK, WorkOK
  <2>2. NoNewIssue
    BY <1>0, <1>10, <2>1, LinesAreLines, LoggedOther
       DEF IncFileClock, Increment, IncrementFails, TryAppend, FileClockInc, TypeOK
  <2>3. ReleasesKnown'
    BY <1>0, <1>t, <1>10 DEF IncFileClock, ReleasesKnown
  <2>4. QED
    BY <1>0, <2>1, <2>2, <2>3, QuietStep DEF Told, TypeOK, ServerTypeOK
<1>11. ASSUME NEW c \in Clients, ReplyClocks(c) PROVE LeaseParts' /\ ReleasesKnown'
  <2>1. /\ UNCHANGED <<logVars, leaseVars, phase, pos, got, known>>
        /\ pc' = [pc EXCEPT ![c] = "idle"] /\ todo' = [todo EXCEPT ![c] = {}]
    BY <1>11 DEF ReplyClocks
  <2>2. QED
    BY <1>0, <1>t, <2>1, LocalStep DEF Told, ReleasesKnown
<1>12. ASSUME NEW c \in Clients, AppendEvent(c) PROVE LeaseParts' /\ ReleasesKnown'
  <2>1. UNCHANGED <<leaseVars, phase, pos, todo, got, known>> /\ phase = "up"
    BY <1>12 DEF AppendEvent
  <2>2. NoNewIssue
    BY <1>0, <1>12, LinesAreLines, LoggedOther DEF AppendEvent, TryAppend, Other, Blank, TypeOK
  <2>3. ReleasesKnown'
    BY <1>0, <1>t, <1>12, <2>1 DEF AppendEvent, ReleasesKnown
  <2>4. QED
    BY <1>0, <2>1, <2>2, <2>3, QuietStep DEF Told, TypeOK, ServerTypeOK
<1>13. ASSUME NEW c \in Clients, Reply(c) PROVE LeaseParts' /\ ReleasesKnown'
  <2>1. /\ UNCHANGED <<logVars, leaseVars, phase, pos>>
        /\ known' \in {known, [known EXCEPT ![c] = @ \cup got[c]]}
        /\ got' = [got EXCEPT ![c] = {}]
        /\ pc' = [pc EXCEPT ![c] = "idle"] /\ todo' = [todo EXCEPT ![c] = {}]
    BY <1>13 DEF Reply
  <2>2. \A d \in Clients : Told(d)' \subseteq Told(d) /\ known[d] \subseteq known'[d]
    BY <1>t, <2>1 DEF Told
  <2>3. QED
    BY <1>0, <1>t, <2>1, <2>2, LocalStep DEF ReleasesKnown
<1>14. CASE UNCHANGED vars
  <2>1. UNCHANGED <<logVars, leaseVars, phase, pos, pc, todo, got, known>>
    BY <1>14 DEF vars
  <2>2. QED
    BY <1>0, <2>1, LocalStep DEF Told, ReleasesKnown
<1>15. QED
  BY <1>1, <1>2, <1>3, <1>4, <1>5, <1>6, <1>7, <1>8, <1>9, <1>10, <1>11, <1>12, <1>13, <1>14
     DEF Next, Handler

\* The strengthening the two theorems below rest on.
THEOREM LeaseInvariant == Spec => []LeaseInv
<1>1. QED
  BY LeaseInit, LeaseStep, PTL DEF Spec

\* Whatever writes fail, and during the replay of a damaged log too, the index
\* never names a lease the table does not have: leases.go:114-120 never
\* dereferences nil.
THEOREM IndexIsSound == Spec => []IndexedLeaseExists
<1>1. LeaseInv => IndexedLeaseExists
  BY DEF LeaseInv
<1>2. QED
  BY <1>1, LeaseInvariant, PTL

\* A step other than a lease release leaves the leases of a running daemon in
\* the table; a release takes out only leases of its sender's owner.
LEMMA DropsAreOwned == LeaseInv /\ [Next]_vars => OwnersDrop \/ UNCHANGED vars
<1> SUFFICES ASSUME LeaseInv, Next PROVE OwnersDrop
  BY DEF vars
<1>t. /\ TypeOK /\ leases \in [LeaseIds -> Lease \cup {NoLease}] /\ ToldOwned /\ ReleasesKnown
      /\ BootPrefix
  BY DEF LeaseInv, TypeOK, LeaseTypeOK
<1>1. CASE leases' = leases \/ phase' = "boot"
  BY <1>1 DEF OwnersDrop, Active
<1>2. ASSUME NEW c \in Clients, AcquireScope(c) PROVE OwnersDrop
  BY <1>t, <1>2 DEF AcquireScope, Issue, OwnersDrop, Active, NoLease, leaseVars
<1>3. ASSUME NEW c \in Clients, ReleaseId(c) PROVE OwnersDrop
  <2>1. PICK l \in todo[c] : Drop(l)
    BY <1>3 DEF ReleaseId
  <2>2. pc[c] = "releasing" /\ l \in Told(c) /\ l \in LeaseIds
    BY <1>t, <1>3, <2>1 DEF ReleaseId, ReleasesKnown, Told, TypeOK, ServerTypeOK
  <2>3. \A m \in LeaseIds : Active(m) /\ ~Active(m)' => m = l /\ Active(l)
    BY <1>t, <2>1, <2>2 DEF Drop, Active, leaseVars
  <2>4. Active(l) => leases[l].owner = OwnerOf[c]
    BY <1>t, <2>2 DEF ToldOwned
  <2>5. QED
    BY <2>2, <2>3, <2>4 DEF OwnersDrop
<1>4. CASE ReplayLine \/ Serve \/ Crash \/ GetClocks
  BY <1>1, <1>4, <1>t DEF ReplayLine, Serve, Crash, GetClocks, leaseVars, OwnersDrop
<1>5. ASSUME NEW c \in Clients, ClientSends(c) \/ Lock(c) PROVE OwnersDrop
  BY <1>1, <1>5 DEF ClientSends, SendAcquire, SendRelease, SendFileClockInc, SendEvent,
                    SendUnlogged, Send, Lock, leaseVars
<1>6. ASSUME NEW c \in Clients,
             Unlock(c) \/ IncFileClock(c) \/ ReplyClocks(c) \/ AppendEvent(c) \/ Reply(c)
      PROVE OwnersDrop
  BY <1>1, <1>6 DEF Unlock, IncFileClock, ReplyClocks, AppendEvent, Reply, leaseVars
<1>7. QED
  BY <1>2, <1>3, <1>4, <1>5, <1>6 DEF Next, Handler

\* Only a release by a client of its owner takes a lease out of the table of a
\* running daemon, whatever writes fail and however late a release arrives.
THEOREM OwnersDropOnly == Spec => OnlyOwnerDrops
<1>1. LeaseInv /\ [Next]_vars => [OwnersDrop]_vars
  BY DropsAreOwned
<1>2. QED
  BY <1>1, LeaseInvariant, PTL DEF Spec, OnlyOwnerDrops

LEMMA OneInsideStep == TypeOK /\ OneInside /\ [Next]_vars => OneInside'
<1> SUFFICES ASSUME TypeOK, OneInside, [Next]_vars PROVE OneInside'
  OBVIOUS
<1>t. pc \in [Clients -> Stages]
  BY DEF TypeOK, ServerTypeOK
<1>1. CASE ReplayLine \/ Serve \/ GetClocks \/ UNCHANGED vars
  BY <1>1 DEF ReplayLine, Serve, GetClocks, vars, clientVars, OneInside
<1>2. CASE Crash
  BY <1>2 DEF Crash, OneInside
<1>3. ASSUME NEW c \in Clients, Lock(c) PROVE OneInside'
  BY <1>t, <1>3 DEF Lock, Goto, LeasesLocked, OneInside
<1>4. ASSUME NEW c \in Clients, NEW s, Goto(c, s), s \notin {"acquiring", "releasing"}
      PROVE  OneInside'
  BY <1>t, <1>4 DEF Goto, OneInside
<1>5. ASSUME NEW c \in Clients, ClientSends(c) PROVE OneInside'
  <2>1. \E s \in {"acquire", "release", "inc", "event", "done"} : Goto(c, s)
    BY <1>5 DEF ClientSends, SendAcquire, SendRelease, SendFileClockInc, SendEvent,
       SendUnlogged, Send
  <2>2. QED
    BY <1>4, <2>1
<1>6. ASSUME NEW c \in Clients, Handler(c) PROVE OneInside'
  <2>1. CASE AcquireScope(c) \/ ReleaseId(c)
    BY <2>1 DEF AcquireScope, ReleaseId, OneInside
  <2>2. CASE ~AcquireScope(c) /\ ~ReleaseId(c)
    <3>1. \E s \in {"idle", "done", "incremented"} : Goto(c, s)
      BY <1>6, <2>2 DEF Handler, Unlock, IncFileClock, ReplyClocks, AppendEvent, Reply
    <3>2. QED
      BY <1>4, <3>1
  <2>3. QED
    BY <2>1, <2>2
<1>7. QED
  BY <1>1, <1>2, <1>3, <1>5, <1>6 DEF Next

LEMMA WorkLeftType ==
  ASSUME TypeOK, IsFiniteSet(Scopes), IsFiniteSet(LeaseIds), NEW c \in Clients
  PROVE  /\ WorkLeft(c) \in Nat
         /\ pc[c] \in {"acquire", "acquiring", "release", "releasing"} =>
              IsFiniteSet(todo[c]) /\ Cardinality(todo[c]) \in Nat
<1>1. pc[c] \in Stages
  BY DEF TypeOK, ServerTypeOK
<1>2. ASSUME pc[c] \in {"acquire", "acquiring", "release", "releasing"}
      PROVE  IsFiniteSet(todo[c]) /\ Cardinality(todo[c]) \in Nat
  <2>1. todo[c] \subseteq Scopes \/ todo[c] \subseteq LeaseIds
    BY <1>2 DEF TypeOK, WorkOK
  <2>2. QED
    BY <2>1, FS_Subset, FS_CardinalityType
<1>3. QED
  BY <1>1, <1>2 DEF WorkLeft, Stages

LEMMA HandlerWorks ==
  ASSUME TypeOK, IsFiniteSet(Scopes), IsFiniteSet(LeaseIds), NEW c \in Clients,
         Lock(c) \/ Handler(c)
  PROVE  /\ WorkLeft(c)' < WorkLeft(c) /\ WorkLeft(c)' \in Int
         /\ \A d \in Clients \ {c} : pc'[d] = pc[d] /\ todo'[d] = todo[d]
<1>t. /\ pc \in [Clients -> Stages]
      /\ todo \in [Clients -> SUBSET (Scopes \cup LeaseIds \cup Paths)]
  BY DEF TypeOK, ServerTypeOK
<1> USE DEF Goto
<1>1. CASE Lock(c)
  <2>1. /\ \/ pc[c] = "acquire" /\ pc'[c] = "acquiring"
           \/ pc[c] = "release" /\ pc'[c] = "releasing"
        /\ UNCHANGED todo /\ \A d \in Clients \ {c} : pc'[d] = pc[d]
    BY <1>t, <1>1 DEF Lock
  <2>2. Cardinality(todo[c]) \in Nat
    BY <2>1, WorkLeftType
  <2>3. /\ WorkLeft(c) = 3 + Cardinality(todo[c])
        /\ WorkLeft(c)' = 2 + Cardinality(todo[c])
    BY <2>1 DEF WorkLeft
  <2>4. QED
    BY <2>1, <2>2, <2>3
<1>2. CASE AcquireScope(c) \/ ReleaseId(c)
  <2>1. PICK k \in todo[c] : todo' = [todo EXCEPT ![c] = @ \ {k}]
    BY <1>2 DEF AcquireScope, ReleaseId
  <2>2. pc[c] \in {"acquiring", "releasing"} /\ UNCHANGED pc
    BY <1>2 DEF AcquireScope, ReleaseId
  <2>3. /\ todo'[c] = todo[c] \ {k}
        /\ \A d \in Clients \ {c} : pc'[d] = pc[d] /\ todo'[d] = todo[d]
    BY <1>t, <2>1, <2>2
  <2>4. /\ Cardinality(todo[c]) \in Nat
        /\ Cardinality(todo[c] \ {k}) = Cardinality(todo[c]) - 1
    BY <2>2, WorkLeftType, FS_RemoveElement
  <2>5. /\ WorkLeft(c) = 2 + Cardinality(todo[c])
        /\ WorkLeft(c)' = 2 + Cardinality(todo[c] \ {k})
    BY <2>2, <2>3 DEF WorkLeft
  <2>6. QED
    BY <2>3, <2>4, <2>5
<1>3. CASE Unlock(c)
  <2>1. /\ pc[c] \in {"acquiring", "releasing"} /\ pc'[c] = "done" /\ UNCHANGED todo
        /\ \A d \in Clients \ {c} : pc'[d] = pc[d]
    BY <1>t, <1>3 DEF Unlock
  <2>2. Cardinality(todo[c]) \in Nat
    BY <2>1, WorkLeftType
  <2>3. WorkLeft(c) = 2 + Cardinality(todo[c]) /\ WorkLeft(c)' = 1
    BY <2>1 DEF WorkLeft
  <2>4. QED
    BY <2>1, <2>2, <2>3
<1>4. CASE IncFileClock(c) \/ ReplyClocks(c) \/ AppendEvent(c) \/ Reply(c)
  <2>1. \A d \in Clients \ {c} : pc'[d] = pc[d] /\ todo'[d] = todo[d]
    BY <1>t, <1>4 DEF IncFileClock, ReplyClocks, AppendEvent, Reply
  <2>2. \/ pc[c] \in {"inc", "event"} /\ pc'[c] \in {"incremented", "done", "idle"}
        \/ pc[c] \in {"incremented", "done"} /\ pc'[c] = "idle"
    BY <1>t, <1>4 DEF IncFileClock, ReplyClocks, AppendEvent, Reply
  <2>3. QED
    BY <2>1, <2>2 DEF WorkLeft
<1>5. QED
  BY <1>1, <1>2, <1>3, <1>4 DEF Handler

\* Every handler comes nearer its answer with each of its steps, nothing adds to its work
\* once the request was sent, lm.mu has one holder, and the holder's loop always has a next
\* step, since no entry of the index leads nowhere (leases.go:111-137).  This is the part of
\* RequestsEnd that does not speak of fairness.
THEOREM RequestsRunDown ==
  ASSUME IsFiniteSet(Scopes), IsFiniteSet(LeaseIds)
  PROVE  Spec => /\ [](OneInside /\ LoopGoesOn)
                 /\ WorkRunsDown
<1>1. Init => OneInside
  BY DEF Init, OneInside
<1>2. TypeOK /\ IndexedLeaseExists => LoopGoesOn
  <2> SUFFICES ASSUME TypeOK, IndexedLeaseExists, NEW c \in Clients, pc[c] = "acquiring",
                      NEW k \in todo[c], scopes[k] # None
               PROVE  HeldByOther(OwnerOf[c], k) \/ OwnerHoldsScope(OwnerOf[c], k)
    BY DEF LoopGoesOn
  <2>1. k \in Scopes
    BY DEF TypeOK, WorkOK
  <2>2. Active(scopes[k])
    BY <2>1 DEF IndexedLeaseExists, Active, NoLease
  <2>3. QED
    BY <2>2 DEF HeldByOther, OwnerHoldsScope
<1>3. ASSUME TypeOK, [Next]_vars, NEW c \in Clients, pc[c] # "idle"
      PROVE  /\ WorkLeft(c)' <= WorkLeft(c)
             /\ Lock(c) \/ Handler(c) => WorkLeft(c)' < WorkLeft(c)
  <2>1. WorkLeft(c) \in Nat
    BY <1>3, WorkLeftType
  <2>2. CASE Lock(c) \/ Handler(c)
    <3>1. WorkLeft(c)' < WorkLeft(c) /\ WorkLeft(c)' \in Int
      BY <1>3, <2>2, HandlerWorks
    <3>2. QED
      BY <2>1, <3>1
  <2>3. CASE ~(Lock(c) \/ Handler(c)) /\ Crash
    <3>1. WorkLeft(c)' = 0
      BY <2>3 DEF Crash, WorkLeft
    <3>2. QED
      BY <2>1, <2>3, <3>1
  <2>4. CASE ~(Lock(c) \/ Handler(c)) /\ ~Crash
    <3>1. pc'[c] = pc[c] /\ todo'[c] = todo[c]
      <4>1. CASE ReplayLine \/ Serve \/ GetClocks \/ UNCHANGED vars
        BY <4>1 DEF ReplayLine, Serve, GetClocks, vars, clientVars
      <4>2. ASSUME NEW d \in Clients \ {c}, Lock(d) \/ Handler(d)
            PROVE  pc'[c] = pc[c] /\ todo'[c] = todo[c]
        BY <1>3, <4>2, HandlerWorks
      <4>3. ASSUME NEW d \in Clients, ClientSends(d) PROVE pc'[c] = pc[c] /\ todo'[c] = todo[c]
        <5>1. \E s, work : Send(d, s, work)
          BY <4>3 DEF ClientSends, SendAcquire, SendRelease, SendFileClockInc, SendEvent,
             SendUnlogged
        <5>2. QED
          BY <1>3, <5>1 DEF Send, Goto, TypeOK, ServerTypeOK
      <4>4. QED
        BY <1>3, <2>4, <4>1, <4>2, <4>3 DEF Next
    <3>2. WorkLeft(c)' = WorkLeft(c)
      BY <3>1 DEF WorkLeft
    <3>3. QED
      BY <2>1, <2>4, <3>2
  <2>5. QED
    BY <2>2, <2>3, <2>4
<1>4. TypeOK /\ [Next]_vars =>
        [\A c \in Clients : pc[c] # "idle" =>
           /\ WorkLeft(c)' <= WorkLeft(c)
           /\ Lock(c) \/ Handler(c) => WorkLeft(c)' < WorkLeft(c)]_vars
  BY <1>3
<1>5. QED
  BY <1>1, <1>2, <1>4, OneInsideStep, TypeCorrect, IndexIsSound, PTL DEF Spec, WorkRunsDown

\* No step of the daemon changes a line of the log that has its newline.
LEMMA LinesAreKept == TypeOK /\ [Next]_vars => LinesStay \/ UNCHANGED logVars
<1> SUFFICES ASSUME TypeOK, Next PROVE LinesStay \/ UNCHANGED logVars
  BY DEF vars
<1>0. LogTypeOK
  BY DEF TypeOK
<1>1. CASE ReplayLine \/ Serve \/ Crash \/ GetClocks
  BY <1>1 DEF ReplayLine, Serve, Crash, GetClocks
<1>2. ASSUME NEW c \in Clients,
             ClientSends(c) \/ Lock(c) \/ Unlock(c) \/ ReplyClocks(c) \/ Reply(c)
      PROVE  UNCHANGED logVars
  BY <1>2 DEF ClientSends, SendAcquire, SendRelease, SendFileClockInc, SendEvent,
              SendUnlogged, Send, Lock, Unlock, ReplyClocks, Reply
<1>3. ASSUME NEW c \in Clients, AcquireScope(c) PROVE LinesStay \/ UNCHANGED logVars
  <2>1. \/ UNCHANGED logVars
        \/ \E k \in todo[c], l \in LeaseIds : TryAppend(LeaseIssued(l, OwnerOf[c], k))
    BY <1>3 DEF AcquireScope, Issue
  <2>2. todo[c] \subseteq Scopes /\ OwnerOf[c] \in Owners
    BY <1>3 DEF AcquireScope, TypeOK, WorkOK
  <2>3. QED
    BY <1>0, <2>1, <2>2, LinesAreLines, AppendKeeps
<1>4. ASSUME NEW c \in Clients, ReleaseId(c) PROVE LinesStay \/ UNCHANGED logVars
  <2>1. UNCHANGED logVars \/ \E l \in todo[c] : TryAppend(LeaseReleased(l))
    BY <1>4 DEF ReleaseId, Drop
  <2>2. todo[c] \subseteq LeaseIds
    BY <1>4 DEF ReleaseId, TypeOK, WorkOK
  <2>3. QED
    BY <1>0, <2>1, <2>2, LinesAreLines, AppendKeeps
<1>5. ASSUME NEW c \in Clients, IncFileClock(c) \/ AppendEvent(c) PROVE LinesStay
  <2>1. \/ TryAppend(FileClockInc(todo[c])) /\ todo[c] \in SUBSET Paths
        \/ TryAppend(Other)
    BY <1>5 DEF IncFileClock, AppendEvent, Increment, IncrementFails, TryAppend, TypeOK, WorkOK
  <2>2. QED
    BY <1>0, <2>1, LinesAreLines, AppendKeeps
<1>6. QED
  BY <1>1, <1>2, <1>3, <1>4, <1>5 DEF Next, Handler

\* Whatever writes fail, a completed line of events.log stays where it is and
\* what it is.
THEOREM CompletedLinesKept == Spec => CompletedLinesStay
<1>1. TypeOK /\ [Next]_vars => [LinesStay]_logVars
  BY LinesAreKept
<1>2. QED
  BY <1>1, TypeCorrect, PTL DEF Spec, CompletedLinesStay
-----------------------------------------------------------------------------
(* What holds when every write succeeds: file clocks, and, where every *)
(* client has an owner_id of its own, the properties of leases (from   *)
(* ExactInv) and the implementation of LeaseService.                   *)

NoFaults    == MaxFaults = 0
OwnersApart == \A c, d \in Clients : OwnerOf[c] = OwnerOf[d] => c = d

-----------------------------------------------------------------------------
(* LiveAfter, as a function of the log. *)

Issues(e, l)   == e.type = "lease_issued" /\ e.id = l
Releases(e, l) == e.type = "lease_released" /\ e.id = l

LiveIn(s, l, n) ==
  \E i \in 1 .. n : Issues(s[i], l) /\ \A j \in (i + 1) .. n : ~Releases(s[j], l)

LEMMA LiveIsLiveIn ==
  ASSUME NEW l, NEW n
  PROVE  (LiveAfter(l, n) <=> LiveIn(log, l, n)) /\ (LiveAfter(l, n)' <=> LiveIn(log', l, n'))
BY DEF LiveAfter, LiveIn, IssuedAt, ReleasedAt, Issues, Releases

\* One more line: a lease is live after it when it issues the lease, or does
\* not release it and the lease was live before.
LEMMA LiveGrows ==
  ASSUME NEW s, NEW l, NEW n \in Nat
  PROVE  LiveIn(s, l, n + 1) <=>
           Issues(s[n + 1], l) \/ (LiveIn(s, l, n) /\ ~Releases(s[n + 1], l))
<1>1. Issues(s[n + 1], l) => ~Releases(s[n + 1], l)
  BY DEF Issues, Releases
<1>2. ASSUME LiveIn(s, l, n + 1), ~Issues(s[n + 1], l)
      PROVE  LiveIn(s, l, n) /\ ~Releases(s[n + 1], l)
  <2>1. PICK i \in 1 .. n + 1 :
          Issues(s[i], l) /\ \A j \in (i + 1) .. (n + 1) : ~Releases(s[j], l)
    BY <1>2 DEF LiveIn
  <2>2. i \in 1 .. n
    BY <1>2, <2>1
  <2>3. QED
    BY <2>1, <2>2 DEF LiveIn
<1>3. ASSUME Issues(s[n + 1], l)
      PROVE  LiveIn(s, l, n + 1)
  BY <1>3 DEF LiveIn
<1>4. ASSUME LiveIn(s, l, n), ~Releases(s[n + 1], l)
      PROVE  LiveIn(s, l, n + 1)
  <2>1. PICK i \in 1 .. n :
          Issues(s[i], l) /\ \A j \in (i + 1) .. n : ~Releases(s[j], l)
    BY <1>4 DEF LiveIn
  <2>2. \A j \in (i + 1) .. (n + 1) : j \in (i + 1) .. n \/ j = n + 1
    BY <2>1
  <2>3. QED
    BY <1>4, <2>1, <2>2 DEF LiveIn
<1>5. QED
  BY <1>1, <1>2, <1>3, <1>4

LEMMA LiveSame ==
  ASSUME NEW s, NEW t, NEW l, NEW n \in Nat, \A i \in 1 .. n : s[i] = t[i]
  PROVE  LiveIn(s, l, n) <=> LiveIn(t, l, n)
BY DEF LiveIn

\* When no write fails an append appends.
LEMMA AppendWrites ==
  ASSUME NoFaults, LogTypeOK, ~openLine, NEW e \in Line, TryAppend(e)
  PROVE  /\ ~openLine' /\ Len(log) \in Nat /\ Len(log') = Len(log) + 1
         /\ log'[Len(log) + 1] = e
         /\ \A i \in 1 .. Len(log) : log'[i] = log[i]
         /\ \A l : LiveAfter(l, Len(log))' <=>
                   Issues(e, l) \/ (LiveAfter(l, Len(log)) /\ ~Releases(e, l))
<1>1. Written(e)
  BY DEF TryAppend, WriteFails, NoFaults, LogTypeOK
<1>2. ~openLine'
  BY <1>1, Zenon DEF Written
<1>3. /\ Len(log) \in Nat /\ Len(log') = Len(log) + 1 /\ log'[Len(log) + 1] = e
      /\ \A i \in 1 .. Len(log) : log'[i] = log[i]
  BY <1>1, ExtendedLog, LenProperties DEF Written, LogTypeOK
<1>4. ASSUME NEW l
      PROVE  LiveAfter(l, Len(log))' <=>
               Issues(e, l) \/ (LiveAfter(l, Len(log)) /\ ~Releases(e, l))
  <2>1. LiveIn(log', l, Len(log)) <=> LiveIn(log, l, Len(log))
    BY <1>3, LiveSame
  <2>2. LiveIn(log', l, Len(log) + 1) <=>
          Issues(e, l) \/ (LiveIn(log', l, Len(log)) /\ ~Releases(e, l))
    BY <1>3, LiveGrows
  <2>3. LiveAfter(l, Len(log))' <=> LiveIn(log', l, Len(log'))
    BY LiveIsLiveIn
  <2>4. QED
    BY <1>3, <2>1, <2>2, <2>3, LiveIsLiveIn
<1>5. QED
  BY <1>2, <1>3, <1>4

\* The replay of line n + 1.
LEMMA ReplayGrows ==
  ASSUME NEW l, NEW n \in Nat
  PROVE  LiveAfter(l, n + 1) <=>
           Issues(log[n + 1], l) \/ (LiveAfter(l, n) /\ ~Releases(log[n + 1], l))
BY LiveGrows, LiveIsLiveIn

-----------------------------------------------------------------------------
(* ExactInv, one lemma per kind of step. *)

ExactParts ==
  /\ ~openLine /\ TableIsReplay /\ OneLeasePerScope /\ LogExclusive /\ ToldLive

\* An event that is neither an issue nor a release.
LEMMA ExactQuietAppend ==
  ASSUME NoFaults, LogTypeOK, ExactParts, phase = "up", UNCHANGED <<leases, scopes, phase, held, got>>,
         NEW e \in Line, e.type \notin {"lease_issued", "lease_released"}, TryAppend(e)
  PROVE  ExactParts'
<1>1. /\ ~openLine' /\ Len(log) \in Nat /\ Len(log') = Len(log) + 1
      /\ log'[Len(log) + 1] = e
      /\ \A i \in 1 .. Len(log) : log'[i] = log[i]
      /\ \A l : LiveAfter(l, Len(log))' <=> LiveAfter(l, Len(log))
  BY AppendWrites DEF ExactParts, Issues, Releases
<1>2. TableIsReplay'
  BY <1>1 DEF ExactParts, TableIsReplay, Applied, Active
<1>3. OneLeasePerScope' /\ ToldLive'
  BY <1>1 DEF ExactParts, OneLeasePerScope, ToldLive, Active
<1>4. LogExclusive'
  BY <1>1, SMTT(40) DEF ExactParts, LogExclusive, Issued, Released
<1>5. QED
  BY <1>1, <1>2, <1>3, <1>4 DEF ExactParts

\* A step that leaves log and table alone: what clients rely on or are about to
\* be told shrinks, or grows by leases of the table.
LEMMA ExactLocal ==
  ASSUME ExactParts, UNCHANGED <<logVars, leases, scopes, phase, pos>>,
         \A c \in Clients : \A l \in held'[c] \cup got'[c] :
           l \in held[c] \cup got[c] \/ LiveAfter(l, Len(log))
  PROVE  ExactParts'
<1>1. UNCHANGED <<log, openLine>>
  BY DEF logVars
<1>2. ~openLine'
  BY <1>1, Zenon DEF ExactParts
<1>3. TableIsReplay' /\ OneLeasePerScope'
  BY <1>1 DEF ExactParts, TableIsReplay, OneLeasePerScope, Applied, Active, LiveAfter,
              IssuedAt, ReleasedAt
<1>4. LogExclusive' /\ ToldLive'
  BY <1>1 DEF ExactParts, LogExclusive, ToldLive, Issued, Released, LiveAfter, IssuedAt, ReleasedAt
<1>5. QED
  BY <1>2, <1>3, <1>4 DEF ExactParts

\* A lease that the log issued in line j and that is not live after line n has
\* been released in between.
LEMMA NotLive ==
  ASSUME NEW n \in Nat, NEW j \in 1 .. n, log[j].type = "lease_issued",
         ~LiveAfter(log[j].id, n)
  PROVE  \E m \in (j + 1) .. n : log[m].type = "lease_released" /\ log[m].id = log[j].id
BY DEF LiveAfter, IssuedAt, ReleasedAt

LEMMA ExactIssue ==
  ASSUME NoFaults, LeaseInv, ExactParts, phase = "up", NEW l \in LeaseIds, NEW k \in Scopes,
         NEW c \in Clients, Issue(l, OwnerOf[c], k), UNCHANGED <<phase, held>>,
         got' = [got EXCEPT ![c] = @ \cup {l}]
  PROVE  ExactParts'
<1> DEFINE e == LeaseIssued(l, OwnerOf[c], k)
           n == Len(log)
<1>1. /\ e \in Line /\ e.type = "lease_issued" /\ e.id = l
      /\ e.owner = OwnerOf[c] /\ e.scope = k
  BY LinesAreLines DEF LeaseIssued
<1>2. LogTypeOK /\ TryAppend(e) /\ ~openLine
  BY DEF Issue, LeaseInv, TypeOK, ExactParts
<1>3. /\ scopes[k] = None
      /\ leases' = [leases EXCEPT ![l] = [owner |-> OwnerOf[c], scope |-> k]]
      /\ scopes' = [scopes EXCEPT ![k] = l]
      /\ leases \in [LeaseIds -> Lease \cup {NoLease}]
      /\ scopes \in [Scopes -> LeaseIds \cup {None}]
  BY DEF Issue, LeaseInv, TypeOK, LeaseTypeOK
<1>4. ~Active(l)
  BY DEF Issue, LeaseInv, ActiveUsed
<1> HIDE DEF e
<1>5. /\ ~openLine' /\ n \in Nat /\ Len(log') = n + 1 /\ log'[n + 1] = e
      /\ \A i \in 1 .. n : log'[i] = log[i]
      /\ \A m : LiveAfter(m, Len(log))' <=> m = l \/ LiveAfter(m, n)
  BY <1>1, <1>2, AppendWrites DEF NoFaults, Issues, Releases
<1>6. \A m \in LeaseIds : Active(m) <=> LiveAfter(m, n)
  BY DEF ExactParts, TableIsReplay, Applied
<1>7. \A m \in LeaseIds : Active(m) => leases[m].scope # k /\ scopes[leases[m].scope] = m
  BY <1>3 DEF ExactParts, OneLeasePerScope
<1>8. \A m \in LeaseIds : Active(m)' <=> m = l \/ Active(m)
  BY <1>3 DEF Active, NoLease
<1>9. TableIsReplay'
  BY <1>5, <1>6, <1>8 DEF TableIsReplay, Applied
<1>10. OneLeasePerScope'
  BY <1>3, <1>4, <1>7, <1>8 DEF OneLeasePerScope
<1>11. LogExclusive'
  <2>1. ASSUME NEW j \in 1 .. n, Issued(j), log[j].scope = k
        PROVE  \E m \in (j + 1) .. n : log[m].type = "lease_released" /\ log[m].id = log[j].id
    <3>1. log[j].id \in LeaseIds
      BY <2>1, LogLine, LineFields DEF LeaseInv, TypeOK, Issued
    <3>2. ~Active(log[j].id)
      <4> SUFFICES ASSUME Active(log[j].id) PROVE FALSE
        OBVIOUS
      <4>1. leases[log[j].id] = [owner |-> log[j].owner, scope |-> log[j].scope]
        BY <2>1 DEF LeaseInv, IssueMatches
      <4>2. QED
        BY <1>7, <2>1, <3>1, <4>1
    <3>3. QED
      BY <1>5, <1>6, <2>1, <3>1, <3>2, NotLive DEF Issued
  <2>2. ASSUME NEW i \in 1 .. n + 1, NEW j \in 1 .. n + 1, Issued(i)', Issued(j)', j < i,
               log'[i].scope = log'[j].scope
        PROVE  \E m \in (j + 1) .. (i - 1) : Released(m)' /\ log'[m].id = log'[j].id
    <3>1. CASE i \in 1 .. n
      BY <1>5, <2>2, <3>1 DEF ExactParts, LogExclusive, Issued, Released
    <3>2. CASE i = n + 1
      <4>1. j \in 1 .. n /\ Issued(j) /\ log[j] = log'[j] /\ log[j].scope = k
        BY <1>1, <1>5, <2>2, <3>2 DEF Issued
      <4>2. PICK m \in (j + 1) .. n : log[m].type = "lease_released" /\ log[m].id = log[j].id
        BY <2>1, <4>1
      <4>3. QED
        BY <1>5, <3>2, <4>1, <4>2 DEF Released
    <3>3. QED
      BY <1>5, <3>1, <3>2
  <2>3. QED
    BY <1>5, <2>2 DEF LogExclusive
<1>12. ToldLive'
  <2>1. \A d \in Clients : \A m \in held'[d] \cup got'[d] : m \in held[d] \cup got[d] \/ m = l
    BY DEF LeaseInv, TypeOK, ServerTypeOK
  <2>2. QED
    BY <1>5, <2>1 DEF ExactParts, ToldLive
<1>13. QED
  BY <1>5, <1>9, <1>10, <1>11, <1>12 DEF ExactParts

\* A release that takes a lease out: nobody else relies on it, and its client
\* has given it up when it sent the release.
LEMMA ExactDrop ==
  ASSUME NoFaults, OwnersApart, LeaseInv, ExactParts, RequestsApart, phase = "up",
         NEW c \in Clients, pc[c] = "releasing", NEW l \in todo[c], Drop(l),
         UNCHANGED <<phase, pos, held, got>>
  PROVE  ExactParts'
<1> DEFINE e == LeaseReleased(l)
           n == Len(log)
<1>1. CASE UNCHANGED <<leaseVars, logVars>>
  BY <1>1, ExactLocal DEF leaseVars
<1>2. CASE /\ Active(l) /\ TryAppend(e)
           /\ scopes' = [scopes EXCEPT ![leases[l].scope] = None]
           /\ leases' = [leases EXCEPT ![l] = NoLease]
  <2>1. /\ l \in LeaseIds /\ l \in known[c]
        /\ leases \in [LeaseIds -> Lease \cup {NoLease}]
        /\ scopes \in [Scopes -> LeaseIds \cup {None}]
    BY DEF LeaseInv, ReleasesKnown, TypeOK, WorkOK, LeaseTypeOK
  <2>2. e \in Line /\ e.type = "lease_released" /\ e.id = l
    BY <2>1, LinesAreLines DEF LeaseReleased
  <2>3. LogTypeOK /\ ~openLine
    BY DEF LeaseInv, TypeOK, ExactParts
  <2> HIDE DEF e
  <2>4. /\ ~openLine' /\ n \in Nat /\ Len(log') = n + 1 /\ log'[n + 1] = e
        /\ \A i \in 1 .. n : log'[i] = log[i]
        /\ \A m : LiveAfter(m, Len(log))' <=> LiveAfter(m, n) /\ m # l
    BY <1>2, <2>2, <2>3, AppendWrites DEF Issues, Releases
  <2>5. \A m \in LeaseIds : Active(m)' <=> Active(m) /\ m # l
    BY <1>2, <2>1 DEF Active
  <2>6. TableIsReplay'
    BY <2>4, <2>5 DEF ExactParts, TableIsReplay, Applied
  <2>7. OneLeasePerScope'
    BY <1>2, <2>1, <2>5 DEF ExactParts, OneLeasePerScope, Active, Lease, NoLease
  <2>8. LogExclusive'
    BY <2>2, <2>4, SMTT(40) DEF ExactParts, LogExclusive, Issued, Released
  <2>9. \A d \in Clients : l \notin held[d] \cup got[d]
    <3>1. l \notin held[c] /\ got[c] = {}
      BY DEF RequestsApart
    <3>2. leases[l].owner = OwnerOf[c]
      BY <1>2, <2>1 DEF LeaseInv, ToldOwned, Told
    <3>3. ASSUME NEW d \in Clients, l \in held[d] \cup got[d]
          PROVE  leases[l].owner = OwnerOf[d]
      BY <1>2, <3>3 DEF LeaseInv, ToldOwned, Told, RequestsApart
    <3>4. QED
      BY <3>1, <3>2, <3>3 DEF OwnersApart
  <2>10. ToldLive'
    BY <2>4, <2>9 DEF ExactParts, ToldLive
  <2>11. QED
    BY <2>4, <2>6, <2>7, <2>8, <2>10 DEF ExactParts
<1>3. QED
  BY <1>1, <1>2 DEF Drop

\* The replay of an issue overwrites nothing: the log released the scope's
\* last lease before.
LEMMA ExactReplay ==
  ASSUME LeaseInv, ExactParts, ReplayLine
  PROVE  ExactParts'
<1> DEFINE e == log[pos + 1]
<1>1. /\ Len(log) \in Nat /\ pos \in Nat /\ pos < Len(log) /\ phase = "boot" /\ phase' = "boot"
      /\ log' = log /\ openLine' = openLine /\ pos' = pos + 1 /\ UNCHANGED <<held, got>>
      /\ leases \in [LeaseIds -> Lease \cup {NoLease}]
      /\ scopes \in [Scopes -> LeaseIds \cup {None}]
      /\ ReplayLeaseLine(e)
  BY LenProperties DEF ReplayLine, LeaseInv, TypeOK, LogTypeOK, LeaseTypeOK, ServerTypeOK,
                       logVars, clientVars
<1>2. e \in Line /\ pos + 1 \in 1 .. Len(log)
  BY <1>1, LogLine DEF LeaseInv, TypeOK
<1>3. ~openLine'
  BY <1>1, Zenon DEF ExactParts
<1>4. LogExclusive' /\ ToldLive'
  BY <1>1, SMTT(40) DEF ExactParts, LogExclusive, ToldLive, Issued, Released, LiveAfter, IssuedAt, ReleasedAt
<1>5. \A l \in LeaseIds : Active(l) <=> LiveAfter(l, pos)
  BY <1>1 DEF ExactParts, TableIsReplay, Applied
<1>6. \A l \in LeaseIds : LiveAfter(l, pos + 1) <=>
                             Issues(e, l) \/ (LiveAfter(l, pos) /\ ~Releases(e, l))
  BY <1>1, ReplayGrows
<1>7. \A l \in LeaseIds : LiveAfter(l, Applied)' <=> LiveAfter(l, pos + 1)
  BY <1>1 DEF Applied, LiveAfter, IssuedAt, ReleasedAt
<1>8. CASE e.type = "lease_issued"
  <2>1. /\ leases' = [leases EXCEPT ![e.id] = [owner |-> e.owner, scope |-> e.scope]]
        /\ scopes' = [scopes EXCEPT ![e.scope] = e.id]
        /\ e.id \in LeaseIds /\ e.owner \in Owners /\ e.scope \in Scopes
    BY <1>1, <1>2, <1>8, LineFields DEF ReplayLeaseLine
  <2>2. \A l \in LeaseIds : Active(l)' <=> l = e.id \/ Active(l)
    BY <1>1, <2>1 DEF Active, NoLease
  <2>3. TableIsReplay'
    BY <1>5, <1>6, <1>7, <1>8, <2>2 DEF TableIsReplay, Issues, Releases
  <2>4. ASSUME NEW l \in LeaseIds, Active(l) PROVE leases[l].scope # e.scope
    <3>1. PICK i \in 1 .. pos : log[i].type = "lease_issued" /\ log[i].id = l
                               /\ \A j \in (i + 1) .. pos : ~ReleasedAt(j, l)
      BY <1>5, <2>4 DEF LiveAfter, IssuedAt
    <3>2. Issued(i) /\ Issued(pos + 1) /\ i < pos + 1
      BY <1>1, <1>2, <1>8, <3>1 DEF Issued
    <3>3. leases[l] = [owner |-> log[i].owner, scope |-> log[i].scope]
      BY <2>4, <3>1, <3>2 DEF LeaseInv, IssueMatches, Issued
    <3>4. ASSUME log[i].scope = e.scope PROVE FALSE
      <4>1. i \in 1 .. Len(log)
        BY <1>1, <3>1
      <4>2. PICK m \in (i + 1) .. ((pos + 1) - 1) : Released(m) /\ log[m].id = log[i].id
        BY <1>2, <3>2, <3>4, <4>1 DEF ExactParts, LogExclusive
      <4>3. m \in (i + 1) .. pos
        BY <1>1, <4>1, <4>2
      <4>4. QED
        BY <3>1, <4>2, <4>3 DEF Released, ReleasedAt
    <3>5. QED
      BY <3>3, <3>4
  <2>5. OneLeasePerScope'
    BY <1>1, <2>1, <2>2, <2>4 DEF ExactParts, OneLeasePerScope
  <2>6. QED
    BY <1>3, <1>4, <2>3, <2>5 DEF ExactParts
<1>9. CASE e.type = "lease_released" /\ Active(e.id)
  <2>1. /\ scopes' = [scopes EXCEPT ![leases[e.id].scope] = None]
        /\ leases' = [leases EXCEPT ![e.id] = NoLease]
        /\ e.id \in LeaseIds
    BY <1>1, <1>2, <1>9, LineFields DEF ReplayLeaseLine
  <2>2. \A l \in LeaseIds : Active(l)' <=> Active(l) /\ l # e.id
    BY <1>1, <2>1 DEF Active
  <2>3. TableIsReplay'
    BY <1>5, <1>6, <1>7, <1>9, <2>2 DEF TableIsReplay, Issues, Releases
  <2>4. OneLeasePerScope'
    BY <1>1, <1>9, <2>1, <2>2 DEF ExactParts, OneLeasePerScope, Active, Lease, NoLease
  <2>5. QED
    BY <1>3, <1>4, <2>3, <2>4 DEF ExactParts
<1>10. CASE /\ e.type # "lease_issued"
            /\ e.type = "lease_released" => ~Active(e.id)
            /\ UNCHANGED <<leases, scopes>>
  <2>1. TableIsReplay'
    BY <1>5, <1>6, <1>7, <1>10 DEF TableIsReplay, Issues, Releases, Active
  <2>2. OneLeasePerScope'
    BY <1>10 DEF ExactParts, OneLeasePerScope, Active
  <2>3. QED
    BY <1>3, <1>4, <2>1, <2>2 DEF ExactParts
<1>11. QED
  BY <1>1, <1>8, <1>9, <1>10 DEF ReplayLeaseLine

\* A client's request, what it relies on and what it is being given stay apart.
LEMMA ApartStep == LeaseInv /\ RequestsApart /\ [Next]_vars => RequestsApart'
<1> SUFFICES ASSUME LeaseInv, RequestsApart, [Next]_vars PROVE RequestsApart'
  OBVIOUS
<1> USE DEF Goto, clientVars
<1>t. /\ pc \in [Clients -> Stages] /\ got \in [Clients -> SUBSET LeaseIds]
      /\ known \in [Clients -> SUBSET LeaseIds] /\ held \in [Clients -> SUBSET LeaseIds]
      /\ todo \in [Clients -> SUBSET (Scopes \cup LeaseIds \cup Paths)]
  BY DEF LeaseInv, TypeOK, ServerTypeOK
<1>1. CASE ReplayLine \/ Serve \/ GetClocks \/ UNCHANGED vars
  <2>1. UNCHANGED <<pc, todo, got, known, held>>
    BY <1>1 DEF ReplayLine, Serve, GetClocks, vars
  <2>2. QED
    BY <2>1 DEF RequestsApart
<1>2. CASE Crash
  BY <1>2 DEF Crash, RequestsApart
<1>3. ASSUME NEW c \in Clients, ClientSends(c) PROVE RequestsApart'
  <2>1. CASE SendRelease(c)
    BY <1>t, <2>1 DEF SendRelease, Send, RequestsApart
  <2>2. CASE SendAcquire(c)
    BY <1>t, <2>2 DEF SendAcquire, Send, RequestsApart
  <2>3. CASE SendFileClockInc(c)
    BY <1>t, <2>3 DEF SendFileClockInc, Send, RequestsApart
  <2>4. CASE SendEvent(c) \/ SendUnlogged(c)
    BY <1>t, <2>4 DEF SendEvent, SendUnlogged, Send, RequestsApart
  <2>5. QED
    BY <1>3, <2>1, <2>2, <2>3, <2>4 DEF ClientSends
<1>4. ASSUME NEW c \in Clients, Lock(c) PROVE RequestsApart'
  BY <1>t, <1>4 DEF Lock, RequestsApart
<1>5. ASSUME NEW c \in Clients, AcquireScope(c) PROVE RequestsApart'
  <2>1. /\ pc[c] = "acquiring" /\ UNCHANGED <<pc, known, held>>
        /\ \A d \in Clients \ {c} : todo'[d] = todo[d] /\ got'[d] = got[d]
    BY <1>t, <1>5 DEF AcquireScope
  <2>2. QED
    BY <1>t, <2>1 DEF RequestsApart
<1>6. ASSUME NEW c \in Clients, ReleaseId(c) PROVE RequestsApart'
  BY <1>t, <1>6 DEF ReleaseId, RequestsApart
<1>7. ASSUME NEW c \in Clients, Unlock(c) PROVE RequestsApart'
  BY <1>t, <1>7 DEF Unlock, RequestsApart
<1>8. ASSUME NEW c \in Clients, IncFileClock(c) \/ ReplyClocks(c) \/ AppendEvent(c)
      PROVE  RequestsApart'
  BY <1>t, <1>8 DEF IncFileClock, ReplyClocks, AppendEvent, RequestsApart
<1>9. ASSUME NEW c \in Clients, Reply(c) PROVE RequestsApart'
  BY <1>t, <1>9 DEF Reply, RequestsApart
<1>10. QED
  BY <1>1, <1>2, <1>3, <1>4, <1>5, <1>6, <1>7, <1>8, <1>9 DEF Next, Handler

-----------------------------------------------------------------------------
(* The invariant. *)

LEMMA ExactInit == Init => ExactInv
<1> SUFFICES ASSUME Init PROVE ExactInv
  OBVIOUS
<1>1. LeaseInv /\ log = <<>> /\ Len(log) = 0
  BY LeaseInit, EmptySeq DEF Init, LogInit
<1>2. ~openLine
  BY Zenon DEF Init, LogInit
<1>3. /\ \A l \in LeaseIds : ~Active(l)
      /\ \A c \in Clients : held[c] = {} /\ got[c] = {} /\ known[c] = {} /\ pc[c] = "idle"
      /\ phase = "boot" /\ pos = 0
  BY DEF Init, EmptyTable, Active
<1>4. QED
  BY <1>1, <1>2, <1>3 DEF ExactInv, TableIsReplay, Applied, OneLeasePerScope, LogExclusive,
                          ToldLive, RequestsApart, LiveAfter

LEMMA ExactStep == NoFaults /\ OwnersApart /\ ExactInv /\ [Next]_vars => ExactInv'
<1> SUFFICES ASSUME NoFaults, OwnersApart, ExactInv, [Next]_vars PROVE ExactInv'
  OBVIOUS
<1>0. LeaseInv /\ LeaseInv' /\ RequestsApart /\ RequestsApart' /\ ExactParts
  BY LeaseStep, ApartStep DEF ExactInv, ExactParts
<1> SUFFICES ExactParts'
  BY <1>0 DEF ExactInv, ExactParts
<1>t. /\ got \in [Clients -> SUBSET LeaseIds] /\ held \in [Clients -> SUBSET LeaseIds]
      /\ TypeOK /\ LogTypeOK
  BY <1>0 DEF LeaseInv, TypeOK, ServerTypeOK
<1>1. CASE ReplayLine
  BY <1>0, <1>1, ExactReplay
<1>2. CASE Serve
  <2>1. /\ UNCHANGED <<log, openLine, leases, scopes, held, got>>
        /\ phase = "boot" /\ phase' = "up" /\ pos = Len(log)
    BY <1>2 DEF Serve, logVars, leaseVars, clientVars
  <2>2. ~openLine'
    BY <1>0, <2>1, Zenon DEF ExactParts
  <2>3. TableIsReplay' /\ OneLeasePerScope'
    BY <1>0, <2>1 DEF ExactParts, TableIsReplay, Applied, OneLeasePerScope, Active,
                      LiveAfter, IssuedAt, ReleasedAt
  <2>4. LogExclusive' /\ ToldLive'
    BY <1>0, <2>1 DEF ExactParts, LogExclusive, ToldLive, Issued, Released,
                      LiveAfter, IssuedAt, ReleasedAt
  <2>5. QED
    BY <2>2, <2>3, <2>4 DEF ExactParts
<1>3. CASE Crash
  <2>1. /\ UNCHANGED <<log, openLine, held>> /\ phase' = "boot" /\ pos' = 0
        /\ \A l \in LeaseIds : ~Active(l)'
        /\ \A c \in Clients : got'[c] = {}
    BY <1>3 DEF Crash, logVars, Active
  <2>2. ~openLine'
    BY <1>0, <2>1, Zenon DEF ExactParts
  <2>3. TableIsReplay' /\ OneLeasePerScope'
    BY <2>1 DEF TableIsReplay, Applied, OneLeasePerScope, LiveAfter
  <2>4. LogExclusive' /\ ToldLive'
    BY <1>0, <2>1 DEF ExactParts, LogExclusive, ToldLive, Issued, Released,
                      LiveAfter, IssuedAt, ReleasedAt
  <2>5. QED
    BY <2>2, <2>3, <2>4 DEF ExactParts
<1>4. CASE GetClocks \/ UNCHANGED vars
  <2>1. UNCHANGED <<logVars, leases, scopes, phase, pos, held, got>>
    BY <1>4 DEF GetClocks, vars, leaseVars, clientVars
  <2>2. QED
    BY <1>0, <2>1, ExactLocal
<1>5. ASSUME NEW c \in Clients, ClientSends(c) PROVE ExactParts'
  <2>1. UNCHANGED <<logVars, leases, scopes, phase, pos, got>>
        /\ \A d \in Clients : held'[d] \subseteq held[d]
    BY <1>t, <1>5 DEF ClientSends, SendAcquire, SendRelease, SendFileClockInc, SendEvent,
                SendUnlogged, Send, leaseVars
  <2>2. QED
    BY <1>0, <2>1, ExactLocal
<1>6. ASSUME NEW c \in Clients, Lock(c) \/ Unlock(c) \/ ReplyClocks(c) PROVE ExactParts'
  <2>1. UNCHANGED <<logVars, leases, scopes, phase, pos, held, got>>
    BY <1>6 DEF Lock, Unlock, ReplyClocks, leaseVars
  <2>2. QED
    BY <1>0, <2>1, ExactLocal
<1>7. ASSUME NEW c \in Clients, AcquireScope(c) PROVE ExactParts'
  <2>1. PICK k \in todo[c] :
          \/ UNCHANGED <<logVars, leaseVars, got>>
          \/ /\ OwnerHoldsScope(OwnerOf[c], k)
             /\ got' = [got EXCEPT ![c] = @ \cup {scopes[k]}]
             /\ UNCHANGED <<logVars, leaseVars>>
          \/ \E l \in LeaseIds : /\ Issue(l, OwnerOf[c], k)
                                 /\ got' = [got EXCEPT ![c] = @ \cup {l}]
    BY <1>7 DEF AcquireScope
  <2>2. phase = "up" /\ UNCHANGED <<phase, pos, held>> /\ k \in Scopes
    BY <1>t, <1>7, <2>1 DEF AcquireScope, TypeOK, WorkOK
  <2>3. CASE UNCHANGED <<logVars, leaseVars, got>>
    BY <1>0, <2>2, <2>3, ExactLocal DEF leaseVars
  <2>4. CASE /\ OwnerHoldsScope(OwnerOf[c], k)
             /\ got' = [got EXCEPT ![c] = @ \cup {scopes[k]}]
             /\ UNCHANGED <<logVars, leaseVars>>
    <3>1. LiveAfter(scopes[k], Len(log))
      BY <1>0, <1>t, <2>2, <2>4 DEF OwnerHoldsScope, ExactParts, TableIsReplay, Applied,
                                    TypeOK, LeaseTypeOK
    <3>2. QED
      BY <1>0, <1>t, <2>2, <2>4, <3>1, ExactLocal DEF leaseVars
  <2>5. ASSUME NEW l \in LeaseIds, Issue(l, OwnerOf[c], k), got' = [got EXCEPT ![c] = @ \cup {l}]
        PROVE  ExactParts'
    BY <1>0, <2>2, <2>5, ExactIssue
  <2>6. QED
    BY <2>1, <2>3, <2>4, <2>5
<1>8. ASSUME NEW c \in Clients, ReleaseId(c) PROVE ExactParts'
  <2>1. PICK l \in todo[c] : Drop(l)
    BY <1>8 DEF ReleaseId
  <2>2. phase = "up" /\ pc[c] = "releasing" /\ UNCHANGED <<phase, pos, held, got>>
    BY <1>8 DEF ReleaseId
  <2>3. QED
    BY <1>0, <2>1, <2>2, ExactDrop
<1>9. ASSUME NEW c \in Clients, IncFileClock(c) PROVE ExactParts'
  <2>1. /\ TryAppend(FileClockInc(todo[c])) /\ FileClockInc(todo[c]) \in Line
        /\ phase = "up" /\ UNCHANGED <<leases, scopes, phase, held, got>>
    BY <1>t, <1>9, LinesAreLines
       DEF IncFileClock, Increment, IncrementFails, TryAppend, TypeOK, WorkOK, leaseVars
  <2>2. FileClockInc(todo[c]).type = "file_clock_inc"
    BY DEF FileClockInc
  <2>3. QED
    BY <1>0, <1>t, <2>1, <2>2, ExactQuietAppend
<1>10. ASSUME NEW c \in Clients, AppendEvent(c) PROVE ExactParts'
  <2>1. /\ TryAppend(Other) /\ Other \in Line /\ Other.type = "other"
        /\ phase = "up" /\ UNCHANGED <<leases, scopes, phase, held, got>>
    BY <1>10, LinesAreLines DEF AppendEvent, TryAppend, Other, Blank, leaseVars
  <2>2. QED
    BY <1>0, <1>t, <2>1, ExactQuietAppend
<1>11. ASSUME NEW c \in Clients, Reply(c) PROVE ExactParts'
  <2>1. /\ UNCHANGED <<logVars, leases, scopes, phase, pos>>
        /\ \A d \in Clients : held'[d] \cup got'[d] \subseteq held[d] \cup got[d]
    BY <1>t, <1>11 DEF Reply, leaseVars
  <2>2. QED
    BY <1>0, <2>1, ExactLocal
<1>12. QED
  BY <1>1, <1>2, <1>3, <1>4, <1>5, <1>6, <1>7, <1>8, <1>9, <1>10, <1>11 DEF Next, Handler

\* The strengthening the theorems below rest on.
THEOREM ExactInvariant ==
  ASSUME NoFaults, OwnersApart
  PROVE  Spec => []ExactInv
<1>1. ExactInv /\ [Next]_vars => ExactInv'
  BY ExactStep
<1>2. QED
  BY <1>1, ExactInit, PTL DEF Spec

\* Without failing writes the lease table is always what the log says, so a
\* restart rebuilds exactly the table the daemon lost.
THEOREM TableRebuilt ==
  ASSUME NoFaults, OwnersApart
  PROVE  Spec => []TableIsReplay
<1>1. ExactInv => TableIsReplay
  BY DEF ExactInv
<1>2. QED
  BY <1>1, ExactInvariant, PTL

\* Without failing writes no two live leases cover one scope, during the replay
\* too.
THEOREM ScopesExclusive ==
  ASSUME NoFaults, OwnersApart
  PROVE  Spec => []OneLeasePerScope
<1>1. ExactInv => OneLeasePerScope
  BY DEF ExactInv
<1>2. QED
  BY <1>1, ExactInvariant, PTL

\* Without failing writes a lease a client was told of and has not given up is
\* in the table in its owner's name whenever the daemon serves.
THEOREM ToldLeasesHeld ==
  ASSUME NoFaults, OwnersApart
  PROVE  Spec => []AckedLeasesHeld
<1>1. ExactInv => AckedLeasesHeld
  <2> SUFFICES ASSUME ExactInv, phase = "up", NEW c \in Clients, NEW l \in held[c]
               PROVE  leases[l].owner = OwnerOf[c] /\ scopes[leases[l].scope] = l
    BY DEF AckedLeasesHeld
  <2>1. l \in LeaseIds /\ l \in Told(c)
    BY DEF ExactInv, LeaseInv, TypeOK, ServerTypeOK, RequestsApart, Told
  <2>2. Active(l)
    BY <2>1 DEF ExactInv, ToldLive, TableIsReplay, Applied
  <2>3. QED
    BY <2>1, <2>2 DEF ExactInv, LeaseInv, ToldOwned, OneLeasePerScope
<1>2. QED
  BY <1>1, ExactInvariant, PTL
-----------------------------------------------------------------------------
(* The clocks. *)

CountOf(s, p, n) == Cardinality(Bumps(s, p, n))
Counts(e, p)     == e.type = "file_clock_inc" /\ p \in e.paths

\* One more line counts one more increment of the paths it names.
LEMMA CountGrows ==
  ASSUME NEW s, NEW p, NEW n \in Nat
  PROVE  /\ CountOf(s, p, 0) = 0
         /\ CountOf(s, p, n) \in Nat
         /\ CountOf(s, p, n + 1) =
              IF Counts(s[n + 1], p) THEN CountOf(s, p, n) + 1 ELSE CountOf(s, p, n)
<1>1. IsFiniteSet(Bumps(s, p, n)) /\ n + 1 \notin Bumps(s, p, n)
  <2>1. IsFiniteSet(1 .. n) /\ Bumps(s, p, n) \in SUBSET (1 .. n)
    BY FS_Interval DEF Bumps
  <2>2. QED
    BY <2>1, FS_Subset
<1>2. CountOf(s, p, 0) = 0
  <2>1. Bumps(s, p, 0) = {}
    BY DEF Bumps
  <2>2. QED
    BY <2>1, FS_EmptySet DEF CountOf
<1>3. Bumps(s, p, n + 1) =
        IF Counts(s[n + 1], p) THEN Bumps(s, p, n) \cup {n + 1} ELSE Bumps(s, p, n)
  <2>1. 1 .. (n + 1) = (1 .. n) \cup {n + 1}
    OBVIOUS
  <2>2. QED
    BY <2>1 DEF Bumps, Counts
<1>4. Cardinality(Bumps(s, p, n) \cup {n + 1}) = Cardinality(Bumps(s, p, n)) + 1
  BY <1>1, FS_AddElement, Zenon
<1>5. CountOf(s, p, n) \in Nat
  BY <1>1, FS_CardinalityType DEF CountOf
<1>6. QED
  BY <1>2, <1>3, <1>4, <1>5 DEF CountOf

LEMMA CountSame ==
  ASSUME NEW s, NEW t, NEW p, NEW n \in Nat, \A i \in 1 .. n : s[i] = t[i]
  PROVE  CountOf(s, p, n) = CountOf(t, p, n)
<1>1. Bumps(s, p, n) = Bumps(t, p, n)
  BY DEF Bumps
<1>2. QED
  BY <1>1 DEF CountOf

\* When no write fails an append counts exactly the paths of its event.
LEMMA AppendCounts ==
  ASSUME NoFaults, LogTypeOK, ~openLine, NEW e \in Line, TryAppend(e)
  PROVE  /\ ~openLine'
         /\ \A p : /\ CountOf(log, p, Len(log)) \in Nat
                   /\ CountOf(log', p, Len(log')) =
                        IF Counts(e, p) THEN CountOf(log, p, Len(log)) + 1
                                        ELSE CountOf(log, p, Len(log))
<1>1. /\ ~openLine' /\ Len(log) \in Nat /\ Len(log') = Len(log) + 1
      /\ log'[Len(log) + 1] = e
      /\ \A i \in 1 .. Len(log) : log'[i] = log[i]
  BY AppendWrites
<1>2. ASSUME NEW p
      PROVE  /\ CountOf(log, p, Len(log)) \in Nat
             /\ CountOf(log', p, Len(log) + 1) =
                  IF Counts(e, p) THEN CountOf(log, p, Len(log)) + 1
                                  ELSE CountOf(log, p, Len(log))
  <2>1. CountOf(log', p, Len(log)) = CountOf(log, p, Len(log))
    BY <1>1, CountSame
  <2>2. CountOf(log, p, Len(log)) \in Nat
    BY <1>1, CountGrows
  <2>3. CountOf(log', p, Len(log) + 1) =
          IF Counts(log'[Len(log) + 1], p) THEN CountOf(log', p, Len(log)) + 1
                                           ELSE CountOf(log', p, Len(log))
    BY <1>1, CountGrows
  <2>4. QED
    BY <1>1, <2>1, <2>2, <2>3
<1>3. QED
  BY <1>1, <1>2

ClockParts ==
  /\ ~openLine
  /\ phase = "boot" => pos <= Len(log)
  /\ \A p \in Paths : /\ clocks[p] = CountOf(log, p, Applied)
                      /\ seen[p] <= CountOf(log, p, Len(log))

\* A step that leaves log and clocks alone and shows clients no more than the
\* clocks of a serving daemon.
LEMMA ClockLocal ==
  ASSUME ClockParts, ClockTypeOK, UNCHANGED <<log, openLine, clocks, phase, pos>>,
         \A p \in Paths : seen'[p] = seen[p] \/ (phase = "up" /\ seen'[p] = clocks[p])
  PROVE  ClockParts'
<1>1. ~openLine'
  BY Zenon DEF ClockParts
<1>2. phase' = "boot" => pos' <= Len(log')
  BY DEF ClockParts
<1>3. ASSUME NEW p \in Paths
      PROVE  clocks'[p] = CountOf(log, p, Applied) /\ seen'[p] <= CountOf(log, p, Len(log))
  <2>1. /\ clocks[p] = CountOf(log, p, Applied) /\ seen[p] <= CountOf(log, p, Len(log))
        /\ clocks'[p] = clocks[p] /\ clocks[p] \in Nat
    BY DEF ClockParts, ClockTypeOK
  <2>2. CASE seen'[p] = seen[p]
    BY <2>1, <2>2
  <2>3. CASE phase = "up" /\ seen'[p] = clocks[p]
    <3>1. CountOf(log, p, Applied) = CountOf(log, p, Len(log))
      BY <2>3 DEF Applied
    <3>2. seen'[p] <= clocks[p]
      BY <2>1, <2>3
    <3>3. QED
      BY <2>1, <3>1, <3>2
  <2>4. QED
    BY <2>2, <2>3
<1>4. Applied' = Applied
  BY DEF Applied
<1>5. QED
  BY <1>1, <1>2, <1>3, <1>4 DEF ClockParts, CountOf, Bumps

\* An append by a handler that counts up the paths of its event.
LEMMA ClockAppend ==
  ASSUME NoFaults, LogTypeOK, ClockTypeOK, seen \in [Paths -> Nat], ClockParts, phase = "up",
         UNCHANGED <<phase, seen>>, NEW e \in Line, TryAppend(e),
         \A p \in Paths : clocks'[p] = IF Counts(e, p) THEN clocks[p] + 1 ELSE clocks[p]
  PROVE  ClockParts'
<1>1. /\ ~openLine'
      /\ \A p : /\ CountOf(log, p, Len(log)) \in Nat
                /\ CountOf(log', p, Len(log')) =
                     IF Counts(e, p) THEN CountOf(log, p, Len(log)) + 1
                                     ELSE CountOf(log, p, Len(log))
  BY AppendCounts DEF ClockParts
<1>2. ASSUME NEW p \in Paths
      PROVE  clocks'[p] = CountOf(log', p, Len(log')) /\ seen'[p] <= CountOf(log', p, Len(log'))
  <2>1. /\ clocks[p] = CountOf(log, p, Len(log)) /\ seen[p] <= CountOf(log, p, Len(log))
        /\ seen[p] \in Nat /\ seen'[p] = seen[p]
    BY DEF ClockParts, Applied
  <2>2. QED
    BY <1>1, <2>1
<1>3. Applied' = Len(log')
  BY DEF Applied
<1>4. QED
  BY <1>1, <1>2, <1>3 DEF ClockParts, CountOf, Bumps

LEMMA ClockInit == Init => ClockInv
<1> SUFFICES ASSUME Init PROVE ClockInv
  OBVIOUS
<1>1. TypeOK /\ log = <<>> /\ Len(log) = 0 /\ pos = 0 /\ phase = "boot"
  BY TypeInit, EmptySeq DEF Init, LogInit
<1>2. ~openLine
  BY Zenon DEF Init, LogInit
<1>3. \A p \in Paths : clocks[p] = 0 /\ seen[p] = 0
  BY DEF Init, ZeroClocks
<1>4. \A p : CountOf(log, p, 0) = 0
  BY CountGrows
<1>5. QED
  BY <1>1, <1>2, <1>3, <1>4 DEF ClockInv, Applied, CountOf

\* The replay counts the line it reads.
LEMMA ClockReplay ==
  ASSUME TypeOK, ClockParts, ReplayLine
  PROVE  ClockParts'
<1>1. /\ Len(log) \in Nat /\ pos \in Nat /\ pos < Len(log) /\ phase = "boot" /\ phase' = "boot"
      /\ log' = log /\ openLine' = openLine /\ pos' = pos + 1 /\ seen' = seen
      /\ ReplayClockLine(log[pos + 1])
  BY LenProperties DEF ReplayLine, TypeOK, LogTypeOK, ServerTypeOK, logVars, clientVars
<1>2. ~openLine'
  BY <1>1, Zenon DEF ClockParts
<1>3. pos' <= Len(log')
  BY <1>1
<1>4. ASSUME NEW p \in Paths
      PROVE  clocks'[p] = CountOf(log, p, pos + 1) /\ seen'[p] <= CountOf(log, p, Len(log))
  <2>1. clocks[p] = CountOf(log, p, pos) /\ seen[p] <= CountOf(log, p, Len(log))
    BY <1>1 DEF ClockParts, Applied
  <2>2. clocks'[p] = IF Counts(log[pos + 1], p) THEN clocks[p] + 1 ELSE clocks[p]
    BY <1>1 DEF ReplayClockLine, Bumped, Counts
  <2>3. CountOf(log, p, pos + 1) =
          IF Counts(log[pos + 1], p) THEN CountOf(log, p, pos) + 1 ELSE CountOf(log, p, pos)
    BY <1>1, CountGrows
  <2>4. QED
    BY <1>1, <2>1, <2>2, <2>3
<1>5. Applied' = pos + 1
  BY <1>1 DEF Applied
<1>6. QED
  BY <1>1, <1>2, <1>3, <1>4, <1>5 DEF ClockParts, CountOf, Bumps

LEMMA ClockStep == NoFaults /\ ClockInv /\ [Next]_vars => ClockInv'
<1> SUFFICES ASSUME NoFaults, ClockInv, [Next]_vars PROVE ClockInv'
  OBVIOUS
<1>0. TypeOK /\ TypeOK' /\ ClockParts
  BY TypeStep DEF ClockInv, ClockParts, CountOf
<1> SUFFICES ClockParts'
  BY <1>0 DEF ClockInv, ClockParts, CountOf
<1>t. /\ LogTypeOK /\ LeaseTypeOK /\ ClockTypeOK /\ WorkOK
      /\ seen \in [Paths -> Nat] /\ clocks \in [Paths -> Nat]
      /\ todo \in [Clients -> SUBSET (Scopes \cup LeaseIds \cup Paths)]
  BY <1>0 DEF TypeOK, ServerTypeOK, ClockTypeOK
<1>1. CASE ReplayLine
  BY <1>0, <1>1, ClockReplay
<1>2. CASE Serve
  <2>1. /\ UNCHANGED <<log, openLine, clocks, seen>>
        /\ phase = "boot" /\ phase' = "up" /\ pos = Len(log)
    BY <1>2 DEF Serve, logVars, clientVars
  <2>2. ~openLine'
    BY <1>0, <2>1, Zenon DEF ClockParts
  <2>3. Applied' = Len(log) /\ Applied = Len(log)
    BY <2>1 DEF Applied
  <2>4. QED
    BY <1>0, <2>1, <2>2, <2>3 DEF ClockParts, CountOf, Bumps
<1>3. CASE Crash
  <2>1. /\ UNCHANGED <<log, openLine, seen>> /\ phase' = "boot" /\ pos' = 0
        /\ \A p \in Paths : clocks'[p] = 0
    BY <1>3 DEF Crash, logVars
  <2>2. ~openLine'
    BY <1>0, <2>1, Zenon DEF ClockParts
  <2>3. pos' <= Len(log') /\ Applied' = 0
    BY <1>t, <2>1, LenProperties DEF LogTypeOK, Applied
  <2>4. \A p : CountOf(log, p, 0) = 0
    BY CountGrows
  <2>5. QED
    BY <1>0, <2>1, <2>2, <2>3, <2>4, ZenonT(60) DEF ClockParts, CountOf, Bumps
<1>4. CASE GetClocks \/ UNCHANGED vars
  <2>1. UNCHANGED <<log, openLine, clocks, phase, pos>>
    BY <1>4 DEF GetClocks, vars, logVars
  <2>2. \A p \in Paths : seen'[p] = seen[p] \/ (phase = "up" /\ seen'[p] = clocks[p])
    BY <1>4, <1>t DEF GetClocks, vars, clientVars
  <2>3. QED
    BY <1>0, <1>t, <2>1, <2>2, ClockLocal
<1>5. ASSUME NEW c \in Clients, ClientSends(c) \/ Lock(c) \/ Unlock(c) \/ Reply(c)
      PROVE  ClockParts'
  <2>1. UNCHANGED <<log, openLine, clocks, phase, pos, seen>>
    BY <1>5 DEF ClientSends, SendAcquire, SendRelease, SendFileClockInc, SendEvent, SendUnlogged,
                Send, Lock, Unlock, Reply, logVars
  <2>2. QED
    BY <1>0, <1>t, <2>1, ClockLocal
<1>6. ASSUME NEW c \in Clients, ReplyClocks(c) PROVE ClockParts'
  <2>1. UNCHANGED <<log, openLine, clocks, phase, pos>> /\ phase = "up"
    BY <1>6 DEF ReplyClocks, logVars
  <2>2. \A p \in Paths : seen'[p] = seen[p] \/ seen'[p] = clocks[p]
    BY <1>6, <1>t DEF ReplyClocks
  <2>3. QED
    BY <1>0, <1>t, <2>1, <2>2, ClockLocal
<1>7. ASSUME NEW e \in Line, e.type # "file_clock_inc", TryAppend(e), phase = "up",
             UNCHANGED <<phase, clocks, seen>>
      PROVE  ClockParts'
  BY <1>0, <1>t, <1>7, ClockAppend DEF Counts
<1>8. ASSUME NEW c \in Clients, AcquireScope(c) PROVE ClockParts'
  <2>1. /\ phase = "up" /\ UNCHANGED <<phase, clocks, seen, pos>>
        /\ \/ UNCHANGED logVars
           \/ \E l \in LeaseIds, k \in Scopes : TryAppend(LeaseIssued(l, OwnerOf[c], k))
    BY <1>t, <1>8 DEF AcquireScope, Issue, WorkOK
  <2>2. CASE UNCHANGED logVars
    BY <1>0, <1>t, <2>1, <2>2, ClockLocal DEF logVars
  <2>3. ASSUME NEW l \in LeaseIds, NEW k \in Scopes, TryAppend(LeaseIssued(l, OwnerOf[c], k))
        PROVE  ClockParts'
    <3>1. LeaseIssued(l, OwnerOf[c], k) \in Line
      BY LinesAreLines
    <3>2. LeaseIssued(l, OwnerOf[c], k).type # "file_clock_inc"
      BY DEF LeaseIssued
    <3>3. QED
      BY <1>7, <2>1, <2>3, <3>1, <3>2
  <2>4. QED
    BY <2>1, <2>2, <2>3
<1>9. ASSUME NEW c \in Clients, ReleaseId(c) PROVE ClockParts'
  <2>1. /\ phase = "up" /\ UNCHANGED <<phase, clocks, seen, pos>>
        /\ \/ UNCHANGED logVars
           \/ \E l \in LeaseIds : TryAppend(LeaseReleased(l))
    BY <1>t, <1>9 DEF ReleaseId, Drop, WorkOK
  <2>2. CASE UNCHANGED logVars
    BY <1>0, <1>t, <2>1, <2>2, ClockLocal DEF logVars
  <2>3. ASSUME NEW l \in LeaseIds, TryAppend(LeaseReleased(l)) PROVE ClockParts'
    <3>1. LeaseReleased(l) \in Line /\ LeaseReleased(l).type # "file_clock_inc"
      BY LinesAreLines DEF LeaseReleased
    <3>2. QED
      BY <1>7, <2>1, <2>3, <3>1
  <2>4. QED
    BY <2>1, <2>2, <2>3
<1>10. ASSUME NEW c \in Clients, IncFileClock(c) PROVE ClockParts'
  <2> DEFINE e == FileClockInc(todo[c])
  <2>1. /\ TryAppend(e) /\ e \in Line /\ phase = "up" /\ UNCHANGED <<phase, seen>>
        /\ clocks' = Bumped(todo[c])
    BY <1>t, <1>10, LinesAreLines DEF IncFileClock, Increment, IncrementFails, TryAppend, WorkOK
  <2>2. \A p : Counts(e, p) <=> p \in todo[c]
    BY DEF Counts, FileClockInc
  <2> HIDE DEF e
  <2>3. \A p \in Paths : clocks'[p] = IF Counts(e, p) THEN clocks[p] + 1 ELSE clocks[p]
    BY <2>1, <2>2 DEF Bumped
  <2>4. QED
    BY <1>0, <1>t, <2>1, <2>3, ClockAppend
<1>11. ASSUME NEW c \in Clients, AppendEvent(c) PROVE ClockParts'
  <2>1. /\ TryAppend(Other) /\ Other \in Line /\ Other.type # "file_clock_inc"
        /\ phase = "up" /\ UNCHANGED <<phase, clocks, seen>>
    BY <1>11, LinesAreLines DEF AppendEvent, TryAppend, Other, Blank
  <2>2. QED
    BY <1>7, <2>1
<1>12. QED
  BY <1>1, <1>2, <1>3, <1>4, <1>5, <1>6, <1>8, <1>9, <1>10, <1>11 DEF Next, Handler

\* Without failing writes, whoever the clients are, a serving daemon never has a
\* clock below one it has shown before, across restarts too.
THEOREM ClocksKept ==
  ASSUME NoFaults
  PROVE  Spec => []ClocksNeverBehind
<1>1. ClockInv /\ [Next]_vars => ClockInv'
  BY ClockStep
<1>2. ClockInv => ClocksNeverBehind
  BY DEF ClockInv, ClocksNeverBehind, Applied
<1>3. QED
  BY <1>1, <1>2, ClockInit, PTL DEF Spec
-----------------------------------------------------------------------------
(* The daemon implements LeaseService.  First what the log says, as        *)
(* functions of the log; then one lemma per kind of step.                  *)

LineOf(s, l)  == CHOOSE i \in 1 .. Len(s) : Issues(s[i], l)
ScopeIn(s, l) == s[LineOf(s, l)].scope
OwnerIn(s, l) == s[LineOf(s, l)].owner
Live(s, l)    == l \in LeaseIds /\ LiveIn(s, l, Len(s))
LivesOn(s, k) == {l \in LeaseIds : LiveIn(s, l, Len(s)) /\ ScopeIn(s, l) = k}
HolderIn(s, k) ==
  IF LivesOn(s, k) = {} THEN None ELSE OwnerIn(s, AnyOf(LivesOn(s, k)))

\* What ExactInv says of the log alone.
SoundLog(s) ==
  /\ Len(s) \in Nat
  /\ \A i \in 1 .. Len(s) : s[i].type = "lease_issued" =>
       s[i].id \in LeaseIds /\ s[i].owner \in Owners /\ s[i].scope \in Scopes
  /\ \A l : \A i, j \in 1 .. Len(s) : Issues(s[i], l) /\ Issues(s[j], l) => i = j
  /\ \A i, j \in 1 .. Len(s) :
       s[i].type = "lease_issued" /\ s[j].type = "lease_issued" /\ j < i
         /\ s[i].scope = s[j].scope =>
         \E m \in (j + 1) .. (i - 1) : Releases(s[m], s[j].id)

LEMMA ExactIsSound == ExactInv => SoundLog(log)
<1> SUFFICES ASSUME ExactInv PROVE SoundLog(log)
  OBVIOUS
<1>1. Len(log) \in Nat /\ LogTypeOK
  BY LenProperties DEF ExactInv, LeaseInv, TypeOK, LogTypeOK
<1>2. \A i \in 1 .. Len(log) : log[i].type = "lease_issued" =>
        log[i].id \in LeaseIds /\ log[i].owner \in Owners /\ log[i].scope \in Scopes
  BY <1>1, LogLine, LineFields
<1>3. \A l : \A i, j \in 1 .. Len(log) : Issues(log[i], l) /\ Issues(log[j], l) => i = j
  BY DEF ExactInv, LeaseInv, IssuedOnce, Issued, Issues
<1>4. \A i, j \in 1 .. Len(log) :
        log[i].type = "lease_issued" /\ log[j].type = "lease_issued" /\ j < i
          /\ log[i].scope = log[j].scope =>
          \E m \in (j + 1) .. (i - 1) : Releases(log[m], log[j].id)
  BY DEF ExactInv, LogExclusive, Issued, Released, Releases
<1>5. QED
  BY <1>1, <1>2, <1>3, <1>4 DEF SoundLog

\* The line that issued a live lease.
LEMMA LiveLine ==
  ASSUME NEW s, SoundLog(s), NEW l, LiveIn(s, l, Len(s))
  PROVE  /\ LineOf(s, l) \in 1 .. Len(s) /\ Issues(s[LineOf(s, l)], l)
         /\ \A j \in (LineOf(s, l) + 1) .. Len(s) : ~Releases(s[j], l)
         /\ Live(s, l) /\ ScopeIn(s, l) \in Scopes /\ OwnerIn(s, l) \in Owners
<1>1. PICK i \in 1 .. Len(s) : Issues(s[i], l) /\ \A j \in (i + 1) .. Len(s) : ~Releases(s[j], l)
  BY DEF LiveIn
<1>2. LineOf(s, l) \in 1 .. Len(s) /\ Issues(s[LineOf(s, l)], l)
  BY <1>1 DEF LineOf
<1>3. LineOf(s, l) = i
  BY <1>1, <1>2 DEF SoundLog
<1>4. l \in LeaseIds /\ ScopeIn(s, l) \in Scopes /\ OwnerIn(s, l) \in Owners
  BY <1>2 DEF SoundLog, Issues, ScopeIn, OwnerIn
<1>5. QED
  BY <1>1, <1>2, <1>3, <1>4 DEF Live

\* Two live leases never have one scope.
LEMMA OneLive ==
  ASSUME NEW s, SoundLog(s), NEW l, NEW m, Live(s, l), Live(s, m), ScopeIn(s, l) = ScopeIn(s, m)
  PROVE  l = m
<1>1. ASSUME NEW a, NEW b, Live(s, a), Live(s, b), ScopeIn(s, a) = ScopeIn(s, b),
             LineOf(s, b) < LineOf(s, a)
      PROVE  FALSE
  <2>1. /\ LineOf(s, a) \in 1 .. Len(s) /\ LineOf(s, b) \in 1 .. Len(s) /\ Len(s) \in Nat
        /\ Issues(s[LineOf(s, a)], a) /\ Issues(s[LineOf(s, b)], b)
        /\ \A j \in (LineOf(s, b) + 1) .. Len(s) : ~Releases(s[j], b)
    BY <1>1, LiveLine DEF Live, SoundLog
  <2>2. PICK j \in (LineOf(s, b) + 1) .. (LineOf(s, a) - 1) : Releases(s[j], b)
    BY <1>1, <2>1, SMTT(40) DEF SoundLog, Issues, ScopeIn
  <2>3. j \in (LineOf(s, b) + 1) .. Len(s)
    BY <2>1, <2>2
  <2>4. QED
    BY <2>1, <2>2, <2>3
<1>2. LineOf(s, l) \in 1 .. Len(s) /\ LineOf(s, m) \in 1 .. Len(s) /\ Len(s) \in Nat
      /\ Issues(s[LineOf(s, l)], l) /\ Issues(s[LineOf(s, m)], m)
  BY LiveLine DEF Live, SoundLog
<1>3. LineOf(s, l) = LineOf(s, m)
  BY <1>1, <1>2
<1>4. QED
  BY <1>2, <1>3 DEF Issues

\* The holder of a live lease's scope is the lease's owner.
LEMMA HolderIsOwner ==
  ASSUME NEW s, SoundLog(s), NEW l, Live(s, l)
  PROVE  HolderIn(s, ScopeIn(s, l)) = OwnerIn(s, l)
<1> DEFINE k == ScopeIn(s, l)
<1>1. l \in LivesOn(s, k)
  BY DEF LivesOn, Live
<1>2. AnyOf(LivesOn(s, k)) \in LivesOn(s, k)
  BY <1>1 DEF AnyOf
<1>3. \A m \in LivesOn(s, k) : m = l
  BY OneLive DEF LivesOn, Live
<1>4. AnyOf(LivesOn(s, k)) = l
  BY <1>2, <1>3
<1>5. QED
  BY <1>1, <1>4 DEF HolderIn

LEMMA NoHolder ==
  ASSUME NEW s, NEW k, \A l : Live(s, l) => ScopeIn(s, l) # k
  PROVE  HolderIn(s, k) = None
BY DEF HolderIn, LivesOn, Live

\* t has the lines of s and perhaps more.
Extends(t, s) == Len(s) <= Len(t) /\ \A i \in 1 .. Len(s) : t[i] = s[i]

\* A longer log says the same of the scope and owner of a lease.
LEMMA LineStays ==
  ASSUME NEW s, NEW t, SoundLog(s), SoundLog(t), Extends(t, s), NEW l, Live(s, l)
  PROVE  ScopeIn(t, l) = ScopeIn(s, l) /\ OwnerIn(t, l) = OwnerIn(s, l)
<1>1. LineOf(s, l) \in 1 .. Len(s) /\ Issues(s[LineOf(s, l)], l)
  BY LiveLine DEF Live
<1>2. LineOf(s, l) \in 1 .. Len(t) /\ t[LineOf(s, l)] = s[LineOf(s, l)]
  BY <1>1 DEF Extends, SoundLog
<1>3. LineOf(t, l) \in 1 .. Len(t) /\ Issues(t[LineOf(t, l)], l)
  BY <1>1, <1>2 DEF LineOf
<1>4. LineOf(t, l) = LineOf(s, l)
  BY <1>1, <1>2, <1>3 DEF SoundLog
<1>5. QED
  BY <1>2, <1>4 DEF ScopeIn, OwnerIn

\* The holder of a scope changes only with the live leases on it.
LEMMA HolderStays ==
  ASSUME NEW s, NEW t, SoundLog(s), SoundLog(t), Extends(t, s), NEW k,
         \A l : (Live(s, l) /\ ScopeIn(s, l) = k) <=> (Live(t, l) /\ ScopeIn(t, l) = k)
  PROVE  HolderIn(t, k) = HolderIn(s, k)
<1>1. CASE \E l : Live(s, l) /\ ScopeIn(s, l) = k
  <2>1. PICK l : Live(s, l) /\ ScopeIn(s, l) = k
    BY <1>1
  <2>2. HolderIn(s, k) = OwnerIn(s, l) /\ HolderIn(t, k) = OwnerIn(t, l)
    BY <2>1, HolderIsOwner
  <2>3. QED
    BY <2>1, <2>2, LineStays
<1>2. CASE ~\E l : Live(s, l) /\ ScopeIn(s, l) = k
  BY <1>2, NoHolder
<1>3. QED
  BY <1>1, <1>2
LEMMA MappedByLog ==
  /\ Holders = [k \in Scopes |-> HolderIn(log, k)]
  /\ Holders' = [k \in Scopes |-> HolderIn(log', k)]
  /\ Relied = [c \in Clients |-> {ScopeIn(log, l) : l \in held[c]}]
  /\ Relied' = [c \in Clients |-> {ScopeIn(log', l) : l \in held'[c]}]
<1>1. \A l : IssueLine(l) = LineOf(log, l) /\ IssueLine(l)' = LineOf(log', l)
  BY DEF IssueLine, LineOf, IssuedAt, Issues
<1>2. \A l : (LiveAfter(l, Len(log)) <=> LiveIn(log, l, Len(log)))
             /\ (LiveAfter(l, Len(log))' <=> LiveIn(log', l, Len(log')))
  BY LiveIsLiveIn
<1>3. ASSUME NEW k PROVE LoggedHolder(k) = HolderIn(log, k)
  <2>1. LeasesOn(k) = LivesOn(log, k)
    BY <1>1, <1>2 DEF LeasesOn, LivesOn, ScopeIn
  <2>2. QED
    BY <1>1, <2>1 DEF LoggedHolder, HolderIn, OwnerIn
<1>4. ASSUME NEW k PROVE LoggedHolder(k)' = HolderIn(log', k)
  <2>1. LeasesOn(k)' = LivesOn(log', k)
    BY <1>1, <1>2 DEF LeasesOn, LivesOn, ScopeIn
  <2>2. QED
    BY <1>1, <2>1 DEF LoggedHolder, HolderIn, OwnerIn
<1>5. Relied = [c \in Clients |-> {ScopeIn(log, l) : l \in held[c]}]
  BY <1>1 DEF Relied, ScopeIn
<1>6. Relied' = [c \in Clients |-> {ScopeIn(log', l) : l \in held'[c]}]
  BY <1>1 DEF Relied, ScopeIn
<1>7. QED
  BY <1>3, <1>4, <1>5, <1>6 DEF Holders

\* The leases a client relies on or is about to be told are live in the log, in
\* its owner's name.
LEMMA ToldInLog ==
  ASSUME ExactInv, NEW c \in Clients, NEW l \in held[c] \cup got[c]
  PROVE  Live(log, l) /\ ScopeIn(log, l) \in Scopes /\ OwnerIn(log, l) = OwnerOf[c]
<1>1. SoundLog(log) /\ LiveIn(log, l, Len(log))
  BY ExactIsSound, LiveIsLiveIn DEF ExactInv, ToldLive
<1>2. /\ LineOf(log, l) \in 1 .. Len(log) /\ Issues(log[LineOf(log, l)], l)
      /\ Live(log, l) /\ ScopeIn(log, l) \in Scopes
  BY <1>1, LiveLine
<1>3. l \in Told(c)
  BY DEF ExactInv, RequestsApart, Told
<1>4. log[LineOf(log, l)].owner = OwnerOf[c]
  BY <1>2, <1>3 DEF ExactInv, LeaseInv, ToldOwned, Issued, Issues
<1>5. QED
  BY <1>2, <1>4 DEF OwnerIn

LEMMA ReliedStays ==
  ASSUME ExactInv, SoundLog(log'), Extends(log', log), UNCHANGED held
  PROVE  Relied' = Relied
<1>1. ASSUME NEW c \in Clients, NEW l \in held[c] PROVE ScopeIn(log', l) = ScopeIn(log, l)
  BY ToldInLog, ExactIsSound, LineStays
<1>2. QED
  BY <1>1, MappedByLog

\* A step that leaves the live leases as they are, and what clients rely on.
LEMMA QuietRefines ==
  ASSUME ExactInv, SoundLog(log'), Extends(log', log), UNCHANGED held,
         \A l : Live(log', l) <=> Live(log, l)
  PROVE  UNCHANGED <<Holders, Relied>>
<1>1. SoundLog(log)
  BY ExactIsSound
<1>2. \A l : Live(log, l) => ScopeIn(log', l) = ScopeIn(log, l)
  BY <1>1, LineStays
<1>3. \A k : HolderIn(log', k) = HolderIn(log, k)
  BY <1>1, <1>2, HolderStays
<1>4. QED
  BY <1>3, ReliedStays, MappedByLog

\* When no write fails an append extends the log by its event.
LEMMA AppendExtends ==
  ASSUME NoFaults, ExactInv, NEW e \in Line, TryAppend(e)
  PROVE  /\ Extends(log', log) /\ Len(log) \in Nat /\ Len(log') = Len(log) + 1
         /\ log'[Len(log) + 1] = e
         /\ \A l \in LeaseIds :
              Live(log', l) <=> Issues(e, l) \/ (Live(log, l) /\ ~Releases(e, l))
<1>1. /\ Len(log) \in Nat /\ Len(log') = Len(log) + 1 /\ log'[Len(log) + 1] = e
      /\ \A i \in 1 .. Len(log) : log'[i] = log[i]
      /\ \A l : LiveAfter(l, Len(log))' <=>
                Issues(e, l) \/ (LiveAfter(l, Len(log)) /\ ~Releases(e, l))
  BY AppendWrites DEF ExactInv, LeaseInv, TypeOK
<1>2. \A l : (LiveAfter(l, Len(log)) <=> LiveIn(log, l, Len(log)))
             /\ (LiveAfter(l, Len(log))' <=> LiveIn(log', l, Len(log')))
  BY LiveIsLiveIn
<1>3. QED
  BY <1>1, <1>2 DEF Extends, Live

LEMMA IssueRefines ==
  ASSUME NoFaults, ExactInv, SoundLog(log'), NEW l \in LeaseIds, NEW k \in Scopes,
         NEW c \in Clients, Issue(l, OwnerOf[c], k), UNCHANGED held
  PROVE  Service!Grant(OwnerOf[c], k)
<1> DEFINE e == LeaseIssued(l, OwnerOf[c], k)
           n == Len(log)
<1>1. /\ e \in Line /\ TryAppend(e) /\ e.owner = OwnerOf[c] /\ e.scope = k
      /\ \A m : (Issues(e, m) <=> m = l) /\ ~Releases(e, m)
  BY LinesAreLines DEF LeaseIssued, Issue, Issues, Releases
<1> HIDE DEF e
<1>2. /\ Extends(log', log) /\ n \in Nat /\ Len(log') = n + 1 /\ log'[n + 1] = e
      /\ \A m \in LeaseIds : Live(log', m) <=> m = l \/ Live(log, m)
  BY <1>1, AppendExtends
<1>3. SoundLog(log)
  BY ExactIsSound
<1>4. \A i \in 1 .. n + 1 : Issues(log'[i], l) => i = n + 1
  BY <1>1, <1>2 DEF SoundLog
<1>5. ~Live(log, l)
  <2> SUFFICES ASSUME Live(log, l) PROVE FALSE
    OBVIOUS
  <2>1. LineOf(log, l) \in 1 .. n /\ Issues(log[LineOf(log, l)], l)
    BY <1>3, LiveLine DEF Live
  <2>2. QED
    BY <1>2, <1>4, <2>1 DEF Extends
<1>6. Live(log', l) /\ ScopeIn(log', l) = k /\ OwnerIn(log', l) = OwnerOf[c]
  <2>1. Live(log', l)
    BY <1>2
  <2>2. LineOf(log', l) = n + 1
    BY <1>2, <1>4, <2>1, LiveLine DEF Live
  <2>3. QED
    BY <1>1, <1>2, <2>1, <2>2 DEF ScopeIn, OwnerIn
<1>7. \A m : Live(log, m) => Live(log', m) /\ m # l /\ ScopeIn(log', m) = ScopeIn(log, m)
  BY <1>2, <1>3, <1>5, LineStays DEF Live
<1>8. \A m : Live(log, m) => ScopeIn(log, m) # k
  BY <1>6, <1>7, OneLive
<1>9. HolderIn(log, k) = None /\ HolderIn(log', k) = OwnerOf[c]
  <2>1. HolderIn(log, k) = None
    BY <1>8, NoHolder
  <2>2. QED
    BY <1>6, <2>1, HolderIsOwner
<1>10. ASSUME NEW j \in Scopes, j # k PROVE HolderIn(log', j) = HolderIn(log, j)
  <2>1. \A m : (Live(log, m) /\ ScopeIn(log, m) = j) <=> (Live(log', m) /\ ScopeIn(log', m) = j)
    BY <1>2, <1>6, <1>7, <1>10 DEF Live
  <2>2. QED
    BY <1>2, <1>3, <2>1, HolderStays
<1>11. Relied' = Relied
  BY <1>2, ReliedStays
<1>12. Holders[k] = None /\ Holders' = [Holders EXCEPT ![k] = OwnerOf[c]]
  BY <1>9, <1>10, MappedByLog
<1>13. QED
  BY <1>11, <1>12 DEF Service!Grant

LEMMA DropRefines ==
  ASSUME NoFaults, ExactInv, ExactInv', SoundLog(log'), phase = "up", NEW l \in LeaseIds,
         Active(l), Drop(l),
         UNCHANGED held
  PROVE  \E k \in Scopes : Service!Free(k)
<1> DEFINE e == LeaseReleased(l)
           k == ScopeIn(log, l)
<1>1. /\ e \in Line /\ TryAppend(e)
      /\ \A m : ~Issues(e, m) /\ (Releases(e, m) <=> m = l)
  BY LinesAreLines DEF LeaseReleased, Drop, Issues, Releases
<1> HIDE DEF e
<1>2. /\ Extends(log', log)
      /\ \A m \in LeaseIds : Live(log', m) <=> Live(log, m) /\ m # l
  BY <1>1, AppendExtends
<1>3. SoundLog(log)
  BY ExactIsSound
<1>4. Live(log, l) /\ ~Live(log', l)
  <2>1. LiveIn(log, l, Len(log))
    BY LiveIsLiveIn DEF ExactInv, TableIsReplay, Applied
  <2>2. QED
    BY <1>2, <2>1 DEF Live
<1>5. k \in Scopes /\ OwnerIn(log, l) \in Owners
  BY <1>3, <1>4, LiveLine DEF Live
<1>6. \A m : Live(log', m) => Live(log, m) /\ m # l
  BY <1>2 DEF Live
<1>7. \A m : Live(log, m) => ScopeIn(log', m) = ScopeIn(log, m)
  BY <1>2, <1>3, LineStays
<1>8. HolderIn(log, k) # None /\ HolderIn(log', k) = None
  <2>1. HolderIn(log, k) = OwnerIn(log, l)
    BY <1>3, <1>4, HolderIsOwner
  <2>2. \A m : Live(log', m) => ScopeIn(log', m) # k
    BY <1>3, <1>4, <1>6, <1>7, OneLive
  <2>3. QED
    BY <1>5, <2>1, <2>2, NoHolder
<1>9. ASSUME NEW j \in Scopes, j # k PROVE HolderIn(log', j) = HolderIn(log, j)
  <2>1. \A m : (Live(log, m) /\ ScopeIn(log, m) = j) <=> (Live(log', m) /\ ScopeIn(log', m) = j)
    BY <1>2, <1>6, <1>7, <1>9 DEF Live
  <2>2. QED
    BY <1>2, <1>3, <2>1, HolderStays
<1>10. ASSUME NEW c \in Clients, k \in Relied[c] PROVE FALSE
  <2>1. PICK m \in held[c] : ScopeIn(log, m) = k
    BY <1>10, MappedByLog
  <2>2. m = l
    BY <1>3, <1>4, <2>1, ToldInLog, OneLive
  <2>3. LiveIn(log', m, Len(log'))
    BY <2>1, LiveIsLiveIn DEF ExactInv, ToldLive
  <2>4. QED
    BY <1>4, <2>2, <2>3 DEF Live
<1>11. Holders[k] # None /\ Holders' = [Holders EXCEPT ![k] = None]
  BY <1>5, <1>8, <1>9, MappedByLog
<1>12. Relied' = Relied
  BY <1>2, <1>3, ReliedStays
<1> HIDE DEF k
<1>13. Service!Free(k)
  BY <1>10, <1>11, <1>12 DEF Service!Free
<1>14. QED
  BY <1>5, <1>13
\* A client that is told its leases, or gives some up.
LEMMA HeldRefines ==
  ASSUME ExactInv, UNCHANGED log, NEW c \in Clients, NEW L,
         \/ held' = [held EXCEPT ![c] = @ \cup got[c]]
         \/ held' = [held EXCEPT ![c] = @ \ L]
  PROVE  Service!ServiceNext
<1>0. held \in [Clients -> SUBSET LeaseIds]
  BY DEF ExactInv, LeaseInv, TypeOK, ServerTypeOK
<1>1. Holders' = Holders
  BY MappedByLog
<1>2. CASE held' = [held EXCEPT ![c] = @ \cup got[c]]
  <2> DEFINE K == {ScopeIn(log, l) : l \in got[c]}
  <2>1. K \in SUBSET Scopes
    BY ToldInLog
  <2>2. \A k \in K : Holders[k] = OwnerOf[c]
    BY ExactIsSound, ToldInLog, HolderIsOwner, MappedByLog
  <2>3. Relied' = [Relied EXCEPT ![c] = @ \cup K]
    <3>1. \A d \in Clients : held'[d] = IF d = c THEN held[c] \cup got[c] ELSE held[d]
      BY <1>0, <1>2
    <3>2. \A d \in Clients : Relied'[d] = IF d = c THEN Relied[c] \cup K ELSE Relied[d]
      BY <3>1, MappedByLog
    <3> HIDE DEF K
    <3>3. QED
      BY <3>2, MappedByLog
  <2> HIDE DEF K
  <2>4. Service!Tell(c, K)
    BY <1>1, <2>2, <2>3 DEF Service!Tell
  <2>5. QED
    BY <2>1, <2>4 DEF Service!ServiceNext
<1>3. CASE held' = [held EXCEPT ![c] = @ \ L]
  <2> DEFINE K == Relied[c] \ Relied'[c]
  <2>1. /\ Relied'[c] \subseteq Relied[c] /\ Relied[c] \subseteq Scopes
        /\ \A d \in Clients \ {c} : Relied'[d] = Relied[d]
    BY <1>0, <1>3, ToldInLog, MappedByLog
  <2>2. Relied' = [Relied EXCEPT ![c] = @ \ K]
    BY <2>1, MappedByLog, ZenonT(60)
  <2>3. K \in SUBSET Scopes
    BY <2>1
  <2> HIDE DEF K
  <2>4. Service!GiveUp(c, K)
    BY <1>1, <2>2 DEF Service!GiveUp
  <2>5. QED
    BY <2>3, <2>4 DEF Service!ServiceNext
<1>4. QED
  BY <1>2, <1>3

\* A step that leaves the log and what clients rely on alone.
LEMMA StutterRefines ==
  ASSUME UNCHANGED <<log, held>>
  PROVE  UNCHANGED Service!serviceVars
<1>1. Holders' = Holders /\ Relied' = Relied
  BY MappedByLog
<1>2. QED
  BY <1>1 DEF Service!serviceVars

\* An event that is neither an issue nor a release.
LEMMA EventRefines ==
  ASSUME NoFaults, ExactInv, SoundLog(log'), NEW e \in Line,
         e.type \notin {"lease_issued", "lease_released"}, TryAppend(e), UNCHANGED held
  PROVE  UNCHANGED Service!serviceVars
<1>1. Extends(log', log) /\ \A l \in LeaseIds : Live(log', l) <=> Live(log, l)
  BY AppendExtends DEF Issues, Releases
<1>2. UNCHANGED <<Holders, Relied>>
  BY <1>1, QuietRefines DEF Live
<1>3. QED
  BY <1>2 DEF Service!serviceVars

LEMMA ServiceInitRefines == Init => Service!ServiceInit
<1> SUFFICES ASSUME Init PROVE Service!ServiceInit
  OBVIOUS
<1>1. Len(log) = 0 /\ \A c \in Clients : held[c] = {}
  BY EmptySeq DEF Init, LogInit
<1>2. \A l : ~Live(log, l)
  BY <1>1 DEF Live, LiveIn
<1>3. \A k : HolderIn(log, k) = None
  BY <1>2, NoHolder
<1>4. Holders = [k \in Scopes |-> None]
  BY <1>3, MappedByLog
<1>5. Relied = [c \in Clients |-> {}]
  BY <1>1, MappedByLog
<1>6. QED
  BY <1>4, <1>5 DEF Service!ServiceInit

LEMMA ServiceStepRefines ==
  ASSUME NoFaults, ExactInv, ExactInv', SoundLog(log'), [Next]_vars
  PROVE  [Service!ServiceNext]_(Service!serviceVars)
<1>t. /\ todo \in [Clients -> SUBSET (Scopes \cup LeaseIds \cup Paths)] /\ WorkOK
  BY DEF ExactInv, LeaseInv, TypeOK, ServerTypeOK
<1>1. CASE ReplayLine \/ Serve \/ Crash \/ GetClocks \/ UNCHANGED vars
  <2>1. UNCHANGED <<log, held>>
    BY <1>1 DEF ReplayLine, Serve, Crash, GetClocks, vars, logVars, clientVars
  <2>2. QED
    BY <2>1, StutterRefines
<1>2. ASSUME NEW c \in Clients, ClientSends(c) PROVE [Service!ServiceNext]_(Service!serviceVars)
  <2>1. UNCHANGED log
    BY <1>2 DEF ClientSends, SendAcquire, SendRelease, SendFileClockInc, SendEvent,
                SendUnlogged, Send, logVars
  <2>2. CASE SendRelease(c)
    <3>1. PICK L : held' = [held EXCEPT ![c] = @ \ L]
      BY <2>2 DEF SendRelease
    <3>2. Service!ServiceNext
      BY <2>1, <3>1, HeldRefines
    <3>3. QED
      BY <3>2
  <2>3. CASE ~SendRelease(c)
    <3>1. UNCHANGED held
      BY <1>2, <2>3 DEF ClientSends, SendAcquire, SendFileClockInc, SendEvent, SendUnlogged
    <3>2. QED
      BY <2>1, <3>1, StutterRefines
  <2>4. QED
    BY <2>2, <2>3
<1>3. ASSUME NEW c \in Clients, Lock(c) \/ Unlock(c) \/ ReplyClocks(c)
      PROVE  [Service!ServiceNext]_(Service!serviceVars)
  <2>1. UNCHANGED <<log, held>>
    BY <1>3 DEF Lock, Unlock, ReplyClocks, logVars
  <2>2. QED
    BY <2>1, StutterRefines
<1>4. ASSUME NEW c \in Clients, AcquireScope(c)
      PROVE  [Service!ServiceNext]_(Service!serviceVars)
  <2>1. /\ UNCHANGED held
        /\ \/ UNCHANGED log
           \/ \E l \in LeaseIds, k \in Scopes : Issue(l, OwnerOf[c], k)
    BY <1>t, <1>4 DEF AcquireScope, WorkOK, logVars
  <2>2. CASE UNCHANGED log
    BY <2>1, <2>2, StutterRefines
  <2>3. ASSUME NEW l \in LeaseIds, NEW k \in Scopes, Issue(l, OwnerOf[c], k)
        PROVE  Service!ServiceNext
    <3>1. Service!Grant(OwnerOf[c], k) /\ OwnerOf[c] \in Owners
      BY <2>1, <2>3, IssueRefines
    <3>2. QED
      BY <3>1 DEF Service!ServiceNext
  <2>4. QED
    BY <2>1, <2>2, <2>3
<1>5. ASSUME NEW c \in Clients, ReleaseId(c) PROVE [Service!ServiceNext]_(Service!serviceVars)
  <2>1. PICK l \in LeaseIds : Drop(l)
    BY <1>t, <1>5 DEF ReleaseId, WorkOK
  <2>2. phase = "up" /\ UNCHANGED held
    BY <1>5 DEF ReleaseId
  <2>3. CASE Active(l)
    <3>1. PICK k \in Scopes : Service!Free(k)
      BY <2>1, <2>2, <2>3, DropRefines
    <3>2. Service!ServiceNext
      BY <3>1 DEF Service!ServiceNext
    <3>3. QED
      BY <3>2
  <2>4. CASE ~Active(l)
    <3>1. UNCHANGED log
      BY <2>1, <2>4 DEF Drop, logVars
    <3>2. QED
      BY <2>2, <3>1, StutterRefines
  <2>5. QED
    BY <2>3, <2>4
<1>6. ASSUME NEW c \in Clients, IncFileClock(c) PROVE UNCHANGED Service!serviceVars
  <2>1. /\ TryAppend(FileClockInc(todo[c])) /\ FileClockInc(todo[c]) \in Line
        /\ UNCHANGED held
    BY <1>t, <1>6, LinesAreLines
       DEF IncFileClock, Increment, IncrementFails, TryAppend, WorkOK
  <2>2. FileClockInc(todo[c]).type = "file_clock_inc"
    BY DEF FileClockInc
  <2>3. QED
    BY <2>1, <2>2, EventRefines
<1>7. ASSUME NEW c \in Clients, AppendEvent(c) PROVE UNCHANGED Service!serviceVars
  <2>1. TryAppend(Other) /\ Other \in Line /\ Other.type = "other" /\ UNCHANGED held
    BY <1>7, LinesAreLines DEF AppendEvent, TryAppend, Other, Blank
  <2>2. QED
    BY <2>1, EventRefines
<1>8. ASSUME NEW c \in Clients, Reply(c) PROVE [Service!ServiceNext]_(Service!serviceVars)
  <2>1. UNCHANGED log /\ (UNCHANGED held \/ held' = [held EXCEPT ![c] = @ \cup got[c]])
    BY <1>8 DEF Reply, logVars
  <2>2. CASE UNCHANGED held
    BY <2>1, <2>2, StutterRefines
  <2>3. CASE held' = [held EXCEPT ![c] = @ \cup got[c]]
    BY <2>1, <2>3, HeldRefines
  <2>4. QED
    BY <2>1, <2>2, <2>3
<1>9. QED
  BY <1>1, <1>2, <1>3, <1>4, <1>5, <1>6, <1>7, <1>8 DEF Next, Handler

\* Without failing writes and with an owner per client the daemon, crashes and
\* replays included, is the lease service of LeaseService: what leases.go:88-199
\* promises with no table, log or restart in it.
THEOREM DaemonIsLeaseService ==
  ASSUME NoFaults, OwnersApart
  PROVE  Spec => ImplementsLeaseService
<1> DEFINE Sound == SoundLog(log)
<1>0. ExactInv => Sound
  BY ExactIsSound
<1> HIDE DEF Sound
<1>1. ExactInv' => Sound'
  BY <1>0, PTL
<1>2. ExactInv /\ ExactInv' /\ [Next]_vars => [Service!ServiceNext]_(Service!serviceVars)
  BY <1>1, ServiceStepRefines DEF Sound
<1>3. Init /\ []ExactInv /\ [][Next]_vars => Service!ServiceSpec
  BY <1>2, ServiceInitRefines, PTL DEF Service!ServiceSpec
<1>4. QED
  BY <1>3, ExactInvariant, PTL DEF Spec, ImplementsLeaseService
=============================================================================
