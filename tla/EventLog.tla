------------------------------ MODULE EventLog ------------------------------
(***************************************************************************)
(* heaven/eventlog.go: the append-only JSONL file events.log.  A line is   *)
(* abstracted to what the boot-time replays read in it; the file is the    *)
(* sequence of its non-empty lines, plus one bit that tells whether the    *)
(* last line still lacks its newline (a short write leaves it so).         *)
(***************************************************************************)
EXTENDS Naturals, Sequences

CONSTANTS
  Owners,     \* owner_id values
  Scopes,     \* "scope_type:scope_value" keys
  Paths,      \* file paths
  LeaseIds,   \* ids generateID can return
  None,       \* the zero value of an id, an owner or a scope
  MaxFaults   \* bound: number of failing writes in a behaviour

ASSUME NoneAssumption == None \notin LeaseIds \cup Owners \cup Scopes
ASSUME FaultsAssumption == MaxFaults \in Nat

VARIABLES
  log,        \* the lines of events.log
  openLine,   \* the last line has no newline yet
  faults      \* failing writes so far

logVars == <<log, openLine, faults>>

LeaseIssued(l, o, k) ==
  [type |-> "lease_issued", id |-> l, owner |-> o, scope |-> k, paths |-> {}]
LeaseReleased(l) ==
  [type |-> "lease_released", id |-> l, owner |-> None, scope |-> None, paths |-> {}]
FileClockInc(P) ==
  [type |-> "file_clock_inc", id |-> None, owner |-> None, scope |-> None, paths |-> P]
Blank(t) == [type |-> t, id |-> None, owner |-> None, scope |-> None, paths |-> {}]
Other     == Blank("other")       \* valid JSON that no replay looks at
Malformed == Blank("malformed")   \* a line json.Unmarshal rejects

Line ==
  {LeaseIssued(l, o, k) : l \in LeaseIds, o \in Owners, k \in Scopes}
    \cup {LeaseReleased(l) : l \in LeaseIds}
    \cup {FileClockInc(P) : P \in SUBSET Paths}
    \cup {Other, Malformed}

LogTypeOK ==
  /\ log \in Seq(Line)
  /\ openLine \in BOOLEAN
  /\ openLine => log # <<>>
  /\ faults \in 0 .. MaxFaults

LogInit == log = <<>> /\ openLine = FALSE /\ faults = 0

(***************************************************************************)
(* The file is opened with O_APPEND, so new bytes follow whatever is       *)
(* there: after an unterminated line they extend that line, and two events *)
(* on one line are not JSON any more.                                      *)
(***************************************************************************)
Extended(e) ==
  IF openLine THEN [log EXCEPT ![Len(log)] = Malformed] ELSE Append(log, e)

\* Append returns nil: the event and its newline are in the file.
Written(e) ==
  /\ log' = Extended(e)
  /\ openLine' = FALSE
  /\ UNCHANGED faults

\* Append returns an error: the open failed or wrote nothing, or some bytes
\* of the event are in the file, or all of it except the newline.
WriteFails(e) ==
  /\ faults < MaxFaults
  /\ faults' = faults + 1
  /\ \/ UNCHANGED <<log, openLine>>
     \/ log' = Extended(Malformed) /\ openLine' = TRUE
     \/ log' = Extended(e) /\ openLine' = TRUE

\* A caller that ignores Append's error.
TryAppend(e) == Written(e) \/ WriteFails(e)
=============================================================================
