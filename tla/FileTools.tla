----------------------------- MODULE FileTools -----------------------------
(***************************************************************************)
(* The tools of the CLI that read and change a file (view.go, edit.go,     *)
(* write.go and file.go in src/cli/internal/llm/tools) and the history     *)
(* they keep of it (src/cli/internal/history/file.go), for one path.       *)
(* Sessions share the record of reads and the rows of the history; a user  *)
(* changes the file at any time.                                           *)
(***************************************************************************)
EXTENDS Integers, SequencesExt, FiniteSetsExt

CONSTANTS Sessions,    \* each runs one tool at a time
          Contents,    \* of the file, Empty among them
          Empty, Absent,
          Found,       \* what the user makes of the file, Absent among them
          ToolCalls,   \* what an angel may ask for: [tool, from, to]
          MaxEvents,   \* bounds: calls of tools and changes by the user, seconds
          MaxSeconds

ASSUME FileAssumption ==
  /\ Empty \in Contents /\ Absent \notin Contents
  /\ Absent \in Found /\ Found \subseteq Contents \cup {Absent}
  /\ ToolCalls \subseteq [tool : {"view", "write", "create", "delete", "replace"},
                           from : Contents, to : Contents]
  /\ \A c \in ToolCalls :
       /\ c.tool \in {"write", "create"} => c.to # Empty
       /\ c.tool \in {"delete", "replace"} => c.from # Empty
  /\ MaxEvents \in Nat /\ MaxSeconds \in Nat

VARIABLES
  disk,     \* the file's content, or Absent
  read,     \* of the last recorded read: "never", or whether the file is newer
  job,      \* of a session: the step its tool is at, the call, what it read and will write,
            \* and whether its run was cancelled
  rows,     \* the files table: session, version, content, and created_at in seconds
  second,   \* the present second
  events,   \* calls and changes so far
  unseen,   \* ghost: the user put the content there while no tool was at work, and no
            \* tool has read it
  first     \* ghost: of a session, the content its first change replaced, as it was read,
            \* not counting changes whose run was cancelled before there was any row

fileVars == <<disk, read, job, rows, second, events, unseen, first>>

NoCall == [tool |-> "none", from |-> Empty, to |-> Empty]
Idle == [step |-> "idle", call |-> NoCall, old |-> Empty, new |-> Empty, cancelled |-> FALSE]

FilesInit ==
  /\ disk \in Found /\ read = "never"
  /\ job = [s \in Sessions |-> Idle]
  /\ rows = <<>> /\ second = 0 /\ events = 0
  /\ unseen = FALSE /\ first = [s \in Sessions |-> Absent]

At(s, step) == job[s].step = step
Go(s, step) == job' = [job EXCEPT ![s].step = step]
Modified == read' = IF read = "never" THEN "never" ELSE "stale"
-----------------------------------------------------------------------------
(* The history.  Its queries have the context of the run: they fail once that is *)
(* cancelled, and where a version is taken.                                      *)

\* Versions: 0 is "initial", n is "v<n>"; a version made of the time is far above these.
TimeVersion == 100 + second

\* UNIQUE(path, session_id, version)
Taken(s, v) == \E i \in DOMAIN rows : rows[i].session = s /\ rows[i].version = v

\* The versions that createWithVersion tries.
Tried(v) == IF v = 0 THEN <<0, TimeVersion, TimeVersion + 1>> ELSE <<v, v + 1, v + 2>>

Free(s, v) == {i \in DOMAIN Tried(v) : ~Taken(s, Tried(v)[i])}
CreateWithVersion(s, content, v) ==
  rows' = IF Free(s, v) = {} THEN rows
          ELSE Append(rows, [session |-> s, version |-> Tried(v)[Min(Free(s, v))],
                             content |-> content, second |-> second])

\* The rows that ORDER BY created_at DESC may put first.
Latest(is) == {i \in is : \A j \in is : rows[j].second <= rows[i].second}

\* The next version goes by the latest row of the path, whichever session's it is.  An
\* error is logged.
CreateVersion(s, content) ==
  IF job[s].cancelled THEN UNCHANGED rows
  ELSE IF rows = <<>> THEN CreateWithVersion(s, content, 0)
  ELSE \E i \in Latest(DOMAIN rows) : CreateWithVersion(s, content, rows[i].version + 1)

\* Variant: any session's row will do.
RowsOfPath(s) == DOMAIN rows
RowsOf(s) == {i \in DOMAIN rows : rows[i].session = s}

\* The rows of a session.
Own(s) == {i \in DOMAIN rows : rows[i].session = s}
-----------------------------------------------------------------------------
(* The tools *)

\* The tool's response.
Respond(s) ==
  IF job[s].call.tool \in {"create", "delete"} THEN Go(s, "again") ELSE job' = [job EXCEPT ![s] = Idle]

\* Variant: a file that was read once may be written.
KnownOnce == read # "never"
\* modTime.After(lastRead) is false.
Known == read = "fresh"

\* The call, and what is asked of the file's existence and of the read time.
Stat(s, call) ==
  LET next(step) == job' = [job EXCEPT ![s] = [Idle EXCEPT !.step = step, !.call = call,
                                                           !.cancelled = job[s].cancelled]]
      ask == job' = [job EXCEPT ![s] = [step |-> "ask", call |-> call, old |-> Empty,
                                        new |-> call.to, cancelled |-> job[s].cancelled]] IN
  CASE call.tool = "view" -> IF disk = Absent THEN job' = [job EXCEPT ![s] = Idle] ELSE next("read")
    [] call.tool = "write" -> IF disk = Absent THEN ask
                              ELSE IF Known THEN next("compare") ELSE job' = [job EXCEPT ![s] = Idle]
    [] call.tool = "create" -> IF disk # Absent THEN next("again") ELSE ask
    [] call.tool \in {"delete", "replace"} ->
         IF disk # Absent /\ Known THEN next("read")
         ELSE IF call.tool = "delete" THEN next("again") ELSE job' = [job EXCEPT ![s] = Idle]

Begin(s) ==
  /\ At(s, "idle") /\ events < MaxEvents /\ events' = events + 1
  /\ \E call \in ToolCalls : Stat(s, call)
  /\ UNCHANGED <<disk, read, rows, second, unseen, first>>

\* edit's creating and deleting go on to replaceContent after their response.
Again(s) ==
  /\ At(s, "again")
  /\ Stat(s, [job[s].call EXCEPT !.tool = "replace", !.from = IF job[s].call.tool = "create" THEN Empty ELSE @])
  /\ UNCHANGED <<disk, read, rows, second, events, unseen, first>>

\* A write of a file that is there reads it twice; the first time it looks for a change.
Compare(s) ==
  /\ At(s, "compare")
  /\ IF disk = job[s].call.to THEN job' = [job EXCEPT ![s] = Idle] ELSE Go(s, "read")
  /\ UNCHANGED <<disk, read, rows, second, events, unseen, first>>

\* ReadFile, and what is asked of the content: an old string that is there once, and
\* something to change.  Of a file that is gone a write has nothing; it is an error of the
\* other tools.
Read(s) ==
  LET call == job[s].call
      ask(old) == job' = [job EXCEPT ![s].step = "ask", ![s].old = old, ![s].new = call.to] IN
  /\ At(s, "read")
  /\ unseen' = (unseen /\ call.tool = "write")
  /\ CASE disk = Absent -> IF call.tool = "write" THEN ask(Empty) ELSE job' = [job EXCEPT ![s] = Idle]
       [] disk # Absent /\ call.tool = "view" -> Go(s, "record")
       [] disk # Absent /\ call.tool = "write" -> ask(disk)
       [] disk # Absent /\ call.tool \in {"delete", "replace"} ->
            IF disk = call.from /\ call.from # call.to THEN ask(disk) ELSE Respond(s)
  /\ UNCHANGED <<disk, read, rows, second, events, first>>

\* A denial is an error of the tool.
Deny(s) ==
  /\ At(s, "ask") /\ job' = [job EXCEPT ![s] = Idle]
  /\ UNCHANGED <<disk, read, rows, second, events, unseen, first>>

\* The permission, and WriteFile, whatever is there by now.
Write(s) ==
  /\ At(s, "ask")
  /\ disk' = job[s].new /\ Modified
  /\ unseen' = FALSE
  /\ first' = [first EXCEPT ![s] = IF @ = Absent THEN job[s].old ELSE @]
  /\ Go(s, "initial")
  /\ UNCHANGED <<rows, second, events>>

\* The session's first row; a new file gets one in any case.  Where there is none, an error
\* is the tool's: the file is changed, and neither its history nor its reader is told.
Initial(s) ==
  /\ At(s, "initial") /\ ~job[s].cancelled
  /\ \/ /\ job[s].call.tool = "create" \/ RowsOf(s) = {}
        /\ CreateWithVersion(s, job[s].old, 0)
        /\ IF rows' = rows THEN job' = [job EXCEPT ![s] = Idle]
           ELSE Go(s, IF job[s].call.tool = "create" \/ job[s].old = Empty THEN "new" ELSE "old")
     \/ /\ job[s].call.tool # "create"
        /\ \E i \in Latest(RowsOf(s)) : Go(s, IF rows[i].content = job[s].old THEN "new" ELSE "old")
        /\ UNCHANGED rows
  /\ UNCHANGED <<disk, read, second, events, unseen, first>>

NoInitial(s) ==
  /\ At(s, "initial") /\ job[s].cancelled
  /\ job' = [job EXCEPT ![s] = Idle]
  /\ first' = [first EXCEPT ![s] = IF Own(s) = {} THEN Absent ELSE @]
  /\ UNCHANGED <<disk, read, rows, second, events, unseen>>

\* A version for what somebody else made of the file in between.
OldVersion(s) ==
  /\ At(s, "old") /\ Go(s, "new")
  /\ CreateVersion(s, job[s].old)
  /\ UNCHANGED <<disk, read, second, events, unseen, first>>

\* A deletion is stored as an empty file.
NewVersion(s) ==
  /\ At(s, "new") /\ Go(s, "record")
  /\ CreateVersion(s, IF job[s].call.tool = "delete" THEN Empty ELSE job[s].new)
  /\ UNCHANGED <<disk, read, second, events, unseen, first>>

\* recordFileRead
Record(s) ==
  /\ At(s, "record")
  /\ read' = "fresh"
  /\ Respond(s)
  /\ UNCHANGED <<disk, rows, second, events, unseen, first>>
-----------------------------------------------------------------------------
(* The user, and the clock *)

\* The run is cancelled and its tool goes on; before the first query that makes no
\* difference.
CancelRun(s) ==
  /\ job[s].step \in {"initial", "old", "new"} /\ ~job[s].cancelled
  /\ job' = [job EXCEPT ![s].cancelled = TRUE]
  /\ UNCHANGED <<disk, read, rows, second, events, unseen, first>>

Change ==
  /\ events < MaxEvents
  /\ disk' \in Found \ {disk} /\ Modified
  /\ unseen' = (disk' # Absent /\ \A s \in Sessions : At(s, "idle"))
  /\ events' = events + 1
  /\ UNCHANGED <<job, rows, second, first>>

Tick ==
  /\ second < MaxSeconds /\ second' = second + 1
  /\ UNCHANGED <<disk, read, job, rows, events, unseen, first>>

FilesNext ==
  \/ Change \/ Tick
  \/ \E s \in Sessions :
       \/ Begin(s) \/ Again(s) \/ Compare(s) \/ Read(s) \/ Deny(s) \/ Write(s) \/ CancelRun(s)
       \/ Initial(s) \/ NoInitial(s) \/ OldVersion(s) \/ NewVersion(s) \/ Record(s)
-----------------------------------------------------------------------------
(* What holds of it. *)

\* Types of all variables; no two rows of a session have one version.
FilesTypeOK ==
  /\ disk \in Contents \cup {Absent} /\ read \in {"never", "stale", "fresh"}
  /\ \A s \in Sessions :
       /\ job[s].step \in {"idle", "again", "compare", "read", "ask", "initial", "old", "new", "record"}
       /\ {job[s].old, job[s].new} \subseteq Contents
       /\ first[s] \in Contents \cup {Absent}
  /\ \A i, j \in DOMAIN rows :
       /\ rows[i].content \in Contents /\ rows[i].second <= second
       /\ i < j => rows[i].second <= rows[j].second
       /\ rows[i].session = rows[j].session /\ rows[i].version = rows[j].version => i = j

\* What the user made of the file while no tool was at work is not overwritten before a
\* tool has read it, whoever read or wrote the file before and whichever session's call
\* comes next (file.go:20-41, edit.go:385-396, write.go:119-131).
QuietChangesNoticed == [][\A s \in Sessions : At(s, "ask") /\ At(s, "initial")' /\ disk' # disk => ~unseen]_fileVars

\* The first row of a session is "initial" and has the content that the session's first
\* change replaced, although sessions share the file and its version numbers, and files
\* are removed and made again (history/file.go:57-71, edit.go:457-472).  Changes whose run
\* was cancelled between the file and the first row are lost: the first row is then that of
\* the first change after them (edit.go:332-344, write.go:186-199).
InitialTold ==
  \A s \in Sessions : Own(s) # {} =>
    LET row == rows[Min(Own(s))] IN row.version = 0 /\ row.content = first[s]

\* A change of a run that was not cancelled by then is in the history with the content before
\* and after it, for a session that has the file to itself, unless four rows fall into one second or the file is
\* made anew in a second that has a row: two runs of versions then go on side by side, and
\* where one meets the other a version is given up after three tries.  The deletion of a
\* part is not told, which is stored as an empty file (history/file.go:62-156).
Has(s, content) == \E i \in Own(s) : rows[i].content = content
Crowded == \E i \in DOMAIN rows : i + 3 \in DOMAIN rows /\ rows[i + 3].second = rows[i].second
MadeAnew ==
  \E i \in DOMAIN rows : /\ i + 1 \in DOMAIN rows /\ rows[i + 1].second = rows[i].second
                         /\ rows[i + 1].version # rows[i].version + 1
Alone(s) == Own(s) = DOMAIN rows /\ ~Crowded /\ ~MadeAnew
ChangesKept ==
  \A s \in Sessions :
    /\ At(s, "record") /\ ~job[s].cancelled /\ job[s].call.tool \in {"write", "replace", "create"}
    /\ Alone(s)
    => Has(s, job[s].old) /\ Has(s, job[s].new)

\* What a session did to a file can be told from its history, but for what its cancelled runs
\* did (history/file.go:57-156).
HistoryTold == FilesTypeOK /\ InitialTold /\ ChangesKept
-----------------------------------------------------------------------------
(* The inductive invariants.                                                              *)

Job == [step : {"idle", "again", "compare", "read", "ask", "initial", "old", "new", "record"},
        call : [tool : {"none", "view", "write", "create", "delete", "replace"},
                from : Contents, to : Contents],
        old : Contents, new : Contents, cancelled : BOOLEAN]
Row == [session : Sessions, version : Nat, content : Contents, second : Nat]

FilesTyped ==
  /\ disk \in Contents \cup {Absent} /\ read \in {"never", "stale", "fresh"}
  /\ job \in [Sessions -> Job] /\ rows \in Seq(Row) /\ second \in Nat
  /\ unseen \in BOOLEAN /\ first \in [Sessions -> Contents \cup {Absent}]

Reading(j) ==
  /\ j.step = "read" => j.call.tool \in {"view", "write", "delete", "replace"}
  /\ j.step = "compare" => j.call.tool = "write"

RowsOrdered ==
  \A i, j \in DOMAIN rows :
    /\ rows[i].second <= second
    /\ i < j => rows[i].second <= rows[j].second
    /\ rows[i].session = rows[j].session /\ rows[i].version = rows[j].version => i = j

\* While nobody has seen what the user made of the file, no session has a read that allows
\* a write, or is past the question whether it has.
Unseen ==
  unseen => /\ disk # Absent /\ read # "fresh"
            /\ \A s \in Sessions : \/ At(s, "idle") \/ At(s, "again")
                                   \/ At(s, "read") /\ job[s].call.tool = "view"

\* A session without rows has changed nothing that counts, but for a change whose first row
\* is next; of the others the first row tells the content before the first change.
StartsInitial(s) ==
  \/ /\ Own(s) = {} /\ ~At(s, "old") /\ ~At(s, "new")
     /\ IF At(s, "initial") THEN first[s] = job[s].old ELSE first[s] = Absent
  \/ /\ first[s] # Absent
     /\ \E i \in Own(s) : /\ \A j \in Own(s) : i <= j
                          /\ rows[i].version = 0 /\ rows[i].content = first[s]

FilesInv ==
  /\ FilesTyped /\ RowsOrdered /\ Unseen
  /\ \A s \in Sessions : Reading(job[s]) /\ StartsInitial(s)

\* The versions of a session that is alone rise, and from what the time stands for on none
\* is left out, so that the one after the last is free.
VersionsRise(s) ==
  Alone(s) => /\ \A i, j \in DOMAIN rows : i < j => rows[i].version < rows[j].version
              /\ \A i \in DOMAIN rows : \A v \in TimeVersion .. rows[i].version : Taken(s, v)
\* What is in the history by now.
Kept(s) ==
  Alone(s) /\ ~job[s].cancelled /\ job[s].call.tool \in {"write", "replace", "create"} =>
    /\ At(s, "new") \/ At(s, "record") => Has(s, job[s].old)
    /\ At(s, "record") => Has(s, job[s].new)
HistoryInv == \A s \in Sessions : VersionsRise(s) /\ Kept(s)
=============================================================================
