# Verification of Genesis SSMP

TLA+ models, TLC runs and TLAPS proofs about the code under `src/`.

## 1. The system

Genesis SSMP is three programs in Go.

* **Heaven** (`src/heaven`) is a local HTTP daemon that keeps the state shared by
  the agents: an append-only event log, exclusive leases on scopes, a version
  clock per file, a content-addressed blob store, an IR index of the code, stored
  prompts, and page-fault counters per mission.
* **God** (`src/god`, `src/cmd/genesis`) turns a task into missions, takes leases
  for them, sends packs to a model ("angel"), and integrates the edits it returns
  into the working tree.
* **The CLI** (`src/cli`) is a terminal agent forked from OpenCode: sessions and
  messages in SQLite, an agent loop with tools and permissions, clients of language
  models, a persistent shell, and commands that reach Heaven and God.

God and the CLI are HTTP clients of Heaven; several processes may use one daemon.
Everything Heaven keeps across restarts is in files it writes: `events.log`, the
blobs and the index database.

## 2. Inventory

"Hard" names what tests hardly reach; "correct" is what properties are for.
`PROJECT.json` lists every hazard at its line.

### Heaven

| Component | State | Operations | Hard | Correct |
|---|---|---|---|---|
| Event log (`eventlog.go`) | the file `events.log`, a mutex | Append, All, Tail | short writes, a line without newline, over-long lines at boot | finished lines stay; the log decides the state |
| Lease manager (`leases.go`) | leases by id, scope index, a mutex | Acquire, Release, List, OwnerHoldsScope, replay | crash between iterations, failed appends, lost responses, late releases, no expiry | one lease per scope; a restart rebuilds the table; only an owner's release frees |
| File clock (`fileclock.go`) | path to counter, an RWMutex | Get, Increment, replay | memory before log, second read after the mutex | clocks never go back |
| Server (`server.go`) | the parts above, `stateRev` | 20-odd handlers | handlers interleave, revision against log | every request ends; answers stay true |
| Blob store (`blob.go`) | files named by hash | Put, Get | stat-then-write, crash inside a write | a blob has the content of its name |
| Page faults (`pf*.go`) | counters, sentinel, shards seen | router, governor, delta | check before count, shard keys | budgets hold, deltas are against what was sent |
| Prompt store (`prompt.go`) | artifacts, sections seen | Store, StoreDelta | two critical sections | one artifact per prompt, deltas complete |
| IR index (`irindex.go`) | SQLite tables | Build, lookups | mtime granularity, partial rebuild | the index reflects the files |

Heaven's parts share the event log: the lease manager and the file clock append
to it while they hold their own mutexes, and both replay it at boot.

### God

| Component | State | Operations | Hard | Correct |
|---|---|---|---|---|
| Solo planner and executor (`solo.go`) | a mission, its owner id | Plan, Execute, ExecutePhased | ignored denials and errors, clocks read late | no lost update |
| Integrator (`integrator.go`) | the working tree, through Heaven's clocks | Integrate, rebase, conflict mission | validate then use, failure between write and count | clocks and events tell the truth about the tree |
| Edit IR engine (`edit_apply.go`) | files | nine operation kinds, anchor hashes | drift between read and apply, ends of files | an edit lands where it was written for |
| Heaven client (`heaven_client.go`) | none | one call per method | no timeout, no retry | - |
| Provider adapter, Output VM | none | send, validate, one retry | repaired pack, stale mission id | at most one retry |
| Mission compiler, oracle | a DAG, spent budget | plan, replan | cycles, recursion | acyclic, bounded |
| Thrash detector, meter | metrics and latch per mission | record, check | two mutexes | one escalation per mission |
| Recorder | entries, turn counter | record, replay | order of entries against turns | a replay gives the recorded answers |
| Prompt compiler, AA, ISA, macro ops, patches, diffs, verifier | none | pure translations, one test command | budget arithmetic | within the budget |

### CLI

| Component | State | Operations | Hard | Correct |
|---|---|---|---|---|
| Agent (`agent.go`) | active requests per session, the message of a run | Run, Cancel, tool loop, Summarize | cancel against finish, denials among several calls | the table names live runs; the model is told what ran |
| Providers (`provider/*.go`) | one stream: attempts, text so far | stream, retry, close | two goroutines and one unbuffered channel, retries after an error, cancelled waits | an answer is stored whole and once; a cancelled run stops |
| Broker (`broker.go`) | subscribers, channels | Subscribe, Publish, Shutdown | send on a closed channel, dropped events | events in order to who keeps up, nobody waits |
| Permissions (`permission.go`, the dialog in `tui.go`) | pending questions, grants, one dialog | Request, Grant, Deny | a dropped event, a replaced dialog, a second key | nothing runs without an answer to its own question |
| Shell (`shell.go`) | one process, a queue | Exec, kill, replace | death with queued commands, timeouts, closed queue | a call gets the result of its own command, and comes back |
| File tools, history (`edit.go`, `write.go`, `view.go`, `file.go`) | the file, read times, versions | view, write, three edits | a permission wait between check and write, shared version numbers | no quiet overwrite; the history has what was there before |
| Sessions, messages | SQLite rows | save | read-modify-write of whole rows | - |
| LSP client and watcher | open files, pending calls | adapters of a language server | interleaved writes, a server that died | - |
| Auth, config, MCP server, rest of the TUI | mostly I/O | adapters | - | - |

### How they interact

The CLI and `genesis` start missions. A mission calls Heaven for an index and
leases (`/ir/*`, `/lease/acquire`), the provider for an answer, Heaven for
supplemental leases and clocks, validates (`/validate-manifest`), writes the
tree itself, and tells Heaven (`/file-clock/inc`, `/event`). Heaven never sees the
tree and never calls back; a lease protects a file only because missions ask.

In the CLI a run reads a provider's stream through a channel, its tools ask the
permission service, which publishes the question through a broker to the
terminal interface and waits; the bash tool shares one shell, the file tools the
history. The interface's thread starts and cancels runs.

## 3. Modules

Every definition carries its source lines in `PROJECT.json`, "map". A comment
"Variant:" marks an operator that states a plausible mistake; the original that
follows it is what the code does, and replacing one by the other must break the
property that guards it. No specification uses a variant. Variables and record fields
marked "ghost" record history for a property; no guard reads them. A component's
properties are in its `...Properties` module, or under "What holds of it" at its end.
Each type invariant is a named conjunct of the component's first property.

### Heaven's daemon

* `EventLog`: `events.log` as its sequence of lines plus a bit for a missing
  newline. `Written` and `WriteFails` are `Append`'s outcomes: an error may leave
  nothing, part of the event, or all of it but the newline.
* `LeaseManager` (extends `EventLog`): the table and the index; `Issue`, `Drop`,
  the holder test, and what the replay makes of one line.
* `FileClock` (extends `EventLog`): increment before append, replay.
* `HeavenServer` composes them: clients send requests, handlers take `lm.mu`, loop
  one scope or id per step, append, unlock, reply; a response may be lost; the
  daemon may crash in any state and then replays the log line by line.
  `pc`, `todo`, `got` are a handler's place and locals; `known` and `held` are what
  a client was told and still relies on; `seen` the clocks it was shown. One step
  is what the code does inside one critical section and one loop iteration; a
  crash between the change of a map and its append is the same as a crash before
  the iteration, since the map dies with the process.
* `HeavenProperties`: its properties, and the mapping to the abstract service.
* `LeaseService`: the abstract specification, with no table, log or daemon: a
  scope has one holder, a client is only told what is so, a scope is freed only
  when nobody relies on it, and restarts are invisible.
* `HeavenInvariants`: the two inductive invariants.
* `BlobStore`: a blob is its content and a file that is missing, cut short or whole.
  `Put` looks for the file, creates it and fills it in three steps, so that other
  requests, a failing write or a crash may come in between.
* `PromptStore` (extends `BlobStore`): `Store` and `StoreDelta` step by step over
  artifacts that are shared by pointer and live in memory only. Which sections a text
  has is a constant.
* `PageFaults` (extends `PromptStore`): the governor's check, the counters, the puts of
  the shards, reading them back, the event and the delta tracker, by goroutines that share the blob store
  with the prompts. What a handler finds is a choice among the constant's answers.
  `PageFaultProperties` has the properties of the three.
* `IRIndex`: the symbol database and the tree it is built from. `BuildIndex` goes file by
  file: the look at the time, the read and the transaction are steps, and other builds
  and changes of the tree fall between them. A content defines and refers to names by
  constant functions in place of tree-sitter.
* `MCHeaven`, `MCStores`, `MCIndex`: instances for TLC.

### Missions and the working tree

* `EditIR`: what the nine kinds of operation do to a file: which lines they need,
  which span their anchor surrounds, what they cut and insert, what a rebase
  changes. A file is the non-empty sequence of its lines (`readFileLines` reads an
  empty file as one blank line, `writeFileLines` writes no lines as one). A line is
  a value; `Mentions` says which symbols it contains. SHA-256 is taken as injective
  on the lines it hashes, so an anchor is that sequence. The fields an operation's
  kind does not use are ignored; operations whose fields have the wrong shape,
  which fail before they read anything, are not answers.
* `EditDrift`: one operation, written against a file an angel read, applied after
  others changed lines of the file, with or without a rebase.
* `Integration`: missions on one tree. `stage` is the executor's place; `view` what
  the mission last read, wrote or removed; `answer` operations and manifest;
  `expected` the clocks it read; `rebased` and `applied` the loop counters of
  `rebaseAnchors` and `ApplyEditIR`; `buffer` the content about to be written.
  Heaven is there as `holder` and `clock`, what its endpoints promise (see
  `LeaseService`): an acquire is one critical section, the two halves of
  `/validate-manifest` are two steps because they take two mutexes.
  `os.WriteFile` is two steps, since it empties the file first. Calls of Heaven may
  fail, before or after they took effect; a mission may die anywhere, and its
  leases stay, as the executor never releases one.
* `IntegrationProperties`: its properties and its invariant.
* `AngelCalls`: `ProviderAdapter.Execute` with its one repair over a provider that
  records, then over one that replays; drivers share both. An answer is one of six kinds,
  and the repair cuts a long one in the record too, as the code does.
* `MissionMeter`: the metrics, the detector that reads and marks them under a mutex of its
  own, condition by condition, and the oracle with its cycle check.
  `MissionMeterProperties` has the properties.
* `MCEditDrift`, `MCIntegration`, `MCMissions`: instances for TLC.

### The CLI

* `Permission`: the service and the dialog. A question is its asker and a number; the
  interface is one thread, keys become messages that arrive later, events may be dropped.
* `AgentSessions` (extends `Permission`): runs of a session from `Run` to the deletion of
  its entry or to a panic that skips it, the tool loop with its `break`s and its early exits,
  cancellation at any step, streams that are closed without an end, of a cancelled run too.
  `stage` is a run's place, "dead" after a panic; `saved` the finish reason the database has.
  `AgentProperties` has the properties of both.
* `Broker`: one step is one critical section of `b.mu` or one channel operation outside of
  it. `BrokerProperties` has the properties and the mapping to
* `EventStream`: the abstract specification, with no locks, contexts or channels: a
  subscriber is owed what is published while it is subscribed, gets each event at most
  once and in order, and loses one only to a full backlog or to its end. Only once the
  stream is `stopped`, which is `b.done`, is nobody owed what is published: `Shutdown`
  closes `b.done` before it takes the lock to close the channels (broker.go:34-41).
* `ProviderStream`: one streamed answer by any of the six clients, and the run that reads
  it. A piece of text is its attempt and its number there. `ProviderStreamProperties` has
  the properties.
* `PersistentShell`: the shell's instance, its queue, the goroutine that writes and polls,
  the one that reaps, and the process itself, which may die at any moment or keep a
  command for ever. The pipe to it has `PipeRoom`; the write of a command waits for room
  while it holds `s.mu`, whatever the timeout and the context. A command is one unit of
  that room, and one that reads no input starts when all of its text is there.
* `FileTools`: the tools on one file that a user changes too, and the rows of its history
  with versions and one-second timestamps. `WriteFile` does not look at the context and the
  queries of the history do, so a run that is cancelled in between (`CancelRun`) leaves a
  change without its rows: `NoInitial` is the error of the first query, and `CreateVersion`
  then stores nothing, which the tools only log.
* `MCAgent`, `MCStreams`, `MCTools`: instances for TLC.

`MCMissions`, `MCStreams` and `MCTools` each check two components that share no state, in
one run. A variable `part`, fixed by the initial state, says which of the two acts, and no
step of the other is taken; since neither can see the other, the behaviours of one part
are all behaviours of that component, and the properties of the resting part hold of its
initial state, in which none of its fair actions is enabled.

### Proofs

One module of theorems for each part: `HeavenProofs` (types, leases, the case without
failing writes, the refinement), `StoreProofs` (blobs, prompts, page faults), `IndexProofs`,
`IntegrationProofs` (operations, drift, missions), `MissionProofs` (record and meter),
`AgentProofs`, `StreamsProofs` (broker and providers) and `ToolProofs` (shell and file
tools). The inductive invariants stand beside the properties they prove, in
`HeavenInvariants`, `IntegrationProperties`, `BrokerProperties`, `ProviderStreamProperties`,
`AgentProperties`, `PageFaultProperties`, `IRIndex`, `PersistentShell`, `FileTools`,
`AngelCalls` and `MissionMeterProperties`. TLC found each of them to hold on the instance of
its run before it was proved; the runs do not repeat that. Section 5 says what is proved.

## 4. Runs

Two clients, missions, goroutines or sessions are enough for every race between a pair,
which nearly all the listed hazards are; the bounds below are the smallest at which every
step of the composition happens. Model values for lease ids, drivers and runners are
symmetric where no definition tells one from another and no liveness is checked. `CHECK_DEADLOCK FALSE`
everywhere: a bounded instance stops when its requests are used up or its runs have
ended, and nobody need send.

| Run | Checks | Bounds |
|---|---|---|
| `heaven_exact` | without failing writes: one lease per scope, the table is the log's, told leases are held, clocks never go back, and the daemon implements `LeaseService` | 2 clients, 2 scopes, 1 file, 3 lease ids, 4 requests (acquire, release, clock increment), 1 crash |
| `heaven_faults` | what one failing write and a restart cannot break; every request ends | 2 clients, 1 scope, 3 ids, 4 requests to any of five endpoints, 1 fault, 1 crash, `FairSpec` |
| `heaven_lost_release` | what a failing write does break | 2 ids, 4 requests, 1 fault, 1 crash |
| `stores` | what is known can be read, deltas rebuild their prompt, meter and log agree and the budget holds but for concurrent checks, nothing is withheld that was not served | 2 goroutines, 2 prompts, 4 blobs, 1 mission, 2 keys, 4 requests, budget of 2 calls and 3 bytes, 1 crash |
| `index` | stale files are noticed, an undisturbed build is whole, callers are of the name asked for | 2 files, 2 builders, 3 builds, 2 edits, times 0-2 |
| `drift` | an operation by line numbers that lands has the context it was written in; no operation of any kind is refused without a change | files of up to 4 lines over 2 line values, 2 changes |
| `integration_phased` | leases cover the writes and deletions of files a manifest names; no lost update on a path that every editor's manifest names | 2 missions, 2 files, 7 answers, two of them with manifests that leave a file out, failing calls, deaths |
| `integration_mixed` | truthful events with drift and rebase, next to a mission that skips the check; a mission whose angel answered ends | the same, one of the missions run by `Execute`, `FairSpec` |
| `missions` | the record is what was said and a replay repeats it; thrashing is found when it is there, once, with cause; a plan that is taken over has an order | 3 drivers on 2 missions, 2 executes each phase; 2 runners, 2 missions, 6 calls, any plan of three missions; the drivers of one mission symmetric, and so the runners |
| `agent` | active requests name live runs or ones that panicked, results tell the truth, consent behind every tool, a denial ends a run, a run ends or panics unless its question was lost | 2 runs of one session, with 2 calls of the first or up to 1 of each, 1 answer each, 2 keys, `FairSpec` within that |
| `streams` | registry, order and completeness of events, `EventStream`, senders and watchers end; an answer is stored whole, ends are told, a cancelled run stops | 2 subscribers, 2 publishers with 2 and 1 events, buffers of 1; 2 retries, 2 pieces, 4 requests |
| `tools` | results of one's own command, calls return unless they are behind a write to a full pipe; the user's quiet changes are noticed, the history tells what was there but for what cancelled runs did | 3 bash calls, 2 shells, a queue of 1, a pipe with room for 1 command; 2 sessions of which one always begins, 3 calls and changes, 1 second |

The context on each side of a span is three lines, so four lines are needed for a
change beyond an anchor's reach. Two faults instead of one, or a third client, repeat what
the smaller instance does; they were left out for time. In `integration_*` every
operation kind that writes differently occurs: a span, a line, a symbol insertion, a
deletion that empties a file, `delete_file` and `add_file`, two operations on one
file and one on each of two. In `stores` the prompts are blobs that shards may be too. In
`missions` six calls let two turns with page faults, a check and a completion overlap. In
`streams` a buffer of one overflows at the second event, and two retries make a first, a
middle and a last attempt. In `tools` three commands are one that runs, one that is queued
and one that finds the queue full, and a second shell is started by two calls at once; the
third command finds the pipe full when the first keeps the shell and the second timed out.
Limits the code sets higher (64 events, 8 retries, 1 MiB lines) are constants of the modules;
those of the broker and of the streams are covered for every value by the proofs.

### Fairness

* `HeavenServer!FairSpec`: weak fairness of the replay and of each handler, since a
  runnable goroutine runs; strong fairness of taking `lm.mu`, since Go's mutexes hand
  over to a waiter that has waited too long. Nothing makes a client send, a write fail
  or the daemon die.
* `Integration!FairSpec`: weak fairness of the executor's own steps after the angel's
  answer. The client has no timeout, so the run also assumes that Heaven answers, which
  `heaven_faults` shows of Heaven, and no fairness is assumed of the provider: a mission
  may wait for its angel for ever.
* `AgentSessions!FairSpec`: weak fairness of a run's goroutine, of the interface's thread
  and of a user who answers a dialog that stays on the screen; a run's fairness includes
  that its stream and its tools end or panic, of which `streams` shows what holds for a
  cancelled run and `tools` for the shell. An event that was dropped is never delivered, so that a
  question may be lost for ever.
* `Broker!BrokerFairness`: weak fairness of the sends of a Publish, of a watcher whose
  context is done and of a Shutdown that has begun. Readers need not read.
* `ProviderStream!StreamFairness`: once the context is done, the client's goroutine and the
  run go on: an SDK returns from a request whose context is done, a CLI is killed, a
  timer fires. No service has to answer before that.
* `PersistentShell!ShellFairness`: goroutines go on, a timeout runs out, a goroutine that
  waits to send on a queue with room again and again gets its turn (Go serves waiting
  senders first in, first out). Nothing is assumed of the shell's process, so a write to
  its pipe may wait for ever.

### What the violation says

`heaven_lost_release` is a disagreement between a sentence in the repository and the code,
listed with both under "findings": a release whose log line could not be written frees the
scope in memory only, and a restart brings back two leases on one scope.

### Seen while modelling

Plain from the definitions, without a run:

* Heaven: a file clock goes back at a restart when its event could not be written
  (`FileClock!IncrementFails`); `state_rev` counts changes that no event records
  (`SendUnlogged`); nothing reads `ExpiresAt`, so leases do not expire, though
  `README.md:474` says so. Budgets and prompts are forgotten at a restart; the server's
  `/pf` calls the router without the governor; shards of one `PF_SYMDEF` share one key of
  the delta tracker. A deleted file never leaves the index, and indexing the file that
  defines a name again drops the callers in files that did not change (`IRIndex!Kept`).
* Missions: an anchor covers the neighbours of a span and not the span, so a change of the
  very lines that are replaced is overwritten; the hash runs the two contexts together,
  which a symbol operation near an end of the file can match by chance; an append
  through `insert_lines` is anchored to the last line like an insertion before it
  (`AnchorSpan`); a rebase recomputes anchors for three of the seven anchored kinds
  (`RebasedKinds`); only the manifest is validated, never the paths of the operations
  (`ManifestScopes`); `Execute` skips the lease check (solo.go:452), so that two of its
  missions can lose an update, and it is what the CLI runs (cli/internal/genesis/mission.go:60),
  while `ExecutePhased`, which validates, is called by tests only (solo_test.go:688); the
  missions of one DAG share an owner (planner.go:76), so that no lease parts them, and nothing
  in `src/` executes them; `add_file` and `delete_file` compare nothing and may hit a file the
  mission never read; a later failing operation leaves earlier ones on disk and
  uncounted (integrator.go:113).
* Record and meter: the repair pack overwrites a long answer in the record; `SaveTo` stops
  at the first response that is not JSON; a failed `Send` uses up a turn without an
  entry. Meter, detector, oracle and recorder meet in tests only.
* Agent: `Cancel` frees the session before its run has ended, so two runs can be live;
  tool errors other than a denial reach the model as empty successes (agent.go:395-418);
  a stale reply hides a newer dialog (tui.go:358); a panic leaves its session busy, since
  `RecoverPanic` runs after the lines that would free it were skipped (`Panic`); a run
  whose stream is closed without an end leaves its message unfinished (`StreamCloses`).
* Broker: a Publish may send on a channel closed since it was copied, and panics;
  nobody calls `Shutdown`.
* Providers: the test of the context after a wait is the wrong way round (openai.go:319,
  copilot.go:528), so a cancelled wait ends without an event; `Choices[0]` of an answer
  without choices panics (openai.go:286); Gemini's client asks again without a bound after
  empty answers and reads a missing response after a wait.
* Shell: two calls that see a dead shell start one each; a command that timed out may run
  later; only direct children are killed; a send on the queue of a dead shell panics; a
  write to a full pipe waits with `s.mu` held (shell.go:177), and no timeout ends it.
* File tools: a run that is cancelled after its file was written stores no row of the change,
  and where it would be the first the tool returns the error that a comment says is only
  logged (edit.go:340); a change during the permission wait is overwritten; create and delete fall through to an error reply after they changed the file
  (edit.go:139-157); a deletion of a part is stored in the history as an empty file
  (edit.go:354).

## 5. Proofs

Proved by TLAPS for every value of the constants that satisfies the named assumptions in
the modules (`NoneAssumption`, `FaultsAssumption`, `ClientAssumption`, `BlobAssumption`,
`PromptAssumption`, `FaultAssumption`, `IndexAssumption`, `TextAssumption`,
`DriftAssumption`, `MissionAssumption`, `CallAssumption`, `MeterAssumption`,
`AgentAssumption`, `BrokerAssumption`, `StreamAssumption`, `ShellAssumption`,
`FileAssumption`). Each is a typing of constants, a lower bound on a buffer, a limit or a
number of retries, `None`, `NoOne` and `NoFile` being different from what they stand beside,
prompts being blobs and their sections lists, or that goroutines are finitely many, which the page-fault meter needs
to count them. The bounds of the runs are constants that no proof says anything of.

**Heaven.** `TypeCorrect`. Then `LeaseInvariant`, for every pattern of failing
writes and crashes: `IndexedLeaseExists` alone is not inductive, because a replay
could delete a lease that another scope's entry names; `LeaseInv` adds that ids are
issued once, that table and log agree on what a lease covers, that during the replay
the table only knows lines already read, and that what a client was told is in its
owner's name. From it `IndexIsSound`, `OwnersDropOnly`; `CompletedLinesKept` needs
only types. The exact part assumes that no write fails and that each owner id is
one client's (`NoFaults`, `OwnersApart`, hypotheses of the theorems): `ExactInv` adds
that the table is the replay of the log and that the log never issues a scope twice
without a release between, which gives `TableRebuilt`, `ScopesExclusive` and
`ToldLeasesHeld`. The hypothesis is needed: `heaven_lost_release` breaks the claim with
one failing write.
`ClocksKept` needs `NoFaults` only: `ClockInv` says that each file's clock is the number
of its `file_clock_inc` lines that the running daemon has replayed or written, and that no
client was shown more than the log has of them, which a crash does not change.
`DaemonIsLeaseService` is the refinement. The state of the abstract service is read off
the log (`Holders`: who was issued a lease that no later line releases) and off what
clients were told (`Relied`), so a crash, a torn line and a replay change nothing that the
service sees, and stutter. A line that issues a lease is the service's `Grant`, one that
releases it the `Free`, an answer the `Tell`, a client's release the `GiveUp`; the proof
has one lemma for each and one for the steps that leave log and answers alone.
`RequestsRunDown` counts the steps a handler has left (`WorkLeft`), for finitely many scopes
and leases: each of its own steps makes them fewer, nothing else adds to them, and of two
loops over leases one is over (`OneInside`). That the loop has a next step for every scope
(`LoopGoesOn`) is `IndexedLeaseExists` again: an entry that led nowhere would stop it.

**Edit IR.** `AnchorPinsContext`: although the hash runs two contexts together, equal
hashes around the same line numbers give equal lines before, for the number of lines
before depends on the line numbers only, hence equal lines after. `LandsWhereWritten`
applies it along every behaviour of `EditDrift` for the kinds that carry line numbers and
name an existing line (spans and `replace_line`); a symbol operation looks its line up
anew, so the numbers of the two hashes may differ. `ConflictsHaveACause` holds for every
anchored kind: until others change the file it is the one that was read and the operation,
rebased or not, carries its anchor (`FreshInv`), and an operation that fitted that file then
goes through. `DriftTypeCorrect` is the type correctness of that module.

**Missions.** `TreeTypeCorrect` for all missions. Then `TreeConsistent`, for all missions,
those that skip the check included, and for all answers: a validating mission past the lease check
holds its manifest's scopes, since nobody loses a lease; and on a path that is `Covered`,
edited so far only by missions that validate and whose manifests name it, whatever a mission
knows of the file is still on disk, unless the file's scope is another's or the mission is
between emptying and filling it (`ViewCurrent`). `WritesWhatItSaw` is not inductive without that
second part: the lease alone says nothing of the time before it was granted. The case that makes
it true is that a file nobody leases has had no writer yet. That only `add_file` and
`delete_file` touch a file their mission never read is `AnsweredFirst`. `LeasesCoverWrites` and
`NoLostUpdate` follow. On paths that are not covered there is no such promise: a mission that
skips the check, as the CLI's do, or whose manifest leaves out a file it edits, may overwrite
what it has not seen, and Heaven's leases do not prevent it. Missions have owners of their
own here, as those of the solo executors do. `EventsTellTheTruth` is about all of them too:
`DoneInv` says what each stage past the apply and past the count of the clocks has done,
and that clocks only rise above what missions expected. `MissionsNeverSentBack` makes no
assumption on the others either: after an answer with n operations a mission makes
at most 8 + 4n steps of its own (`StepsLeft`), for a rebase visits each operation once and an
apply three times, and no step of another mission, no drift and no failing call sends it back.

**Broker.** `BrokerInvariant`: the registered channels are the open ones and the count is
their number; until a Shutdown begins, the channels with a watcher are the open ones; only
channels that were subscribed are sent to, and no buffer exceeds its capacity. The second
part is what "no channel is closed twice" needs: a watcher that finds `b.done` open still
has its channel to close.
`BrokerRegistry`, `BrokerClosesOnce` and `BrokerTypes` follow. `BrokerMissesNothing` needs
`KeepsUpInv`: what reached a subscriber of one publisher is, in rising order, exactly what was
sent to it since it subscribed. So an event that a Publish has drawn is still owed to every
channel it copied, no channel holds anything before its subscription, and what is older than
the subscription does not count. And
`BrokerImplementsStream` maps every step to a step of `EventStream` or to a stutter, for
any numbers of subscribers and publishers and any buffer: a Publish that read `b.done` open
is the step that owes its event to all who are subscribed, for it copies the channels in the
same critical section, and a broker that forgot one would not implement the stream. A send on a
closed channel ends the model (`Running`): the theorem is about what comes before.

**Provider streams.** `StreamInvariant` says what is on its way to the run
(`OnItsWay`), that a client which may still ask again has sent no text (`NoTextYet`), that
the message is the pieces of one attempt up to what is on its way (`TextSoFar`), that the
complete event came once and at the end (`AnswerOnce`) and which ends may be quiet
(`QuietEnds`, `AttemptsCounted`). `AnswerWhole` alone is not inductive: a retry after a
piece was sent would break it, and that no such retry exists is `NoTextYet`.
`AnswersAreWhole`, `EndsAreTold` and `StreamsAreTyped` follow.

**Agent.** `SessionsInOrder` says which entries, runs and finishes may disagree and in which
cases only: an entry is that of a run which goes on or panicked and was not cancelled; a run that
was not cancelled has its entry, unless a cancelled run of its session has ended; the database
has the run's finish but where a cancellation met an error or a last denial; and it has none
only where there was no message, the stream was closed without an end, or that error met the
cancellation. None of the properties of `agent` is inductive by itself: they speak of a run at its end
or at a tool, and depend on how it got there. `AgentInv` adds
`RunInOrder`: at every stage, which of a turn's calls have a result, which of them ran, and
that the reason in the database is the one the run would give, unless it was cancelled; and
`AskingInv`: the requests with a channel are those of runs that wait or are leaving, whatever
is on its way through broker, inbox, dialog and replies is about a request that was made,
and an answer or reply that allows a request which is still pending has the user's consent.
The last clause speaks of pending requests only, for a reply may come after its asker left.
`BooksAgree`, `ModelIsTold`, `NothingWithoutConsent` and `DenialsEnd` follow.

**Stores.** `StoreInv`: what each stage of a request promises (a prompt that is made known
has its file, an artifact that is linked exists, the shards of an answer have files), one
writer and one request per goroutine (`WorkersInOrder`), the budget counted together with
the goroutines between check and count (`BudgetInv`), and counter against log by the calls
under way: `MeterInv` compares the cardinality of what was counted with the log plus one
element for each call or byte that is not logged yet. `KnownCanBeRead`, `MeterIsExact` and
`NothingWithheld` follow. `DeltasAreRight` is about one goroutine that stores deltas at a
time (`OneDeltaWorker`, as in the run): `DeltaInv` says that an artifact is found under its own
prompt and that the goroutine which sets its deltas names the parent it linked (`DeltaOrder`).
That the list of `computeDeltas`, applied to the old sections, gives the new ones is
`DeltasApply`, by a least counterexample over the loop's index. The budget holds up to one call per other goroutine and no better:
the check and the count are two critical sections.

**Index.** `IndexInv`: times never run ahead of the clock or back; what a build read of a
file whose time is still the one it saw is what the file holds, but for a second change
within a second (`BuildInOrder`); while a build that nothing overlapped goes on, every build
under way is such a one and the files behind it are whole (`CleanInOrder`); an id is
given once. `IndexIsFollowed` and `ReferencesTrue` follow, for any contents and any number
of builds at a time.

**Missions, record and meter.** `CallsInv`: turns in use are below the counter and each is
one call's or one entry's, since the counter moves in the step that draws a turn. `RecordIsKept`
follows. A replay does not call as the live run did: the first answer of a turn may be no Edit
IR, and the repair then takes a second turn. So `RepeatInv` keeps, for each driver that has its
mission to itself, the turns `begin` with which its live Executes began, and what each of them
took (`Took`); the Executes of a replay begin with the same. A turn has one entry, so what is
found is what was recorded, but for an answer the file cut, which did not validate before
either (`LoadedIsRecord`). `ReplayTellsRecord` follows. `MeterInv`: page faults are
the sum of the ended turns and the faults since; the last turn below the limit is as far
back as the streak is long, which ties the detector's window over the list to a count
from fault to fault; the holder of the detector's mutex is the one past its first
step; what was due when a check began is not behind it; from the find to the event the
mission is latched and unlogged. `ThrashIsFound` follows for every limit. The sum is a
recursive function, and that it exists and adds up (`SumExists`, `SumOfAppend`) is shown by
a least counterexample, as the induction theorems cannot be used. The same way `VisitExists`
shows that `visit` of the cycle check is a function at all, by what is ahead of a call: fewer
white ids or a shorter list. When it finds no cycle, the ids that went black have an order
(`VisitLeaves`); at the end all are black, and `PlansCanRun` follows from `PlansInv`, that
what was taken over was checked.

**Shell and file tools.** `ShellInv`: until it starts, a command is in one place of
one shell, which is the queue, the goroutine that writes it or the process's input; who is
queued waits; a status file is its command's own and of one that ended. Without it a command that
timed out and ends later could pass for the next one (`CallsAreTold`). `CallsAreServed` is the
converse of what `ShellInv` says of the queue: a call that waits is in the queue or at the
goroutine of its shell (`NoneLost`), and each step of that goroutine brings its answer nearer,
which it has after at most 3 * `QueueCap` + 2 of them, also when the shell dies. `FilesInv`: while
nobody has seen what the user made of the file, no session is past the question whether it
has (`Unseen`); a session without rows has changed nothing that counts, or its first row is
being written (`StartsInitial`), where the changes of runs that were cancelled before there was
any row do not count. `QuietNoticed` and `InitialIsTold` follow. `HistoryInv`: the versions of
a session that has the file to itself rise, and from the present time's on none is left out
(`VersionsRise`), so the version after the last is free when a file is made anew; of the three
tries of a counted version one is the version above all (`CountedRow`). `HistoryIsTold`
follows for changes whose run was not cancelled before its rows were stored, under the two
conditions of `ChangesKept`: no second has four rows, and the file is
not made anew in a second that has one. Neither can be left out. With four rows the order
within the second, which the database does not keep, is off by more than the tries; a file
made anew in such a second starts a second run of versions beside the first, and where one
meets the other, which takes nine changes and five seconds, a version finds its three tries
taken and the change is in no row. The second condition was found by raising the bounds when
the invariant was checked before its proof.

**Model-checked only.** Liveness (`RequestsEnd`, `MissionsEnd`, `BrokerEnds`, `CancelEnds`,
`CallsReturn`, `OnlyLostQuestionsHang`): that a step which can be made is made rests on fairness
and ENABLED, which this prover does not reason about. Of `RequestsEnd`, `MissionsEnd` and
`CallsReturn` the other half is proved, that the steps still to be made run out and nothing
adds to them: `RequestsRunDown`, `MissionsNeverSentBack`, `CallsAreServed`. TLC found these to
hold on the instances of their runs before they were proved. Of the locks and sends before
that, a request's wait for `lm.mu` and a call's for a place in the queue, they say nothing:
those depend on fairness alone. Nor do they say that the shell's goroutine makes its next
step: the write of a command waits for room in the pipe.

## 6. Not modelled

* Inside modelled parts: the wording of errors and events, `List`, `Tail` and the
  read-only handlers; over-long log lines; path normalisation; a disk that fails during
  the apply; the text and region of a conflict mission and its depth limit, which only
  tests pass; packing and prompts; the index calls of a plan except that they may fail; how
  page faults find and rank their shards; tree-sitter; the sectioner.
* Runs of `Integrate` on an answer that is not Edit IR end in an error
  (`NoUsableAnswer`) after the supplemental leases at the latest.
* Other writers of the tree than missions appear in `EditDrift` only.
* Two concurrent `StoreDelta`s on one artifact: a data race on a Go slice, for whose
  outcomes there is no list; `PromptStore` lets one goroutine store deltas.
* The agent's titles and summaries and the sub-agent tool; the patch tool; the providers'
  calls that wait for a whole answer.
* Whole components: see "components" in `PROJECT.json`. Parsers, codecs, renderers, the prompt
  compiler and adapters have no state to lose. The DAG planner asks for leases once and
  checks no answer, which `Integration` covers by missions whose acquires were denied. What
  the races of the LSP client do is up to a language server the repository has no model or
  test of. Authentication, configuration, the MCP server, the rest of the terminal
  interface and the benchmarks are I/O and wiring.

## 7. Plan

Done, in the order of what the system's promises rest on: Heaven's log, leases, clocks and
server; Edit IR, drift and integration; the broker and the providers' streams with their
proofs; agent and permissions; shell and file tools; blobs, prompts and page faults; the
index; record, replay, meter and oracle.

Then the safety of all of them as theorems, in the same order.

Left, in that order: `Summarize` and titles in
`AgentSessions`; the patch tool in `FileTools`; a third mission in `integration_*`.
