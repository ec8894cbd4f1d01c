----------------------------- MODULE AngelCalls -----------------------------
(***************************************************************************)
(* Calls of an Angel: ProviderAdapter.Execute (src/god/provider.go), which *)
(* asks again once with a repair pack, over a provider that records        *)
(* (RecordingProvider), and later over one that replays the record         *)
(* (ReplayProvider, src/god/recorder.go).  Drivers share the recorder and  *)
(* the replayer; both number the calls of a mission.                       *)
(***************************************************************************)
EXTENDS Naturals, SequencesExt

CONSTANTS Drivers,     \* goroutines that execute missions
          Missions, MissionOf,
          Answers,     \* what a provider may answer, of the kinds below
          None,
          MaxExecutes  \* bound: Execute calls, live and again replayed

(* Kinds of answers: a response that validates ("edit", "macro", "diff"); one that is    *)
(* JSON but does not ("wrong"), the same beyond 512 bytes ("long"); bytes that are no    *)
(* JSON ("garbage"); and a long answer after buildRepairPack wrote over it ("cut").      *)
Good == {"edit", "macro", "diff"}
Kinds == Good \cup {"wrong", "long", "garbage", "cut"}

ASSUME CallAssumption ==
  /\ MissionOf \in [Drivers -> Missions] /\ Answers \subseteq Kinds \ {"cut"}
  /\ None \notin Kinds /\ MaxExecutes \in Nat

VARIABLES
  phase,        \* "live" or "replay"
  turnCounter,  \* of the provider in use: the next turn of a mission
  entries,      \* the record
  loaded,       \* the entries that the replayer has
  call,         \* of a driver: the pack it sends and the turn it drew
  results,      \* of a phase and a driver: what its Executes returned
  said          \* ghost: what the provider answered a mission's turn

callVars == <<phase, turnCounter, entries, loaded, call, results, said>>

Idle == [stage |-> "idle", pack |-> None, turn |-> 0]
\* A pack is known by its mission and the answer it asks to repair.
Plain(m) == [mission |-> m, repairs |-> None]

CallsInit ==
  /\ phase = "live" /\ turnCounter = [m \in Missions |-> 0]
  /\ entries = <<>> /\ loaded = <<>>
  /\ call = [d \in Drivers |-> Idle]
  /\ results = [p \in {"live", "replay"} |-> [d \in Drivers |-> <<>>]]
  /\ said = {}
-----------------------------------------------------------------------------
(* ProviderAdapter.Execute *)

Busy == {d \in Drivers : call[d].stage # "idle"}
Executes == Cardinality(Busy) + Cardinality(UNION {{d} \X DOMAIN results[phase][d] : d \in Drivers})

Execute(d) ==
  /\ d \notin Busy /\ Executes < MaxExecutes
  /\ call' = [call EXCEPT ![d] = [stage |-> "send", pack |-> Plain(MissionOf[d]), turn |-> 0]]
  /\ UNCHANGED <<phase, turnCounter, entries, loaded, results, said>>

Return(d, outcome) ==
  /\ results' = [results EXCEPT ![phase][d] = Append(@, outcome)]
  /\ call' = [call EXCEPT ![d] = Idle]

FirstAttempt(d) == call[d].pack.repairs = None

\* An answer that does not validate is sent back for repair, once.
Judge(d, a) ==
  IF a \in Good THEN Return(d, IF a = "macro" THEN "edit" ELSE a)
  ELSE IF ~FirstAttempt(d) THEN Return(d, "invalid")
  ELSE /\ call' = [call EXCEPT ![d] = [stage |-> "send", pack |-> [@.pack EXCEPT !.repairs = a], turn |-> 0]]
       /\ UNCHANGED results

\* What is left of an answer: the repair pack cuts a long one in the slice that the record
\* has too.
Left(d, a) == IF a = "long" /\ FirstAttempt(d) THEN "cut" ELSE a
-----------------------------------------------------------------------------
(* RecordingProvider.Send: a turn is drawn before the call, the entry added after it. *)

\* Variant: the turn counts the entries of the mission.
CountEntries(m) == Len(SelectSeq(entries, LAMBDA e : e.mission = m))
NextTurn(m) == turnCounter[m]

DrawTurn(d) ==
  LET m == call[d].pack.mission IN
  /\ call[d].stage = "send"
  /\ call' = [call EXCEPT ![d].stage = "sent", ![d].turn = NextTurn(m)]
  /\ turnCounter' = [turnCounter EXCEPT ![m] = @ + 1]
  /\ UNCHANGED <<phase, entries, loaded, results, said>>

Answered(d, a) ==
  LET m == call[d].pack.mission IN
  /\ phase = "live" /\ call[d].stage = "sent"
  /\ entries' = Append(entries, [mission |-> m, turn |-> call[d].turn,
                                 pack |-> call[d].pack, response |-> Left(d, a)])
  /\ said' = said \cup {[mission |-> m, turn |-> call[d].turn, answer |-> a]}
  /\ Judge(d, a)
  /\ UNCHANGED <<phase, turnCounter, loaded>>

\* Nothing is recorded of a call that fails, but its turn is gone.
SendFails(d) ==
  /\ phase = "live" /\ call[d].stage = "sent"
  /\ Return(d, "error")
  /\ UNCHANGED <<phase, turnCounter, entries, loaded, said>>
-----------------------------------------------------------------------------
(* The replay. *)

\* The encoder refuses an answer that is no JSON, and SaveTo stops there.
Encodable(e) == e.response \notin {"garbage", "cut"}
Saved == IF \A i \in DOMAIN entries : Encodable(entries[i]) THEN entries
         ELSE SubSeq(entries, 1, SelectInSeq(entries, LAMBDA e : ~Encodable(e)) - 1)

\* The replayer is loaded from the file or from the entries in memory.
StartReplay ==
  /\ phase = "live" /\ phase' = "replay"
  /\ Busy = {}
  /\ loaded' \in {Saved, entries}
  /\ turnCounter' = [m \in Missions |-> 0]
  /\ UNCHANGED <<entries, call, results, said>>

LastOf(is) == {i \in is : \A j \in is : j <= i}
Nth(is, n) == {i \in is : Cardinality({j \in is : j <= i}) = n}

\* Variant: the hash of the pack is looked up first.
FoundByHash(pack, turn) ==
  LET byTurn == {i \in DOMAIN loaded : loaded[i].mission = pack.mission /\ loaded[i].turn = turn}
      byHash == {i \in DOMAIN loaded : loaded[i].pack = pack}
  IN  IF byHash # {} THEN LastOf(byHash) ELSE LastOf(byTurn)
\* The entry for the turn, or else for the pack, or else the mission's entry at the place
\* of the turn, or its first; none when the mission has no entry.
Found(pack, turn) ==
  LET byTurn == {i \in DOMAIN loaded : loaded[i].mission = pack.mission /\ loaded[i].turn = turn}
      byHash == {i \in DOMAIN loaded : loaded[i].pack = pack}
      byMission == {i \in DOMAIN loaded : loaded[i].mission = pack.mission}
  IN  IF byTurn # {} THEN LastOf(byTurn)
      ELSE IF byHash # {} THEN LastOf(byHash)
      ELSE IF Nth(byMission, turn + 1) # {} THEN Nth(byMission, turn + 1)
      ELSE Nth(byMission, 1)

Replayed(d) ==
  LET found == Found(call[d].pack, call[d].turn) IN
  /\ phase = "replay" /\ call[d].stage = "sent"
  /\ IF found = {} THEN Return(d, "error") /\ UNCHANGED loaded
     ELSE \E i \in found :
            /\ Judge(d, loaded[i].response)
            /\ loaded' = [loaded EXCEPT ![i].response = Left(d, @)]
  /\ UNCHANGED <<phase, turnCounter, entries, said>>

CallsNext ==
  \/ StartReplay
  \/ \E d \in Drivers :
       \/ Execute(d) \/ DrawTurn(d) \/ SendFails(d) \/ Replayed(d)
       \/ \E a \in Answers : Answered(d, a)
-----------------------------------------------------------------------------
(* What holds of it. *)

\* Types of all variables.
CallsTypeOK ==
  /\ phase \in {"live", "replay"} /\ turnCounter \in [Missions -> Nat]
  /\ \A e \in ToSet(entries) \cup ToSet(loaded) :
       e.mission \in Missions /\ e.response \in Kinds /\ e.pack.mission = e.mission
  /\ \A d \in Drivers : call[d].turn \in Nat /\ call[d].stage \in {"idle", "send", "sent"}
  /\ \A p \in {"live", "replay"}, d \in Drivers :
       ToSet(results[p][d]) \subseteq {"edit", "diff", "invalid", "error"}

\* A turn of a mission has one entry at most, and it is what the provider answered to that
\* turn, however the calls of several drivers overlap; only a long answer that was sent
\* back for repair has been written over (recorder.go:42-75, provider.go:269-275).
RecordTellsTruth ==
  \A i, j \in DOMAIN entries :
    LET e == entries[i] IN
    /\ e.mission = entries[j].mission /\ e.turn = entries[j].turn => i = j
    /\ \E s \in said : /\ s.mission = e.mission /\ s.turn = e.turn
                       /\ e.response = s.answer \/ (s.answer = "long" /\ e.response = "cut")

\* The replay of a mission that one driver had to itself returns what the live calls did,
\* in their order, when all answers were recorded: no Send failed, and none of the
\* mission's entries is missing from the file (recorder.go:190-219).
Alone(d) == \A o \in Drivers \ {d} : MissionOf[o] # MissionOf[d]
Complete(d) ==
  /\ "error" \notin ToSet(results["live"][d])
  /\ phase = "replay" =>
       \A i \in DOMAIN entries : entries[i].mission = MissionOf[d] => i \in DOMAIN loaded
ReplayRepeats ==
  \A d \in Drivers :
    Alone(d) /\ Complete(d) /\ Len(results["replay"][d]) <= Len(results["live"][d]) =>
      IsPrefix(results["replay"][d], results["live"][d])

\* A replay that gets nothing but the answers of one mission's record has no failing Send
\* unless the mission has no entry (recorder.go:207-219).
ReplayAnswers ==
  \A d \in Drivers :
    "error" \in ToSet(results["replay"][d]) => \A e \in ToSet(loaded) : e.mission # MissionOf[d]

\* The record is one of what was said (recorder.go:42-75).
RecordIsTrue == CallsTypeOK /\ RecordTellsTruth

\* A replay says what the record says (recorder.go:190-219).
ReplayIsTrue == ReplayRepeats /\ ReplayAnswers
-----------------------------------------------------------------------------
(* The inductive invariant of the record, and of the replay that it has answers for. *)

Outcomes == {"edit", "diff", "invalid", "error"}
Packs == [mission : Missions, repairs : Kinds \cup {None}]
CallStates == [stage : {"idle", "send", "sent"}, pack : Packs \cup {None}, turn : Nat]
Entries == [mission : Missions, turn : Nat, pack : Packs, response : Kinds]

CallsTyped ==
  /\ phase \in {"live", "replay"} /\ turnCounter \in [Missions -> Nat]
  /\ entries \in Seq(Entries) /\ loaded \in Seq(Entries)
  /\ call \in [Drivers -> CallStates]
  /\ results \in [{"live", "replay"} -> [Drivers -> Seq(Outcomes)]]
  /\ \A d \in Drivers :
       call[d].stage # "idle" => call[d].pack \in Packs /\ call[d].pack.mission = MissionOf[d]
  /\ \A i \in DOMAIN entries : entries[i].pack.mission = entries[i].mission
  /\ \A i \in DOMAIN loaded : loaded[i].pack.mission = loaded[i].mission

\* While the calls are live, the turns drawn so far of a mission are below its counter, and
\* each is one driver's that waits for an answer, or one entry's, or neither's.
TurnsDrawn ==
  phase = "live" =>
    /\ \A i \in DOMAIN entries : entries[i].turn < turnCounter[entries[i].mission]
    /\ \A d \in Drivers : call[d].stage = "sent" =>
         /\ call[d].turn < turnCounter[MissionOf[d]]
         /\ \A o \in Drivers :
              /\ call[o].stage = "sent" /\ MissionOf[o] = MissionOf[d] /\ call[o].turn = call[d].turn
              => o = d
         /\ \A i \in DOMAIN entries :
              entries[i].mission = MissionOf[d] => entries[i].turn # call[d].turn

NoReplayYet == phase = "live" => \A d \in Drivers : results["replay"][d] = <<>>

CallsInv == CallsTyped /\ TurnsDrawn /\ RecordTellsTruth /\ NoReplayYet /\ ReplayAnswers

(* The inductive invariant of the replay that repeats. *)

\* What the replayer has is the record, but for an answer that did not validate.
LoadedIsRecord ==
  \A i \in DOMAIN loaded :
    /\ i \in DOMAIN entries
    /\ loaded[i].mission = entries[i].mission /\ loaded[i].turn = entries[i].turn
    /\ \/ loaded[i].response = entries[i].response
       \/ {loaded[i].response, entries[i].response} \cap Good = {}

Told(a) == IF a \notin Good THEN "invalid" ELSE IF a = "macro" THEN "edit" ELSE a

\* The record has that answer to the turn of a mission.
Recorded(m, turn, a) ==
  \E i \in DOMAIN entries :
    entries[i].mission = m /\ entries[i].turn = turn /\ entries[i].response = a
\* An Execute that began with this turn returned the outcome; the next begins with that.
Took(m, turn, outcome, next) ==
  \E a \in Kinds :
    /\ Recorded(m, turn, a)
    /\ IF a \in Good THEN outcome = Told(a) /\ next = turn + 1
       ELSE /\ next = turn + 2
            /\ \E b \in Kinds : Recorded(m, turn + 1, b) /\ outcome = Told(b)

\* Where an Execute is that begins with this turn, or would.
UnderWay(d, turn) ==
  LET next == turnCounter[MissionOf[d]]
      again == \E a \in Kinds \ Good : Recorded(MissionOf[d], turn, a)
  IN  /\ call[d].stage = "idle" => next = turn
      /\ call[d].stage = "send" =>
           IF FirstAttempt(d) THEN next = turn ELSE again /\ next = turn + 1
      /\ call[d].stage = "sent" =>
           IF FirstAttempt(d) THEN call[d].turn = turn /\ next = turn + 1
           ELSE again /\ call[d].turn = turn + 1 /\ next = turn + 2

\* begin has the turns that the live Executes of d began with, and the one the next will.
\* Those of a replay begin with the same, until there are more of them.
Follows(d, begin) ==
  LET live == results["live"][d]
      replay == results["replay"][d]
  IN  /\ begin[0] = 0
      /\ \A k \in 1 .. Len(live) : Took(MissionOf[d], begin[k - 1], live[k], begin[k])
      /\ phase = "live" => UnderWay(d, begin[Len(live)])
      /\ phase = "replay" /\ Complete(d) /\ Len(replay) <= Len(live) =>
           /\ \A k \in 1 .. Len(replay) : replay[k] = live[k]
           /\ Len(replay) < Len(live) => UnderWay(d, begin[Len(replay)])

Repeats(d) ==
  Alone(d) /\ "error" \notin ToSet(results["live"][d]) =>
    \E begin \in [0 .. Len(results["live"][d]) -> Nat] : Follows(d, begin)

RepeatInv == CallsInv /\ LoadedIsRecord /\ \A d \in Drivers : Repeats(d)
=============================================================================
