--------------------------- MODULE MissionProofs ---------------------------
(***************************************************************************)
(* What God writes down of its missions, for any number of drivers, calls  *)
(* and missions: the record of the Angels' calls says what was answered,   *)
(* a replay of the whole record returns what was returned live and finds   *)
(* an answer while the mission has one, the detector finds thrashing when  *)
(* it is there, once, and never without cause, and the oracle's plan that  *)
(* is taken over can be carried out.                                       *)
(***************************************************************************)
EXTENDS AngelCalls, MissionMeterProperties, FiniteSetTheorems, WellFoundedInduction, NaturalsInduction, TLAPS

(* The record of the calls. *)

CallsSpec == CallsInit /\ [][CallsNext]_callVars

LEMMA LeastOf ==
  ASSUME NEW S, S \subseteq Nat, S # {}
  PROVE  \E n \in S : \A m \in S : n <= m
<1>1. \E n \in S : \A m \in S : <<m, n>> \notin OpToRel(<, Nat)
  BY NatLessThanWellFounded, WFMin, Zenon
<1>2. \A m, n \in Nat : <<m, n>> \notin OpToRel(<, Nat) => n <= m
  BY DEF OpToRel
<1>3. QED
  BY <1>1, <1>2

LEMMA GreatestOf ==
  ASSUME NEW n \in Nat, NEW S, S \subseteq 1 .. n, S # {}
  PROVE  \E x \in S : \A y \in S : y <= x
<1>1. DEFINE T == {n - x : x \in S}
<1>2. T \subseteq Nat /\ T # {}
  <2>1. \A x \in S : x \in 1 .. n
    OBVIOUS
  <2>2. \A x \in 1 .. n : n - x \in Nat
    OBVIOUS
  <2>3. QED
    BY <2>1, <2>2
<1> HIDE DEF T
<1>3. PICK t \in T : \A u \in T : t <= u
  BY <1>2, LeastOf
<1>4. PICK x \in S : t = n - x
  BY DEF T
<1>5. ASSUME NEW y \in S PROVE y <= x
  <2>1. n - y \in T
    BY DEF T
  <2>2. n - x <= n - y /\ x \in Int /\ y \in Int
    BY <1>3, <1>4, <2>1
  <2>3. QED
    BY <2>2
<1>6. QED
  BY <1>5

LEMMA CallFacts ==
  ASSUME CallsTyped
  PROVE  /\ \A d \in Drivers : call[d] \in CallStates /\ MissionOf[d] \in Missions
         /\ Len(entries) \in Nat /\ DOMAIN entries = 1 .. Len(entries)
         /\ Len(loaded) \in Nat /\ DOMAIN loaded = 1 .. Len(loaded)
         /\ \A i \in DOMAIN entries : entries[i] \in Entries
         /\ \A i \in DOMAIN loaded : loaded[i] \in Entries
         /\ Idle \in CallStates /\ Idle.stage = "idle"
         /\ \A m \in Missions : Plain(m) \in Packs /\ Plain(m).mission = m
  BY CallAssumption DEF CallsTyped, Idle, CallStates, Plain, Packs

LEMMA CallsInitHolds == CallsInit => CallsInv
<1>1. SUFFICES ASSUME CallsInit PROVE CallsInv
  OBVIOUS
<1>2. <<>> \in Seq(Entries) /\ <<>> \in Seq(Outcomes) /\ DOMAIN <<>> = {}
  OBVIOUS
<1>3. Idle \in CallStates /\ Idle.stage = "idle"
  BY DEF Idle, CallStates
<1>4. results \in [{"live", "replay"} -> [Drivers -> Seq(Outcomes)]]
      /\ \A d \in Drivers : results["replay"][d] = <<>>
  BY <1>1, <1>2 DEF CallsInit
<1>5. CallsTyped
  BY <1>1, <1>2, <1>3, <1>4 DEF CallsInit, CallsTyped
<1>6. TurnsDrawn
  BY <1>1, <1>2, <1>3 DEF CallsInit, TurnsDrawn
<1>7. RecordTellsTruth /\ NoReplayYet /\ ReplayAnswers
  BY <1>1, <1>2, <1>4 DEF CallsInit, RecordTellsTruth, NoReplayYet, ReplayAnswers, ToSet
<1>8. QED
  BY <1>5, <1>6, <1>7 DEF CallsInv

\* What a call that comes back adds to the results.
LEMMA Returned ==
  ASSUME CallsTyped, NEW d \in Drivers, NEW x \in Outcomes, Return(d, x)
  PROVE  /\ call' \in [Drivers -> CallStates] /\ call'[d].stage = "idle"
         /\ \A o \in Drivers \ {d} : call'[o] = call[o]
         /\ results' \in [{"live", "replay"} -> [Drivers -> Seq(Outcomes)]]
         /\ results'[phase][d] = Append(results[phase][d], x)
         /\ \A p \in {"live", "replay"}, o \in Drivers :
              p # phase \/ o # d => results'[p][o] = results[p][o]
<1>1. results[phase][d] \in Seq(Outcomes) /\ phase \in {"live", "replay"}
  BY DEF CallsTyped
<1>2. PICK q \in Seq(Outcomes) : q = Append(results[phase][d], x)
  <2>1. PICK r \in Seq(Outcomes) : r = results[phase][d]
    BY <1>1
  <2>2. Append(r, x) \in Seq(Outcomes)
    OBVIOUS
  <2>3. QED
    BY <2>1, <2>2
<1>3. results' = [results EXCEPT ![phase] = [results[phase] EXCEPT ![d] = q]]
  BY <1>2 DEF Return
<1>4. [results[phase] EXCEPT ![d] = q] \in [Drivers -> Seq(Outcomes)]
  BY <1>1, <1>2 DEF CallsTyped
<1>5. /\ results' \in [{"live", "replay"} -> [Drivers -> Seq(Outcomes)]]
      /\ results'[phase][d] = q
      /\ \A p \in {"live", "replay"}, o \in Drivers :
           p # phase \/ o # d => results'[p][o] = results[p][o]
  BY <1>1, <1>3, <1>4 DEF CallsTyped
<1>6. call' = [call EXCEPT ![d] = Idle] /\ call \in [Drivers -> CallStates]
  BY DEF Return, CallsTyped
<1>7. QED
  BY <1>2, <1>5, <1>6, CallFacts

\* An answer ends the call, or sends a repair pack of the same mission.
LEMMA Judged ==
  ASSUME CallsTyped, NEW d \in Drivers, call[d].stage = "sent", NEW a \in Kinds, Judge(d, a)
  PROVE  /\ call' \in [Drivers -> CallStates] /\ call'[d].stage \in {"idle", "send"}
         /\ call'[d].stage # "idle" => call'[d].pack \in Packs /\ call'[d].pack.mission = MissionOf[d]
         /\ \A o \in Drivers \ {d} : call'[o] = call[o]
         /\ results' \in [{"live", "replay"} -> [Drivers -> Seq(Outcomes)]]
         /\ \/ results' = results
            \/ \E x \in Outcomes \ {"error"} : results'[phase][d] = Append(results[phase][d], x)
         /\ \A p \in {"live", "replay"}, o \in Drivers :
              p # phase \/ o # d => results'[p][o] = results[p][o]
<1>1. CASE \E x \in Outcomes \ {"error"} : Return(d, x)
  BY <1>1, Returned
<1>2. CASE a \notin Good /\ FirstAttempt(d)
  <2>1. DEFINE pack == [call[d].pack EXCEPT !.repairs = a]
               c == [stage |-> "send", pack |-> pack, turn |-> 0]
  <2>2. call[d].pack \in Packs /\ call[d].pack.mission = MissionOf[d]
    BY DEF CallsTyped
  <2>3. pack \in Packs /\ pack.mission = MissionOf[d]
    BY <2>2 DEF Packs
  <2>4. call' = [call EXCEPT ![d] = c] /\ results' = results
    BY <1>2 DEF Judge
  <2> HIDE DEF pack
  <2>5. c \in CallStates /\ c.stage = "send" /\ c.pack = pack
    BY <2>3 DEF CallStates
  <2> HIDE DEF c
  <2>6. QED
    BY <2>3, <2>4, <2>5 DEF CallsTyped
<1>3. CASE a \in Good
  <2>1. PICK x \in Outcomes \ {"error"} : x = IF a = "macro" THEN "edit" ELSE a
    BY <1>3 DEF Good, Outcomes
  <2>2. Return(d, x)
    BY <1>3, <2>1 DEF Judge
  <2>3. QED
    BY <1>1, <2>2
<1>4. CASE a \notin Good /\ ~FirstAttempt(d)
  <2>1. Return(d, "invalid") /\ "invalid" \in Outcomes \ {"error"}
    BY <1>4 DEF Judge, Outcomes
  <2>2. QED
    BY <1>1, <2>1
<1>5. QED
  BY <1>2, <1>3, <1>4

LEMMA ExecuteStep ==
  ASSUME CallsInv, NEW d \in Drivers, Execute(d)
  PROVE  CallsInv'
<1>1. CallsTyped /\ TurnsDrawn /\ RecordTellsTruth /\ NoReplayYet /\ ReplayAnswers
  BY DEF CallsInv
<1>2. DEFINE c == [stage |-> "send", pack |-> Plain(MissionOf[d]), turn |-> 0]
<1>3. call' = [call EXCEPT ![d] = c] /\ UNCHANGED <<phase, turnCounter, entries, loaded, results, said>>
  BY DEF Execute
<1>4. c \in CallStates /\ c.stage = "send" /\ c.pack \in Packs /\ c.pack.mission = MissionOf[d]
  BY <1>1, CallFacts DEF CallStates
<1> HIDE DEF c
<1>5. /\ call' \in [Drivers -> CallStates] /\ call'[d] = c
      /\ \A o \in Drivers \ {d} : call'[o] = call[o]
  BY <1>1, <1>3, <1>4 DEF CallsTyped
<1>6. CallsTyped'
  BY <1>1, <1>3, <1>4, <1>5 DEF CallsTyped
<1>7. TurnsDrawn'
  BY <1>1, <1>3, <1>4, <1>5 DEF TurnsDrawn
<1>8. QED
  BY <1>1, <1>3, <1>6, <1>7 DEF CallsInv, RecordTellsTruth, NoReplayYet, ReplayAnswers

LEMMA DrawTurnStep ==
  ASSUME CallsInv, NEW d \in Drivers, DrawTurn(d)
  PROVE  CallsInv'
<1>1. CallsTyped /\ TurnsDrawn /\ RecordTellsTruth /\ NoReplayYet /\ ReplayAnswers
  BY DEF CallsInv
<1>2. PICK m \in Missions : m = MissionOf[d] /\ m = call[d].pack.mission /\ call[d].pack \in Packs
  BY <1>1, CallFacts DEF CallsTyped, DrawTurn
<1>3. PICK n \in Nat : n = turnCounter[m]
  BY <1>1 DEF CallsTyped
<1>4. DEFINE c == [call[d] EXCEPT !.stage = "sent", !.turn = n]
<1>5. /\ call' = [call EXCEPT ![d] = c] /\ turnCounter' = [turnCounter EXCEPT ![m] = n + 1]
      /\ UNCHANGED <<phase, entries, loaded, results, said>>
  BY <1>2, <1>3 DEF DrawTurn, NextTurn
<1>6. c \in CallStates /\ c.stage = "sent" /\ c.pack = call[d].pack /\ c.turn = n
  BY <1>1, CallFacts DEF CallStates
<1> HIDE DEF c
<1>7. /\ call' \in [Drivers -> CallStates] /\ call'[d] = c
      /\ \A o \in Drivers \ {d} : call'[o] = call[o]
  BY <1>1, <1>5, <1>6 DEF CallsTyped
<1>8. /\ turnCounter' \in [Missions -> Nat] /\ turnCounter'[m] = n + 1
      /\ \A k \in Missions \ {m} : turnCounter'[k] = turnCounter[k]
  BY <1>1, <1>5 DEF CallsTyped
<1>9. \A k \in Missions, t \in Nat : t < turnCounter[k] => t < turnCounter'[k]
  <2>1. \A t \in Nat : t < n => t < n + 1
    OBVIOUS
  <2>2. QED
    BY <1>3, <1>8, <2>1
<1>10. CallsTyped'
  BY <1>1, <1>2, <1>5, <1>6, <1>7, <1>8 DEF CallsTyped
<1>11. TurnsDrawn'
  <2>1. SUFFICES ASSUME phase = "live" PROVE TurnsDrawn'
    BY <1>5 DEF TurnsDrawn
  <2>2. ASSUME NEW i \in DOMAIN entries PROVE entries[i].turn < turnCounter'[entries[i].mission]
    <3>1. entries[i] \in Entries
      BY <1>1, CallFacts
    <3>2. entries[i].turn \in Nat /\ entries[i].mission \in Missions
      BY <3>1 DEF Entries
    <3>3. QED
      BY <1>1, <1>9, <2>1, <3>2 DEF TurnsDrawn
  <2>3. \A o \in Drivers : call[o].turn \in Nat /\ MissionOf[o] \in Missions
    BY <1>1, CallFacts DEF CallStates
  <2>4. \A o \in Drivers \ {d} : call[o].stage = "sent" =>
          /\ call[o].turn < turnCounter[MissionOf[o]]
          /\ call[o].turn < turnCounter'[MissionOf[o]]
          /\ MissionOf[o] = m => call[o].turn # n
    BY <1>1, <1>3, <1>9, <2>1, <2>3 DEF TurnsDrawn
  <2>5. n < turnCounter'[MissionOf[d]]
    BY <1>2, <1>3, <1>8
  <2>6. \A i \in DOMAIN entries : entries[i].mission = m => entries[i].turn # n
    <3>1. SUFFICES ASSUME NEW i \in DOMAIN entries, entries[i].mission = m
                   PROVE  entries[i].turn # n
      OBVIOUS
    <3>2. entries[i] \in Entries /\ entries[i].turn < turnCounter[m]
      BY <1>1, <2>1, <3>1, CallFacts DEF TurnsDrawn
    <3>3. entries[i].turn \in Nat
      BY <3>2 DEF Entries
    <3>4. QED
      BY <1>3, <3>2, <3>3
  <2>7. ASSUME NEW o \in Drivers, call'[o].stage = "sent"
        PROVE  /\ call'[o].turn < turnCounter'[MissionOf[o]]
               /\ \A e \in Drivers :
                    /\ call'[e].stage = "sent" /\ MissionOf[e] = MissionOf[o]
                    /\ call'[e].turn = call'[o].turn
                    => e = o
               /\ \A i \in DOMAIN entries :
                    entries[i].mission = MissionOf[o] => entries[i].turn # call'[o].turn
    <3>1. CASE o = d
      BY <1>2, <1>6, <1>7, <2>4, <2>5, <2>6, <3>1
    <3>2. CASE o # d
      <4>1. call'[o] = call[o] /\ call[o].stage = "sent"
        BY <1>7, <2>7, <3>2
      <4>2. \A e \in Drivers : /\ call'[e].stage = "sent" /\ MissionOf[e] = MissionOf[o]
                               /\ call'[e].turn = call'[o].turn
                               => e = o
        BY <1>1, <1>2, <1>6, <1>7, <2>1, <2>4, <3>2, <4>1, ZenonT(60) DEF TurnsDrawn
      <4>3. QED
        BY <1>1, <2>1, <2>4, <3>2, <4>1, <4>2 DEF TurnsDrawn
    <3>3. QED
      BY <3>1, <3>2
  <2>8. QED
    BY <1>5, <2>2, <2>7 DEF TurnsDrawn
<1>12. QED
  BY <1>1, <1>5, <1>10, <1>11 DEF CallsInv, RecordTellsTruth, NoReplayYet, ReplayAnswers

\* The turns that are left when one call is no longer on its way.
LEMMA TurnsLeft ==
  ASSUME TurnsDrawn, NEW d \in Drivers, call'[d].stage # "sent",
         \A o \in Drivers \ {d} : call'[o] = call[o],
         UNCHANGED <<phase, turnCounter, entries>>
  PROVE  TurnsDrawn'
  BY DEF TurnsDrawn

LEMMA AnsweredStep ==
  ASSUME CallsInv, NEW d \in Drivers, NEW a \in Answers, Answered(d, a)
  PROVE  CallsInv'
<1>1. CallsTyped /\ TurnsDrawn /\ RecordTellsTruth /\ NoReplayYet /\ ReplayAnswers
  BY DEF CallsInv
<1>2. a \in Kinds /\ phase = "live" /\ call[d].stage = "sent" /\ Judge(d, a)
      /\ phase' = phase /\ turnCounter' = turnCounter /\ loaded' = loaded
  BY CallAssumption DEF Answered
<1>3. /\ call' \in [Drivers -> CallStates] /\ call'[d].stage \in {"idle", "send"}
      /\ call'[d].stage # "idle" => call'[d].pack \in Packs /\ call'[d].pack.mission = MissionOf[d]
      /\ \A o \in Drivers \ {d} : call'[o] = call[o]
      /\ results' \in [{"live", "replay"} -> [Drivers -> Seq(Outcomes)]]
      /\ \A p \in {"live", "replay"}, o \in Drivers :
           p # phase \/ o # d => results'[p][o] = results[p][o]
  BY <1>1, <1>2, Judged
<1>4. PICK m \in Missions : m = MissionOf[d] /\ m = call[d].pack.mission /\ call[d].pack \in Packs
  BY <1>1, <1>2, CallFacts DEF CallsTyped
<1>5. PICK n \in Nat : n = call[d].turn
  BY <1>1, CallFacts DEF CallStates
<1>6. PICK r \in Kinds : r = Left(d, a) /\ (r = a \/ (a = "long" /\ r = "cut"))
  BY <1>2 DEF Left, Kinds
<1>7. DEFINE e == [mission |-> m, turn |-> n, pack |-> call[d].pack, response |-> r]
             s == [mission |-> m, turn |-> n, answer |-> a]
<1>8. entries' = Append(entries, e) /\ said' = said \cup {s}
  BY <1>4, <1>5, <1>6 DEF Answered
<1>9. e \in Entries /\ e.mission = m /\ e.turn = n /\ e.response = r /\ e.pack.mission = m
  BY <1>4 DEF Entries
<1>10. s.mission = m /\ s.turn = n /\ s.answer = a
  OBVIOUS
<1> HIDE DEF e, s
<1>11. Len(entries) \in Nat /\ DOMAIN entries = 1 .. Len(entries) /\ entries \in Seq(Entries)
  BY <1>1, CallFacts DEF CallsTyped
<1>12. /\ entries' \in Seq(Entries) /\ DOMAIN entries' = 1 .. Len(entries) + 1
       /\ entries'[Len(entries) + 1] = e /\ \A i \in 1 .. Len(entries) : entries'[i] = entries[i]
  BY <1>8, <1>9, <1>11
<1>13. \A i \in 1 .. Len(entries) + 1 : i \in 1 .. Len(entries) \/ i = Len(entries) + 1
  BY <1>11
<1>14. CallsTyped'
  <2>1. \A o \in Drivers : call'[o].stage # "idle" =>
                             call'[o].pack \in Packs /\ call'[o].pack.mission = MissionOf[o]
    BY <1>1, <1>3 DEF CallsTyped
  <2>2. \A i \in DOMAIN entries' : entries'[i].pack.mission = entries'[i].mission
    BY <1>1, <1>9, <1>11, <1>12, <1>13 DEF CallsTyped
  <2>3. QED
    BY <1>1, <1>2, <1>3, <1>12, <2>1, <2>2 DEF CallsTyped
<1>15. /\ n < turnCounter[m]
       /\ \A i \in 1 .. Len(entries) :
            /\ entries[i].turn < turnCounter[entries[i].mission]
            /\ entries[i].mission = m => entries[i].turn # n
       /\ \A o \in Drivers \ {d} : call[o].stage = "sent" =>
            /\ call[o].turn < turnCounter[MissionOf[o]]
            /\ MissionOf[o] = m => call[o].turn # n
  BY <1>1, <1>2, <1>4, <1>5, <1>11 DEF TurnsDrawn
<1>16. TurnsDrawn'
  <2>1. \A i \in 1 .. Len(entries) + 1 : entries'[i].turn < turnCounter[entries'[i].mission]
    BY <1>9, <1>12, <1>13, <1>15
  <2>2. ASSUME NEW o \in Drivers, call'[o].stage = "sent"
        PROVE  /\ call'[o].turn < turnCounter[MissionOf[o]]
               /\ \A c \in Drivers :
                    /\ call'[c].stage = "sent" /\ MissionOf[c] = MissionOf[o]
                    /\ call'[c].turn = call'[o].turn
                    => c = o
               /\ \A i \in 1 .. Len(entries) + 1 :
                    entries'[i].mission = MissionOf[o] => entries'[i].turn # call'[o].turn
    <3>1. o # d /\ call'[o] = call[o] /\ call[o].stage = "sent"
      BY <1>3, <2>2
    <3>2. \A c \in Drivers : call'[c].stage = "sent" => c # d /\ call'[c] = call[c]
      BY <1>3
    <3>3. \A i \in 1 .. Len(entries) + 1 :
            entries'[i].mission = MissionOf[o] => entries'[i].turn # call'[o].turn
      BY <1>1, <1>2, <1>9, <1>11, <1>12, <1>13, <1>15, <3>1, SMTT(40) DEF TurnsDrawn
    <3>4. QED
      BY <1>1, <1>2, <3>1, <3>2, <3>3 DEF TurnsDrawn
  <2>3. QED
    BY <1>2, <1>12, <2>1, <2>2 DEF TurnsDrawn
<1>17. RecordTellsTruth'
  <2>1. SUFFICES ASSUME NEW i \in 1 .. Len(entries) + 1, NEW j \in 1 .. Len(entries) + 1
                 PROVE  /\ /\ entries'[i].mission = entries'[j].mission
                           /\ entries'[i].turn = entries'[j].turn
                           => i = j
                        /\ \E t \in said' :
                             /\ t.mission = entries'[i].mission /\ t.turn = entries'[i].turn
                             /\ \/ entries'[i].response = t.answer
                                \/ t.answer = "long" /\ entries'[i].response = "cut"
    BY <1>12 DEF RecordTellsTruth
  <2>2. /\ entries'[i].mission = entries'[j].mission /\ entries'[i].turn = entries'[j].turn
        => i = j
    BY <1>1, <1>9, <1>11, <1>12, <1>13, <1>15, SMTT(40) DEF RecordTellsTruth
  <2>3. \E t \in said' : /\ t.mission = entries'[i].mission /\ t.turn = entries'[i].turn
                         /\ \/ entries'[i].response = t.answer
                            \/ t.answer = "long" /\ entries'[i].response = "cut"
    <3>1. CASE i = Len(entries) + 1
      BY <1>6, <1>8, <1>9, <1>10, <1>12, <3>1
    <3>2. CASE i \in 1 .. Len(entries)
      BY <1>1, <1>8, <1>11, <1>12, <3>2 DEF RecordTellsTruth
    <3>3. QED
      BY <1>13, <3>1, <3>2
  <2>4. QED
    BY <2>2, <2>3
<1>18. NoReplayYet'
  BY <1>1, <1>2, <1>3 DEF NoReplayYet
<1>19. ReplayAnswers'
  BY <1>2, <1>18 DEF NoReplayYet, ReplayAnswers, ToSet
<1>20. QED
  BY <1>14, <1>16, <1>17, <1>18, <1>19 DEF CallsInv

LEMMA SendFailsStep ==
  ASSUME CallsInv, NEW d \in Drivers, SendFails(d)
  PROVE  CallsInv'
<1>1. CallsTyped /\ TurnsDrawn /\ RecordTellsTruth /\ NoReplayYet /\ ReplayAnswers
  BY DEF CallsInv
<1>2. phase = "live" /\ Return(d, "error") /\ "error" \in Outcomes
      /\ UNCHANGED <<phase, turnCounter, entries, loaded, said>>
  BY DEF SendFails, Outcomes
<1>3. /\ call' \in [Drivers -> CallStates] /\ call'[d].stage = "idle"
      /\ \A o \in Drivers \ {d} : call'[o] = call[o]
      /\ results' \in [{"live", "replay"} -> [Drivers -> Seq(Outcomes)]]
      /\ \A p \in {"live", "replay"}, o \in Drivers :
           p # phase \/ o # d => results'[p][o] = results[p][o]
  BY <1>1, <1>2, Returned
<1>4. CallsTyped'
  BY <1>1, <1>2, <1>3 DEF CallsTyped
<1>5. TurnsDrawn'
  BY <1>1, <1>2, <1>3, TurnsLeft
<1>6. NoReplayYet'
  BY <1>1, <1>2, <1>3 DEF NoReplayYet
<1>7. ReplayAnswers'
  BY <1>2, <1>6 DEF NoReplayYet, ReplayAnswers, ToSet
<1>8. QED
  BY <1>1, <1>2, <1>4, <1>5, <1>6, <1>7 DEF CallsInv, RecordTellsTruth

LEMMA SavedType ==
  ASSUME CallsTyped
  PROVE  /\ Saved \in Seq(Entries)
         /\ \A i \in DOMAIN Saved : /\ Saved[i].pack.mission = Saved[i].mission
                                    /\ i \in DOMAIN entries /\ Saved[i] = entries[i]
<1>1. /\ entries \in Seq(Entries) /\ Len(entries) \in Nat /\ DOMAIN entries = 1 .. Len(entries)
      /\ \A i \in DOMAIN entries : entries[i].pack.mission = entries[i].mission
  BY CallFacts DEF CallsTyped
<1>2. CASE \A i \in DOMAIN entries : Encodable(entries[i])
  BY <1>1, <1>2 DEF Saved
<1>3. CASE ~\A i \in DOMAIN entries : Encodable(entries[i])
  <2>1. DEFINE bad == {i \in 1 .. Len(entries) : ~Encodable(entries[i])}
  <2>2. bad # {} /\ bad \subseteq 1 .. Len(entries)
    BY <1>1, <1>3
  <2>3. Saved = SubSeq(entries, 1, Min(bad) - 1)
    BY <1>3, <2>2 DEF Saved, SelectInSeq
  <2> HIDE DEF bad
  <2>4. \E n \in bad : \A m \in bad : n <= m
    <3>1. bad \subseteq Nat
      BY <2>2
    <3>2. QED
      BY <2>2, <3>1, LeastOf
  <2>5. PICK k \in 1 .. Len(entries) : k = Min(bad)
    BY <2>2, <2>4 DEF Min
  <2>6. PICK q \in Seq(Entries) : q = entries
    BY <1>1
  <2>7. /\ SubSeq(q, 1, k - 1) \in Seq(Entries) /\ DOMAIN SubSeq(q, 1, k - 1) = 1 .. k - 1
        /\ \A i \in 1 .. k - 1 : SubSeq(q, 1, k - 1)[i] = q[i] /\ i \in 1 .. Len(q)
    BY <1>1, <2>5, <2>6
  <2>8. QED
    BY <1>1, <2>3, <2>5, <2>6, <2>7
<1>4. QED
  BY <1>2, <1>3

LEMMA StartReplayStep ==
  ASSUME CallsInv, StartReplay
  PROVE  CallsInv'
<1>1. CallsTyped /\ RecordTellsTruth /\ NoReplayYet /\ phase = "live"
  BY DEF CallsInv, StartReplay
<1>2. /\ phase' = "replay" /\ loaded' \in {Saved, entries}
      /\ turnCounter' = [m \in Missions |-> 0] /\ UNCHANGED <<entries, call, results, said>>
  BY DEF StartReplay
<1>3. loaded' \in Seq(Entries) /\ \A i \in DOMAIN loaded' : loaded'[i].pack.mission = loaded'[i].mission
  BY <1>1, <1>2, SavedType DEF CallsTyped
<1>4. CallsTyped'
  BY <1>1, <1>2, <1>3 DEF CallsTyped
<1>5. TurnsDrawn' /\ NoReplayYet'
  BY <1>2 DEF TurnsDrawn, NoReplayYet
<1>6. RecordTellsTruth'
  BY <1>1, <1>2 DEF RecordTellsTruth
<1>7. ReplayAnswers'
  BY <1>1, <1>2 DEF ReplayAnswers, NoReplayYet, ToSet
<1>8. QED
  BY <1>4, <1>5, <1>6, <1>7 DEF CallsInv

\* The replayer finds an entry of the mission whenever there is one.
LEMMA FoundThere ==
  ASSUME CallsTyped, NEW pack \in Packs, NEW turn \in Nat
  PROVE  /\ Found(pack, turn) \subseteq DOMAIN loaded
         /\ (\E i \in DOMAIN loaded : loaded[i].mission = pack.mission) => Found(pack, turn) # {}
<1>1. Len(loaded) \in Nat /\ DOMAIN loaded = 1 .. Len(loaded)
  BY CallFacts
<1>2. DEFINE byTurn == {i \in DOMAIN loaded : loaded[i].mission = pack.mission /\ loaded[i].turn = turn}
             byHash == {i \in DOMAIN loaded : loaded[i].pack = pack}
             byMission == {i \in DOMAIN loaded : loaded[i].mission = pack.mission}
<1>3. Found(pack, turn) = IF byTurn # {} THEN LastOf(byTurn)
                          ELSE IF byHash # {} THEN LastOf(byHash)
                          ELSE IF Nth(byMission, turn + 1) # {} THEN Nth(byMission, turn + 1)
                          ELSE Nth(byMission, 1)
  BY DEF Found
<1>4. /\ byTurn \subseteq 1 .. Len(loaded) /\ byHash \subseteq 1 .. Len(loaded)
      /\ byMission \subseteq 1 .. Len(loaded)
  BY <1>1
<1>5. (\E i \in DOMAIN loaded : loaded[i].mission = pack.mission) => byMission # {}
  OBVIOUS
<1> HIDE DEF byTurn, byHash, byMission
<1>6. ASSUME NEW S, S \subseteq 1 .. Len(loaded), S # {}
      PROVE  LastOf(S) # {}
  <2>1. PICK x \in S : \A y \in S : y <= x
    BY <1>1, <1>6, GreatestOf
  <2>2. QED
    BY <2>1 DEF LastOf
<1>7. ASSUME NEW S, S \subseteq 1 .. Len(loaded), S # {}
      PROVE  Nth(S, 1) # {}
  <2>1. S \subseteq Nat
    BY <1>7
  <2>2. PICK x \in S : \A y \in S : x <= y
    BY <1>7, <2>1, LeastOf
  <2>3. {j \in S : j <= x} = {x}
    <3>1. \A j \in S : j <= x => j = x
      <4>1. SUFFICES ASSUME NEW j \in S, j <= x PROVE j = x
        OBVIOUS
      <4>2. j \in Nat /\ x \in Nat /\ x <= j
        BY <2>1, <2>2
      <4>3. QED
        BY <4>1, <4>2
    <3>2. x <= x
      BY <2>1
    <3>3. QED
      BY <3>1, <3>2
  <2>4. Cardinality({j \in S : j <= x}) = 1
    BY <2>3, FS_Singleton
  <2>5. QED
    BY <2>4 DEF Nth
<1>8. Found(pack, turn) \subseteq 1 .. Len(loaded)
  <2>1. /\ LastOf(byTurn) \subseteq 1 .. Len(loaded) /\ LastOf(byHash) \subseteq 1 .. Len(loaded)
        /\ \A n : Nth(byMission, n) \subseteq 1 .. Len(loaded)
    BY <1>4 DEF LastOf, Nth
  <2>2. QED
    BY <1>3, <2>1
<1>9. byMission # {} => Found(pack, turn) # {}
  BY <1>3, <1>4, <1>6, <1>7
<1>10. QED
  BY <1>1, <1>5, <1>8, <1>9

LEMMA ReplayedStep ==
  ASSUME CallsInv, NEW d \in Drivers, Replayed(d)
  PROVE  CallsInv'
<1>1. CallsTyped /\ RecordTellsTruth /\ ReplayAnswers
  BY DEF CallsInv
<1>2. /\ phase = "replay" /\ call[d].stage = "sent" /\ phase' = phase /\ turnCounter' = turnCounter
      /\ entries' = entries /\ said' = said
  BY DEF Replayed
<1>3. call[d].pack \in Packs /\ call[d].pack.mission = MissionOf[d] /\ call[d].turn \in Nat
  BY <1>1, <1>2, CallFacts DEF CallsTyped, CallStates
<1>4. PICK found : found = Found(call[d].pack, call[d].turn)
  OBVIOUS
<1>5. /\ found \subseteq DOMAIN loaded
      /\ (\E i \in DOMAIN loaded : loaded[i].mission = MissionOf[d]) => found # {}
  BY <1>1, <1>3, <1>4, FoundThere
<1>6. TurnsDrawn' /\ NoReplayYet'
  BY <1>2 DEF TurnsDrawn, NoReplayYet
<1>7. RecordTellsTruth'
  BY <1>1, <1>2 DEF RecordTellsTruth
<1>8. CASE found = {}
  <2>1. Return(d, "error") /\ loaded' = loaded /\ "error" \in Outcomes
    BY <1>4, <1>8 DEF Replayed, Outcomes
  <2>2. /\ call' \in [Drivers -> CallStates] /\ call'[d].stage = "idle"
        /\ \A o \in Drivers \ {d} : call'[o] = call[o]
        /\ results' \in [{"live", "replay"} -> [Drivers -> Seq(Outcomes)]]
        /\ \A p \in {"live", "replay"}, o \in Drivers :
             p # phase \/ o # d => results'[p][o] = results[p][o]
    BY <1>1, <2>1, Returned
  <2>3. CallsTyped'
    BY <1>1, <1>2, <2>1, <2>2 DEF CallsTyped
  <2>4. \A e \in ToSet(loaded) : e.mission # MissionOf[d]
    BY <1>5, <1>8 DEF ToSet
  <2>5. ReplayAnswers'
    BY <1>1, <1>2, <2>1, <2>2, <2>4 DEF ReplayAnswers
  <2>6. QED
    BY <1>6, <1>7, <2>3, <2>5 DEF CallsInv
<1>9. ASSUME NEW i \in found, Judge(d, loaded[i].response),
             loaded' = [loaded EXCEPT ![i].response = Left(d, @)]
      PROVE  CallsInv'
  <2>1. i \in DOMAIN loaded /\ loaded[i] \in Entries
    BY <1>1, <1>5, CallFacts
  <2>2. PICK a \in Kinds : a = loaded[i].response
    BY <2>1 DEF Entries
  <2>3. PICK r \in Kinds : r = Left(d, a)
    BY DEF Left, Kinds
  <2>4. DEFINE e == [loaded[i] EXCEPT !.response = r]
  <2>5. loaded' = [loaded EXCEPT ![i] = e]
    BY <1>9, <2>2, <2>3
  <2>6. e \in Entries /\ e.mission = loaded[i].mission /\ e.pack = loaded[i].pack
    BY <2>1 DEF Entries
  <2> HIDE DEF e
  <2>7. /\ loaded' \in Seq(Entries) /\ DOMAIN loaded' = DOMAIN loaded
        /\ loaded'[i] = e /\ \A j \in DOMAIN loaded : j # i => loaded'[j] = loaded[j]
    BY <1>1, <2>1, <2>5, <2>6 DEF CallsTyped
  <2>8. /\ call' \in [Drivers -> CallStates] /\ call'[d].stage \in {"idle", "send"}
        /\ call'[d].stage # "idle" => call'[d].pack \in Packs /\ call'[d].pack.mission = MissionOf[d]
        /\ \A o \in Drivers \ {d} : call'[o] = call[o]
        /\ results' \in [{"live", "replay"} -> [Drivers -> Seq(Outcomes)]]
        /\ \/ results' = results
           \/ \E x \in Outcomes \ {"error"} : results'[phase][d] = Append(results[phase][d], x)
        /\ \A p \in {"live", "replay"}, o \in Drivers :
             p # phase \/ o # d => results'[p][o] = results[p][o]
    BY <1>1, <1>2, <1>9, <2>2, Judged
  <2>9. CallsTyped'
    <3>1. \A o \in Drivers : call'[o].stage # "idle" =>
                               call'[o].pack \in Packs /\ call'[o].pack.mission = MissionOf[o]
      BY <1>1, <2>8 DEF CallsTyped
    <3>2. \A j \in DOMAIN loaded' : loaded'[j].pack.mission = loaded'[j].mission
      BY <1>1, <2>1, <2>6, <2>7, ZenonT(60) DEF CallsTyped
    <3>3. QED
      BY <1>1, <1>2, <2>7, <2>8, <3>1, <3>2 DEF CallsTyped
  <2>10. \A j \in DOMAIN loaded : loaded'[j].mission = loaded[j].mission
    BY <2>6, <2>7
  <2>11. \A o \in Drivers : "error" \in ToSet(results'["replay"][o])
                            => "error" \in ToSet(results["replay"][o])
    <3>1. SUFFICES ASSUME NEW o \in Drivers, "error" \in ToSet(results'["replay"][o])
                   PROVE  "error" \in ToSet(results["replay"][o])
      OBVIOUS
    <3>2. CASE results'["replay"][o] = results["replay"][o]
      BY <3>1, <3>2
    <3>3. ASSUME NEW x \in Outcomes \ {"error"}, o = d,
                 results'["replay"][d] = Append(results["replay"][d], x)
          PROVE  "error" \in ToSet(results["replay"][o])
      <4>1. PICK q \in Seq(Outcomes) : q = results["replay"][d]
        BY <1>1 DEF CallsTyped
      <4>2. PICK k \in DOMAIN Append(q, x) : Append(q, x)[k] = "error"
        BY <3>1, <3>3, <4>1 DEF ToSet
      <4>3. k \in 1 .. Len(q) /\ q[k] = "error"
        BY <3>3, <4>2
      <4>4. QED
        BY <3>3, <4>1, <4>3 DEF ToSet
    <3>4. QED
      BY <1>2, <2>8, <3>2, <3>3
  <2>12. ReplayAnswers'
    <3>1. SUFFICES ASSUME NEW o \in Drivers, "error" \in ToSet(results'["replay"][o]),
                          NEW j \in DOMAIN loaded'
                   PROVE  loaded'[j].mission # MissionOf[o]
      BY DEF ReplayAnswers, ToSet
    <3>2. loaded[j] \in ToSet(loaded) /\ j \in DOMAIN loaded
      BY <2>7 DEF ToSet
    <3>3. QED
      BY <1>1, <2>10, <2>11, <3>1, <3>2 DEF ReplayAnswers
  <2>13. QED
    BY <1>6, <1>7, <2>9, <2>12 DEF CallsInv
<1>10. QED
  BY <1>4, <1>8, <1>9 DEF Replayed

\* Turns are drawn once, entries are what was answered, and a replay has the missions of its
\* record (provider.go:96-162, recorder.go:42-75, 188-219).
THEOREM CallsInvariant == CallsSpec => []CallsInv
<1>1. CallsInit => CallsInv
  BY CallsInitHolds
<1>2. CallsInv /\ [CallsNext]_callVars => CallsInv'
  <2>1. SUFFICES ASSUME CallsInv, [CallsNext]_callVars PROVE CallsInv'
    OBVIOUS
  <2>2. CASE StartReplay
    BY <2>1, <2>2, StartReplayStep
  <2>3. ASSUME NEW d \in Drivers, Execute(d) \/ DrawTurn(d) \/ SendFails(d) \/ Replayed(d)
        PROVE  CallsInv'
    BY <2>1, <2>3, ExecuteStep, DrawTurnStep, SendFailsStep, ReplayedStep
  <2>4. ASSUME NEW d \in Drivers, NEW a \in Answers, Answered(d, a) PROVE CallsInv'
    BY <2>1, <2>4, AnsweredStep
  <2>5. CASE UNCHANGED callVars
    BY <2>1, <2>5 DEF callVars, CallsInv, CallsTyped, TurnsDrawn, RecordTellsTruth, NoReplayYet,
                      ReplayAnswers
  <2>6. QED
    BY <2>1, <2>2, <2>3, <2>4, <2>5 DEF CallsNext
<1>3. QED
  BY <1>1, <1>2, PTL DEF CallsSpec

\* A turn of a mission is recorded once at most, and as it was answered, but for a long
\* answer that was sent back for repair; however the calls of drivers overlap and whichever
\* fail (recorder.go:42-75, provider.go:269-275).
THEOREM RecordIsKept == CallsSpec => []RecordIsTrue
<1>1. CallsInv => RecordIsTrue
  <2>1. SUFFICES ASSUME CallsInv PROVE CallsTypeOK /\ RecordTellsTruth
    BY DEF RecordIsTrue
  <2>2. CallsTyped
    BY <2>1 DEF CallsInv
  <2>3. ASSUME NEW e \in ToSet(entries) \cup ToSet(loaded)
        PROVE  e.mission \in Missions /\ e.response \in Kinds /\ e.pack.mission = e.mission
    BY <2>2, CallFacts DEF ToSet, Entries, CallsTyped
  <2>4. \A d \in Drivers : call[d].turn \in Nat /\ call[d].stage \in {"idle", "send", "sent"}
    BY <2>2, CallFacts DEF CallStates
  <2>5. ASSUME NEW p \in {"live", "replay"}, NEW d \in Drivers
        PROVE  ToSet(results[p][d]) \subseteq {"edit", "diff", "invalid", "error"}
    <3>1. PICK q \in Seq(Outcomes) : q = results[p][d]
      BY <2>2 DEF CallsTyped
    <3>2. ToSet(q) \subseteq Outcomes
      BY DEF ToSet
    <3>3. QED
      BY <3>1, <3>2 DEF Outcomes
  <2>6. phase \in {"live", "replay"} /\ turnCounter \in [Missions -> Nat]
    BY <2>2 DEF CallsTyped
  <2>7. QED
    BY <2>1, <2>3, <2>4, <2>5, <2>6 DEF CallsInv, CallsTypeOK
<1>2. QED
  BY <1>1, CallsInvariant, PTL

(* A replay repeats the live results. *)

\* A turn has one answer in the record.
LEMMA OneAnswer ==
  ASSUME RecordTellsTruth, NEW m, NEW turn, NEW a, NEW b, Recorded(m, turn, a), Recorded(m, turn, b)
  PROVE  a = b
<1>1. PICK i \in DOMAIN entries : entries[i].mission = m /\ entries[i].turn = turn /\ entries[i].response = a
  BY DEF Recorded
<1>2. PICK j \in DOMAIN entries : entries[j].mission = m /\ entries[j].turn = turn /\ entries[j].response = b
  BY DEF Recorded
<1>3. i = j
  BY <1>1, <1>2 DEF RecordTellsTruth
<1>4. QED
  BY <1>1, <1>2, <1>3

\* No entry is taken back.
RecordKept == \A m, turn, a : Recorded(m, turn, a) => Recorded(m, turn, a)'

LEMMA EntriesKept ==
  ASSUME \A i \in DOMAIN entries : i \in DOMAIN entries' /\ entries'[i] = entries[i]
  PROVE  RecordKept
BY DEF RecordKept, Recorded

LEMMA TookKept ==
  ASSUME RecordKept, NEW m, NEW turn, NEW x, NEW next, Took(m, turn, x, next)
  PROVE  Took(m, turn, x, next)'
BY DEF RecordKept, Took

\* What d does, or others do, without a result of its own.
LEMMA MoveStep ==
  ASSUME CallsTyped, NEW d \in Drivers, Repeats(d), phase' = phase, RecordKept,
         results'["live"][d] = results["live"][d], results'["replay"][d] = results["replay"][d],
         phase = "replay" /\ Complete(d)' => Complete(d),
         \A turn \in Nat :
           /\ UnderWay(d, turn)
           /\ phase = "replay" => Complete(d) /\ \E x, next : Took(MissionOf[d], turn, x, next)
           => UnderWay(d, turn)'
  PROVE  Repeats(d)'
<1>1. SUFFICES ASSUME Alone(d), "error" \notin ToSet(results["live"][d])
               PROVE  \E begin \in [0 .. Len(results["live"][d]) -> Nat] : Follows(d, begin)'
  BY DEF Repeats, Alone
<1>2. PICK live \in Seq(Outcomes), replay \in Seq(Outcomes) :
        live = results["live"][d] /\ replay = results["replay"][d]
  BY DEF CallsTyped
<1>3. PICK begin \in [0 .. Len(live) -> Nat] : Follows(d, begin)
  BY <1>1, <1>2 DEF Repeats
<1>4. begin[0] = 0
      /\ \A k \in 1 .. Len(live) : Took(MissionOf[d], begin[k - 1], live[k], begin[k])'
  BY <1>2, <1>3, TookKept DEF Follows
<1>5. \A k \in 0 .. Len(live) : begin[k] \in Nat
  OBVIOUS
<1>6. phase = "live" => UnderWay(d, begin[Len(live)])'
  <2>1. phase = "live" => UnderWay(d, begin[Len(live)])
    BY <1>2, <1>3 DEF Follows
  <2>2. Len(live) \in 0 .. Len(live)
    OBVIOUS
  <2>3. phase = "live" => phase # "replay"
    OBVIOUS
  <2>4. QED
    BY <1>5, <2>1, <2>2, <2>3
<1>7. ASSUME phase = "replay", Complete(d)', Len(replay) <= Len(live)
      PROVE  /\ \A k \in 1 .. Len(replay) : replay[k] = live[k]
             /\ Len(replay) < Len(live) => UnderWay(d, begin[Len(replay)])'
  <2>1. Complete(d)
    BY <1>7
  <2>2. /\ \A k \in 1 .. Len(replay) : replay[k] = live[k]
        /\ Len(replay) < Len(live) => UnderWay(d, begin[Len(replay)])
    BY <1>2, <1>3, <1>7, <2>1 DEF Follows
  <2>3. Len(replay) \in 0 .. Len(live)
    BY <1>7
  <2>4. Len(replay) < Len(live) =>
          Took(MissionOf[d], begin[Len(replay)], live[Len(replay) + 1], begin[Len(replay) + 1])
    <3>1. SUFFICES ASSUME Len(replay) < Len(live)
                   PROVE  Took(MissionOf[d], begin[Len(replay)], live[Len(replay) + 1], begin[Len(replay) + 1])
      OBVIOUS
    <3>2. PICK k \in 1 .. Len(live) : k = Len(replay) + 1
      BY <3>1
    <3>3. Took(MissionOf[d], begin[k - 1], live[k], begin[k]) /\ k - 1 = Len(replay)
      BY <1>2, <1>3, <3>2, SMTT(40) DEF Follows
    <3>4. QED
      BY <3>2, <3>3
  <2>5. QED
    BY <1>5, <1>7, <2>1, <2>2, <2>3, <2>4
<1>8. results'["live"][d] = live /\ results'["replay"][d] = replay /\ results["live"][d] = live
  BY <1>2
<1>9. Follows(d, begin)'
  BY <1>4, <1>6, <1>7, <1>8 DEF Follows
<1>10. QED
  BY <1>8, <1>9

\* What others do changes nothing for d.
LEMMA OthersStep ==
  ASSUME CallsTyped, NEW d \in Drivers, Repeats(d), phase' = phase, RecordKept,
         results'["live"][d] = results["live"][d], results'["replay"][d] = results["replay"][d],
         call'[d] = call[d], turnCounter'[MissionOf[d]] = turnCounter[MissionOf[d]],
         phase = "replay" => entries' = entries /\ DOMAIN loaded' = DOMAIN loaded
  PROVE  Repeats(d)'
<1>1. phase = "replay" /\ Complete(d)' => Complete(d)
  BY DEF Complete
<1>2. \A turn : UnderWay(d, turn) => UnderWay(d, turn)'
  BY DEF UnderWay, FirstAttempt, RecordKept
<1>3. QED
  BY <1>1, <1>2, MoveStep

\* An answer ends the Execute, or is sent back.
LEMMA JudgedAs ==
  ASSUME CallsTyped, NEW d \in Drivers, call[d].stage = "sent", NEW a \in Kinds, Judge(d, a)
  PROVE  \/ /\ a \in Good \/ ~FirstAttempt(d)
            /\ call'[d].stage = "idle" /\ Told(a) \in Outcomes \ {"error"}
            /\ results'[phase][d] = Append(results[phase][d], Told(a))
         \/ /\ a \notin Good /\ FirstAttempt(d)
            /\ call'[d].stage = "send" /\ call'[d].pack.repairs = a /\ results' = results
<1>1. CASE a \in Good \/ ~FirstAttempt(d)
  <2>1. Told(a) \in Outcomes \ {"error"}
    BY DEF Told, Outcomes, Good
  <2>2. Return(d, Told(a))
    BY <1>1 DEF Judge, Told
  <2>3. QED
    BY <1>1, <2>1, <2>2, Returned
<1>2. CASE a \notin Good /\ FirstAttempt(d)
  <2>1. DEFINE pack == [call[d].pack EXCEPT !.repairs = a]
               c == [stage |-> "send", pack |-> pack, turn |-> 0]
  <2>2. call[d].pack \in Packs
    BY DEF CallsTyped
  <2>3. pack \in Packs /\ pack.repairs = a
    BY <2>2 DEF Packs
  <2>4. call' = [call EXCEPT ![d] = c] /\ results' = results
    BY <1>2 DEF Judge
  <2> HIDE DEF pack
  <2>5. c.stage = "send" /\ c.pack = pack
    OBVIOUS
  <2> HIDE DEF c
  <2>6. QED
    BY <1>2, <2>3, <2>4, <2>5 DEF CallsTyped
<1>3. QED
  BY <1>1, <1>2

\* A driver that has its mission to itself is the only one that draws its turns.
LEMMA OthersMission ==
  ASSUME CallsTyped, NEW d \in Drivers, NEW o \in Drivers, o # d, Alone(d)
  PROVE  MissionOf[o] # MissionOf[d]
BY DEF Alone

LEMMA RepeatInitHolds == CallsInit => RepeatInv
<1>1. SUFFICES ASSUME CallsInit PROVE RepeatInv
  OBVIOUS
<1>2. CallsInv
  BY <1>1, CallsInitHolds
<1>3. LoadedIsRecord
  <2>1. loaded = <<>> /\ DOMAIN <<>> = {}
    BY <1>1 DEF CallsInit
  <2>2. QED
    BY <2>1 DEF LoadedIsRecord
<1>4. ASSUME NEW d \in Drivers PROVE Repeats(d)
  <2>1. results["live"][d] = <<>> /\ phase = "live" /\ call[d].stage = "idle"
        /\ turnCounter[MissionOf[d]] = 0 /\ Len(<<>>) = 0
    BY <1>1, CallAssumption DEF CallsInit, Idle
  <2>2. DEFINE begin == [k \in 0 .. 0 |-> 0]
  <2>3. begin \in [0 .. 0 -> Nat] /\ begin[0] = 0
    OBVIOUS
  <2> HIDE DEF begin
  <2>4. UnderWay(d, 0)
    BY <2>1 DEF UnderWay
  <2>5. Follows(d, begin)
    BY <2>1, <2>3, <2>4 DEF Follows
  <2>6. QED
    BY <2>1, <2>3, <2>5 DEF Repeats
<1>5. QED
  BY <1>2, <1>3, <1>4 DEF RepeatInv

LEMMA ReplayBegins ==
  ASSUME RepeatInv, StartReplay
  PROVE  RepeatInv'
<1>1. CallsInv /\ CallsTyped /\ NoReplayYet /\ phase = "live" /\ CallsInv' /\ Busy = {}
  BY StartReplayStep DEF RepeatInv, CallsInv, StartReplay
<1>2. /\ phase' = "replay" /\ loaded' \in {Saved, entries}
      /\ turnCounter' = [m \in Missions |-> 0] /\ UNCHANGED <<entries, call, results, said>>
  BY DEF StartReplay
<1>3. \A i \in DOMAIN loaded' : i \in DOMAIN entries /\ loaded'[i] = entries[i]
  BY <1>1, <1>2, SavedType
<1>4. LoadedIsRecord'
  BY <1>2, <1>3 DEF LoadedIsRecord
<1>5. ASSUME NEW d \in Drivers PROVE Repeats(d)'
  <2>1. SUFFICES ASSUME Alone(d), "error" \notin ToSet(results["live"][d])
                 PROVE  \E begin \in [0 .. Len(results["live"][d]) -> Nat] : Follows(d, begin)'
    BY <1>2 DEF Repeats, Alone
  <2>2. PICK live \in Seq(Outcomes) : live = results["live"][d]
    BY <1>1 DEF CallsTyped
  <2>3. PICK begin \in [0 .. Len(live) -> Nat] : Follows(d, begin)
    BY <2>1, <2>2 DEF RepeatInv, Repeats
  <2>4. begin[0] = 0
        /\ \A k \in 1 .. Len(live) : Took(MissionOf[d], begin[k - 1], live[k], begin[k])'
    <3>1. RecordKept
      BY <1>2 DEF RecordKept, Recorded
    <3>2. QED
      BY <2>2, <2>3, <3>1, TookKept DEF Follows
  <2>5. UnderWay(d, 0)'
    <3>1. call[d].stage = "idle" /\ MissionOf[d] \in Missions
      BY <1>1, CallAssumption DEF Busy
    <3>2. QED
      BY <1>2, <3>1 DEF UnderWay
  <2>6. results'["live"][d] = live /\ results'["replay"][d] = <<>> /\ Len(<<>>) = 0 /\ phase' = "replay"
    BY <1>1, <1>2, <2>2 DEF NoReplayYet
  <2>7. Follows(d, begin)'
    BY <2>4, <2>5, <2>6 DEF Follows
  <2>8. QED
    BY <1>2, <2>2, <2>7
<1>6. QED
  BY <1>1, <1>4, <1>5 DEF RepeatInv

LEMMA ExecuteRepeats ==
  ASSUME RepeatInv, NEW d \in Drivers, Execute(d)
  PROVE  RepeatInv'
<1>1. CallsInv /\ CallsTyped /\ LoadedIsRecord /\ CallsInv' /\ CallsTyped'
  BY ExecuteStep DEF RepeatInv, CallsInv
<1>2. /\ call' = [call EXCEPT ![d] = [stage |-> "send", pack |-> Plain(MissionOf[d]), turn |-> 0]]
      /\ UNCHANGED <<phase, turnCounter, entries, loaded, results, said>> /\ d \notin Busy
  BY DEF Execute
<1>3. /\ call[d].stage = "idle" /\ call'[d].stage = "send" /\ call'[d].pack.repairs = None
      /\ \A o \in Drivers \ {d} : call'[o] = call[o]
  BY <1>1, <1>2 DEF CallsTyped, Busy, Plain
<1>4. RecordKept /\ LoadedIsRecord'
  BY <1>1, <1>2 DEF RecordKept, Recorded, LoadedIsRecord
<1>5. ASSUME NEW o \in Drivers PROVE Repeats(o)'
  <2>1. Repeats(o) /\ (phase = "replay" /\ Complete(o)' => Complete(o))
    BY <1>2 DEF RepeatInv, Complete
  <2>2. \A turn : UnderWay(o, turn) => UnderWay(o, turn)'
    <3>1. CASE o = d
      BY <1>2, <1>3, <3>1 DEF UnderWay, FirstAttempt
    <3>2. CASE o # d
      BY <1>2, <1>3, <1>4, <3>2 DEF UnderWay, FirstAttempt, RecordKept
    <3>3. QED
      BY <3>1, <3>2
  <2>3. QED
    BY <1>1, <1>2, <1>4, <2>1, <2>2, MoveStep
<1>6. QED
  BY <1>1, <1>4, <1>5 DEF RepeatInv

LEMMA DrawTurnRepeats ==
  ASSUME RepeatInv, NEW d \in Drivers, DrawTurn(d)
  PROVE  RepeatInv'
<1>1. CallsInv /\ CallsTyped /\ LoadedIsRecord /\ CallsInv' /\ CallsTyped' /\ call[d].stage = "send"
  BY DrawTurnStep DEF RepeatInv, CallsInv, DrawTurn
<1>2. PICK m \in Missions : m = MissionOf[d] /\ m = call[d].pack.mission
  BY <1>1, CallAssumption DEF CallsTyped
<1>3. PICK n \in Nat : n = turnCounter[m]
  BY <1>1 DEF CallsTyped
<1>4. /\ call' = [call EXCEPT ![d].stage = "sent", ![d].turn = n]
      /\ turnCounter' = [turnCounter EXCEPT ![m] = n + 1]
      /\ UNCHANGED <<phase, entries, loaded, results, said>>
  BY <1>2, <1>3 DEF DrawTurn, NextTurn
<1>5. /\ call'[d].stage = "sent" /\ call'[d].turn = n /\ call'[d].pack = call[d].pack
      /\ \A o \in Drivers \ {d} : call'[o] = call[o]
  <2>1. DEFINE c == [call[d] EXCEPT !.stage = "sent", !.turn = n]
  <2>2. c.stage = "sent" /\ c.turn = n /\ c.pack = call[d].pack
    BY <1>1, CallFacts DEF CallStates
  <2>3. call' = [call EXCEPT ![d] = c]
    BY <1>4
  <2> HIDE DEF c
  <2>4. QED
    BY <1>1, <2>2, <2>3 DEF CallsTyped
<1>6. turnCounter'[m] = n + 1 /\ \A other \in Missions \ {m} : turnCounter'[other] = turnCounter[other]
  BY <1>1, <1>4 DEF CallsTyped
<1>7. RecordKept /\ LoadedIsRecord'
  BY <1>1, <1>4 DEF RecordKept, Recorded, LoadedIsRecord
<1>8. ASSUME NEW o \in Drivers PROVE Repeats(o)'
  <2>1. Repeats(o) /\ (phase = "replay" /\ Complete(o)' => Complete(o))
    BY <1>4 DEF RepeatInv, Complete
  <2>2. CASE o = d
    <3>1. \A turn \in Nat : UnderWay(d, turn) => UnderWay(d, turn)'
      BY <1>1, <1>2, <1>3, <1>5, <1>6, <1>7 DEF UnderWay, FirstAttempt, RecordKept
    <3>2. QED
      BY <1>1, <1>4, <1>7, <2>1, <2>2, <3>1, MoveStep
  <2>3. CASE o # d /\ Alone(o)
    <3>1. MissionOf[o] \in Missions \ {m}
      BY <1>1, <1>2, <2>3, CallAssumption DEF Alone
    <3>2. call'[o] = call[o] /\ turnCounter'[MissionOf[o]] = turnCounter[MissionOf[o]]
      BY <1>5, <1>6, <2>3, <3>1
    <3>3. QED
      BY <1>1, <1>4, <1>7, <2>1, <3>2, OthersStep
  <2>4. CASE ~Alone(o)
    BY <2>4 DEF Repeats, Alone
  <2>5. QED
    BY <2>2, <2>3, <2>4
<1>9. QED
  BY <1>1, <1>7, <1>8 DEF RepeatInv

LEMMA SendFailsRepeats ==
  ASSUME RepeatInv, NEW d \in Drivers, SendFails(d)
  PROVE  RepeatInv'
<1>1. CallsInv /\ CallsTyped /\ LoadedIsRecord /\ CallsInv' /\ CallsTyped'
  BY SendFailsStep DEF RepeatInv, CallsInv
<1>2. /\ phase = "live" /\ Return(d, "error") /\ UNCHANGED <<phase, turnCounter, entries, loaded, said>>
      /\ "error" \in Outcomes
  BY DEF SendFails, Outcomes
<1>3. /\ \A o \in Drivers \ {d} : call'[o] = call[o]
      /\ results'["live"][d] = Append(results["live"][d], "error")
      /\ \A p \in {"live", "replay"}, o \in Drivers \ {d} : results'[p][o] = results[p][o]
  BY <1>1, <1>2, Returned
<1>4. RecordKept /\ LoadedIsRecord'
  BY <1>1, <1>2 DEF RecordKept, Recorded, LoadedIsRecord
<1>5. Repeats(d)'
  <2>1. PICK q \in Seq(Outcomes) : q = results["live"][d]
    BY <1>1 DEF CallsTyped
  <2>2. PICK r \in Seq(Outcomes) : r = Append(q, "error")
    <3>1. Append(q, "error") \in Seq(Outcomes)
      BY <1>2
    <3>2. QED
      BY <3>1
  <2>3. Len(q) + 1 \in DOMAIN r /\ r[Len(q) + 1] = "error"
    BY <1>2, <2>2
  <2>4. "error" \in ToSet(r) /\ results'["live"][d] = r
    BY <1>3, <2>1, <2>2, <2>3 DEF ToSet
  <2>5. QED
    BY <2>4 DEF Repeats
<1>6. ASSUME NEW o \in Drivers, o # d PROVE Repeats(o)'
  <2>1. Repeats(o) /\ call'[o] = call[o] /\ turnCounter'[MissionOf[o]] = turnCounter[MissionOf[o]]
        /\ results'["live"][o] = results["live"][o] /\ results'["replay"][o] = results["replay"][o]
    BY <1>2, <1>3, <1>6 DEF RepeatInv
  <2>2. QED
    BY <1>1, <1>2, <1>4, <2>1, OthersStep
<1>7. QED
  BY <1>1, <1>4, <1>5, <1>6 DEF RepeatInv

LEMMA AnsweredRepeats ==
  ASSUME RepeatInv, NEW d \in Drivers, NEW a \in Answers, Answered(d, a)
  PROVE  RepeatInv'
<1>1. CallsInv /\ CallsTyped /\ LoadedIsRecord /\ CallsInv' /\ CallsTyped'
  BY AnsweredStep DEF RepeatInv, CallsInv
<1>2. a \in Kinds /\ None \notin Kinds /\ phase = "live" /\ call[d].stage = "sent" /\ Judge(d, a)
      /\ phase' = phase /\ turnCounter' = turnCounter /\ loaded' = loaded
  BY CallAssumption DEF Answered
<1>3. PICK m \in Missions : m = MissionOf[d] /\ m = call[d].pack.mission
  BY <1>1, <1>2, CallFacts DEF CallsTyped
<1>4. PICK turn \in Nat : turn = call[d].turn
  BY <1>1, CallFacts DEF CallStates
<1>5. PICK r \in Kinds : r = Left(d, a) /\ (r \in Good <=> a \in Good) /\ (a \in Good \/ ~FirstAttempt(d) => r = a)
  BY <1>2 DEF Left, Kinds, Good
<1>6. /\ \A i \in DOMAIN entries : i \in DOMAIN entries' /\ entries'[i] = entries[i]
      /\ Recorded(m, turn, r)'
  <2>1. DEFINE e == [mission |-> m, turn |-> turn, pack |-> call[d].pack, response |-> r]
  <2>2. entries' = Append(entries, e)
    BY <1>3, <1>4, <1>5 DEF Answered
  <2>3. e.mission = m /\ e.turn = turn /\ e.response = r
    OBVIOUS
  <2> HIDE DEF e
  <2>4. PICK q \in Seq(Entries) : q = entries
    BY <1>1 DEF CallsTyped
  <2>5. PICK p \in Seq(Entries) : p = entries'
    BY <1>1 DEF CallsTyped
  <2>6. /\ DOMAIN p = 1 .. Len(q) + 1 /\ p[Len(q) + 1] = e /\ DOMAIN q = 1 .. Len(q)
        /\ \A i \in 1 .. Len(q) : p[i] = q[i]
    BY <2>2, <2>4, <2>5
  <2>7. Len(q) + 1 \in DOMAIN p /\ DOMAIN q \subseteq DOMAIN p
    BY <2>6
  <2>8. QED
    BY <2>3, <2>4, <2>5, <2>6, <2>7 DEF Recorded
<1>7. RecordKept
  BY <1>6, EntriesKept
<1>8. LoadedIsRecord'
  BY <1>1, <1>2, <1>6 DEF LoadedIsRecord
<1>9. /\ \A o \in Drivers \ {d} : call'[o] = call[o]
      /\ \A p \in {"live", "replay"}, o \in Drivers : p # phase \/ o # d => results'[p][o] = results[p][o]
  BY <1>1, <1>2, Judged
<1>10. ASSUME NEW o \in Drivers, o # d PROVE Repeats(o)'
  <2>1. Repeats(o) /\ call'[o] = call[o] /\ turnCounter'[MissionOf[o]] = turnCounter[MissionOf[o]]
        /\ results'["live"][o] = results["live"][o] /\ results'["replay"][o] = results["replay"][o]
    BY <1>2, <1>9, <1>10 DEF RepeatInv
  <2>2. QED
    BY <1>1, <1>2, <1>7, <2>1, OthersStep
<1>11. CASE /\ a \notin Good /\ FirstAttempt(d)
            /\ call'[d].stage = "send" /\ call'[d].pack.repairs = a /\ results' = results
  <2>1. \A t : UnderWay(d, t) => UnderWay(d, t)'
    BY <1>2, <1>3, <1>4, <1>5, <1>6, <1>11 DEF UnderWay, FirstAttempt
  <2>2. Repeats(d)'
    BY <1>1, <1>2, <1>7, <1>11, <2>1, MoveStep DEF RepeatInv
  <2>3. QED
    BY <1>1, <1>8, <1>10, <2>2 DEF RepeatInv
<1>12. CASE /\ a \in Good \/ ~FirstAttempt(d)
            /\ call'[d].stage = "idle" /\ Told(a) \in Outcomes \ {"error"}
            /\ results'[phase][d] = Append(results[phase][d], Told(a))
  <2>1. ASSUME Alone(d), "error" \notin ToSet(results'["live"][d])
        PROVE  \E begin \in [0 .. Len(results'["live"][d]) -> Nat] : Follows(d, begin)'
    <3>1. PICK live \in Seq(Outcomes), more \in Seq(Outcomes) :
            live = results["live"][d] /\ more = results'["live"][d]
      BY <1>1 DEF CallsTyped
    <3>2. PICK x \in Outcomes : x = Told(a)
      BY <1>12
    <3>3. more = Append(live, x)
      BY <1>2, <1>12, <3>1, <3>2
    <3>4. Len(more) = Len(live) + 1 /\ more[Len(live) + 1] = x /\ \A k \in 1 .. Len(live) : more[k] = live[k]
      BY <3>3
    <3>5. "error" \notin ToSet(live)
      <4>1. SUFFICES ASSUME "error" \in ToSet(live) PROVE FALSE
        OBVIOUS
      <4>2. PICK k \in DOMAIN live : live[k] = "error"
        BY <4>1 DEF ToSet
      <4>3. k \in DOMAIN more /\ more[k] = "error"
        BY <3>4, <4>2
      <4>4. "error" \in ToSet(more)
        BY <4>3 DEF ToSet
      <4>5. QED
        BY <2>1, <3>1, <4>4
    <3>6. PICK begin \in [0 .. Len(live) -> Nat] : Follows(d, begin)
      BY <2>1, <3>1, <3>5 DEF RepeatInv, Repeats
    <3>7. PICK n \in Nat : n = Len(live)
      OBVIOUS
    <3>8. PICK next \in Nat : next = turnCounter[m]
      BY <1>1 DEF CallsTyped
    <3>9. begin[0] = 0 /\ UnderWay(d, begin[n])
          /\ \A k \in 1 .. n : Took(m, begin[k - 1], live[k], begin[k])'
      BY <1>2, <1>3, <1>7, <3>1, <3>6, <3>7, TookKept DEF Follows
    <3>10. Took(m, begin[n], x, next)'
      <4>1. PICK t : t = begin[n]
        OBVIOUS
      <4>2. CASE FirstAttempt(d)
        <5>1. turn = t /\ next = t + 1 /\ a \in Good /\ r = a
          BY <1>2, <1>3, <1>4, <1>5, <1>12, <3>8, <3>9, <4>1, <4>2 DEF UnderWay
        <5>2. QED
          BY <1>6, <3>2, <4>1, <5>1 DEF Took
      <4>3. CASE ~FirstAttempt(d)
        <5>1. turn = t + 1 /\ next = t + 2 /\ r = a /\ \E b \in Kinds \ Good : Recorded(m, t, b)
          BY <1>2, <1>3, <1>4, <1>5, <3>8, <3>9, <4>1, <4>3 DEF UnderWay
        <5>2. \E b \in Kinds \ Good : Recorded(m, t, b)'
          BY <1>7, <5>1 DEF RecordKept
        <5>3. QED
          BY <1>6, <3>2, <4>1, <5>1, <5>2 DEF Took
      <4>4. QED
        BY <4>2, <4>3
    <3>11. DEFINE longer == [k \in 0 .. n + 1 |-> IF k <= n THEN begin[k] ELSE next]
    <3>12. /\ longer \in [0 .. Len(more) -> Nat] /\ longer[0] = begin[0] /\ longer[n + 1] = next
           /\ \A k \in 0 .. n : longer[k] = begin[k]
      <4>1. \A k \in 0 .. n : begin[k] \in Nat
        BY <3>7
      <4>2. 0 \in 0 .. n + 1 /\ 0 <= n /\ n + 1 \in 0 .. n + 1 /\ ~(n + 1 <= n) /\ Len(more) = n + 1
        BY <3>4, <3>7
      <4>3. QED
        BY <4>1, <4>2
    <3> HIDE DEF longer
    <3>13. ASSUME NEW k \in 1 .. Len(more) PROVE Took(m, longer[k - 1], more[k], longer[k])'
      <4>1. CASE k = n + 1
        <5>1. k - 1 = n /\ n \in 0 .. n
          BY <4>1
        <5>2. QED
          BY <3>4, <3>7, <3>10, <3>12, <4>1, <5>1
      <4>2. CASE k # n + 1
        <5>1. k \in 1 .. n /\ k - 1 \in 0 .. n /\ k \in 0 .. n
          BY <3>4, <3>7, <4>2
        <5>2. QED
          BY <3>4, <3>7, <3>9, <3>12, <5>1
      <4>3. QED
        BY <4>1, <4>2
    <3>14. UnderWay(d, longer[Len(more)])'
      BY <1>2, <1>3, <1>12, <3>4, <3>7, <3>8, <3>12 DEF UnderWay
    <3>15. Follows(d, longer)'
      BY <1>2, <1>3, <3>1, <3>9, <3>12, <3>13, <3>14 DEF Follows
    <3>16. QED
      BY <3>1, <3>12, <3>15
  <2>2. Repeats(d)'
    BY <2>1 DEF Repeats, Alone
  <2>3. QED
    BY <1>1, <1>8, <1>10, <2>2 DEF RepeatInv
<1>13. QED
  BY <1>1, <1>2, <1>11, <1>12, JudgedAs

\* The entry for a turn, when the file has all of the mission.
LEMMA ReplayFinds ==
  ASSUME CallsTyped, RecordTellsTruth, LoadedIsRecord, phase = "replay", NEW d \in Drivers, Complete(d),
         NEW pack \in Packs, pack.mission = MissionOf[d], NEW turn \in Nat,
         NEW a, Recorded(MissionOf[d], turn, a)
  PROVE  /\ Found(pack, turn) # {}
         /\ \A i \in Found(pack, turn) :
              loaded[i].response = a \/ {loaded[i].response, a} \cap Good = {}
<1>1. PICK j \in DOMAIN entries :
        entries[j].mission = MissionOf[d] /\ entries[j].turn = turn /\ entries[j].response = a
  BY DEF Recorded
<1>2. j \in DOMAIN loaded
  BY <1>1 DEF Complete
<1>3. loaded[j].mission = pack.mission /\ loaded[j].turn = turn
  BY <1>1, <1>2 DEF LoadedIsRecord
<1>4. Found(pack, turn) # {}
  BY <1>2, <1>3, FoundThere
<1>5. ASSUME NEW i \in Found(pack, turn)
      PROVE  loaded[i].response = a \/ {loaded[i].response, a} \cap Good = {}
  <2>1. DEFINE byTurn == {k \in DOMAIN loaded : loaded[k].mission = pack.mission /\ loaded[k].turn = turn}
  <2>2. byTurn # {}
    BY <1>2, <1>3
  <2>3. i \in byTurn
    BY <1>5, <2>2 DEF Found, LastOf
  <2>4. i \in DOMAIN loaded /\ loaded[i].mission = pack.mission /\ loaded[i].turn = turn
    BY <2>3
  <2>5. i \in DOMAIN entries /\ entries[i].mission = MissionOf[d] /\ entries[i].turn = turn
    BY <2>4 DEF LoadedIsRecord
  <2>6. i = j
    BY <1>1, <2>5 DEF RecordTellsTruth
  <2>7. QED
    BY <1>1, <2>4, <2>6 DEF LoadedIsRecord
<1>6. QED
  BY <1>4, <1>5

\* What the record has for the call of an Execute that began with this turn.
LEMMA Expected ==
  ASSUME RecordTellsTruth, NEW d \in Drivers, call[d].stage = "sent", NEW turn, UnderWay(d, turn),
         NEW x, NEW next, Took(MissionOf[d], turn, x, next)
  PROVE  \E a \in Kinds :
           /\ Recorded(MissionOf[d], call[d].turn, a)
           /\ IF FirstAttempt(d) /\ a \notin Good THEN call[d].turn = turn
              ELSE x = Told(a) /\ turnCounter[MissionOf[d]] = next
<1>1. PICK a \in Kinds :
        /\ Recorded(MissionOf[d], turn, a)
        /\ IF a \in Good THEN x = Told(a) /\ next = turn + 1
           ELSE /\ next = turn + 2
                /\ \E b \in Kinds : Recorded(MissionOf[d], turn + 1, b) /\ x = Told(b)
  BY DEF Took
<1>2. CASE FirstAttempt(d)
  BY <1>1, <1>2 DEF UnderWay
<1>3. CASE ~FirstAttempt(d)
  <2>1. PICK c \in Kinds \ Good : Recorded(MissionOf[d], turn, c)
    BY <1>3 DEF UnderWay
  <2>2. a \notin Good
    BY <1>1, <2>1, OneAnswer
  <2>3. call[d].turn = turn + 1 /\ turnCounter[MissionOf[d]] = turn + 2
    BY <1>3 DEF UnderWay
  <2>4. QED
    BY <1>1, <1>3, <2>2, <2>3
<1>4. QED
  BY <1>2, <1>3

\* A result that is the live one, unless there are more of them, goes on where the live
\* Executes did.
LEMMA ResultRepeats ==
  ASSUME CallsTyped, CallsTyped', phase = "replay", phase' = phase, NEW d \in Drivers, Repeats(d), NEW y \in Outcomes,
         UNCHANGED <<entries, turnCounter>>, DOMAIN loaded' = DOMAIN loaded, call'[d].stage = "idle",
         results'["live"][d] = results["live"][d],
         results'["replay"][d] = Append(results["replay"][d], y),
         \A turn, x, next :
           Complete(d) /\ UnderWay(d, turn) /\ Took(MissionOf[d], turn, x, next) =>
             y = x /\ turnCounter[MissionOf[d]] = next
  PROVE  Repeats(d)'
<1>1. SUFFICES ASSUME Alone(d), "error" \notin ToSet(results["live"][d])
               PROVE  \E begin \in [0 .. Len(results["live"][d]) -> Nat] : Follows(d, begin)'
  BY DEF Repeats, Alone
<1>2. PICK live \in Seq(Outcomes), replay \in Seq(Outcomes), more \in Seq(Outcomes) :
        live = results["live"][d] /\ replay = results["replay"][d] /\ more = results'["replay"][d]
  BY DEF CallsTyped
<1>3. PICK begin \in [0 .. Len(live) -> Nat] : Follows(d, begin)
  BY <1>1, <1>2 DEF Repeats
<1>4. PICK n \in Nat : n = Len(replay)
  OBVIOUS
<1>5. more = Append(replay, y)
  BY <1>2
<1>6. Len(more) = n + 1 /\ more[n + 1] = y /\ \A k \in 1 .. n : more[k] = replay[k]
  BY <1>4, <1>5
<1>7. RecordKept
  BY DEF RecordKept, Recorded
<1>8. /\ begin[0] = 0
      /\ \A k \in 1 .. Len(live) : Took(MissionOf[d], begin[k - 1], live[k], begin[k])
      /\ \A k \in 1 .. Len(live) : Took(MissionOf[d], begin[k - 1], live[k], begin[k])'
  BY <1>2, <1>3, <1>7, TookKept DEF Follows
<1>9. ASSUME Complete(d)', Len(more) <= Len(live)
      PROVE  /\ \A k \in 1 .. Len(more) : more[k] = live[k]
             /\ Len(more) < Len(live) => UnderWay(d, begin[Len(more)])'
  <2>1. Complete(d)
    BY <1>9 DEF Complete
  <2>2. n <= Len(live) /\ n < Len(live) /\ n + 1 \in 1 .. Len(live) /\ n + 1 - 1 = n
    BY <1>6, <1>9
  <2>3. (\A k \in 1 .. n : replay[k] = live[k]) /\ UnderWay(d, begin[n])
    BY <1>2, <1>3, <1>4, <2>1, <2>2 DEF Follows
  <2>4. Took(MissionOf[d], begin[n], live[n + 1], begin[n + 1])
    BY <1>8, <2>2
  <2>5. y = live[n + 1] /\ turnCounter[MissionOf[d]] = begin[n + 1]
    BY <2>1, <2>3, <2>4
  <2>6. \A k \in 1 .. Len(more) : more[k] = live[k]
    <3>1. SUFFICES ASSUME NEW k \in 1 .. Len(more) PROVE more[k] = live[k]
      OBVIOUS
    <3>2. k = n + 1 \/ k \in 1 .. n
      BY <1>6, <3>1
    <3>3. QED
      BY <1>6, <2>3, <2>5, <3>2
  <2>7. UnderWay(d, begin[Len(more)])'
    BY <1>6, <2>5 DEF UnderWay
  <2>8. QED
    BY <2>6, <2>7
<1>10. results'["live"][d] = live /\ results'["replay"][d] = more /\ phase' = "replay"
  BY <1>2
<1>11. Follows(d, begin)'
  BY <1>8, <1>9, <1>10 DEF Follows
<1>12. QED
  BY <1>2, <1>11

LEMMA ReplayedRepeats ==
  ASSUME RepeatInv, NEW d \in Drivers, Replayed(d)
  PROVE  RepeatInv'
<1>1. CallsInv /\ CallsTyped /\ RecordTellsTruth /\ LoadedIsRecord /\ CallsInv' /\ CallsTyped'
  BY ReplayedStep DEF RepeatInv, CallsInv
<1>2. /\ phase = "replay" /\ call[d].stage = "sent" /\ phase' = phase
      /\ UNCHANGED <<entries, turnCounter>> /\ RecordKept
  BY DEF Replayed, RecordKept, Recorded
<1>3. call[d].pack \in Packs /\ call[d].pack.mission = MissionOf[d] /\ call[d].turn \in Nat
  BY <1>1, <1>2, CallFacts DEF CallsTyped, CallStates
<1>4. PICK found : found = Found(call[d].pack, call[d].turn)
  OBVIOUS
<1>5. ASSUME NEW a, Complete(d), Recorded(MissionOf[d], call[d].turn, a)
      PROVE  found # {} /\ \A i \in found : loaded[i].response = a \/ {loaded[i].response, a} \cap Good = {}
  BY <1>1, <1>2, <1>3, <1>4, <1>5, ReplayFinds, ZenonT(60)
<1>6. ASSUME DOMAIN loaded' = DOMAIN loaded, \A o \in Drivers \ {d} : call'[o] = call[o],
             \A p \in {"live", "replay"}, o \in Drivers : p # phase \/ o # d => results'[p][o] = results[p][o],
             NEW o \in Drivers, o # d
      PROVE  Repeats(o)'
  <2>1. Repeats(o) /\ call'[o] = call[o] /\ turnCounter'[MissionOf[o]] = turnCounter[MissionOf[o]]
        /\ results'["live"][o] = results["live"][o] /\ results'["replay"][o] = results["replay"][o]
    BY <1>2, <1>6 DEF RepeatInv
  <2>2. QED
    BY <1>1, <1>2, <1>6, <2>1, OthersStep
<1>7. CASE found = {}
  <2>1. Return(d, "error") /\ loaded' = loaded /\ "error" \in Outcomes
    BY <1>4, <1>7 DEF Replayed, Outcomes
  <2>2. /\ call'[d].stage = "idle" /\ \A o \in Drivers \ {d} : call'[o] = call[o]
        /\ results'["replay"][d] = Append(results["replay"][d], "error")
        /\ \A p \in {"live", "replay"}, o \in Drivers : p # phase \/ o # d => results'[p][o] = results[p][o]
    BY <1>1, <1>2, <2>1, Returned
  <2>3. LoadedIsRecord'
    BY <1>1, <1>2, <2>1 DEF LoadedIsRecord
  <2>4. \A turn, x, next :
          Complete(d) /\ UnderWay(d, turn) /\ Took(MissionOf[d], turn, x, next) =>
            "error" = x /\ turnCounter[MissionOf[d]] = next
    BY <1>1, <1>2, <1>5, <1>7, Expected, ZenonT(60)
  <2>5. results'["live"][d] = results["live"][d] /\ Repeats(d)
    BY <1>2, <2>2 DEF RepeatInv
  <2>6. Repeats(d)'
    BY <1>1, <1>2, <2>1, <2>2, <2>4, <2>5, ResultRepeats
  <2>7. \A o \in Drivers : o # d => Repeats(o)'
    BY <1>6, <2>1, <2>2
  <2>8. QED
    BY <1>1, <2>3, <2>6, <2>7 DEF RepeatInv
<1>8. ASSUME NEW i \in found, Judge(d, loaded[i].response),
             loaded' = [loaded EXCEPT ![i].response = Left(d, @)]
      PROVE  RepeatInv'
  <2>1. i \in DOMAIN loaded /\ loaded[i] \in Entries
    BY <1>1, <1>3, <1>4, <1>8, FoundThere, CallFacts
  <2>2. PICK b \in Kinds : b = loaded[i].response
    BY <2>1 DEF Entries
  <2>3. PICK r \in Kinds : r = Left(d, b) /\ (r = b \/ {r, b} \cap Good = {})
    BY DEF Left, Kinds, Good
  <2>4. DEFINE e == [loaded[i] EXCEPT !.response = r]
  <2>5. loaded' = [loaded EXCEPT ![i] = e]
    BY <1>8, <2>2, <2>3
  <2>6. e.mission = loaded[i].mission /\ e.turn = loaded[i].turn /\ e.response = r
    BY <2>1 DEF Entries
  <2> HIDE DEF e
  <2>7. /\ DOMAIN loaded' = DOMAIN loaded
        /\ loaded'[i] = e /\ \A j \in DOMAIN loaded : j # i => loaded'[j] = loaded[j]
    BY <1>1, <2>1, <2>5 DEF CallsTyped
  <2>8. LoadedIsRecord'
    <3>1. ASSUME NEW j \in DOMAIN loaded
          PROVE  /\ j \in DOMAIN entries
                 /\ loaded'[j].mission = entries[j].mission /\ loaded'[j].turn = entries[j].turn
                 /\ \/ loaded'[j].response = entries[j].response
                    \/ {loaded'[j].response, entries[j].response} \cap Good = {}
      <4>1. /\ j \in DOMAIN entries
            /\ loaded[j].mission = entries[j].mission /\ loaded[j].turn = entries[j].turn
            /\ \/ loaded[j].response = entries[j].response
               \/ {loaded[j].response, entries[j].response} \cap Good = {}
        BY <1>1, <3>1 DEF LoadedIsRecord
      <4>2. CASE j # i
        BY <2>7, <4>1, <4>2
      <4>3. CASE j = i
        <5>1. loaded'[j].mission = entries[j].mission /\ loaded'[j].turn = entries[j].turn /\ loaded'[j].response = r
          BY <2>6, <2>7, <4>1, <4>3
        <5>2. r = entries[j].response \/ {r, entries[j].response} \cap Good = {}
          BY <2>2, <2>3, <4>1, <4>3
        <5>3. QED
          BY <4>1, <5>1, <5>2
      <4>4. QED
        BY <4>2, <4>3
    <3>2. QED
      BY <1>2, <2>7, <3>1 DEF LoadedIsRecord
  <2>9. Judge(d, b)
    BY <1>8, <2>2
  <2>10. /\ \A o \in Drivers \ {d} : call'[o] = call[o]
         /\ \A p \in {"live", "replay"}, o \in Drivers : p # phase \/ o # d => results'[p][o] = results[p][o]
    BY <1>1, <1>2, <2>9, Judged
  <2>11. results'["live"][d] = results["live"][d] /\ Repeats(d)
    BY <1>2, <2>10 DEF RepeatInv
  <2>12. \A o \in Drivers : o # d => Repeats(o)'
    BY <1>6, <2>7, <2>10
  <2>13. ASSUME NEW a \in Kinds, Complete(d), Recorded(MissionOf[d], call[d].turn, a)
         PROVE  b = a \/ {b, a} \cap Good = {}
    BY <1>5, <1>8, <2>2, <2>13
  <2>14. CASE /\ b \notin Good /\ FirstAttempt(d)
              /\ call'[d].stage = "send" /\ call'[d].pack.repairs = b /\ results' = results
    <3>1. ASSUME NEW turn \in Nat, UnderWay(d, turn), Complete(d),
                 NEW x, NEW next, Took(MissionOf[d], turn, x, next)
          PROVE  UnderWay(d, turn)'
      <4>1. call[d].turn = turn /\ turnCounter[MissionOf[d]] = turn + 1
        BY <1>2, <2>14, <3>1 DEF UnderWay
      <4>2. PICK a \in Kinds : Recorded(MissionOf[d], turn, a)
        BY <3>1 DEF Took
      <4>3. b = a \/ {b, a} \cap Good = {}
        BY <2>13, <3>1, <4>1, <4>2
      <4>4. a \in Kinds \ Good /\ Recorded(MissionOf[d], turn, a)'
        BY <1>2, <2>14, <4>2, <4>3 DEF RecordKept
      <4>5. ~FirstAttempt(d)'
        BY <2>14, CallAssumption DEF FirstAttempt
      <4>6. QED
        BY <1>2, <2>14, <4>1, <4>4, <4>5 DEF UnderWay
    <3>2. phase = "replay" /\ Complete(d)' => Complete(d)
      BY <1>2, <2>7, <2>14 DEF Complete
    <3>3. Repeats(d)'
      <4>1. results'["replay"][d] = results["replay"][d]
        BY <2>14
      <4>2. QED
        BY <1>1, <1>2, <2>11, <3>1, <3>2, <4>1, MoveStep
    <3>4. QED
      BY <1>1, <2>8, <2>12, <3>3 DEF RepeatInv
  <2>15. CASE /\ b \in Good \/ ~FirstAttempt(d)
              /\ call'[d].stage = "idle" /\ Told(b) \in Outcomes \ {"error"}
              /\ results'[phase][d] = Append(results[phase][d], Told(b))
    <3>1. ASSUME NEW turn, NEW x, NEW next,
                 Complete(d), UnderWay(d, turn), Took(MissionOf[d], turn, x, next)
          PROVE  Told(b) = x /\ turnCounter[MissionOf[d]] = next
      <4>1. PICK a \in Kinds :
              /\ Recorded(MissionOf[d], call[d].turn, a)
              /\ IF FirstAttempt(d) /\ a \notin Good THEN call[d].turn = turn
                 ELSE x = Told(a) /\ turnCounter[MissionOf[d]] = next
        BY <1>1, <1>2, <3>1, Expected
      <4>2. b = a \/ {b, a} \cap Good = {}
        BY <2>13, <3>1, <4>1
      <4>3. ~(FirstAttempt(d) /\ a \notin Good)
        BY <2>15, <4>2
      <4>4. Told(a) = Told(b)
        BY <4>2 DEF Told
      <4>5. QED
        BY <4>1, <4>3, <4>4
    <3>2. PICK y \in Outcomes : y = Told(b)
      BY <2>15
    <3>3. \A turn, x, next :
            Complete(d) /\ UnderWay(d, turn) /\ Took(MissionOf[d], turn, x, next) =>
              y = x /\ turnCounter[MissionOf[d]] = next
      BY <3>1, <3>2
    <3>4. results'["replay"][d] = Append(results["replay"][d], y) /\ call'[d].stage = "idle"
      BY <1>2, <2>15, <3>2
    <3>5. Repeats(d)'
      BY <1>1, <1>2, <2>7, <2>11, <3>3, <3>4, ResultRepeats
    <3>6. QED
      BY <1>1, <2>8, <2>12, <3>5 DEF RepeatInv
  <2>16. QED
    BY <1>1, <1>2, <2>9, <2>14, <2>15, JudgedAs
<1>9. QED
  BY <1>4, <1>7, <1>8 DEF Replayed

LEMMA CallsStutter ==
  ASSUME RepeatInv, UNCHANGED callVars
  PROVE  RepeatInv'
<1>1. UNCHANGED <<phase, turnCounter, entries, loaded, call, results, said>>
  BY DEF callVars
<1>2. CallsInv /\ CallsTyped /\ LoadedIsRecord
  BY DEF RepeatInv, CallsInv
<1>3. CallsInv' /\ LoadedIsRecord' /\ RecordKept
  BY <1>1, <1>2 DEF CallsInv, CallsTyped, TurnsDrawn, RecordTellsTruth, NoReplayYet, ReplayAnswers,
                    LoadedIsRecord, RecordKept, Recorded
<1>4. ASSUME NEW d \in Drivers PROVE Repeats(d)'
  BY <1>1, <1>2, <1>3, OthersStep DEF RepeatInv
<1>5. QED
  BY <1>3, <1>4 DEF RepeatInv

\* The Executes of a replay begin with the turns that the live ones began with, for any
\* number of drivers and calls, as long as nobody else draws turns of the mission, no Send
\* failed and the file has all of the mission (recorder.go:133-219).
THEOREM RepeatInvariant == CallsSpec => []RepeatInv
<1>1. CallsInit => RepeatInv
  BY RepeatInitHolds
<1>2. RepeatInv /\ [CallsNext]_callVars => RepeatInv'
  <2>1. SUFFICES ASSUME RepeatInv, [CallsNext]_callVars PROVE RepeatInv'
    OBVIOUS
  <2>2. CASE StartReplay
    BY <2>1, <2>2, ReplayBegins
  <2>3. ASSUME NEW d \in Drivers, Execute(d) \/ DrawTurn(d) \/ SendFails(d) \/ Replayed(d)
        PROVE  RepeatInv'
    BY <2>1, <2>3, ExecuteRepeats, DrawTurnRepeats, SendFailsRepeats, ReplayedRepeats
  <2>4. ASSUME NEW d \in Drivers, NEW a \in Answers, Answered(d, a) PROVE RepeatInv'
    BY <2>1, <2>4, AnsweredRepeats
  <2>5. CASE UNCHANGED callVars
    BY <2>1, <2>5, CallsStutter
  <2>6. QED
    BY <2>1, <2>2, <2>3, <2>4, <2>5 DEF CallsNext
<1>3. QED
  BY <1>1, <1>2, PTL DEF CallsSpec

\* A replay of a mission that a driver had to itself returns what its live calls did, in
\* their order, and never runs out of answers (recorder.go:190-219).
THEOREM ReplayTellsRecord == CallsSpec => []ReplayIsTrue
<1>1. RepeatInv => ReplayIsTrue
  <2>1. SUFFICES ASSUME RepeatInv PROVE ReplayRepeats /\ ReplayAnswers
    BY DEF ReplayIsTrue
  <2>2. CallsTyped /\ NoReplayYet /\ ReplayAnswers
    BY <2>1 DEF RepeatInv, CallsInv
  <2>3. ASSUME NEW d \in Drivers, Alone(d), Complete(d),
               Len(results["replay"][d]) <= Len(results["live"][d])
        PROVE  IsPrefix(results["replay"][d], results["live"][d])
    <3>1. PICK live \in Seq(Outcomes), replay \in Seq(Outcomes) :
            live = results["live"][d] /\ replay = results["replay"][d]
      BY <2>2 DEF CallsTyped
    <3>2. \A k \in 1 .. Len(replay) : replay[k] = live[k]
      <4>1. CASE phase = "live"
        BY <2>2, <3>1, <4>1 DEF NoReplayYet
      <4>2. CASE phase = "replay"
        <5>1. PICK begin \in [0 .. Len(live) -> Nat] : Follows(d, begin)
          BY <2>1, <2>3, <3>1 DEF RepeatInv, Repeats, Complete
        <5>2. QED
          BY <2>3, <3>1, <4>2, <5>1 DEF Follows
      <4>3. QED
        BY <2>2, <4>1, <4>2 DEF CallsTyped
    <3>3. Len(replay) <= Len(live)
      BY <2>3, <3>1
    <3>4. SubSeq(replay, 1, Len(replay)) = SubSeq(live, 1, Len(replay))
      BY <3>2, <3>3
    <3>5. QED
      BY <3>1, <3>3, <3>4 DEF IsPrefix
  <2>4. QED
    BY <2>2, <2>3 DEF ReplayRepeats
<1>2. QED
  BY <1>1, RepeatInvariant, PTL

-----------------------------------------------------------------------------
(* The sum of page faults by turn. *)

\* f has the sums of the first counts.
IsSum(counts, f) == f = [n \in 0 .. Len(counts) |-> IF n = 0 THEN 0 ELSE f[n - 1] + counts[n]]

LEMMA SumExists ==
  ASSUME NEW q \in Seq(Nat)
  PROVE  \E f \in [0 .. Len(q) -> Nat] : IsSum(q, f)
<1>1. DEFINE bad == {n \in Nat : \E p \in Seq(Nat) : Len(p) = n /\ ~\E f \in [0 .. n -> Nat] : IsSum(p, f)}
<1>2. SUFFICES ASSUME bad # {} PROVE FALSE
  OBVIOUS
<1>3. PICK n \in bad : \A m \in bad : n <= m
  BY <1>2, LeastOf
<1>4. PICK p \in Seq(Nat) : Len(p) = n /\ ~\E f \in [0 .. n -> Nat] : IsSum(p, f)
  OBVIOUS
<1>5. CASE n = 0
  <2>1. DEFINE f == [k \in 0 .. n |-> 0]
  <2>2. f \in [0 .. n -> Nat] /\ IsSum(p, f)
    BY <1>4, <1>5 DEF IsSum
  <2>3. QED
    BY <1>4, <2>2
<1>6. CASE n # 0
  <2>1. n \in Nat /\ n - 1 \in Nat /\ n - 1 < n
    BY <1>6
  <2>2. PICK r \in Seq(Nat) : Len(r) = n - 1 /\ \A k \in 1 .. n - 1 : r[k] = p[k]
    <3>1. /\ SubSeq(p, 1, n - 1) \in Seq(Nat) /\ Len(SubSeq(p, 1, n - 1)) = n - 1
          /\ \A k \in 1 .. n - 1 : SubSeq(p, 1, n - 1)[k] = p[k]
      BY <1>4, <2>1
    <3>2. QED
      BY <3>1
  <2>3. n - 1 \notin bad
    <3>1. SUFFICES ASSUME n - 1 \in bad PROVE FALSE
      OBVIOUS
    <3>2. n <= n - 1
      BY <1>3, <3>1
    <3>3. QED
      BY <2>1, <3>2
  <2>4. PICK f \in [0 .. n - 1 -> Nat] : IsSum(r, f)
    BY <2>1, <2>2, <2>3
  <2>5. f[0] = 0 /\ \A k \in 1 .. n - 1 : f[k] = f[k - 1] + p[k]
    <3>1. f = [k \in 0 .. n - 1 |-> IF k = 0 THEN 0 ELSE f[k - 1] + r[k]]
      BY <2>2, <2>4 DEF IsSum
    <3>2. \A k \in 0 .. n - 1 : f[k] = IF k = 0 THEN 0 ELSE f[k - 1] + r[k]
      BY <3>1
    <3>3. 0 \in 0 .. n - 1 /\ \A k \in 1 .. n - 1 : k \in 0 .. n - 1 /\ k # 0
      BY <2>1
    <3>4. QED
      BY <2>2, <3>2, <3>3
  <2>6. p[n] \in Nat /\ f[n - 1] \in Nat
    BY <1>4, <2>1
  <2>7. DEFINE g == [k \in 0 .. n |-> IF k = n THEN f[n - 1] + p[n] ELSE f[k]]
  <2>8. g \in [0 .. n -> Nat]
    <3>1. \A k \in 0 .. n : k # n => f[k] \in Nat
      BY <2>1
    <3>2. QED
      BY <2>6, <3>1, SMTT(40)
  <2>9. \A k \in 0 .. n : g[k] = IF k = 0 THEN 0 ELSE g[k - 1] + p[k]
    <3>1. SUFFICES ASSUME NEW k \in 0 .. n PROVE g[k] = IF k = 0 THEN 0 ELSE g[k - 1] + p[k]
      OBVIOUS
    <3>2. CASE k = 0
      BY <1>6, <2>5, <3>2
    <3>3. CASE k = n
      <4>1. n - 1 \in 0 .. n /\ n - 1 # n
        BY <2>1
      <4>2. QED
        BY <1>6, <3>3, <4>1
    <3>4. CASE k \in 1 .. n - 1
      <4>1. k - 1 \in 0 .. n /\ k - 1 # n /\ k # n /\ k # 0
        BY <2>1, <3>4
      <4>2. QED
        BY <2>5, <3>4, <4>1
    <3>5. QED
      BY <2>1, <3>2, <3>3, <3>4
  <2>10. IsSum(p, g)
    <3> HIDE DEF g
    <3>1. QED
      BY <1>4, <2>8, <2>9 DEF IsSum
  <2>11. QED
    BY <1>4, <2>8, <2>10
<1>7. QED
  BY <1>5, <1>6

LEMMA SumOfAppend ==
  ASSUME NEW q \in Seq(Nat), NEW x \in Nat
  PROVE  SumOf(q) \in Nat /\ SumOf(Append(q, x)) = SumOf(q) + x
<1>1. PICK n \in Nat : n = Len(q)
  OBVIOUS
<1>2. PICK p \in Seq(Nat) : p = Append(q, x)
  <2>1. Append(q, x) \in Seq(Nat)
    OBVIOUS
  <2>2. QED
    BY <2>1
<1>3. Len(p) = n + 1 /\ p[n + 1] = x /\ \A k \in 1 .. n : p[k] = q[k]
  BY <1>1, <1>2
<1>4. PICK f : f = CHOOSE h : IsSum(q, h)
  OBVIOUS
<1>5. PICK g : g = CHOOSE h : IsSum(p, h)
  OBVIOUS
<1>6. IsSum(q, f) /\ IsSum(p, g)
  BY <1>4, <1>5, SumExists
<1>7. SumOf(q) = f[n] /\ SumOf(p) = g[n + 1]
  BY <1>1, <1>3, <1>4, <1>5 DEF SumOf, IsSum
<1>8. \A k \in 0 .. n : f[k] = IF k = 0 THEN 0 ELSE f[k - 1] + q[k]
  BY <1>1, <1>6 DEF IsSum
<1>9. \A k \in 0 .. n + 1 : g[k] = IF k = 0 THEN 0 ELSE g[k - 1] + p[k]
  BY <1>3, <1>6 DEF IsSum
<1>10. \A k \in 0 .. n : g[k] = f[k] /\ f[k] \in Nat
  <2>1. DEFINE bad == {k \in 0 .. n : ~(g[k] = f[k] /\ f[k] \in Nat)}
  <2>2. SUFFICES ASSUME bad # {} PROVE FALSE
    OBVIOUS
  <2>3. PICK k \in bad : \A j \in bad : k <= j
    <3>1. bad \subseteq Nat
      OBVIOUS
    <3>2. QED
      BY <2>2, <3>1, LeastOf
  <2>4. k \in 0 .. n /\ ~(g[k] = f[k] /\ f[k] \in Nat)
    OBVIOUS
  <2>5. CASE k = 0
    <3>1. 0 \in 0 .. n /\ 0 \in 0 .. n + 1
      OBVIOUS
    <3>2. QED
      BY <1>8, <1>9, <2>4, <2>5, <3>1
  <2>6. CASE k # 0
    <3>1. k - 1 \in 0 .. n /\ k - 1 < k /\ k \in 0 .. n + 1 /\ k \in 1 .. n
      BY <2>4, <2>6
    <3>2. k - 1 \notin bad
      BY <2>3, <3>1
    <3>3. g[k - 1] = f[k - 1] /\ f[k - 1] \in Nat
      BY <3>1, <3>2
    <3>4. g[k] = g[k - 1] + p[k] /\ f[k] = f[k - 1] + q[k] /\ p[k] = q[k] /\ q[k] \in Nat
      BY <1>1, <1>3, <1>8, <1>9, <2>4, <2>6, <3>1
    <3>5. QED
      BY <2>4, <3>3, <3>4
  <2>7. QED
    BY <2>5, <2>6
<1>11. g[n + 1] = g[n] + x
  <2>1. n + 1 \in 0 .. n + 1 /\ n + 1 # 0 /\ n + 1 - 1 = n
    OBVIOUS
  <2>2. QED
    BY <1>3, <1>9, <2>1
<1>12. n \in 0 .. n
  OBVIOUS
<1>13. QED
  BY <1>2, <1>7, <1>10, <1>11, <1>12

LEMMA SumOfEmpty == SumOf(<<>>) = 0
<1>1. <<>> \in Seq(Nat) /\ Len(<<>>) = 0
  OBVIOUS
<1>2. PICK f : f = CHOOSE h : IsSum(<<>>, h)
  OBVIOUS
<1>3. IsSum(<<>>, f)
  BY <1>1, <1>2, SumExists
<1>4. SumOf(<<>>) = f[0]
  BY <1>1, <1>2 DEF SumOf, IsSum
<1>5. 0 \in 0 .. Len(<<>>)
  BY <1>1
<1>6. QED
  BY <1>3, <1>4, <1>5 DEF IsSum
-----------------------------------------------------------------------------
(* The metrics, the detector and the oracle. *)

MetricsSpec == MeterInit /\ [][MeterNext]_meterState

Peaks == [streak : Nat, fails : Nat]

LEMMA MeterFacts ==
  ASSUME MeterTyped
  PROVE  /\ Len(heap) \in Nat /\ DOMAIN heap = 1 .. Len(heap)
         /\ DOMAIN turnPF = DOMAIN heap /\ DOMAIN peak = DOMAIN heap
         /\ \A i \in DOMAIN heap :
              /\ heap[i] \in MetricsRecords /\ turnPF[i] \in Nat /\ peak[i] \in Peaks
              /\ heap[i].rejects \in Nat /\ heap[i].conflicts \in Nat /\ heap[i].fails \in Nat
              /\ heap[i].pf \in Nat /\ heap[i].turnPFs \in Seq(Nat) /\ heap[i].mission \in Metered
              /\ peak[i].streak \in Nat /\ peak[i].fails \in Nat
         /\ \A d \in Runners : job[d] \in MeterJobs
         /\ \A m \in Metered : missions[m] # 0 => missions[m] \in DOMAIN heap
<1>1. /\ heap \in Seq(MetricsRecords) /\ missions \in [Metered -> 0 .. Len(heap)]
      /\ turnPF \in Seq(Nat) /\ peak \in Seq(Peaks)
      /\ Len(turnPF) = Len(heap) /\ Len(peak) = Len(heap)
  BY DEF MeterTyped, Peaks
<1>2. /\ Len(heap) \in Nat /\ DOMAIN heap = 1 .. Len(heap)
      /\ DOMAIN turnPF = DOMAIN heap /\ DOMAIN peak = DOMAIN heap
  BY <1>1
<1>3. \A i \in DOMAIN heap : heap[i] \in MetricsRecords /\ turnPF[i] \in Nat /\ peak[i] \in Peaks
  BY <1>1, <1>2
<1>4. \A o \in MetricsRecords :
        /\ o.rejects \in Nat /\ o.conflicts \in Nat /\ o.fails \in Nat
        /\ o.pf \in Nat /\ o.turnPFs \in Seq(Nat) /\ o.mission \in Metered
  BY DEF MetricsRecords
<1>5. \A top \in Peaks : top.streak \in Nat /\ top.fails \in Nat
  BY DEF Peaks
<1>6. \A d \in Runners : job[d] \in MeterJobs
  BY DEF MeterTyped
<1>7. \A m \in Metered : missions[m] # 0 => missions[m] \in DOMAIN heap
  BY <1>1, <1>2
<1>8. QED
  BY <1>2, <1>3, <1>4, <1>5, <1>6, <1>7

LEMMA MeterInitHolds == MeterInit => MeterInv
<1>1. SUFFICES ASSUME MeterInit PROVE MeterInv
  OBVIOUS
<1>2. <<>> \in Seq(MetricsRecords) /\ <<>> \in Seq(Nat) /\ <<>> \in Seq(Peaks)
      /\ DOMAIN <<>> = {} /\ Len(<<>>) = 0
  OBVIOUS
<1>3. Free \in MeterJobs /\ Free.call = "none" /\ Free.at = 0
  BY DEF Free, MeterJobs
<1>4. [thrashing |-> 0, plan |-> <<>>] \in [thrashing : Nat, plan : Plans \cup {<<>>}]
  OBVIOUS
<1>5. /\ heap = <<>> /\ turnPF = <<>> /\ peak = <<>> /\ latched = {} /\ checking = {} /\ missed = FALSE
      /\ missions = [m \in Metered |-> 0] /\ job = [d \in Runners |-> Free]
      /\ events = [m \in Metered |-> [thrashing |-> 0, plan |-> <<>>]]
  BY <1>1 DEF MeterInit
<1>6. MeterTyped
  BY <1>2, <1>3, <1>4, <1>5 DEF MeterTyped, Peaks
<1>7. ThrashesOnce
  BY <1>5 DEF ThrashesOnce
<1>8. MarkedIsLatched
  BY <1>2, <1>5 DEF MarkedIsLatched, ToSet
<1>9. LatchedForCause /\ NothingMissed
  BY <1>5 DEF LatchedForCause, NothingMissed
<1>10. \A d \in Runners : CheckAt(job[d], d)
  BY <1>3, <1>5 DEF CheckAt
<1>11. QED
  BY <1>2, <1>5, <1>6, <1>7, <1>8, <1>9, <1>10 DEF MeterInv

\* Metrics only grow, in what a check looks for.
Grows ==
  /\ DOMAIN heap \subseteq DOMAIN heap'
  /\ \A i \in DOMAIN heap :
       /\ heap'[i].mission = heap[i].mission
       /\ heap[i].rejects >= MaxRejects => heap'[i].rejects >= MaxRejects
       /\ heap[i].conflicts >= MaxConflicts => heap'[i].conflicts >= MaxConflicts
       /\ Reached(i) => Reached(i)'

LEMMA CausesKept ==
  ASSUME LatchedForCause, Grows, latched' = latched
  PROVE  LatchedForCause'
  BY DEF LatchedForCause, Grows

LEMMA ChecksKept ==
  ASSUME Grows, UNCHANGED <<latched, checking, events>>, NEW d \in Runners, NEW j \in MeterJobs,
         CheckAt(j, d), j.call # "none" => j.at \in DOMAIN heap
  PROVE  CheckAt(j, d)'
  BY DEF CheckAt, Grows, Due

\* One mission's metrics change.
LEMMA MetricsGrow ==
  ASSUME MeterInv, NEW i \in DOMAIN heap, NEW o \in MetricsRecords, heap' = [heap EXCEPT ![i] = o],
         turnPF' \in Seq(Nat), Len(turnPF') = Len(turnPF), peak' \in Seq(Peaks), Len(peak') = Len(peak),
         \A k \in DOMAIN heap \ {i} : turnPF'[k] = turnPF[k] /\ peak'[k] = peak[k],
         o.mission = heap[i].mission, o.rejects >= heap[i].rejects, o.conflicts >= heap[i].conflicts,
         peak[i].streak >= PFConsecutiveTurns => peak'[i].streak >= PFConsecutiveTurns,
         peak'[i].fails >= peak[i].fails, Counted(o, turnPF'[i], peak'[i])
  PROVE  /\ heap' \in Seq(MetricsRecords) /\ DOMAIN heap' = DOMAIN heap /\ Len(heap') = Len(heap)
         /\ Len(turnPF') = Len(heap') /\ Len(peak') = Len(heap')
         /\ heap'[i] = o /\ \A k \in DOMAIN heap \ {i} : heap'[k] = heap[k]
         /\ Grows
         /\ \A k \in DOMAIN heap' : Counted(heap'[k], turnPF'[k], peak'[k])
<1>1. MeterTyped /\ \A k \in DOMAIN heap : Counted(heap[k], turnPF[k], peak[k])
  BY DEF MeterInv
<1>2. heap \in Seq(MetricsRecords) /\ Len(turnPF) = Len(heap) /\ Len(peak) = Len(heap)
  BY <1>1 DEF MeterTyped
<1>3. /\ heap' \in Seq(MetricsRecords) /\ DOMAIN heap' = DOMAIN heap /\ Len(heap') = Len(heap)
      /\ heap'[i] = o /\ \A k \in DOMAIN heap \ {i} : heap'[k] = heap[k]
  BY <1>2
<1>4. \A k \in DOMAIN heap' : Counted(heap'[k], turnPF'[k], peak'[k])
  BY <1>1, <1>3
<1>5. /\ heap[i].rejects \in Nat /\ heap[i].conflicts \in Nat /\ peak[i].fails \in Nat
      /\ o.rejects \in Nat /\ o.conflicts \in Nat /\ peak'[i].fails \in Nat
  <2>1. peak'[i] \in Peaks
    BY <1>1, <1>2, MeterFacts
  <2>2. QED
    BY <1>1, <2>1, MeterFacts DEF Peaks, MetricsRecords
<1>6. /\ heap[i].rejects >= MaxRejects => o.rejects >= MaxRejects
      /\ heap[i].conflicts >= MaxConflicts => o.conflicts >= MaxConflicts
      /\ peak[i].fails >= MaxTestFailures => peak'[i].fails >= MaxTestFailures
  <2>1. \A a, b, c \in Nat : b >= a /\ a >= c => b >= c
    OBVIOUS
  <2>2. MaxRejects \in Nat /\ MaxConflicts \in Nat /\ MaxTestFailures \in Nat
    BY MeterAssumption
  <2>3. QED
    BY <1>5, <2>1, <2>2
<1>7. \A k \in DOMAIN heap : Reached(k) => Reached(k)'
  BY <1>3, <1>6 DEF Reached
<1>8. Grows
  BY <1>3, <1>6, <1>7 DEF Grows
<1>9. QED
  BY <1>2, <1>3, <1>4, <1>8

\* The same with no step of a check.
LEMMA MetricsStep ==
  ASSUME MeterInv, NEW i \in DOMAIN heap, NEW o \in MetricsRecords, heap' = [heap EXCEPT ![i] = o],
         turnPF' \in Seq(Nat), Len(turnPF') = Len(turnPF), peak' \in Seq(Peaks), Len(peak') = Len(peak),
         \A k \in DOMAIN heap \ {i} : turnPF'[k] = turnPF[k] /\ peak'[k] = peak[k],
         o.mission = heap[i].mission, o.rejects >= heap[i].rejects, o.conflicts >= heap[i].conflicts,
         peak[i].streak >= PFConsecutiveTurns => peak'[i].streak >= PFConsecutiveTurns,
         peak'[i].fails >= peak[i].fails, Counted(o, turnPF'[i], peak'[i]),
         o.status = "thrashing" => heap[i].status = "thrashing",
         UNCHANGED <<missions, latched, checking, events, missed>>,
         job' \in [Runners -> MeterJobs],
         \A d \in Runners : job'[d] = job[d] \/ job'[d] = Free
  PROVE  MeterInv'
<1>1. /\ heap' \in Seq(MetricsRecords) /\ DOMAIN heap' = DOMAIN heap /\ Len(heap') = Len(heap)
      /\ Len(turnPF') = Len(heap') /\ Len(peak') = Len(heap')
      /\ heap'[i] = o /\ \A k \in DOMAIN heap \ {i} : heap'[k] = heap[k]
      /\ Grows
      /\ \A k \in DOMAIN heap' : Counted(heap'[k], turnPF'[k], peak'[k])
  BY MetricsGrow
<1>2. MeterTyped /\ ThrashesOnce /\ MarkedIsLatched /\ LatchedForCause /\ NothingMissed
      /\ \A d \in Runners : CheckAt(job[d], d)
  BY DEF MeterInv
<1>3. Free \in MeterJobs /\ Free.call = "none" /\ Free.at = 0
  BY DEF Free, MeterJobs
<1>4. Len(heap) \in Nat /\ DOMAIN heap = 1 .. Len(heap)
      /\ \A m \in Metered : missions[m] # 0 => missions[m] \in DOMAIN heap
  BY <1>2, MeterFacts
<1>5. MeterTyped'
  <2>1. \A m \in Metered : missions'[m] # 0 => heap'[missions'[m]].mission = m
    BY <1>1, <1>2, <1>4 DEF MeterTyped, Grows
  <2>2. \A d \in Runners : /\ job'[d].at \in 0 .. Len(heap')
                           /\ job'[d].call # "none" => job'[d].at # 0
    <3>1. SUFFICES ASSUME NEW d \in Runners
                   PROVE  job'[d].at \in 0 .. Len(heap) /\ (job'[d].call # "none" => job'[d].at # 0)
      BY <1>1
    <3>2. job[d].at \in 0 .. Len(heap) /\ (job[d].call # "none" => job[d].at # 0)
      BY <1>2 DEF MeterTyped
    <3>3. 0 \in 0 .. Len(heap)
      BY <1>4
    <3>4. CASE job'[d] = job[d]
      BY <3>2, <3>4
    <3>5. CASE job'[d] = Free
      BY <1>3, <3>3, <3>5
    <3>6. QED
      BY <3>4, <3>5
  <2>3. QED
    BY <1>1, <1>2, <2>1, <2>2 DEF MeterTyped, Peaks
<1>6. LatchedForCause'
  BY <1>1, <1>2, CausesKept
<1>7. MarkedIsLatched'
  BY <1>1, <1>2 DEF MarkedIsLatched, ToSet
<1>8. ThrashesOnce' /\ NothingMissed'
  BY <1>2 DEF ThrashesOnce, NothingMissed
<1>9. ASSUME NEW d \in Runners PROVE CheckAt(job[d], d)'
  <2>1. CASE job'[d] = job[d]
    <3>1. PICK j \in MeterJobs : j = job[d]
      BY <1>2, MeterFacts
    <3>2. CheckAt(j, d) /\ (j.call # "none" => j.at \in DOMAIN heap)
      BY <1>2, <1>4, <3>1, SMTT(40) DEF MeterTyped
    <3>3. CheckAt(j, d)'
      BY <1>1, <3>2, ChecksKept
    <3>4. QED
      BY <2>1, <3>1, <3>3
  <2>2. CASE job'[d] = Free
    BY <1>3, <2>2 DEF CheckAt
  <2>3. QED
    BY <2>1, <2>2
<1>10. QED
  BY <1>1, <1>5, <1>6, <1>7, <1>8, <1>9 DEF MeterInv

\* What stays when a step changes no metrics.
LEMMA JobStep ==
  ASSUME MeterInv, NEW d \in Runners, NEW j \in MeterJobs, job' = [job EXCEPT ![d] = j],
         j.at \in 0 .. Len(heap), j.call # "none" => j.at # 0,
         UNCHANGED <<heap, missions, turnPF, peak>>,
         checking' \subseteq Runners, latched' \subseteq Metered,
         events' \in [Metered -> [thrashing : Nat, plan : Plans \cup {<<>>}]],
         \/ UNCHANGED <<checking, latched, events>>
         \/ \A e \in Runners \ {d} : job[e].call = "check" => job[e].step = 0,
         CheckAt(j, d)', ThrashesOnce', MarkedIsLatched', LatchedForCause', missed' = FALSE
  PROVE  MeterInv'
<1>1. MeterTyped /\ (\A e \in Runners : CheckAt(job[e], e))
      /\ \A i \in DOMAIN heap : Counted(heap[i], turnPF[i], peak[i])
  BY DEF MeterInv
<1>2. /\ job' \in [Runners -> MeterJobs] /\ job'[d] = j
      /\ \A e \in Runners \ {d} : job'[e] = job[e]
  BY <1>1 DEF MeterTyped
<1>3. MeterTyped'
  <2>1. \A e \in Runners : /\ job'[e].at \in 0 .. Len(heap)
                           /\ job'[e].call # "none" => job'[e].at # 0
    BY <1>1, <1>2 DEF MeterTyped
  <2>2. QED
    BY <1>1, <1>2, <2>1 DEF MeterTyped
<1>4. ASSUME NEW e \in Runners PROVE CheckAt(job[e], e)'
  <2>1. CASE e = d
    BY <1>2, <2>1 DEF CheckAt
  <2>2. CASE e # d /\ UNCHANGED <<checking, latched, events>>
    <3>1. CheckAt(job[e], e) /\ job'[e] = job[e]
      BY <1>1, <1>2, <2>2
    <3>2. QED
      BY <2>2, <3>1 DEF CheckAt, Due, Reached
  <2>3. CASE e # d /\ (job[e].call = "check" => job[e].step = 0)
    <3>1. CheckAt(job[e], e) /\ job'[e] = job[e]
      BY <1>1, <1>2, <2>3
    <3>2. QED
      BY <2>3, <3>1 DEF CheckAt, Due, Reached
  <2>4. QED
    BY <2>1, <2>2, <2>3
<1>5. \A i \in DOMAIN heap' : Counted(heap'[i], turnPF'[i], peak'[i])
  BY <1>1
<1>6. QED
  BY <1>3, <1>4, <1>5 DEF MeterInv, NothingMissed

\* A step in which only the job changes.
LEMMA JobOnly ==
  ASSUME MeterInv, NEW d \in Runners, NEW j \in MeterJobs, job' = [job EXCEPT ![d] = j],
         j.at \in 0 .. Len(heap), j.call # "none" => j.at # 0, CheckAt(j, d),
         UNCHANGED <<heap, missions, turnPF, peak, checking, latched, events>>, missed' = FALSE
  PROVE  MeterInv'
<1>1. /\ checking \subseteq Runners /\ latched \subseteq Metered
      /\ events \in [Metered -> [thrashing : Nat, plan : Plans \cup {<<>>}]]
      /\ ThrashesOnce /\ MarkedIsLatched /\ LatchedForCause
  BY DEF MeterInv, MeterTyped
<1>2. ThrashesOnce' /\ MarkedIsLatched' /\ LatchedForCause'
  BY <1>1 DEF ThrashesOnce, MarkedIsLatched, LatchedForCause, Reached
<1>3. CheckAt(j, d)'
  BY DEF CheckAt, Due, Reached
<1>4. /\ checking' \subseteq Runners /\ latched' \subseteq Metered
      /\ events' \in [Metered -> [thrashing : Nat, plan : Plans \cup {<<>>}]]
      /\ UNCHANGED <<heap, missions, turnPF, peak>> /\ UNCHANGED <<checking, latched, events>>
  BY <1>1
<1>5. QED
  BY <1>2, <1>3, <1>4, JobStep

LEMMA BeginCompleteStep ==
  ASSUME MeterInv, NEW d \in Runners, BeginComplete(d)
  PROVE  MeterInv'
<1>1. PICK m \in Metered :
        /\ missions[m] # 0 /\ Completable(heap[missions[m]])
        /\ job' = [job EXCEPT ![d] = [call |-> "complete", at |-> missions[m], step |-> 0,
                                        due |-> heap[missions[m]].status = "thrashing"]]
  BY DEF BeginComplete
<1>2. MeterTyped /\ missed = FALSE
  BY DEF MeterInv, NothingMissed
<1>3. Len(heap) \in Nat /\ missions[m] \in 0 .. Len(heap)
  BY <1>2, MeterFacts DEF MeterTyped
<1>4. DEFINE j == [call |-> "complete", at |-> missions[m], step |-> 0,
                   due |-> heap[missions[m]].status = "thrashing"]
<1>5. j \in MeterJobs /\ j.call = "complete" /\ j.at = missions[m]
  BY <1>3 DEF MeterJobs
<1>6. job' = [job EXCEPT ![d] = j]
  BY <1>1
<1> HIDE DEF j
<1>7. CheckAt(j, d)
  BY <1>5 DEF CheckAt
<1>8. UNCHANGED <<heap, missions, turnPF, peak, checking, latched, events>> /\ missed' = FALSE
  BY <1>2 DEF BeginComplete, meterVars, ghosts
<1>9. QED
  BY <1>1, <1>3, <1>5, <1>6, <1>7, <1>8, JobOnly

LEMMA GetStep ==
  ASSUME MeterInv, NEW d \in Runners, Get(d)
  PROVE  MeterInv'
<1>1. PICK m \in Metered :
        /\ missions[m] # 0
        /\ job' = [job EXCEPT ![d] =
             [call |-> "check", at |-> missions[m], step |-> 0,
              due |-> heap[missions[m]].rejects >= MaxRejects \/ heap[missions[m]].conflicts >= MaxConflicts]]
  BY DEF Get
<1>2. MeterTyped /\ missed = FALSE
  BY DEF MeterInv, NothingMissed
<1>3. Len(heap) \in Nat /\ missions[m] \in 0 .. Len(heap)
  BY <1>2, MeterFacts DEF MeterTyped
<1>4. DEFINE j == [call |-> "check", at |-> missions[m], step |-> 0,
                   due |-> heap[missions[m]].rejects >= MaxRejects \/ heap[missions[m]].conflicts >= MaxConflicts]
<1>5. j \in MeterJobs /\ j.at = missions[m] /\ j.step = 0 /\ j.call = "check"
  BY <1>3 DEF MeterJobs
<1>6. j.due => Due(heap[j.at])
  BY <1>5 DEF Due
<1>7. job' = [job EXCEPT ![d] = j]
  BY <1>1
<1> HIDE DEF j
<1>8. CheckAt(j, d)
  BY <1>5, <1>6 DEF CheckAt
<1>9. UNCHANGED <<heap, missions, turnPF, peak, checking, latched, events>> /\ missed' = FALSE
  BY <1>2 DEF Get, meterVars, ghosts
<1>10. QED
  BY <1>1, <1>3, <1>5, <1>7, <1>8, <1>9, JobOnly

\* Where a check goes next.
LEMMA Reaches ==
  ASSUME MeterTyped, NEW d \in Runners, NEW step \in 0 .. 7, Reach(d, step), job[d].call = "check"
  PROVE  \E j \in MeterJobs :
           /\ job' = [job EXCEPT ![d] = j] /\ j.call = "check" /\ j.step = step
           /\ j.at = job[d].at /\ j.due = job[d].due
<1>1. DEFINE j == [job[d] EXCEPT !.step = step]
<1>2. job[d] \in MeterJobs
  BY MeterFacts
<1>3. j \in MeterJobs /\ j.call = "check" /\ j.step = step /\ j.at = job[d].at /\ j.due = job[d].due
  BY <1>2 DEF MeterJobs
<1>4. job' = [job EXCEPT ![d] = j]
  BY DEF Reach
<1>5. QED
  BY <1>3, <1>4

LEMMA FreeJob ==
  /\ Free \in MeterJobs /\ Free.at = 0 /\ Free.call = "none"
  /\ \A d : CheckAt(Free, d)
BY DEF Free, MeterJobs, CheckAt

LEMMA BeginCheckStep ==
  ASSUME MeterInv, NEW d \in Runners, BeginCheck(d)
  PROVE  MeterInv'
<1>1. /\ job[d].call = "check" /\ job[d].step = 0 /\ checking = {}
      /\ UNCHANGED <<heap, missions, turnPF, peak, latched, events>> /\ missed' = FALSE
      /\ MeterTyped /\ ThrashesOnce /\ MarkedIsLatched /\ LatchedForCause
  BY DEF BeginCheck, MeterInv, NothingMissed, meterVars, ghosts
<1>2. CheckAt(job[d], d) /\ job[d].at \in 0 .. Len(heap) /\ job[d].at # 0
  BY <1>1 DEF MeterInv, MeterTyped
<1>3. CASE Latched(At(d))
  <2>1. job' = [job EXCEPT ![d] = Free] /\ checking' = checking
    BY <1>1, <1>3 DEF BeginCheck, Leave
  <2>2. 0 \in 0 .. Len(heap)
    BY <1>1, MeterFacts
  <2>3. QED
    BY <1>1, <2>1, <2>2, FreeJob, JobOnly
<1>4. CASE ~Latched(At(d))
  <2>1. checking' = {d} /\ Reach(d, 1) /\ heap[job[d].at].mission \notin latched
    BY <1>4 DEF BeginCheck, Latched, At
  <2>2. PICK j \in MeterJobs : /\ job' = [job EXCEPT ![d] = j] /\ j.call = "check" /\ j.step = 1
                               /\ j.at = job[d].at /\ j.due = job[d].due
    BY <1>1, <2>1, Reaches
  <2>3. CheckAt(j, d)'
    BY <1>1, <1>2, <2>1, <2>2 DEF CheckAt, Due
  <2>4. \A e \in Runners \ {d} : job[e].call = "check" => job[e].step = 0
    BY <1>1 DEF MeterInv, CheckAt
  <2>5. ThrashesOnce' /\ MarkedIsLatched' /\ LatchedForCause'
    BY <1>1 DEF ThrashesOnce, MarkedIsLatched, LatchedForCause, Reached
  <2>6. /\ checking' \subseteq Runners /\ latched' \subseteq Metered
        /\ events' \in [Metered -> [thrashing : Nat, plan : Plans \cup {<<>>}]]
    BY <1>1, <2>1 DEF MeterTyped
  <2>7. j.at \in 0 .. Len(heap) /\ (j.call # "none" => j.at # 0)
    BY <1>2, <2>2
  <2>8. UNCHANGED <<heap, missions, turnPF, peak>> /\ missed' = FALSE
    BY <1>1
  <2>9. QED
    BY <2>2, <2>3, <2>4, <2>5, <2>6, <2>7, <2>8, JobStep
<1>5. QED
  BY <1>3, <1>4

\* A condition holds only of metrics that reached a limit.
LEMMA ConditionReached ==
  ASSUME MeterTyped, NEW i \in DOMAIN heap, Counted(heap[i], turnPF[i], peak[i]), NEW n \in 1 .. 4,
         Condition(n, heap[i])
  PROVE  Reached(i)
<1>1. /\ peak[i].streak \in Nat /\ peak[i].fails \in Nat /\ heap[i].fails \in Nat
      /\ heap[i].turnPFs \in Seq(Nat)
  BY MeterFacts
<1>2. CASE n = 1
  <2>1. OverSoftLimit(heap[i])
    BY <1>2 DEF Condition
  <2>2. PICK q \in Seq(Nat) : q = heap[i].turnPFs
    BY <1>1
  <2>3. Len(q) >= PFConsecutiveTurns
        /\ \A k \in Len(q) - PFConsecutiveTurns + 1 .. Len(q) : q[k] >= PFSoftLimit
    BY <2>1, <2>2 DEF OverSoftLimit
  <2>4. PICK s \in Nat : s = peak[i].streak
    BY <1>1
  <2>5. CASE s >= PFConsecutiveTurns
    BY <2>4, <2>5 DEF Reached
  <2>6. CASE ~(s >= PFConsecutiveTurns)
    <3>1. s <= Len(q) /\ (s < Len(q) => q[Len(q) - s] < PFSoftLimit)
      BY <2>2, <2>4, <2>6 DEF Counted
    <3>2. /\ s < Len(q) /\ Len(q) - s \in Len(q) - PFConsecutiveTurns + 1 .. Len(q)
          /\ Len(q) - s \in 1 .. Len(q)
      BY <2>3, <2>6, MeterAssumption
    <3>3. q[Len(q) - s] \in Nat /\ PFSoftLimit \in Nat
      BY <3>2, MeterAssumption
    <3>4. q[Len(q) - s] < PFSoftLimit /\ q[Len(q) - s] >= PFSoftLimit
      BY <2>3, <3>1, <3>2
    <3>5. QED
      BY <3>3, <3>4
  <2>7. QED
    BY <2>5, <2>6
<1>3. CASE n = 2
  BY <1>3 DEF Condition, Reached
<1>4. CASE n = 3
  BY <1>4 DEF Condition, Reached
<1>5. CASE n = 4
  <2>1. heap[i].fails >= MaxTestFailures /\ heap[i].fails <= peak[i].fails /\ MaxTestFailures \in Nat
    BY <1>5, MeterAssumption DEF Condition, Counted
  <2>2. peak[i].fails >= MaxTestFailures
    BY <1>1, <2>1
  <2>3. QED
    BY <2>2 DEF Reached
<1>6. QED
  BY <1>2, <1>3, <1>4, <1>5

\* The others are before their checks when one has the mutex.
LEMMA OthersWait ==
  ASSUME MeterInv, NEW d \in Runners, job[d].call = "check", job[d].step # 0
  PROVE  checking = {d} /\ \A e \in Runners \ {d} : job[e].call = "check" => job[e].step = 0
<1>1. checking = {d}
  BY DEF MeterInv, CheckAt
<1>2. ASSUME NEW e \in Runners \ {d}, job[e].call = "check", job[e].step # 0 PROVE FALSE
  <2>1. checking = {e}
    BY <1>2 DEF MeterInv, CheckAt
  <2>2. QED
    BY <1>1, <2>1
<1>3. QED
  BY <1>1, <1>2

\* The mutex is given back.
LEMMA LeaveStep ==
  ASSUME MeterInv, NEW d \in Runners, job[d].call = "check", job[d].step # 0, Leave(d),
         UNCHANGED <<heap, missions, turnPF, peak, latched>>, missed' = FALSE,
         events' \in [Metered -> [thrashing : Nat, plan : Plans \cup {<<>>}]],
         ThrashesOnce', MarkedIsLatched'
  PROVE  MeterInv'
<1>1. MeterTyped /\ LatchedForCause
  BY DEF MeterInv
<1>2. job' = [job EXCEPT ![d] = Free] /\ checking' = {}
  BY DEF Leave
<1>3. \A e \in Runners \ {d} : job[e].call = "check" => job[e].step = 0
  BY OthersWait
<1>4. LatchedForCause'
  BY <1>1 DEF LatchedForCause, Reached
<1>5. Free.at \in 0 .. Len(heap)
  BY <1>1, FreeJob, MeterFacts
<1>6. CheckAt(Free, d)'
  BY FreeJob DEF CheckAt
<1>7. checking' \subseteq Runners /\ latched' \subseteq Metered
  BY <1>1, <1>2 DEF MeterTyped
<1>8. QED
  BY <1>2, <1>3, <1>4, <1>5, <1>6, <1>7, FreeJob, JobStep

LEMMA DetectStep ==
  ASSUME MeterInv, NEW d \in Runners, Detect(d)
  PROVE  MeterInv'
<1>1. PICK n \in 1 .. 4 : n = job[d].step
  BY DEF Detect
<1>2. /\ job[d].call = "check" /\ UNCHANGED <<heap, missions, turnPF, peak, latched, events>>
      /\ MeterTyped /\ ThrashesOnce /\ MarkedIsLatched /\ LatchedForCause /\ missed = FALSE
      /\ CheckAt(job[d], d)
      /\ \A i \in DOMAIN heap : Counted(heap[i], turnPF[i], peak[i])
  BY DEF Detect, MeterInv, NothingMissed, meterVars
<1>3. job[d].at \in DOMAIN heap /\ job[d].at \in 0 .. Len(heap) /\ job[d].at # 0
  BY <1>2, MeterFacts DEF MeterTyped
<1>4. PICK o \in MetricsRecords : o = heap[job[d].at]
  BY <1>2, <1>3, MeterFacts
<1>5. /\ checking = {d} /\ o.mission \notin latched
      /\ job[d].due => Due(o) /\ n # 4 /\ (n = 3 => o.conflicts >= MaxConflicts)
  BY <1>1, <1>2, <1>4 DEF CheckAt
<1>6. CASE Condition(n, o)
  <2>1. Reach(d, 5) /\ checking' = checking /\ missed' = FALSE
    BY <1>1, <1>2, <1>4, <1>6 DEF Detect, At
  <2>2. PICK j \in MeterJobs : /\ job' = [job EXCEPT ![d] = j] /\ j.call = "check" /\ j.step = 5
                               /\ j.at = job[d].at /\ j.due = job[d].due
    BY <1>2, <2>1, Reaches
  <2>3. Reached(j.at)
    BY <1>2, <1>3, <1>4, <1>6, <2>2, ConditionReached
  <2>4. CheckAt(j, d)
    BY <1>4, <1>5, <2>2, <2>3 DEF CheckAt
  <2>5. j.at \in 0 .. Len(heap) /\ (j.call # "none" => j.at # 0)
    BY <1>3, <2>2
  <2>6. QED
    BY <1>2, <2>1, <2>2, <2>4, <2>5, JobOnly
<1>7. CASE ~Condition(n, o) /\ n < 4
  <2>1. Reach(d, n + 1) /\ checking' = checking /\ missed' = FALSE
    BY <1>1, <1>2, <1>4, <1>7 DEF Detect, At
  <2>2. PICK j \in MeterJobs : /\ job' = [job EXCEPT ![d] = j] /\ j.call = "check" /\ j.step = n + 1
                               /\ j.at = job[d].at /\ j.due = job[d].due
    <3>1. n + 1 \in 0 .. 7
      OBVIOUS
    <3>2. QED
      BY <1>2, <2>1, <3>1, Reaches
  <2>3. ASSUME j.due PROVE Due(o) /\ j.step # 4 /\ (j.step = 3 => o.conflicts >= MaxConflicts)
    <3>1. Due(o) /\ (n = 3 => o.conflicts >= MaxConflicts)
      BY <1>5, <2>2, <2>3
    <3>2. n = 2 => ~(o.rejects >= MaxRejects)
      BY <1>7 DEF Condition
    <3>3. n = 3 => ~(o.conflicts >= MaxConflicts)
      BY <1>7 DEF Condition
    <3>4. n = 2 => o.conflicts >= MaxConflicts
      BY <3>1, <3>2 DEF Due
    <3>5. n # 3
      BY <3>1, <3>3
    <3>6. QED
      BY <2>2, <3>1, <3>4, <3>5
  <2>4. CheckAt(j, d)
    <3>1. j.step \in 1 .. 4
      BY <1>7, <2>2
    <3>2. QED
      BY <1>4, <1>5, <2>2, <2>3, <3>1 DEF CheckAt
  <2>5. j.at \in 0 .. Len(heap) /\ (j.call # "none" => j.at # 0)
    BY <1>3, <2>2
  <2>6. QED
    BY <1>2, <2>1, <2>2, <2>4, <2>5, JobOnly
<1>8. CASE ~Condition(n, o) /\ n = 4
  <2>1. Leave(d) /\ missed' = (missed \/ job[d].due)
    BY <1>1, <1>4, <1>8 DEF Detect, At
  <2>2. missed' = FALSE
    <3>1. job[d].due \in BOOLEAN
      BY <1>2, MeterFacts DEF MeterJobs
    <3>2. QED
      BY <1>2, <1>5, <1>8, <2>1, <3>1
  <2>3. ThrashesOnce' /\ MarkedIsLatched'
    BY <1>2 DEF ThrashesOnce, MarkedIsLatched
  <2>4. events' \in [Metered -> [thrashing : Nat, plan : Plans \cup {<<>>}]]
    BY <1>2 DEF MeterTyped
  <2>5. job[d].step # 0
    BY <1>1
  <2>6. QED
    BY <1>2, <2>1, <2>2, <2>3, <2>4, <2>5, LeaveStep
<1>9. QED
  BY <1>6, <1>7, <1>8

\* Metrics with another status count the same.
LEMMA OtherStatus ==
  ASSUME MeterInv, NEW i \in DOMAIN heap, NEW status \in {"completed", "thrashing"}
  PROVE  \E o \in MetricsRecords :
           /\ [heap EXCEPT ![i].status = status] = [heap EXCEPT ![i] = o]
           /\ o.mission = heap[i].mission /\ o.status = status /\ Counted(o, turnPF[i], peak[i])
           /\ o.rejects >= heap[i].rejects /\ o.conflicts >= heap[i].conflicts
           /\ peak[i].fails >= peak[i].fails
           /\ turnPF \in Seq(Nat) /\ peak \in Seq(Peaks)
<1>1. MeterTyped /\ Counted(heap[i], turnPF[i], peak[i])
  BY DEF MeterInv
<1>2. PICK r \in MetricsRecords : r = heap[i]
  BY <1>1, MeterFacts
<1>3. DEFINE o == [r EXCEPT !.status = status]
<1>4. /\ o \in MetricsRecords /\ o.mission = r.mission /\ o.status = status /\ o.pf = r.pf
      /\ o.turnPFs = r.turnPFs /\ o.rejects = r.rejects /\ o.conflicts = r.conflicts /\ o.fails = r.fails
  BY DEF MetricsRecords
<1>5. [heap EXCEPT ![i].status = status] = [heap EXCEPT ![i] = o]
  BY <1>2
<1> HIDE DEF o
<1>6. Counted(o, turnPF[i], peak[i])
  BY <1>1, <1>2, <1>4 DEF Counted
<1>7. r.rejects \in Nat /\ r.conflicts \in Nat /\ peak[i].fails \in Nat
  BY <1>1, <1>2, MeterFacts
<1>8. o.rejects >= r.rejects /\ o.conflicts >= r.conflicts /\ peak[i].fails >= peak[i].fails
  BY <1>4, <1>7
<1>9. turnPF \in Seq(Nat) /\ peak \in Seq(Peaks)
  BY <1>1 DEF MeterTyped, Peaks
<1>10. QED
  BY <1>2, <1>4, <1>5, <1>6, <1>8, <1>9

LEMMA LatchStep ==
  ASSUME MeterInv, NEW d \in Runners, Mark(d), job[d].step = 5
  PROVE  MeterInv'
<1>1. /\ job[d].call = "check" /\ Reach(d, 6) /\ latched' = latched \cup {heap[job[d].at].mission}
      /\ UNCHANGED <<heap, missions, turnPF, peak, checking, events>>
      /\ MeterTyped /\ ThrashesOnce /\ MarkedIsLatched /\ LatchedForCause /\ missed' = FALSE
      /\ CheckAt(job[d], d)
  BY DEF Mark, At, MeterInv, NothingMissed, ghosts
<1>2. job[d].at \in DOMAIN heap /\ job[d].at \in 0 .. Len(heap) /\ job[d].at # 0
  BY <1>1, MeterFacts DEF MeterTyped
<1>3. PICK o \in MetricsRecords : o = heap[job[d].at]
  BY <1>1, <1>2, MeterFacts
<1>4. /\ checking = {d} /\ o.mission \notin latched /\ o.mission \in Metered /\ Reached(job[d].at)
      /\ job[d].due => Due(o)
  <2>1. o.mission \in Metered
    BY <1>1, <1>2, <1>3, MeterFacts
  <2>2. 5 \in 1 .. 5 /\ 5 \in 5 .. 7
    OBVIOUS
  <2>3. QED
    BY <1>1, <1>3, <2>1, <2>2 DEF CheckAt
<1>5. PICK j \in MeterJobs : /\ job' = [job EXCEPT ![d] = j] /\ j.call = "check" /\ j.step = 6
                             /\ j.at = job[d].at /\ j.due = job[d].due
  BY <1>1, Reaches
<1>6. \A m \in Metered : events[m].thrashing \in Nat
  BY <1>1 DEF MeterTyped
<1>7. events[o.mission].thrashing = 0
  BY <1>1, <1>4, <1>6 DEF ThrashesOnce
<1>8. ThrashesOnce'
  <2>1. \A m \in Metered : events[m].thrashing <= (IF m \in latched THEN 1 ELSE 0)
    BY <1>1 DEF ThrashesOnce
  <2>2. ASSUME NEW m \in Metered PROVE events[m].thrashing <= (IF m \in latched' THEN 1 ELSE 0)
    BY <1>1, <1>6, <2>1
  <2>3. QED
    BY <1>1, <2>2 DEF ThrashesOnce
<1>9. MarkedIsLatched'
  BY <1>1 DEF MarkedIsLatched
<1>10. LatchedForCause'
  <2>1. \A i \in DOMAIN heap : Reached(i) => Reached(i)'
    BY <1>1 DEF Reached
  <2>2. PICK at \in DOMAIN heap : at = job[d].at
    BY <1>2
  <2>3. heap[at].mission = o.mission /\ Reached(at)'
    BY <1>3, <1>4, <2>1, <2>2
  <2>4. ASSUME NEW m \in latched' PROVE \E i \in DOMAIN heap : heap[i].mission = m /\ Reached(i)'
    <3>1. CASE m = o.mission
      BY <2>3, <3>1
    <3>2. CASE m \in latched
      BY <1>1, <2>1, <3>2 DEF LatchedForCause
    <3>3. QED
      BY <1>1, <1>3, <2>4, <3>1, <3>2
  <2>5. QED
    BY <1>1, <2>4 DEF LatchedForCause
<1>11. CheckAt(j, d)'
  <2>1. checking' = {d} /\ Reached(j.at)' /\ heap'[j.at] = o /\ o.mission \in latched'
        /\ events'[o.mission].thrashing = 0 /\ (j.due => Due(o)')
    BY <1>1, <1>3, <1>4, <1>5, <1>7 DEF Reached, Due
  <2>2. j.step = 6 /\ j.step \notin 1 .. 5
    BY <1>5
  <2>3. QED
    BY <2>1, <2>2 DEF CheckAt
<1>12. \A e \in Runners \ {d} : job[e].call = "check" => job[e].step = 0
  BY <1>1, OthersWait
<1>13. /\ checking' \subseteq Runners /\ latched' \subseteq Metered
       /\ events' \in [Metered -> [thrashing : Nat, plan : Plans \cup {<<>>}]]
  BY <1>1, <1>3, <1>4 DEF MeterTyped
<1>14. j.at \in 0 .. Len(heap) /\ (j.call # "none" => j.at # 0)
  BY <1>2, <1>5
<1>15. UNCHANGED <<heap, missions, turnPF, peak>> /\ missed' = FALSE
  BY <1>1
<1>16. QED
  BY <1>5, <1>8, <1>9, <1>10, <1>11, <1>12, <1>13, <1>14, <1>15, JobStep

LEMMA StatusStep ==
  ASSUME MeterInv, NEW d \in Runners, Mark(d), job[d].step = 6
  PROVE  MeterInv'
<1>1. /\ job[d].call = "check" /\ Reach(d, 7)
      /\ heap' = [heap EXCEPT ![job[d].at].status = "thrashing"]
      /\ UNCHANGED <<missions, turnPF, peak, checking, latched, events, missed>>
      /\ MeterTyped /\ ThrashesOnce /\ MarkedIsLatched /\ LatchedForCause /\ missed = FALSE
      /\ CheckAt(job[d], d)
  BY DEF Mark, At, MeterInv, NothingMissed, ghosts
<1>2. PICK i \in DOMAIN heap : i = job[d].at
  BY <1>1, MeterFacts DEF MeterTyped
<1>3. PICK o \in MetricsRecords :
        /\ [heap EXCEPT ![i].status = "thrashing"] = [heap EXCEPT ![i] = o]
        /\ o.mission = heap[i].mission /\ o.status = "thrashing" /\ Counted(o, turnPF[i], peak[i])
        /\ o.rejects >= heap[i].rejects /\ o.conflicts >= heap[i].conflicts
        /\ peak[i].fails >= peak[i].fails
        /\ turnPF \in Seq(Nat) /\ peak \in Seq(Peaks)
  BY OtherStatus
<1>4. /\ heap' \in Seq(MetricsRecords) /\ DOMAIN heap' = DOMAIN heap /\ Len(heap') = Len(heap)
      /\ Len(turnPF') = Len(heap') /\ Len(peak') = Len(heap')
      /\ heap'[i] = o /\ \A k \in DOMAIN heap \ {i} : heap'[k] = heap[k]
      /\ Grows
      /\ \A k \in DOMAIN heap' : Counted(heap'[k], turnPF'[k], peak'[k])
  <2>1. heap' = [heap EXCEPT ![i] = o]
    BY <1>1, <1>2, <1>3
  <2>2. turnPF' = turnPF /\ peak' = peak
    BY <1>1
  <2>3. /\ turnPF' \in Seq(Nat) /\ Len(turnPF') = Len(turnPF)
        /\ peak' \in Seq(Peaks) /\ Len(peak') = Len(peak)
        /\ \A k \in DOMAIN heap \ {i} : turnPF'[k] = turnPF[k] /\ peak'[k] = peak[k]
        /\ peak[i].streak >= PFConsecutiveTurns => peak'[i].streak >= PFConsecutiveTurns
        /\ peak'[i].fails >= peak[i].fails /\ Counted(o, turnPF'[i], peak'[i])
    BY <1>3, <2>2
  <2>4. /\ o.mission = heap[i].mission
        /\ o.rejects >= heap[i].rejects /\ o.conflicts >= heap[i].conflicts
    BY <1>3
  <2>5. QED
    BY <2>1, <2>3, <2>4, MetricsGrow
<1>5. PICK j \in MeterJobs : /\ job' = [job EXCEPT ![d] = j] /\ j.call = "check" /\ j.step = 7
                             /\ j.at = i /\ j.due = job[d].due
  BY <1>1, <1>2, Reaches
<1>6. /\ checking = {d} /\ heap[i].mission \in latched /\ events[heap[i].mission].thrashing = 0
      /\ Reached(i) /\ (job[d].due => Due(heap[i]))
  <2>1. 6 \in 5 .. 7 /\ 6 \in 6 .. 7
    OBVIOUS
  <2>2. QED
    BY <1>1, <1>2, <2>1 DEF CheckAt
<1>7. job' \in [Runners -> MeterJobs] /\ job'[d] = j /\ \A e \in Runners \ {d} : job'[e] = job[e]
  BY <1>1, <1>5 DEF MeterTyped
<1>8. MeterTyped'
  <2>1. \A m \in Metered : missions[m] # 0 => heap'[missions[m]].mission = m
    BY <1>1, <1>4, MeterFacts DEF MeterTyped, Grows
  <2>2. \A e \in Runners : job'[e].at \in 0 .. Len(heap) /\ (job'[e].call # "none" => job'[e].at # 0)
    BY <1>1, <1>2, <1>5, <1>7 DEF MeterTyped
  <2>3. peak \in Seq([streak : Nat, fails : Nat])
    BY <1>1 DEF MeterTyped
  <2>4. QED
    BY <1>1, <1>4, <1>7, <2>1, <2>2, <2>3 DEF MeterTyped
<1>9. MarkedIsLatched'
  <2>1. \A k \in DOMAIN heap : heap[k].status = "thrashing" => heap[k].mission \in latched
    BY <1>1 DEF MarkedIsLatched, ToSet
  <2>2. \A k \in DOMAIN heap' : heap'[k].status = "thrashing" => heap'[k].mission \in latched
    BY <1>3, <1>4, <1>6, <2>1
  <2>3. QED
    BY <1>1, <2>2 DEF MarkedIsLatched, ToSet
<1>10. LatchedForCause'
  BY <1>1, <1>4, CausesKept
<1>11. ThrashesOnce' /\ NothingMissed'
  BY <1>1 DEF ThrashesOnce, NothingMissed
<1>12. ASSUME NEW e \in Runners PROVE CheckAt(job[e], e)'
  <2>1. CASE e = d
    <3>1. /\ checking' = {d} /\ Reached(i)' /\ heap'[i].mission \in latched'
          /\ events'[heap'[i].mission].thrashing = 0
      BY <1>1, <1>4, <1>6 DEF Grows
    <3>2. j.due => Due(heap[i])'
      BY <1>4, <1>5, <1>6 DEF Grows, Due
    <3>3. j.step = 7 /\ j.step \notin 1 .. 5
      BY <1>5
    <3>4. CheckAt(j, d)'
      BY <1>5, <3>1, <3>2, <3>3 DEF CheckAt
    <3>5. QED
      BY <1>7, <2>1, <3>4
  <2>2. CASE e # d
    <3>1. PICK c \in MeterJobs : c = job[e]
      BY <1>1, MeterFacts
    <3>2. CheckAt(c, e) /\ (c.call # "none" => c.at \in DOMAIN heap)
      BY <1>1, <3>1, MeterFacts, SMTT(40) DEF MeterInv, MeterTyped
    <3>3. CheckAt(c, e)'
      BY <1>1, <1>4, <3>2, ChecksKept
    <3>4. QED
      BY <1>7, <2>2, <3>1, <3>3
  <2>3. QED
    BY <2>1, <2>2
<1>13. QED
  BY <1>4, <1>8, <1>9, <1>10, <1>11, <1>12 DEF MeterInv

LEMMA LogThrashingStep ==
  ASSUME MeterInv, NEW d \in Runners, LogThrashing(d)
  PROVE  MeterInv'
<1>1. /\ job[d].call = "check" /\ job[d].step = 7 /\ Leave(d)
      /\ UNCHANGED <<heap, missions, turnPF, peak, latched>> /\ missed' = FALSE
      /\ MeterTyped /\ ThrashesOnce /\ MarkedIsLatched /\ CheckAt(job[d], d)
  BY DEF LogThrashing, MeterInv, NothingMissed, meterVars, ghosts
<1>2. PICK i \in DOMAIN heap : i = job[d].at
  BY <1>1, MeterFacts DEF MeterTyped
<1>3. PICK m \in Metered : m = heap[i].mission
  BY <1>1, MeterFacts
<1>4. m \in latched /\ events[m].thrashing = 0
  BY <1>1, <1>2, <1>3 DEF CheckAt
<1>5. CASE events' = [events EXCEPT ![At(d).mission].thrashing = @ + 1]
  <2>1. DEFINE line == [events[m] EXCEPT !.thrashing = 1]
  <2>2. events \in [Metered -> [thrashing : Nat, plan : Plans \cup {<<>>}]]
    BY <1>1 DEF MeterTyped
  <2>3. events' = [events EXCEPT ![m] = line]
    <3>1. events' = [events EXCEPT ![m] = [events[m] EXCEPT !.thrashing = events[m].thrashing + 1]]
      BY <1>2, <1>3, <1>5, <2>2 DEF At
    <3>2. QED
      BY <1>4, <3>1
  <2>4. line \in [thrashing : Nat, plan : Plans \cup {<<>>}] /\ line.thrashing = 1 /\ line.plan = events[m].plan
    BY <2>2
  <2> HIDE DEF line
  <2>5. /\ events' \in [Metered -> [thrashing : Nat, plan : Plans \cup {<<>>}]]
        /\ events'[m] = line /\ \A other \in Metered \ {m} : events'[other] = events[other]
    BY <2>2, <2>3, <2>4
  <2>6. ThrashesOnce'
    BY <1>1, <1>4, <2>4, <2>5 DEF ThrashesOnce
  <2>7. MarkedIsLatched'
    BY <1>1, <1>4, <2>5 DEF MarkedIsLatched
  <2>8. job[d].step # 0
    BY <1>1
  <2>9. QED
    BY <1>1, <2>5, <2>6, <2>7, <2>8, LeaveStep
<1>6. CASE UNCHANGED events
  <2>1. ThrashesOnce' /\ MarkedIsLatched' /\ job[d].step # 0
    BY <1>1, <1>6 DEF ThrashesOnce, MarkedIsLatched
  <2>2. events' \in [Metered -> [thrashing : Nat, plan : Plans \cup {<<>>}]]
    BY <1>1, <1>6 DEF MeterTyped
  <2>3. QED
    BY <1>1, <2>1, <2>2, LeaveStep
<1>7. QED
  BY <1>5, <1>6 DEF LogThrashing

LEMMA EscalateStep ==
  ASSUME MeterInv, NEW d \in Runners, Escalate(d)
  PROVE  MeterInv'
<1>1. /\ UNCHANGED <<heap, missions, turnPF, peak, checking, latched, job, missed>>
      /\ MeterTyped /\ ThrashesOnce /\ MarkedIsLatched /\ LatchedForCause /\ NothingMissed
      /\ (\A i \in DOMAIN heap : Counted(heap[i], turnPF[i], peak[i]))
      /\ \A e \in Runners : CheckAt(job[e], e)
  BY DEF Escalate, MeterInv, meterVars, ghosts
<1>2. PICK m \in Metered :
        /\ missions[m] # 0 /\ heap[missions[m]].status = "thrashing"
        /\ \/ UNCHANGED events
           \/ \E plan \in Plans : plan # <<>> /\ ~DetectCycle(plan) /\ events' = [events EXCEPT ![m].plan = plan]
  BY DEF Escalate
<1>3. m \in latched
  BY <1>1, <1>2, MeterFacts, SMTT(40) DEF MarkedIsLatched, MeterTyped, ToSet
<1>4. /\ events' \in [Metered -> [thrashing : Nat, plan : Plans \cup {<<>>}]]
      /\ \A other \in Metered : events'[other].thrashing = events[other].thrashing
      /\ \A other \in Metered \ {m} : events'[other].plan = events[other].plan
  <2>1. CASE UNCHANGED events
    BY <1>1, <2>1 DEF MeterTyped
  <2>2. ASSUME NEW plan \in Plans, events' = [events EXCEPT ![m].plan = plan]
        PROVE  <1>4!1 /\ <1>4!2 /\ <1>4!3
    BY <1>1, <2>2 DEF MeterTyped
  <2>3. QED
    BY <1>2, <2>1, <2>2
<1>5. ThrashesOnce'
  BY <1>1, <1>4 DEF ThrashesOnce
<1>6. MarkedIsLatched'
  BY <1>1, <1>3, <1>4 DEF MarkedIsLatched
<1>7. LatchedForCause' /\ NothingMissed'
  BY <1>1 DEF LatchedForCause, NothingMissed, Reached
<1>8. MeterTyped'
  BY <1>1, <1>4 DEF MeterTyped
<1>9. ASSUME NEW e \in Runners PROVE CheckAt(job[e], e)'
  <2>1. CASE job[e].call # "check"
    BY <1>1, <2>1 DEF CheckAt
  <2>2. CASE job[e].call = "check"
    <3>1. job[e].at \in DOMAIN heap
      BY <1>1, <2>2, MeterFacts DEF MeterTyped
    <3>2. heap[job[e].at].mission \in Metered
      BY <1>1, <3>1, MeterFacts
    <3>3. CheckAt(job[e], e) /\ job'[e] = job[e]
      BY <1>1
    <3>4. QED
      BY <1>1, <1>4, <3>2, <3>3 DEF CheckAt, Due, Reached
  <2>3. QED
    BY <2>1, <2>2
<1>10. \A i \in DOMAIN heap' : Counted(heap'[i], turnPF'[i], peak'[i])
  BY <1>1
<1>11. QED
  BY <1>5, <1>6, <1>7, <1>8, <1>9, <1>10 DEF MeterInv

LEMMA EndCompleteStep ==
  ASSUME MeterInv, NEW d \in Runners, EndComplete(d)
  PROVE  MeterInv'
<1>1. /\ heap' = [heap EXCEPT ![job[d].at].status = "completed"]
      /\ job' = [job EXCEPT ![d] = Free] /\ job[d].call # "none"
      /\ UNCHANGED <<missions, latched, checking, events, missed>> /\ turnPF' = turnPF /\ peak' = peak
      /\ MeterTyped
  BY DEF EndComplete, MeterInv, ghosts
<1>2. PICK i \in DOMAIN heap : i = job[d].at
  BY <1>1, MeterFacts DEF MeterTyped
<1>3. PICK o \in MetricsRecords :
        /\ [heap EXCEPT ![i].status = "completed"] = [heap EXCEPT ![i] = o]
        /\ o.mission = heap[i].mission /\ o.status = "completed" /\ Counted(o, turnPF[i], peak[i])
        /\ o.rejects >= heap[i].rejects /\ o.conflicts >= heap[i].conflicts
        /\ peak[i].fails >= peak[i].fails
        /\ turnPF \in Seq(Nat) /\ peak \in Seq(Peaks)
  BY OtherStatus
<1>4. heap' = [heap EXCEPT ![i] = o]
  BY <1>1, <1>2, <1>3
<1>5. /\ turnPF' \in Seq(Nat) /\ Len(turnPF') = Len(turnPF)
      /\ peak' \in Seq(Peaks) /\ Len(peak') = Len(peak)
      /\ \A k \in DOMAIN heap \ {i} : turnPF'[k] = turnPF[k] /\ peak'[k] = peak[k]
      /\ peak[i].streak >= PFConsecutiveTurns => peak'[i].streak >= PFConsecutiveTurns
      /\ peak'[i].fails >= peak[i].fails /\ Counted(o, turnPF'[i], peak'[i])
  BY <1>1, <1>3
<1>6. /\ o.mission = heap[i].mission
      /\ o.rejects >= heap[i].rejects /\ o.conflicts >= heap[i].conflicts
      /\ o.status = "thrashing" => heap[i].status = "thrashing"
  BY <1>3
<1>7. job' \in [Runners -> MeterJobs] /\ \A e \in Runners : job'[e] = job[e] \/ job'[e] = Free
  BY <1>1, FreeJob DEF MeterTyped
<1>8. UNCHANGED <<missions, latched, checking, events, missed>>
  BY <1>1
<1>9. QED
  BY <1>4, <1>5, <1>6, <1>7, <1>8, MetricsStep

\* A call of the aggregator that changes the metrics at i, and what is counted of them.
Counts(i, o, faults, top) ==
  /\ heap' = [heap EXCEPT ![i] = o] /\ turnPF' = [turnPF EXCEPT ![i] = faults]
  /\ peak' = [peak EXCEPT ![i] = top]
  /\ o.mission = heap[i].mission /\ o.status = heap[i].status
  /\ o.rejects >= heap[i].rejects /\ o.conflicts >= heap[i].conflicts
  /\ peak[i].streak >= PFConsecutiveTurns => top.streak >= PFConsecutiveTurns
  /\ top.fails >= peak[i].fails /\ Counted(o, faults, top)

LEMMA CountStep ==
  ASSUME MeterInv, NEW i \in DOMAIN heap, NEW o \in MetricsRecords, NEW faults \in Nat, NEW top \in Peaks,
         Counts(i, o, faults, top), UNCHANGED <<missions, latched, checking, job, events, missed>>
  PROVE  MeterInv'
<1>1. MeterTyped
  BY DEF MeterInv
<1>2. /\ turnPF \in Seq(Nat) /\ peak \in Seq(Peaks) /\ DOMAIN turnPF = DOMAIN heap /\ DOMAIN peak = DOMAIN heap
  BY <1>1, MeterFacts DEF MeterTyped, Peaks
<1>3. turnPF' = [turnPF EXCEPT ![i] = faults] /\ peak' = [peak EXCEPT ![i] = top]
  BY DEF Counts
<1>4. /\ turnPF' \in Seq(Nat) /\ Len(turnPF') = Len(turnPF) /\ turnPF'[i] = faults
      /\ peak' \in Seq(Peaks) /\ Len(peak') = Len(peak) /\ peak'[i] = top
      /\ \A k \in DOMAIN heap \ {i} : turnPF'[k] = turnPF[k] /\ peak'[k] = peak[k]
  BY <1>2, <1>3
<1>5. /\ heap' = [heap EXCEPT ![i] = o]
      /\ o.mission = heap[i].mission /\ o.rejects >= heap[i].rejects /\ o.conflicts >= heap[i].conflicts
      /\ peak[i].streak >= PFConsecutiveTurns => peak'[i].streak >= PFConsecutiveTurns
      /\ peak'[i].fails >= peak[i].fails /\ Counted(o, turnPF'[i], peak'[i])
      /\ o.status = "thrashing" => heap[i].status = "thrashing"
  BY <1>4 DEF Counts
<1>6. job' \in [Runners -> MeterJobs] /\ \A d \in Runners : job'[d] = job[d] \/ job'[d] = Free
  BY <1>1 DEF MeterTyped
<1>7. UNCHANGED <<missions, latched, checking, events, missed>>
  OBVIOUS
<1>8. QED
  BY <1>4, <1>5, <1>6, <1>7, MetricsStep

\* What a call of the aggregator finds.
LEMMA MetricsFound ==
  ASSUME MeterInv, NEW m \in Metered, missions[m] # 0
  PROVE  \E i \in DOMAIN heap, r \in MetricsRecords, faults \in Nat, top \in Peaks :
           /\ i = missions[m] /\ r = heap[i] /\ faults = turnPF[i] /\ top = peak[i]
           /\ Counted(r, faults, top) /\ SumOf(r.turnPFs) \in Nat
           /\ turnPF = [turnPF EXCEPT ![i] = faults] /\ peak = [peak EXCEPT ![i] = top]
<1>1. MeterTyped /\ \A i \in DOMAIN heap : Counted(heap[i], turnPF[i], peak[i])
  BY DEF MeterInv
<1>2. PICK i \in DOMAIN heap : i = missions[m]
  BY <1>1, MeterFacts
<1>3. PICK r \in MetricsRecords, faults \in Nat, top \in Peaks : r = heap[i] /\ faults = turnPF[i] /\ top = peak[i]
  BY <1>1, MeterFacts
<1>4. SumOf(r.turnPFs) \in Nat
  BY <1>1, <1>3, MeterFacts, SumOfAppend
<1>5. turnPF = [turnPF EXCEPT ![i] = faults] /\ peak = [peak EXCEPT ![i] = top]
  BY <1>1, <1>3, MeterFacts DEF MeterTyped
<1>6. QED
  BY <1>1, <1>2, <1>3, <1>4, <1>5

LEMMA RecordPFStep ==
  ASSUME MeterInv, NEW m \in Metered, RecordPF(m), UNCHANGED <<latched, checking, job, events>>
  PROVE  MeterInv'
<1>1. missions[m] # 0 /\ UNCHANGED <<missions, latched, checking, job, events, missed>>
  BY DEF RecordPF, Update
<1>2. PICK i \in DOMAIN heap, r \in MetricsRecords, faults \in Nat, top \in Peaks :
           /\ i = missions[m] /\ r = heap[i] /\ faults = turnPF[i] /\ top = peak[i]
           /\ Counted(r, faults, top) /\ SumOf(r.turnPFs) \in Nat
           /\ turnPF = [turnPF EXCEPT ![i] = faults] /\ peak = [peak EXCEPT ![i] = top]
  BY <1>1, MetricsFound
<1>3. DEFINE o == [r EXCEPT !.pf = r.pf + 1]
<1>4. heap' = [heap EXCEPT ![i] = o] /\ turnPF' = [turnPF EXCEPT ![i] = faults + 1] /\ peak' = peak
  BY <1>2 DEF RecordPF, Update, Metrics
<1>5. /\ o \in MetricsRecords /\ o.mission = r.mission /\ o.status = r.status /\ o.pf = r.pf + 1
      /\ o.turnPFs = r.turnPFs /\ o.rejects = r.rejects /\ o.conflicts = r.conflicts /\ o.fails = r.fails
      /\ r.rejects \in Nat /\ r.conflicts \in Nat /\ r.pf \in Nat
  BY SMTT(40) DEF MetricsRecords
<1> HIDE DEF o
<1>6. Counted(o, faults + 1, top)
  BY <1>2, <1>5 DEF Counted
<1>7. top.fails \in Nat
  BY DEF Peaks
<1>8. Counts(i, o, faults + 1, top)
  BY <1>2, <1>4, <1>5, <1>6, <1>7 DEF Counts
<1>9. QED
  BY <1>1, <1>5, <1>8, CountStep

LEMMA RecordRejectStep ==
  ASSUME MeterInv, NEW m \in Metered, RecordReject(m) \/ RecordConflict(m) \/ RecordTestPass(m),
         UNCHANGED <<latched, checking, job, events>>
  PROVE  MeterInv'
<1>1. /\ missions[m] # 0 /\ UNCHANGED <<missions, latched, checking, job, events, missed>>
      /\ turnPF' = turnPF /\ peak' = peak
  BY DEF RecordReject, RecordConflict, RecordTestPass, Update, ghosts
<1>2. PICK i \in DOMAIN heap, r \in MetricsRecords, faults \in Nat, top \in Peaks :
           /\ i = missions[m] /\ r = heap[i] /\ faults = turnPF[i] /\ top = peak[i]
           /\ Counted(r, faults, top) /\ SumOf(r.turnPFs) \in Nat
           /\ turnPF = [turnPF EXCEPT ![i] = faults] /\ peak = [peak EXCEPT ![i] = top]
  BY <1>1, MetricsFound
<1>3. PICK o \in MetricsRecords :
        /\ heap' = [heap EXCEPT ![i] = o]
        /\ o.mission = r.mission /\ o.status = r.status /\ o.pf = r.pf /\ o.turnPFs = r.turnPFs
        /\ o.rejects >= r.rejects /\ o.conflicts >= r.conflicts /\ o.fails \in {r.fails, 0}
  <2>1. r.rejects \in Nat /\ r.conflicts \in Nat
    BY DEF MetricsRecords
  <2>2. CASE RecordReject(m)
    <3>1. DEFINE o == [r EXCEPT !.rejects = r.rejects + 1]
    <3>2. heap' = [heap EXCEPT ![i] = o]
      BY <1>2, <2>2 DEF RecordReject, Update, Metrics
    <3>3. /\ o \in MetricsRecords /\ o.mission = r.mission /\ o.status = r.status /\ o.pf = r.pf
          /\ o.turnPFs = r.turnPFs /\ o.rejects = r.rejects + 1 /\ o.conflicts = r.conflicts /\ o.fails = r.fails
      BY SMTT(40) DEF MetricsRecords
    <3> HIDE DEF o
    <3>4. o.rejects >= r.rejects /\ o.conflicts >= r.conflicts
      BY <2>1, <3>3
    <3>5. QED
      BY <3>2, <3>3, <3>4
  <2>3. CASE RecordConflict(m)
    <3>1. DEFINE o == [r EXCEPT !.conflicts = r.conflicts + 1]
    <3>2. heap' = [heap EXCEPT ![i] = o]
      BY <1>2, <2>3 DEF RecordConflict, Update, Metrics
    <3>3. /\ o \in MetricsRecords /\ o.mission = r.mission /\ o.status = r.status /\ o.pf = r.pf
          /\ o.turnPFs = r.turnPFs /\ o.rejects = r.rejects /\ o.conflicts = r.conflicts + 1 /\ o.fails = r.fails
      BY DEF MetricsRecords
    <3> HIDE DEF o
    <3>4. o.rejects >= r.rejects /\ o.conflicts >= r.conflicts
      BY <2>1, <3>3
    <3>5. QED
      BY <3>2, <3>3, <3>4
  <2>4. CASE RecordTestPass(m)
    <3>1. DEFINE o == [r EXCEPT !.fails = 0]
    <3>2. heap' = [heap EXCEPT ![i] = o]
      BY <1>2, <2>4 DEF RecordTestPass, Update, Metrics
    <3>3. /\ o \in MetricsRecords /\ o.mission = r.mission /\ o.status = r.status /\ o.pf = r.pf
          /\ o.turnPFs = r.turnPFs /\ o.rejects = r.rejects /\ o.conflicts = r.conflicts /\ o.fails = 0
      BY DEF MetricsRecords
    <3> HIDE DEF o
    <3>4. o.rejects >= r.rejects /\ o.conflicts >= r.conflicts
      BY <2>1, <3>3
    <3>5. QED
      BY <3>2, <3>3, <3>4
  <2>5. QED
    BY <2>2, <2>3, <2>4
<1>4. top.fails \in Nat /\ top.fails >= top.fails
  <2>1. top.fails \in Nat
    BY DEF Peaks
  <2>2. QED
    BY <2>1
<1>5. Counted(o, faults, top)
  <2>1. o.fails <= top.fails
    BY <1>2, <1>3, <1>4 DEF Counted
  <2>2. QED
    BY <1>2, <1>3, <2>1 DEF Counted
<1>6. Counts(i, o, faults, top)
  BY <1>1, <1>2, <1>3, <1>4, <1>5 DEF Counts
<1>7. QED
  BY <1>1, <1>6, CountStep

LEMMA RecordTestFailureStep ==
  ASSUME MeterInv, NEW m \in Metered, RecordTestFailure(m), UNCHANGED <<latched, checking, job, events>>
  PROVE  MeterInv'
<1>1. /\ missions[m] # 0 /\ UNCHANGED <<missions, latched, checking, job, events, missed>> /\ turnPF' = turnPF
  BY DEF RecordTestFailure, Update
<1>2. PICK i \in DOMAIN heap, r \in MetricsRecords, faults \in Nat, top \in Peaks :
           /\ i = missions[m] /\ r = heap[i] /\ faults = turnPF[i] /\ top = peak[i]
           /\ Counted(r, faults, top) /\ SumOf(r.turnPFs) \in Nat
           /\ turnPF = [turnPF EXCEPT ![i] = faults] /\ peak = [peak EXCEPT ![i] = top]
  BY <1>1, MetricsFound
<1>3. DEFINE o == [r EXCEPT !.fails = r.fails + 1]
<1>4. heap' = [heap EXCEPT ![i] = o]
  BY <1>2 DEF RecordTestFailure, Update, Metrics
<1>5. /\ o \in MetricsRecords /\ o.mission = r.mission /\ o.status = r.status /\ o.pf = r.pf
      /\ o.turnPFs = r.turnPFs /\ o.rejects = r.rejects /\ o.conflicts = r.conflicts /\ o.fails = r.fails + 1
      /\ r.rejects \in Nat /\ r.conflicts \in Nat /\ r.fails \in Nat
  <2>1. r.rejects \in Nat /\ r.conflicts \in Nat /\ r.fails \in Nat /\ r.fails + 1 \in Nat
    BY DEF MetricsRecords
  <2>2. o \in MetricsRecords
    BY <2>1 DEF MetricsRecords
  <2>3. /\ o.mission = r.mission /\ o.status = r.status /\ o.pf = r.pf /\ o.turnPFs = r.turnPFs
        /\ o.rejects = r.rejects /\ o.conflicts = r.conflicts /\ o.fails = r.fails + 1
    BY DEF MetricsRecords
  <2>4. QED
    BY <2>1, <2>2, <2>3
<1>6. heap'[i] = o
  BY <1>4, MeterFacts DEF MeterInv
<1> HIDE DEF o
<1> DEFINE f == IF top.fails > o.fails THEN top.fails ELSE o.fails
           t == [top EXCEPT !.fails = f]
<1>7. peak' = [peak EXCEPT ![i] = t]
  BY <1>2, <1>6 DEF RecordTestFailure
<1>8. top.fails \in Nat /\ o.fails \in Nat
  BY <1>5 DEF Peaks
<1>9. f \in Nat /\ f >= top.fails /\ o.fails <= f
  BY <1>8
<1> HIDE DEF f
<1>10. t \in Peaks /\ t.fails = f /\ t.streak = top.streak
  BY <1>9 DEF Peaks
<1> HIDE DEF t
<1>11. Counted(o, faults, t)
  BY <1>2, <1>5, <1>9, <1>10 DEF Counted
<1>12. Counts(i, o, faults, t)
  BY <1>1, <1>2, <1>4, <1>5, <1>7, <1>9, <1>10, <1>11 DEF Counts
<1>13. QED
  BY <1>1, <1>5, <1>10, <1>12, CountStep

\* The turn that ends is over the soft limit, or the streak begins anew behind it.
LEMMA EndTurnStep ==
  ASSUME MeterInv, NEW m \in Metered, EndTurn(m), UNCHANGED <<latched, checking, job, events>>
  PROVE  MeterInv'
<1>1. /\ missions[m] # 0 /\ UNCHANGED <<missions, latched, checking, job, events, missed>>
  BY DEF EndTurn, Update
<1>2. PICK i \in DOMAIN heap, r \in MetricsRecords, faults \in Nat, top \in Peaks :
           /\ i = missions[m] /\ r = heap[i] /\ faults = turnPF[i] /\ top = peak[i]
           /\ Counted(r, faults, top) /\ SumOf(r.turnPFs) \in Nat
           /\ turnPF = [turnPF EXCEPT ![i] = faults] /\ peak = [peak EXCEPT ![i] = top]
  BY <1>1, MetricsFound
<1>3. PICK q \in Seq(Nat) : q = r.turnPFs
  BY DEF MetricsRecords
<1>4. ThisTurn(r) = faults
  <2>1. r.pf \in Nat /\ SumOf(r.turnPFs) \in Nat /\ r.pf = SumOf(r.turnPFs) + faults
    BY <1>2 DEF Counted, MetricsRecords
  <2>2. PICK sum \in Nat : sum = SumOf(r.turnPFs)
    BY <2>1
  <2>3. r.pf - sum = faults
    BY <2>1, <2>2
  <2>4. QED
    BY <2>2, <2>3 DEF ThisTurn
<1>5. PICK streak \in Nat : streak = top.streak
  BY DEF Peaks
<1>6. DEFINE turns == Append(q, faults)
             o == [r EXCEPT !.turnPFs = turns]
             s == IF streak >= PFConsecutiveTurns THEN streak
                  ELSE IF faults >= PFSoftLimit THEN streak + 1 ELSE 0
             t == [top EXCEPT !.streak = s]
<1>7. turns \in Seq(Nat) /\ Len(turns) = Len(q) + 1 /\ turns[Len(q) + 1] = faults
      /\ (\A k \in 1 .. Len(q) : turns[k] = q[k]) /\ SumOf(turns) = SumOf(q) + faults
      /\ SumOf(turns) \in Nat
  <2>1. turns \in Seq(Nat) /\ Len(turns) = Len(q) + 1 /\ turns[Len(q) + 1] = faults
        /\ (\A k \in 1 .. Len(q) : turns[k] = q[k])
    OBVIOUS
  <2>2. SumOf(turns) = SumOf(q) + faults /\ SumOf(q) \in Nat
    BY SumOfAppend
  <2>3. QED
    BY <2>1, <2>2
<1>8. heap' = [heap EXCEPT ![i] = o]
  BY <1>2, <1>3, <1>4 DEF EndTurn, Update, Metrics
<1>9. turnPF' = [turnPF EXCEPT ![i] = 0]
  BY <1>2 DEF EndTurn
<1>10. peak' = [peak EXCEPT ![i] = t]
  BY <1>2, <1>5 DEF EndTurn
<1> HIDE DEF turns
<1>11. /\ o \in MetricsRecords /\ o.mission = r.mission /\ o.status = r.status /\ o.pf = r.pf
       /\ o.turnPFs = turns /\ o.rejects = r.rejects /\ o.conflicts = r.conflicts /\ o.fails = r.fails
       /\ r.rejects \in Nat /\ r.conflicts \in Nat /\ r.pf \in Nat
  BY <1>7 DEF MetricsRecords
<1> HIDE DEF o
<1>12. s \in Nat /\ (streak >= PFConsecutiveTurns => s >= PFConsecutiveTurns)
  OBVIOUS
<1>13. \/ s >= PFConsecutiveTurns
       \/ /\ s <= Len(turns)
          /\ s < Len(turns) => turns[Len(turns) - s] < PFSoftLimit
  <2>1. CASE streak >= PFConsecutiveTurns
    BY <2>1
  <2>2. CASE ~(streak >= PFConsecutiveTurns) /\ faults >= PFSoftLimit
    <3>1. s = streak + 1
      BY <2>2
    <3>2. streak <= Len(q) /\ (streak < Len(q) => q[Len(q) - streak] < PFSoftLimit)
      BY <1>2, <1>3, <1>5, <2>2 DEF Counted
    <3>3. Len(turns) - s = Len(q) - streak /\ s <= Len(turns)
      BY <1>7, <3>1, <3>2
    <3>4. ASSUME s < Len(turns) PROVE turns[Len(turns) - s] < PFSoftLimit
      <4>1. streak < Len(q)
        BY <1>7, <3>1, <3>4
      <4>2. Len(q) - streak \in 1 .. Len(q)
        BY <4>1
      <4>3. QED
        BY <1>7, <3>2, <3>3, <4>1, <4>2
    <3>5. QED
      BY <3>3, <3>4
  <2>3. CASE ~(streak >= PFConsecutiveTurns) /\ ~(faults >= PFSoftLimit)
    <3>1. s = 0 /\ faults < PFSoftLimit
      BY <2>3, MeterAssumption
    <3>2. Len(turns) - s = Len(q) + 1 /\ s <= Len(turns)
      BY <1>7, <3>1
    <3>3. QED
      BY <1>7, <3>1, <3>2
  <2>4. QED
    BY <2>1, <2>2, <2>3
<1> HIDE DEF s
<1>14. t \in Peaks /\ t.streak = s /\ t.fails = top.fails /\ top.fails \in Nat
  BY <1>12 DEF Peaks
<1> HIDE DEF t
<1>15. Counted(o, 0, t)
  <2>1. o.pf = SumOf(o.turnPFs) + 0
    BY <1>2, <1>3, <1>7, <1>11 DEF Counted
  <2>2. o.fails <= t.fails
    BY <1>2, <1>11, <1>14 DEF Counted
  <2>3. QED
    BY <1>11, <1>13, <1>14, <2>1, <2>2 DEF Counted
<1>16. Counts(i, o, 0, t)
  BY <1>2, <1>5, <1>8, <1>9, <1>10, <1>11, <1>12, <1>14, <1>15 DEF Counts
<1>17. QED
  BY <1>1, <1>11, <1>14, <1>16, CountStep

\* New metrics, behind all others.
LEMMA StartMissionStep ==
  ASSUME MeterInv, NEW m \in Metered, StartMission(m), UNCHANGED <<latched, checking, job, events>>
  PROVE  MeterInv'
<1>1. /\ MeterTyped /\ ThrashesOnce /\ MarkedIsLatched /\ LatchedForCause /\ NothingMissed
      /\ (\A i \in DOMAIN heap : Counted(heap[i], turnPF[i], peak[i]))
      /\ \A d \in Runners : CheckAt(job[d], d)
  BY DEF MeterInv
<1>2. PICK o \in MetricsRecords : o = NewMetrics(m)
  <2>1. <<>> \in Seq(Nat)
    OBVIOUS
  <2>2. QED
    BY <2>1 DEF NewMetrics, MetricsRecords
<1>3. PICK top \in Peaks : top = [streak |-> 0, fails |-> 0]
  BY DEF Peaks
<1>4. PICK q \in Seq(MetricsRecords) : q = heap
  BY <1>1 DEF MeterTyped
<1>5. /\ heap' = Append(q, o) /\ turnPF' = Append(turnPF, 0) /\ peak' = Append(peak, top)
      /\ missions' = [missions EXCEPT ![m] = Len(heap')] /\ missed' = missed
      /\ turnPF \in Seq(Nat) /\ peak \in Seq(Peaks) /\ Len(turnPF) = Len(q) /\ Len(peak) = Len(q)
  BY <1>1, <1>2, <1>3, <1>4 DEF StartMission, MeterTyped, Peaks
<1>6. /\ heap' \in Seq(MetricsRecords) /\ Len(heap') = Len(q) + 1 /\ DOMAIN heap' = 1 .. Len(q) + 1
      /\ heap'[Len(q) + 1] = o /\ \A i \in 1 .. Len(q) : heap'[i] = q[i]
  BY <1>5
<1>7. /\ turnPF' \in Seq(Nat) /\ Len(turnPF') = Len(q) + 1
      /\ turnPF'[Len(q) + 1] = 0 /\ \A i \in 1 .. Len(q) : turnPF'[i] = turnPF[i]
  BY <1>5
<1>8. /\ peak' \in Seq(Peaks) /\ Len(peak') = Len(q) + 1
      /\ peak'[Len(q) + 1] = top /\ \A i \in 1 .. Len(q) : peak'[i] = peak[i]
  BY <1>5
<1>9. /\ o.mission = m /\ o.status = "active" /\ o.turnPFs = <<>> /\ o.pf = 0 /\ o.fails = 0
      /\ top.streak = 0 /\ top.fails = 0
  BY <1>2, <1>3 DEF NewMetrics
<1>10. Len(q) \in Nat /\ DOMAIN q = 1 .. Len(q)
  OBVIOUS
<1>11. Grows
  <2>1. DOMAIN heap \subseteq DOMAIN heap'
    BY <1>4, <1>6, <1>10
  <2>2. ASSUME NEW i \in DOMAIN heap PROVE heap'[i] = heap[i] /\ (Reached(i) => Reached(i)')
    <3>1. heap'[i] = heap[i] /\ peak'[i] = peak[i]
      BY <1>4, <1>6, <1>8
    <3>2. QED
      BY <3>1 DEF Reached
  <2>3. QED
    BY <2>1, <2>2 DEF Grows
<1>12. Counted(o, 0, top)
  BY <1>9, SumOfEmpty, MeterAssumption DEF Counted
<1>13. \A i \in DOMAIN heap' : Counted(heap'[i], turnPF'[i], peak'[i])
  <2>1. ASSUME NEW i \in DOMAIN heap' PROVE Counted(heap'[i], turnPF'[i], peak'[i])
    <3>1. CASE i = Len(q) + 1
      BY <1>6, <1>7, <1>8, <1>12, <3>1
    <3>2. CASE i \in 1 .. Len(q)
      BY <1>1, <1>4, <1>6, <1>7, <1>8, <3>2
    <3>3. QED
      BY <1>6, <1>10, <3>1, <3>2
  <2>2. QED
    BY <2>1
<1>14. MeterTyped'
  <2>1. missions \in [Metered -> 0 .. Len(q)]
    BY <1>1, <1>4 DEF MeterTyped
  <2>2. missions' \in [Metered -> 0 .. Len(heap')] /\ missions'[m] = Len(q) + 1
        /\ \A other \in Metered \ {m} : missions'[other] = missions[other]
    BY <1>5, <1>6, <1>10, <2>1
  <2>3. ASSUME NEW other \in Metered, missions'[other] # 0 PROVE heap'[missions'[other]].mission = other
    <3>1. CASE other = m
      BY <1>6, <1>9, <2>2, <3>1
    <3>2. CASE other # m
      <4>1. missions[other] # 0 /\ heap[missions[other]].mission = other /\ missions[other] \in DOMAIN heap
        BY <1>1, <2>2, <2>3, <3>2, MeterFacts DEF MeterTyped
      <4>2. heap'[missions[other]].mission = other
        BY <1>11, <4>1 DEF Grows
      <4>3. QED
        BY <2>2, <3>2, <4>2
    <3>3. QED
      BY <3>1, <3>2
  <2>4. \A d \in Runners : job[d].at \in 0 .. Len(heap') /\ (job[d].call # "none" => job[d].at # 0)
    <3>1. \A d \in Runners : job[d].at \in 0 .. Len(q) /\ (job[d].call # "none" => job[d].at # 0)
      BY <1>1, <1>4 DEF MeterTyped
    <3>2. 0 .. Len(q) \subseteq 0 .. Len(heap')
      BY <1>6, <1>10
    <3>3. QED
      BY <3>1, <3>2
  <2>5. /\ latched' \subseteq Metered /\ checking' \subseteq Runners /\ job' \in [Runners -> MeterJobs]
        /\ events' \in [Metered -> [thrashing : Nat, plan : Plans \cup {<<>>}]] /\ job' = job
    BY <1>1 DEF MeterTyped
  <2>6. QED
    BY <1>6, <1>7, <1>8, <2>2, <2>3, <2>4, <2>5 DEF MeterTyped, Peaks
<1>15. MarkedIsLatched'
  <2>1. ASSUME NEW i \in DOMAIN heap', heap'[i].status = "thrashing" PROVE heap'[i].mission \in latched
    <3>1. CASE i = Len(q) + 1
      BY <1>6, <1>9, <2>1, <3>1
    <3>2. CASE i \in 1 .. Len(q)
      BY <1>1, <1>4, <1>6, <1>10, <2>1, <3>2 DEF MarkedIsLatched, ToSet
    <3>3. QED
      BY <1>6, <1>10, <3>1, <3>2
  <2>2. \A k \in Metered : events[k].plan # <<>> => k \in latched
    BY <1>1 DEF MarkedIsLatched
  <2>3. QED
    BY <2>1, <2>2 DEF MarkedIsLatched, ToSet
<1>16. LatchedForCause'
  BY <1>1, <1>11, CausesKept
<1>17. ThrashesOnce' /\ NothingMissed'
  BY <1>1, <1>5 DEF ThrashesOnce, NothingMissed
<1>18. ASSUME NEW d \in Runners PROVE CheckAt(job[d], d)'
  <2>1. PICK j \in MeterJobs : j = job[d]
    BY <1>1, MeterFacts
  <2>2. CheckAt(j, d) /\ (j.call # "none" => j.at \in DOMAIN heap)
    BY <1>1, <2>1, MeterFacts DEF MeterTyped
  <2>3. CheckAt(j, d)'
    BY <1>11, <2>2, ChecksKept
  <2>4. QED
    BY <2>1, <2>3
<1>19. QED
  BY <1>13, <1>14, <1>15, <1>16, <1>17, <1>18 DEF MeterInv

LEMMA RecordStep ==
  ASSUME MeterInv, NEW d \in Runners, Record(d)
  PROVE  MeterInv'
<1>1. PICK m \in Metered :
        \/ StartMission(m) \/ RecordPF(m) \/ RecordReject(m) \/ RecordConflict(m)
        \/ RecordTestFailure(m) \/ RecordTestPass(m) \/ EndTurn(m)
  BY DEF Record
<1>2. UNCHANGED <<latched, checking, job, events>>
  BY DEF Record
<1>3. QED
  BY <1>1, <1>2, StartMissionStep, RecordPFStep, RecordRejectStep, RecordTestFailureStep, EndTurnStep

LEMMA MeterStutter ==
  ASSUME MeterInv, UNCHANGED meterState
  PROVE  MeterInv'
<1>1. UNCHANGED <<heap, missions, latched, checking, job, events, turnPF, peak, missed>>
  BY DEF meterState, meterVars, ghosts
<1>2. MeterTyped' /\ ThrashesOnce' /\ MarkedIsLatched' /\ LatchedForCause' /\ NothingMissed'
  BY <1>1 DEF MeterInv, MeterTyped, ThrashesOnce, MarkedIsLatched, LatchedForCause, NothingMissed, Reached
<1>3. \A i \in DOMAIN heap' : Counted(heap'[i], turnPF'[i], peak'[i])
  BY <1>1 DEF MeterInv
<1>4. ASSUME NEW d \in Runners PROVE CheckAt(job[d], d)'
  <2>1. CheckAt(job[d], d)
    BY DEF MeterInv
  <2>2. QED
    BY <1>1, <2>1 DEF CheckAt, Due, Reached
<1>5. QED
  BY <1>2, <1>3, <1>4 DEF MeterInv

\* The metrics, the detector and the oracle keep the inductive invariant, whatever the
\* limits and however many goroutines run missions (meter.go:57-190, thrash.go:55-142).
THEOREM MetricsInvariant == MetricsSpec => []MeterInv
<1>1. MeterInit => MeterInv
  BY MeterInitHolds
<1>2. MeterInv /\ [MeterNext]_meterState => MeterInv'
  <2>1. SUFFICES ASSUME MeterInv, [MeterNext]_meterState PROVE MeterInv'
    OBVIOUS
  <2>2. CASE UNCHANGED meterState
    BY <2>1, <2>2, MeterStutter
  <2>3. ASSUME NEW d \in Runners,
               \/ Record(d) \/ BeginComplete(d) \/ EndComplete(d) \/ Get(d) \/ BeginCheck(d)
               \/ Detect(d) \/ Mark(d) \/ LogThrashing(d) \/ Escalate(d)
        PROVE  MeterInv'
    <3>1. Mark(d) => job[d].step = 5 \/ job[d].step = 6
      BY DEF Mark
    <3>2. QED
      BY <2>1, <2>3, <3>1, RecordStep, BeginCompleteStep, EndCompleteStep, GetStep, BeginCheckStep,
         DetectStep, LatchStep, StatusStep, LogThrashingStep, EscalateStep
  <2>4. QED
    BY <2>1, <2>2, <2>3 DEF MeterNext
<1>3. QED
  BY <1>1, <1>2, PTL DEF MetricsSpec

\* Thrashing is logged once for a mission at most, metrics that say it are of a latched
\* mission, a mission is latched only for a limit reached, and no check overlooks one that
\* rejects or conflicts had reached (thrash.go:29, 55-142).
THEOREM ThrashIsFound == MetricsSpec => []DetectsThrash
<1>1. MeterInv => DetectsThrash
  <2>1. SUFFICES ASSUME MeterInv PROVE DetectsThrash
    OBVIOUS
  <2>2. MeterTyped /\ ThrashesOnce /\ MarkedIsLatched /\ LatchedForCause /\ NothingMissed
    BY <2>1 DEF MeterInv
  <2>3. MeterTypeOK
    <3>1. ASSUME NEW o \in ToSet(heap)
          PROVE  /\ o.mission \in Metered /\ o.status \in {"active", "completed", "thrashing"}
                 /\ o.turnPFs \in Seq(Nat) /\ SumOf(o.turnPFs) <= o.pf
      <4>1. PICK i \in DOMAIN heap : o = heap[i]
        BY <3>1 DEF ToSet
      <4>2. o \in MetricsRecords /\ Counted(o, turnPF[i], peak[i]) /\ turnPF[i] \in Nat
        BY <2>1, <2>2, <4>1, MeterFacts DEF MeterInv
      <4>3. o.turnPFs \in Seq(Nat)
        BY <4>2 DEF MetricsRecords
      <4>4. SumOf(o.turnPFs) \in Nat
        BY <4>3, SumOfAppend
      <4>5. o.pf = SumOf(o.turnPFs) + turnPF[i]
        BY <4>2 DEF Counted
      <4>6. SumOf(o.turnPFs) <= o.pf
        BY <4>2, <4>4, <4>5
      <4>7. QED
        BY <4>2, <4>6 DEF MetricsRecords
    <3>2. \A d \in Runners : job[d].at \in 0 .. Len(heap) /\ job[d].step \in 0 .. 7
      BY <2>2 DEF MeterTyped, MeterJobs
    <3>3. QED
      BY <2>2, <3>1, <3>2 DEF MeterTyped, MeterTypeOK
  <2>4. QED
    BY <2>2, <2>3 DEF DetectsThrash
<1>2. QED
  BY <1>1, MetricsInvariant, PTL
-----------------------------------------------------------------------------
(* The check of an oracle's plan for cycles. *)

\* What an id may depend on, and a bound on how much.
Graph(deps, K) ==
  /\ IsFiniteSet(DOMAIN deps) /\ deps \in [DOMAIN deps -> Seq(DOMAIN deps)]
  /\ K \in Nat /\ \A id \in DOMAIN deps : Len(deps[id]) < K

White(color) == {id \in DOMAIN color : color[id] = "white"}
Colored(deps) == [cyclic : BOOLEAN, color : Colorings(deps)]
\* The functions that visit is one of: no id gets white again.
Visits(deps) ==
  {v \in [Colorings(deps) -> [Seq(DOMAIN deps) -> Colored(deps)]] :
     \A c \in Colorings(deps), s \in Seq(DOMAIN deps) : White(v[c][s].color) \subseteq White(c)}
\* What is left to do: a call has fewer white ids, or shorter lists.
Ahead(K, c, s) == Cardinality(White(c)) * K + Len(s)

IsVisit(deps, v) ==
  v = [c \in Colorings(deps) |-> [s \in Seq(DOMAIN deps) |-> VisitEach(deps, v, c, s)]]

LEMMA WhiteFacts ==
  ASSUME NEW deps, NEW K, Graph(deps, K), NEW c \in Colorings(deps)
  PROVE  /\ DOMAIN c = DOMAIN deps /\ IsFiniteSet(White(c)) /\ Cardinality(White(c)) \in Nat
         /\ \A b \in Colorings(deps) :
              White(b) \subseteq White(c) => Cardinality(White(b)) <= Cardinality(White(c))
         /\ \A b \in Colorings(deps), id \in White(c) :
              White(b) \subseteq White(c) \ {id} => Cardinality(White(b)) + 1 <= Cardinality(White(c))
<1>1. \A b \in Colorings(deps) : DOMAIN b = DOMAIN deps /\ White(b) \subseteq DOMAIN deps
  BY DEF Colorings, White
<1>2. IsFiniteSet(DOMAIN deps)
  BY DEF Graph
<1>3. \A b \in Colorings(deps) : IsFiniteSet(White(b)) /\ Cardinality(White(b)) \in Nat
  BY <1>1, <1>2, FS_Subset, FS_CardinalityType
<1>4. \A b \in Colorings(deps) :
        White(b) \subseteq White(c) => Cardinality(White(b)) <= Cardinality(White(c))
  BY <1>3, FS_Subset
<1>5. ASSUME NEW b \in Colorings(deps), NEW id \in White(c), White(b) \subseteq White(c) \ {id}
      PROVE  Cardinality(White(b)) + 1 <= Cardinality(White(c))
  <2>1. /\ IsFiniteSet(White(c) \ {id}) /\ Cardinality(White(c)) \in Nat
        /\ Cardinality(White(c) \ {id}) = Cardinality(White(c)) - 1
    BY <1>3, FS_RemoveElement
  <2>2. Cardinality(White(b)) <= Cardinality(White(c) \ {id})
    BY <1>5, <2>1, FS_Subset
  <2>3. Cardinality(White(b)) \in Nat
    BY <1>3
  <2>4. QED
    BY <2>1, <2>2, <2>3
<1>6. QED
  BY <1>1, <1>3, <1>4, <1>5

LEMMA AheadIs ==
  ASSUME NEW deps, NEW K, Graph(deps, K), NEW c \in Colorings(deps), NEW s \in Seq(DOMAIN deps)
  PROVE  Ahead(K, c, s) \in Nat
<1>1. Cardinality(White(c)) \in Nat /\ K \in Nat /\ Len(s) \in Nat
  BY WhiteFacts DEF Graph
<1>2. \A a, b \in Nat : a * b \in Nat
  OBVIOUS
<1>3. QED
  BY <1>1, <1>2 DEF Ahead

Gray(color, id) == [color EXCEPT ![id] = "gray"]
Black(color, id) == [color EXCEPT ![id] = "black"]

LEMMA Painted ==
  ASSUME NEW deps, NEW c \in Colorings(deps), NEW id \in DOMAIN deps
  PROVE  /\ Gray(c, id) \in Colorings(deps)
         /\ White(Gray(c, id)) = White(c) \ {id}
         /\ Black(c, id) \in Colorings(deps)
         /\ White(Black(c, id)) = White(c) \ {id}
  BY DEF Colorings, White, Gray, Black

\* The calls that a call makes have less left to do.
LEMMA LessAhead ==
  ASSUME NEW deps, NEW K, Graph(deps, K), NEW c \in Colorings(deps), NEW s \in Seq(DOMAIN deps),
         s # <<>>
  PROVE  /\ Head(s) \in DOMAIN deps /\ Tail(s) \in Seq(DOMAIN deps)
         /\ deps[Head(s)] \in Seq(DOMAIN deps)
         /\ \A b \in Colorings(deps) :
              White(b) \subseteq White(c) => Ahead(K, b, Tail(s)) < Ahead(K, c, s)
         /\ Head(s) \in White(c) =>
              Ahead(K, Gray(c, Head(s)), deps[Head(s)]) < Ahead(K, c, s)
<1>1. Head(s) \in DOMAIN deps /\ Tail(s) \in Seq(DOMAIN deps) /\ Len(Tail(s)) = Len(s) - 1
      /\ Len(s) \in Nat /\ Len(s) # 0
  OBVIOUS
<1>2. deps[Head(s)] \in Seq(DOMAIN deps) /\ Len(deps[Head(s)]) \in Nat /\ Len(deps[Head(s)]) < K /\ K \in Nat
  BY <1>1 DEF Graph
<1>3. \A m, n, k \in Nat : m <= n => m * k <= n * k /\ m * k \in Nat /\ n * k \in Nat
  OBVIOUS
<1>4. \A m, k \in Nat : (m + 1) * k = m * k + k
  OBVIOUS
<1>5. Cardinality(White(c)) \in Nat
  BY WhiteFacts
<1>6. ASSUME NEW b \in Colorings(deps), White(b) \subseteq White(c)
      PROVE  Ahead(K, b, Tail(s)) < Ahead(K, c, s)
  <2>1. Cardinality(White(b)) \in Nat /\ Cardinality(White(b)) <= Cardinality(White(c))
    BY <1>6, WhiteFacts
  <2>2. PICK x, y \in Nat : x = Cardinality(White(b)) * K /\ y = Cardinality(White(c)) * K /\ x <= y
    BY <1>2, <1>3, <1>5, <2>1
  <2>3. QED
    BY <1>1, <2>2 DEF Ahead
<1>7. ASSUME Head(s) \in White(c)
      PROVE  Ahead(K, Gray(c, Head(s)), deps[Head(s)]) < Ahead(K, c, s)
  <2>1. PICK b \in Colorings(deps) : b = Gray(c, Head(s)) /\ White(b) = White(c) \ {Head(s)}
    BY <1>1, Painted
  <2>2. PICK m \in Nat : m = Cardinality(White(b))
    BY WhiteFacts
  <2>3. PICK n \in Nat : n = Cardinality(White(c)) /\ m + 1 <= n
    BY <1>5, <1>7, <2>1, <2>2, WhiteFacts
  <2>4. m * K + K <= n * K /\ m * K \in Nat /\ n * K \in Nat
    BY <1>2, <1>3, <1>4, <2>3
  <2>5. PICK x, y \in Nat : x = m * K /\ y = n * K /\ x + K <= y
    BY <2>4
  <2>6. Ahead(K, b, deps[Head(s)]) = x + Len(deps[Head(s)]) /\ Ahead(K, c, s) = y + Len(s)
    BY <2>2, <2>3, <2>5 DEF Ahead
  <2>7. PICK l \in Nat : l = Len(deps[Head(s)]) /\ l < K
    BY <1>2
  <2>8. \A i, j, k \in Nat : i < K /\ j + K <= k => \A h \in Nat : j + i < k + h
    BY <1>2
  <2>9. x + l < y + Len(s)
    BY <1>1, <2>5, <2>7, <2>8
  <2>10. QED
    BY <2>1, <2>6, <2>7, <2>9
<1>8. QED
  BY <1>1, <1>2, <1>6, <1>7

\* A call's outcome depends on those of calls that have less left to do.
LEMMA OneVisit ==
  ASSUME NEW deps, NEW K, Graph(deps, K), NEW v \in Visits(deps),
         NEW c \in Colorings(deps), NEW s \in Seq(DOMAIN deps)
  PROVE  /\ VisitEach(deps, v, c, s) \in Colored(deps)
         /\ White(VisitEach(deps, v, c, s).color) \subseteq White(c)
         /\ \A u :
              (\A b \in Colorings(deps), t \in Seq(DOMAIN deps) :
                 Ahead(K, b, t) < Ahead(K, c, s) => u[b][t] = v[b][t])
              => VisitEach(deps, u, c, s) = VisitEach(deps, v, c, s)
<1>1. CASE s = <<>>
  BY <1>1 DEF VisitEach, Colored
<1>2. CASE s # <<>>
  <2>1. PICK id \in DOMAIN deps : id = Head(s)
    BY <1>2, LessAhead
  <2>2. PICK t \in Seq(DOMAIN deps) : t = Tail(s)
    BY <1>2, LessAhead
  <2>3. PICK g \in Colorings(deps) : g = Gray(c, id) /\ White(g) = White(c) \ {id}
    BY Painted
  <2>4. PICK d \in Seq(DOMAIN deps) : d = deps[id]
    BY <2>1, <1>2, LessAhead
  <2>5. \A u \in Visits(deps), b \in Colorings(deps), q \in Seq(DOMAIN deps) :
          u[b][q] \in Colored(deps) /\ White(u[b][q].color) \subseteq White(b)
    BY DEF Visits
  <2>6. \A o \in Colored(deps) : o.cyclic \in BOOLEAN /\ o.color \in Colorings(deps)
    BY DEF Colored
  <2>7. c[id] \in {"white", "gray", "black"} /\ (c[id] = "white" <=> id \in White(c))
    BY DEF Colorings, White
  <2>8. \A u : VisitEach(deps, u, c, s) =
          CASE c[id] = "gray" -> [cyclic |-> TRUE, color |-> c]
            [] c[id] = "black" -> u[c][t]
            [] c[id] = "white" ->
                 IF u[g][d].cyclic THEN u[g][d]
                 ELSE u[Black(u[g][d].color, id)][t]
    BY <1>2, <2>1, <2>2, <2>3, <2>4 DEF VisitEach, Gray, Black
  <2>9. CASE c[id] = "gray"
    <3>1. \A u : VisitEach(deps, u, c, s) = [cyclic |-> TRUE, color |-> c]
      BY <2>8, <2>9
    <3>2. [cyclic |-> TRUE, color |-> c] \in Colored(deps)
      BY Zenon DEF Colored
    <3>3. [cyclic |-> TRUE, color |-> c].color = c
      OBVIOUS
    <3>4. QED
      BY <3>1, <3>2, <3>3, Zenon
  <2>10. CASE c[id] = "black"
    <3>1. \A u : VisitEach(deps, u, c, s) = u[c][t]
      BY <2>8, <2>10
    <3>2. Ahead(K, c, t) < Ahead(K, c, s)
      BY <1>2, <2>2, LessAhead
    <3>3. QED
      BY <2>5, <3>1, <3>2
  <2>11. CASE c[id] = "white"
    <3>1. \A u : VisitEach(deps, u, c, s) = IF u[g][d].cyclic THEN u[g][d]
                                            ELSE u[Black(u[g][d].color, id)][t]
      BY <2>8, <2>11
    <3>2. Ahead(K, g, d) < Ahead(K, c, s)
      BY <1>2, <2>1, <2>3, <2>4, <2>7, <2>11, LessAhead
    <3>3. v[g][d] \in Colored(deps) /\ White(v[g][d].color) \subseteq White(c)
      BY <2>3, <2>5
    <3>4. PICK b \in Colorings(deps) : b = Black(v[g][d].color, id) /\ White(b) \subseteq White(c)
      <4>1. PICK e \in Colorings(deps) : e = v[g][d].color
        BY <2>6, <3>3
      <4>2. /\ Black(e, id) \in Colorings(deps)
            /\ White(Black(e, id)) \subseteq White(e)
        BY Painted
      <4>3. QED
        BY <3>3, <4>1, <4>2, Zenon
    <3>5. Ahead(K, b, t) < Ahead(K, c, s)
      BY <1>2, <2>2, <3>4, LessAhead
    <3>6. VisitEach(deps, v, c, s) = IF v[g][d].cyclic THEN v[g][d] ELSE v[b][t]
      BY <3>1, <3>4
    <3>7. v[b][t] \in Colored(deps) /\ White(v[b][t].color) \subseteq White(c)
      BY <2>5, <3>4
    <3>8. ASSUME NEW u,
                 \A a \in Colorings(deps), q \in Seq(DOMAIN deps) :
                   Ahead(K, a, q) < Ahead(K, c, s) => u[a][q] = v[a][q]
          PROVE  VisitEach(deps, u, c, s) = VisitEach(deps, v, c, s)
      <4>1. u[g][d] = v[g][d] /\ u[b][t] = v[b][t]
        BY <3>2, <3>5, <3>8
      <4>2. QED
        BY <3>1, <3>4, <3>6, <4>1
    <3>9. QED
      BY <3>3, <3>6, <3>7, <3>8
  <2>12. QED
    BY <2>7, <2>9, <2>10, <2>11
<1>3. QED
  BY <1>1, <1>2

\* A visit as far as n is left.
Reaching(deps, K, n, v) ==
  /\ v \in Visits(deps)
  /\ \A c \in Colorings(deps), s \in Seq(DOMAIN deps) :
       Ahead(K, c, s) < n => v[c][s] = VisitEach(deps, v, c, s)

LEMMA VisitReaches ==
  ASSUME NEW deps, NEW K, Graph(deps, K), NEW max \in Nat
  PROVE  \E v : Reaching(deps, K, max, v)
<1> DEFINE C == Colorings(deps)
           S == Seq(DOMAIN deps)
           bad == {n \in Nat : ~ \E v : Reaching(deps, K, n, v)}
<1>1. \A c \in C, s \in S : Ahead(K, c, s) \in Nat
  BY AheadIs
<1>2. SUFFICES ASSUME bad # {} PROVE FALSE
  OBVIOUS
<1>3. PICK n \in bad : \A m \in bad : n <= m
  <2>1. bad \subseteq Nat
    OBVIOUS
  <2>2. QED
    BY <1>2, <2>1, LeastOf
<1>4. n \in Nat /\ ~ \E v : Reaching(deps, K, n, v)
  OBVIOUS
<1>5. CASE n = 0
  <2>1. DEFINE o(c) == [cyclic |-> TRUE, color |-> c]
               v == [c \in C |-> [s \in S |-> o(c)]]
  <2>2. \A c \in C : o(c) \in Colored(deps)
    BY Zenon DEF Colored
  <2>3. \A c \in C : o(c).color = c
    OBVIOUS
  <2> HIDE DEF o
  <2>4. v \in [C -> [S -> Colored(deps)]] /\ \A c \in C, s \in S : v[c][s] = o(c)
    BY <2>2
  <2> HIDE DEF v
  <2>5. v \in Visits(deps)
    BY <2>3, <2>4 DEF Visits
  <2>6. Reaching(deps, K, n, v)
    BY <1>1, <1>5, <2>5 DEF Reaching
  <2>7. QED
    BY <1>4, <2>6
<1>6. CASE n # 0
  <2>1. n - 1 \in Nat /\ n - 1 < n
    BY <1>4, <1>6
  <2>2. n - 1 \notin bad
    <3>1. SUFFICES ASSUME n - 1 \in bad PROVE FALSE
      OBVIOUS
    <3>2. n <= n - 1
      BY <1>3, <3>1
    <3>3. QED
      BY <1>4, <2>1, <3>2
  <2>3. PICK v : Reaching(deps, K, n - 1, v)
    BY <2>1, <2>2
  <2>4. /\ v \in Visits(deps)
        /\ \A c \in C, s \in S : Ahead(K, c, s) < n - 1 => v[c][s] = VisitEach(deps, v, c, s)
    BY <2>3 DEF Reaching
  <2>5. DEFINE w == [c \in C |-> [s \in S |-> VisitEach(deps, v, c, s)]]
  <2>6. \A c \in C, s \in S : /\ VisitEach(deps, v, c, s) \in Colored(deps)
                              /\ White(VisitEach(deps, v, c, s).color) \subseteq White(c)
    BY <2>4, OneVisit
  <2>7. w \in [C -> [S -> Colored(deps)]] /\ \A c \in C, s \in S : w[c][s] = VisitEach(deps, v, c, s)
    BY <2>6
  <2> HIDE DEF w
  <2>8. w \in Visits(deps)
    BY <2>6, <2>7 DEF Visits
  <2>9. ASSUME NEW c \in C, NEW s \in S, Ahead(K, c, s) < n
        PROVE  w[c][s] = VisitEach(deps, w, c, s)
    <3>1. \A b \in C, t \in S : Ahead(K, b, t) < Ahead(K, c, s) => w[b][t] = v[b][t]
      <4>1. SUFFICES ASSUME NEW b \in C, NEW t \in S, Ahead(K, b, t) < Ahead(K, c, s)
                     PROVE  w[b][t] = v[b][t]
        OBVIOUS
      <4>2. Ahead(K, b, t) \in Nat /\ Ahead(K, c, s) \in Nat
        BY <1>1
      <4>3. Ahead(K, b, t) < n - 1
        BY <1>4, <2>9, <4>1, <4>2
      <4>4. QED
        BY <2>4, <2>7, <4>3
    <3>2. VisitEach(deps, w, c, s) = VisitEach(deps, v, c, s)
      BY <2>4, <3>1, OneVisit
    <3>3. QED
      BY <2>7, <3>2
  <2>10. Reaching(deps, K, n, w)
    BY <2>8, <2>9 DEF Reaching
  <2>11. QED
    BY <1>4, <2>10
<1>7. QED
  BY <1>5, <1>6

\* What two visits say as far as both reach; the second may be of any kind.
LEMMA VisitsAgree ==
  ASSUME NEW deps, NEW K, Graph(deps, K), NEW n \in Nat, NEW v, Reaching(deps, K, n, v), NEW u,
         \A c \in Colorings(deps), s \in Seq(DOMAIN deps) :
           Ahead(K, c, s) < n => u[c][s] = VisitEach(deps, u, c, s)
  PROVE  \A c \in Colorings(deps), s \in Seq(DOMAIN deps) : Ahead(K, c, s) < n => u[c][s] = v[c][s]
<1> DEFINE C == Colorings(deps)
           S == Seq(DOMAIN deps)
           bad == {m \in Nat : \E c \in C, s \in S : m = Ahead(K, c, s) /\ m < n /\ u[c][s] # v[c][s]}
<1>1. \A c \in C, s \in S : Ahead(K, c, s) \in Nat
  BY AheadIs
<1>2. CASE bad = {}
  <2>1. ASSUME NEW c \in C, NEW s \in S, Ahead(K, c, s) < n PROVE u[c][s] = v[c][s]
    <3>1. Ahead(K, c, s) \notin bad
      BY <1>2
    <3>2. QED
      BY <1>1, <2>1, <3>1
  <2>2. QED
    BY <2>1
<1>3. CASE bad # {}
  <2>1. PICK m \in bad : \A k \in bad : m <= k
    <3>1. bad \subseteq Nat
      OBVIOUS
    <3>2. QED
      BY <1>3, <3>1, LeastOf
  <2>2. PICK c \in C, s \in S : m = Ahead(K, c, s) /\ m < n /\ u[c][s] # v[c][s]
    BY <2>1
  <2>3. ASSUME NEW b \in C, NEW t \in S, Ahead(K, b, t) < Ahead(K, c, s) PROVE u[b][t] = v[b][t]
    <3>1. Ahead(K, b, t) \in Nat /\ m \in Nat /\ Ahead(K, b, t) < m /\ Ahead(K, b, t) < n
      BY <1>1, <2>2, <2>3
    <3>2. Ahead(K, b, t) \notin bad
      <4>1. SUFFICES ASSUME Ahead(K, b, t) \in bad PROVE FALSE
        OBVIOUS
      <4>2. m <= Ahead(K, b, t)
        BY <2>1, <4>1
      <4>3. QED
        BY <3>1, <4>2
    <3>3. QED
      BY <3>1, <3>2
  <2>4. v \in Visits(deps) /\ v[c][s] = VisitEach(deps, v, c, s)
    BY <2>2 DEF Reaching
  <2>5. VisitEach(deps, u, c, s) = VisitEach(deps, v, c, s)
    BY <2>3, <2>4, OneVisit
  <2>6. u[c][s] = VisitEach(deps, u, c, s)
    BY <2>2
  <2>7. QED
    BY <2>2, <2>4, <2>5, <2>6
<1>4. QED
  BY <1>2, <1>3

LEMMA VisitExists ==
  ASSUME NEW deps, NEW K, Graph(deps, K)
  PROVE  \E v \in Visits(deps) : IsVisit(deps, v)
<1> DEFINE C == Colorings(deps)
           S == Seq(DOMAIN deps)
           upTo(n) == CHOOSE v : Reaching(deps, K, n, v)
           v == [c \in C |-> [s \in S |-> upTo(Ahead(K, c, s) + 1)[c][s]]]
<1>1. \A c \in C, s \in S : Ahead(K, c, s) \in Nat
  BY AheadIs
<1>2. \A n \in Nat : Reaching(deps, K, n, upTo(n))
  BY VisitReaches
<1> HIDE DEF upTo
<1>3. \A n \in Nat : upTo(n) \in Visits(deps)
  BY <1>2 DEF Reaching
<1>4. \A n \in Nat, c \in C, s \in S : /\ upTo(n)[c][s] \in Colored(deps)
                                       /\ White(upTo(n)[c][s].color) \subseteq White(c)
  BY <1>3 DEF Visits
<1>5. \A c \in C, s \in S : Ahead(K, c, s) + 1 \in Nat
  BY <1>1
<1>6. /\ v \in [C -> [S -> Colored(deps)]]
      /\ \A c \in C, s \in S : v[c][s] = upTo(Ahead(K, c, s) + 1)[c][s]
  BY <1>4, <1>5
<1> HIDE DEF v
<1>7. v \in Visits(deps)
  BY <1>4, <1>5, <1>6 DEF Visits
<1>8. ASSUME NEW c \in C, NEW s \in S PROVE v[c][s] = VisitEach(deps, v, c, s)
  <2>1. PICK n \in Nat : n = Ahead(K, c, s) + 1 /\ Ahead(K, c, s) < n
    BY <1>1
  <2>2. upTo(n)[c][s] = VisitEach(deps, upTo(n), c, s)
    BY <1>2, <2>1 DEF Reaching
  <2>3. ASSUME NEW b \in C, NEW t \in S, Ahead(K, b, t) < Ahead(K, c, s) PROVE v[b][t] = upTo(n)[b][t]
    <3>1. PICK m \in Nat : m = Ahead(K, b, t) + 1 /\ Ahead(K, b, t) < m /\ m < n
      BY <1>1, <2>1, <2>3
    <3>2. \A a \in C, q \in S : Ahead(K, a, q) < m => Ahead(K, a, q) < n
      BY <1>1, <3>1, SMTT(40)
    <3>3. \A a \in C, q \in S : Ahead(K, a, q) < m => upTo(n)[a][q] = VisitEach(deps, upTo(n), a, q)
      BY <1>2, <3>2 DEF Reaching
    <3>4. Reaching(deps, K, m, upTo(m))
      BY <1>2
    <3>5. \A a \in C, q \in S : Ahead(K, a, q) < m => upTo(n)[a][q] = upTo(m)[a][q]
      BY <3>3, <3>4, VisitsAgree
    <3>6. QED
      BY <1>6, <3>1, <3>5
  <2>4. VisitEach(deps, v, c, s) = VisitEach(deps, upTo(n), c, s)
    BY <1>3, <2>1, <2>3, OneVisit
  <2>5. QED
    BY <1>6, <2>1, <2>2, <2>4
<1>9. v = [c \in C |-> [s \in S |-> VisitEach(deps, v, c, s)]]
  <2>1. \A c \in C : v[c] = [s \in S |-> VisitEach(deps, v, c, s)]
    BY <1>6, <1>8
  <2>2. QED
    BY <1>6, <2>1
<1>10. QED
  BY <1>7, <1>9 DEF IsVisit

\* The function visit is what the loop makes of it.
LEMMA VisitedIs ==
  ASSUME NEW deps, NEW K, Graph(deps, K)
  PROVE  /\ Visited(deps) \in Visits(deps)
         /\ \A c \in Colorings(deps), s \in Seq(DOMAIN deps) :
              Visited(deps)[c][s] = VisitEach(deps, Visited(deps), c, s)
<1> DEFINE C == Colorings(deps)
           S == Seq(DOMAIN deps)
<1>1. PICK v \in Visits(deps) : IsVisit(deps, v)
  BY VisitExists
<1>2. PICK u : u = CHOOSE f : IsVisit(deps, f)
  OBVIOUS
<1>3. Visited(deps) = u
  BY <1>2 DEF Visited, IsVisit
<1>4. IsVisit(deps, u)
  BY <1>1, <1>2
<1>5. \A f : IsVisit(deps, f) =>
        /\ DOMAIN f = C /\ \A c \in C : DOMAIN f[c] = S /\ f[c] = [s \in S |-> f[c][s]]
        /\ f = [c \in C |-> f[c]]
        /\ \A c \in C, s \in S : f[c][s] = VisitEach(deps, f, c, s)
  BY DEF IsVisit
<1>6. \A c \in C, s \in S : u[c][s] = v[c][s]
  <2>1. SUFFICES ASSUME NEW c \in C, NEW s \in S PROVE u[c][s] = v[c][s]
    OBVIOUS
  <2>2. PICK n \in Nat : n = Ahead(K, c, s) + 1 /\ Ahead(K, c, s) < n
    BY AheadIs
  <2>3. Reaching(deps, K, n, v)
    BY <1>1, <1>5 DEF Reaching
  <2>4. \A b \in C, t \in S : Ahead(K, b, t) < n => u[b][t] = VisitEach(deps, u, b, t)
    BY <1>4, <1>5
  <2>5. \A b \in C, t \in S : Ahead(K, b, t) < n => u[b][t] = v[b][t]
    BY <2>3, <2>4, VisitsAgree
  <2>6. QED
    BY <2>2, <2>5
<1>7. u = v
  <2>1. ASSUME NEW c \in C PROVE u[c] = v[c]
    <3>1. u[c] = [s \in S |-> u[c][s]] /\ v[c] = [s \in S |-> v[c][s]]
      BY <1>1, <1>4, <1>5
    <3>2. \A s \in S : u[c][s] = v[c][s]
      BY <1>6
    <3> HIDE DEF S
    <3>3. QED
      BY <3>1, <3>2, Zenon
  <2>2. QED
    BY <1>1, <1>4, <1>5, <2>1
<1>8. QED
  BY <1>1, <1>3, <1>5, <1>7

\* The ids that are done with, in an order in which each comes after what it depends on.
Done(color) == {id \in DOMAIN color : color[id] = "black"}
InOrder(deps, color, rank) ==
  /\ rank \in [Done(color) -> 1 .. Cardinality(Done(color))]
  /\ \A id \in Done(color) : \A d \in ToSet(deps[id]) : d \in Done(color) /\ rank[d] < rank[id]
Ranked(deps, color) == \E rank : InOrder(deps, color, rank)

\* What visits without a cycle make of the colors.
Leaves(deps, c, s, after) ==
  /\ \A id \in DOMAIN deps : /\ c[id] = "black" => after[id] = "black"
                             /\ c[id] = "gray" <=> after[id] = "gray"
  /\ \A id \in ToSet(s) : after[id] = "black"
  /\ Ranked(deps, c) => Ranked(deps, after)

LEMMA RankedMore ==
  ASSUME NEW deps, NEW K, Graph(deps, K), NEW c \in Colorings(deps), Ranked(deps, c),
         NEW id \in DOMAIN deps, c[id] # "black", \A d \in ToSet(deps[id]) : d \in Done(c)
  PROVE  Ranked(deps, Black(c, id))
<1>1. Done(c) \subseteq DOMAIN deps /\ id \notin Done(c) /\ Done(Black(c, id)) = Done(c) \cup {id}
  BY DEF Colorings, Done, Black
<1>2. PICK n \in Nat : n = Cardinality(Done(c)) /\ n + 1 = Cardinality(Done(c) \cup {id})
  <2>1. IsFiniteSet(Done(c))
    BY <1>1, FS_Subset DEF Graph
  <2>2. Cardinality(Done(c)) \in Nat /\ Cardinality(Done(c) \cup {id}) = Cardinality(Done(c)) + 1
    BY <1>1, <2>1, FS_CardinalityType, FS_AddElement
  <2>3. QED
    BY <2>2
<1>3. PICK rank : InOrder(deps, c, rank)
  BY DEF Ranked
<1>4. PICK S : S = Done(c)
  OBVIOUS
<1>5. /\ rank \in [S -> 1 .. n]
      /\ \A x \in S : \A d \in ToSet(deps[x]) : d \in S /\ rank[d] < rank[x]
  BY <1>2, <1>3, <1>4 DEF InOrder
<1>6. DEFINE more == [x \in S \cup {id} |-> IF x = id THEN n + 1 ELSE rank[x]]
<1>7. \A x \in S : rank[x] \in 1 .. n + 1 /\ rank[x] < n + 1 /\ x # id
  BY <1>1, <1>4, <1>5
<1>8. more \in [S \cup {id} -> 1 .. n + 1] /\ more[id] = n + 1 /\ \A x \in S : more[x] = rank[x]
  BY <1>7
<1> HIDE DEF more
<1>9. \A x \in S \cup {id} : \A d \in ToSet(deps[x]) : d \in S \cup {id} /\ more[d] < more[x]
  BY <1>4, <1>5, <1>7, <1>8
<1>10. InOrder(deps, Black(c, id), more)
  BY <1>1, <1>2, <1>4, <1>8, <1>9 DEF InOrder
<1>11. QED
  BY <1>10 DEF Ranked

LEMMA OneVisitLeaves ==
  ASSUME NEW deps, NEW K, Graph(deps, K), NEW v \in Visits(deps),
         NEW c \in Colorings(deps), NEW s \in Seq(DOMAIN deps),
         \A b \in Colorings(deps), t \in Seq(DOMAIN deps) :
           Ahead(K, b, t) < Ahead(K, c, s) /\ ~v[b][t].cyclic => Leaves(deps, b, t, v[b][t].color),
         ~VisitEach(deps, v, c, s).cyclic
  PROVE  Leaves(deps, c, s, VisitEach(deps, v, c, s).color)
<1>1. CASE s = <<>>
  <2>1. VisitEach(deps, v, c, s).color = c /\ ToSet(s) = {}
    BY <1>1 DEF VisitEach, ToSet
  <2>2. QED
    BY <2>1 DEF Leaves
<1>2. CASE s # <<>>
  <2>1. PICK id \in DOMAIN deps : id = Head(s)
    BY <1>2, LessAhead
  <2>2. PICK t \in Seq(DOMAIN deps) : t = Tail(s)
    BY <1>2, LessAhead
  <2>3. PICK g \in Colorings(deps) : g = Gray(c, id) /\ White(g) = White(c) \ {id}
    BY Painted
  <2>4. PICK d \in Seq(DOMAIN deps) : d = deps[id]
    BY <2>1, <1>2, LessAhead
  <2>5. ToSet(s) = {id} \cup ToSet(t)
    <3>1. Len(s) \in Nat \ {0} /\ Len(t) = Len(s) - 1 /\ s[1] = id /\ \A i \in 1 .. Len(t) : t[i] = s[i + 1]
      BY <1>2, <2>1, <2>2
    <3>2. \A i \in 1 .. Len(s) : i = 1 \/ i - 1 \in 1 .. Len(t)
      BY <3>1
    <3>3. \A i \in 1 .. Len(t) : i + 1 \in 1 .. Len(s)
      BY <3>1
    <3>4. \A i \in 1 .. Len(s) : s[i] \in {id} \cup ToSet(t)
      <4>1. SUFFICES ASSUME NEW i \in 1 .. Len(s), i # 1 PROVE s[i] \in ToSet(t)
        BY <3>1
      <4>2. i - 1 \in 1 .. Len(t) /\ s[i] = t[i - 1]
        BY <3>1, <3>2, <4>1
      <4>3. QED
        BY <4>2 DEF ToSet
    <3>5. 1 \in 1 .. Len(s)
      BY <3>1
    <3>6. DOMAIN s = 1 .. Len(s) /\ DOMAIN t = 1 .. Len(t)
      OBVIOUS
    <3>7. id \in ToSet(s) /\ ToSet(t) \subseteq ToSet(s)
      BY <3>1, <3>3, <3>5, <3>6 DEF ToSet
    <3>8. ToSet(s) \subseteq {id} \cup ToSet(t)
      BY <3>4, <3>6 DEF ToSet
    <3>9. QED
      BY <3>7, <3>8
  <2>6. \A b \in Colorings(deps), q \in Seq(DOMAIN deps) :
          v[b][q].color \in Colorings(deps) /\ White(v[b][q].color) \subseteq White(b)
    <3>1. \A b \in Colorings(deps), q \in Seq(DOMAIN deps) :
            v[b][q] \in Colored(deps) /\ White(v[b][q].color) \subseteq White(b)
      BY DEF Visits
    <3>2. \A o \in Colored(deps) : o.color \in Colorings(deps)
      BY SMTT(40) DEF Colored
    <3>3. QED
      BY <3>1, <3>2
  <2>7. c[id] \in {"white", "gray", "black"} /\ (c[id] = "white" <=> id \in White(c))
    BY SMTT(40) DEF Colorings, White
  <2>8. VisitEach(deps, v, c, s) =
          CASE c[id] = "gray" -> [cyclic |-> TRUE, color |-> c]
            [] c[id] = "black" -> v[c][t]
            [] c[id] = "white" ->
                 IF v[g][d].cyclic THEN v[g][d] ELSE v[Black(v[g][d].color, id)][t]
    BY <1>2, <2>1, <2>2, <2>3, <2>4 DEF VisitEach, Gray, Black
  <2>9. CASE c[id] = "gray"
    <3>1. VisitEach(deps, v, c, s) = [cyclic |-> TRUE, color |-> c]
      BY <2>8, <2>9
    <3>2. QED
      BY <3>1
  <2>10. CASE c[id] = "black"
    <3>1. VisitEach(deps, v, c, s) = v[c][t]
      BY <2>8, <2>10
    <3>2. Ahead(K, c, t) < Ahead(K, c, s)
      BY <1>2, <2>2, LessAhead
    <3>3. Leaves(deps, c, t, v[c][t].color)
      BY <3>1, <3>2
    <3>4. QED
      BY <2>5, <2>10, <3>1, <3>3 DEF Leaves
  <2>11. CASE c[id] = "white"
    <3>1. VisitEach(deps, v, c, s) =
            IF v[g][d].cyclic THEN v[g][d] ELSE v[Black(v[g][d].color, id)][t]
      BY <2>8, <2>11
    <3>2. Ahead(K, g, d) < Ahead(K, c, s)
      BY <1>2, <2>1, <2>3, <2>4, <2>7, <2>11, LessAhead
    <3>3. PICK e \in Colorings(deps) : e = v[g][d].color /\ White(e) \subseteq White(c)
      BY <2>3, <2>6
    <3>4. ~v[g][d].cyclic /\ VisitEach(deps, v, c, s) = v[Black(e, id)][t]
      BY <3>1, <3>3
    <3>5. PICK b \in Colorings(deps) : b = Black(e, id) /\ White(b) \subseteq White(c)
      BY <3>3, Painted
    <3>6. Ahead(K, b, t) < Ahead(K, c, s)
      BY <1>2, <2>2, <3>5, LessAhead
    <3>7. PICK r \in Colorings(deps) : r = v[b][t].color /\ r = VisitEach(deps, v, c, s).color
      BY <2>6, <3>4, <3>5
    <3>8. Leaves(deps, g, d, e)
      BY <3>2, <3>3, <3>4
    <3>9. Leaves(deps, b, t, r)
      BY <3>4, <3>5, <3>6, <3>7
    <3>10. /\ \A x \in DOMAIN deps : x # id => g[x] = c[x] /\ b[x] = e[x]
           /\ g[id] = "gray" /\ b[id] = "black"
           /\ DOMAIN c = DOMAIN deps /\ DOMAIN g = DOMAIN deps /\ DOMAIN e = DOMAIN deps
      BY <2>3, <3>5 DEF Colorings, Gray, Black
    <3>11. ASSUME NEW x \in DOMAIN deps
           PROVE  /\ c[x] = "black" => r[x] = "black"
                  /\ c[x] = "gray" <=> r[x] = "gray"
      BY <2>11, <3>8, <3>9, <3>10 DEF Leaves
    <3>12. \A x \in ToSet(s) : r[x] = "black"
      BY <2>5, <3>9, <3>10 DEF Leaves
    <3>13. ASSUME Ranked(deps, c) PROVE Ranked(deps, r)
      <4>1. Done(g) = Done(c)
        BY <2>11, <3>10 DEF Done
      <4>2. Ranked(deps, g)
        BY <3>13, <4>1 DEF Ranked, InOrder
      <4>3. Ranked(deps, e) /\ e[id] # "black" /\ \A x \in ToSet(deps[id]) : e[x] = "black"
        BY <2>4, <3>8, <3>10, <4>2 DEF Leaves
      <4>4. \A x \in ToSet(deps[id]) : x \in Done(e)
        <5>1. \A x \in ToSet(d) : x \in DOMAIN deps
          BY DEF ToSet
        <5>2. QED
          BY <2>4, <3>10, <4>3, <5>1 DEF Done
      <4>5. Ranked(deps, b)
        BY <3>5, <4>3, <4>4, RankedMore
      <4>6. QED
        BY <3>9, <4>5 DEF Leaves
    <3>14. QED
      BY <3>7, <3>11, <3>12, <3>13 DEF Leaves
  <2>12. QED
    BY <2>7, <2>9, <2>10, <2>11
<1>3. QED
  BY <1>1, <1>2

LEMMA VisitLeaves ==
  ASSUME NEW deps, NEW K, Graph(deps, K), NEW c \in Colorings(deps), NEW s \in Seq(DOMAIN deps),
         ~Visited(deps)[c][s].cyclic
  PROVE  Leaves(deps, c, s, Visited(deps)[c][s].color)
<1> DEFINE C == Colorings(deps)
           S == Seq(DOMAIN deps)
<1>1. PICK v \in Visits(deps) : v = Visited(deps) /\ \A b \in C, t \in S : v[b][t] = VisitEach(deps, v, b, t)
  BY VisitedIs
<1> DEFINE Wrong(b, t) == ~v[b][t].cyclic /\ ~Leaves(deps, b, t, v[b][t].color)
           bad == {n \in Nat : \E b \in C, t \in S : n = Ahead(K, b, t) /\ Wrong(b, t)}
<1>2. \A b \in C, t \in S : Ahead(K, b, t) \in Nat
  BY AheadIs
<1>3. CASE bad = {}
  <2>1. Ahead(K, c, s) \notin bad
    BY <1>3
  <2>2. ~Wrong(c, s)
    BY <1>2, <2>1
  <2>3. QED
    BY <1>1, <2>2
<1>4. CASE bad # {}
  <2>1. PICK n \in bad : \A m \in bad : n <= m
    <3>1. bad \subseteq Nat
      OBVIOUS
    <3>2. QED
      BY <1>4, <3>1, LeastOf
  <2>2. PICK b \in C, t \in S : n = Ahead(K, b, t) /\ Wrong(b, t)
    BY <2>1
  <2>3. ASSUME NEW a \in C, NEW q \in S, Ahead(K, a, q) < Ahead(K, b, t), ~v[a][q].cyclic
        PROVE  Leaves(deps, a, q, v[a][q].color)
    <3>1. Ahead(K, a, q) \in Nat /\ n \in Nat /\ Ahead(K, a, q) < n
      BY <1>2, <2>2, <2>3
    <3>2. Ahead(K, a, q) \notin bad
      <4>1. SUFFICES ASSUME Ahead(K, a, q) \in bad PROVE FALSE
        OBVIOUS
      <4>2. n <= Ahead(K, a, q)
        BY <2>1, <4>1
      <4>3. QED
        BY <3>1, <4>2
    <3>3. ~Wrong(a, q)
      BY <3>1, <3>2
    <3>4. QED
      BY <2>3, <3>3
  <2>4. v[b][t] = VisitEach(deps, v, b, t)
    BY <1>1
  <2>5. ~VisitEach(deps, v, b, t).cyclic
    BY <2>2, <2>4
  <2>6. Leaves(deps, b, t, VisitEach(deps, v, b, t).color)
    BY <2>3, <2>5, OneVisitLeaves
  <2>7. QED
    BY <2>2, <2>4, <2>6
<1>5. QED
  BY <1>3, <1>4

\* The plans that an oracle may answer.
IsPlan(plan) == plan \in Seq(ToSet(plan)) /\ \A node \in ToSet(plan) : node.deps \in Seq(ToSet(node.deps))

LEMMA IdsOfPlan ==
  ASSUME NEW plan, IsPlan(plan)
  PROVE  /\ Len(plan) \in Nat /\ DOMAIN plan = 1 .. Len(plan)
         /\ \A i \in DOMAIN plan : /\ plan[i].id \in Ids(plan)
                                   /\ plan[i].deps \in Seq(Ids(plan))
                                   /\ ToSet(plan[i].deps) \subseteq Ids(plan)
         /\ IsFiniteSet(Ids(plan))
<1>1. /\ Len(plan) \in Nat /\ DOMAIN plan = 1 .. Len(plan)
      /\ \A i \in DOMAIN plan : plan[i] \in ToSet(plan)
  BY DEF IsPlan, ToSet
<1>2. \A i \in DOMAIN plan : plan[i].deps \in Seq(ToSet(plan[i].deps))
  BY <1>1 DEF IsPlan
<1>3. \A i \in DOMAIN plan : plan[i].id \in Ids(plan) /\ ToSet(plan[i].deps) \subseteq Ids(plan)
  BY DEF Ids
<1>4. \A i \in DOMAIN plan : plan[i].deps \in Seq(Ids(plan))
  <2>1. \A S, T, q : q \in Seq(S) /\ S \subseteq T => q \in Seq(T)
    OBVIOUS
  <2>2. QED
    BY <1>2, <1>3, <2>1
<1>5. IsFiniteSet(DOMAIN plan)
  BY <1>1, FS_Interval
<1>6. IsFiniteSet({plan[i].id : i \in DOMAIN plan})
  <2>1. DEFINE f == [i \in DOMAIN plan |-> plan[i].id]
  <2>2. f \in Surjection(DOMAIN plan, {plan[i].id : i \in DOMAIN plan})
    BY DEF Surjection
  <2>3. QED
    BY <1>5, <2>2, FS_Surjection
<1>7. \A i \in DOMAIN plan : IsFiniteSet(ToSet(plan[i].deps))
  <2>1. SUFFICES ASSUME NEW i \in DOMAIN plan PROVE IsFiniteSet(ToSet(plan[i].deps))
    OBVIOUS
  <2>2. PICK q, S : q = plan[i].deps /\ S = ToSet(q) /\ q \in Seq(S)
    BY <1>2
  <2>3. Len(q) \in Nat /\ DOMAIN q = 1 .. Len(q) /\ IsFiniteSet(DOMAIN q)
    BY <2>2, FS_Interval
  <2>4. q \in Surjection(DOMAIN q, S)
    BY <2>2 DEF Surjection, ToSet
  <2>5. QED
    BY <2>2, <2>3, <2>4, FS_Surjection
<1>8. IsFiniteSet(UNION {ToSet(plan[i].deps) : i \in DOMAIN plan})
  <2>1. DEFINE T == {ToSet(plan[i].deps) : i \in DOMAIN plan}
               f == [i \in DOMAIN plan |-> ToSet(plan[i].deps)]
  <2>2. f \in Surjection(DOMAIN plan, T)
    BY DEF Surjection
  <2>3. IsFiniteSet(T)
    BY <1>5, <2>2, FS_Surjection
  <2>4. \A S \in T : IsFiniteSet(S)
    BY <1>7
  <2>5. QED
    BY <2>3, <2>4, FS_UNION
<1>9. IsFiniteSet(Ids(plan))
  BY <1>6, <1>8, FS_Union DEF Ids
<1>10. QED
  BY <1>1, <1>3, <1>4, <1>9

\* Some number is above the lengths of all lists of dependencies.
LEMMA DepsBounded ==
  ASSUME NEW plan, IsPlan(plan)
  PROVE  \E K \in Nat : K # 0 /\ \A i \in DOMAIN plan : Len(plan[i].deps) < K
<1> DEFINE Above(n, K) == K # 0 /\ \A i \in DOMAIN plan : i <= n => Len(plan[i].deps) < K
           bad == {n \in Nat : ~ \E K \in Nat : Above(n, K)}
<1>1. /\ Len(plan) \in Nat /\ DOMAIN plan = 1 .. Len(plan)
      /\ \A i \in DOMAIN plan : Len(plan[i].deps) \in Nat
  BY IdsOfPlan
<1>2. CASE bad = {}
  <2>1. PICK K \in Nat : Above(Len(plan), K)
    BY <1>1, <1>2
  <2>2. QED
    BY <1>1, <2>1
<1>3. CASE bad # {}
  <2>1. PICK n \in bad : \A m \in bad : n <= m
    <3>1. bad \subseteq Nat
      OBVIOUS
    <3>2. QED
      BY <1>3, <3>1, LeastOf
  <2>2. n \in Nat /\ ~ \E K \in Nat : Above(n, K)
    OBVIOUS
  <2>3. n # 0
    <3>1. Above(0, 1)
      BY <1>1
    <3>2. QED
      BY <2>2, <3>1
  <2>4. n - 1 \in Nat /\ n - 1 \notin bad
    <3>1. n - 1 \in Nat /\ ~(n <= n - 1)
      BY <2>2, <2>3
    <3>2. QED
      BY <2>1, <3>1
  <2>5. PICK K \in Nat : Above(n - 1, K)
    BY <2>4
  <2>6. PICK l \in Nat : n \in DOMAIN plan => l = Len(plan[n].deps)
    BY <1>1
  <2>7. Above(n, K + l + 1)
    <3>1. SUFFICES ASSUME NEW i \in DOMAIN plan, i <= n PROVE Len(plan[i].deps) < K + l + 1
      OBVIOUS
    <3>2. CASE i = n
      BY <2>6, <3>2
    <3>3. CASE i # n
      <4>1. i <= n - 1
        BY <1>1, <2>2, <3>1, <3>3
      <4>2. Len(plan[i].deps) < K /\ Len(plan[i].deps) \in Nat
        BY <1>1, <2>5, <4>1
      <4>3. QED
        BY <4>2
    <3>4. QED
      BY <3>2, <3>3
  <2>8. QED
    BY <2>2, <2>7
<1>4. QED
  BY <1>2, <1>3

LEMMA PlanIsGraph ==
  ASSUME NEW plan, IsPlan(plan)
  PROVE  /\ DOMAIN DependsOn(plan) = Ids(plan) /\ \E K : Graph(DependsOn(plan), K)
<1>1. PICK K \in Nat : K # 0 /\ \A i \in DOMAIN plan : Len(plan[i].deps) < K
  BY DepsBounded
<1>2. PICK f : f = DependsOn(plan)
  OBVIOUS
<1>3. ASSUME NEW id \in Ids(plan) PROVE f[id] \in Seq(Ids(plan)) /\ Len(f[id]) < K
  <2>1. DEFINE at == {i \in DOMAIN plan : plan[i].id = id}
  <2>2. f[id] = IF at = {} THEN <<>> ELSE plan[CHOOSE i \in at : \A j \in at : j <= i].deps
    BY <1>2 DEF DependsOn
  <2>3. CASE at = {}
    BY <1>1, <2>2, <2>3
  <2>4. CASE at # {}
    <3>1. at \subseteq 1 .. Len(plan) /\ Len(plan) \in Nat
      BY IdsOfPlan
    <3>2. \E i \in at : \A j \in at : j <= i
      BY <2>4, <3>1, GreatestOf
    <3>3. PICK i \in at : i = CHOOSE k \in at : \A j \in at : j <= k
      BY <3>2
    <3>4. f[id] = plan[i].deps /\ i \in DOMAIN plan
      BY <2>2, <2>4, <3>3
    <3>5. QED
      BY <1>1, <3>4, IdsOfPlan
  <2>5. QED
    BY <2>3, <2>4
<1>4. DOMAIN f = Ids(plan) /\ f = [id \in Ids(plan) |-> f[id]]
  BY <1>2 DEF DependsOn
<1>5. f \in [Ids(plan) -> Seq(Ids(plan))]
  BY <1>3, <1>4
<1>6. Graph(f, K)
  BY <1>1, <1>3, <1>4, <1>5, IdsOfPlan DEF Graph
<1>7. QED
  BY <1>2, <1>4, <1>6

\* A plan in which no cycle was found can be carried out.
LEMMA NoCycleNoWait ==
  ASSUME NEW plan, IsPlan(plan), DistinctIds(plan), ~DetectCycle(plan)
  PROVE  Executable(plan)
<1>1. PICK deps : deps = DependsOn(plan)
  OBVIOUS
<1>2. PICK N : N = Ids(plan)
  OBVIOUS
<1>3. PICK K : Graph(deps, K) /\ DOMAIN deps = N
  BY <1>1, <1>2, PlanIsGraph
<1>4. PICK c : c = [id \in N |-> "white"]
  OBVIOUS
<1>5. PICK s : s = [i \in DOMAIN plan |-> plan[i].id]
  OBVIOUS
<1>6. c \in Colorings(deps) /\ Done(c) = {}
  BY <1>3, <1>4 DEF Colorings, Done
<1>7. s \in Seq(N) /\ DOMAIN s = DOMAIN plan
  <2>1. Len(plan) \in Nat /\ DOMAIN plan = 1 .. Len(plan) /\ \A i \in DOMAIN plan : plan[i].id \in N
    BY <1>2, IdsOfPlan
  <2>2. QED
    BY <1>5, <2>1
<1>8. PICK o : o = Visited(deps)[c][s] /\ ~o.cyclic
  BY <1>1, <1>2, <1>4, <1>5 DEF DetectCycle
<1>9. PICK r : r = o.color /\ Leaves(deps, c, s, r)
  BY <1>3, <1>6, <1>7, <1>8, VisitLeaves
<1>10. DOMAIN r = N
  <2>1. o \in Colored(deps)
    BY <1>3, <1>6, <1>7, <1>8, VisitedIs DEF Visits
  <2>2. QED
    BY <1>3, <1>9, <2>1 DEF Colored, Colorings
<1>11. Ranked(deps, c)
  <2>1. InOrder(deps, c, [id \in {} |-> 0])
    BY <1>6 DEF InOrder
  <2>2. QED
    BY <2>1 DEF Ranked
<1>12. PICK rank : InOrder(deps, r, rank)
  BY <1>9, <1>11 DEF Leaves, Ranked
<1>13. \A i \in DOMAIN plan : plan[i].id \in Done(r)
  <2>1. SUFFICES ASSUME NEW i \in DOMAIN plan PROVE plan[i].id \in Done(r)
    OBVIOUS
  <2>2. plan[i].id \in ToSet(s)
    BY <1>5 DEF ToSet
  <2>3. plan[i].id \in N
    BY <1>2, IdsOfPlan
  <2>4. QED
    BY <1>9, <1>10, <2>2, <2>3 DEF Leaves, Done
<1>14. \A i \in DOMAIN plan : deps[plan[i].id] = plan[i].deps
  <2>1. SUFFICES ASSUME NEW i \in DOMAIN plan PROVE deps[plan[i].id] = plan[i].deps
    OBVIOUS
  <2>2. DEFINE at == {j \in DOMAIN plan : plan[j].id = plan[i].id}
  <2>3. at = {i}
    BY DEF DistinctIds
  <2>4. i \in Nat
    BY IdsOfPlan
  <2>5. (CHOOSE k \in at : \A j \in at : j <= k) = i
    BY <2>3, <2>4
  <2>6. plan[i].id \in Ids(plan)
    BY IdsOfPlan
  <2>7. deps[plan[i].id] = IF at = {} THEN <<>> ELSE plan[CHOOSE k \in at : \A j \in at : j <= k].deps
    BY <1>1, <2>6 DEF DependsOn
  <2> HIDE DEF at
  <2>8. QED
    BY <2>3, <2>5, <2>7
<1>15. \A i \in DOMAIN plan : \A d \in ToSet(plan[i].deps) : d \in Done(r) /\ rank[d] < rank[plan[i].id]
  BY <1>12, <1>13, <1>14 DEF InOrder
<1>16. Done(r) = N
  <2>1. Done(r) \subseteq N
    BY <1>10 DEF Done
  <2>2. N \subseteq Done(r)
    BY <1>2, <1>13, <1>15 DEF Ids
  <2>3. QED
    BY <2>1, <2>2
<1>17. rank \in [N -> 1 .. Cardinality(N)]
  BY <1>12, <1>16 DEF InOrder
<1>18. QED
  BY <1>2, <1>15, <1>17 DEF Executable

LEMMA PlansStep ==
  ASSUME MeterInv, PlansInv, [MeterNext]_meterState
  PROVE  PlansInv'
<1>1. \A m \in Metered : events[m] \in [thrashing : Nat, plan : Plans \cup {<<>>}]
  BY DEF MeterInv, MeterTyped
<1>2. DOMAIN events = Metered
  BY DEF MeterInv, MeterTyped
<1>3. CASE UNCHANGED events
  BY <1>3 DEF PlansInv
<1>4. ASSUME NEW d \in Runners, LogThrashing(d) PROVE PlansInv'
  <2>1. PICK k : events' = [events EXCEPT ![k].thrashing = @ + 1] \/ UNCHANGED events
    BY <1>4 DEF LogThrashing
  <2>2. \A m \in Metered : events'[m].plan = events[m].plan
    BY <1>1, <1>2, <2>1
  <2>3. QED
    BY <2>2 DEF PlansInv
<1>5. ASSUME NEW d \in Runners, Escalate(d) PROVE PlansInv'
  <2>1. PICK k \in Metered :
          \/ UNCHANGED events
          \/ \E plan \in Plans : ~DetectCycle(plan) /\ events' = [events EXCEPT ![k].plan = plan]
    BY <1>5 DEF Escalate
  <2>2. ASSUME NEW plan \in Plans, ~DetectCycle(plan), events' = [events EXCEPT ![k].plan = plan]
        PROVE  PlansInv'
    <3>1. \A m \in Metered : events'[m].plan = IF m = k THEN plan ELSE events[m].plan
      BY <1>1, <1>2, <2>2
    <3>2. PlanChecked(plan)
      BY <2>2 DEF PlanChecked
    <3>3. QED
      BY <3>1, <3>2 DEF PlansInv
  <2>3. QED
    BY <1>3, <2>1, <2>2
<1>6. \/ UNCHANGED events
      \/ \E d \in Runners : LogThrashing(d) \/ Escalate(d)
  <2>1. UNCHANGED meterState => UNCHANGED events
    BY DEF meterState
  <2>2. ASSUME NEW d \in Runners,
               \/ Record(d) \/ BeginComplete(d) \/ EndComplete(d) \/ Get(d) \/ BeginCheck(d)
               \/ Detect(d) \/ Mark(d)
        PROVE  UNCHANGED events
    BY <2>2 DEF Record, BeginComplete, EndComplete, Get, BeginCheck, Detect, Mark
  <2>3. QED
    BY <2>1, <2>2 DEF MeterNext
<1>7. QED
  BY <1>3, <1>4, <1>5, <1>6

\* A plan that is taken over has an order in which each mission comes after those it depends
\* on: what the colors of detectCycle let through has no cycle, for plans of any size
\* (oracle.go:272, 290-330).
THEOREM PlansCanRun == MetricsSpec => []PlansExecutable
<1>1. MeterInit => PlansInv
  <2>1. SUFFICES ASSUME MeterInit PROVE PlansInv
    OBVIOUS
  <2>2. \A m \in Metered : events[m].plan = <<>>
    BY <2>1 DEF MeterInit
  <2>3. \A m \in Metered : PlanChecked(events[m].plan)
    BY <2>2 DEF PlanChecked
  <2>4. QED
    BY <2>3 DEF PlansInv
<1>2. MeterInv /\ PlansInv /\ [MeterNext]_meterState => PlansInv'
  BY PlansStep
<1>3. PlansInv => PlansExecutable
  <2>1. SUFFICES ASSUME PlansInv, NEW m \in Metered, DistinctIds(events[m].plan)
                 PROVE  Executable(events[m].plan)
    BY DEF PlansExecutable
  <2>2. PICK plan : plan = events[m].plan /\ PlanChecked(plan) /\ DistinctIds(plan)
    BY <2>1 DEF PlansInv
  <2>3. CASE plan = <<>>
    <3>1. DOMAIN plan = {} /\ Ids(plan) = {}
      BY <2>3 DEF Ids
    <3>2. [id \in {} |-> 0] \in [Ids(plan) -> 1 .. Cardinality(Ids(plan))]
      BY <3>1
    <3>3. QED
      BY <2>2, <3>1, <3>2 DEF Executable
  <2>4. CASE plan \in Plans /\ ~DetectCycle(plan)
    <3>1. IsPlan(plan)
      BY <2>4, MeterAssumption DEF IsPlan
    <3>2. QED
      BY <2>2, <2>4, <3>1, NoCycleNoWait
  <2>5. QED
    BY <2>2, <2>3, <2>4 DEF PlanChecked
<1>4. QED
  BY <1>1, <1>2, <1>3, MetricsInvariant, PTL DEF MetricsSpec
=============================================================================
