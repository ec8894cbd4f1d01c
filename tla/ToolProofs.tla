----------------------------- MODULE ToolProofs -----------------------------
(***************************************************************************)
(* The CLI's tools, for any number of calls, shells, sessions, contents    *)
(* and changes: what a call of the shared shell is told is what became of  *)
(* its own command; what the user made of a file is not written over       *)
(* unseen; the history of a file begins with what was there and tells the  *)
(* changes of a session that has it to itself; no waiting call is lost.    *)
(***************************************************************************)
EXTENDS PersistentShell, FileTools, TLAPS

(* The shell. *)

ShellSpec == ShellInit /\ [][ShellNext]_shellVars

\* A sequence without repetitions, its head, its tail and what is appended to it.
LEMMA OnceTail ==
  ASSUME NEW S, NEW q \in Seq(S), q # <<>>, Once(q)
  PROVE  /\ Tail(q) \in Seq(S) /\ Len(Tail(q)) <= Len(q) /\ Once(Tail(q))
         /\ Head(q) \in S /\ Head(q) \in ToSet(q)
         /\ ToSet(Tail(q)) = ToSet(q) \ {Head(q)}
<1>1. /\ Tail(q) \in Seq(S) /\ Len(Tail(q)) = Len(q) - 1 /\ Len(q) \in Nat /\ Len(q) > 0
      /\ \A i \in 1 .. Len(q) - 1 : Tail(q)[i] = q[i + 1]
      /\ Head(q) = q[1] /\ Head(q) \in S
  OBVIOUS
<1>2. DOMAIN q = 1 .. Len(q) /\ DOMAIN Tail(q) = 1 .. Len(q) - 1
  BY <1>1
<1>3. Once(Tail(q))
  BY <1>1, <1>2 DEF Once
<1>4. Head(q) \in ToSet(q)
  BY <1>1, <1>2 DEF ToSet
<1>5. ASSUME NEW e \in ToSet(Tail(q)) PROVE e \in ToSet(q) /\ e # Head(q)
  <2>1. PICK i \in 1 .. Len(q) - 1 : e = Tail(q)[i]
    BY <1>2 DEF ToSet
  <2>2. e = q[i + 1] /\ i + 1 \in 1 .. Len(q) /\ 1 \in 1 .. Len(q) /\ i + 1 # 1
    BY <1>1, <2>1
  <2>3. QED
    BY <1>1, <1>2, <2>2 DEF ToSet, Once
<1>6. ASSUME NEW e \in ToSet(q), e # Head(q) PROVE e \in ToSet(Tail(q))
  <2>1. PICK i \in 1 .. Len(q) : e = q[i]
    BY <1>2 DEF ToSet
  <2>2. i - 1 \in 1 .. Len(q) - 1 /\ Tail(q)[i - 1] = e
    BY <1>1, <1>6, <2>1
  <2>3. QED
    BY <1>2, <2>2 DEF ToSet
<1>7. QED
  BY <1>1, <1>3, <1>4, <1>5, <1>6

LEMMA OnceAppend ==
  ASSUME NEW S, NEW q \in Seq(S), NEW e \in S, Once(q), e \notin ToSet(q)
  PROVE  /\ Append(q, e) \in Seq(S) /\ Len(Append(q, e)) = Len(q) + 1 /\ Once(Append(q, e))
         /\ ToSet(Append(q, e)) = ToSet(q) \cup {e}
<1>1. /\ Append(q, e) \in Seq(S) /\ Len(Append(q, e)) = Len(q) + 1 /\ Len(q) \in Nat
      /\ \A i \in 1 .. Len(q) : Append(q, e)[i] = q[i]
      /\ Append(q, e)[Len(q) + 1] = e
  OBVIOUS
<1>2. DOMAIN q = 1 .. Len(q) /\ DOMAIN Append(q, e) = 1 .. Len(q) + 1
  BY <1>1
<1>3. \A i \in 1 .. Len(q) + 1 : i \in 1 .. Len(q) \/ i = Len(q) + 1
  BY <1>1
<1>4. \A i \in 1 .. Len(q) : q[i] \in ToSet(q) /\ q[i] # e
  BY <1>2 DEF ToSet
<1>5. Once(Append(q, e))
  BY <1>1, <1>2, <1>3, <1>4 DEF Once
<1>6. ASSUME NEW x \in ToSet(Append(q, e)) PROVE x \in ToSet(q) \cup {e}
  <2>1. PICK i \in 1 .. Len(q) + 1 : x = Append(q, e)[i]
    BY <1>2 DEF ToSet
  <2>2. QED
    BY <1>1, <1>3, <1>4, <2>1
<1>7. ASSUME NEW x \in ToSet(q) \cup {e} PROVE x \in ToSet(Append(q, e))
  <2>1. CASE x = e
    <3>1. Len(q) + 1 \in 1 .. Len(q) + 1
      BY <1>1
    <3>2. QED
      BY <1>1, <1>2, <2>1, <3>1 DEF ToSet
  <2>2. CASE x # e
    <3>1. PICK i \in 1 .. Len(q) : x = q[i]
      BY <1>2, <2>2 DEF ToSet
    <3>2. i \in 1 .. Len(q) + 1 /\ Append(q, e)[i] = x
      BY <1>1, <3>1
    <3>3. QED
      BY <1>2, <3>2 DEF ToSet
  <2>3. QED
    BY <2>1, <2>2
<1>8. QED
  BY <1>1, <1>5, <1>6, <1>7

LEMMA SeqUpTo ==
  ASSUME NEW n \in Nat, NEW m \in Nat, n <= m, NEW q \in Seq(1 .. n)
  PROVE  q \in Seq(1 .. m)
  OBVIOUS

LEMMA ToSetIn == ASSUME NEW S, NEW q \in Seq(S) PROVE ToSet(q) \subseteq S
  BY DEF ToSet

-----------------------------------------------------------------------------
(* What a step leaves alone. *)

LEMMA AgreesKept ==
  ASSUME NEW o, NEW s, NEW cs, NEW cs2, Agrees(o, s, cs), DOMAIN cs \subseteq DOMAIN cs2,
         \A d \in DOMAIN cs : cs[d].shell = s /\ cs[d].stage \in {"waiting", "over"} => cs2[d] = cs[d]
  PROVE  Agrees(o, s, cs2)
<1>1. \A c : Expects(c, s, cs) => Expects(c, s, cs2) /\ cs2[c] = cs[c]
  BY DEF Expects
<1>2. \A c : Began(c, s, cs) => Began(c, s, cs2) /\ cs2[c] = cs[c]
  BY DEF Began
<1>3. QED
  BY <1>1, <1>2 DEF Agrees

LEMMA BelongsKept ==
  ASSUME NEW file, NEW n, NEW cs, NEW cs2, Belongs(file, n, cs), DOMAIN cs \subseteq DOMAIN cs2,
         \A d \in DOMAIN cs : cs[d].ended => cs2[d].ended
  PROVE  Belongs(file, n, cs2)
  BY DEF Belongs

LEMMA ShellFacts ==
  ASSUME ShellInv
  PROVE  /\ Len(shells) \in Nat /\ Len(calls) \in Nat
         /\ Shells = 1 .. Len(shells) /\ Calls = 1 .. Len(calls)
         /\ \A s \in Shells : shells[s] \in ShellRecord(Len(calls))
         /\ \A c \in Calls : calls[c] \in CallRecord(Len(shells)) /\ c \in 1 .. MaxCalls
  BY ShellAssumption DEF ShellInv, Shells, Calls

\* The fields of records, and the records that differ in one of them.
LEMMA ShellFields ==
  ASSUME NEW n \in Nat, NEW o \in ShellRecord(n)
  PROVE  /\ o.running \in BOOLEAN /\ o.isAlive \in BOOLEAN /\ o.closed \in BOOLEAN
         /\ o.queue \in Seq(1 .. n) /\ o.command \in 0 .. n /\ o.written \in BOOLEAN
         /\ o.input \in Seq(1 .. n) /\ o.at \in 0 .. n /\ o.step \in {"ready", "eval", "echo"}
  BY DEF ShellRecord

LEMMA MoreCalls ==
  ASSUME NEW n \in Nat, NEW m \in Nat, n <= m, NEW o \in ShellRecord(n)
  PROVE  o \in ShellRecord(m)
<1>1. o.queue \in Seq(1 .. m) /\ o.input \in Seq(1 .. m)
  BY ShellFields, SeqUpTo
<1>2. o.command \in 0 .. m /\ o.at \in 0 .. m
  BY DEF ShellRecord
<1>3. QED
  BY <1>1, <1>2 DEF ShellRecord

LEMMA MoreShells ==
  ASSUME NEW n \in Nat, NEW m \in Nat, n <= m, NEW o \in CallRecord(n)
  PROVE  o \in CallRecord(m)
  BY DEF CallRecord

\* A step of one shell, and of calls of its own or of none.
LEMMA OneShell ==
  ASSUME ShellInv, NEW s \in Shells, NEW o \in ShellRecord(Len(calls)),
         shells' = [shells EXCEPT ![s] = o], instance' = instance,
         calls' \in Seq(CallRecord(Len(shells))), Len(calls') = Len(calls),
         \A c \in Calls : Called(calls'[c]),
         \A c \in Calls : calls'[c] # calls[c] =>
           calls[c].shell = s \/ calls[c].stage \notin {"waiting", "over"},
         Sound(o), Agrees(o, s, calls'),
         DOMAIN status' = 1 .. MaxCalls, \A n \in 1 .. MaxCalls : Belongs(status'[n], n, calls')
  PROVE  ShellInv'
<1>1. Len(shells') = Len(shells) /\ shells' \in Seq(ShellRecord(Len(calls)))
  BY ShellFacts DEF ShellInv, Shells
<1>2. Shells' = Shells /\ Calls' = Calls
  BY <1>1, ShellFacts DEF Shells, Calls
<1>3. ASSUME NEW t \in Shells PROVE Sound(shells'[t]) /\ Agrees(shells'[t], t, calls')
  <2>1. CASE t = s
    BY <2>1 DEF Shells
  <2>2. CASE t # s
    <3>1. shells'[t] = shells[t] /\ Sound(shells[t]) /\ Agrees(shells[t], t, calls)
      BY <2>2 DEF ShellInv, Shells
    <3>2. \A d \in DOMAIN calls : calls[d].shell = t /\ calls[d].stage \in {"waiting", "over"}
                                    => calls'[d] = calls[d]
      BY <2>2 DEF Calls
    <3>3. DOMAIN calls \subseteq DOMAIN calls'
      BY <1>2 DEF Calls
    <3>4. QED
      BY <3>1, <3>2, <3>3, AgreesKept
  <2>3. QED
    BY <2>1, <2>2
<1>4. QED
  BY <1>1, <1>2, <1>3 DEF ShellInv

\* A step of one call that no shell has: what all shells and files agree with goes on.
LEMMA QuietCall ==
  ASSUME ShellInv, NEW c \in Calls, NEW r \in CallRecord(Len(shells)), Called(r),
         calls' = [calls EXCEPT ![c] = r],
         calls[c].stage \notin {"waiting", "over"}, calls[c].ended => r.ended
  PROVE  /\ Len(calls') = Len(calls) /\ calls' \in Seq(CallRecord(Len(shells))) /\ Calls' = Calls
         /\ calls'[c] = r /\ \A d \in Calls : d # c => calls'[d] = calls[d]
         /\ \A d \in Calls : Called(calls'[d])
         /\ \A t \in Shells : Agrees(shells[t], t, calls')
         /\ \A n \in 1 .. MaxCalls : Belongs(status[n], n, calls')
<1>1. /\ Len(calls') = Len(calls) /\ calls' \in Seq(CallRecord(Len(shells)))
      /\ \A d \in Calls : calls'[d] = IF d = c THEN r ELSE calls[d]
  BY ShellFacts DEF ShellInv, Calls
<1>2. Calls' = Calls
  BY <1>1, ShellFacts DEF Calls
<1>3. DOMAIN calls \subseteq DOMAIN calls'
  BY <1>2 DEF Calls
<1>4. \A d \in DOMAIN calls : d # c => calls'[d] = calls[d]
  BY <1>1 DEF Calls
<1>5. ASSUME NEW t \in Shells PROVE Agrees(shells[t], t, calls')
  <2>1. Agrees(shells[t], t, calls)
    BY DEF ShellInv
  <2>2. QED
    BY <1>3, <1>4, <2>1, AgreesKept
<1>6. ASSUME NEW n \in 1 .. MaxCalls PROVE Belongs(status[n], n, calls')
  <2>1. Belongs(status[n], n, calls)
    BY DEF ShellInv
  <2>2. \A d \in DOMAIN calls : calls[d].ended => calls'[d].ended
    BY <1>1 DEF Calls
  <2>3. QED
    BY <1>3, <2>1, <2>2, BelongsKept
<1>7. \A d \in Calls : Called(calls'[d])
  BY <1>1 DEF ShellInv
<1>8. QED
  BY <1>1, <1>2, <1>5, <1>6, <1>7

LEMMA OneCall ==
  ASSUME ShellInv, NEW c \in Calls, NEW r \in CallRecord(Len(shells)), Called(r),
         calls' = [calls EXCEPT ![c] = r],
         calls[c].stage \notin {"waiting", "over"}, calls[c].ended => r.ended,
         shells' = shells, status' = status, instance' \in 0 .. Len(shells)
  PROVE  ShellInv'
<1>1. /\ Len(calls') = Len(calls) /\ calls' \in Seq(CallRecord(Len(shells))) /\ Calls' = Calls
      /\ \A d \in Calls : Called(calls'[d])
      /\ \A t \in Shells : Agrees(shells[t], t, calls')
      /\ \A n \in 1 .. MaxCalls : Belongs(status[n], n, calls')
  BY QuietCall
<1>2. Shells' = Shells
  BY DEF Shells
<1>3. QED
  BY <1>1, <1>2 DEF ShellInv
-----------------------------------------------------------------------------
(* The steps of a call. *)

LEMMA ShellInitHolds == ShellInit => ShellInv
<1>1. SUFFICES ASSUME ShellInit PROVE ShellInv
  OBVIOUS
<1>2. shells = <<NewShell>> /\ instance = 1 /\ calls = <<>>
  BY <1>1 DEF ShellInit
<1>3. /\ NewShell \in ShellRecord(0) /\ NewShell.queue = <<>> /\ NewShell.input = <<>>
      /\ NewShell.command = 0 /\ NewShell.closed = FALSE /\ NewShell.step = "ready"
  BY DEF NewShell, ShellRecord
<1>4. Len(shells) = 1 /\ shells \in Seq(ShellRecord(0)) /\ DOMAIN shells = {1} /\ shells[1] = NewShell
  BY <1>2, <1>3
<1>5. Len(calls) = 0 /\ calls \in Seq(CallRecord(1)) /\ DOMAIN calls = {}
  BY <1>2
<1>6. Sound(NewShell) /\ Agrees(NewShell, 1, calls)
  <2>1. ToSet(<<>>) = {} /\ Once(<<>>) /\ Len(<<>>) = 0
    BY DEF ToSet, Once
  <2>2. QED
    BY <1>3, <2>1, ShellAssumption DEF Sound, Agrees
<1>7. DOMAIN status = 1 .. MaxCalls /\ \A n \in 1 .. MaxCalls : Belongs(status[n], n, calls)
  BY <1>1 DEF ShellInit, NoFile, Belongs
<1>8. QED
  BY <1>2, <1>4, <1>5, <1>6, <1>7, ShellAssumption DEF ShellInv, Shells, Calls

LEMMA LookUpStep ==
  ASSUME ShellInv, LookUp
  PROVE  ShellInv'
<1>1. PICK stage \in {"found", "replacing"} : calls' = Append(calls, NewCall(stage))
  BY DEF LookUp
<1>2. shells' = shells /\ instance' = instance /\ status' = status /\ Len(calls) < MaxCalls
  BY DEF LookUp
<1>3. NewCall(stage) \in CallRecord(Len(shells)) /\ Called(NewCall(stage))
  BY ShellFacts DEF NewCall, CallRecord, Called
<1>4. /\ calls' \in Seq(CallRecord(Len(shells))) /\ Len(calls') = Len(calls) + 1
      /\ \A c \in Calls : c \in Calls' /\ calls'[c] = calls[c]
      /\ \A c \in Calls' \ Calls : calls'[c] = NewCall(stage)
  <2>1. calls \in Seq(CallRecord(Len(shells))) /\ Len(calls) \in Nat /\ Calls = 1 .. Len(calls)
    BY ShellFacts DEF ShellInv
  <2>2. calls' \in Seq(CallRecord(Len(shells))) /\ Len(calls') = Len(calls) + 1
    BY <1>1, <1>3, <2>1
  <2>3. Calls' = 1 .. Len(calls) + 1
    BY <2>1, <2>2 DEF Calls
  <2>4. \A c \in 1 .. Len(calls) : calls'[c] = calls[c]
    BY <1>1, <2>1
  <2>5. calls'[Len(calls) + 1] = NewCall(stage)
    BY <1>1, <2>1
  <2>6. QED
    BY <2>1, <2>2, <2>3, <2>4, <2>5
<1>5. \A c \in Calls' : Called(calls'[c])
  BY <1>3, <1>4 DEF ShellInv
<1>6. DOMAIN calls \subseteq DOMAIN calls' /\ \A d \in DOMAIN calls : calls'[d] = calls[d]
  BY <1>4 DEF Calls
<1>7. ASSUME NEW t \in Shells PROVE shells[t] \in ShellRecord(Len(calls')) /\ Agrees(shells[t], t, calls')
  <2>1. shells[t] \in ShellRecord(Len(calls)) /\ Len(calls) \in Nat /\ Len(calls') \in Nat
        /\ Len(calls) <= Len(calls') /\ Agrees(shells[t], t, calls)
    BY <1>4, ShellFacts DEF ShellInv
  <2>2. QED
    BY <1>6, <2>1, MoreCalls, AgreesKept
<1>8. shells \in Seq(ShellRecord(Len(calls')))
  BY <1>7 DEF ShellInv, Shells
<1>9. ASSUME NEW n \in 1 .. MaxCalls PROVE Belongs(status[n], n, calls')
  <2>1. Belongs(status[n], n, calls)
    BY DEF ShellInv
  <2>2. QED
    BY <1>6, <2>1, BelongsKept
<1>10. Shells' = Shells /\ Len(calls') <= MaxCalls
  BY <1>2, <1>4, ShellFacts, ShellAssumption DEF Shells
<1>11. QED
  BY <1>2, <1>4, <1>5, <1>7, <1>8, <1>9, <1>10 DEF ShellInv

\* A call that fails before its command is anywhere.
LEMMA FailsEarly ==
  ASSUME ShellInv, NEW c \in Calls, calls[c].stage \in {"replacing", "found", "sending"},
         NEW result \in {"panic", "error"}, Finish(c, result),
         shells' = shells, status' = status, instance' = instance
  PROVE  ShellInv'
<1>1. calls[c] \in CallRecord(Len(shells)) /\ Called(calls[c])
  BY ShellFacts DEF ShellInv
<1>2. DEFINE r == [calls[c] EXCEPT !.stage = "over", !.result = result]
<1>3. /\ r \in CallRecord(Len(shells)) /\ r.stage = "over" /\ r.result = result
      /\ r.starts = calls[c].starts /\ r.ended = calls[c].ended
  BY <1>1 DEF CallRecord
<1>4. calls' = [calls EXCEPT ![c] = r]
  BY DEF Finish
<1> HIDE DEF r
<1>5. Called(r)
  BY <1>1, <1>3 DEF Called
<1>6. instance' \in 0 .. Len(shells) /\ calls[c].stage \notin {"waiting", "over"}
  BY DEF ShellInv
<1>7. QED
  BY <1>3, <1>4, <1>5, <1>6, OneCall

LEMMA ReplaceStep ==
  ASSUME ShellInv, NEW c \in Calls, Replace(c)
  PROVE  ShellInv'
<1>1. calls[c] \in CallRecord(Len(shells)) /\ Called(calls[c]) /\ calls[c].stage = "replacing"
  BY ShellFacts DEF ShellInv, Replace
<1>2. DEFINE r == [calls[c] EXCEPT !.stage = "found"]
<1>3. /\ r \in CallRecord(Len(shells)) /\ r.stage = "found" /\ r.result = calls[c].result
      /\ r.starts = calls[c].starts /\ r.ended = calls[c].ended
  BY <1>1 DEF CallRecord
<1>4. calls' = [calls EXCEPT ![c] = r] /\ status' = status
  BY DEF Replace
<1> HIDE DEF r
<1>5. Called(r)
  BY <1>1, <1>3 DEF Called
<1>6. CASE instance' = 0 /\ shells' = shells
  <2>1. instance' \in 0 .. Len(shells)
    BY <1>6, ShellFacts
  <2>2. QED
    BY <1>1, <1>3, <1>4, <1>5, <1>6, <2>1, OneCall
<1>7. CASE shells' = Append(shells, NewShell) /\ instance' = Len(shells')
  <2>1. /\ Len(calls') = Len(calls) /\ calls' \in Seq(CallRecord(Len(shells))) /\ Calls' = Calls
        /\ \A d \in Calls : Called(calls'[d])
        /\ \A t \in Shells : Agrees(shells[t], t, calls')
        /\ \A n \in 1 .. MaxCalls : Belongs(status[n], n, calls')
    BY <1>1, <1>3, <1>4, <1>5, QuietCall
  <2>2. NewShell \in ShellRecord(Len(calls)) /\ Sound(NewShell)
        /\ \A t : Agrees(NewShell, t, calls')
    <3>1. /\ NewShell \in ShellRecord(Len(calls)) /\ NewShell.queue = <<>> /\ NewShell.input = <<>>
          /\ NewShell.command = 0 /\ NewShell.closed = FALSE /\ NewShell.step = "ready"
      BY ShellFacts DEF NewShell, ShellRecord
    <3>2. ToSet(<<>>) = {} /\ Once(<<>>) /\ Len(<<>>) = 0
      BY DEF ToSet, Once
    <3>3. QED
      BY <3>1, <3>2, ShellAssumption DEF Sound, Agrees
  <2>3. /\ shells' \in Seq(ShellRecord(Len(calls))) /\ Len(shells') = Len(shells) + 1
        /\ Shells' = 1 .. Len(shells) + 1
        /\ \A t \in Shells : shells'[t] = shells[t]
        /\ shells'[Len(shells) + 1] = NewShell
    <3>1. shells \in Seq(ShellRecord(Len(calls))) /\ Len(shells) \in Nat /\ Shells = 1 .. Len(shells)
      BY ShellFacts DEF ShellInv
    <3>2. shells' \in Seq(ShellRecord(Len(calls))) /\ Len(shells') = Len(shells) + 1
      BY <1>7, <2>2, <3>1
    <3>3. Shells' = 1 .. Len(shells) + 1
      BY <3>1, <3>2 DEF Shells
    <3>4. QED
      BY <1>7, <3>1, <3>2, <3>3
  <2>4. \A t \in Shells' : Sound(shells'[t]) /\ Agrees(shells'[t], t, calls')
    <3>1. \A t \in Shells' : t \in Shells \/ t = Len(shells) + 1
      BY <2>3, ShellFacts
    <3>2. QED
      BY <2>1, <2>2, <2>3, <3>1 DEF ShellInv
  <2>5. calls' \in Seq(CallRecord(Len(shells')))
    <3>1. Len(shells) \in Nat /\ Len(shells') \in Nat /\ Len(shells) <= Len(shells')
      BY <2>3, ShellFacts
    <3>2. CallRecord(Len(shells)) \subseteq CallRecord(Len(shells'))
      BY <3>1, MoreShells
    <3>3. QED
      BY <2>1, <3>2
  <2>6. instance' \in 0 .. Len(shells')
    BY <1>7, <2>3, ShellFacts
  <2>7. QED
    BY <1>4, <2>1, <2>3, <2>4, <2>5, <2>6 DEF ShellInv
<1>8. QED
  BY <1>6, <1>7 DEF Replace

LEMMA EnterStep ==
  ASSUME ShellInv, NEW c \in Calls, Enter(c)
  PROVE  ShellInv'
<1>1. calls[c] \in CallRecord(Len(shells)) /\ Called(calls[c]) /\ calls[c].stage = "found"
      /\ shells' = shells /\ instance' = instance /\ status' = status
  BY ShellFacts DEF ShellInv, Enter
<1>2. CASE Usable
  <2>1. DEFINE r == [calls[c] EXCEPT !.stage = "sending", !.shell = instance]
  <2>2. instance \in 0 .. Len(shells) /\ instance # 0
    BY <1>2 DEF ShellInv, Usable
  <2>3. /\ r \in CallRecord(Len(shells)) /\ r.stage = "sending" /\ r.result = calls[c].result
        /\ r.starts = calls[c].starts /\ r.ended = calls[c].ended /\ r.shell = instance
    BY <1>1, <2>2 DEF CallRecord
  <2>4. calls' = [calls EXCEPT ![c] = r]
    BY <1>2 DEF Enter
  <2> HIDE DEF r
  <2>5. Called(r)
    BY <1>1, <2>2, <2>3 DEF Called
  <2>6. instance' \in 0 .. Len(shells)
    BY <1>1, <2>2
  <2>7. QED
    BY <1>1, <2>3, <2>4, <2>5, <2>6, OneCall
<1>3. CASE ~Usable
  <2>1. PICK result \in {"panic", "error"} : Finish(c, result)
    BY <1>3 DEF Enter
  <2>2. QED
    BY <1>1, <2>1, FailsEarly
<1>4. QED
  BY <1>2, <1>3

LEMMA EnqueueStep ==
  ASSUME ShellInv, NEW c \in Calls, Enqueue(c)
  PROVE  ShellInv'
<1>1. calls[c] \in CallRecord(Len(shells)) /\ Called(calls[c]) /\ calls[c].stage = "sending"
      /\ instance' = instance /\ status' = status
  BY ShellFacts DEF ShellInv, Enqueue
<1>2. PICK s \in Shells : s = calls[c].shell
  BY <1>1, ShellFacts DEF CallRecord, Called
<1>3. CASE shells[s].closed
  BY <1>1, <1>2, <1>3, FailsEarly DEF Enqueue
<1>4. CASE ~shells[s].closed
  <2>1. DEFINE r == [calls[c] EXCEPT !.stage = "waiting"]
               o == [shells[s] EXCEPT !.queue = Append(@, c)]
  <2>2. /\ calls' = [calls EXCEPT ![c] = r] /\ shells' = [shells EXCEPT ![s] = o]
        /\ Len(shells[s].queue) < QueueCap
    BY <1>2, <1>4 DEF Enqueue
  <2>3. /\ r \in CallRecord(Len(shells)) /\ r.stage = "waiting" /\ r.result = calls[c].result
        /\ r.starts = calls[c].starts /\ r.ended = calls[c].ended /\ r.shell = s
    BY <1>1, <1>2 DEF CallRecord
  <2>4. Called(r)
    BY <1>1, <1>2, <2>3 DEF Called
  <2>5. shells[s] \in ShellRecord(Len(calls)) /\ Sound(shells[s]) /\ Agrees(shells[s], s, calls)
        /\ Len(calls) \in Nat /\ c \in 1 .. Len(calls)
    BY ShellFacts DEF ShellInv
  <2>6. c \notin ToSet(shells[s].queue) /\ c \notin ToSet(shells[s].input) /\ c # shells[s].command
    BY <1>1, <2>5 DEF Agrees, Expects, Began
  <2>7. PICK q : q = shells[s].queue
    OBVIOUS
  <2>8. q \in Seq(1 .. Len(calls)) /\ Once(q) /\ c \notin ToSet(q)
    BY <2>5, <2>6, <2>7, ShellFields DEF Sound
  <2>9. /\ Append(q, c) \in Seq(1 .. Len(calls)) /\ Len(Append(q, c)) = Len(q) + 1
        /\ Once(Append(q, c)) /\ ToSet(Append(q, c)) = ToSet(q) \cup {c}
    BY <2>5, <2>8, OnceAppend
  <2>10. /\ o \in ShellRecord(Len(calls)) /\ o.queue = Append(q, c)
         /\ o.running = shells[s].running /\ o.isAlive = shells[s].isAlive
         /\ o.closed = shells[s].closed /\ o.command = shells[s].command
         /\ o.written = shells[s].written /\ o.input = shells[s].input
         /\ o.at = shells[s].at /\ o.step = shells[s].step
    BY <2>5, <2>7, <2>9 DEF ShellRecord
  <2> HIDE DEF r, o
  <2>11. /\ Len(calls') = Len(calls) /\ calls' \in Seq(CallRecord(Len(shells))) /\ Calls' = Calls
         /\ calls'[c] = r /\ \A d \in Calls : d # c => calls'[d] = calls[d]
         /\ \A d \in Calls : Called(calls'[d])
         /\ \A t \in Shells : Agrees(shells[t], t, calls')
         /\ \A n \in 1 .. MaxCalls : Belongs(status[n], n, calls')
    BY <1>1, <2>2, <2>3, <2>4, QuietCall
  <2>12. Sound(o)
    <3>1. Len(q) \in Nat /\ Len(q) < QueueCap
      BY <2>2, <2>7, <2>8
    <3>2. Len(o.queue) <= QueueCap
      BY <2>9, <2>10, <3>1, ShellAssumption
    <3>3. QED
      BY <2>5, <2>6, <2>7, <2>9, <2>10, <3>2 DEF Sound
  <2>13. Agrees(o, s, calls')
    <3>1. Agrees(shells[s], s, calls')
      BY <2>11
    <3>2. Expects(c, s, calls') /\ calls'[c].starts = 0
      BY <1>1, <2>3, <2>11 DEF Expects, Calls, Called
    <3>3. ToSet(o.queue) = ToSet(shells[s].queue) \cup {c}
      BY <2>7, <2>9, <2>10
    <3>4. QED
      BY <2>10, <3>1, <3>2, <3>3 DEF Agrees
  <2>14. DOMAIN status' = 1 .. MaxCalls /\ \A n \in 1 .. MaxCalls : Belongs(status'[n], n, calls')
    BY <1>1, <2>11 DEF ShellInv
  <2>15. \A d \in Calls : calls'[d] # calls[d] =>
            calls[d].shell = s \/ calls[d].stage \notin {"waiting", "over"}
    BY <1>1, <2>11
  <2>16. QED
    BY <1>1, <2>2, <2>10, <2>11, <2>12, <2>13, <2>14, <2>15, OneShell
<1>5. QED
  BY <1>3, <1>4
-----------------------------------------------------------------------------
(* The steps of a shell's goroutines and of its process. *)

LEMMA ShellOnly ==
  ASSUME ShellInv, NEW s \in Shells, NEW o \in ShellRecord(Len(calls)),
         shells' = [shells EXCEPT ![s] = o],
         UNCHANGED <<instance, calls, status>>, Sound(o), Agrees(o, s, calls)
  PROVE  ShellInv'
<1>1. /\ calls' \in Seq(CallRecord(Len(shells))) /\ Len(calls') = Len(calls)
      /\ \A c \in Calls : Called(calls'[c]) /\ calls'[c] = calls[c]
      /\ DOMAIN status' = 1 .. MaxCalls /\ \A n \in 1 .. MaxCalls : Belongs(status'[n], n, calls')
  BY DEF ShellInv
<1>2. QED
  BY <1>1, OneShell

LEMMA TakeCommandStep ==
  ASSUME ShellInv, NEW s \in Shells, TakeCommand(s)
  PROVE  ShellInv'
<1>1. shells[s] \in ShellRecord(Len(calls)) /\ Sound(shells[s]) /\ Agrees(shells[s], s, calls)
      /\ Len(calls) \in Nat /\ shells[s].command = 0
  BY ShellFacts DEF ShellInv, TakeCommand
<1>2. PICK q \in Seq(1 .. Len(calls)) : q = shells[s].queue /\ q # <<>>
  BY <1>1, ShellFields DEF TakeCommand
<1>3. /\ Tail(q) \in Seq(1 .. Len(calls)) /\ Len(Tail(q)) <= Len(q) /\ Once(Tail(q))
      /\ Head(q) \in 1 .. Len(calls) /\ Head(q) \in ToSet(q)
      /\ ToSet(Tail(q)) = ToSet(q) \ {Head(q)}
  BY <1>1, <1>2, OnceTail DEF Sound
<1>4. DEFINE o == [shells[s] EXCEPT !.command = Head(q), !.queue = Tail(q), !.written = FALSE]
<1>5. /\ o \in ShellRecord(Len(calls)) /\ o.queue = Tail(q) /\ o.command = Head(q)
      /\ o.written = FALSE /\ o.running = shells[s].running /\ o.isAlive = shells[s].isAlive
      /\ o.closed = shells[s].closed /\ o.input = shells[s].input
      /\ o.at = shells[s].at /\ o.step = shells[s].step
  <2>1. PICK h : h = Head(q)
    OBVIOUS
  <2>2. PICK p \in Seq(1 .. Len(calls)) : p = Tail(q)
    BY <1>3
  <2>3. h \in 0 .. Len(calls)
    BY <1>1, <1>3, <2>1
  <2>4. o = [shells[s] EXCEPT !.command = h, !.queue = p, !.written = FALSE]
    BY <2>1, <2>2
  <2> HIDE DEF o
  <2>5. QED
    BY <1>1, <2>1, <2>2, <2>3, <2>4 DEF ShellRecord
<1>6. shells' = [shells EXCEPT ![s] = o] /\ UNCHANGED <<instance, calls, status>>
  BY <1>2 DEF TakeCommand
<1> HIDE DEF o
<1>7. Sound(o)
  <2>1. Len(Tail(q)) \in Nat /\ Len(q) \in Nat /\ Len(q) <= QueueCap
    BY <1>1, <1>2, <1>3 DEF Sound
  <2>2. Len(o.queue) <= QueueCap
    BY <1>3, <1>5, <2>1, ShellAssumption
  <2>3. QED
    BY <1>1, <1>2, <1>3, <1>5, <2>2 DEF Sound
<1>8. Agrees(o, s, calls)
  BY <1>1, <1>2, <1>3, <1>5 DEF Agrees
<1>9. QED
  BY <1>5, <1>6, <1>7, <1>8, ShellOnly

\* The result of a command goes to its call, which failed only with a command that was not
\* given to the shell, and is done only when the command ended.
LEMMA DeliverStep ==
  ASSUME ShellInv, NEW s \in Shells, shells[s].command # 0,
         NEW result \in {"done", "error", "interrupted"}, Deliver(s, result),
         result = "error" => ~shells[s].written,
         result = "done" => calls[shells[s].command].ended
  PROVE  ShellInv'
<1>1. shells[s] \in ShellRecord(Len(calls)) /\ Sound(shells[s]) /\ Agrees(shells[s], s, calls)
      /\ Len(calls) \in Nat /\ Calls = 1 .. Len(calls)
  BY ShellFacts DEF ShellInv
<1>2. PICK c \in Calls : c = shells[s].command
  BY <1>1 DEF Agrees, Expects, Calls
<1>3. calls[c] \in CallRecord(Len(shells)) /\ Called(calls[c]) /\ c \in 1 .. MaxCalls
      /\ calls[c].shell = s /\ calls[c].stage = "waiting"
  BY <1>1, <1>2, ShellFacts DEF ShellInv, Agrees, Expects
<1>4. DEFINE r == [calls[c] EXCEPT !.stage = "over", !.result = result]
             o == [shells[s] EXCEPT !.command = 0]
<1>5. /\ calls' = [calls EXCEPT ![c] = r] /\ shells' = [shells EXCEPT ![s] = o]
      /\ status' = [status EXCEPT ![c] = NoFile] /\ instance' = instance
  BY <1>2 DEF Deliver, Finish, StatusFile
<1>6. /\ r \in CallRecord(Len(shells)) /\ r.stage = "over" /\ r.result = result /\ r.shell = s
      /\ r.starts = calls[c].starts /\ r.ended = calls[c].ended
  BY <1>3 DEF CallRecord
<1>7. /\ o \in ShellRecord(Len(calls)) /\ o.queue = shells[s].queue /\ o.command = 0
      /\ o.written = shells[s].written /\ o.running = shells[s].running
      /\ o.isAlive = shells[s].isAlive /\ o.closed = shells[s].closed
      /\ o.input = shells[s].input /\ o.at = shells[s].at /\ o.step = shells[s].step
  <2>1. 0 \in 0 .. Len(calls)
    BY <1>1
  <2>2. QED
    BY <1>1, <2>1 DEF ShellRecord
<1> HIDE DEF r, o
<1>8. result = "error" => calls[c].starts = 0 /\ c \notin ToSet(shells[s].input)
  BY <1>1, <1>2 DEF Agrees, Sound
<1>9. Called(r)
  BY <1>2, <1>3, <1>6, <1>8 DEF Called
<1>10. /\ Len(calls') = Len(calls) /\ calls' \in Seq(CallRecord(Len(shells)))
       /\ calls'[c] = r /\ \A d \in Calls : d # c => calls'[d] = calls[d]
       /\ DOMAIN calls' = DOMAIN calls
  BY <1>5, <1>6, ShellFacts DEF ShellInv, Calls
<1>11. \A d \in Calls : Called(calls'[d])
  BY <1>9, <1>10 DEF ShellInv
<1>12. Sound(o)
  <2>1. ToSet(shells[s].queue) \subseteq 1 .. Len(calls)
    BY <1>1, ShellFields, ToSetIn
  <2>2. 0 \notin ToSet(shells[s].queue)
    BY <2>1
  <2>3. QED
    BY <1>1, <1>7, <2>2 DEF Sound
<1>13. Agrees(o, s, calls')
  <2>1. c \notin ToSet(o.queue)
    BY <1>1, <1>2, <1>7 DEF Sound
  <2>2. \A d \in ToSet(o.queue) : Expects(d, s, calls') /\ calls'[d].starts = 0
    BY <1>1, <1>7, <1>10, <2>1 DEF Agrees, Expects, Calls
  <2>3. ASSUME NEW d, Began(d, s, calls), d = c => result # "error"
        PROVE  Began(d, s, calls') /\ calls'[d].starts = calls[d].starts
               /\ calls'[d].ended = calls[d].ended
    BY <1>6, <1>10, <2>3 DEF Began, Calls
  <2>4. \A d \in ToSet(o.input) : Began(d, s, calls') /\ calls'[d].starts = 0
    BY <1>1, <1>7, <1>8, <2>3 DEF Agrees
  <2>5. o.step # "ready" =>
          Began(o.at, s, calls') /\ calls'[o.at].starts = 1 /\ (o.step = "echo" => calls'[o.at].ended)
    <3>1. SUFFICES ASSUME o.step # "ready"
                   PROVE  Began(o.at, s, calls') /\ calls'[o.at].starts = 1
                          /\ (o.step = "echo" => calls'[o.at].ended)
      OBVIOUS
    <3>2. Began(o.at, s, calls) /\ calls[o.at].starts = 1 /\ (o.step = "echo" => calls[o.at].ended)
      BY <1>1, <1>7, <3>1 DEF Agrees
    <3>3. o.at = c => result # "error"
      BY <1>8, <3>2
    <3>4. QED
      BY <2>3, <3>2, <3>3
  <2>6. QED
    BY <1>7, <2>2, <2>4, <2>5 DEF Agrees
<1>14. DOMAIN status' = 1 .. MaxCalls /\ \A n \in 1 .. MaxCalls : Belongs(status'[n], n, calls')
  <2>1. DOMAIN status = 1 .. MaxCalls /\ \A n \in 1 .. MaxCalls : Belongs(status[n], n, calls)
    BY DEF ShellInv
  <2>2. \A d \in DOMAIN calls : calls[d].ended => calls'[d].ended
    BY <1>6, <1>10 DEF Calls
  <2>3. \A n \in 1 .. MaxCalls : Belongs(status[n], n, calls')
    BY <1>10, <2>1, <2>2, BelongsKept
  <2>4. \A n \in 1 .. MaxCalls : Belongs(NoFile, n, calls')
    <3>1. SUFFICES ASSUME NEW n \in 1 .. MaxCalls PROVE Belongs(NoFile, n, calls')
      OBVIOUS
    <3>2. n # 0
      BY ShellAssumption
    <3>3. QED
      BY <3>2 DEF NoFile, Belongs
  <2>5. QED
    BY <1>3, <1>5, <2>1, <2>3, <2>4
<1>15. \A d \in Calls : calls'[d] # calls[d] =>
          calls[d].shell = s \/ calls[d].stage \notin {"waiting", "over"}
  BY <1>3, <1>10
<1>16. QED
  BY <1>5, <1>7, <1>10, <1>11, <1>12, <1>13, <1>14, <1>15, OneShell

LEMMA WriteCommandStep ==
  ASSUME ShellInv, NEW s \in Shells, WriteCommand(s)
  PROVE  ShellInv'
<1>1. shells[s] \in ShellRecord(Len(calls)) /\ Sound(shells[s]) /\ Agrees(shells[s], s, calls)
      /\ Len(calls) \in Nat /\ shells[s].command # 0 /\ ~shells[s].written
  BY ShellFacts DEF ShellInv, WriteCommand
<1>2. CASE shells[s].isAlive /\ shells[s].running
  <2>1. PICK q \in Seq(1 .. Len(calls)) : q = shells[s].input
    BY <1>1, ShellFields
  <2>2. PICK c \in 1 .. Len(calls) : c = shells[s].command
    BY <1>1, ShellFields
  <2>3. /\ Append(q, c) \in Seq(1 .. Len(calls)) /\ Once(Append(q, c))
        /\ ToSet(Append(q, c)) = ToSet(q) \cup {c}
    BY <1>1, <2>1, <2>2, OnceAppend DEF Sound
  <2>4. DEFINE o == [shells[s] EXCEPT !.written = TRUE, !.input = Append(q, c)]
  <2>5. /\ o \in ShellRecord(Len(calls)) /\ o.queue = shells[s].queue /\ o.command = c
        /\ o.written = TRUE /\ o.running = shells[s].running /\ o.isAlive = shells[s].isAlive
        /\ o.closed = shells[s].closed /\ o.input = Append(q, c)
        /\ o.at = shells[s].at /\ o.step = shells[s].step
    BY <1>1, <2>2, <2>3 DEF ShellRecord
  <2>6. shells' = [shells EXCEPT ![s] = o] /\ UNCHANGED <<instance, calls, status>>
    BY <1>2, <2>1, <2>2 DEF WriteCommand
  <2> HIDE DEF o
  <2>7. Sound(o)
    BY <1>1, <2>1, <2>2, <2>3, <2>5 DEF Sound
  <2>8. Agrees(o, s, calls)
    <3>1. calls[c] \in CallRecord(Len(shells)) /\ Called(calls[c]) /\ Expects(c, s, calls)
          /\ calls[c].starts = 0
      BY <1>1, <2>2, ShellFacts DEF ShellInv, Agrees
    <3>2. Began(c, s, calls)
      BY <3>1 DEF Began, Expects, Called, CallRecord
    <3>3. QED
      BY <1>1, <2>1, <2>2, <2>3, <2>5, <3>1, <3>2 DEF Agrees
  <2>9. QED
    BY <2>5, <2>6, <2>7, <2>8, ShellOnly
<1>3. CASE ~(shells[s].isAlive /\ shells[s].running)
  BY <1>1, <1>3, DeliverStep DEF WriteCommand
<1>4. QED
  BY <1>2, <1>3

LEMMA PollStep ==
  ASSUME ShellInv, NEW s \in Shells, Poll(s)
  PROVE  ShellInv'
<1>1. shells[s].command # 0 /\ Agrees(shells[s], s, calls) /\ PollFinds(shells[s].command)
      /\ Deliver(s, Told(shells[s].command))
  BY DEF ShellInv, Poll
<1>2. PICK c \in 1 .. MaxCalls : c = shells[s].command
  BY <1>1, ShellFacts DEF Agrees, Expects, Calls
<1>3. Belongs(status[c], c, calls)
  BY DEF ShellInv
<1>4. status[c].size = 1 /\ status[c].of = c /\ calls[c].ended
  BY <1>1, <1>2, <1>3 DEF PollFinds, StatusFile, Belongs
<1>5. Told(c) = "done"
  BY <1>4 DEF Told, StatusFile
<1>6. QED
  BY <1>1, <1>2, <1>4, <1>5, DeliverStep

LEMMA InterruptStep ==
  ASSUME ShellInv, NEW s \in Shells, Interrupt(s)
  PROVE  ShellInv'
  BY DeliverStep DEF Interrupt

\* What changes in the calls when the shell starts or ends the command of c.
LEMMA RunsCall ==
  ASSUME ShellInv, NEW s \in Shells, NEW c, Began(c, s, calls),
         NEW r \in CallRecord(Len(shells)), calls' = [calls EXCEPT ![c] = r],
         r.stage = calls[c].stage, r.shell = calls[c].shell, r.result = calls[c].result,
         r.starts = 1, calls[c].ended => r.ended
  PROVE  /\ c \in Calls /\ c \in 1 .. MaxCalls /\ DOMAIN calls' = DOMAIN calls
         /\ calls' \in Seq(CallRecord(Len(shells))) /\ Len(calls') = Len(calls)
         /\ calls'[c] = r /\ \A d \in Calls : d # c => calls'[d] = calls[d]
         /\ \A d \in Calls : Called(calls'[d])
         /\ \A d \in Calls : calls'[d] # calls[d] =>
              calls[d].shell = s \/ calls[d].stage \notin {"waiting", "over"}
         /\ \A d : Began(d, s, calls) => Began(d, s, calls')
         /\ \A d : Expects(d, s, calls) => Expects(d, s, calls')
         /\ \A n \in 1 .. MaxCalls : Belongs(status[n], n, calls')
<1>1. c \in Calls /\ calls[c] \in CallRecord(Len(shells)) /\ Called(calls[c]) /\ c \in 1 .. MaxCalls
      /\ calls[c].shell = s
  BY ShellFacts DEF ShellInv, Began, Calls
<1>2. /\ calls' \in Seq(CallRecord(Len(shells))) /\ Len(calls') = Len(calls)
      /\ calls'[c] = r /\ \A d \in Calls : d # c => calls'[d] = calls[d]
      /\ DOMAIN calls' = DOMAIN calls
  BY <1>1, ShellFacts DEF ShellInv, Calls
<1>3. Called(r)
  BY <1>1 DEF Called, Began, CallRecord
<1>4. \A d \in Calls : Called(calls'[d])
  BY <1>2, <1>3 DEF ShellInv
<1>5. \A d : /\ Began(d, s, calls) => Began(d, s, calls')
             /\ Expects(d, s, calls) => Expects(d, s, calls')
  BY <1>2 DEF Began, Expects, Calls
<1>6. ASSUME NEW n \in 1 .. MaxCalls PROVE Belongs(status[n], n, calls')
  <2>1. Belongs(status[n], n, calls)
    BY SMTT(40) DEF ShellInv
  <2>2. \A d \in DOMAIN calls : calls[d].ended => calls'[d].ended
    BY <1>2, SMTT(40) DEF Calls
  <2>3. QED
    BY <1>2, <2>1, <2>2, BelongsKept
<1>7. QED
  BY <1>1, <1>2, <1>4, <1>5, <1>6

LEMMA StartStep ==
  ASSUME ShellInv, NEW s \in Shells, Run(s), shells[s].step = "ready"
  PROVE  ShellInv'
<1>0. /\ shells[s].input # <<>> /\ status' = status /\ instance' = instance
      /\ shells' = [shells EXCEPT ![s].at = Head(shells[s].input), ![s].input = Tail(@),
                                  ![s].step = "eval"]
      /\ calls' = [calls EXCEPT ![Head(shells[s].input)].starts = @ + 1]
  BY DEF Run
<1>1. shells[s] \in ShellRecord(Len(calls)) /\ Sound(shells[s]) /\ Agrees(shells[s], s, calls)
      /\ Len(calls) \in Nat
  BY ShellFacts DEF ShellInv
<1>2. PICK q \in Seq(1 .. Len(calls)) : q = shells[s].input /\ q # <<>>
  BY <1>0, <1>1, ShellFields
<1>3. /\ Tail(q) \in Seq(1 .. Len(calls)) /\ Once(Tail(q)) /\ Head(q) \in 1 .. Len(calls)
      /\ Head(q) \in ToSet(q) /\ ToSet(Tail(q)) = ToSet(q) \ {Head(q)}
  BY <1>1, <1>2, OnceTail DEF Sound
<1>4. PICK c \in 1 .. Len(calls) : c = Head(q)
  BY <1>3
<1>5. Began(c, s, calls) /\ calls[c].starts = 0 /\ c \in Calls
  BY <1>1, <1>2, <1>3, <1>4, ShellFacts DEF Agrees
<1>6. calls[c] \in CallRecord(Len(shells)) /\ Called(calls[c])
  BY <1>5, ShellFacts DEF ShellInv
<1>7. DEFINE r == [calls[c] EXCEPT !.starts = 1]
             o == [shells[s] EXCEPT !.at = c, !.input = Tail(q), !.step = "eval"]
<1>8. shells' = [shells EXCEPT ![s] = o] /\ calls' = [calls EXCEPT ![c] = r]
  <2>1. shells' = [shells EXCEPT ![s] = o]
    BY <1>0, <1>2, <1>4
  <2>2. Head(shells[s].input) = c
    BY <1>2, <1>4
  <2>3. calls' = [calls EXCEPT ![c].starts = calls[c].starts + 1]
    BY <1>0, <2>2
  <2>4. calls[c].starts + 1 = 1
    BY <1>5
  <2>5. QED
    BY <2>1, <2>3, <2>4
<1>9. /\ r \in CallRecord(Len(shells)) /\ r.stage = calls[c].stage /\ r.result = calls[c].result
      /\ r.shell = calls[c].shell /\ r.starts = 1 /\ r.ended = calls[c].ended
  <2>1. r = [calls[c] EXCEPT !.starts = 1]
    OBVIOUS
  <2> HIDE DEF r, o
  <2>2. QED
    BY <1>6, <2>1 DEF CallRecord
<1>10. /\ o \in ShellRecord(Len(calls)) /\ o.queue = shells[s].queue /\ o.input = Tail(q)
       /\ o.command = shells[s].command /\ o.written = shells[s].written
       /\ o.running = shells[s].running /\ o.isAlive = shells[s].isAlive
       /\ o.closed = shells[s].closed /\ o.at = c /\ o.step = "eval"
  <2>1. c \in 0 .. Len(calls)
    BY <1>1
  <2>2. PICK p \in Seq(1 .. Len(calls)) : p = Tail(q)
    BY <1>3
  <2>3. o = [shells[s] EXCEPT !.at = c, !.input = p, !.step = "eval"]
    BY <2>2
  <2> HIDE DEF o, r
  <2>4. QED
    BY <1>1, <2>1, <2>2, <2>3 DEF ShellRecord
<1> HIDE DEF r, o
<1>11. /\ DOMAIN calls' = DOMAIN calls
       /\ calls' \in Seq(CallRecord(Len(shells))) /\ Len(calls') = Len(calls)
       /\ calls'[c] = r /\ \A d \in Calls : d # c => calls'[d] = calls[d]
       /\ \A d \in Calls : Called(calls'[d])
       /\ \A d \in Calls : calls'[d] # calls[d] =>
            calls[d].shell = s \/ calls[d].stage \notin {"waiting", "over"}
       /\ \A d : Began(d, s, calls) => Began(d, s, calls')
       /\ \A d : Expects(d, s, calls) => Expects(d, s, calls')
       /\ \A n \in 1 .. MaxCalls : Belongs(status[n], n, calls')
  <2>1. /\ Began(c, s, calls) /\ calls' = [calls EXCEPT ![c] = r] /\ r \in CallRecord(Len(shells))
        /\ r.stage = calls[c].stage /\ r.shell = calls[c].shell /\ r.result = calls[c].result
        /\ r.starts = 1 /\ (calls[c].ended => r.ended)
    BY <1>5, <1>8, <1>9
  <2>2. QED
    BY <2>1, RunsCall, ZenonT(60)
<1>12. Sound(o)
  BY <1>1, <1>2, <1>3, <1>10 DEF Sound
<1>13. Agrees(o, s, calls')
  <2>1. \A d \in ToSet(o.queue) : d # c /\ Expects(d, s, calls) /\ calls[d].starts = 0
    BY <1>1, <1>2, <1>3, <1>4, <1>10 DEF Agrees, Sound
  <2>2. \A d \in ToSet(o.input) : d # c /\ Began(d, s, calls) /\ calls[d].starts = 0
    BY <1>1, <1>2, <1>3, <1>4, <1>10 DEF Agrees
  <2>3. o.command # 0 => /\ Expects(o.command, s, calls)
                         /\ ~o.written => o.command # c /\ calls[o.command].starts = 0
    BY <1>1, <1>2, <1>3, <1>4, <1>10 DEF Agrees, Sound
  <2>4. \A d : Expects(d, s, calls) \/ Began(d, s, calls) => d \in Calls
    BY DEF Expects, Began, Calls
  <2>5. Began(c, s, calls') /\ calls'[c].starts = 1
    BY <1>5, <1>9, <1>11
  <2>6. ASSUME NEW d \in ToSet(o.queue) PROVE Expects(d, s, calls') /\ calls'[d].starts = 0
    BY <1>11, <2>1, <2>4
  <2>7. ASSUME NEW d \in ToSet(o.input) PROVE Began(d, s, calls') /\ calls'[d].starts = 0
    BY <1>11, <2>2, <2>4
  <2>8. ASSUME o.command # 0
        PROVE  Expects(o.command, s, calls') /\ (~o.written => calls'[o.command].starts = 0)
    BY <1>11, <2>3, <2>4, <2>8
  <2>9. o.at = c /\ o.step = "eval"
    BY <1>10, SMTT(40)
  <2>10. QED
    BY <2>5, <2>6, <2>7, <2>8, <2>9 DEF Agrees
<1>14. DOMAIN status' = 1 .. MaxCalls /\ \A n \in 1 .. MaxCalls : Belongs(status'[n], n, calls')
  BY <1>0, <1>11, ZenonT(60) DEF ShellInv
<1>15. QED
  BY <1>0, <1>8, <1>10, <1>11, <1>12, <1>13, <1>14, OneShell

LEMMA EvaluatedStep ==
  ASSUME ShellInv, NEW s \in Shells, Run(s), shells[s].step = "eval"
  PROVE  ShellInv'
<1>0. /\ shells' = [shells EXCEPT ![s].step = "echo"] /\ instance' = instance
      /\ calls' = [calls EXCEPT ![shells[s].at].ended = TRUE]
      /\ status' = [status EXCEPT ![StatusFile(shells[s].at)] = [of |-> shells[s].at, size |-> 0]]
  BY DEF Run
<1>1. shells[s] \in ShellRecord(Len(calls)) /\ Sound(shells[s]) /\ Agrees(shells[s], s, calls)
      /\ Len(calls) \in Nat
  BY ShellFacts DEF ShellInv
<1>2. PICK c \in 1 .. Len(calls) : c = shells[s].at
  BY <1>0, <1>1, ShellFacts DEF Agrees, Began, Calls
<1>3. Began(c, s, calls) /\ calls[c].starts = 1 /\ c \in Calls
  BY <1>0, <1>1, <1>2, ShellFacts DEF Agrees
<1>4. calls[c] \in CallRecord(Len(shells)) /\ Called(calls[c])
  BY <1>3, ShellFacts DEF ShellInv
<1>5. DEFINE r == [calls[c] EXCEPT !.ended = TRUE]
             o == [shells[s] EXCEPT !.step = "echo"]
<1>6. /\ shells' = [shells EXCEPT ![s] = o] /\ calls' = [calls EXCEPT ![c] = r]
      /\ status' = [status EXCEPT ![c] = [of |-> c, size |-> 0]]
  BY <1>0, <1>2 DEF StatusFile
<1>7. /\ r \in CallRecord(Len(shells)) /\ r.stage = calls[c].stage /\ r.result = calls[c].result
      /\ r.shell = calls[c].shell /\ r.starts = 1 /\ r.ended = TRUE
  BY <1>3, <1>4 DEF CallRecord
<1>8. /\ o \in ShellRecord(Len(calls)) /\ o.queue = shells[s].queue /\ o.input = shells[s].input
      /\ o.command = shells[s].command /\ o.written = shells[s].written
      /\ o.running = shells[s].running /\ o.isAlive = shells[s].isAlive
      /\ o.closed = shells[s].closed /\ o.at = c /\ o.step = "echo"
  BY <1>1, <1>2 DEF ShellRecord
<1> HIDE DEF r, o
<1>9. /\ DOMAIN calls' = DOMAIN calls
      /\ calls' \in Seq(CallRecord(Len(shells))) /\ Len(calls') = Len(calls)
      /\ calls'[c] = r /\ \A d \in Calls : d # c => calls'[d] = calls[d]
      /\ \A d \in Calls : Called(calls'[d])
      /\ \A d \in Calls : calls'[d] # calls[d] =>
           calls[d].shell = s \/ calls[d].stage \notin {"waiting", "over"}
      /\ \A d : Began(d, s, calls) => Began(d, s, calls')
      /\ \A d : Expects(d, s, calls) => Expects(d, s, calls')
      /\ \A n \in 1 .. MaxCalls : Belongs(status[n], n, calls')
  <2>1. /\ Began(c, s, calls) /\ calls' = [calls EXCEPT ![c] = r] /\ r \in CallRecord(Len(shells))
        /\ r.stage = calls[c].stage /\ r.shell = calls[c].shell /\ r.result = calls[c].result
        /\ r.starts = 1 /\ (calls[c].ended => r.ended)
    BY <1>3, <1>6, <1>7
  <2>2. QED
    BY <2>1, RunsCall, ZenonT(60)
<1>10. Sound(o)
  BY <1>1, <1>8 DEF Sound
<1>11. Agrees(o, s, calls')
  <2>1. \A d \in Calls : calls'[d].starts = calls[d].starts
    BY <1>3, <1>7, <1>9
  <2>2. \A d : Expects(d, s, calls) \/ Began(d, s, calls) => d \in Calls
    BY DEF Expects, Began, Calls
  <2>3. Began(c, s, calls') /\ calls'[c].starts = 1 /\ calls'[c].ended
    BY <1>3, <1>7, <1>9
  <2>4. /\ \A d \in ToSet(o.queue) : Expects(d, s, calls) /\ calls[d].starts = 0
        /\ \A d \in ToSet(o.input) : Began(d, s, calls) /\ calls[d].starts = 0
        /\ o.command # 0 => Expects(o.command, s, calls) /\ (~o.written => calls[o.command].starts = 0)
    BY <1>1, <1>8 DEF Agrees
  <2>5. ASSUME NEW d \in ToSet(o.queue) PROVE Expects(d, s, calls') /\ calls'[d].starts = 0
    BY <1>9, <2>1, <2>2, <2>4
  <2>6. ASSUME NEW d \in ToSet(o.input) PROVE Began(d, s, calls') /\ calls'[d].starts = 0
    BY <1>9, <2>1, <2>2, <2>4
  <2>7. ASSUME o.command # 0
        PROVE  Expects(o.command, s, calls') /\ (~o.written => calls'[o.command].starts = 0)
    BY <1>9, <2>1, <2>2, <2>4, <2>7
  <2>8. o.at = c /\ o.step = "echo"
    BY <1>8
  <2>9. QED
    BY <2>3, <2>5, <2>6, <2>7, <2>8 DEF Agrees
<1>12. DOMAIN status' = 1 .. MaxCalls /\ \A n \in 1 .. MaxCalls : Belongs(status'[n], n, calls')
  <2>1. Belongs([of |-> c, size |-> 0], c, calls')
    BY <1>7, <1>9 DEF Belongs, Calls
  <2>2. DOMAIN status = 1 .. MaxCalls
    BY DEF ShellInv
  <2>3. c \in 1 .. MaxCalls
    BY <1>3, ShellFacts DEF ShellInv, Calls
  <2>4. QED
    BY <1>6, <1>9, <2>1, <2>2, <2>3
<1>13. QED
  BY <1>0, <1>6, <1>8, <1>9, <1>10, <1>11, <1>12, OneShell

LEMMA EchoedStep ==
  ASSUME ShellInv, NEW s \in Shells, Run(s), shells[s].step = "echo"
  PROVE  ShellInv'
<1>0. /\ shells' = [shells EXCEPT ![s].step = "ready"] /\ calls' = calls /\ instance' = instance
      /\ status' = [status EXCEPT ![StatusFile(shells[s].at)] = [of |-> shells[s].at, size |-> 1]]
  BY DEF Run
<1>1. shells[s] \in ShellRecord(Len(calls)) /\ Sound(shells[s]) /\ Agrees(shells[s], s, calls)
      /\ Len(calls) \in Nat
  BY ShellFacts DEF ShellInv
<1>2. PICK c \in Calls : c = shells[s].at
  BY <1>1 DEF Agrees, Began, Calls
<1>3. c \in 1 .. MaxCalls /\ calls[c].ended
  BY <1>1, <1>2, ShellFacts DEF Agrees
<1>4. DEFINE o == [shells[s] EXCEPT !.step = "ready"]
<1>5. shells' = [shells EXCEPT ![s] = o] /\ status' = [status EXCEPT ![c] = [of |-> c, size |-> 1]]
  BY <1>0, <1>2 DEF StatusFile
<1>6. /\ o \in ShellRecord(Len(calls)) /\ o.queue = shells[s].queue /\ o.input = shells[s].input
      /\ o.command = shells[s].command /\ o.written = shells[s].written
      /\ o.running = shells[s].running /\ o.isAlive = shells[s].isAlive
      /\ o.closed = shells[s].closed /\ o.at = shells[s].at /\ o.step = "ready"
  BY <1>1, ZenonT(60) DEF ShellRecord
<1> HIDE DEF o
<1>7. Sound(o) /\ Agrees(o, s, calls')
  BY <1>0, <1>1, <1>6 DEF Sound, Agrees
<1>8. DOMAIN status' = 1 .. MaxCalls /\ \A n \in 1 .. MaxCalls : Belongs(status'[n], n, calls')
  <2>1. DOMAIN status = 1 .. MaxCalls /\ \A n \in 1 .. MaxCalls : Belongs(status[n], n, calls)
    BY DEF ShellInv
  <2>2. Belongs([of |-> c, size |-> 1], c, calls)
    BY <1>3 DEF Belongs, Calls
  <2>3. QED
    BY <1>0, <1>3, <1>5, <2>1, <2>2
<1>9. calls' \in Seq(CallRecord(Len(shells))) /\ \A d \in Calls : Called(calls'[d])
  BY <1>0, SMTT(40) DEF ShellInv
<1>10. QED
  BY <1>0, <1>5, <1>6, <1>7, <1>8, <1>9, OneShell

LEMMA RunStep ==
  ASSUME ShellInv, NEW s \in Shells, Run(s)
  PROVE  ShellInv'
  BY StartStep, EvaluatedStep, EchoedStep DEF Run

LEMMA ExitStep ==
  ASSUME ShellInv, NEW s \in Shells, Exit(s) \/ Reap(s)
  PROVE  ShellInv'
<1>1. shells[s] \in ShellRecord(Len(calls)) /\ Sound(shells[s]) /\ Agrees(shells[s], s, calls)
  BY ShellFacts DEF ShellInv
<1>2. ASSUME NEW o, o \in ShellRecord(Len(calls)), shells' = [shells EXCEPT ![s] = o],
             UNCHANGED <<instance, calls, status>>,
             o.queue = shells[s].queue, o.input = shells[s].input, o.command = shells[s].command,
             o.written = shells[s].written, o.at = shells[s].at, o.step = shells[s].step,
             o.closed => ~o.isAlive /\ ~o.running
      PROVE  ShellInv'
  <2>1. Sound(o) /\ Agrees(o, s, calls)
    BY <1>1, <1>2 DEF Sound, Agrees
  <2>2. QED
    BY <1>2, <2>1, ShellOnly
<1>3. CASE Exit(s)
  <2>1. DEFINE o == [shells[s] EXCEPT !.running = FALSE]
  <2>2. shells' = [shells EXCEPT ![s] = o] /\ UNCHANGED <<instance, calls, status>>
    BY <1>3 DEF Exit
  <2>3. /\ o \in ShellRecord(Len(calls)) /\ o.queue = shells[s].queue /\ o.input = shells[s].input
        /\ o.command = shells[s].command /\ o.written = shells[s].written
        /\ o.at = shells[s].at /\ o.step = shells[s].step
        /\ o.running = FALSE /\ o.isAlive = shells[s].isAlive /\ o.closed = shells[s].closed
    BY <1>1 DEF ShellRecord
  <2> HIDE DEF o
  <2>4. o.closed => ~o.isAlive /\ ~o.running
    BY <1>1, <2>3 DEF Sound
  <2>5. QED
    BY <1>2, <2>2, <2>3, <2>4
<1>4. CASE Reap(s)
  <2>1. DEFINE o == [shells[s] EXCEPT !.isAlive = FALSE, !.closed = ~shells[s].isAlive]
  <2>2. shells' = [shells EXCEPT ![s] = o] /\ UNCHANGED <<instance, calls, status>>
        /\ ~shells[s].running
    BY <1>4 DEF Reap
  <2>3. /\ o \in ShellRecord(Len(calls)) /\ o.queue = shells[s].queue /\ o.input = shells[s].input
        /\ o.command = shells[s].command /\ o.written = shells[s].written
        /\ o.at = shells[s].at /\ o.step = shells[s].step
        /\ o.running = shells[s].running /\ o.isAlive = FALSE
    BY <1>1 DEF ShellRecord
  <2> HIDE DEF o
  <2>4. QED
    BY <1>2, <2>2, <2>3
<1>5. QED
  BY <1>3, <1>4

\* What a call has, whatever its shell, and what is in a shell's queue, at its goroutine and
\* in its input, fit together (shell.go:47-58, 109-137, 139-288).
THEOREM ShellInvariant == ShellSpec => []ShellInv
<1>1. ShellInit => ShellInv
  BY ShellInitHolds
<1>2. ShellInv /\ [ShellNext]_shellVars => ShellInv'
  <2>1. SUFFICES ASSUME ShellInv, [ShellNext]_shellVars PROVE ShellInv'
    OBVIOUS
  <2>2. CASE LookUp
    BY <2>1, <2>2, LookUpStep
  <2>3. ASSUME NEW c \in Calls, Replace(c) \/ Enter(c) \/ Enqueue(c) PROVE ShellInv'
    BY <2>1, <2>3, ReplaceStep, EnterStep, EnqueueStep
  <2>4. ASSUME NEW s \in Shells, Work(s) PROVE ShellInv'
    BY <2>1, <2>4, TakeCommandStep, WriteCommandStep, PollStep, InterruptStep DEF Work
  <2>5. ASSUME NEW s \in Shells, Run(s) \/ Exit(s) \/ Reap(s) PROVE ShellInv'
    BY <2>1, <2>5, RunStep, ExitStep
  <2>6. CASE UNCHANGED shellVars
    BY <2>1, <2>6 DEF shellVars, ShellInv, Shells, Calls
  <2>7. QED
    BY <2>1, <2>2, <2>3, <2>4, <2>5, <2>6 DEF ShellNext
<1>3. QED
  BY <1>1, <1>2, PTL DEF ShellSpec

\* Every call is told what became of its own command, which ran once and to its end when
\* there is an exit code and never when the call fails, while shells die, are replaced,
\* and go on with commands that timed out (shell.go:139-244, 271-288).
THEOREM CallsAreTold == ShellSpec => []ShellTellsTruth
<1>1. ShellInv => ShellTellsTruth
  <2>1. SUFFICES ASSUME ShellInv PROVE ShellTellsTruth
    OBVIOUS
  <2>2. ResultsTrue
    <3>1. SUFFICES ASSUME NEW c \in Calls
                   PROVE  /\ calls[c].starts <= 1
                          /\ calls[c].result = "done" => calls[c].starts = 1 /\ calls[c].ended
                          /\ calls[c].result \in {"error", "panic"} => calls[c].starts = 0
                          /\ calls[c].result \notin {"zero", "other"}
      BY DEF ResultsTrue
    <3>2. calls[c] \in CallRecord(Len(shells)) /\ Called(calls[c])
      BY <2>1, ShellFacts DEF ShellInv
    <3>3. QED
      BY <3>2 DEF CallRecord, Called
  <2>3. ASSUME NEW c \in Calls
        PROVE  /\ calls[c].stage \in {"replacing", "found", "sending", "waiting", "over"}
               /\ calls[c].result \in {"none", "done", "error", "interrupted", "panic", "zero", "other"}
               /\ calls[c].stage = "over" <=> calls[c].result # "none"
    <3>1. calls[c] \in CallRecord(Len(shells)) /\ Called(calls[c])
      BY <2>1, ShellFacts DEF ShellInv
    <3>2. QED
      BY <3>1 DEF CallRecord, Called
  <2>4. ASSUME NEW s \in Shells
        PROVE  /\ Len(shells[s].queue) <= QueueCap
               /\ shells[s].closed => ~shells[s].isAlive /\ ~shells[s].running
               /\ \A n \in ToSet(shells[s].queue) \cup ({shells[s].command} \ {0}) :
                    n \in Calls /\ calls[n].stage = "waiting" /\ calls[n].shell = s
    BY <2>1 DEF ShellInv, Sound, Agrees, Expects, Calls
  <2>5. ShellTypeOK
    BY <2>1, <2>3, <2>4 DEF ShellTypeOK, ShellInv
  <2>6. QED
    BY <2>2, <2>5 DEF ShellTellsTruth
<1>2. QED
  BY <1>1, ShellInvariant, PTL
-----------------------------------------------------------------------------
(* A call that waits comes nearer its answer. *)

LEMMA TailFacts ==
  ASSUME NEW S, NEW q \in Seq(S), q # <<>>
  PROVE  /\ Head(q) = q[1] /\ Head(q) \in S /\ Len(q) \in Nat /\ Len(q) > 0
         /\ DOMAIN q = 1 .. Len(q) /\ DOMAIN Tail(q) = 1 .. Len(q) - 1
         /\ \A i \in 1 .. Len(q) - 1 : Tail(q)[i] = q[i + 1]
<1>1. Tail(q) \in Seq(S) /\ Len(Tail(q)) = Len(q) - 1 /\ Len(q) \in Nat /\ Len(q) > 0
  OBVIOUS
<1>2. DOMAIN q = 1 .. Len(q) /\ DOMAIN Tail(q) = 1 .. Len(q) - 1
  BY <1>1
<1>3. QED
  BY <1>1, <1>2

\* A place in a shell's queue.
LEMMA PlaceFacts ==
  ASSUME NEW n \in Nat, NEW o \in ShellRecord(n), NEW i \in DOMAIN o.queue
  PROVE  i \in Nat /\ i > 0 /\ i <= Len(o.queue) /\ Len(o.queue) \in Nat
<1>1. PICK q \in Seq(1 .. n) : q = o.queue
  BY ShellFields
<1>2. Len(q) \in Nat /\ DOMAIN q = 1 .. Len(q)
  BY <1>1
<1>3. QED
  BY <1>1, <1>2

\* A waiting call has a shell, and is not the number for none.
LEMMA WaiterFacts ==
  ASSUME ShellInv, NEW c \in Calls, calls[c].stage = "waiting"
  PROVE  calls[c].shell \in Shells /\ c # 0 /\ calls[c] \in CallRecord(Len(shells))
<1>1. calls[c] \in CallRecord(Len(shells)) /\ Called(calls[c]) /\ c \in 1 .. Len(calls)
  BY ShellFacts DEF ShellInv
<1>2. QED
  BY <1>1, ShellFacts DEF CallRecord, Called

\* When the goroutine takes a command, whoever is in the queue comes one step nearer.
LEMMA TakingServes ==
  ASSUME ShellInv, NEW s \in Shells, TakeCommand(s), NEW c \in Calls, NEW n \in Nat,
         AnsweredIn(shells[s], c, n)
  PROVE  \E m \in 1 .. n : m < n /\ AnsweredIn(shells'[s], c, m)
<1>1. /\ shells[s] \in ShellRecord(Len(calls)) /\ Len(calls) \in Nat /\ shells[s].command = 0
      /\ c # 0
  BY ShellFacts DEF TakeCommand
<1>2. PICK q \in Seq(1 .. Len(calls)) : q = shells[s].queue /\ q # <<>>
  BY <1>1, ShellFields DEF TakeCommand
<1>3. PICK o : o = shells'[s]
  OBVIOUS
<1>4. o.queue = Tail(q) /\ o.command = Head(q) /\ o.written = FALSE
  BY <1>1, <1>2, <1>3, ShellFacts DEF TakeCommand, ShellRecord
<1>5. /\ Head(q) = q[1] /\ Head(q) \in 1 .. Len(calls) /\ Len(q) \in Nat
      /\ DOMAIN q = 1 .. Len(q) /\ DOMAIN Tail(q) = 1 .. Len(q) - 1
      /\ \A i \in 1 .. Len(q) - 1 : Tail(q)[i] = q[i + 1]
  BY <1>2, TailFacts
<1>6. Busy(shells[s]) = 0 /\ Busy(o) = 2
  BY <1>1, <1>4, <1>5 DEF Busy
<1>7. PICK i \in 1 .. Len(q) : q[i] = c /\ n = 3 * i
  BY <1>1, <1>2, <1>5, <1>6 DEF AnsweredIn
<1>8. CASE i = 1
  <2>1. 2 \in 1 .. n /\ 2 < n /\ o.command = c
    BY <1>4, <1>5, <1>7, <1>8
  <2>2. QED
    BY <1>3, <1>6, <2>1 DEF AnsweredIn
<1>9. CASE i # 1
  <2>1. PICK j \in 1 .. Len(q) - 1 : i = j + 1
    <3>1. i - 1 \in 1 .. Len(q) - 1 /\ i = (i - 1) + 1
      BY <1>5, <1>7, <1>9
    <3>2. QED
      BY <3>1
  <2>2. j \in DOMAIN o.queue /\ o.queue[j] = c
    BY <1>4, <1>5, <1>7, <2>1
  <2>3. 3 * j + 2 \in 1 .. n /\ 3 * j + 2 < n
    BY <1>5, <1>7, <2>1
  <2>4. QED
    BY <1>3, <1>6, <2>2, <2>3 DEF AnsweredIn
<1>10. QED
  BY <1>8, <1>9

\* When the goroutine is done with a command, its call has its answer and the others are nearer.
LEMMA DeliveryServes ==
  ASSUME ShellInv, NEW s \in Shells, shells[s].command # 0, NEW result, Deliver(s, result),
         NEW c \in Calls, NEW n \in Nat, AnsweredIn(shells[s], c, n)
  PROVE  \/ calls'[c].stage = "over"
         \/ calls'[c] = calls[c] /\ \E m \in 1 .. n : m < n /\ AnsweredIn(shells'[s], c, m)
<1>1. /\ shells[s] \in ShellRecord(Len(calls)) /\ Len(calls) \in Nat /\ c \in 1 .. Len(calls)
      /\ calls \in Seq(CallRecord(Len(shells))) /\ calls[c] \in CallRecord(Len(shells))
  BY ShellFacts DEF ShellInv
<1>2. CASE shells[s].command = c
  BY <1>1, <1>2 DEF Deliver, Finish, CallRecord
<1>3. CASE shells[s].command # c
  <2>1. calls'[c] = calls[c]
    BY <1>1, <1>3 DEF Deliver, Finish
  <2>2. PICK o : o = shells'[s]
    OBVIOUS
  <2>3. o.queue = shells[s].queue /\ o.command = 0
    BY <1>1, <2>2, ShellFacts DEF Deliver, ShellRecord
  <2>4. Busy(o) = 0 /\ Busy(shells[s]) \in 1 .. 2
    BY <2>3 DEF Busy
  <2>5. PICK i \in DOMAIN shells[s].queue : shells[s].queue[i] = c /\ n = 3 * i + Busy(shells[s])
    BY <1>3 DEF AnsweredIn
  <2>6. i \in Nat /\ i > 0
    BY <1>1, <2>5, PlaceFacts
  <2>7. 3 * i + 0 \in 1 .. n /\ 3 * i + 0 < n
    BY <2>4, <2>5, <2>6
  <2>8. AnsweredIn(o, c, 3 * i + 0)
    BY <2>3, <2>4, <2>5 DEF AnsweredIn
  <2>9. QED
    BY <2>1, <2>2, <2>7, <2>8
<1>4. QED
  BY <1>2, <1>3

LEMMA WorkServes ==
  ASSUME ShellInv, NEW s \in Shells, Work(s), NEW c \in Calls, NEW n \in Nat,
         AnsweredIn(shells[s], c, n)
  PROVE  \/ calls'[c].stage = "over"
         \/ calls'[c] = calls[c] /\ \E m \in 1 .. n : m < n /\ AnsweredIn(shells'[s], c, m)
<1>1. CASE TakeCommand(s)
  <2>1. calls' = calls
    BY <1>1 DEF TakeCommand
  <2>2. QED
    BY <1>1, <2>1, TakingServes
<1>2. CASE WriteCommand(s)
  <2>1. CASE ~(shells[s].isAlive /\ shells[s].running)
    BY <1>2, <2>1, DeliveryServes DEF WriteCommand
  <2>2. CASE shells[s].isAlive /\ shells[s].running
    <3>1. PICK o : o = shells'[s]
      OBVIOUS
    <3>2. /\ shells[s] \in ShellRecord(Len(calls)) /\ shells[s].command # 0 /\ ~shells[s].written
          /\ calls' = calls
      BY <1>2, <2>2, ShellFacts DEF WriteCommand
    <3>3. o.queue = shells[s].queue /\ o.command = shells[s].command /\ o.written = TRUE
      BY <1>2, <2>2, <3>1, <3>2, ShellFacts DEF WriteCommand, ShellRecord
    <3>4. Busy(o) = 1 /\ Busy(shells[s]) = 2
      BY <3>2, <3>3 DEF Busy
    <3>5. CASE shells[s].command = c /\ n = 2
      <4>1. 1 \in 1 .. n /\ 1 < n /\ AnsweredIn(o, c, 1)
        BY <3>3, <3>4, <3>5 DEF AnsweredIn
      <4>2. QED
        BY <3>1, <3>2, <4>1
    <3>6. ASSUME NEW i \in DOMAIN shells[s].queue, shells[s].queue[i] = c, n = 3 * i + 2
          PROVE  \E m \in 1 .. n : m < n /\ AnsweredIn(o, c, m)
      <4>1. i \in Nat /\ i > 0
        BY <3>2, <3>6, PlaceFacts, ShellFacts
      <4>2. 3 * i + 1 \in 1 .. n /\ 3 * i + 1 < n
        BY <3>6, <4>1
      <4>3. AnsweredIn(o, c, 3 * i + 1)
        BY <3>3, <3>4, <3>6 DEF AnsweredIn
      <4>4. QED
        BY <4>2, <4>3
    <3>7. QED
      BY <3>1, <3>2, <3>4, <3>5, <3>6 DEF AnsweredIn
  <2>3. QED
    BY <2>1, <2>2
<1>3. CASE Poll(s) \/ Interrupt(s)
  BY <1>3, DeliveryServes DEF Poll, Interrupt
<1>4. QED
  BY <1>1, <1>2, <1>3 DEF Work

\* Of a shell and what becomes of it: who had a place with it has the same afterwards.
SamePlaces(o, p) ==
  /\ p.command = o.command /\ p.written = o.written
  /\ \A i \in DOMAIN o.queue : i \in DOMAIN p.queue /\ p.queue[i] = o.queue[i]

LEMMA PlaceKept ==
  ASSUME NEW o, NEW p, SamePlaces(o, p), NEW c, NEW n, AnsweredIn(o, c, n)
  PROVE  AnsweredIn(p, c, n)
  BY DEF SamePlaces, AnsweredIn, Busy

\* Commands are added behind those in the queue.
LEMMA EnqueuePlaces ==
  ASSUME ShellInv, NEW s \in Shells, NEW c \in Calls, Enqueue(c)
  PROVE  SamePlaces(shells[s], shells'[s])
<1>1. shells[s] \in ShellRecord(Len(calls))
  BY ShellFacts
<1>2. CASE shells'[s] = shells[s]
  BY <1>2 DEF SamePlaces
<1>3. CASE shells'[s] # shells[s]
  <2>1. PICK q \in Seq(1 .. Len(calls)) : q = shells[s].queue
    BY <1>1, ShellFields, ShellFacts
  <2>2. PICK o : o = shells'[s]
    OBVIOUS
  <2>3. o.queue = Append(q, c) /\ o.command = shells[s].command /\ o.written = shells[s].written
    <3>1. PICK t : shells' = [shells EXCEPT ![t].queue = Append(@, c)]
      BY <1>3 DEF Enqueue
    <3>2. t = s /\ s \in DOMAIN shells
      BY <1>3, <3>1 DEF Shells, ShellInv
    <3>3. o = [shells[s] EXCEPT !.queue = Append(q, c)]
      BY <2>1, <2>2, <3>1, <3>2
    <3>4. QED
      BY <1>1, <3>3 DEF ShellRecord
  <2>4. c \in 1 .. Len(calls)
    BY ShellFacts
  <2>5. \A i \in DOMAIN q : i \in DOMAIN Append(q, c) /\ Append(q, c)[i] = q[i]
    BY <2>1, <2>4
  <2>6. QED
    BY <2>1, <2>2, <2>3, <2>5 DEF SamePlaces
<1>4. QED
  BY <1>2, <1>3

\* No step but the goroutine's own moves what is at it or in its queue.
LEMMA PlacesKept ==
  ASSUME ShellInv, ShellNext, NEW s \in Shells, ~Work(s)
  PROVE  SamePlaces(shells[s], shells'[s])
<1>1. shells[s] \in ShellRecord(Len(calls)) /\ SamePlaces(shells[s], shells[s])
  BY ShellFacts DEF SamePlaces
<1>2. CASE LookUp
  BY <1>1, <1>2 DEF LookUp
<1>3. ASSUME NEW c \in Calls, Replace(c) PROVE SamePlaces(shells[s], shells'[s])
  <2>1. CASE shells' = shells
    BY <1>1, <2>1
  <2>2. CASE shells' = Append(shells, NewShell)
    <3>1. shells'[s] = shells[s]
      BY <2>2, ShellFacts DEF ShellInv
    <3>2. QED
      BY <1>1, <3>1
  <2>3. QED
    BY <1>3, <2>1, <2>2 DEF Replace
<1>4. ASSUME NEW c \in Calls, Enter(c) PROVE SamePlaces(shells[s], shells'[s])
  BY <1>1, <1>4 DEF Enter
<1>5. ASSUME NEW t \in Shells, t # s, Work(t) PROVE SamePlaces(shells[s], shells'[s])
  <2>1. shells'[s] = shells[s]
    BY <1>5, ShellFacts DEF Work, TakeCommand, WriteCommand, Poll, Interrupt, Deliver
  <2>2. QED
    BY <1>1, <2>1
<1>6. ASSUME NEW t \in Shells, Run(t) \/ Exit(t) \/ Reap(t) PROVE SamePlaces(shells[s], shells'[s])
  <2>1. CASE t # s
    <3>1. shells'[s] = shells[s]
      BY <1>6, <2>1, ShellFacts DEF Run, Exit, Reap
    <3>2. QED
      BY <1>1, <3>1
  <2>2. CASE t = s
    <3>1. PICK o : o = shells'[s]
      OBVIOUS
    <3>2. o.queue = shells[s].queue /\ o.command = shells[s].command /\ o.written = shells[s].written
      <4>1. CASE Run(s)
        BY <1>1, <3>1, <4>1, ShellFacts DEF Run, ShellRecord
      <4>2. CASE Exit(s) \/ Reap(s)
        BY <1>1, <3>1, <4>2, ShellFacts DEF Exit, Reap, ShellRecord
      <4>3. QED
        BY <1>6, <2>2, <4>1, <4>2
    <3>3. QED
      BY <3>1, <3>2 DEF SamePlaces
  <2>3. QED
    BY <2>1, <2>2
<1>7. QED
  BY <1>2, <1>3, <1>4, <1>5, <1>6, EnqueuePlaces DEF ShellNext

\* No step but that of its shell's goroutine ends the waiting of a call.
LEMMA WaitersKept ==
  ASSUME ShellInv, ShellNext, NEW c \in Calls, calls[c].stage = "waiting", ~Work(calls[c].shell)
  PROVE  calls'[c].stage = "waiting" /\ calls'[c].shell = calls[c].shell
<1>1. /\ calls \in Seq(CallRecord(Len(shells))) /\ calls[c] \in CallRecord(Len(shells))
      /\ c \in 1 .. Len(calls) /\ Len(calls) \in Nat
  BY ShellFacts DEF ShellInv
<1>2. CASE LookUp
  <2>1. PICK r : calls' = Append(calls, r)
    BY <1>2 DEF LookUp
  <2>2. calls'[c] = calls[c]
    BY <1>1, <2>1
  <2>3. QED
    BY <2>2
<1>3. ASSUME NEW d \in Calls, Replace(d) \/ Enter(d) \/ Enqueue(d)
      PROVE  calls'[c] = calls[c]
  BY <1>1, <1>3 DEF Replace, Enter, Enqueue, Finish
<1>4. ASSUME NEW t \in Shells, Work(t) PROVE calls'[c] = calls[c]
  <2>1. CASE calls' = calls
    BY <2>1
  <2>2. CASE calls' # calls
    <3>1. shells[t].command # 0 /\ \E result : Finish(shells[t].command, result)
      <4>1. TakeCommand(t) => calls' = calls
        BY DEF TakeCommand
      <4>2. WriteCommand(t) => \/ calls' = calls
                               \/ shells[t].command # 0 /\ Deliver(t, "error")
        BY DEF WriteCommand
      <4>3. Poll(t) => shells[t].command # 0 /\ Deliver(t, Told(shells[t].command))
        BY DEF Poll
      <4>4. Interrupt(t) => shells[t].command # 0 /\ Deliver(t, "interrupted")
        BY DEF Interrupt
      <4>5. QED
        BY <1>4, <2>2, <4>1, <4>2, <4>3, <4>4 DEF Work, Deliver
    <3>2. calls[shells[t].command].shell = t
      BY <3>1 DEF ShellInv, Agrees, Expects
    <3>3. c # shells[t].command
      BY <1>4, <3>2
    <3>4. QED
      BY <1>1, <3>1, <3>3 DEF Finish
  <2>3. QED
    BY <2>1, <2>2
<1>5. ASSUME NEW t \in Shells, Run(t)
      PROVE  calls'[c].stage = "waiting" /\ calls'[c].shell = calls[c].shell
  <2>1. CASE calls' = calls
    BY <2>1
  <2>2. CASE \E d : calls' = [calls EXCEPT ![d].starts = @ + 1] \/ calls' = [calls EXCEPT ![d].ended = TRUE]
    BY <1>1, <2>2 DEF CallRecord
  <2>3. QED
    BY <1>5, <2>1, <2>2 DEF Run
<1>6. ASSUME NEW t \in Shells, Exit(t) \/ Reap(t) PROVE calls'[c] = calls[c]
  BY <1>6 DEF Exit, Reap
<1>7. QED
  BY <1>2, <1>3, <1>4, <1>5, <1>6 DEF ShellNext

\* Whoever waits did so before or has just put its command in the queue.
LEMMA NewWaiter ==
  ASSUME ShellInv, ShellNext, NEW c \in Calls', calls'[c].stage = "waiting"
  PROVE  c \in Calls /\ (calls[c].stage = "waiting" \/ Enqueue(c))
<1>1. /\ calls \in Seq(CallRecord(Len(shells))) /\ Len(calls) \in Nat /\ Calls = 1 .. Len(calls)
      /\ \A d \in Calls : calls[d] \in CallRecord(Len(shells))
  BY ShellFacts DEF ShellInv
<1>2. CASE LookUp
  <2>1. PICK r : r.stage # "waiting" /\ calls' = Append(calls, r)
    BY <1>2 DEF LookUp, NewCall
  <2>2. Calls' = 1 .. Len(calls) + 1 /\ calls'[Len(calls) + 1] = r
        /\ \A d \in Calls : calls'[d] = calls[d]
    <3>1. calls' = Append(calls, r)
      BY <2>1
    <3>2. DOMAIN calls' = 1 .. Len(calls) + 1
      BY <1>1, <3>1
    <3>3. QED
      BY <1>1, <3>1, <3>2 DEF Calls
  <2>3. c \in 1 .. Len(calls) \/ c = Len(calls) + 1
    BY <1>1, <2>2
  <2>4. QED
    BY <1>1, <2>1, <2>2, <2>3
<1>3. CASE DOMAIN calls' = DOMAIN calls /\ (calls'[c].stage = calls[c].stage)
  BY <1>3 DEF Calls
<1>4. ASSUME NEW d \in Calls, Replace(d) \/ Enter(d)
      PROVE  DOMAIN calls' = DOMAIN calls /\ calls'[c].stage = calls[c].stage
  BY <1>1, <1>4 DEF Replace, Enter, Finish, Calls, CallRecord
<1>5. ASSUME NEW d \in Calls, Enqueue(d) PROVE c \in Calls /\ (calls[c].stage = "waiting" \/ Enqueue(c))
  BY <1>1, <1>5 DEF Enqueue, Finish, Calls
<1>6. ASSUME NEW s \in Shells, Work(s)
      PROVE  DOMAIN calls' = DOMAIN calls /\ calls'[c].stage = calls[c].stage
  <2>1. CASE calls' = calls
    BY <2>1
  <2>2. CASE \E d, result : Finish(d, result)
    BY <1>1, <2>2 DEF Finish, Calls, CallRecord
  <2>3. QED
    BY <1>6, <2>1, <2>2 DEF Work, TakeCommand, WriteCommand, Poll, Interrupt, Deliver
<1>7. ASSUME NEW s \in Shells, Run(s)
      PROVE  DOMAIN calls' = DOMAIN calls /\ calls'[c].stage = calls[c].stage
  <2>1. CASE calls' = calls
    BY <2>1
  <2>2. CASE \E d : calls' = [calls EXCEPT ![d].starts = @ + 1] \/ calls' = [calls EXCEPT ![d].ended = TRUE]
    BY <1>1, <2>2 DEF Calls, CallRecord
  <2>3. QED
    BY <1>7, <2>1, <2>2 DEF Run
<1>8. ASSUME NEW s \in Shells, Exit(s) \/ Reap(s) PROVE calls' = calls
  BY <1>8 DEF Exit, Reap
<1>9. QED
  BY <1>2, <1>3, <1>4, <1>5, <1>6, <1>7, <1>8 DEF ShellNext

\* Whoever has put its command in the queue has a place there.
LEMMA EnqueuedHasPlace ==
  ASSUME ShellInv, NEW c \in Calls, Enqueue(c), calls'[c].stage = "waiting"
  PROVE  \E n \in 1 .. MostSteps : AnsweredIn(shells'[calls'[c].shell], c, n)
<1>1. /\ calls \in Seq(CallRecord(Len(shells))) /\ calls[c] \in CallRecord(Len(shells))
      /\ c \in 1 .. Len(calls) /\ Len(calls) \in Nat /\ calls[c].stage = "sending"
  BY ShellFacts DEF ShellInv, Enqueue
<1>2. PICK s \in Shells : s = calls[c].shell
  BY <1>1, ShellFacts DEF CallRecord, Called, ShellInv
<1>3. ~shells[s].closed
  <2>1. Finish(c, "panic") => calls'[c].stage = "over"
    BY <1>1 DEF Finish, CallRecord
  <2>2. QED
    BY <1>2, <2>1 DEF Enqueue
<1>4. calls'[c].shell = s
  <2>1. calls' = [calls EXCEPT ![c].stage = "waiting"]
    BY <1>2, <1>3 DEF Enqueue
  <2>2. QED
    BY <1>1, <1>2, <2>1 DEF CallRecord
<1>5. PICK q \in Seq(1 .. Len(calls)) : q = shells[s].queue
  BY ShellFields, ShellFacts
<1>6. Len(q) \in Nat /\ Len(q) < QueueCap
  BY <1>2, <1>3, <1>5 DEF Enqueue
<1>7. PICK o : o = shells'[s]
  OBVIOUS
<1>8. o.queue = Append(q, c)
  BY <1>2, <1>3, <1>5, <1>7, ShellFacts DEF Enqueue, ShellRecord
<1>9. Len(q) + 1 \in DOMAIN o.queue /\ o.queue[Len(q) + 1] = c
  BY <1>1, <1>5, <1>8
<1>10. Busy(o) \in 0 .. 2
  BY DEF Busy
<1>11. 3 * (Len(q) + 1) + Busy(o) \in 1 .. MostSteps
  BY <1>6, <1>10, ShellAssumption DEF MostSteps
<1>12. AnsweredIn(o, c, 3 * (Len(q) + 1) + Busy(o))
  BY <1>9 DEF AnsweredIn
<1>13. QED
  BY <1>4, <1>7, <1>11, <1>12

\* No call of the shell is lost: while it waits its command is at its shell's goroutine or
\* in the queue, and each step of that goroutine brings its answer nearer, which comes after at
\* most 3 * QueueCap + 2 of them, whatever other calls, the process and the shell do
\* (shell.go:132-137, 271-288).  This is the part of CallsReturn that does not speak of fairness;
\* one of the goroutine's steps, the write of a command, may have to wait for room in the pipe.
THEOREM CallsAreServed == ShellSpec => []NoneLost /\ AnswersComeNearer
<1>1. ASSUME ShellInv, ShellNext, NEW c \in Calls, NEW n \in 1 .. MostSteps,
             calls[c].stage = "waiting", AnsweredIn(shells[calls[c].shell], c, n)
      PROVE  \/ calls'[c].stage = "over"
             \/ /\ calls'[c].stage = "waiting" /\ calls'[c].shell = calls[c].shell
                /\ \E m \in 1 .. n : /\ AnsweredIn(shells'[calls[c].shell], c, m)
                                     /\ Work(calls[c].shell) => m < n
  <2>1. PICK s \in Shells : s = calls[c].shell
    BY <1>1, WaiterFacts
  <2>2. CASE Work(s)
    <3>1. n \in Nat /\ AnsweredIn(shells[s], c, n)
      BY <1>1, <2>1
    <3>2. \/ calls'[c].stage = "over"
          \/ calls'[c] = calls[c] /\ \E m \in 1 .. n : m < n /\ AnsweredIn(shells'[s], c, m)
      BY <1>1, <2>2, <3>1, WorkServes
    <3>3. QED
      BY <1>1, <2>1, <3>2
  <2>3. CASE ~Work(s)
    <3>1. calls'[c].stage = "waiting" /\ calls'[c].shell = s
      BY <1>1, <2>1, <2>3, WaitersKept
    <3>2. AnsweredIn(shells'[s], c, n)
      BY <1>1, <2>1, <2>3, PlacesKept, PlaceKept
    <3>3. n \in 1 .. n
      BY <1>1
    <3>4. QED
      BY <2>1, <2>3, <3>1, <3>2, <3>3
  <2>4. QED
    BY <2>2, <2>3
<1>2. ShellInit => NoneLost
  BY DEF ShellInit, NoneLost, Waits, Calls
<1>3. ShellInv /\ NoneLost /\ [ShellNext]_shellVars => NoneLost'
  <2>1. SUFFICES ASSUME ShellInv, NoneLost, [ShellNext]_shellVars PROVE NoneLost'
    OBVIOUS
  <2>2. CASE UNCHANGED shellVars
    BY <2>1, <2>2 DEF shellVars, NoneLost, Waits, Calls, AnsweredIn, Busy
  <2>3. CASE ShellNext
    <3>1. SUFFICES ASSUME NEW c \in Calls', calls'[c].stage = "waiting"
                   PROVE  \E n \in 1 .. MostSteps : AnsweredIn(shells'[calls'[c].shell], c, n)
      BY DEF NoneLost, Waits
    <3>2. c \in Calls /\ (calls[c].stage = "waiting" \/ Enqueue(c))
      BY <2>1, <2>3, <3>1, NewWaiter
    <3>3. CASE calls[c].stage = "waiting"
      <4>1. PICK n \in 1 .. MostSteps : AnsweredIn(shells[calls[c].shell], c, n)
        BY <2>1, <3>2, <3>3 DEF NoneLost, Waits
      <4>2. PICK m \in 1 .. n : /\ calls'[c].shell = calls[c].shell
                                /\ AnsweredIn(shells'[calls[c].shell], c, m)
        BY <1>1, <2>1, <2>3, <3>1, <3>2, <3>3, <4>1
      <4>3. m \in 1 .. MostSteps
        BY <4>1, <4>2, ShellAssumption DEF MostSteps
      <4>4. QED
        BY <4>2, <4>3
    <3>4. CASE Enqueue(c)
      BY <2>1, <3>1, <3>2, <3>4, EnqueuedHasPlace
    <3>5. QED
      BY <3>2, <3>3, <3>4
  <2>4. QED
    BY <2>1, <2>2, <2>3
<1>4. ShellInv /\ [ShellNext]_shellVars =>
        [\A c \in Calls : \A n \in 1 .. MostSteps :
           LET s == calls[c].shell IN
           Waits(c) /\ AnsweredIn(shells[s], c, n) =>
             \/ calls'[c].stage = "over"
             \/ /\ calls'[c].stage = "waiting" /\ calls'[c].shell = s
                /\ \E m \in 1 .. n : AnsweredIn(shells'[s], c, m) /\ (Work(s) => m < n)]_shellVars
  BY <1>1 DEF Waits
<1>5. QED
  BY <1>2, <1>3, <1>4, ShellInvariant, PTL DEF ShellSpec, AnswersComeNearer
-----------------------------------------------------------------------------
(* The tools that change files, and their history *)

LEMMA FilesFacts ==
  ASSUME FilesTyped
  PROVE  /\ Len(rows) \in Nat /\ DOMAIN rows = 1 .. Len(rows)
         /\ \A i \in 1 .. Len(rows) : rows[i] \in Row
         /\ \A s \in Sessions : job[s] \in Job
         /\ Idle \in Job /\ Idle.step = "idle"
         /\ \A s \in Sessions : job[s].cancelled \in BOOLEAN
  BY FileAssumption DEF FilesTyped, Idle, NoCall, Job

LEMMA FilesInitHolds == FilesInit => FilesInv
<1>1. SUFFICES ASSUME FilesInit PROVE FilesInv
  OBVIOUS
<1>2. rows = <<>> /\ unseen = FALSE
  BY <1>1 DEF FilesInit
<1>3. Idle \in Job /\ Idle.step = "idle"
  BY FileAssumption DEF Idle, NoCall, Job
<1>4. FilesTyped
  <2>1. job \in [Sessions -> Job] /\ first \in [Sessions -> Contents \cup {Absent}]
    BY <1>1, <1>3 DEF FilesInit
  <2>2. disk \in Contents \cup {Absent} /\ second \in Nat /\ read \in {"never", "stale", "fresh"}
    BY <1>1, FileAssumption DEF FilesInit
  <2>3. <<>> \in Seq(Row)
    OBVIOUS
  <2>4. rows \in Seq(Row) /\ unseen \in BOOLEAN
    BY <1>2, <2>3
  <2>5. QED
    BY <2>1, <2>2, <2>4 DEF FilesTyped
<1>5. DOMAIN rows = {}
  BY <1>2
<1>6. RowsOrdered
  BY <1>5 DEF RowsOrdered
<1>7. ASSUME NEW s \in Sessions PROVE Reading(job[s]) /\ StartsInitial(s)
  <2>1. Own(s) = {} /\ job[s].step = "idle" /\ first[s] = Absent
    BY <1>1, <1>3, <1>5 DEF FilesInit, Own
  <2>2. QED
    BY <2>1 DEF StartsInitial, At, Reading
<1>8. QED
  BY <1>2, <1>4, <1>6, <1>7 DEF FilesInv, Unseen

\* Where a session's tool goes to.
LEMMA GoesTo ==
  ASSUME FilesTyped, NEW s \in Sessions, NEW j \in Job, job' = [job EXCEPT ![s] = j]
  PROVE  /\ job' \in [Sessions -> Job] /\ job'[s] = j
         /\ \A t \in Sessions \ {s} : job'[t] = job[t]
  BY DEF FilesTyped

LEMMA Gone ==
  ASSUME FilesTyped, NEW s \in Sessions,
         NEW st \in {"idle", "again", "compare", "read", "ask", "initial", "old", "new", "record"},
         Go(s, st)
  PROVE  /\ job' \in [Sessions -> Job] /\ job'[s].step = st /\ job'[s].call = job[s].call
         /\ job'[s].old = job[s].old /\ job'[s].new = job[s].new
         /\ job'[s].cancelled = job[s].cancelled
         /\ \A t \in Sessions \ {s} : job'[t] = job[t]
<1>1. job[s] \in Job
  BY FilesFacts
<1>2. DEFINE j == [job[s] EXCEPT !.step = st]
<1>3. job' = [job EXCEPT ![s] = j]
  BY DEF Go
<1>4. /\ j \in Job /\ j.step = st /\ j.call = job[s].call /\ j.old = job[s].old
      /\ j.new = job[s].new /\ j.cancelled = job[s].cancelled
  BY <1>1 DEF Job
<1> HIDE DEF j
<1>5. QED
  BY <1>3, <1>4, GoesTo

LEMMA Stopped ==
  ASSUME FilesTyped, NEW s \in Sessions, job' = [job EXCEPT ![s] = Idle]
  PROVE  /\ job' \in [Sessions -> Job] /\ job'[s].step = "idle"
         /\ \A t \in Sessions \ {s} : job'[t] = job[t]
  BY FilesFacts, GoesTo

LEMMA Responded ==
  ASSUME FilesTyped, NEW s \in Sessions, Respond(s)
  PROVE  /\ job' \in [Sessions -> Job] /\ job'[s].step \in {"idle", "again"}
         /\ \A t \in Sessions \ {s} : job'[t] = job[t]
  BY Gone, Stopped DEF Respond

\* A call goes on to read only to view or what was read before, to compare only what was
\* read before, and to ask at once only where nothing is.
LEMMA StatGoes ==
  ASSUME FilesTyped, NEW s \in Sessions,
         NEW call \in [tool : {"view", "write", "create", "delete", "replace"},
                       from : Contents, to : Contents], Stat(s, call)
  PROVE  /\ job' \in [Sessions -> Job] /\ Reading(job'[s])
         /\ \A t \in Sessions \ {s} : job'[t] = job[t]
         /\ job'[s].step \in {"idle", "again", "compare", "read", "ask"}
         /\ job'[s].step = "ask" => disk = Absent
         /\ job'[s].step = "compare" => read = "fresh"
         /\ job'[s].step = "read" => read = "fresh" \/ job'[s].call.tool = "view"
<1>1. Idle \in Job /\ Idle.step = "idle" /\ job[s].cancelled \in BOOLEAN
  BY FilesFacts
<1>2. ASSUME NEW st \in {"again", "compare", "read"},
             job' = [job EXCEPT ![s] = [Idle EXCEPT !.step = st, !.call = call,
                                                    !.cancelled = job[s].cancelled]]
      PROVE  /\ job' \in [Sessions -> Job] /\ job'[s].step = st /\ job'[s].call = call
             /\ \A t \in Sessions \ {s} : job'[t] = job[t]
  <2>1. DEFINE j == [Idle EXCEPT !.step = st, !.call = call, !.cancelled = job[s].cancelled]
  <2>2. j \in Job /\ j.step = st /\ j.call = call
    BY <1>1 DEF Job
  <2>3. job' = [job EXCEPT ![s] = j]
    BY <1>2
  <2> HIDE DEF j
  <2>4. QED
    BY <2>2, <2>3, GoesTo
<1>3. CASE job' = [job EXCEPT ![s] = Idle]
  BY <1>3, Stopped DEF Reading
<1>4. CASE /\ disk = Absent
           /\ job' = [job EXCEPT ![s] = [step |-> "ask", call |-> call, old |-> Empty,
                                         new |-> call.to, cancelled |-> job[s].cancelled]]
  <2>1. DEFINE j == [step |-> "ask", call |-> call, old |-> Empty, new |-> call.to,
                     cancelled |-> job[s].cancelled]
  <2>2. job' = [job EXCEPT ![s] = j]
    BY <1>4
  <2>3. j \in Job /\ j.step = "ask"
    BY <1>1, FileAssumption DEF Job
  <2> HIDE DEF j
  <2>4. QED
    BY <1>4, <2>2, <2>3, GoesTo DEF Reading
<1>5. CASE call.tool = "view"
  BY <1>2, <1>3, <1>5 DEF Stat, Reading
<1>6. CASE call.tool = "write"
  BY <1>2, <1>3, <1>4, <1>6 DEF Stat, Known, Reading
<1>7. CASE call.tool = "create"
  BY <1>2, <1>4, <1>7 DEF Stat, Reading
<1>8. CASE call.tool \in {"delete", "replace"}
  BY <1>2, <1>3, <1>8 DEF Stat, Known, Reading
<1>9. QED
  BY <1>5, <1>6, <1>7, <1>8

\* What says of a session where its history starts, kept by steps that neither add a row
\* nor are between a change and its rows.
LEMMA StartsKept ==
  ASSUME NEW s \in Sessions, StartsInitial(s), rows' = rows, first'[s] = first[s],
         \/ job'[s].step = job[s].step /\ job'[s].old = job[s].old
         \/ {job[s].step, job'[s].step} \cap {"initial", "old", "new"} = {}
  PROVE  StartsInitial(s)'
  BY DEF StartsInitial, At, Own

LEMMA QuietStep ==
  ASSUME FilesInv, NEW s \in Sessions, job' \in [Sessions -> Job], Reading(job'[s]),
         \A t \in Sessions \ {s} : job'[t] = job[t],
         {job[s].step, job'[s].step} \cap {"initial", "old", "new"} = {},
         disk' = disk, read' \in {read, "fresh"}, rows' = rows, second' = second, first' = first,
         unseen' => /\ unseen /\ read' = read
                    /\ \/ job'[s].step \in {"idle", "again"}
                       \/ job'[s].step = "read" /\ job'[s].call.tool = "view",
         unseen' \in BOOLEAN
  PROVE  FilesInv'
<1>1. FilesTyped'
  BY DEF FilesInv, FilesTyped
<1>2. RowsOrdered'
  BY DEF FilesInv, RowsOrdered
<1>3. Unseen'
  BY DEF FilesInv, Unseen, At
<1>4. ASSUME NEW t \in Sessions PROVE Reading(job'[t]) /\ StartsInitial(t)'
  <2>1. Reading(job[t]) /\ StartsInitial(t)
    BY DEF FilesInv
  <2>2. t # s => job'[t] = job[t]
    OBVIOUS
  <2>3. QED
    BY <2>1, <2>2, StartsKept
<1>5. QED
  BY <1>1, <1>2, <1>3, <1>4 DEF FilesInv

LEMMA BeginStep ==
  ASSUME FilesInv, NEW s \in Sessions, Begin(s)
  PROVE  FilesInv'
<1>1. PICK call \in ToolCalls : Stat(s, call)
  BY DEF Begin
<1>2. /\ job[s].step = "idle" /\ disk' = disk /\ read' = read /\ rows' = rows
      /\ second' = second /\ first' = first /\ unseen' = unseen /\ FilesTyped
  BY DEF Begin, At, FilesInv
<1>3. /\ job' \in [Sessions -> Job] /\ Reading(job'[s])
      /\ \A t \in Sessions \ {s} : job'[t] = job[t]
      /\ job'[s].step \in {"idle", "again", "compare", "read", "ask"}
      /\ job'[s].step = "ask" => disk = Absent
      /\ job'[s].step = "compare" => read = "fresh"
      /\ job'[s].step = "read" => read = "fresh" \/ job'[s].call.tool = "view"
  BY <1>1, <1>2, StatGoes, FileAssumption
<1>4. unseen' => \/ job'[s].step \in {"idle", "again"}
                 \/ job'[s].step = "read" /\ job'[s].call.tool = "view"
  BY <1>2, <1>3 DEF FilesInv, Unseen
<1>5. unseen' \in BOOLEAN
  BY <1>2 DEF FilesTyped
<1>6. QED
  BY <1>2, <1>3, <1>4, <1>5, QuietStep

LEMMA AgainStep ==
  ASSUME FilesInv, NEW s \in Sessions, Again(s)
  PROVE  FilesInv'
<1>1. DEFINE call == [job[s].call EXCEPT !.tool = "replace",
                                         !.from = IF job[s].call.tool = "create" THEN Empty ELSE @]
<1>2. /\ job[s].step = "again" /\ disk' = disk /\ read' = read /\ rows' = rows
      /\ second' = second /\ first' = first /\ unseen' = unseen /\ FilesTyped /\ Stat(s, call)
  BY DEF Again, At, FilesInv
<1>3. call \in [tool : {"view", "write", "create", "delete", "replace"},
                from : Contents, to : Contents]
  <2>1. job[s].call \in [tool : {"none", "view", "write", "create", "delete", "replace"},
                         from : Contents, to : Contents]
    BY <1>2, FilesFacts DEF Job
  <2>2. QED
    BY <2>1, FileAssumption
<1> HIDE DEF call
<1>4. /\ job' \in [Sessions -> Job] /\ Reading(job'[s])
      /\ \A t \in Sessions \ {s} : job'[t] = job[t]
      /\ job'[s].step \in {"idle", "again", "compare", "read", "ask"}
      /\ job'[s].step = "ask" => disk = Absent
      /\ job'[s].step = "compare" => read = "fresh"
      /\ job'[s].step = "read" => read = "fresh" \/ job'[s].call.tool = "view"
  BY <1>2, <1>3, StatGoes
<1>5. unseen' => \/ job'[s].step \in {"idle", "again"}
                 \/ job'[s].step = "read" /\ job'[s].call.tool = "view"
  BY <1>2, <1>4 DEF FilesInv, Unseen
<1>6. unseen' \in BOOLEAN
  BY <1>2 DEF FilesTyped
<1>7. QED
  BY <1>2, <1>4, <1>5, <1>6, QuietStep

LEMMA CompareStep ==
  ASSUME FilesInv, NEW s \in Sessions, Compare(s)
  PROVE  FilesInv'
<1>1. /\ job[s].step = "compare" /\ disk' = disk /\ read' = read /\ rows' = rows
      /\ second' = second /\ first' = first /\ unseen' = unseen /\ FilesTyped
      /\ job' = [job EXCEPT ![s] = Idle] \/ Go(s, "read")
  BY DEF Compare, At, FilesInv
<1>2. job[s].call.tool = "write"
  BY <1>1 DEF FilesInv, Reading
<1>3. /\ job' \in [Sessions -> Job] /\ job'[s].step \in {"idle", "read"} /\ Reading(job'[s])
      /\ \A t \in Sessions \ {s} : job'[t] = job[t]
  <2>1. CASE job' = [job EXCEPT ![s] = Idle]
    BY <1>1, <2>1, Stopped DEF Reading
  <2>2. CASE Go(s, "read")
    BY <1>1, <1>2, <2>2, Gone DEF Reading
  <2>3. QED
    BY <1>1, <2>1, <2>2
<1>4. unseen' = FALSE
  BY <1>1 DEF FilesInv, Unseen, At, FilesTyped
<1>5. QED
  BY <1>1, <1>3, <1>4, QuietStep

\* A call goes on to record what it has read only to view.
LEMMA ReadGoes ==
  ASSUME FilesInv, NEW s \in Sessions, Read(s)
  PROVE  /\ job' \in [Sessions -> Job] /\ job'[s].step \in {"idle", "again", "ask", "record"}
         /\ \A t \in Sessions \ {s} : job'[t] = job[t]
         /\ job'[s].step = "record" => job'[s].call.tool = "view"
<1>1. job[s].step = "read" /\ FilesTyped /\ job[s] \in Job
  BY FilesFacts DEF Read, At, FilesInv
<1>2. ASSUME NEW old \in Contents,
             job' = [job EXCEPT ![s].step = "ask", ![s].old = old, ![s].new = job[s].call.to]
      PROVE  /\ job' \in [Sessions -> Job] /\ job'[s].step = "ask"
             /\ \A t \in Sessions \ {s} : job'[t] = job[t]
  <2>1. job[s].call.to \in Contents
    BY <1>1 DEF Job
  <2>2. DEFINE j == [job[s] EXCEPT !.step = "ask", !.old = old, !.new = job[s].call.to]
  <2>3. job' = [job EXCEPT ![s] = j]
    BY <1>2
  <2>4. j \in Job /\ j.step = "ask"
    BY <1>1, <2>1 DEF Job
  <2> HIDE DEF j
  <2>5. QED
    BY <1>1, <2>3, <2>4, GoesTo
<1>3. disk # Absent => disk \in Contents
  BY <1>1 DEF FilesTyped
<1>4. CASE disk = Absent
  BY <1>1, <1>2, <1>4, Stopped, FileAssumption DEF Read
<1>5. CASE disk # Absent /\ job[s].call.tool = "view"
  <2>1. Go(s, "record")
    BY <1>5 DEF Read
  <2>2. QED
    BY <1>1, <1>5, <2>1, Gone
<1>6. CASE disk # Absent /\ job[s].call.tool = "write"
  BY <1>1, <1>2, <1>3, <1>6, Responded DEF Read
<1>7. CASE disk # Absent /\ job[s].call.tool \in {"delete", "replace"}
  BY <1>1, <1>2, <1>3, <1>7, Responded DEF Read
<1>8. job[s].call.tool \in {"view", "write", "delete", "replace"}
  BY <1>1 DEF FilesInv, Reading
<1>9. QED
  BY <1>4, <1>5, <1>6, <1>7, <1>8

LEMMA ReadStep ==
  ASSUME FilesInv, NEW s \in Sessions, Read(s)
  PROVE  FilesInv'
<1>1. /\ job[s].step = "read" /\ disk' = disk /\ read' = read /\ rows' = rows
      /\ second' = second /\ first' = first
      /\ unseen' = (unseen /\ job[s].call.tool = "write")
  BY DEF Read, At
<1>2. unseen' = FALSE
  BY <1>1 DEF FilesInv, Unseen, At
<1>3. /\ job' \in [Sessions -> Job] /\ job'[s].step \in {"idle", "again", "ask", "record"}
      /\ \A t \in Sessions \ {s} : job'[t] = job[t]
  BY ReadGoes
<1>4. Reading(job'[s])
  BY <1>3 DEF Reading
<1>5. QED
  BY <1>1, <1>2, <1>3, <1>4, QuietStep

LEMMA DenyStep ==
  ASSUME FilesInv, NEW s \in Sessions, Deny(s)
  PROVE  FilesInv'
<1>1. /\ job[s].step = "ask" /\ disk' = disk /\ read' = read /\ rows' = rows
      /\ second' = second /\ first' = first /\ unseen' = unseen /\ FilesTyped
      /\ job' = [job EXCEPT ![s] = Idle]
  BY DEF Deny, At, FilesInv
<1>2. /\ job' \in [Sessions -> Job] /\ job'[s].step = "idle"
      /\ \A t \in Sessions \ {s} : job'[t] = job[t]
  BY <1>1, Stopped
<1>3. Reading(job'[s]) /\ unseen' \in BOOLEAN
  BY <1>1, <1>2 DEF Reading, FilesTyped
<1>4. QED
  BY <1>1, <1>2, <1>3, QuietStep

LEMMA RecordStep ==
  ASSUME FilesInv, NEW s \in Sessions, Record(s)
  PROVE  FilesInv'
<1>1. /\ job[s].step = "record" /\ disk' = disk /\ read' = "fresh" /\ rows' = rows
      /\ second' = second /\ first' = first /\ unseen' = unseen /\ FilesTyped /\ Respond(s)
  BY DEF Record, At, FilesInv
<1>2. /\ job' \in [Sessions -> Job] /\ job'[s].step \in {"idle", "again"}
      /\ \A t \in Sessions \ {s} : job'[t] = job[t]
  BY <1>1, Responded
<1>3. unseen = FALSE
  BY <1>1 DEF FilesInv, Unseen, At, FilesTyped
<1>4. Reading(job'[s]) /\ unseen' \in BOOLEAN
  BY <1>1, <1>2, <1>3 DEF Reading
<1>5. QED
  BY <1>1, <1>2, <1>3, <1>4, QuietStep

LEMMA WriteStep ==
  ASSUME FilesInv, NEW s \in Sessions, Write(s)
  PROVE  FilesInv'
<1>1. /\ job[s].step = "ask" /\ disk' = job[s].new /\ rows' = rows /\ second' = second
      /\ first' = [first EXCEPT ![s] = IF @ = Absent THEN job[s].old ELSE @]
      /\ unseen' = FALSE /\ FilesTyped /\ Go(s, "initial") /\ Modified
  BY DEF Write, At, FilesInv
<1>2. /\ job' \in [Sessions -> Job] /\ job'[s].step = "initial" /\ job'[s].old = job[s].old
      /\ \A t \in Sessions \ {s} : job'[t] = job[t]
  BY <1>1, Gone
<1>3. job[s].new \in Contents /\ job[s].old \in Contents
  BY <1>1, FilesFacts DEF Job
<1>4. /\ first' \in [Sessions -> Contents \cup {Absent}]
      /\ first'[s] = (IF first[s] = Absent THEN job[s].old ELSE first[s])
      /\ \A t \in Sessions \ {s} : first'[t] = first[t]
  BY <1>1, <1>3 DEF FilesTyped
<1>5. FilesTyped'
  BY <1>1, <1>2, <1>3, <1>4 DEF FilesTyped, Modified
<1>6. RowsOrdered' /\ Unseen'
  BY <1>1 DEF FilesInv, RowsOrdered, Unseen
<1>7. ASSUME NEW t \in Sessions PROVE Reading(job'[t]) /\ StartsInitial(t)'
  <2>1. Reading(job[t]) /\ StartsInitial(t)
    BY DEF FilesInv
  <2>2. CASE t # s
    BY <1>1, <1>2, <1>4, <2>1, <2>2, StartsKept
  <2>3. CASE t = s
    <3>1. CASE first[s] = Absent
      BY <1>1, <1>2, <1>3, <1>4, <2>1, <2>3, <3>1 DEF StartsInitial, At, Own, Reading
    <3>2. CASE first[s] # Absent
      BY <1>1, <1>2, <1>3, <1>4, <2>1, <2>3, <3>2 DEF StartsInitial, At, Own, Reading
    <3>3. QED
      BY <3>1, <3>2
  <2>4. QED
    BY <2>2, <2>3
<1>8. QED
  BY <1>5, <1>6, <1>7 DEF FilesInv

LEMMA MinOfThree ==
  ASSUME NEW S \in SUBSET (1 .. 3), S # {}
  PROVE  Min(S) \in S /\ \A y \in S : Min(S) <= y
<1>0. \A x \in S : x = 1 \/ x = 2 \/ x = 3
  OBVIOUS
<1>1. \E x \in S : \A y \in S : x <= y
  <2>1. CASE 1 \in S
    BY <1>0, <2>1
  <2>2. CASE 1 \notin S /\ 2 \in S
    BY <1>0, <2>2
  <2>3. CASE 1 \notin S /\ 2 \notin S
    <3>1. PICK x \in S : TRUE
      OBVIOUS
    <3>2. x = 3 /\ (\A y \in S : y = 3)
      BY <1>0, <2>3, <3>1
    <3>3. QED
      BY <3>1, <3>2
  <2>4. QED
    BY <2>1, <2>2, <2>3
<1>2. QED
  BY <1>1 DEF Min

\* createWithVersion stores the first of the versions it tries that the session does not
\* have, and nothing if it has all three.
LEMMA CreatedFirst ==
  ASSUME FilesTyped, NEW s \in Sessions, NEW content \in Contents, NEW v \in Nat,
         CreateWithVersion(s, content, v)
  PROVE  \/ rows' = rows /\ \A k \in 1 .. 3 : Taken(s, Tried(v)[k])
         \/ \E row \in Row : \E m \in 1 .. 3 :
              /\ rows' = Append(rows, row) /\ row.session = s /\ row.content = content
              /\ row.second = second /\ ~Taken(s, row.version) /\ row.version = Tried(v)[m]
              /\ \A k \in 1 .. 3 : k < m => Taken(s, Tried(v)[k])
<1>1. second \in Nat
  BY DEF FilesTyped
<1>2. DOMAIN Tried(v) = 1 .. 3 /\ \A i \in 1 .. 3 : Tried(v)[i] \in Nat
  BY <1>1 DEF Tried, TimeVersion
<1>3. CASE Free(s, v) = {}
  BY <1>2, <1>3 DEF CreateWithVersion, Free
<1>4. CASE Free(s, v) # {}
  <2>1. Free(s, v) \in SUBSET (1 .. 3)
    BY <1>2 DEF Free
  <2>2. PICK m \in 1 .. 3 : /\ m = Min(Free(s, v)) /\ m \in Free(s, v)
                            /\ \A k \in Free(s, v) : m <= k
    BY <1>4, <2>1, MinOfThree
  <2>3. DEFINE row == [session |-> s, version |-> Tried(v)[m], content |-> content,
                       second |-> second]
  <2>4. rows' = Append(rows, row)
    BY <1>4, <2>2 DEF CreateWithVersion
  <2>5. /\ row \in Row /\ row.session = s /\ row.content = content /\ row.second = second
        /\ row.version = Tried(v)[m]
    BY <1>1, <1>2 DEF Row
  <2> HIDE DEF row
  <2>6. ~Taken(s, row.version)
    BY <2>2, <2>5 DEF Free
  <2>7. \A k \in 1 .. 3 : k < m => Taken(s, Tried(v)[k])
    <3>1. \A k \in 1 .. 3 : k < m => k \notin Free(s, v)
      BY <2>2
    <3>2. QED
      BY <1>2, <3>1 DEF Free
  <2>8. QED
    BY <2>4, <2>5, <2>6, <2>7
<1>5. QED
  BY <1>3, <1>4

\* It is the wanted one, when the session has none at all.
LEMMA Created ==
  ASSUME FilesTyped, NEW s \in Sessions, NEW content \in Contents, NEW v \in Nat,
         CreateWithVersion(s, content, v)
  PROVE  \/ rows' = rows /\ Own(s) # {}
         \/ \E row \in Row :
              /\ rows' = Append(rows, row) /\ row.session = s /\ row.content = content
              /\ row.second = second /\ ~Taken(s, row.version)
              /\ Own(s) = {} => row.version = v
<1>1. Tried(v)[1] = v /\ 1 \in 1 .. 3
  BY DEF Tried
<1>2. Own(s) = {} => ~Taken(s, v)
  BY DEF Own, Taken
<1>3. CASE rows' = rows /\ \A k \in 1 .. 3 : Taken(s, Tried(v)[k])
  BY <1>1, <1>2, <1>3
<1>4. ASSUME NEW row \in Row, NEW m \in 1 .. 3, rows' = Append(rows, row), row.session = s,
             row.content = content, row.second = second, ~Taken(s, row.version),
             row.version = Tried(v)[m], \A k \in 1 .. 3 : k < m => Taken(s, Tried(v)[k])
      PROVE  Own(s) = {} => row.version = v
  <2>1. m = 1 \/ 1 < m
    OBVIOUS
  <2>2. QED
    BY <1>1, <1>2, <1>4, <2>1
<1>5. QED
  BY <1>3, <1>4, CreatedFirst

\* A row for s at the end of the table.
LEMMA RowAdded ==
  ASSUME FilesInv, NEW s \in Sessions, NEW row \in Row, rows' = Append(rows, row),
         row.session = s, row.second = second, ~Taken(s, row.version), second' = second
  PROVE  /\ rows' \in Seq(Row) /\ RowsOrdered'
         /\ Own(s)' = Own(s) \cup {Len(rows) + 1} /\ rows'[Len(rows) + 1] = row
         /\ \A t \in Sessions \ {s} : Own(t)' = Own(t)
         /\ \A t \in Sessions : Own(t) \subseteq 1 .. Len(rows)
         /\ \A i \in 1 .. Len(rows) : rows'[i] = rows[i]
<1>1. FilesTyped /\ RowsOrdered
  BY DEF FilesInv
<1>2. /\ Len(rows) \in Nat /\ DOMAIN rows = 1 .. Len(rows) /\ rows \in Seq(Row)
      /\ \A i \in 1 .. Len(rows) : rows[i] \in Row
  BY <1>1, FilesFacts DEF FilesTyped
<1>3. /\ rows' \in Seq(Row) /\ DOMAIN rows' = 1 .. Len(rows) + 1
      /\ rows'[Len(rows) + 1] = row /\ \A i \in 1 .. Len(rows) : rows'[i] = rows[i]
  BY <1>2
<1>4. \A i \in 1 .. Len(rows) + 1 : i \in 1 .. Len(rows) \/ i = Len(rows) + 1
  BY <1>2
<1>5. \A i \in 1 .. Len(rows) : i \in 1 .. Len(rows) + 1 /\ i # Len(rows) + 1 /\ i < Len(rows) + 1
  BY <1>2
<1>6. Own(s)' = Own(s) \cup {Len(rows) + 1} /\ \A t \in Sessions \ {s} : Own(t)' = Own(t)
  BY <1>2, <1>3, <1>4, <1>5 DEF Own
<1>7. \A t \in Sessions : Own(t) \subseteq 1 .. Len(rows)
  BY <1>2 DEF Own
<1>8. RowsOrdered'
  <2>1. SUFFICES ASSUME NEW i \in 1 .. Len(rows) + 1, NEW j \in 1 .. Len(rows) + 1
                 PROVE  /\ rows'[i].second <= second
                        /\ i < j => rows'[i].second <= rows'[j].second
                        /\ /\ rows'[i].session = rows'[j].session
                           /\ rows'[i].version = rows'[j].version
                           => i = j
    BY <1>3 DEF RowsOrdered
  <2>2. CASE i \in 1 .. Len(rows) /\ j \in 1 .. Len(rows)
    BY <1>1, <1>2, <1>3, <2>2 DEF RowsOrdered
  <2>3. CASE i \in 1 .. Len(rows) /\ j = Len(rows) + 1
    BY <1>1, <1>2, <1>3, <2>3 DEF RowsOrdered, Taken
  <2>4. CASE i = Len(rows) + 1 /\ j \in 1 .. Len(rows)
    <3>1. ~(i < j) /\ second <= second
      BY <1>1, <1>2, <2>4 DEF FilesTyped
    <3>2. ~(rows[j].session = s /\ rows[j].version = row.version)
      BY <1>2, <2>4 DEF Taken
    <3>3. QED
      BY <1>3, <2>4, <3>1, <3>2
  <2>5. CASE i = Len(rows) + 1 /\ j = Len(rows) + 1
    <3>1. ~(i < j) /\ second <= second
      BY <1>1, <1>2, <2>5 DEF FilesTyped
    <3>2. QED
      BY <1>3, <2>5, <3>1
  <2>6. QED
    BY <1>4, <2>2, <2>3, <2>4, <2>5
<1>9. QED
  BY <1>3, <1>6, <1>7, <1>8

\* What a step does that leaves to s the rows of s, with one more or not, after it has some.
LEMMA RowStep ==
  ASSUME FilesInv, NEW s \in Sessions, job' \in [Sessions -> Job],
         \A t \in Sessions \ {s} : job'[t] = job[t],
         job[s].step \in {"initial", "old", "new"},
         job'[s].step \in {"idle", "old", "new", "record"},
         disk' = disk, read' = read, second' = second, first' = first, unseen' = unseen,
         NEW content \in Contents,
         \/ rows' = rows /\ Own(s) # {}
         \/ \E row \in Row :
              /\ rows' = Append(rows, row) /\ row.session = s /\ row.content = content
              /\ row.second = second /\ ~Taken(s, row.version)
              /\ Own(s) = {} => row.version = 0,
         Own(s) = {} => content = job[s].old
  PROVE  FilesInv'
<1>1. FilesTyped /\ RowsOrdered /\ Unseen /\ (\A t \in Sessions : Reading(job[t]) /\ StartsInitial(t))
  BY DEF FilesInv
<1>2. unseen' = FALSE
  BY <1>1 DEF Unseen, At, FilesTyped
<1>3. Unseen'
  BY <1>2 DEF Unseen
<1>4. \A t \in Sessions : Reading(job'[t])
  BY <1>1 DEF Reading
<1>5. Own(s) = {} => job[s].step = "initial" /\ first[s] = job[s].old
  BY <1>1 DEF StartsInitial, At
<1>6. Own(s) # {} => /\ first[s] # Absent
                     /\ \E i \in Own(s) : /\ \A j \in Own(s) : i <= j
                                          /\ rows[i].version = 0 /\ rows[i].content = first[s]
  BY <1>1 DEF StartsInitial
<1>7. CASE rows' = rows /\ Own(s) # {}
  <2>1. FilesTyped' /\ RowsOrdered'
    BY <1>1, <1>2, <1>7 DEF FilesTyped, RowsOrdered
  <2>2. ASSUME NEW t \in Sessions PROVE StartsInitial(t)'
    <3>1. CASE t = s
      BY <1>6, <1>7, <3>1 DEF StartsInitial, Own
    <3>2. CASE t # s
      BY <1>1, <1>7, <3>2, StartsKept
    <3>3. QED
      BY <3>1, <3>2
  <2>3. QED
    BY <1>3, <1>4, <2>1, <2>2 DEF FilesInv
<1>8. ASSUME NEW row \in Row, rows' = Append(rows, row), row.session = s, row.content = content,
             row.second = second, ~Taken(s, row.version), Own(s) = {} => row.version = 0
      PROVE  FilesInv'
  <2>1. /\ rows' \in Seq(Row) /\ RowsOrdered'
        /\ Own(s)' = Own(s) \cup {Len(rows) + 1} /\ rows'[Len(rows) + 1] = row
        /\ \A t \in Sessions \ {s} : Own(t)' = Own(t)
        /\ \A t \in Sessions : Own(t) \subseteq 1 .. Len(rows)
        /\ \A i \in 1 .. Len(rows) : rows'[i] = rows[i]
    BY <1>8, RowAdded
  <2>2. FilesTyped'
    BY <1>1, <1>2, <2>1 DEF FilesTyped
  <2>3. Len(rows) \in Nat
    BY <1>1, FilesFacts
  <2>4. ASSUME NEW t \in Sessions PROVE StartsInitial(t)'
    <3>1. CASE t = s /\ Own(s) = {}
      <4>1. first'[s] # Absent /\ first'[s] = content
        BY <1>5, <3>1, FileAssumption
      <4>2. QED
        BY <1>8, <2>1, <2>3, <3>1, <4>1 DEF StartsInitial
    <3>2. CASE t = s /\ Own(s) # {}
      <4>1. PICK i \in Own(s) : /\ \A j \in Own(s) : i <= j
                                /\ rows[i].version = 0 /\ rows[i].content = first[s]
        BY <1>6, <3>2
      <4>2. i \in 1 .. Len(rows) /\ i <= Len(rows) + 1
        BY <2>1, <2>3
      <4>3. i \in Own(s)' /\ \A j \in Own(s)' : i <= j
        BY <2>1, <4>1, <4>2
      <4>4. rows'[i].version = 0 /\ rows'[i].content = first'[s] /\ first'[s] # Absent
        BY <1>6, <2>1, <3>2, <4>1, <4>2
      <4>5. QED
        BY <3>2, <4>3, <4>4 DEF StartsInitial
    <3>3. CASE t # s
      <4>1. Own(t)' = Own(t) /\ \A i \in Own(t) : rows'[i] = rows[i]
        BY <2>1, <3>3
      <4>2. job'[t] = job[t] /\ first'[t] = first[t] /\ StartsInitial(t)
        BY <1>1, <3>3
      <4>3. QED
        BY <4>1, <4>2 DEF StartsInitial, At
    <3>4. QED
      BY <3>1, <3>2, <3>3
  <2>5. QED
    BY <1>3, <1>4, <2>1, <2>2, <2>4 DEF FilesInv
<1>9. QED
  BY <1>7, <1>8

LEMMA InitialStep ==
  ASSUME FilesInv, NEW s \in Sessions, Initial(s)
  PROVE  FilesInv'
<1>1. /\ job[s].step = "initial" /\ disk' = disk /\ read' = read /\ second' = second
      /\ first' = first /\ unseen' = unseen /\ FilesTyped /\ job[s].old \in Contents
  BY FilesFacts DEF Initial, At, FilesInv, Job
<1>2. ASSUME \/ rows' = rows /\ Own(s) # {}
             \/ \E row \in Row :
                  /\ rows' = Append(rows, row) /\ row.session = s /\ row.content = job[s].old
                  /\ row.second = second /\ ~Taken(s, row.version)
                  /\ Own(s) = {} => row.version = 0,
             job' \in [Sessions -> Job], \A t \in Sessions \ {s} : job'[t] = job[t],
             job'[s].step \in {"idle", "old", "new", "record"}
      PROVE  FilesInv'
  BY <1>1, <1>2, RowStep
<1>3. CASE CreateWithVersion(s, job[s].old, 0)
           /\ IF rows' = rows THEN job' = [job EXCEPT ![s] = Idle]
              ELSE Go(s, IF job[s].call.tool = "create" \/ job[s].old = Empty THEN "new" ELSE "old")
  <2>1. \/ rows' = rows /\ Own(s) # {}
        \/ \E row \in Row :
             /\ rows' = Append(rows, row) /\ row.session = s /\ row.content = job[s].old
             /\ row.second = second /\ ~Taken(s, row.version)
             /\ Own(s) = {} => row.version = 0
    BY <1>1, <1>3, Created
  <2>2. job' = [job EXCEPT ![s] = Idle] \/ Go(s, "new") \/ Go(s, "old")
    BY <1>3
  <2>3. /\ job' \in [Sessions -> Job] /\ job'[s].step \in {"idle", "old", "new", "record"}
        /\ \A t \in Sessions \ {s} : job'[t] = job[t]
    BY <1>1, <2>2, Gone, Stopped
  <2>4. QED
    BY <1>2, <2>1, <2>3
<1>4. CASE UNCHANGED rows /\ \E i \in Latest(RowsOf(s)) :
             Go(s, IF rows[i].content = job[s].old THEN "new" ELSE "old")
  <2>1. Own(s) # {}
    BY <1>4 DEF Latest, RowsOf, Own
  <2>2. Go(s, "new") \/ Go(s, "old")
    BY <1>4
  <2>3. /\ job' \in [Sessions -> Job] /\ job'[s].step \in {"idle", "old", "new", "record"}
        /\ \A t \in Sessions \ {s} : job'[t] = job[t]
    BY <1>1, <2>2, Gone
  <2>4. QED
    BY <1>2, <1>4, <2>1, <2>3
<1>5. QED
  BY <1>3, <1>4 DEF Initial

LEMMA VersionCreated ==
  ASSUME FilesInv, NEW s \in Sessions, NEW content \in Contents, CreateVersion(s, content),
         Own(s) # {}
  PROVE  \/ rows' = rows
         \/ \E row \in Row :
              /\ rows' = Append(rows, row) /\ row.session = s /\ row.content = content
              /\ row.second = second /\ ~Taken(s, row.version)
<1>1. FilesTyped /\ Len(rows) \in Nat /\ DOMAIN rows = 1 .. Len(rows)
      /\ \A i \in 1 .. Len(rows) : rows[i] \in Row
  BY FilesFacts DEF FilesInv
<1>2. rows # <<>>
  BY DEF Own
<1>3. CASE job[s].cancelled
  BY <1>3 DEF CreateVersion
<1>4. CASE ~job[s].cancelled
  <2>1. PICK i \in Latest(DOMAIN rows) : CreateWithVersion(s, content, rows[i].version + 1)
    BY <1>2, <1>4 DEF CreateVersion
  <2>2. rows[i] \in Row
    BY <1>1 DEF Latest
  <2>3. rows[i].version + 1 \in Nat
    BY <2>2 DEF Row
  <2>4. QED
    BY <1>1, <2>1, <2>3, Created
<1>5. QED
  BY <1>3, <1>4

LEMMA VersionStep ==
  ASSUME FilesInv, NEW s \in Sessions, OldVersion(s) \/ NewVersion(s)
  PROVE  FilesInv'
<1>1. /\ job[s].step \in {"old", "new"} /\ disk' = disk /\ read' = read /\ second' = second
      /\ first' = first /\ unseen' = unseen /\ FilesTyped
      /\ Go(s, "new") \/ Go(s, "record")
  BY DEF OldVersion, NewVersion, At, FilesInv
<1>2. job[s].old \in Contents /\ job[s].new \in Contents
  BY <1>1, FilesFacts DEF Job
<1>3. PICK content \in Contents : CreateVersion(s, content)
  BY <1>2, FileAssumption DEF OldVersion, NewVersion
<1>4. Own(s) # {}
  BY <1>1 DEF FilesInv, StartsInitial, At
<1>5. /\ job' \in [Sessions -> Job] /\ job'[s].step \in {"idle", "old", "new", "record"}
      /\ \A t \in Sessions \ {s} : job'[t] = job[t]
  BY <1>1, Gone
<1>6. \/ rows' = rows /\ Own(s) # {}
      \/ \E row \in Row :
           /\ rows' = Append(rows, row) /\ row.session = s /\ row.content = content
           /\ row.second = second /\ ~Taken(s, row.version)
           /\ Own(s) = {} => row.version = 0
  BY <1>3, <1>4, VersionCreated
<1>7. job[s].step \in {"initial", "old", "new"}
  BY <1>1
<1>8. QED
  BY <1>1, <1>4, <1>5, <1>6, <1>7, RowStep

\* Where a cancelled run gets no first row, its change does not count.
LEMMA NoInitialStep ==
  ASSUME FilesInv, NEW s \in Sessions, NoInitial(s)
  PROVE  FilesInv'
<1>1. /\ job[s].step = "initial" /\ disk' = disk /\ read' = read /\ rows' = rows
      /\ second' = second /\ unseen' = unseen /\ FilesTyped
      /\ job' = [job EXCEPT ![s] = Idle]
      /\ first' = [first EXCEPT ![s] = IF Own(s) = {} THEN Absent ELSE @]
  BY DEF NoInitial, At, FilesInv
<1>2. /\ job' \in [Sessions -> Job] /\ job'[s].step = "idle"
      /\ \A t \in Sessions \ {s} : job'[t] = job[t]
  BY <1>1, Stopped
<1>3. /\ first' \in [Sessions -> Contents \cup {Absent}]
      /\ first'[s] = (IF Own(s) = {} THEN Absent ELSE first[s])
      /\ \A t \in Sessions \ {s} : first'[t] = first[t]
  BY <1>1 DEF FilesTyped
<1>4. FilesTyped'
  BY <1>1, <1>2, <1>3 DEF FilesTyped
<1>5. unseen' = FALSE
  BY <1>1 DEF FilesInv, FilesTyped, Unseen, At
<1>6. RowsOrdered' /\ Unseen'
  BY <1>1, <1>5 DEF FilesInv, RowsOrdered, Unseen
<1>7. ASSUME NEW t \in Sessions PROVE Reading(job'[t]) /\ StartsInitial(t)'
  <2>1. Reading(job[t]) /\ StartsInitial(t)
    BY DEF FilesInv
  <2>2. CASE t # s
    BY <1>1, <1>2, <1>3, <2>1, <2>2, StartsKept
  <2>3. CASE t = s
    BY <1>1, <1>2, <1>3, <2>1, <2>3 DEF StartsInitial, At, Own, Reading
  <2>4. QED
    BY <2>2, <2>3
<1>8. QED
  BY <1>4, <1>6, <1>7 DEF FilesInv

\* A cancellation leaves the tool where it is.
LEMMA Cancelled ==
  ASSUME FilesTyped, NEW s \in Sessions, CancelRun(s)
  PROVE  /\ job' \in [Sessions -> Job] /\ job'[s].cancelled
         /\ job'[s].step = job[s].step /\ job'[s].old = job[s].old /\ job'[s].call = job[s].call
         /\ \A t \in Sessions \ {s} : job'[t] = job[t]
<1>1. job[s] \in Job
  BY FilesFacts
<1>2. DEFINE j == [job[s] EXCEPT !.cancelled = TRUE]
<1>3. job' = [job EXCEPT ![s] = j]
  BY DEF CancelRun
<1>4. /\ j \in Job /\ j.cancelled /\ j.step = job[s].step /\ j.old = job[s].old
      /\ j.call = job[s].call
  BY <1>1 DEF Job
<1> HIDE DEF j
<1>5. QED
  BY <1>3, <1>4, GoesTo

LEMMA CancelRunStep ==
  ASSUME FilesInv, NEW s \in Sessions, CancelRun(s)
  PROVE  FilesInv'
<1>1. /\ disk' = disk /\ read' = read /\ rows' = rows /\ second' = second /\ first' = first
      /\ unseen' = unseen /\ FilesTyped
  BY DEF CancelRun, FilesInv
<1>2. /\ job' \in [Sessions -> Job] /\ job'[s].step = job[s].step
      /\ job'[s].old = job[s].old /\ job'[s].call = job[s].call
      /\ \A t \in Sessions \ {s} : job'[t] = job[t]
  BY <1>1, Cancelled
<1>3. FilesTyped' /\ RowsOrdered' /\ Unseen'
  BY <1>1, <1>2 DEF FilesInv, FilesTyped, RowsOrdered, Unseen, At
<1>4. ASSUME NEW t \in Sessions PROVE Reading(job'[t]) /\ StartsInitial(t)'
  <2>1. Reading(job[t]) /\ StartsInitial(t)
    BY DEF FilesInv
  <2>2. Reading(job'[t])
    BY <1>2, <2>1 DEF Reading
  <2>3. /\ first'[t] = first[t]
        /\ job'[t].step = job[t].step /\ job'[t].old = job[t].old
    BY <1>1, <1>2
  <2>4. QED
    BY <1>1, <2>1, <2>2, <2>3, StartsKept
<1>5. QED
  BY <1>3, <1>4 DEF FilesInv

LEMMA ChangeStep ==
  ASSUME FilesInv, Change
  PROVE  FilesInv'
<1>1. /\ disk' \in Contents \cup {Absent} /\ job' = job /\ rows' = rows /\ second' = second
      /\ first' = first /\ Modified
      /\ unseen' = (disk' # Absent /\ \A s \in Sessions : At(s, "idle"))
  BY FileAssumption DEF Change
<1>2. FilesTyped'
  BY <1>1 DEF FilesInv, FilesTyped, Modified
<1>3. RowsOrdered'
  BY <1>1 DEF FilesInv, RowsOrdered
<1>4. Unseen'
  BY <1>1 DEF Unseen, Modified, At
<1>5. ASSUME NEW t \in Sessions PROVE Reading(job'[t]) /\ StartsInitial(t)'
  BY <1>1, StartsKept DEF FilesInv
<1>6. QED
  BY <1>2, <1>3, <1>4, <1>5 DEF FilesInv

LEMMA TickStep ==
  ASSUME FilesInv, Tick
  PROVE  FilesInv'
<1>1. /\ disk' = disk /\ read' = read /\ job' = job /\ rows' = rows /\ second' = second + 1
      /\ first' = first /\ unseen' = unseen
  BY DEF Tick
<1>2. FilesTyped'
  BY <1>1 DEF FilesInv, FilesTyped
<1>3. RowsOrdered'
  <2>1. second \in Nat /\ \A i \in DOMAIN rows : rows[i].second \in Nat
    BY FilesFacts DEF FilesInv, FilesTyped, Row
  <2>2. \A i \in DOMAIN rows : rows[i].second <= second
    BY DEF FilesInv, RowsOrdered
  <2>3. \A i \in DOMAIN rows : rows[i].second <= second + 1
    BY <2>1, <2>2
  <2>4. QED
    BY <1>1, <2>3 DEF FilesInv, RowsOrdered
<1>4. Unseen'
  BY <1>1 DEF FilesInv, Unseen, At
<1>5. ASSUME NEW t \in Sessions PROVE Reading(job'[t]) /\ StartsInitial(t)'
  BY <1>1, StartsKept DEF FilesInv
<1>6. QED
  BY <1>2, <1>3, <1>4, <1>5 DEF FilesInv

FilesSpec == FilesInit /\ [][FilesNext]_fileVars

\* Who may write has a read of its own, and who has changed a file and has rows of it has the
\* content before the first change in the first of them; only the changes of runs that were
\* cancelled before any row do not count (view.go, edit.go:332-357 and write.go:186-211;
\* history/file.go:57-156).
THEOREM FilesInvariant == FilesSpec => []FilesInv
<1>1. FilesInit => FilesInv
  BY FilesInitHolds
<1>2. FilesInv /\ [FilesNext]_fileVars => FilesInv'
  <2>1. SUFFICES ASSUME FilesInv, [FilesNext]_fileVars PROVE FilesInv'
    OBVIOUS
  <2>2. CASE Change \/ Tick
    BY <2>1, <2>2, ChangeStep, TickStep
  <2>3. ASSUME NEW s \in Sessions,
               Begin(s) \/ Again(s) \/ Compare(s) \/ Read(s) \/ Deny(s) \/ Write(s)
        PROVE  FilesInv'
    BY <2>1, <2>3, BeginStep, AgainStep, CompareStep, ReadStep, DenyStep, WriteStep
  <2>4. ASSUME NEW s \in Sessions,
               \/ Initial(s) \/ NoInitial(s) \/ CancelRun(s)
               \/ OldVersion(s) \/ NewVersion(s) \/ Record(s)
        PROVE  FilesInv'
    BY <2>1, <2>4, InitialStep, NoInitialStep, CancelRunStep, VersionStep, RecordStep
  <2>5. CASE UNCHANGED fileVars
    BY <2>1, <2>5 DEF fileVars, FilesInv, FilesTyped, RowsOrdered, Unseen, StartsInitial, At, Own
  <2>6. QED
    BY <2>1, <2>2, <2>3, <2>4, <2>5 DEF FilesNext
<1>3. QED
  BY <1>1, <1>2, PTL DEF FilesSpec

\* No session overwrites what the user made of the file while no tool was at work, before
\* a tool has read it (file.go:20-41, edit.go:385-396, write.go:119-131).
THEOREM QuietNoticed == FilesSpec => QuietChangesNoticed
<1>1. FilesInv => \A s \in Sessions : At(s, "ask") => ~unseen
  BY DEF FilesInv, Unseen, At
<1>2. FilesInv => [\A s \in Sessions : At(s, "ask") /\ At(s, "initial")' /\ disk' # disk => ~unseen]_fileVars
  BY <1>1
<1>3. QED
  BY <1>2, FilesInvariant, PTL DEF QuietChangesNoticed

\* No version is given twice to a session, and its first row is what its first change
\* replaced, not counting changes whose run was cancelled before there was a row
\* (history/file.go:57-71, edit.go:332-344 and 457-472, write.go:186-199).
THEOREM InitialIsTold == FilesSpec => [](FilesTypeOK /\ InitialTold)
<1>1. FilesInv => FilesTypeOK /\ InitialTold
  <2>1. SUFFICES ASSUME FilesInv PROVE FilesTypeOK /\ InitialTold
    OBVIOUS
  <2>2. FilesTyped /\ RowsOrdered
    BY <2>1 DEF FilesInv
  <2>3. \A s \in Sessions : job[s] \in Job /\ first[s] \in Contents \cup {Absent}
    BY <2>2 DEF FilesTyped
  <2>4. \A i \in DOMAIN rows : rows[i].content \in Contents
    BY <2>2, FilesFacts DEF Row
  <2>5. FilesTypeOK
    BY <2>2, <2>3, <2>4 DEF FilesTypeOK, FilesTyped, RowsOrdered, Job
  <2>6. ASSUME NEW s \in Sessions, Own(s) # {}
        PROVE  rows[Min(Own(s))].version = 0 /\ rows[Min(Own(s))].content = first[s]
    <3>1. PICK i \in Own(s) : /\ \A j \in Own(s) : i <= j
                              /\ rows[i].version = 0 /\ rows[i].content = first[s]
      BY <2>1, <2>6 DEF FilesInv, StartsInitial
    <3>2. Own(s) \subseteq Nat
      BY <2>2, FilesFacts DEF Own
    <3>3. Min(Own(s)) \in Own(s) /\ \A j \in Own(s) : Min(Own(s)) <= j
      BY <3>1 DEF Min
    <3>4. Min(Own(s)) = i
      BY <3>1, <3>2, <3>3
    <3>5. QED
      BY <3>1, <3>4
  <2>7. QED
    BY <2>5, <2>6 DEF InitialTold
<1>2. QED
  BY <1>1, FilesInvariant, PTL
-----------------------------------------------------------------------------
(* The history of a session that is alone *)

LEMMA RowMore ==
  ASSUME FilesTyped, NEW row \in Row, rows' = Append(rows, row)
  PROVE  /\ Len(rows) \in Nat /\ DOMAIN rows = 1 .. Len(rows) /\ DOMAIN rows' = 1 .. Len(rows) + 1
         /\ \A i \in 1 .. Len(rows) + 1 : i \in 1 .. Len(rows) \/ i = Len(rows) + 1
         /\ \A i \in 1 .. Len(rows) : rows[i] \in Row /\ rows'[i] = rows[i] /\ i < Len(rows) + 1
         /\ Len(rows) + 1 \in 1 .. Len(rows) + 1 /\ rows'[Len(rows) + 1] = row
         /\ 1 .. Len(rows) \subseteq 1 .. Len(rows) + 1
<1>1. /\ Len(rows) \in Nat /\ DOMAIN rows = 1 .. Len(rows) /\ rows \in Seq(Row)
      /\ \A i \in 1 .. Len(rows) : rows[i] \in Row
  BY FilesFacts DEF FilesTyped
<1>2. QED
  BY <1>1

\* Who is alone after a row was, and the row is its own.
LEMMA AloneBefore ==
  ASSUME FilesTyped, NEW s \in Sessions, NEW row \in Row, rows' = Append(rows, row),
         row.session = s, NEW t \in Sessions, Alone(t)'
  PROVE  t = s /\ Alone(t)
<1>1. /\ Len(rows) \in Nat /\ DOMAIN rows = 1 .. Len(rows) /\ DOMAIN rows' = 1 .. Len(rows) + 1
      /\ \A i \in 1 .. Len(rows) : rows'[i] = rows[i]
      /\ Len(rows) + 1 \in 1 .. Len(rows) + 1 /\ rows'[Len(rows) + 1] = row
      /\ 1 .. Len(rows) \subseteq 1 .. Len(rows) + 1
  BY RowMore
<1>2. \A i \in 1 .. Len(rows) + 1 : rows'[i].session = t
  BY <1>1 DEF Alone, Own
<1>3. t = s
  BY <1>1, <1>2
<1>4. Own(t) = DOMAIN rows
  BY <1>1, <1>2 DEF Own
<1>5. ~Crowded
  <2>1. ASSUME NEW i \in DOMAIN rows, i + 3 \in DOMAIN rows, rows[i + 3].second = rows[i].second
        PROVE  FALSE
    <3>1. i \in DOMAIN rows' /\ i + 3 \in DOMAIN rows' /\ rows'[i + 3].second = rows'[i].second
      BY <1>1, <2>1
    <3>2. QED
      BY <3>1 DEF Alone, Crowded
  <2>2. QED
    BY <2>1 DEF Crowded
<1>6. ~MadeAnew
  <2>1. ASSUME NEW i \in DOMAIN rows, i + 1 \in DOMAIN rows, rows[i + 1].second = rows[i].second,
               rows[i + 1].version # rows[i].version + 1
        PROVE  FALSE
    <3>1. /\ i \in DOMAIN rows' /\ i + 1 \in DOMAIN rows' /\ rows'[i + 1].second = rows'[i].second
          /\ rows'[i + 1].version # rows'[i].version + 1
      BY <1>1, <2>1
    <3>2. QED
      BY <3>1 DEF Alone, MadeAnew
  <2>2. QED
    BY <2>1 DEF MadeAnew
<1>7. QED
  BY <1>3, <1>4, <1>5, <1>6 DEF Alone

\* What is in the history stays, and what is added is in it.
LEMMA HasMore ==
  ASSUME FilesTyped, NEW s \in Sessions, NEW row \in Row, rows' = Append(rows, row),
         row.session = s
  PROVE  /\ \A t \in Sessions, c \in Contents : Has(t, c) => Has(t, c)'
         /\ Has(s, row.content)'
         /\ \A t \in Sessions, v \in Nat : Taken(t, v) => Taken(t, v)'
         /\ Taken(s, row.version)'
  BY RowMore DEF Has, Own, Taken

\* A version above all the others, with those from the time on that are below it.
LEMMA RiseKept ==
  ASSUME FilesTyped, NEW s \in Sessions, NEW row \in Row, rows' = Append(rows, row),
         row.session = s, second' = second, VersionsRise(s), Alone(s),
         \A i \in DOMAIN rows : rows[i].version < row.version,
         \A v \in TimeVersion .. row.version : v < row.version => Taken(s, v)
  PROVE  VersionsRise(s)'
<1>1. /\ Len(rows) \in Nat /\ DOMAIN rows = 1 .. Len(rows) /\ DOMAIN rows' = 1 .. Len(rows) + 1
      /\ \A i \in 1 .. Len(rows) + 1 : i \in 1 .. Len(rows) \/ i = Len(rows) + 1
      /\ \A i \in 1 .. Len(rows) : rows[i] \in Row /\ rows'[i] = rows[i] /\ i < Len(rows) + 1
      /\ rows'[Len(rows) + 1] = row
  BY RowMore
<1>2. TimeVersion \in Nat /\ TimeVersion' = TimeVersion
  BY DEF TimeVersion, FilesTyped
<1>3. \A i, j \in DOMAIN rows' : i < j => rows'[i].version < rows'[j].version
  <2>1. SUFFICES ASSUME NEW i \in 1 .. Len(rows) + 1, NEW j \in 1 .. Len(rows) + 1, i < j
                 PROVE  rows'[i].version < rows'[j].version
    BY <1>1
  <2>2. i \in 1 .. Len(rows)
    BY <1>1, <2>1
  <2>3. CASE j = Len(rows) + 1
    BY <1>1, <2>2, <2>3
  <2>4. CASE j \in 1 .. Len(rows)
    BY <1>1, <2>1, <2>2, <2>4 DEF VersionsRise
  <2>5. QED
    BY <1>1, <2>3, <2>4
<1>4. ASSUME NEW i \in DOMAIN rows', NEW v \in TimeVersion .. rows'[i].version
      PROVE  Taken(s, v)'
  <2>1. row.version \in Int /\ v \in Nat
    BY <1>2 DEF Row
  <2>2. CASE i = Len(rows) + 1
    <3>1. v < row.version \/ v = row.version
      BY <1>1, <1>2, <2>1, <2>2
    <3>2. v < row.version => Taken(s, v)
      BY <1>1, <2>2
    <3>3. QED
      BY <2>1, <3>1, <3>2, HasMore
  <2>3. CASE i \in 1 .. Len(rows)
    <3>1. Taken(s, v)
      BY <1>1, <2>3 DEF VersionsRise
    <3>2. QED
      BY <2>1, <3>1, HasMore
  <2>4. QED
    BY <1>1, <2>2, <2>3
<1>5. QED
  BY <1>2, <1>3, <1>4 DEF VersionsRise

\* The version that follows the latest row's is given: as the second has three rows at most,
\* and these in order, one of the three tries is the one above all.
LEMMA CountedRow ==
  ASSUME FilesInv, NEW s \in Sessions, VersionsRise(s), Alone(s), rows # <<>>,
         ~job[s].cancelled, NEW content \in Contents, CreateVersion(s, content)
  PROVE  \E row \in Row :
           /\ rows' = Append(rows, row) /\ row.session = s /\ row.content = content
           /\ \A i \in DOMAIN rows : rows[i].version < row.version
           /\ \A v \in TimeVersion .. row.version : v < row.version => Taken(s, v)
<1>1. /\ FilesTyped /\ RowsOrdered /\ Len(rows) \in Nat /\ DOMAIN rows = 1 .. Len(rows)
      /\ \A j \in 1 .. Len(rows) : /\ rows[j].session = s /\ rows[j].version \in Nat
                                   /\ rows[j].second \in Nat
  BY FilesFacts DEF FilesInv, Row, Alone, Own
<1>2. PICK i \in 1 .. Len(rows) : /\ i \in Latest(DOMAIN rows)
                                  /\ CreateWithVersion(s, content, rows[i].version + 1)
  BY <1>1 DEF CreateVersion, Latest
<1>3. DEFINE n == Len(rows)
             v == rows[i].version + 1
             top == rows[n].version
<1>4. n \in 1 .. n /\ v \in Nat /\ v # 0 /\ top \in Nat /\ i \in Nat /\ i <= n
  BY <1>1, <1>2
<1>5. \A j \in i .. n : rows[j].second = rows[i].second
  <2>1. SUFFICES ASSUME NEW j \in i .. n PROVE rows[j].second = rows[i].second
    OBVIOUS
  <2>2. j \in 1 .. Len(rows) /\ (i < j \/ i = j)
    BY <1>1, <1>2, <2>1
  <2>3. rows[j].second <= rows[i].second
    BY <1>1, <1>2, <2>2 DEF Latest
  <2>4. i < j => rows[i].second <= rows[j].second
    BY <1>1, <2>2 DEF RowsOrdered
  <2>5. QED
    BY <1>1, <2>2, <2>3, <2>4
<1>6. n = i \/ n = i + 1 \/ n = i + 2
  <2>1. ASSUME i + 3 <= n PROVE FALSE
    <3>1. i + 3 \in 1 .. n /\ i + 3 \in i .. n
      BY <1>4, <2>1
    <3>2. QED
      BY <1>1, <1>2, <1>5, <3>1 DEF Alone, Crowded
  <2>2. QED
    BY <1>4, <2>1
<1>7. ASSUME NEW j \in i .. n, j + 1 <= n PROVE rows[j + 1].version = rows[j].version + 1
  <2>1. j \in 1 .. n /\ j + 1 \in 1 .. n /\ j + 1 \in i .. n
    BY <1>4, <1>7
  <2>2. rows[j + 1].second = rows[j].second
    BY <1>5, <1>7, <2>1
  <2>3. QED
    BY <1>1, <2>1, <2>2 DEF Alone, MadeAnew
<1>8. /\ n = i => top = v - 1
      /\ n = i + 1 => top = v
      /\ n = i + 2 => top = v + 1 /\ rows[i + 1].version = v
  <2>1. CASE n = i
    BY <1>1, <1>2, <1>4, <2>1
  <2>2. CASE n = i + 1
    <3>1. rows[i + 1].version = rows[i].version + 1
      BY <1>4, <1>7, <2>2
    <3>2. QED
      BY <1>4, <2>2, <3>1
  <2>3. CASE n = i + 2
    <3>1. rows[i + 1].version = rows[i].version + 1
      BY <1>4, <1>7, <2>3
    <3>2. i + 1 \in i .. n /\ (i + 1) + 1 = n /\ (i + 1) + 1 <= n
      BY <1>4, <2>3
    <3>3. rows[(i + 1) + 1].version = rows[i + 1].version + 1
      BY <1>7, <3>2
    <3>4. QED
      BY <1>4, <2>3, <3>1, <3>2, <3>3
  <2>4. QED
    BY <1>6, <2>1, <2>2, <2>3
<1> HIDE DEF v, top
<1>9. \A j \in 1 .. n : rows[j].version <= top
  <2>1. ASSUME NEW j \in 1 .. n PROVE rows[j].version <= top
    <3>1. j < n \/ j = n
      BY <1>4
    <3>2. j < n => rows[j].version < rows[n].version
      BY <1>1, <1>4 DEF VersionsRise
    <3>3. rows[j].version \in Nat /\ rows[n].version \in Nat
      BY <1>1, <1>4
    <3>4. rows[j].version <= rows[n].version
      BY <3>1, <3>2, <3>3
    <3>5. QED
      BY <3>4 DEF top
  <2>2. QED
    BY <2>1
<1>10. ~Taken(s, top + 1)
  BY <1>1, <1>4, <1>9 DEF Taken
<1>11. Taken(s, top) /\ (n = i + 2 => Taken(s, v))
  <2>1. Taken(s, top)
    BY <1>1, <1>4 DEF Taken, top
  <2>2. ASSUME n = i + 2 PROVE Taken(s, v)
    <3>1. i + 1 \in 1 .. n
      BY <1>4, <2>2
    <3>2. QED
      BY <1>1, <1>8, <2>2, <3>1 DEF Taken
  <2>3. QED
    BY <2>1, <2>2
<1>12. Tried(v)[1] = v /\ Tried(v)[2] = v + 1 /\ Tried(v)[3] = v + 2
  BY <1>4 DEF Tried
<1>13. ~\A k \in 1 .. 3 : Taken(s, Tried(v)[k])
  <2>1. 1 \in 1 .. 3 /\ 2 \in 1 .. 3 /\ 3 \in 1 .. 3
    OBVIOUS
  <2>2. top + 1 = v \/ top + 1 = v + 1 \/ top + 1 = v + 2
    BY <1>4, <1>6, <1>8
  <2>3. QED
    BY <1>10, <1>12, <2>1, <2>2
<1>14. PICK row \in Row, m \in 1 .. 3 :
         /\ rows' = Append(rows, row) /\ row.session = s /\ row.content = content
         /\ row.second = second /\ ~Taken(s, row.version) /\ row.version = Tried(v)[m]
         /\ \A k \in 1 .. 3 : k < m => Taken(s, Tried(v)[k])
  <2>1. CreateWithVersion(s, content, v)
    BY <1>2 DEF v
  <2>2. QED
    BY <1>1, <1>4, <1>13, <2>1, CreatedFirst
<1>15. row.version = top + 1
  <2>1. /\ row.version = v \/ row.version = v + 1 \/ row.version = v + 2
        /\ row.version = v + 1 => Taken(s, v)
        /\ row.version = v + 2 => Taken(s, v) /\ Taken(s, v + 1)
    <3>1. CASE m = 1
      BY <1>4, <1>12, <1>14, <3>1
    <3>2. CASE m = 2
      <4>1. 1 \in 1 .. 3 /\ 1 < m
        BY <3>2
      <4>2. Taken(s, Tried(v)[1]) /\ row.version = Tried(v)[2]
        BY <1>14, <3>2, <4>1
      <4>3. QED
        BY <1>4, <1>12, <4>2
    <3>3. CASE m = 3
      <4>1. 1 \in 1 .. 3 /\ 1 < m /\ 2 \in 1 .. 3 /\ 2 < m
        BY <3>3
      <4>2. Taken(s, Tried(v)[1]) /\ Taken(s, Tried(v)[2]) /\ row.version = Tried(v)[3]
        BY <1>14, <3>3, <4>1
      <4>3. QED
        BY <1>4, <1>12, <4>2
    <3>4. QED
      BY <3>1, <3>2, <3>3
  <2>2. CASE n = i
    <3>1. ~Taken(s, v)
      BY <1>4, <1>8, <1>10, <2>2
    <3>2. QED
      BY <1>4, <1>8, <2>1, <2>2, <3>1
  <2>3. CASE n = i + 1
    <3>1. ~Taken(s, v + 1) /\ Taken(s, v)
      BY <1>8, <1>10, <1>11, <2>3
    <3>2. QED
      BY <1>8, <1>14, <2>1, <2>3, <3>1
  <2>4. CASE n = i + 2
    <3>1. Taken(s, v + 1) /\ Taken(s, v)
      BY <1>8, <1>11, <2>4
    <3>2. top + 1 = v + 2
      BY <1>4, <1>8, <2>4
    <3>3. QED
      BY <1>14, <2>1, <3>1, <3>2
  <2>5. QED
    BY <1>6, <2>2, <2>3, <2>4
<1>16. \A j \in DOMAIN rows : rows[j].version < row.version
  BY <1>1, <1>4, <1>9, <1>15
<1>17. ASSUME NEW x \in TimeVersion .. row.version, x < row.version PROVE Taken(s, x)
  <2>1. TimeVersion \in Nat
    BY <1>1 DEF TimeVersion, FilesTyped
  <2>2. x \in TimeVersion .. rows[n].version
    BY <1>4, <1>15, <1>17, <2>1 DEF top
  <2>3. QED
    BY <1>1, <1>4, <2>2 DEF VersionsRise
<1>18. QED
  BY <1>14, <1>16, <1>17

\* The first version of a file that is made anew is made of the time, or the one after it;
\* as none is left out from there on, it is above all.
LEMMA AnewRow ==
  ASSUME FilesInv, NEW s \in Sessions, VersionsRise(s), Alone(s),
         NEW row \in Row, NEW m \in 1 .. 3, ~Taken(s, row.version), row.version = Tried(0)[m],
         \A k \in 1 .. 3 : k < m => Taken(s, Tried(0)[k])
  PROVE  /\ \A i \in DOMAIN rows : rows[i].version < row.version
         /\ \A v \in TimeVersion .. row.version : v < row.version => Taken(s, v)
<1>1. /\ FilesTyped /\ Len(rows) \in Nat /\ DOMAIN rows = 1 .. Len(rows)
      /\ \A j \in 1 .. Len(rows) : rows[j].session = s /\ rows[j].version \in Nat
  BY FilesFacts DEF FilesInv, Row, Alone, Own
<1>2. TimeVersion \in Nat /\ 0 < TimeVersion
  BY <1>1 DEF TimeVersion, FilesTyped
<1>3. Tried(0)[1] = 0 /\ Tried(0)[2] = TimeVersion /\ Tried(0)[3] = TimeVersion + 1
  BY DEF Tried
<1>4. DOMAIN rows = {} \/ Taken(s, 0)
  BY <1>1 DEF FilesInv, StartsInitial, Own, Taken, Alone
<1>5. CASE m = 1
  <2>1. row.version = 0
    BY <1>3, <1>5
  <2>2. DOMAIN rows = {}
    BY <1>4, <2>1
  <2>3. QED
    BY <1>2, <2>1, <2>2
<1>6. ASSUME \/ row.version = TimeVersion
             \/ row.version = TimeVersion + 1 /\ Taken(s, TimeVersion)
      PROVE  /\ \A i \in DOMAIN rows : rows[i].version < row.version
             /\ \A v \in TimeVersion .. row.version : v < row.version => Taken(s, v)
  <2>1. ASSUME NEW i \in DOMAIN rows, row.version <= rows[i].version PROVE FALSE
    <3>1. row.version \in TimeVersion .. rows[i].version
      BY <1>1, <1>2, <1>6, <2>1
    <3>2. QED
      BY <2>1, <3>1 DEF VersionsRise
  <2>2. \A i \in DOMAIN rows : rows[i].version < row.version
    BY <1>1, <1>2, <1>6, <2>1
  <2>3. ASSUME NEW v \in TimeVersion .. row.version, v < row.version PROVE Taken(s, v)
    <3>1. CASE row.version = TimeVersion
      BY <1>2, <2>3, <3>1
    <3>2. CASE row.version = TimeVersion + 1 /\ Taken(s, TimeVersion)
      <4>1. v = TimeVersion
        BY <1>2, <2>3, <3>2
      <4>2. QED
        BY <3>2, <4>1
    <3>3. QED
      BY <1>6, <3>1, <3>2
  <2>4. QED
    BY <2>2, <2>3
<1>7. CASE m = 2
  BY <1>3, <1>6, <1>7
<1>8. CASE m = 3
  <2>1. 2 \in 1 .. 3 /\ 2 < m
    BY <1>8
  <2>2. Taken(s, TimeVersion) /\ row.version = TimeVersion + 1
    BY <1>3, <1>8, <2>1
  <2>3. QED
    BY <1>6, <2>2
<1>9. QED
  BY <1>5, <1>7, <1>8

\* What is said of the rows stays while they do.
LEMMA RowsStay ==
  ASSUME FilesTyped, NEW t \in Sessions, rows' = rows, second' \in {second, second + 1},
         VersionsRise(t)
  PROVE  /\ Alone(t)' <=> Alone(t)
         /\ \A c \in Contents : Has(t, c)' <=> Has(t, c)
         /\ VersionsRise(t)'
<1>1. Alone(t)' <=> Alone(t)
  BY DEF Alone, Own, Crowded, MadeAnew
<1>2. \A c \in Contents : Has(t, c)' <=> Has(t, c)
  BY DEF Has, Own
<1>3. ASSUME Alone(t), NEW i \in DOMAIN rows, NEW v \in TimeVersion' .. rows[i].version
      PROVE  Taken(t, v)'
  <2>1. rows[i].version \in Nat /\ second \in Nat
    BY FilesFacts DEF FilesTyped, Row
  <2>2. v \in TimeVersion .. rows[i].version
    <3>1. CASE second' = second
      BY <1>3, <3>1 DEF TimeVersion
    <3>2. CASE second' = second + 1
      <4>1. TimeVersion \in Nat /\ TimeVersion' = TimeVersion + 1
        BY <2>1, <3>2 DEF TimeVersion
      <4>2. QED
        BY <1>3, <2>1, <4>1
    <3>3. QED
      BY <3>1, <3>2
  <2>3. Taken(t, v)
    BY <1>3, <2>2 DEF VersionsRise
  <2>4. QED
    BY <2>3 DEF Taken
<1>4. VersionsRise(t)'
  BY <1>1, <1>3 DEF VersionsRise
<1>5. QED
  BY <1>1, <1>2, <1>4

\* The others keep what they have.
LEMMA HistoryQuiet ==
  ASSUME FilesInv, HistoryInv, NEW s \in Sessions, rows' = rows, second' = second,
         \A t \in Sessions \ {s} : job'[t] = job[t], Kept(s)'
  PROVE  HistoryInv'
<1>1. FilesTyped /\ \A t \in Sessions : job[t] \in Job
  BY FilesFacts DEF FilesInv
<1>2. ASSUME NEW t \in Sessions PROVE VersionsRise(t)' /\ Kept(t)'
  <2>1. VersionsRise(t) /\ Kept(t)
    BY DEF HistoryInv
  <2>2. /\ Alone(t)' <=> Alone(t)
        /\ \A c \in Contents : Has(t, c)' <=> Has(t, c)
        /\ VersionsRise(t)'
    BY <1>1, <2>1, RowsStay
  <2>3. CASE t = s
    BY <2>2, <2>3
  <2>4. CASE t # s
    <3>1. job'[t] = job[t] /\ job[t].old \in Contents /\ job[t].new \in Contents
      BY <1>1, <2>4 DEF Job
    <3>2. QED
      BY <2>1, <2>2, <3>1 DEF Kept, At
  <2>5. QED
    BY <2>3, <2>4
<1>3. QED
  BY <1>2 DEF HistoryInv

LEMMA HistoryRow ==
  ASSUME FilesInv, HistoryInv, NEW s \in Sessions, NEW row \in Row, rows' = Append(rows, row),
         row.session = s, second' = second,
         Alone(s) => /\ \A i \in DOMAIN rows : rows[i].version < row.version
                     /\ \A v \in TimeVersion .. row.version : v < row.version => Taken(s, v),
         Alone(s)' /\ Alone(s) => Kept(s)'
  PROVE  HistoryInv'
<1>1. FilesTyped /\ VersionsRise(s)
  BY DEF FilesInv, HistoryInv
<1>2. ASSUME NEW t \in Sessions PROVE VersionsRise(t)' /\ Kept(t)'
  <2>1. CASE ~Alone(t)'
    BY <2>1 DEF VersionsRise, Kept
  <2>2. CASE Alone(t)'
    <3>1. t = s /\ Alone(s)
      BY <1>1, <2>2, AloneBefore
    <3>2. VersionsRise(s)'
      BY <1>1, <3>1, RiseKept
    <3>3. QED
      BY <2>2, <3>1, <3>2
  <2>3. QED
    BY <2>1, <2>2
<1>3. QED
  BY <1>2 DEF HistoryInv

\* A step at which nothing of the change needs to be told yet, or no more.
LEMMA HistoryEarly ==
  ASSUME FilesInv, HistoryInv, NEW s \in Sessions, rows' = rows, second' = second,
         \A t \in Sessions \ {s} : job'[t] = job[t],
         \/ job'[s].step \in {"idle", "again", "compare", "read", "ask", "initial"}
         \/ job'[s].step = "record" /\ job'[s].call.tool = "view"
  PROVE  HistoryInv'
<1>1. Kept(s)'
  BY DEF Kept, At
<1>2. QED
  BY <1>1, HistoryQuiet

LEMMA EarlyHistory ==
  ASSUME FilesInv, HistoryInv, NEW s \in Sessions,
         \/ Begin(s) \/ Again(s) \/ Compare(s) \/ Read(s) \/ Deny(s) \/ Write(s)
         \/ NoInitial(s) \/ CancelRun(s) \/ Record(s)
  PROVE  HistoryInv'
<1>1. FilesTyped /\ job[s] \in Job
  BY FilesFacts DEF FilesInv
<1>2. CASE Begin(s)
  <2>1. PICK call \in ToolCalls : Stat(s, call)
    BY <1>2 DEF Begin
  <2>2. /\ job'[s].step \in {"idle", "again", "compare", "read", "ask"}
        /\ \A t \in Sessions \ {s} : job'[t] = job[t]
    BY <1>1, <2>1, StatGoes, FileAssumption
  <2>3. QED
    BY <1>2, <2>2, HistoryEarly DEF Begin
<1>3. CASE Again(s)
  <2>1. DEFINE call == [job[s].call EXCEPT !.tool = "replace",
                                           !.from = IF job[s].call.tool = "create" THEN Empty ELSE @]
  <2>2. call \in [tool : {"view", "write", "create", "delete", "replace"},
                  from : Contents, to : Contents]
    BY <1>1, FileAssumption DEF Job
  <2>3. Stat(s, call)
    BY <1>3 DEF Again
  <2> HIDE DEF call
  <2>4. /\ job'[s].step \in {"idle", "again", "compare", "read", "ask"}
        /\ \A t \in Sessions \ {s} : job'[t] = job[t]
    BY <1>1, <2>2, <2>3, StatGoes
  <2>5. QED
    BY <1>3, <2>4, HistoryEarly DEF Again
<1>4. CASE Deny(s)
  BY <1>1, <1>4, Stopped, HistoryEarly, ZenonT(60) DEF Deny
<1>5. CASE Write(s)
  BY <1>1, <1>5, Gone, HistoryEarly DEF Write
<1>6. CASE Record(s)
  BY <1>1, <1>6, Responded, HistoryEarly, SMTT(40) DEF Record
<1>7. CASE Read(s)
  BY <1>7, ReadGoes, HistoryEarly DEF Read
<1>8. CASE Compare(s)
  <2>1. job' = [job EXCEPT ![s] = Idle] \/ Go(s, "read")
    BY <1>8 DEF Compare
  <2>2. /\ job'[s].step \in {"idle", "again", "compare", "read", "ask"}
        /\ \A t \in Sessions \ {s} : job'[t] = job[t]
    BY <1>1, <2>1, Gone, Stopped
  <2>3. QED
    BY <1>8, <2>2, HistoryEarly DEF Compare
<1>9. CASE NoInitial(s)
  <2>1. /\ job'[s].step = "idle" /\ \A t \in Sessions \ {s} : job'[t] = job[t]
    BY <1>1, <1>9, Stopped DEF NoInitial
  <2>2. QED
    BY <1>9, <2>1, HistoryEarly DEF NoInitial
<1>10. CASE CancelRun(s)
  <2>1. job'[s].cancelled /\ \A t \in Sessions \ {s} : job'[t] = job[t]
    BY <1>1, <1>10, Cancelled
  <2>2. Kept(s)'
    BY <2>1 DEF Kept
  <2>3. QED
    BY <1>10, <2>1, <2>2, HistoryQuiet DEF CancelRun
<1>11. QED
  BY <1>2, <1>3, <1>4, <1>5, <1>6, <1>7, <1>8, <1>9, <1>10

LEMMA InitialHistory ==
  ASSUME FilesInv, HistoryInv, NEW s \in Sessions, Initial(s)
  PROVE  HistoryInv'
<1>1. /\ FilesTyped /\ second' = second /\ job[s].old \in Contents /\ VersionsRise(s)
  BY FilesFacts DEF Initial, FilesInv, HistoryInv, Job
<1>2. CASE CreateWithVersion(s, job[s].old, 0)
           /\ IF rows' = rows THEN job' = [job EXCEPT ![s] = Idle]
              ELSE Go(s, IF job[s].call.tool = "create" \/ job[s].old = Empty THEN "new" ELSE "old")
  <2>1. CASE rows' = rows
    BY <1>1, <1>2, <2>1, Stopped, HistoryEarly
  <2>2. CASE rows' # rows
    <3>1. PICK row \in Row, m \in 1 .. 3 :
            /\ rows' = Append(rows, row) /\ row.session = s /\ row.content = job[s].old
            /\ row.second = second /\ ~Taken(s, row.version) /\ row.version = Tried(0)[m]
            /\ \A k \in 1 .. 3 : k < m => Taken(s, Tried(0)[k])
      <4>1. 0 \in Nat
        OBVIOUS
      <4>2. QED
        BY <1>1, <1>2, <2>2, <4>1, CreatedFirst
    <3>2. Alone(s) => /\ \A i \in DOMAIN rows : rows[i].version < row.version
                      /\ \A v \in TimeVersion .. row.version : v < row.version => Taken(s, v)
      BY <1>1, <3>1, AnewRow
    <3>3. Go(s, "new") \/ Go(s, "old")
      BY <1>2, <2>2
    <3>4. job'[s].old = job[s].old /\ job'[s].step \in {"new", "old"}
      BY <1>1, <3>3, Gone
    <3>5. Has(s, job[s].old)'
      <4>1. Has(s, row.content)'
        BY <1>1, <3>1, HasMore
      <4>2. DEFINE c == job[s].old
      <4>3. \E i \in Own(s)' : rows'[i].content = row.content
        BY <4>1 DEF Has
      <4>4. \E i \in Own(s)' : rows'[i].content = job'[s].old
        BY <3>1, <3>4, <4>3
      <4>5. QED
        BY <4>4 DEF Has
    <3>6. Kept(s)'
      BY <3>4, <3>5 DEF Kept, At
    <3>7. QED
      BY <1>1, <3>1, <3>2, <3>6, HistoryRow
  <2>3. QED
    BY <2>1, <2>2
<1>3. CASE UNCHANGED rows /\ \E i \in Latest(RowsOf(s)) :
             Go(s, IF rows[i].content = job[s].old THEN "new" ELSE "old")
  <2>1. PICK i \in RowsOf(s) : Go(s, IF rows[i].content = job[s].old THEN "new" ELSE "old")
    BY <1>3 DEF Latest
  <2>2. /\ \A t \in Sessions \ {s} : job'[t] = job[t]
        /\ job'[s].old = job[s].old /\ job'[s].step \in {"new", "old"}
        /\ job'[s].step = "new" => rows[i].content = job[s].old
    BY <1>1, <2>1, Gone
  <2>3. Kept(s)'
    BY <1>3, <2>1, <2>2 DEF Kept, At, Has, Own, RowsOf
  <2>4. QED
    BY <1>1, <1>3, <2>2, <2>3, HistoryQuiet
<1>4. QED
  BY <1>2, <1>3 DEF Initial

\* A counted version: of a session that is alone it is stored, and of another nothing is said.
LEMMA CountedHistory ==
  ASSUME FilesInv, HistoryInv, NEW s \in Sessions, Own(s) # {}, second' = second,
         \A t \in Sessions \ {s} : job'[t] = job[t], job[s].cancelled = FALSE,
         NEW content \in Contents, CreateVersion(s, content),
         ASSUME Alone(s), Has(s, content)', \A c \in Contents : Has(s, c) => Has(s, c)'
         PROVE  Kept(s)'
  PROVE  HistoryInv'
<1>1. FilesTyped /\ VersionsRise(s)
  BY DEF FilesInv, HistoryInv
<1>2. rows # <<>>
  BY DEF Own
<1>3. CASE Alone(s)
  <2>1. PICK row \in Row :
          /\ rows' = Append(rows, row) /\ row.session = s /\ row.content = content
          /\ \A i \in DOMAIN rows : rows[i].version < row.version
          /\ \A v \in TimeVersion .. row.version : v < row.version => Taken(s, v)
    BY <1>1, <1>2, <1>3, CountedRow
  <2>2. Has(s, content)' /\ \A c \in Contents : Has(s, c) => Has(s, c)'
    <3>1. Has(s, row.content)' /\ \A c \in Contents : Has(s, c) => Has(s, c)'
      BY <1>1, <2>1, HasMore
    <3>2. QED
      BY <2>1, <3>1 DEF Has
  <2>3. Kept(s)'
    BY <1>3, <2>2
  <2>4. QED
    BY <2>1, <2>3, HistoryRow
<1>4. CASE ~Alone(s)
  <2>1. CASE rows' = rows
    <3>1. ~Alone(s)'
      BY <1>1, <1>4, <2>1, RowsStay
    <3>2. Kept(s)'
      BY <3>1 DEF Kept
    <3>3. QED
      BY <2>1, <3>2, HistoryQuiet
  <2>2. CASE rows' # rows
    <3>1. PICK row \in Row : rows' = Append(rows, row) /\ row.session = s
      BY <2>2, VersionCreated
    <3>2. QED
      BY <1>4, <3>1, HistoryRow
  <2>3. QED
    BY <2>1, <2>2
<1>5. QED
  BY <1>3, <1>4

\* A version of a cancelled run is not stored, and nothing is said of its change.
LEMMA CancelledHistory ==
  ASSUME FilesInv, HistoryInv, NEW s \in Sessions, job[s].cancelled,
         OldVersion(s) \/ NewVersion(s)
  PROVE  HistoryInv'
<1>1. /\ FilesTyped /\ rows' = rows /\ second' = second
      /\ Go(s, "new") \/ Go(s, "record")
  BY DEF OldVersion, NewVersion, CreateVersion, FilesInv
<1>2. job'[s].cancelled = job[s].cancelled /\ \A t \in Sessions \ {s} : job'[t] = job[t]
  BY <1>1, Gone
<1>3. Kept(s)'
  BY <1>2 DEF Kept
<1>4. QED
  BY <1>1, <1>2, <1>3, HistoryQuiet

LEMMA OldHistory ==
  ASSUME FilesInv, HistoryInv, NEW s \in Sessions, ~job[s].cancelled, OldVersion(s)
  PROVE  HistoryInv'
<1>1. /\ second' = second /\ CreateVersion(s, job[s].old) /\ FilesTyped /\ Go(s, "new")
      /\ job[s].step = "old" /\ job[s].old \in Contents
  BY FilesFacts DEF OldVersion, At, FilesInv, Job
<1>2. Own(s) # {}
  BY <1>1 DEF FilesInv, StartsInitial, At
<1>3. /\ job'[s].step = "new" /\ job'[s].old = job[s].old
      /\ \A t \in Sessions \ {s} : job'[t] = job[t]
  BY <1>1, Gone
<1>4. PICK content \in Contents : content = job[s].old
  BY <1>1
<1>5. ASSUME Has(s, content)' PROVE Kept(s)'
  BY <1>3, <1>4, <1>5 DEF Kept, At, Has
<1>6. CreateVersion(s, content) /\ job[s].cancelled = FALSE
  BY <1>1, <1>4, FilesFacts
<1>7. QED
  BY <1>1, <1>2, <1>3, <1>5, <1>6, CountedHistory

LEMMA NewHistory ==
  ASSUME FilesInv, HistoryInv, NEW s \in Sessions, ~job[s].cancelled, NewVersion(s)
  PROVE  HistoryInv'
<1>1. /\ second' = second /\ FilesTyped /\ Go(s, "record") /\ job[s].step = "new"
      /\ CreateVersion(s, IF job[s].call.tool = "delete" THEN Empty ELSE job[s].new)
      /\ job[s].old \in Contents /\ job[s].new \in Contents
  BY FilesFacts DEF NewVersion, At, FilesInv, Job
<1>2. Own(s) # {}
  BY <1>1 DEF FilesInv, StartsInitial, At
<1>3. /\ job'[s].step = "record" /\ job'[s].old = job[s].old /\ job'[s].new = job[s].new
      /\ job'[s].call = job[s].call /\ \A t \in Sessions \ {s} : job'[t] = job[t]
  BY <1>1, Gone
<1>4. PICK content \in Contents :
        content = IF job[s].call.tool = "delete" THEN Empty ELSE job[s].new
  BY <1>1, FileAssumption
<1>5. PICK old \in Contents : old = job[s].old
  BY <1>1
<1>6. ASSUME Alone(s), Has(s, content)', \A c \in Contents : Has(s, c) => Has(s, c)'
      PROVE  Kept(s)'
  <2>1. SUFFICES ASSUME job[s].call.tool \in {"write", "replace", "create"}
                 PROVE  Has(s, job[s].old)' /\ Has(s, job[s].new)'
    BY <1>3 DEF Kept
  <2>2. Has(s, old)
    BY <1>1, <1>5, <1>6, <2>1 DEF HistoryInv, Kept, At
  <2>3. Has(s, old)' /\ Has(s, content)' /\ content = job'[s].new /\ old = job'[s].old
    BY <1>3, <1>4, <1>5, <1>6, <2>1, <2>2
  <2>4. QED
    BY <2>3 DEF Has
<1>7. CreateVersion(s, content) /\ job[s].cancelled = FALSE
  BY <1>1, <1>4, FilesFacts
<1>8. QED
  BY <1>1, <1>2, <1>3, <1>6, <1>7, CountedHistory

\* Who is alone has the versions in order, and those of its changes
\* (history/file.go:62-156; edit.go, write.go).
THEOREM HistoryInvariant == FilesSpec => []HistoryInv
<1>1. FilesInit => HistoryInv
  <2>1. SUFFICES ASSUME FilesInit, NEW s \in Sessions PROVE VersionsRise(s) /\ Kept(s)
    BY DEF HistoryInv
  <2>2. DOMAIN rows = {} /\ job[s].step = "idle"
    BY <2>1 DEF FilesInit, Idle
  <2>3. QED
    BY <2>2 DEF VersionsRise, Kept, At
<1>2. FilesInv /\ HistoryInv /\ [FilesNext]_fileVars => HistoryInv'
  <2>1. SUFFICES ASSUME FilesInv, HistoryInv, [FilesNext]_fileVars PROVE HistoryInv'
    OBVIOUS
  <2>2. ASSUME rows' = rows, job' = job, second' \in {second, second + 1} PROVE HistoryInv'
    <3>1. SUFFICES ASSUME NEW t \in Sessions PROVE VersionsRise(t)' /\ Kept(t)'
      BY DEF HistoryInv
    <3>2. FilesTyped /\ VersionsRise(t) /\ Kept(t) /\ job[t].old \in Contents /\ job[t].new \in Contents
      BY <2>1, FilesFacts DEF FilesInv, HistoryInv, Job
    <3>3. /\ Alone(t)' <=> Alone(t)
          /\ \A c \in Contents : Has(t, c)' <=> Has(t, c)
          /\ VersionsRise(t)'
      BY <2>2, <3>2, RowsStay
    <3>4. QED
      BY <2>2, <3>2, <3>3 DEF Kept, At
  <2>3. CASE Change \/ Tick \/ UNCHANGED fileVars
    BY <2>2, <2>3 DEF Change, Tick, fileVars
  <2>4. ASSUME NEW s \in Sessions,
               \/ Begin(s) \/ Again(s) \/ Compare(s) \/ Read(s) \/ Deny(s) \/ Write(s)
               \/ NoInitial(s) \/ CancelRun(s) \/ Record(s)
        PROVE  HistoryInv'
    BY <2>1, <2>4, EarlyHistory
  <2>5. ASSUME NEW s \in Sessions, Initial(s) \/ OldVersion(s) \/ NewVersion(s)
        PROVE  HistoryInv'
    BY <2>1, <2>5, InitialHistory, CancelledHistory, OldHistory, NewHistory
  <2>6. QED
    BY <2>1, <2>3, <2>4, <2>5 DEF FilesNext
<1>3. QED
  BY <1>1, <1>2, FilesInvariant, PTL DEF FilesSpec

\* What a session did to a file can be told from its history: where it began, and the
\* content before and after each change of a session that is alone, but for the changes of
\* runs cancelled before their versions were stored, as long as no second has
\* four rows and the file is not made anew in a second that has one
\* (history/file.go:57-156).
THEOREM HistoryIsTold == FilesSpec => []HistoryTold
<1>1. HistoryInv => ChangesKept
  BY DEF HistoryInv, Kept, ChangesKept
<1>2. QED
  BY <1>1, InitialIsTold, HistoryInvariant, PTL DEF HistoryTold
=============================================================================
