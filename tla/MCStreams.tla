------------------------------ MODULE MCStreams ------------------------------
(***************************************************************************)
(* Two streams of the CLI that share no state: the broker's events and a   *)
(* model's answer.  In a behaviour one of them is at work.                 *)
(***************************************************************************)
EXTENDS BrokerProperties, ProviderStreamProperties, TLC

CONSTANTS s1, s2, p1, p2

VARIABLE part  \* the one at work

vars == <<brokerVars, streamVars, part>>

Init ==
  /\ BrokerInit /\ StreamInit
  /\ part \in {"broker", "answer"}
  /\ part = "broker" => client = "openai"
Next ==
  /\ UNCHANGED part
  /\ \/ part = "broker" /\ BrokerNext /\ UNCHANGED streamVars
     \/ part = "answer" /\ StreamNext /\ UNCHANGED brokerVars

Spec == Init /\ [][Next]_vars /\ BrokerFairness /\ StreamFairness

\* One goroutine publishes twice, the other once.
MCMaxEvents == (p1 :> 2) @@ (p2 :> 1)
=============================================================================
