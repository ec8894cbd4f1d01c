----------------------- MODULE ProviderStreamProperties -----------------------
(***************************************************************************)
(* What a streamed answer promises the run that reads it.                  *)
(***************************************************************************)
EXTENDS ProviderStream

\* Types of all variables; a client that counts its attempts makes one more than
\* MaxRetries at most (anthropic.go:409, openai.go:347, copilot.go:519, 598), while nothing counts
\* the requests of Gemini's after empty answers (gemini.go:285, 367).
StreamTypeOK ==
  /\ client \in Clients
  /\ at \in {"new", "next", "some", "stopped", "refused", "backoff", "again", "ending", "closed",
             "panicked"}
  /\ ctxDone \in BOOLEAN
  /\ reader \in {"creating", "reading", "checking", "left", "done", "died"}
  /\ Len(sent) <= 2
  /\ attempts <= IF client = "gemini" THEN MaxSends ELSE MaxRetries + 1

\* What the run stores is one answer, whole and once: the pieces of one attempt in
\* their order, whatever was retried before, and the Complete event, which comes once,
\* carries exactly that text (anthropic.go:284-397, openai.go:255-330, gemini.go:281-387,
\* agent.go:339-348).
AnswerWhole ==
  /\ \A i \in DOMAIN text : text[i] = <<text[1][1], i>>
  /\ answers \in {<<>>, <<text>>}

\* A stream that ends without an error has given its answer, for the agent takes the
\* end for one (agent.go:339-350, 305-310).  Those that may not have are known: Anthropic's after a
\* connection that ended early, a CLI that exits, and the OpenAI clients when the
\* context is done during a wait (anthropic.go:362-366, claude_code.go:282, openai.go:316-323).
EndsTold ==
  reader = "done" /\ answers = <<>> =>
    client \in Proxies \cup {"anthropic"} \/ (client \in Compatible /\ ctxDone)

\* A run whose context is done stops reading, wherever its client waits: for the service,
\* for the next attempt or for the run itself (anthropic.go:374-388, agent.go:339-348,
\* 445-451).
CancelEnds == ctxDone ~> (reader \in {"left", "done", "died"} \/ ~Alive)
=============================================================================
