--------------------------- MODULE ProviderStream ---------------------------
(***************************************************************************)
(* One streamed answer of a language model: the goroutine of a provider    *)
(* client that talks to the service and sends events through an unbuffered *)
(* channel (src/cli/internal/llm/provider), and the agent's run that reads *)
(* them (streamAndHandleEvents, src/cli/internal/llm/agent/agent.go).      *)
(*                                                                         *)
(* A piece of text is known by the attempt it came in and its number       *)
(* there.  Events that carry no text (start and stop of a block, tools,    *)
(* thinking) are notes.  The services' SDKs and the two CLIs are external: *)
(* an SDK gives the status of a refused request before anything else.      *)
(***************************************************************************)
EXTENDS Naturals, Sequences

CONSTANTS MaxRetries,  \* maxRetries: 8 in the code
          MaxChunks,   \* bound: pieces of text of one attempt
          MaxSends     \* bound: requests of a client that counts no empty answers

ASSUME StreamAssumption ==
  /\ MaxRetries \in Nat \ {0} /\ MaxChunks \in Nat
  /\ MaxSends \in Nat /\ MaxSends > MaxRetries

VARIABLES
  client,    \* the client of this stream
  at,        \* what its goroutine is about to do
  sent,      \* the events it is sending, one after the other
  attempts,  \* requests begun
  content,   \* currentContent: the text of this attempt
  ctxDone,   \* the context of the run is done
  reader,    \* the run: "creating", "reading", "checking", "left", "done", "died"
  text,      \* the text of the assistant's message
  answers    \* the texts of the Complete events that were read

clientVars == <<at, sent, attempts, content>>
readerVars == <<reader, text, answers>>
streamVars == <<client, clientVars, ctxDone, readerVars>>

Compatible == {"openai", "copilot"}
Proxies == {"claude", "codex"}
Clients == Compatible \cup Proxies \cup {"anthropic", "gemini"}

Note == [type |-> "note", content |-> <<>>]
Failure == [type |-> "error", content |-> <<>>]
NilFailure == [type |-> "nil error", content |-> <<>>]
Complete == [type |-> "complete", content |-> content]

Alive == at # "panicked"
\* The goroutine waits until the run has taken what it sends.
CanSend == Alive /\ sent = <<>>

StreamInit ==
  /\ client \in Clients
  /\ at = "new" /\ sent = <<>> /\ attempts = 0 /\ content = <<>>
  /\ ctxDone = FALSE
  /\ reader = "creating" /\ text = <<>> /\ answers = <<>>
-----------------------------------------------------------------------------
Finish(events) == at' = "ending" /\ sent' = events

\* A request; with a context that is done it fails at once, and a CLI does not start.
Begin ==
  /\ at \in {"new", "again"} /\ CanSend
  /\ client \in Proxies => ~ctxDone
  /\ attempts' = attempts + 1
  /\ content' = <<>>
  /\ at' = IF ctxDone THEN "refused" ELSE "next"
  /\ sent' = IF client = "gemini" THEN <<Note>> ELSE <<>>
  /\ UNCHANGED <<client, ctxDone, readerVars>>

\* A proxied CLI that is not there or does not start, or a prompt without a user.
CannotStart ==
  /\ at = "new" /\ client \in Proxies
  /\ Finish(<<Failure>>)
  /\ UNCHANGED <<client, attempts, content, ctxDone, readerVars>>

\* A piece of text.
Chunk ==
  /\ at \in {"next", "some"} /\ CanSend
  /\ Len(content) < MaxChunks
  /\ LET piece == <<<<attempts, Len(content) + 1>>>> IN
       /\ content' = content \o piece
       /\ sent' = (IF client \in Proxies /\ content = <<>> THEN <<Note>> ELSE <<>>)
                    \o <<[type |-> "delta", content |-> piece]>>
  /\ at' = "some"
  /\ UNCHANGED <<client, attempts, ctxDone, readerVars>>

\* Something without text: a note is sent, or nothing by the clients that only collect.
Other ==
  /\ at \in {"next", "some"} /\ CanSend
  /\ at' = "some"
  /\ sent' = IF client \in Compatible \cup {"gemini"} THEN <<>> ELSE <<Note>>
  /\ UNCHANGED <<client, attempts, content, ctxDone, readerVars>>

\* The message_stop of Anthropic, the result of a CLI's turn.
Stop ==
  /\ at \in {"next", "some"} /\ CanSend
  /\ client \in Proxies \cup {"anthropic"}
  /\ at' = "stopped"
  /\ sent' = (IF client \in Proxies /\ content # <<>> THEN <<Note>> ELSE <<>>) \o <<Complete>>
  /\ UNCHANGED <<client, attempts, content, ctxDone, readerVars>>

\* Codex tells of a failure and its output goes on.
Trouble ==
  /\ at \in {"next", "some"} /\ CanSend /\ client = "codex"
  /\ sent' = <<Failure>>
  /\ UNCHANGED <<client, at, attempts, content, ctxDone, readerVars>>

\* The answer is over.  The OpenAI clients take the first choice of an answer that
\* may have none; Gemini's sends the same message again after an answer with nothing;
\* Anthropic's and the CLIs' only close.
End ==
  /\ at \in {"next", "some", "stopped"} /\ CanSend
  /\ client = "gemini" /\ at = "next" => attempts < MaxSends
  /\ CASE client \in Compatible ->
            IF at = "next" THEN at' = "panicked" /\ UNCHANGED sent ELSE Finish(<<Complete>>)
       [] client = "gemini" ->
            IF at = "next" THEN at' = "again" /\ sent' = <<Note>> ELSE Finish(<<Note, Complete>>)
       [] OTHER -> Finish(<<>>)
  /\ UNCHANGED <<client, attempts, content, ctxDone, readerVars>>
-----------------------------------------------------------------------------
\* An error is a rate limit (or, for the OpenAI clients, an error of the server), a
\* token of Copilot's that expired and could be replaced, or another one.
Errors ==
  CASE at = "next" /\ client = "copilot" -> {"limit", "token", "other"}
    [] at = "next" \/ (at = "some" /\ client = "gemini") -> {"limit", "other"}
    [] OTHER -> {"other"}

\* Variant: every error is worth another attempt.
ShouldRetryAll(error) == attempts <= MaxRetries

\* shouldRetry, with the count that Copilot's client makes again.
ShouldRetry(error) == error # "other" /\ attempts <= MaxRetries

\* Variant: the channel is closed without a word.
FailQuietly(error) ==
  /\ at \in {"next", "some", "stopped", "refused"} /\ CanSend /\ client \notin Proxies
  /\ IF ShouldRetry(error) THEN at' = "backoff" /\ UNCHANGED sent ELSE Finish(<<>>)
  /\ UNCHANGED <<client, attempts, content, ctxDone, readerVars>>

\* A token that was replaced too often ends in an event with no error in it.
Fail(error) ==
  /\ at \in {"next", "some", "stopped", "refused"} /\ CanSend /\ client \notin Proxies
  /\ error \in Errors
  /\ IF ShouldRetry(error)
       THEN at' = "backoff" /\ UNCHANGED sent
       ELSE Finish(<<IF error = "token" THEN NilFailure ELSE Failure>>)
  /\ UNCHANGED <<client, attempts, content, ctxDone, readerVars>>

\* The context is done while the client waits: OpenAI's and Copilot's test ctx.Err()
\* the wrong way round and send nothing.
CancelBackoff ==
  /\ at = "backoff" /\ ctxDone
  /\ Finish(IF client \in Compatible THEN <<>> ELSE <<Failure>>)
  /\ UNCHANGED <<client, attempts, content, ctxDone, readerVars>>

\* The wait is over.  Gemini's client only leaves its select, and uses the answer it
\* does not have.
Timer ==
  /\ at = "backoff"
  /\ at' = IF client = "gemini" THEN "panicked" ELSE "again"
  /\ UNCHANGED <<client, sent, attempts, content, ctxDone, readerVars>>

\* Variant: the goroutine returns and leaves its channel open.
Forget ==
  /\ at = "ending" /\ CanSend
  /\ at' = "over"
  /\ UNCHANGED <<client, sent, attempts, content, ctxDone, readerVars>>

CloseChannel ==
  /\ at = "ending" /\ CanSend
  /\ at' = "closed"
  /\ UNCHANGED <<client, sent, attempts, content, ctxDone, readerVars>>
-----------------------------------------------------------------------------
\* The run makes the assistant's message while the client is at work already.
CreateMessage ==
  /\ reader = "creating" /\ Alive
  /\ reader' \in {"reading", "left"}
  /\ UNCHANGED <<client, clientVars, ctxDone, text, answers>>

\* processEvent: a done context, an error or a failed store ends the run's reading.
ReadEvent ==
  /\ reader = "reading" /\ Alive /\ sent # <<>>
  /\ sent' = Tail(sent)
  /\ LET event == Head(sent) IN
       IF ctxDone
         THEN reader' = "left" /\ UNCHANGED <<text, answers>>
         ELSE /\ reader' \in CASE event.type = "error" -> {"left"}
                               [] event.type = "nil error" -> {"died"}
                               [] OTHER -> {"checking", "left"}
              /\ text' = IF event.type = "delta" THEN text \o event.content ELSE text
              /\ answers' = IF event.type = "complete" THEN Append(answers, event.content) ELSE answers
  /\ UNCHANGED <<client, at, attempts, content, ctxDone>>

\* The second look at the context, after an event.
CheckContext ==
  /\ reader = "checking" /\ Alive
  /\ reader' = IF ctxDone THEN "left" ELSE "reading"
  /\ UNCHANGED <<client, clientVars, ctxDone, text, answers>>

\* The channel is closed: the run takes the answer for whole.
ReadEnd ==
  /\ reader = "reading" /\ at = "closed" /\ sent = <<>>
  /\ reader' = "done"
  /\ UNCHANGED <<client, clientVars, ctxDone, text, answers>>

\* A cancelled run, or the cancel at the end of a run that left.
Cancel ==
  /\ Alive /\ ~ctxDone /\ reader # "died"
  /\ ctxDone' = TRUE
  /\ UNCHANGED <<client, clientVars, readerVars>>
-----------------------------------------------------------------------------
ClientStep ==
  \/ Begin \/ CannotStart \/ Chunk \/ Other \/ Stop \/ Trouble \/ End
  \/ \E error \in {"limit", "token", "other"} : Fail(error)
  \/ CancelBackoff \/ Timer \/ CloseChannel
ReaderStep == CreateMessage \/ ReadEvent \/ CheckContext \/ ReadEnd

StreamNext == ClientStep \/ ReaderStep \/ Cancel

\* No service has to answer.  Once the context is done nothing waits for one: an SDK
\* returns, a CLI is killed, a timer fires.
StreamFairness ==
  /\ WF_streamVars(ctxDone /\ ClientStep)
  /\ WF_streamVars(ctxDone /\ ReaderStep)

StreamSpec == StreamInit /\ [][StreamNext]_streamVars /\ StreamFairness
=============================================================================
