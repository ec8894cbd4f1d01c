----------------------------- MODULE Permission -----------------------------
(***************************************************************************)
(* The permission service of the CLI (permission/permission.go) and the    *)
(* dialog of the terminal interface that answers its requests              *)
(* (tui/tui.go, tui/components/dialog/permission.go).                      *)
(*                                                                         *)
(* A tool's goroutine stores a channel of capacity one under a new id,     *)
(* publishes the request and waits for the channel.  The event reaches the *)
(* interface through subscriptions that may drop it.  The interface is one *)
(* thread: it shows one request at a time, a key turns into a message that *)
(* comes back to the thread later, and that message sends the answer.      *)
(***************************************************************************)
EXTENDS Naturals, Sequences, FiniteSets

CONSTANTS Askers,      \* goroutines whose tools ask; each asks one thing at a time
          Sessions,    \* a request is for the session of its asker, and one tool,
          SessionOf,   \* action and path per session stand for all
          MaxPresses,  \* bound: keys pressed and not yet handled
          None

VARIABLES
  asked,     \* how many requests an asker has made: its last one has that number
  pending,   \* pendingRequests: the requests <<asker, number>> that have a channel
  answer,    \* the channel of an asker's last request
  grants,    \* sessionPermissions, by session
  inbox,     \* the request events on their way to the interface
  dialog,    \* the request the dialog shows, or None
  replies,   \* the PermissionResponseMsgs on their way, in the order of the keys
  blocked,   \* a reply the interface's thread is stuck on, or None
  consent    \* ghost: the pending requests the user allowed

permissionVars == <<asked, pending, answer, grants, inbox, dialog, replies, blocked, consent>>

Request(a) == <<a, asked[a]>>
Actions == {"allow", "session", "deny"}
Verdict(reply) == reply.action # "deny"

PermissionInit ==
  /\ asked = [a \in Askers |-> 0]
  /\ pending = {}
  /\ answer = [a \in Askers |-> <<>>]
  /\ grants = {} /\ inbox = <<>> /\ dialog = None
  /\ replies = <<>> /\ blocked = None /\ consent = {}

\* No question is put when the session was granted the like of it before, or when
\* every request of the session is approved.
Approved(a, autoApproved) == SessionOf[a] \in grants \/ SessionOf[a] \in autoApproved

\* The first half of Request: the channel is stored and the event published, which
\* a full buffer or a slow reader may drop.
Ask(a) ==
  LET id == <<a, asked[a] + 1>> IN
  /\ asked' = [asked EXCEPT ![a] = @ + 1]
  /\ pending' = pending \cup {id}
  /\ inbox' \in {Append(inbox, id), inbox}
  /\ UNCHANGED <<answer, grants, dialog, replies, blocked, consent>>

\* Request's receive: a sender that waits for this channel fills it again at once.
\* The deferred Delete follows as a step of its own.
TakeAnswer(a) ==
  /\ answer[a] # <<>>
  /\ IF blocked # None /\ blocked.id = Request(a)
       THEN /\ answer' = [answer EXCEPT ![a] = <<Verdict(blocked)>>]
            /\ blocked' = [blocked EXCEPT !.sent = TRUE]
       ELSE answer' = [answer EXCEPT ![a] = <<>>] /\ UNCHANGED blocked
  /\ UNCHANGED <<asked, pending, grants, inbox, dialog, replies, consent>>
Forget(a) ==
  /\ pending' = pending \ {Request(a)}
  /\ answer' = [answer EXCEPT ![a] = <<>>]
  /\ consent' = consent \ {Request(a)}
  /\ UNCHANGED <<asked, grants, inbox, dialog, replies, blocked>>
-----------------------------------------------------------------------------
(* The interface's thread. *)

Free == blocked = None

\* A request event replaces whatever the dialog shows.
ShowRequest ==
  /\ Free /\ inbox # <<>>
  /\ inbox' = Tail(inbox)
  /\ dialog' = Head(inbox)
  /\ UNCHANGED <<asked, pending, answer, grants, replies, blocked, consent>>

\* A key in the dialog: the reply names the request the dialog holds now.
Press ==
  /\ Free /\ dialog # None /\ Len(replies) < MaxPresses
  /\ \E act \in Actions :
       /\ replies' = Append(replies, [id |-> dialog, action |-> act])
       /\ consent' = IF act = "deny" THEN consent ELSE consent \cup ({dialog} \cap pending)
  /\ UNCHANGED <<asked, pending, answer, grants, inbox, dialog, blocked>>

\* What follows the send of an answer: the session's grant, and the dialog is hidden.
Replied(reply) ==
  /\ grants' = IF reply.action = "session" THEN grants \cup {SessionOf[reply.id[1]]} ELSE grants
  /\ dialog' = None

\* Variant: the requests are kept by session and not by their ids.
IsPendingAnyhow(reply) == \E id \in pending : id[1] = reply.id[1]
IsPending(reply) == reply.id \in pending

\* Grant, GrantPersistant, Deny: an answer to a request that is no longer pending is
\* dropped, one to a channel that is full makes the thread wait.  Commands run
\* concurrently, so replies may overtake each other.
Respond ==
  /\ Free
  /\ \E i \in DOMAIN replies :
       LET reply == replies[i] IN
       /\ replies' = SubSeq(replies, 1, i - 1) \o SubSeq(replies, i + 1, Len(replies))
       /\ IF ~IsPending(reply) THEN Replied(reply) /\ UNCHANGED <<answer, blocked>>
          ELSE IF answer[reply.id[1]] = <<>>
            THEN /\ answer' = [answer EXCEPT ![reply.id[1]] = <<Verdict(reply)>>]
                 /\ Replied(reply) /\ UNCHANGED blocked
          ELSE /\ blocked' = [id |-> reply.id, action |-> reply.action, sent |-> FALSE]
               /\ UNCHANGED <<answer, grants, dialog>>
  /\ UNCHANGED <<asked, pending, inbox, consent>>

\* The thread goes on when its answer has been taken into the channel.
Unblock ==
  /\ ~Free /\ blocked.sent
  /\ Replied(blocked)
  /\ blocked' = None
  /\ UNCHANGED <<asked, pending, answer, inbox, replies, consent>>

\* The thread waits for a channel nobody reads any more.
Stuck == ~Free /\ ~blocked.sent /\ blocked.id \notin pending

PermissionNext == ShowRequest \/ Press \/ Respond \/ Unblock

\* Nothing will ever answer a's request: its event was dropped, another request took
\* its place in the dialog, or an older reply hid the dialog.
Lost(a) ==
  /\ Request(a) \in pending /\ answer[a] = <<>>
  /\ \A i \in DOMAIN inbox : inbox[i] # Request(a)
  /\ \A i \in DOMAIN replies : replies[i].id # Request(a)
  /\ dialog # Request(a)
  /\ Free
=============================================================================
