----------------------------- MODULE ChatClient -----------------------------
(***************************************************************************)
(* The chat page (services/openclaw/ui/app.js) where it decides what is     *)
(* sent, under which client_message_id and to which conversation.           *)
(*                                                                          *)
(* An action is what a handler runs between two awaits.  The texts, drafts, *)
(* models and health probes are left out: the user may type a question at   *)
(* any time, and a question counts by the UUID submitComposer gives it.     *)
(* A POST the page gave up may still reach the gateway.                     *)
(***************************************************************************)
EXTENDS Naturals, FiniteSets

CONSTANTS
    Conversations,  \* ids the gateway may give to new conversations
    None,           \* no conversation, no question: none of them, no number
    MaxQuestions    \* bound: questions typed by the user

VARIABLES
    conversationId, \* state.conversationId
    asked,          \* UUIDs used so far
    send,           \* the send in progress: state.sending and its locals
    notice,         \* the question the visible Retry button sends again
    limited,        \* state.rateLimitTimer is set
    loads,          \* conversations being loaded
    deletion,       \* where deleteCurrentConversation is
    conversation,   \* at the gateway: "unborn", "open" or "deleted"
    stored,         \* at the gateway: the questions in each conversation
    posts           \* POSTs on their way to the gateway

gateway == <<conversation, stored, posts>>
vars == <<conversationId, asked, send, notice, limited, loads, deletion, gateway>>

Idle == [phase |-> "idle", id |-> None, to |-> None,
         text |-> FALSE,        \* streamedText is not empty
         stopped |-> FALSE]     \* the signal is aborted

Sending == send.phase # "idle"

Open == {c \in Conversations : conversation[c] = "open"}

Init ==
    /\ conversationId = None
    /\ asked = 0
    /\ send = Idle
    /\ notice = None
    /\ limited = FALSE
    /\ loads = {}
    /\ deletion = [phase |-> "idle", of |-> None]
    /\ conversation = [c \in Conversations |-> "unborn"]
    /\ stored = [c \in Conversations |-> {}]
    /\ posts = {}
-----------------------------------------------------------------------------
(* sendQuestion.                                                            *)

\* Up to the first await: the notice is hidden, and the question goes to the
\* conversation selected now, or to one that is to be created.
SendQuestion(id) ==
    /\ notice' = None
    /\ IF conversationId = None
       THEN /\ send' = [Idle EXCEPT !.phase = "creating", !.id = id]
            /\ UNCHANGED posts
       ELSE /\ send' = [Idle EXCEPT !.phase = "posted", !.id = id,
                                    !.to = conversationId]
            /\ posts' = posts \cup {<<id, conversationId>>}
    /\ UNCHANGED <<conversationId, limited, loads, deletion, conversation,
                   stored>>

Submit ==
    /\ ~Sending
    /\ ~limited
    /\ asked < MaxQuestions
    /\ asked' = asked + 1
    /\ SendQuestion(asked + 1)

Retry ==
    /\ notice # None
    /\ SendQuestion(notice)
    /\ UNCHANGED asked

\* The conversation is created and selected; the list is fetched before the
\* question is posted.
Created ==
    /\ send.phase = "creating"
    /\ \E c \in Conversations :
          /\ conversation[c] = "unborn"
          /\ conversation' = [conversation EXCEPT ![c] = "open"]
          /\ conversationId' = c
          /\ send' = [send EXCEPT !.phase = "listing", !.to = c]
    /\ UNCHANGED <<asked, notice, limited, loads, deletion, stored, posts>>

Listed ==
    /\ send.phase = "listing"
    /\ ~send.stopped
    /\ send' = [send EXCEPT !.phase = "posted"]
    /\ posts' = posts \cup {<<send.id, send.to>>}
    /\ UNCHANGED <<conversationId, asked, notice, limited, loads, deletion,
                   conversation, stored>>

TokenArrives ==
    /\ send.phase = "posted"
    /\ send.id \in stored[send.to]
    /\ send' = [send EXCEPT !.text = TRUE]
    /\ UNCHANGED <<conversationId, asked, notice, limited, loads, deletion, gateway>>

\* The finally block; retry is the question offered again, or None.
EndSend(retry) ==
    /\ Sending
    /\ send' = Idle
    /\ notice' = retry
    /\ UNCHANGED <<conversationId, asked, loads, deletion, gateway>>

\* A replayed answer comes as a result alone.
ResultArrives ==
    /\ send.phase = "posted"
    /\ send.id \in stored[send.to]
    /\ EndSend(notice)
    /\ UNCHANGED limited

\* failSend: a refusal, an error event, a stream that is cut, no connection.
SendFails ==
    /\ send.phase # "listing"
    /\ EndSend(IF send.stopped THEN notice ELSE send.id)
    /\ UNCHANGED limited

RateLimited ==
    /\ send.phase = "posted"
    /\ EndSend(None)
    /\ limited' = TRUE

\* The stop button: only a partial answer leaves a Retry behind.  Before the
\* POST the signal waits for the fetch, which then throws at once.
Stop ==
    /\ send.phase = "posted"
    /\ EndSend(IF send.text THEN send.id ELSE notice)
    /\ UNCHANGED limited

StopEarly ==
    /\ send.phase \in {"creating", "listing"}
    /\ send' = [send EXCEPT !.stopped = TRUE]
    /\ UNCHANGED <<conversationId, asked, notice, limited, loads, deletion, gateway>>

ListedStopped ==
    /\ send.phase = "listing"
    /\ send.stopped
    /\ EndSend(notice)
    /\ UNCHANGED limited

\* The countdown's own notice has no Retry and is hidden with it.
CountdownEnds ==
    /\ limited
    /\ limited' = FALSE
    /\ notice' = None
    /\ UNCHANGED <<conversationId, asked, send, loads, deletion, gateway>>
-----------------------------------------------------------------------------
(* Choosing and deleting conversations, one deletion at a time.             *)

NewConversation ==
    /\ ~Sending
    /\ conversationId' = None
    /\ UNCHANGED <<asked, send, notice, limited, loads, deletion, gateway>>

LoadConversation(c) ==
    /\ conversationId' = c
    /\ notice' = None
    /\ loads' = loads \cup ({c} \ {None})
    /\ UNCHANGED <<asked, send, limited, gateway>>

Pick ==
    /\ ~Sending
    /\ \E c \in Open : LoadConversation(c)
    /\ UNCHANGED deletion

\* The answer of a load, whatever was selected or sent since: found, not
\* found, or no answer.
Loaded ==
    \E c \in loads :
        /\ loads' = loads \ {c}
        /\ \/ /\ c \in Open
              /\ UNCHANGED <<conversationId, notice>>
           \/ /\ c \notin Open
              /\ conversationId' = None
              /\ notice' = None
           \/ /\ notice' = None
              /\ UNCHANGED conversationId
        /\ UNCHANGED <<asked, send, limited, deletion, gateway>>

Delete ==
    /\ conversationId # None
    /\ ~Sending
    /\ deletion.phase = "idle"
    /\ deletion' = [phase |-> "deleting", of |-> conversationId]
    /\ UNCHANGED <<conversationId, asked, send, notice, limited, loads, gateway>>

Deleted ==
    /\ deletion.phase = "deleting"
    /\ deletion' = [phase |-> "listing", of |-> None]
    /\ conversation' = [conversation EXCEPT ![deletion.of] = "deleted"]
    /\ stored' = [stored EXCEPT ![deletion.of] = {}]
    /\ conversationId' = None
    /\ UNCHANGED <<asked, send, notice, limited, loads, posts>>

DeleteFails ==
    /\ deletion.phase = "deleting"
    /\ deletion' = [phase |-> "idle", of |-> None]
    /\ notice' \in {None, notice}
    /\ UNCHANGED <<conversationId, asked, send, limited, loads, gateway>>

\* After the list the first conversation is loaded, even under a send.
DeleteListed ==
    /\ deletion.phase = "listing"
    /\ deletion' = [phase |-> "idle", of |-> None]
    /\ \E c \in Open \cup {None} : LoadConversation(c)
-----------------------------------------------------------------------------
(* The gateway: a question is stored once per conversation and id.          *)

GatewayStores ==
    \E p \in posts :
        /\ posts' = posts \ {p}
        /\ stored' = IF p[2] \in Open
                     THEN [stored EXCEPT ![p[2]] = @ \cup {p[1]}] ELSE stored
        /\ UNCHANGED <<conversationId, asked, send, notice, limited, loads,
                       deletion, conversation>>

Next ==
    \/ Submit \/ Retry \/ Created \/ Listed \/ TokenArrives \/ ResultArrives
    \/ SendFails \/ RateLimited
    \/ Stop \/ StopEarly \/ ListedStopped \/ CountdownEnds
    \/ NewConversation \/ Pick \/ Loaded
    \/ Delete \/ Deleted \/ DeleteFails \/ DeleteListed
    \/ GatewayStores

Spec == Init /\ [][Next]_vars
-----------------------------------------------------------------------------
\* "retries are safe and will not duplicate your message" (app.js:935): a
\* question sent once and retried is stored in one conversation.
RetriesSafe ==
    \A id \in 1..asked :
        Cardinality({c \in Conversations : id \in stored[c]}) <= 1
=============================================================================
