---------------------------- MODULE AnswerLedger ----------------------------
(***************************************************************************)
(* What the chat gateway promises about stored conversations, without locks, *)
(* sockets or files: a ledger of what became of each client_message_id.  A   *)
(* question is entered once, an attempt may leave a stopped answer that a    *)
(* retry withdraws, a complete answer is final, and a deleted conversation   *)
(* stays deleted.                                                            *)
(***************************************************************************)
CONSTANTS Conversations, Messages

VARIABLES
    conversation,  \* "absent", "open" or "deleted"
    entry          \* what became of each message of each conversation

ledgerVars == <<conversation, entry>>

LInit ==
    /\ conversation = [c \in Conversations |-> "absent"]
    /\ entry = [c \in Conversations |-> [m \in Messages |-> "none"]]

Open(c) ==
    /\ conversation[c] = "absent"
    /\ conversation' = [conversation EXCEPT ![c] = "open"]
    /\ UNCHANGED entry

Record(c, m, from, to) ==
    /\ conversation[c] = "open"
    /\ entry[c][m] = from
    /\ entry' = [entry EXCEPT ![c][m] = to]
    /\ UNCHANGED conversation

Ask(c, m) == Record(c, m, "none", "asked")
Answer(c, m) == Record(c, m, "asked", "answered")
Stop(c, m) == Record(c, m, "asked", "stopped")
Retry(c, m) == Record(c, m, "stopped", "asked")

Erase(c) ==
    /\ conversation[c] = "open"
    /\ conversation' = [conversation EXCEPT ![c] = "deleted"]
    /\ entry' = [entry EXCEPT ![c] = [m \in Messages |-> "none"]]

LNext ==
    \E c \in Conversations :
        \/ Open(c) \/ Erase(c)
        \/ \E m \in Messages :
              Ask(c, m) \/ Answer(c, m) \/ Stop(c, m) \/ Retry(c, m)

LSpec == LInit /\ [][LNext]_ledgerVars
=============================================================================
