--------------------------- MODULE MCChatGateway ---------------------------
(* Small instances of ChatGateway: s1 and s2 carry message m1, s3 and s4      *)
(* carry m2, all of them in conversation c1.                                  *)
EXTENDS ChatGateway, TLC

CONSTANTS c1, c2, c3, c4, m1, m2, s1, s2, s3, s4, d1

MCConvOf == [t \in Tasks |-> c1]

MCMsgOf == [s \in Sends |-> IF s \in {s1, s2} THEN m1 ELSE m2]

\* Two copies of one send are interchangeable.
Copies == Permutations({s1, s2} \cap Sends) \cup Permutations({s3, s4} \cap Sends)

(* The scenarios of the run GatewayLimits: many conversations beside the one  *)
(* send s1, or many sends in c1 alone. Conversations share only their number  *)
(* and the sends of c1 meet nothing but c1, so the product would add nothing. *)
(* Only creates and requests that arrive are held back, never a step of       *)
(* Progress or of a deletion, which carry the fairness.                       *)
Apart ==
    \/ \A c \in Conversations \ {c1} : creating[c] = "unborn"
    \/ \A s \in Sends \ {s1} : pc[s] = "idle"

LimitsNext == Next /\ Apart'

LimitsSpec == Init /\ [][LimitsNext]_vars /\ Fairness
=============================================================================
