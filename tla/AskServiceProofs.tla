-------------------------- MODULE AskServiceProofs --------------------------
(***************************************************************************)
(* Theorems of AskService for any number of requests, models and answers and  *)
(* every time to live.                                                      *)
(***************************************************************************)
EXTENDS AskService, CitationsProofs, FiniteSetTheorems

-----------------------------------------------------------------------------
(* Types.                                                                    *)

Places == {"idle", "retrieve", "wait", "build", "assess", "model",
           "fetch", "store", "generate", "open", "stream", "done"}

Outcomes == {"nothing", "listed", "rejected", "failed", "broken",
             "refused", "grounded", "left"}

LEMMA VerdictType == \A text : Verdict(text) \in {"failed", "refused", "grounded"}
BY DEF Verdict

LEMMA RequestSets ==
    /\ Asks \subseteq Requests /\ Streams \subseteq Requests /\ Probes \subseteq Requests
    /\ Asks \subseteq Questions /\ Streams \subseteq Questions
    /\ Questions \subseteq Requests
    /\ \A r \in Requests : r \in Questions <=> r \notin Probes
    /\ \A r \in Requests : r # Nobody
BY AskAssumption DEF Requests, Questions

LEMMA EndType ==
    ASSUME TypeOK, NEW r \in Requests, NEW place, NEW outcome \in Outcomes,
           End(r, place, outcome)
    PROVE  /\ pc' \in [Requests -> Places]
           /\ told' \in [Requests -> Outcomes]
           /\ evidence' \in [Streams -> BOOLEAN]
           /\ answer' \in [Streams -> Seq(Atoms)]
           /\ sent' \in [Streams -> Nat]
           /\ gone' \subseteq Streams
BY EmptySeq DEF TypeOK, End, Goto, Places, Outcomes

LEMMA IncrementType ==
    ASSUME TypeOK, NEW c \in Counters, Increment(c)
    PROVE  count' \in [Counters -> Nat]
BY DEF TypeOK, Increment

\* The parts of the state that the groups of variables have.
WorldOK ==
    /\ clock \in Nat /\ failedAt \in Nat /\ changes \in Nat
    /\ installed \subseteq Models
    /\ since \in [Models -> Nat]

ModelsOK ==
    /\ cache \in [at : Nat, models : SUBSET (Models \cup {Default})]
    /\ loop \in Streams \cup {Nobody}
    /\ looked \in [Requests -> Nat]
    /\ list \in [Requests -> SUBSET (Models \cup {Default})]

RankOK == encoders \in Nat /\ locked \in Questions \cup {Nobody}

StreamsOK ==
    /\ evidence \in [Streams -> BOOLEAN]
    /\ answer \in [Streams -> Seq(Atoms)]
    /\ sent \in [Streams -> Nat]
    /\ gone \subseteq Streams

OutcomesOK ==
    /\ told \in [Requests -> Outcomes]
    /\ result \in [Questions -> Seq(Atoms)]
    /\ count \in [Counters -> Nat]

LEMMA TypeParts ==
    TypeOK <=> /\ WorldOK /\ ModelsOK /\ RankOK /\ StreamsOK /\ OutcomesOK
               /\ pc \in [Requests -> Places]
BY DEF TypeOK, WorldOK, ModelsOK, RankOK, StreamsOK, OutcomesOK, Places, Outcomes

LEMMA TypePartsPrimed ==
    TypeOK' <=> /\ WorldOK' /\ ModelsOK' /\ RankOK' /\ StreamsOK' /\ OutcomesOK'
                /\ pc' \in [Requests -> Places]
BY DEF TypeOK, WorldOK, ModelsOK, RankOK, StreamsOK, OutcomesOK, Places, Outcomes

LEMMA SamePart ==
    ASSUME TypeOK
    PROVE  /\ UNCHANGED worldVars => WorldOK'
           /\ UNCHANGED modelVars => ModelsOK'
           /\ UNCHANGED rankVars => RankOK'
           /\ UNCHANGED streamVars => StreamsOK'
           /\ UNCHANGED outcomeVars => OutcomesOK'
           /\ UNCHANGED pc => pc' \in [Requests -> Places]
<1>1. WorldOK /\ ModelsOK /\ RankOK /\ StreamsOK /\ OutcomesOK /\ pc \in [Requests -> Places]
  BY TypeParts
<1>2. UNCHANGED worldVars => WorldOK'
  BY <1>1 DEF WorldOK, worldVars
<1>3. UNCHANGED modelVars => ModelsOK'
  BY <1>1 DEF ModelsOK, modelVars
<1>4. UNCHANGED rankVars => RankOK'
  BY <1>1 DEF RankOK, rankVars
<1>5. UNCHANGED streamVars => StreamsOK'
  BY <1>1 DEF StreamsOK, streamVars
<1>6. UNCHANGED outcomeVars => OutcomesOK'
  BY <1>1 DEF OutcomesOK, outcomeVars
<1>7. QED
  BY <1>1, <1>2, <1>3, <1>4, <1>5, <1>6

LEMMA GotoType ==
    ASSUME TypeOK, NEW r, NEW place, NEW other \in Places, Goto(r, place, other)
    PROVE  pc' \in [Requests -> Places]
BY DEF TypeOK, Goto, Places

\* A handler that ends, counted, judged or not.
LEMMA EndedType ==
    ASSUME TypeOK, NEW r \in Requests, NEW place
    PROVE  /\ \A outcome \in Outcomes, c \in Counters :
                 EndCounted(r, place, outcome, c) =>
                     OutcomesOK' /\ StreamsOK' /\ pc' \in [Requests -> Places]
           /\ \A outcome \in Outcomes :
                 EndUncounted(r, place, outcome) =>
                     OutcomesOK' /\ StreamsOK' /\ pc' \in [Requests -> Places]
           /\ r \in Questions => \A text \in Seq(Atoms), c \in Counters :
                 Judge(r, place, text, c) =>
                     OutcomesOK' /\ StreamsOK' /\ pc' \in [Requests -> Places]
<1>0. result \in [Questions -> Seq(Atoms)] /\ count \in [Counters -> Nat]
  BY DEF TypeOK
<1>1. ASSUME NEW outcome \in Outcomes, NEW c \in Counters, EndCounted(r, place, outcome, c)
      PROVE  OutcomesOK' /\ StreamsOK' /\ pc' \in [Requests -> Places]
  <2>1. End(r, place, outcome) /\ Increment(c) /\ result' = result
    BY <1>1 DEF EndCounted
  <2>2. count' \in [Counters -> Nat]
    BY <2>1, IncrementType
  <2>3. QED
    BY <1>0, <2>1, <2>2, EndType DEF OutcomesOK, StreamsOK
<1>2. ASSUME NEW outcome \in Outcomes, EndUncounted(r, place, outcome)
      PROVE  OutcomesOK' /\ StreamsOK' /\ pc' \in [Requests -> Places]
  <2>1. End(r, place, outcome) /\ result' = result /\ count' = count
    BY <1>2 DEF EndUncounted
  <2>2. QED
    BY <1>0, <2>1, EndType DEF OutcomesOK, StreamsOK
<1>3. ASSUME r \in Questions, NEW text \in Seq(Atoms), NEW c \in Counters,
             Judge(r, place, text, c)
      PROVE  OutcomesOK' /\ StreamsOK' /\ pc' \in [Requests -> Places]
  <2>1. Verdict(text) \in Outcomes
    BY VerdictType DEF Outcomes
  <2>2. End(r, place, Verdict(text))
    BY <1>3 DEF Judge
  <2>3. PICK d \in Counters : Increment(d)
    <3>1. (IF Verdict(text) = "failed" THEN c ELSE Verdict(text)) \in Counters
      BY VerdictType DEF Counters
    <3>2. Increment(IF Verdict(text) = "failed" THEN c ELSE Verdict(text))
      BY <1>3 DEF Judge
    <3>3. QED
      BY <3>1, <3>2
  <2>4. count' \in [Counters -> Nat]
    BY <2>3, IncrementType
  <2>5. result' \in [Questions -> Seq(Atoms)]
    BY <1>0, <1>3 DEF Judge
  <2>6. QED
    BY <2>1, <2>2, <2>4, <2>5, EndType DEF OutcomesOK, StreamsOK
<1>4. QED
  BY <1>1, <1>2, <1>3

\* The end of a discovery, from the cache or from Ollama.
LEMMA ResolvedType ==
    ASSUME TypeOK, NEW r \in Requests, NEW place, NEW models, Resolved(r, place, models)
    PROVE  OutcomesOK' /\ StreamsOK' /\ pc' \in [Requests -> Places]
<1>1. "listed" \in Outcomes /\ "rejected" \in Outcomes
  BY DEF Outcomes
<1>2. CASE EndUncounted(r, place, "listed") \/ EndUncounted(r, place, "rejected")
  BY <1>1, <1>2, EndedType
<1>3. CASE /\ Goto(r, place, IF r \in Asks THEN "generate" ELSE "open")
           /\ UNCHANGED <<streamVars, outcomeVars>>
  <2>1. (IF r \in Asks THEN "generate" ELSE "open") \in Places
    BY DEF Places
  <2>2. pc' \in [Requests -> Places]
    BY <1>3, <2>1, GotoType
  <2>3. QED
    BY <1>3, <2>2, SamePart
<1>4. QED
  BY <1>2, <1>3 DEF Resolved

LEMMA InitType == Init => TypeOK
<1> SUFFICES ASSUME Init PROVE TypeOK
  OBVIOUS
<1>1. <<>> \in Seq(Atoms) /\ TTL \in Nat
  BY EmptySeq, AskAssumption
<1>2. WorldOK
  BY <1>1 DEF Init, WorldOK
<1>3. ModelsOK
  BY DEF Init, ModelsOK
<1>4. RankOK
  BY DEF Init, RankOK
<1>5. StreamsOK
  BY <1>1 DEF Init, StreamsOK
<1>6. OutcomesOK
  BY <1>1 DEF Init, OutcomesOK, Outcomes, Counters
<1>7. pc \in [Requests -> Places]
  BY DEF Init, Places
<1>8. QED
  BY <1>2, <1>3, <1>4, <1>5, <1>6, <1>7, TypeParts

LEMMA TypeStep == TypeOK /\ [Next]_vars => TypeOK'
<1> SUFFICES ASSUME TypeOK, [Next]_vars PROVE TypeOK'
  OBVIOUS
<1> USE RequestSets
<1>1. ASSUME NEW r \in Requests, Start(r) PROVE TypeOK'
  <2>1. \E place \in Places, other \in Places : Goto(r, place, other)
    BY <1>1 DEF Start, Places
  <2>2. pc' \in [Requests -> Places]
    BY <2>1, GotoType
  <2>3. /\ UNCHANGED <<worldVars, modelVars, rankVars, streamVars>>
        /\ told' = told /\ result' = result
    BY <1>1 DEF Start
  <2>4. count' \in [Counters -> Nat]
    <3>1. Increment("asked") \/ Increment("streamed") \/ count' = count
      BY <1>1 DEF Start
    <3>2. "asked" \in Counters /\ "streamed" \in Counters
      BY DEF Counters
    <3>3. QED
      BY <3>1, <3>2, IncrementType DEF TypeOK
  <2>5. OutcomesOK'
    BY <2>3, <2>4, TypeParts DEF OutcomesOK
  <2>6. QED
    BY <2>2, <2>3, <2>5, SamePart, TypePartsPrimed
<1>2. ASSUME NEW r \in Questions, RetrievalFails(r) PROVE TypeOK'
  <2>1. "failed" \in Outcomes /\ "broken" \in Outcomes /\ "embedding" \in Counters
    BY DEF Outcomes, Counters
  <2>2. OutcomesOK' /\ StreamsOK' /\ pc' \in [Requests -> Places]
    BY <1>2, <2>1, EndedType DEF RetrievalFails
  <2>3. QED
    BY <1>2, <2>2, SamePart, TypePartsPrimed DEF RetrievalFails
<1>3. ASSUME NEW r \in Questions, Retrieve(r) PROVE TypeOK'
  <2>1. (IF encoders = 0 THEN "wait" ELSE "assess") \in Places
    BY DEF Places
  <2>2. pc' \in [Requests -> Places]
    BY <1>3, <2>1, GotoType DEF Retrieve
  <2>3. QED
    BY <1>3, <2>2, SamePart, TypePartsPrimed DEF Retrieve
<1>4. ASSUME NEW r \in Questions, EnterLock(r) PROVE TypeOK'
  <2>1. pc' \in [Requests -> Places]
    BY <1>4, GotoType DEF EnterLock, Places
  <2>2. RankOK'
    BY <1>4, TypeParts DEF EnterLock, RankOK
  <2>3. QED
    BY <1>4, <2>1, <2>2, SamePart, TypePartsPrimed DEF EnterLock
<1>5. ASSUME NEW r \in Questions, Build(r) PROVE TypeOK'
  <2>1. pc' \in [Requests -> Places]
    BY <1>5, GotoType DEF Build, Places
  <2>2. RankOK'
    BY <1>5, TypeParts DEF Build, RankOK
  <2>3. QED
    BY <1>5, <2>1, <2>2, SamePart, TypePartsPrimed DEF Build
<1>6. ASSUME NEW r \in Questions, Assess(r) PROVE TypeOK'
  <2>1. "refused" \in Outcomes /\ "refused" \in Counters /\ "model" \in Places
    BY DEF Outcomes, Counters, Places
  <2>2. OutcomesOK' /\ StreamsOK' /\ pc' \in [Requests -> Places]
    <3>1. CASE \E place \in {"retrieve", "assess"} :
                   EndCounted(r, place, "refused", "refused")
      BY <3>1, <2>1, EndedType
    <3>2. CASE \E place \in {"retrieve", "assess"}, e \in BOOLEAN :
                 /\ Goto(r, place, "model")
                 /\ evidence' = [s \in Streams |-> IF s = r THEN e ELSE evidence[s]]
                 /\ UNCHANGED <<answer, sent, gone, outcomeVars>>
      <4>1. pc' \in [Requests -> Places]
        BY <3>2, <2>1, GotoType
      <4>2. StreamsOK'
        BY <3>2, TypeParts DEF StreamsOK
      <4>3. QED
        BY <3>2, <4>1, <4>2, SamePart
    <3>3. QED
      BY <1>6, <3>1, <3>2 DEF Assess
  <2>3. QED
    BY <1>6, <2>2, SamePart, TypePartsPrimed DEF Assess
<1>7. ASSUME NEW r \in Requests, Look(r) PROVE TypeOK'
  <2>1. OutcomesOK' /\ StreamsOK' /\ pc' \in [Requests -> Places]
    <3>1. CASE Resolved(r, "model", cache.models)
      BY <3>1, ResolvedType
    <3>2. CASE Goto(r, "model", "fetch") /\ UNCHANGED <<streamVars, outcomeVars>>
      BY <3>2, GotoType, SamePart DEF Places
    <3>3. QED
      BY <1>7, <3>1, <3>2 DEF Look
  <2>2. ModelsOK'
    <3>1. ModelsOK /\ WorldOK
      BY TypeParts
    <3>2. /\ looked' = looked \/ looked' = [looked EXCEPT ![r] = clock]
          /\ loop' = loop \/ (r \in Streams /\ loop' = r)
          /\ UNCHANGED <<cache, list>>
      BY <1>7 DEF Look
    <3>3. looked' \in [Requests -> Nat]
      BY <3>1, <3>2 DEF ModelsOK, WorldOK
    <3>4. QED
      BY <3>1, <3>2, <3>3 DEF ModelsOK
  <2>3. QED
    BY <1>7, <2>1, <2>2, SamePart, TypePartsPrimed DEF Look
<1>8. ASSUME NEW r \in Requests, Fetch(r) PROVE TypeOK'
  <2>1. pc' \in [Requests -> Places]
    BY <1>8, GotoType DEF Fetch, Places
  <2>2. ModelsOK' /\ WorldOK'
    <3>1. ModelsOK /\ WorldOK
      BY TypeParts
    <3>2. {Default} \cup installed \in SUBSET (Models \cup {Default})
      BY <3>1 DEF WorldOK
    <3>3. QED
      BY <1>8, <3>1, <3>2 DEF ModelsOK, WorldOK, Fetch
  <2>3. QED
    BY <1>8, <2>1, <2>2, SamePart, TypePartsPrimed DEF Fetch
<1>9. ASSUME NEW r \in Requests, Store(r) PROVE TypeOK'
  <2>1. OutcomesOK' /\ StreamsOK' /\ pc' \in [Requests -> Places]
    BY <1>9, ResolvedType DEF Store
  <2>2. ModelsOK'
    <3>1. ModelsOK
      BY TypeParts
    <3>2. QED
      BY <1>9, <3>1 DEF ModelsOK, Store
  <2>3. QED
    BY <1>9, <2>1, <2>2, SamePart, TypePartsPrimed DEF Store
<1>10. ASSUME NEW r \in Asks, Generate(r) PROVE TypeOK'
  <2>1. "failed" \in Outcomes /\ "generation" \in Counters /\ Answers \subseteq Seq(Atoms)
    BY AskAssumption DEF Outcomes, Counters
  <2>2. OutcomesOK' /\ StreamsOK' /\ pc' \in [Requests -> Places]
    BY <1>10, <2>1, EndedType DEF Generate
  <2>3. QED
    BY <1>10, <2>2, SamePart, TypePartsPrimed DEF Generate
<1>11. ASSUME NEW r \in Streams, Open(r) PROVE TypeOK'
  <2>1. /\ "failed" \in Outcomes /\ "refused" \in Outcomes /\ "refused" \in Counters
        /\ "streaming_generation" \in Counters /\ Answers \subseteq Seq(Atoms)
    BY AskAssumption DEF Outcomes, Counters
  <2>2. OutcomesOK' /\ StreamsOK' /\ pc' \in [Requests -> Places]
    <3>1. CASE \/ EndCounted(r, "open", "refused", "refused")
               \/ EndCounted(r, "open", "failed", "streaming_generation")
      BY <3>1, <2>1, EndedType
    <3>2. CASE \E a \in Answers :
                   /\ Goto(r, "open", "stream")
                   /\ answer' = [answer EXCEPT ![r] = a]
                   /\ UNCHANGED <<evidence, sent, gone, outcomeVars>>
      <4>1. pc' \in [Requests -> Places]
        BY <3>2, GotoType DEF Places
      <4>2. StreamsOK'
        BY <2>1, <3>2, TypeParts DEF StreamsOK
      <4>3. QED
        BY <3>2, <4>1, <4>2, SamePart
    <3>3. QED
      BY <1>11, <3>1, <3>2 DEF Open
  <2>3. QED
    BY <1>11, <2>2, SamePart, TypePartsPrimed DEF Open
<1>12. ASSUME NEW r \in Streams, Token(r) PROVE TypeOK'
  <2>1. StreamsOK'
    BY <1>12, TypeParts DEF Token, StreamsOK
  <2>2. QED
    BY <1>12, <2>1, SamePart, TypePartsPrimed DEF Token
<1>13. ASSUME NEW r \in Streams, Finish(r) PROVE TypeOK'
  <2>1. "streaming_generation" \in Counters
    BY DEF Counters
  <2>2. Received(r) \in Seq(Atoms)
    <3>1. answer[r] \in Seq(Atoms) /\ sent[r] = Len(answer[r])
      BY <1>13 DEF Finish, TypeOK
    <3>2. QED
      BY <3>1, SubSeqFull DEF Received
  <2>3. OutcomesOK' /\ StreamsOK' /\ pc' \in [Requests -> Places]
    BY <1>13, <2>1, <2>2, EndedType DEF Finish
  <2>4. QED
    BY <1>13, <2>3, SamePart, TypePartsPrimed DEF Finish
<1>14. ASSUME NEW r \in Streams, Break(r) PROVE TypeOK'
  <2>1. "failed" \in Outcomes /\ "streaming_generation" \in Counters
    BY DEF Outcomes, Counters
  <2>2. OutcomesOK' /\ StreamsOK' /\ pc' \in [Requests -> Places]
    BY <1>14, <2>1, EndedType DEF Break
  <2>3. QED
    BY <1>14, <2>2, SamePart, TypePartsPrimed DEF Break
<1>15. ASSUME NEW r \in Streams, Leave(r) PROVE TypeOK'
  <2>1. "left" \in Outcomes
    BY DEF Outcomes
  <2>2. OutcomesOK' /\ StreamsOK' /\ pc' \in [Requests -> Places]
    BY <1>15, <2>1, EndedType DEF Leave
  <2>3. QED
    BY <1>15, <2>2, SamePart, TypePartsPrimed DEF Leave
<1>16. ASSUME NEW s \in Streams, Disconnect(s) PROVE TypeOK'
  <2>1. StreamsOK'
    BY <1>16, TypeParts DEF Disconnect, StreamsOK
  <2>2. QED
    BY <1>16, <2>1, SamePart, TypePartsPrimed DEF Disconnect
<1>17. ASSUME NEW m \in Models, Change(m) PROVE TypeOK'
  <2>1. WorldOK'
    <3>1. WorldOK
      BY TypeParts
    <3>2. since' \in [Models -> Nat] /\ changes' \in Nat /\ installed' \subseteq Models
      BY <1>17, <3>1 DEF Change, WorldOK
    <3>3. QED
      BY <1>17, <3>1, <3>2 DEF Change, WorldOK
  <2>2. QED
    BY <1>17, <2>1, SamePart, TypePartsPrimed DEF Change
<1>18. CASE Tick
  <2>1. WorldOK'
    BY <1>18, TypeParts DEF Tick, WorldOK
  <2>2. QED
    BY <1>18, <2>1, SamePart, TypePartsPrimed DEF Tick
<1>19. CASE UNCHANGED vars
  BY <1>19, SamePart, TypePartsPrimed DEF vars
<1>20. QED
  BY <1>1, <1>2, <1>3, <1>4, <1>5, <1>6, <1>7, <1>8, <1>9, <1>10, <1>11, <1>12, <1>13,
     <1>14, <1>15, <1>16, <1>17, <1>18, <1>19 DEF Next, Progress

\* The state of the handlers and of the module's objects has its type.
THEOREM TypeCorrect == Spec => []TypeOK
BY InitType, TypeStep, PTL DEF Spec
-----------------------------------------------------------------------------
(* How the steps move the requests.                                          *)

LEMMA PlaceMoves ==
    ASSUME TypeOK, NEW r \in Requests, NEW place, NEW other, Goto(r, place, other)
    PROVE  /\ pc[r] = place /\ pc'[r] = other
           /\ \A q \in Requests : q # r => pc'[q] = pc[q]
BY DEF TypeOK, Goto

LEMMA EndMoves ==
    ASSUME TypeOK, NEW r \in Requests, NEW place, NEW outcome, End(r, place, outcome)
    PROVE  /\ pc[r] = place /\ pc'[r] = "done" /\ told'[r] = outcome
           /\ \A q \in Requests : q # r => pc'[q] = pc[q] /\ told'[q] = told[q]
           /\ \A s \in Streams : s # r => answer'[s] = answer[s]
BY PlaceMoves DEF TypeOK, End

LEMMA ResolvedMoves ==
    ASSUME TypeOK, NEW r \in Requests, NEW place, NEW models, Resolved(r, place, models)
    PROVE  \/ \E outcome \in {"listed", "rejected"} :
                 EndUncounted(r, place, outcome) /\ (outcome = "listed" <=> r \in Probes)
           \/ \E other \in {"generate", "open"} :
                 Goto(r, place, other) /\ UNCHANGED <<streamVars, outcomeVars>>
BY DEF Resolved

Failures == {"embedding", "generation", "streaming_generation"}

\* What the counters do at an outcome that is not grounded.
CountedAs(outcome) ==
    CASE outcome = "refused" -> Increment("refused")
      [] outcome = "failed" -> \E c \in Failures : Increment(c)
      [] OTHER -> count' = count

\* A request that ends, with what becomes of the answers and the counters.
Ends(r, place, outcome) ==
    /\ End(r, place, outcome)
    /\ outcome \notin {"grounded", "nothing"}
    /\ outcome = "listed" <=> r \in Probes
    /\ CountedAs(outcome)
    /\ result' = result

\* What the whole answer of r is found to be.
Judges(r, place, text, c) ==
    /\ r \in Questions /\ pc[r] = place
    /\ Judge(r, place, text, c)

\* A request that moves on, with its outcome open.
Moves(r, place, other) ==
    /\ Goto(r, place, other)
    /\ UNCHANGED outcomeVars

\* A request that comes.
Comes(r) ==
    /\ \/ r \in Asks /\ Goto(r, "idle", "retrieve") /\ Increment("asked")
       \/ r \in Streams /\ Goto(r, "idle", "retrieve") /\ Increment("streamed")
       \/ r \in Probes /\ Goto(r, "idle", "model") /\ UNCHANGED count
    /\ UNCHANGED <<told, result, answer, rankVars>>

\* Every step is an end, a verdict, a move or leaves the requests alone.
Kinds ==
    \/ \E r \in Requests, outcome \in Outcomes,
          place \in {"retrieve", "assess", "model", "store", "generate", "open", "stream"} :
          Ends(r, place, outcome) /\ UNCHANGED rankVars
    \/ \E r \in Asks, text \in Answers :
          Judges(r, "generate", text, "generation") /\ UNCHANGED rankVars
    \/ \E r \in Streams :
          /\ pc[r] = "stream" /\ sent[r] = Len(answer[r])
          /\ Judges(r, "stream", Received(r), "streaming_generation") /\ UNCHANGED rankVars
    \/ \E r \in Streams, a \in Answers :
          Moves(r, "open", "stream") /\ answer' = [answer EXCEPT ![r] = a] /\ UNCHANGED rankVars
    \/ \E r \in Requests :
          /\ \/ Moves(r, "retrieve", "wait") \/ Moves(r, "retrieve", "assess")
             \/ Moves(r, "wait", "assess") \/ Moves(r, "retrieve", "model")
             \/ Moves(r, "assess", "model") \/ Moves(r, "model", "fetch")
             \/ Moves(r, "fetch", "store") \/ Moves(r, "model", "generate")
             \/ Moves(r, "model", "open") \/ Moves(r, "store", "generate")
             \/ Moves(r, "store", "open")
          /\ answer' = answer /\ UNCHANGED rankVars
    \/ \E r \in Requests : Comes(r)
    \/ \E r \in Questions : EnterLock(r)
    \/ \E r \in Questions : Build(r)
    \/ UNCHANGED <<pc, outcomeVars, answer, rankVars>>

LEMMA StepKinds == TypeOK /\ [Next]_vars => Kinds
<1> SUFFICES ASSUME TypeOK, [Next]_vars PROVE Kinds
  OBVIOUS
<1> USE RequestSets
<1>1. ASSUME NEW r \in Requests, Start(r) PROVE Kinds
  <2>1. Comes(r)
    BY <1>1 DEF Start, Comes, streamVars
  <2>2. QED
    BY <2>1 DEF Kinds
<1>2. ASSUME NEW r \in Questions, RetrievalFails(r) PROVE Kinds
  <2>1. Ends(r, "retrieve", "failed") \/ Ends(r, "retrieve", "broken")
    BY <1>2 DEF RetrievalFails, EndCounted, EndUncounted, Ends, CountedAs, Failures
  <2>2. UNCHANGED rankVars
    BY <1>2 DEF RetrievalFails
  <2>3. QED
    BY <2>1, <2>2 DEF Kinds, Outcomes
<1>3. ASSUME NEW r \in Questions, Retrieve(r) PROVE Kinds
  <2>1. Moves(r, "retrieve", "wait") \/ Moves(r, "retrieve", "assess")
    BY <1>3 DEF Retrieve, Moves
  <2>2. answer' = answer /\ UNCHANGED rankVars
    BY <1>3 DEF Retrieve, streamVars
  <2>3. QED
    BY <2>1, <2>2 DEF Kinds
<1>4. ASSUME NEW r \in Questions, EnterLock(r) PROVE Kinds
  BY <1>4 DEF Kinds
<1>5. ASSUME NEW r \in Questions, Build(r) PROVE Kinds
  BY <1>5 DEF Kinds
<1>6. ASSUME NEW r \in Questions, Assess(r) PROVE Kinds
  <2>0. UNCHANGED rankVars
    BY <1>6 DEF Assess
  <2>1. CASE \E place \in {"retrieve", "assess"} : EndCounted(r, place, "refused", "refused")
    <3>1. \E place \in {"retrieve", "assess"} : Ends(r, place, "refused")
      BY <2>1 DEF EndCounted, Ends, CountedAs, Failures
    <3>2. QED
      BY <2>0, <3>1 DEF Kinds, Outcomes
  <2>2. CASE \E place \in {"retrieve", "assess"} :
                Goto(r, place, "model") /\ UNCHANGED <<answer, outcomeVars>>
    <3>1. Moves(r, "retrieve", "model") \/ Moves(r, "assess", "model")
      BY <2>2 DEF Moves
    <3>2. answer' = answer
      BY <2>2
    <3>3. QED
      BY <2>0, <3>1, <3>2 DEF Kinds
  <2>3. QED
    BY <1>6, <2>1, <2>2 DEF Assess
<1>7. ASSUME NEW r \in Requests, NEW place \in {"model", "store"}, NEW models,
             Resolved(r, place, models), UNCHANGED rankVars
      PROVE  Kinds
  <2>1. CASE \E outcome \in {"listed", "rejected"} :
                EndUncounted(r, place, outcome) /\ (outcome = "listed" <=> r \in Probes)
    <3>1. \E outcome \in {"listed", "rejected"} : Ends(r, place, outcome)
      BY <2>1 DEF EndUncounted, Ends, CountedAs
    <3>2. QED
      BY <1>7, <3>1 DEF Kinds, Outcomes
  <2>2. CASE \E other \in {"generate", "open"} :
                Goto(r, place, other) /\ UNCHANGED <<streamVars, outcomeVars>>
    <3>1. \/ Moves(r, "model", "generate") \/ Moves(r, "model", "open")
          \/ Moves(r, "store", "generate") \/ Moves(r, "store", "open")
      BY <2>2 DEF Moves
    <3>2. answer' = answer
      BY <2>2 DEF streamVars
    <3>3. QED
      BY <1>7, <3>1, <3>2 DEF Kinds
  <2>3. QED
    BY <1>7, <2>1, <2>2, ResolvedMoves
<1>8. ASSUME NEW r \in Requests, Look(r) PROVE Kinds
  <2>1. UNCHANGED rankVars
    BY <1>8 DEF Look
  <2>2. CASE Resolved(r, "model", cache.models)
    BY <2>1, <2>2, <1>7
  <2>3. CASE Goto(r, "model", "fetch") /\ UNCHANGED <<streamVars, outcomeVars>>
    <3>1. Moves(r, "model", "fetch") /\ answer' = answer
      BY <2>3 DEF Moves, streamVars
    <3>2. QED
      BY <2>1, <3>1 DEF Kinds
  <2>4. QED
    BY <1>8, <2>2, <2>3 DEF Look
<1>9. ASSUME NEW r \in Requests, Fetch(r) PROVE Kinds
  <2>1. Moves(r, "fetch", "store") /\ answer' = answer /\ UNCHANGED rankVars
    BY <1>9 DEF Fetch, Moves, streamVars
  <2>2. QED
    BY <2>1 DEF Kinds
<1>10. ASSUME NEW r \in Requests, Store(r) PROVE Kinds
  BY <1>7, <1>10 DEF Store
<1>11. ASSUME NEW r \in Asks, Generate(r) PROVE Kinds
  <2>0. UNCHANGED rankVars
    BY <1>11 DEF Generate
  <2>1. CASE EndCounted(r, "generate", "failed", "generation")
    <3>1. Ends(r, "generate", "failed")
      BY <2>1 DEF EndCounted, Ends, CountedAs, Failures
    <3>2. QED
      BY <2>0, <3>1 DEF Kinds, Outcomes
  <2>2. CASE \E a \in Answers : Judge(r, "generate", a, "generation")
    <3>1. \E a \in Answers : Judges(r, "generate", a, "generation")
      BY <2>2 DEF Judges, Judge, End, Goto
    <3>2. QED
      BY <2>0, <3>1 DEF Kinds
  <2>3. QED
    BY <1>11, <2>1, <2>2 DEF Generate
<1>12. ASSUME NEW r \in Streams, Open(r) PROVE Kinds
  <2>0. UNCHANGED rankVars
    BY <1>12 DEF Open
  <2>1. CASE \/ EndCounted(r, "open", "refused", "refused")
             \/ EndCounted(r, "open", "failed", "streaming_generation")
    <3>1. Ends(r, "open", "refused") \/ Ends(r, "open", "failed")
      BY <2>1 DEF EndCounted, Ends, CountedAs, Failures
    <3>2. QED
      BY <2>0, <3>1 DEF Kinds, Outcomes
  <2>2. CASE \E a \in Answers :
                /\ Goto(r, "open", "stream")
                /\ answer' = [answer EXCEPT ![r] = a]
                /\ UNCHANGED outcomeVars
    <3>1. Moves(r, "open", "stream")
      BY <2>2 DEF Moves
    <3>2. QED
      BY <2>0, <2>2, <3>1 DEF Kinds
  <2>3. QED
    BY <1>12, <2>1, <2>2 DEF Open
<1>13. ASSUME NEW r \in Streams, Token(r) PROVE Kinds
  BY <1>13 DEF Token, Kinds
<1>14. ASSUME NEW r \in Streams, Finish(r) PROVE Kinds
  <2>1. Judges(r, "stream", Received(r), "streaming_generation") /\ UNCHANGED rankVars
    BY <1>14 DEF Finish, Judges, Judge, End, Goto
  <2>2. pc[r] = "stream" /\ sent[r] = Len(answer[r])
    BY <1>14 DEF Finish, Judge, End, Goto
  <2>3. QED
    BY <2>1, <2>2 DEF Kinds
<1>15. ASSUME NEW r \in Streams, Break(r) PROVE Kinds
  <2>1. Ends(r, "stream", "failed") /\ UNCHANGED rankVars
    BY <1>15 DEF Break, EndCounted, Ends, CountedAs, Failures
  <2>2. QED
    BY <2>1 DEF Kinds, Outcomes
<1>16. ASSUME NEW r \in Streams, Leave(r) PROVE Kinds
  <2>1. (Ends(r, "open", "left") \/ Ends(r, "stream", "left")) /\ UNCHANGED rankVars
    BY <1>16 DEF Leave, EndUncounted, Ends, CountedAs
  <2>2. QED
    BY <2>1 DEF Kinds, Outcomes
<1>17. ASSUME NEW s \in Streams, Disconnect(s) PROVE Kinds
  BY <1>17 DEF Disconnect, Kinds
<1>18. ASSUME NEW m \in Models, Change(m) PROVE Kinds
  BY <1>18 DEF Change, Kinds, streamVars
<1>19. CASE Tick
  BY <1>19 DEF Tick, Kinds, streamVars
<1>20. CASE UNCHANGED vars
  BY <1>20 DEF vars, Kinds, streamVars
<1>21. QED
  BY <1>1, <1>2, <1>3, <1>4, <1>5, <1>6, <1>8, <1>9, <1>10, <1>11, <1>12, <1>13,
     <1>14, <1>15, <1>16, <1>17, <1>18, <1>19, <1>20 DEF Next, Progress
-----------------------------------------------------------------------------
(* The encoder is built by one request, which holds the lock.                *)

BuildInv ==
    /\ encoders \in {0, 1}
    /\ \A r \in Requests : pc[r] = "build" => locked = r /\ encoders = 0

LEMMA BuildStep == TypeOK /\ BuildInv /\ [Next]_vars => BuildInv'
<1> SUFFICES ASSUME TypeOK, BuildInv, [Next]_vars PROVE BuildInv'
  OBVIOUS
<1> USE RequestSets
<1>1. CASE /\ UNCHANGED rankVars
           /\ \A r \in Requests : pc'[r] = "build" => pc[r] = "build"
  BY <1>1 DEF BuildInv, rankVars
<1>2. ASSUME NEW r \in Requests, NEW place, NEW other, other # "build", UNCHANGED rankVars,
             Goto(r, place, other)
      PROVE  BuildInv'
  BY <1>1, <1>2, PlaceMoves
<1>3. ASSUME NEW r \in Questions, EnterLock(r) PROVE BuildInv'
  <2>1. CASE encoders = 0
    <3>1. /\ Goto(r, "wait", "build") /\ locked' = r /\ locked = Nobody
          /\ encoders' = encoders
      BY <1>3, <2>1 DEF EnterLock
    <3>2. \A q \in Requests : pc[q] # "build"
      BY <3>1 DEF BuildInv
    <3>3. \A q \in Requests : pc'[q] = "build" => q = r
      BY <3>1, <3>2, PlaceMoves
    <3>4. QED
      BY <2>1, <3>1, <3>3 DEF BuildInv
  <2>2. CASE encoders # 0
    BY <1>2, <1>3, <2>2 DEF EnterLock, rankVars
  <2>3. QED
    BY <2>1, <2>2
<1>4. ASSUME NEW r \in Questions, Build(r) PROVE BuildInv'
  <2>1. Goto(r, "build", "assess") /\ encoders' \in {encoders, encoders + 1}
    BY <1>4 DEF Build
  <2>2. pc[r] = "build" /\ pc'[r] = "assess" /\ \A q \in Requests : q # r => pc'[q] = pc[q]
    BY <2>1, PlaceMoves
  <2>3. locked = r /\ encoders = 0
    BY <2>2 DEF BuildInv
  <2>4. \A q \in Requests : pc[q] = "build" => q = r
    BY <2>3 DEF BuildInv
  <2>5. \A q \in Requests : pc'[q] # "build"
    BY <2>2, <2>4
  <2>6. encoders' \in {0, 1}
    BY <2>1, <2>3
  <2>7. QED
    BY <2>5, <2>6 DEF BuildInv
<1>5. ASSUME NEW r \in Requests, NEW place, NEW outcome, Ends(r, place, outcome),
             UNCHANGED rankVars
      PROVE  BuildInv'
  BY <1>2, <1>5 DEF Ends, End
<1>6. ASSUME NEW r \in Questions, NEW place, NEW text, NEW c, Judges(r, place, text, c),
             UNCHANGED rankVars
      PROVE  BuildInv'
  BY <1>2, <1>6 DEF Judges, Judge, End
<1>7. ASSUME NEW r \in Requests, NEW place, NEW other, other # "build",
             Moves(r, place, other), UNCHANGED rankVars
      PROVE  BuildInv'
  BY <1>2, <1>7 DEF Moves
<1>8. ASSUME NEW r \in Requests, Comes(r) PROVE BuildInv'
  <2>1. (Goto(r, "idle", "retrieve") \/ Goto(r, "idle", "model")) /\ UNCHANGED rankVars
    BY <1>8 DEF Comes
  <2>2. QED
    BY <1>2, <2>1
<1>9. Kinds
  BY StepKinds
<1>10. QED
  BY <1>1, <1>3, <1>4, <1>5, <1>6, <1>7, <1>8, <1>9 DEF Kinds

\* The reranker's model is loaded at most once: a request builds it only under
\* the lock, after it looked again.
THEOREM BuiltOnce == Spec => []EncoderBuiltOnce
<1>1. Init => BuildInv
  BY DEF Init, BuildInv
<1>2. BuildInv => EncoderBuiltOnce
  BY DEF BuildInv, EncoderBuiltOnce
<1>3. QED
  BY <1>1, <1>2, BuildStep, TypeCorrect, PTL DEF Spec
-----------------------------------------------------------------------------
(* Grounded answers.                                                         *)

AnswersInv ==
    /\ \A s \in Streams : pc[s] = "stream" => answer[s] \in Answers
    /\ \A r \in Questions : told[r] = "grounded" =>
          result[r] \in Answers /\ Verdict(result[r]) = "grounded"

LEMMA JudgedAnswer ==
    ASSUME TypeOK, AnswersInv, NEW r \in Questions, NEW place, NEW text \in Answers, NEW c,
           Judges(r, place, text, c)
    PROVE  AnswersInv'
<1> USE RequestSets
<1>1. End(r, place, Verdict(text))
  BY DEF Judges, Judge
<1>2. /\ pc'[r] = "done" /\ told'[r] = Verdict(text)
      /\ \A q \in Requests : q # r => pc'[q] = pc[q] /\ told'[q] = told[q]
      /\ \A s \in Streams : s # r => answer'[s] = answer[s]
  BY <1>1, EndMoves
<1>3. result' = IF Verdict(text) = "grounded" THEN [result EXCEPT ![r] = text] ELSE result
  BY DEF Judges, Judge
<1>4. result \in [Questions -> Seq(Atoms)]
  BY DEF TypeOK
<1>5. ASSUME NEW s \in Streams, pc'[s] = "stream" PROVE answer'[s] \in Answers
  BY <1>2, <1>5 DEF AnswersInv
<1>6. ASSUME NEW q \in Questions, told'[q] = "grounded"
      PROVE  result'[q] \in Answers /\ Verdict(result'[q]) = "grounded"
  <2>1. CASE q = r
    BY <1>2, <1>3, <1>4, <1>6, <2>1
  <2>2. CASE q # r
    <3>1. result'[q] = result[q]
      BY <1>3, <1>4, <2>2
    <3>2. told[q] = "grounded"
      BY <1>2, <1>6, <2>2
    <3>3. QED
      BY <3>1, <3>2 DEF AnswersInv
  <2>3. QED
    BY <2>1, <2>2
<1>7. QED
  BY <1>5, <1>6 DEF AnswersInv

LEMMA AnswersStep == TypeOK /\ AnswersInv /\ [Next]_vars => AnswersInv'
<1> SUFFICES ASSUME TypeOK, AnswersInv, [Next]_vars PROVE AnswersInv'
  OBVIOUS
<1> USE RequestSets
<1>1. CASE UNCHANGED <<pc, outcomeVars, answer>>
  BY <1>1 DEF AnswersInv, outcomeVars
<1>2. ASSUME NEW r \in Requests, NEW place, NEW outcome, Ends(r, place, outcome)
      PROVE  AnswersInv'
  <2>1. End(r, place, outcome) /\ outcome # "grounded" /\ result' = result
    BY <1>2 DEF Ends
  <2>2. /\ pc'[r] = "done" /\ told'[r] = outcome
        /\ \A q \in Requests : q # r => pc'[q] = pc[q] /\ told'[q] = told[q]
        /\ \A s \in Streams : s # r => answer'[s] = answer[s]
    BY <2>1, EndMoves
  <2>3. QED
    BY <2>1, <2>2 DEF AnswersInv
<1>3. ASSUME NEW r \in Requests, NEW place, NEW other, other # "stream",
             Moves(r, place, other), answer' = answer
      PROVE  AnswersInv'
  BY <1>3, PlaceMoves DEF Moves, outcomeVars, AnswersInv
<1>4. ASSUME NEW r \in Streams, NEW a \in Answers, Moves(r, "open", "stream"),
             answer' = [answer EXCEPT ![r] = a]
      PROVE  AnswersInv'
  <2>1. answer'[r] = a /\ \A s \in Streams : s # r => answer'[s] = answer[s]
    BY <1>4 DEF TypeOK
  <2>2. \A q \in Requests : q # r => pc'[q] = pc[q]
    BY <1>4, PlaceMoves DEF Moves
  <2>3. told' = told /\ result' = result
    BY <1>4 DEF Moves, outcomeVars
  <2>4. QED
    BY <2>1, <2>2, <2>3 DEF AnswersInv
<1>5. ASSUME NEW r \in Streams, pc[r] = "stream", sent[r] = Len(answer[r]),
             Judges(r, "stream", Received(r), "streaming_generation")
      PROVE  AnswersInv'
  <2>1. answer[r] \in Seq(Atoms) /\ answer[r] \in Answers
    BY <1>5 DEF TypeOK, AnswersInv
  <2>2. Received(r) = answer[r]
    BY <1>5, <2>1, SubSeqFull DEF Received
  <2>3. QED
    BY <1>5, <2>1, <2>2, JudgedAnswer
<1>6. ASSUME NEW r \in Questions, EnterLock(r) \/ Build(r) PROVE AnswersInv'
  <2>1. Moves(r, "wait", "build") \/ Moves(r, "wait", "assess") \/ Moves(r, "build", "assess")
    BY <1>6 DEF EnterLock, Build, Moves
  <2>2. answer' = answer
    BY <1>6 DEF EnterLock, Build, streamVars
  <2>3. QED
    BY <1>3, <2>1, <2>2
<1>7. ASSUME NEW r \in Requests, Comes(r) PROVE AnswersInv'
  <2>1. /\ Goto(r, "idle", "retrieve") \/ Goto(r, "idle", "model")
        /\ UNCHANGED <<told, result, answer>>
    BY <1>7 DEF Comes
  <2>2. \A q \in Requests : pc'[q] = "stream" => pc[q] = "stream"
    BY <2>1, PlaceMoves
  <2>3. QED
    BY <2>1, <2>2 DEF AnswersInv
<1>8. Kinds
  BY StepKinds
<1>9. QED
  BY <1>1, <1>2, <1>3, <1>4, <1>5, <1>6, <1>7, <1>8, JudgedAnswer DEF Kinds

\* A grounded answer is one the model finished: what a stream received of a broken
\* answer is never given as grounded.  Unless the word CITATION is in it, each of its
\* words with an ASCII letter or digit is cited.
THEOREM GroundedAnswersAreWhole == Spec => []GroundedIsWhole
<1>1. Init => AnswersInv
  BY RequestSets DEF Init, AnswersInv
<1>2. AnswersInv => GroundedIsWhole
  <2> SUFFICES ASSUME AnswersInv, NEW r \in Questions, told[r] = "grounded"
               PROVE  /\ result[r] \in Answers
                      /\ Has(result[r], Placeholders) \/ CitedThroughout(result[r])
    BY DEF GroundedIsWhole
  <2>1. result[r] \in Answers /\ Verdict(result[r]) = "grounded"
    BY DEF AnswersInv
  <2>2. OnlySupported(result[r])
    BY <2>1, AskAssumption, OnlySupportedPasses
  <2>3. QED
    BY <2>1, <2>2 DEF OnlySupported
<1>3. QED
  BY <1>1, <1>2, AnswersStep, TypeCorrect, PTL DEF Spec
-----------------------------------------------------------------------------
(* The counters.                                                             *)

LEMMA RequestsFinite ==
    ASSUME NEW S, S \subseteq Requests
    PROVE  IsFiniteSet(S) /\ Cardinality(S) \in Nat
BY AskAssumption, FS_Subset, FS_CardinalityType

Told(S) == {r \in Requests : told[r] \in S}

\* The outcome of r is the only one that a step adds.
LEMMA OutcomeStep ==
    ASSUME TypeOK, NEW r \in Requests, NEW outcome, NEW S, "nothing" \notin S,
           told[r] = "nothing", told'[r] = outcome,
           \A q \in Requests : q # r => told'[q] = told[q]
    PROVE  /\ outcome \in S => Outcome(S)' = Outcome(S) + 1
           /\ outcome \notin S => Outcome(S)' = Outcome(S)
<1>1. IsFiniteSet(Told(S))
  BY RequestsFinite DEF Told
<1>2. r \notin Told(S)
  BY DEF Told
<1>3. ASSUME outcome \in S PROVE Outcome(S)' = Outcome(S) + 1
  <2>1. Told(S)' = Told(S) \cup {r}
    BY <1>3 DEF Told
  <2>2. QED
    BY <1>1, <1>2, <2>1, FS_AddElement DEF Outcome, Told
<1>4. ASSUME outcome \notin S PROVE Outcome(S)' = Outcome(S)
  <2>1. Told(S)' = Told(S)
    BY <1>4 DEF Told
  <2>2. QED
    BY <2>1 DEF Outcome, Told
<1>5. QED
  BY <1>3, <1>4

LEMMA OutcomeType == \A S : Outcome(S) \in Nat
BY RequestsFinite DEF Outcome

Came(T) == {r \in T : pc[r] # "idle"}

LEMMA CameStep ==
    ASSUME NEW T, T \subseteq Requests, NEW r \in Requests, pc[r] = "idle", pc'[r] # "idle",
           \A q \in Requests : q # r => pc'[q] = pc[q]
    PROVE  /\ r \in T => Cardinality(Came(T))' = Cardinality(Came(T)) + 1
           /\ r \notin T => Cardinality(Came(T))' = Cardinality(Came(T))
<1>1. IsFiniteSet(Came(T))
  BY RequestsFinite DEF Came
<1>2. r \notin Came(T)
  BY DEF Came
<1>3. ASSUME r \in T PROVE Cardinality(Came(T))' = Cardinality(Came(T)) + 1
  <2>1. Came(T)' = Came(T) \cup {r}
    BY <1>3 DEF Came
  <2>2. QED
    BY <1>1, <1>2, <2>1, FS_AddElement
<1>4. ASSUME r \notin T PROVE Cardinality(Came(T))' = Cardinality(Came(T))
  <2>1. Came(T)' = Came(T)
    BY <1>4 DEF Came
  <2>2. QED
    BY <2>1
<1>5. QED
  BY <1>3, <1>4

\* What each counter holds.
CountersHold ==
    /\ count["asked"] = Cardinality({r \in Asks : pc[r] # "idle"})
    /\ count["streamed"] = Cardinality({r \in Streams : pc[r] # "idle"})
    /\ count["grounded"] = Outcome({"grounded"})
    /\ count["refused"] = Outcome({"refused"})
    /\ count["embedding"] + count["generation"] + count["streaming_generation"]
        = Outcome({"failed"})

\* Nobody has an outcome before the end, a list of models is the outcome of probes and
\* of nothing else, and an answer is counted as its outcome.
CountsInv ==
    /\ \A r \in Requests : told[r] # "nothing" =>
          pc[r] = "done" /\ (told[r] = "listed" <=> r \in Probes)
    /\ CountersHold

LEMMA SameCame ==
    ASSUME \A q \in Requests : pc'[q] # "idle" <=> pc[q] # "idle",
           NEW T, T \subseteq Requests
    PROVE  Came(T)' = Came(T)
BY DEF Came

LEMMA CountedParts ==
    CountersHold <=>
        /\ count["asked"] = Cardinality(Came(Asks))
        /\ count["streamed"] = Cardinality(Came(Streams))
        /\ count["grounded"] = Outcome({"grounded"})
        /\ count["refused"] = Outcome({"refused"})
        /\ count["embedding"] + count["generation"] + count["streaming_generation"]
            = Outcome({"failed"})
BY DEF CountersHold, Came

LEMMA CountedPartsPrimed ==
    CountersHold' <=>
        /\ count'["asked"] = Cardinality(Came(Asks))'
        /\ count'["streamed"] = Cardinality(Came(Streams))'
        /\ count'["grounded"] = Outcome({"grounded"})'
        /\ count'["refused"] = Outcome({"refused"})'
        /\ count'["embedding"] + count'["generation"] + count'["streaming_generation"]
            = Outcome({"failed"})'
BY DEF CountersHold, Came

\* The end of a request: the counter of its outcome, and no other, has gone up.
CountsAs(outcome) ==
    \/ /\ outcome = "refused"
       /\ Increment("refused")
    \/ /\ outcome = "grounded"
       /\ Increment("grounded")
    \/ /\ outcome = "failed"
       /\ \E c \in Failures : Increment(c)
    \/ /\ outcome \notin {"refused", "grounded", "failed", "nothing"}
       /\ count' = count

LEMMA CountsStepEnd ==
    ASSUME TypeOK, CountsInv, NEW r \in Requests, NEW place, place \notin {"idle", "done"},
           NEW outcome, End(r, place, outcome), CountsAs(outcome),
           outcome = "listed" <=> r \in Probes
    PROVE  CountsInv'
<1> USE RequestSets
<1>1. /\ pc[r] = place /\ pc'[r] = "done" /\ told'[r] = outcome
      /\ \A q \in Requests : q # r => pc'[q] = pc[q] /\ told'[q] = told[q]
  BY EndMoves
<1>2. told[r] = "nothing"
  BY <1>1 DEF CountsInv
<1>3. \A q \in Requests : told'[q] # "nothing" =>
          pc'[q] = "done" /\ (told'[q] = "listed" <=> q \in Probes)
  BY <1>1 DEF CountsInv
<1>4. Came(Asks)' = Came(Asks) /\ Came(Streams)' = Came(Streams)
  BY <1>1, SameCame
<1>5. \A S : "nothing" \notin S =>
          /\ outcome \in S => Outcome(S)' = Outcome(S) + 1
          /\ outcome \notin S => Outcome(S)' = Outcome(S)
  BY <1>1, <1>2, OutcomeStep
<1>6. /\ outcome = "grounded" => Outcome({"grounded"})' = Outcome({"grounded"}) + 1
      /\ outcome # "grounded" => Outcome({"grounded"})' = Outcome({"grounded"})
  BY <1>5
<1>7. /\ outcome = "refused" => Outcome({"refused"})' = Outcome({"refused"}) + 1
      /\ outcome # "refused" => Outcome({"refused"})' = Outcome({"refused"})
  BY <1>5
<1>8. /\ outcome = "failed" => Outcome({"failed"})' = Outcome({"failed"}) + 1
      /\ outcome # "failed" => Outcome({"failed"})' = Outcome({"failed"})
  BY <1>5
<1>9. CountersHold
  BY DEF CountsInv
<1>10. count \in [Counters -> Nat]
  BY DEF TypeOK
<1>11. /\ count["asked"] \in Nat /\ count["streamed"] \in Nat /\ count["grounded"] \in Nat
       /\ count["refused"] \in Nat /\ count["embedding"] \in Nat
       /\ count["generation"] \in Nat /\ count["streaming_generation"] \in Nat
  BY <1>10 DEF Counters
<1>12. /\ Outcome({"grounded"}) \in Nat /\ Outcome({"refused"}) \in Nat
       /\ Outcome({"failed"}) \in Nat
  BY OutcomeType
<1>13. CountersHold'
  <2>1. CASE outcome = "refused" /\ Increment("refused")
    <3>1. /\ count'["refused"] = count["refused"] + 1
          /\ \A c \in Counters : c # "refused" => count'[c] = count[c]
      BY <1>10, <2>1 DEF Increment, Counters
    <3>2. QED
      BY <1>4, <1>6, <1>7, <1>8, <1>9, <1>11, <1>12, <2>1, <3>1, CountedParts,
         CountedPartsPrimed DEF Counters
  <2>2. CASE outcome = "grounded" /\ Increment("grounded")
    <3>1. /\ count'["grounded"] = count["grounded"] + 1
          /\ \A c \in Counters : c # "grounded" => count'[c] = count[c]
      BY <1>10, <2>2 DEF Increment, Counters
    <3>2. QED
      BY <1>4, <1>6, <1>7, <1>8, <1>9, <1>11, <1>12, <2>2, <3>1, CountedParts,
         CountedPartsPrimed DEF Counters
  <2>3. CASE outcome = "failed" /\ \E c \in Failures : Increment(c)
    <3>1. PICK c \in Failures : Increment(c)
      BY <2>3
    <3>2. /\ count'[c] = count[c] + 1
          /\ \A d \in Counters : d # c => count'[d] = count[d]
      BY <1>10, <3>1 DEF Increment, Counters, Failures
    <3>3. count'["embedding"] + count'["generation"] + count'["streaming_generation"]
            = count["embedding"] + count["generation"] + count["streaming_generation"] + 1
      <4>1. CASE c = "embedding"
        BY <1>11, <3>2, <4>1 DEF Counters
      <4>2. CASE c = "generation"
        BY <1>11, <3>2, <4>2 DEF Counters
      <4>3. CASE c = "streaming_generation"
        BY <1>11, <3>2, <4>3 DEF Counters
      <4>4. QED
        BY <3>1, <4>1, <4>2, <4>3 DEF Failures
    <3>4. \A d \in {"asked", "streamed", "grounded", "refused"} : count'[d] = count[d]
      BY <3>2 DEF Counters, Failures
    <3>5. QED
      BY <1>4, <1>6, <1>7, <1>8, <1>9, <1>11, <1>12, <2>3, <3>3, <3>4, CountedParts,
         CountedPartsPrimed
  <2>4. CASE outcome \notin {"refused", "grounded", "failed", "nothing"} /\ count' = count
    BY <1>4, <1>6, <1>7, <1>8, <1>9, <2>4, CountedParts, CountedPartsPrimed
  <2>5. QED
    BY <2>1, <2>2, <2>3, <2>4 DEF CountsAs
<1>14. QED
  BY <1>3, <1>13 DEF CountsInv

LEMMA CountsStepMove ==
    ASSUME TypeOK, CountsInv, NEW r \in Requests, NEW place, NEW other,
           place \notin {"idle", "done"}, other # "idle", Goto(r, place, other),
           UNCHANGED outcomeVars
    PROVE  CountsInv'
<1> USE RequestSets
<1>1. /\ pc[r] = place /\ pc'[r] = other
      /\ \A q \in Requests : q # r => pc'[q] = pc[q]
  BY PlaceMoves
<1>2. told' = told /\ count' = count
  BY DEF outcomeVars
<1>3. Came(Asks)' = Came(Asks) /\ Came(Streams)' = Came(Streams)
  BY <1>1, SameCame
<1>4. \A S : Outcome(S)' = Outcome(S)
  BY <1>2 DEF Outcome
<1>5. CountersHold'
  BY <1>2, <1>3, <1>4, CountedParts, CountedPartsPrimed DEF CountsInv
<1>6. \A q \in Requests : told'[q] # "nothing" =>
          pc'[q] = "done" /\ (told'[q] = "listed" <=> q \in Probes)
  BY <1>1, <1>2 DEF CountsInv
<1>7. QED
  BY <1>5, <1>6 DEF CountsInv

LEMMA CountsStepComes ==
    ASSUME TypeOK, CountsInv, NEW r \in Requests, Comes(r)
    PROVE  CountsInv'
<1> USE RequestSets
<1>1. Goto(r, "idle", "retrieve") \/ Goto(r, "idle", "model")
  BY DEF Comes
<1>2. /\ pc[r] = "idle" /\ pc'[r] # "idle"
      /\ \A q \in Requests : q # r => pc'[q] = pc[q]
  BY <1>1, PlaceMoves
<1>3. told' = told
  BY DEF Comes
<1>4. \A S : Outcome(S)' = Outcome(S)
  BY <1>3 DEF Outcome
<1>5. \A T : T \subseteq Requests =>
          /\ r \in T => Cardinality(Came(T))' = Cardinality(Came(T)) + 1
          /\ r \notin T => Cardinality(Came(T))' = Cardinality(Came(T))
  BY <1>2, CameStep
<1>6. /\ r \in Asks => Cardinality(Came(Asks))' = Cardinality(Came(Asks)) + 1
      /\ r \notin Asks => Cardinality(Came(Asks))' = Cardinality(Came(Asks))
      /\ r \in Streams => Cardinality(Came(Streams))' = Cardinality(Came(Streams)) + 1
      /\ r \notin Streams => Cardinality(Came(Streams))' = Cardinality(Came(Streams))
  BY <1>5
<1>7. count \in [Counters -> Nat]
  BY DEF TypeOK
<1>8. CountersHold
  BY DEF CountsInv
<1>9. \A q \in Requests : told'[q] # "nothing" =>
          pc'[q] = "done" /\ (told'[q] = "listed" <=> q \in Probes)
  BY <1>2, <1>3 DEF CountsInv
<1>10. CountersHold'
  <2>1. CASE r \in Asks /\ Increment("asked")
    <3>1. r \notin Streams
      BY <2>1, AskAssumption
    <3>2. /\ count'["asked"] = count["asked"] + 1
          /\ \A c \in Counters : c # "asked" => count'[c] = count[c]
      BY <1>7, <2>1 DEF Increment, Counters
    <3>3. QED
      BY <1>4, <1>6, <1>8, <2>1, <3>1, <3>2, CountedParts, CountedPartsPrimed DEF Counters
  <2>2. CASE r \in Streams /\ Increment("streamed")
    <3>1. r \notin Asks
      BY <2>2, AskAssumption
    <3>2. /\ count'["streamed"] = count["streamed"] + 1
          /\ \A c \in Counters : c # "streamed" => count'[c] = count[c]
      BY <1>7, <2>2 DEF Increment, Counters
    <3>3. QED
      BY <1>4, <1>6, <1>8, <2>2, <3>1, <3>2, CountedParts, CountedPartsPrimed DEF Counters
  <2>3. CASE r \in Probes /\ count' = count
    <3>1. r \notin Asks /\ r \notin Streams
      BY <2>3, AskAssumption
    <3>2. QED
      BY <1>4, <1>6, <1>8, <2>3, <3>1, CountedParts, CountedPartsPrimed
  <2>4. QED
    BY <2>1, <2>2, <2>3 DEF Comes
<1>11. QED
  BY <1>9, <1>10 DEF CountsInv

LEMMA CountsStep == TypeOK /\ CountsInv /\ [Next]_vars => CountsInv'
<1> SUFFICES ASSUME TypeOK, CountsInv, [Next]_vars PROVE CountsInv'
  OBVIOUS
<1> USE RequestSets
<1>1. ASSUME NEW r \in Requests, NEW place, NEW outcome, place \notin {"idle", "done"},
             Ends(r, place, outcome)
      PROVE  CountsInv'
  <2>1. /\ End(r, place, outcome) /\ CountedAs(outcome)
        /\ outcome \notin {"grounded", "nothing"} /\ (outcome = "listed" <=> r \in Probes)
    BY <1>1 DEF Ends
  <2>2. CountsAs(outcome)
    BY <1>1, <2>1 DEF CountedAs, CountsAs
  <2>3. QED
    BY <1>1, <2>1, <2>2, CountsStepEnd
<1>2. ASSUME NEW r \in Questions, NEW place, NEW text, NEW c \in Failures,
             place \notin {"idle", "done"}, Judges(r, place, text, c)
      PROVE  CountsInv'
  <2>1. /\ End(r, place, Verdict(text))
        /\ Increment(IF Verdict(text) = "failed" THEN c ELSE Verdict(text))
    BY <1>2 DEF Judges, Judge
  <2>2. CountsAs(Verdict(text))
    BY <2>1, VerdictType DEF CountsAs
  <2>3. r \notin Probes /\ Verdict(text) # "listed"
    BY VerdictType
  <2>4. QED
    BY <1>2, <2>1, <2>2, <2>3, CountsStepEnd
<1>3. ASSUME NEW r \in Requests, NEW place, NEW other, place \notin {"idle", "done"},
             other # "idle", Moves(r, place, other)
      PROVE  CountsInv'
  BY <1>3, CountsStepMove DEF Moves
<1>4. ASSUME NEW r \in Questions, EnterLock(r) \/ Build(r) PROVE CountsInv'
  <2>1. Moves(r, "wait", "build") \/ Moves(r, "wait", "assess") \/ Moves(r, "build", "assess")
    BY <1>4 DEF EnterLock, Build, Moves
  <2>2. QED
    BY <1>3, <2>1
<1>5. CASE UNCHANGED <<pc, outcomeVars>>
  <2>1. CountersHold'
    BY <1>5 DEF CountsInv, CountersHold, Outcome, outcomeVars
  <2>2. QED
    BY <1>5, <2>1 DEF CountsInv, outcomeVars
<1>6. "generation" \in Failures /\ "streaming_generation" \in Failures
  BY DEF Failures
<1>7. Kinds
  BY StepKinds
<1>8. QED
  BY <1>1, <1>2, <1>3, <1>4, <1>5, <1>6, <1>7, CountsStepComes DEF Kinds

\* The questions that came are those with an outcome some counter knows and those
\* without, and nothing is both.
LEMMA Accounts == TypeOK /\ CountsInv => OutcomesCounted
<1> SUFFICES ASSUME TypeOK, CountsInv PROVE OutcomesCounted
  OBVIOUS
<1> USE RequestSets
<1> DEFINE Grounded == Told({"grounded"})
           Refused == Told({"refused"})
           Failed == Told({"failed"})
<1>1. CountersHold /\ \A r \in Requests : told[r] # "nothing" =>
          pc[r] = "done" /\ (told[r] = "listed" <=> r \in Probes)
  BY DEF CountsInv
<1>2. told \in [Requests -> Outcomes]
  BY DEF TypeOK, Outcomes
<1>3. Came(Questions) = Came(Asks) \cup Came(Streams) /\ Came(Asks) \cap Came(Streams) = {}
  BY AskAssumption DEF Came, Questions
<1>4. Came(Questions) = Grounded \cup Refused \cup Failed \cup Unaccounted
  <2>1. ASSUME NEW r \in Came(Questions)
        PROVE  r \in Grounded \cup Refused \cup Failed \cup Unaccounted
    <3>1. r \in Questions /\ pc[r] # "idle" /\ told[r] \in Outcomes
      BY <1>2, <2>1 DEF Came
    <3>2. told[r] # "listed"
      BY <1>1, <3>1
    <3>3. QED
      BY <3>1, <3>2 DEF Told, Unaccounted, Outcomes
  <2>2. ASSUME NEW r \in Grounded \cup Refused \cup Failed \cup Unaccounted
        PROVE  r \in Came(Questions)
    <3>1. CASE r \in Unaccounted
      BY <3>1 DEF Unaccounted, Came
    <3>2. CASE r \in Grounded \cup Refused \cup Failed
      <4>1. r \in Requests /\ told[r] \in {"grounded", "refused", "failed"}
        BY <3>2 DEF Told
      <4>2. pc[r] = "done" /\ r \in Questions
        BY <1>1, <4>1
      <4>3. QED
        BY <4>2 DEF Came
    <3>3. QED
      BY <2>2, <3>1, <3>2
  <2>3. QED
    BY <2>1, <2>2
<1>5. /\ Grounded \cap Refused = {}
      /\ (Grounded \cup Refused) \cap Failed = {}
      /\ (Grounded \cup Refused \cup Failed) \cap Unaccounted = {}
  BY DEF Told, Unaccounted
<1>6. /\ Grounded \subseteq Requests /\ Refused \subseteq Requests
      /\ Failed \subseteq Requests /\ Unaccounted \subseteq Requests
      /\ Came(Asks) \subseteq Requests /\ Came(Streams) \subseteq Requests
  BY DEF Told, Unaccounted, Came
<1> HIDE DEF Grounded, Refused, Failed
<1>7. ASSUME NEW S, NEW T, S \subseteq Requests, T \subseteq Requests, S \cap T = {}
      PROVE  Cardinality(S \cup T) = Cardinality(S) + Cardinality(T)
  <2>1. IsFiniteSet(S) /\ IsFiniteSet(T) /\ Cardinality(S) \in Nat /\ Cardinality(T) \in Nat
    BY <1>7, RequestsFinite
  <2>2. Cardinality(S \cup T) = Cardinality(S) + Cardinality(T) - Cardinality(S \cap T)
    BY <2>1, FS_Union
  <2>3. Cardinality(S \cap T) = 0
    BY <1>7, FS_EmptySet
  <2>4. QED
    BY <2>1, <2>2, <2>3
<1>8. Cardinality(Came(Questions)) = Cardinality(Came(Asks)) + Cardinality(Came(Streams))
  BY <1>3, <1>6, <1>7
<1>9. Cardinality(Came(Questions))
        = Cardinality(Grounded) + Cardinality(Refused) + Cardinality(Failed)
          + Cardinality(Unaccounted)
  <2>1. Cardinality(Grounded \cup Refused) = Cardinality(Grounded) + Cardinality(Refused)
    BY <1>5, <1>6, <1>7
  <2>2. Cardinality((Grounded \cup Refused) \cup Failed)
          = Cardinality(Grounded \cup Refused) + Cardinality(Failed)
    BY <1>5, <1>6, <1>7
  <2>3. Cardinality((Grounded \cup Refused \cup Failed) \cup Unaccounted)
          = Cardinality(Grounded \cup Refused \cup Failed) + Cardinality(Unaccounted)
    BY <1>5, <1>6, <1>7
  <2>4. QED
    BY <1>4, <2>1, <2>2, <2>3
<1>10. /\ Outcome({"grounded"}) = Cardinality(Grounded)
       /\ Outcome({"refused"}) = Cardinality(Refused)
       /\ Outcome({"failed"}) = Cardinality(Failed)
  BY DEF Outcome, Told, Grounded, Refused, Failed
<1>11. /\ count["asked"] = Cardinality(Came(Asks))
       /\ count["streamed"] = Cardinality(Came(Streams))
       /\ count["grounded"] = Cardinality(Grounded)
       /\ count["refused"] = Cardinality(Refused)
       /\ count["embedding"] + count["generation"] + count["streaming_generation"]
            = Cardinality(Failed)
  BY <1>1, <1>10, CountedParts
<1>12. /\ Cardinality(Grounded) \in Nat /\ Cardinality(Refused) \in Nat
       /\ Cardinality(Failed) \in Nat /\ Cardinality(Unaccounted) \in Nat
  BY <1>6, RequestsFinite
<1>13. count["embedding"] \in Nat /\ count["generation"] \in Nat
       /\ count["streaming_generation"] \in Nat
  BY DEF TypeOK, Counters
<1>14. count["asked"] + count["streamed"]
         = count["grounded"] + count["refused"]
           + count["embedding"] + count["generation"] + count["streaming_generation"]
           + Cardinality(Unaccounted)
  BY <1>8, <1>9, <1>11, <1>12, <1>13
<1>15. QED
  BY <1>1, <1>14 DEF CountersHold, OutcomesCounted

\* GET /metrics is exact: each counter is the number of requests it is about, and the
\* questions that came are the outcomes counted and those no counter is for: under way,
\* rejected with a 422, broken by the store, or left by their client.
THEOREM CountsAreExact == Spec => []OutcomesCounted
<1>1. Init => CountsInv
  <2> SUFFICES ASSUME Init PROVE CountsInv
    OBVIOUS
  <2>1. \A T : T \subseteq Requests => Came(T) = {}
    BY DEF Init, Came
  <2>2. \A S : "nothing" \notin S => {r \in Requests : told[r] \in S} = {}
    BY DEF Init
  <2>3. \A S : "nothing" \notin S => Outcome(S) = 0
    BY <2>2, FS_EmptySet DEF Outcome
  <2>4. Cardinality(Came(Asks)) = 0 /\ Cardinality(Came(Streams)) = 0
    BY <2>1, FS_EmptySet, RequestSets
  <2>5. \A c \in Counters : count[c] = 0
    BY DEF Init
  <2>6. CountersHold
    BY <2>3, <2>4, <2>5, CountedParts DEF Counters
  <2>7. QED
    BY <2>6 DEF Init, CountsInv
<1>2. QED
  BY <1>1, Accounts, CountsStep, TypeCorrect, PTL DEF Spec
-----------------------------------------------------------------------------
(* What the lists of models say.                                             *)

\* A list of models whose discovery began at a time says of each model what was
\* so since then, unless a discovery failed since then.
Says(time, models, there, changed, failed) ==
    /\ \A m \in Models : m \notin models =>
          m \notin there \/ changed[m] >= time \/ failed >= time
    /\ \A m \in Models : m \in models => m \in there \/ changed[m] >= time

TimesInv ==
    /\ failedAt <= clock
    /\ \A m \in Models : since[m] <= clock
    /\ cache.at <= clock
    /\ \A r \in Requests : looked[r] <= clock

ListsInv ==
    /\ Says(cache.at, cache.models, installed, since, failedAt)
    /\ Default \in cache.models \/ cache.at + TTL <= clock
    /\ \A r \in Requests : pc[r] = "store" =>
          /\ Says(looked[r], list[r], installed, since, failedAt)
          /\ Default \in list[r]

ModelsInv == TimesInv /\ ListsInv

\* What may happen to Ollama and its models in a step.
WorldMoves ==
    \/ UNCHANGED <<installed, since, failedAt>>
    \/ failedAt' = clock /\ UNCHANGED <<installed, since>>
    \/ \E m \in Models : Change(m)

\* What a list says stays true when a discovery fails or a model changes later.
LEMMA SaysStays ==
    ASSUME TypeOK, TimesInv, WorldMoves,
           NEW time \in Nat, time <= clock,
           NEW models, Says(time, models, installed, since, failedAt)
    PROVE  Says(time, models, installed', since', failedAt')
<1>1. clock \in Nat /\ failedAt \in Nat /\ since \in [Models -> Nat]
  BY DEF TypeOK
<1>2. CASE UNCHANGED <<installed, since, failedAt>>
  BY <1>2
<1>3. CASE failedAt' = clock /\ UNCHANGED <<installed, since>>
  BY <1>1, <1>3 DEF Says
<1>4. ASSUME NEW m \in Models, Change(m)
      PROVE  Says(time, models, installed', since', failedAt')
  <2>1. /\ since'[m] = clock
        /\ \A n \in Models : n # m =>
              since'[n] = since[n] /\ (n \in installed' <=> n \in installed)
        /\ failedAt' = failedAt
    BY <1>1, <1>4 DEF Change
  <2>2. \A n \in Models : n # m =>
            /\ n \notin models => n \notin installed' \/ since'[n] >= time \/ failedAt' >= time
            /\ n \in models => n \in installed' \/ since'[n] >= time
    BY <2>1 DEF Says
  <2>3. since'[m] >= time
    BY <1>1, <2>1
  <2>4. QED
    BY <2>2, <2>3 DEF Says
<1>5. QED
  BY <1>2, <1>3, <1>4 DEF WorldMoves

\* Only a discovery moves to the place where its list is stored.
LEMMA StoreMoves ==
    ASSUME TypeOK, [Next]_vars, NEW r \in Requests, pc'[r] = "store"
    PROVE  Fetch(r) \/ pc[r] = "store"
<1> USE RequestSets
<1>2. ASSUME NEW q \in Requests, NEW place, NEW other, other # "store", Goto(q, place, other)
      PROVE  pc[r] = "store"
  BY <1>2, PlaceMoves
<1>3. ASSUME NEW q \in Requests, Fetch(q) PROVE Fetch(r) \/ pc[r] = "store"
  BY <1>3, PlaceMoves DEF Fetch
<1>4. ASSUME NEW q \in Requests, NEW place, NEW models, Resolved(q, place, models)
      PROVE  pc[r] = "store"
  BY <1>2, <1>4 DEF Resolved, EndUncounted, End
<1>5. ASSUME NEW q \in Requests, NEW place, NEW outcome, End(q, place, outcome)
      PROVE  pc[r] = "store"
  BY <1>2, <1>5 DEF End
<1>6. ASSUME NEW q \in Requests, Start(q) PROVE pc[r] = "store"
  BY <1>2, <1>6 DEF Start
<1>7. ASSUME NEW q \in Requests, Look(q) PROVE pc[r] = "store"
  BY <1>2, <1>4, <1>7 DEF Look
<1>8. ASSUME NEW q \in Requests, Store(q) PROVE pc[r] = "store"
  BY <1>4, <1>8 DEF Store
<1>9. ASSUME NEW q \in Questions,
             RetrievalFails(q) \/ Retrieve(q) \/ EnterLock(q) \/ Build(q) \/ Assess(q)
      PROVE  pc[r] = "store"
  <2>1. CASE RetrievalFails(q)
    BY <1>5, <2>1 DEF RetrievalFails, EndCounted, EndUncounted
  <2>2. CASE Retrieve(q) \/ EnterLock(q) \/ Build(q)
    BY <1>2, <2>2 DEF Retrieve, EnterLock, Build
  <2>3. CASE Assess(q)
    BY <1>2, <1>5, <2>3 DEF Assess, EndCounted
  <2>4. QED
    BY <1>9, <2>1, <2>2, <2>3
<1>10. ASSUME NEW q \in Asks, Generate(q) PROVE pc[r] = "store"
  BY <1>5, <1>10 DEF Generate, EndCounted, Judge
<1>11. ASSUME NEW q \in Streams,
              Open(q) \/ Token(q) \/ Finish(q) \/ Break(q) \/ Leave(q)
       PROVE  pc[r] = "store"
  <2>1. CASE Open(q)
    BY <1>2, <1>5, <2>1 DEF Open, EndCounted
  <2>2. CASE Token(q)
    BY <2>2 DEF Token
  <2>3. CASE Finish(q)
    BY <1>5, <2>3 DEF Finish, Judge
  <2>4. CASE Break(q) \/ Leave(q)
    BY <1>5, <2>4 DEF Break, Leave, EndCounted, EndUncounted
  <2>5. QED
    BY <1>11, <2>1, <2>2, <2>3, <2>4
<1>12. CASE (\E s \in Streams : Disconnect(s)) \/ (\E m \in Models : Change(m)) \/ Tick
  BY <1>12 DEF Disconnect, Change, Tick
<1>13. CASE UNCHANGED vars
  BY <1>13 DEF vars
<1>14. QED
  BY <1>3, <1>6, <1>7, <1>8, <1>9, <1>10, <1>11, <1>12, <1>13 DEF Next, Progress

\* What a step may do to the clock, to Ollama's models and to the lists.
ModelKinds ==
    \/ UNCHANGED <<worldVars, modelVars>>
    \/ UNCHANGED modelVars /\ Tick
    \/ UNCHANGED modelVars /\ \E m \in Models : Change(m)
    \/ \E r \in Requests : Look(r)
    \/ \E r \in Requests : Fetch(r)
    \/ \E r \in Requests : Store(r)

LEMMA StepModelKinds == [Next]_vars => ModelKinds
<1> SUFFICES ASSUME [Next]_vars PROVE ModelKinds
  OBVIOUS
<1>1. ASSUME NEW r \in Requests, Start(r) PROVE ModelKinds
  BY <1>1 DEF Start, ModelKinds
<1>2. ASSUME NEW r \in Questions,
             RetrievalFails(r) \/ Retrieve(r) \/ EnterLock(r) \/ Build(r) \/ Assess(r)
      PROVE  ModelKinds
  BY <1>2 DEF RetrievalFails, Retrieve, EnterLock, Build, Assess, ModelKinds
<1>3. ASSUME NEW r \in Asks, Generate(r) PROVE ModelKinds
  BY <1>3 DEF Generate, ModelKinds
<1>4. ASSUME NEW r \in Streams,
             Open(r) \/ Token(r) \/ Finish(r) \/ Break(r) \/ Leave(r) \/ Disconnect(r)
      PROVE  ModelKinds
  BY <1>4 DEF Open, Token, Finish, Break, Leave, Disconnect, ModelKinds
<1>5. CASE Tick \/ \E m \in Models : Change(m)
  BY <1>5 DEF Tick, Change, ModelKinds
<1>6. CASE UNCHANGED vars
  BY <1>6 DEF vars, ModelKinds
<1>7. ASSUME NEW r \in Requests, Look(r) \/ Fetch(r) \/ Store(r) PROVE ModelKinds
  BY <1>7 DEF ModelKinds
<1>8. QED
  BY <1>1, <1>2, <1>3, <1>4, <1>5, <1>6, <1>7 DEF Next, Progress

LEMMA TimesStep == TypeOK /\ TimesInv /\ [Next]_vars => TimesInv'
<1> SUFFICES ASSUME TypeOK, TimesInv, [Next]_vars PROVE TimesInv'
  OBVIOUS
<1>1. /\ clock \in Nat /\ failedAt \in Nat /\ since \in [Models -> Nat]
      /\ cache.at \in Nat /\ looked \in [Requests -> Nat]
  BY DEF TypeOK
<1>2. /\ failedAt <= clock /\ \A m \in Models : since[m] <= clock
      /\ cache.at <= clock /\ \A r \in Requests : looked[r] <= clock
  BY DEF TimesInv
<1>3. CASE UNCHANGED <<worldVars, modelVars>>
  BY <1>2, <1>3 DEF TimesInv, worldVars, modelVars
<1>4. CASE UNCHANGED modelVars /\ Tick
  <2>1. clock' = clock + 1 /\ UNCHANGED <<since, failedAt, cache, looked>>
    BY <1>4 DEF Tick, modelVars
  <2>2. failedAt' <= clock' /\ cache'.at <= clock'
    BY <1>1, <1>2, <2>1
  <2>3. \A m \in Models : since'[m] <= clock'
    BY <1>1, <1>2, <2>1
  <2>4. \A r \in Requests : looked'[r] <= clock'
    BY <1>1, <1>2, <2>1
  <2>5. QED
    BY <2>2, <2>3, <2>4 DEF TimesInv
<1>5. ASSUME NEW m \in Models, Change(m), UNCHANGED modelVars PROVE TimesInv'
  <2>1. since' = [since EXCEPT ![m] = clock] /\ UNCHANGED <<clock, failedAt, cache, looked>>
    BY <1>5 DEF Change, modelVars
  <2>2. \A n \in Models : since'[n] <= clock'
    BY <1>1, <1>2, <2>1
  <2>3. QED
    BY <1>2, <2>1, <2>2 DEF TimesInv
<1>6. ASSUME NEW r \in Requests, Look(r) PROVE TimesInv'
  <2>1. /\ looked' = looked \/ looked' = [looked EXCEPT ![r] = clock]
        /\ UNCHANGED <<clock, since, failedAt, cache>>
    BY <1>6 DEF Look, worldVars
  <2>2. \A q \in Requests : looked'[q] <= clock'
    BY <1>1, <1>2, <2>1
  <2>3. QED
    BY <1>2, <2>1, <2>2 DEF TimesInv
<1>7. ASSUME NEW r \in Requests, Fetch(r) PROVE TimesInv'
  <2>1. /\ failedAt' = failedAt \/ failedAt' = clock
        /\ UNCHANGED <<clock, since, cache, looked>>
    BY <1>7 DEF Fetch
  <2>2. QED
    BY <1>1, <1>2, <2>1 DEF TimesInv
<1>8. ASSUME NEW r \in Requests, Store(r) PROVE TimesInv'
  <2>1. /\ cache'.at = looked[r] /\ looked' = [looked EXCEPT ![r] = 0]
        /\ UNCHANGED <<clock, since, failedAt>>
    BY <1>8 DEF Store, worldVars
  <2>2. \A q \in Requests : looked'[q] <= clock'
    BY <1>1, <1>2, <2>1
  <2>3. QED
    BY <1>2, <2>1, <2>2 DEF TimesInv
<1>9. QED
  BY <1>3, <1>4, <1>5, <1>6, <1>7, <1>8, StepModelKinds DEF ModelKinds

LEMMA ListsStep == TypeOK /\ ModelsInv /\ [Next]_vars => ListsInv'
<1> SUFFICES ASSUME TypeOK, ModelsInv, [Next]_vars PROVE ListsInv'
  OBVIOUS
<1>0. TimesInv /\ ListsInv
  BY DEF ModelsInv
<1>1. /\ clock \in Nat /\ failedAt \in Nat /\ since \in [Models -> Nat]
      /\ cache.at \in Nat /\ looked \in [Requests -> Nat] /\ TTL \in Nat
  BY AskAssumption DEF TypeOK
<1>2. cache.at <= clock /\ \A r \in Requests : looked[r] \in Nat /\ looked[r] <= clock
  BY <1>0, <1>1 DEF TimesInv
<1>3. /\ Says(cache.at, cache.models, installed, since, failedAt)
      /\ Default \in cache.models \/ cache.at + TTL <= clock
      /\ \A r \in Requests : pc[r] = "store" =>
            /\ Says(looked[r], list[r], installed, since, failedAt)
            /\ Default \in list[r]
  BY <1>0 DEF ListsInv
<1>4. WorldMoves /\ clock' >= clock /\ clock' \in Nat
  <2>1. CASE UNCHANGED <<worldVars, modelVars>>
    BY <1>1, <2>1 DEF worldVars, WorldMoves
  <2>2. CASE Tick
    BY <1>1, <2>2 DEF Tick, WorldMoves
  <2>3. ASSUME NEW m \in Models, Change(m) PROVE WorldMoves /\ clock' = clock
    BY <2>3 DEF Change, WorldMoves
  <2>4. ASSUME NEW r \in Requests, Look(r) \/ Fetch(r) \/ Store(r)
        PROVE  WorldMoves /\ clock' = clock
    BY <2>4 DEF Look, Fetch, Store, worldVars, WorldMoves
  <2>5. QED
    BY <1>1, <2>1, <2>2, <2>3, <2>4, StepModelKinds DEF ModelKinds
\* The lists that stay say what they said.
<1>5. Says(cache.at, cache.models, installed', since', failedAt')
  BY <1>1, <1>0, <1>2, <1>3, <1>4, SaysStays
<1>6. \A r \in Requests : pc[r] = "store" =>
          Says(looked[r], list[r], installed', since', failedAt') /\ Default \in list[r]
  BY <1>0, <1>2, <1>3, <1>4, SaysStays
<1>7. Default \in cache.models \/ cache.at + TTL <= clock'
  BY <1>1, <1>3, <1>4
\* The cache is the one that was, or the list of the discovery that ends.
<1>8. \/ cache' = cache
      \/ \E r \in Requests :
            pc[r] = "store" /\ cache'.at = looked[r] /\ cache'.models = list[r]
  <2>1. CASE UNCHANGED modelVars
    BY <2>1 DEF modelVars
  <2>2. ASSUME NEW r \in Requests, Look(r) \/ Fetch(r) PROVE cache' = cache
    BY <2>2 DEF Look, Fetch
  <2>3. ASSUME NEW r \in Requests, Store(r)
        PROVE  pc[r] = "store" /\ cache'.at = looked[r] /\ cache'.models = list[r]
    BY <2>3 DEF Store, Resolved, EndUncounted, End, Goto
  <2>4. QED
    BY <2>1, <2>2, <2>3, StepModelKinds DEF ModelKinds
<1>9. /\ Says(cache'.at, cache'.models, installed', since', failedAt')
      /\ Default \in cache'.models \/ cache'.at + TTL <= clock'
  BY <1>5, <1>6, <1>7, <1>8
\* A list that waits to be stored was one before, or has just been found.
<1>10. ASSUME NEW r \in Requests, pc'[r] = "store"
       PROVE  Says(looked'[r], list'[r], installed', since', failedAt') /\ Default \in list'[r]
  <2>1. CASE Fetch(r)
    <3>1. /\ looked' = looked /\ installed' = installed /\ since' = since
          /\ pc' = [pc EXCEPT ![r] = "store"]
      BY <2>1 DEF Fetch, Goto
    <3>2. CASE list' = [list EXCEPT ![r] = {Default} \cup installed]
      <4>1. list'[r] = {Default} \cup installed
        BY <3>2 DEF TypeOK
      <4>2. \A m \in Models : m # Default
        BY AskAssumption
      <4>3. QED
        BY <3>1, <4>1, <4>2 DEF Says
    <3>3. CASE list' = [list EXCEPT ![r] = {Default}] /\ failedAt' = clock
      <4>1. list'[r] = {Default}
        BY <3>3 DEF TypeOK
      <4>2. \A m \in Models : m # Default
        BY AskAssumption
      <4>3. failedAt' >= looked'[r]
        BY <1>1, <1>2, <3>1, <3>3
      <4>4. QED
        BY <3>1, <4>1, <4>2, <4>3 DEF Says
    <3>4. QED
      BY <2>1, <3>2, <3>3 DEF Fetch
  <2>2. CASE ~Fetch(r)
    <3>1. pc[r] = "store"
      BY <1>10, <2>2, StoreMoves
    <3>2. looked'[r] = looked[r] /\ list'[r] = list[r]
      <4>1. CASE UNCHANGED modelVars
        BY <4>1 DEF modelVars
      <4>2. ASSUME NEW q \in Requests, Look(q) PROVE looked'[r] = looked[r] /\ list'[r] = list[r]
        <5>1. pc[q] = "model"
          BY <4>2 DEF Look, Resolved, EndUncounted, End, Goto
        <5>2. QED
          BY <1>1, <3>1, <4>2, <5>1 DEF Look
      <4>3. ASSUME NEW q \in Requests, Fetch(q) PROVE looked'[r] = looked[r] /\ list'[r] = list[r]
        <5>1. q # r
          BY <2>2, <4>3
        <5>2. list \in [Requests -> SUBSET (Models \cup {Default})]
          BY DEF TypeOK
        <5>3. QED
          BY <4>3, <5>1, <5>2 DEF Fetch
      <4>4. ASSUME NEW q \in Requests, Store(q) PROVE looked'[r] = looked[r] /\ list'[r] = list[r]
        <5>1. \E other : other # "store" /\ Goto(q, "store", other)
          BY <4>4 DEF Store, Resolved, EndUncounted, End
        <5>2. q # r
          BY <1>10, <5>1, PlaceMoves
        <5>3. list \in [Requests -> SUBSET (Models \cup {Default})]
          BY DEF TypeOK
        <5>4. QED
          BY <1>1, <4>4, <5>2, <5>3 DEF Store
      <4>5. QED
        BY <4>1, <4>2, <4>3, <4>4, StepModelKinds DEF ModelKinds
    <3>3. QED
      BY <1>6, <3>1, <3>2
  <2>3. QED
    BY <2>1, <2>2
<1>11. QED
  BY <1>9, <1>10 DEF ListsInv

\* Only a look at a list refuses a model or accepts it.
ByList(r) ==
    \/ /\ pc[r] = "model" /\ clock - cache.at < TTL
       /\ Resolved(r, "model", cache.models)
    \/ pc[r] = "store" /\ Resolved(r, "store", list[r])

LEMMA ListDecides ==
    ASSUME TypeOK, [Next]_vars, NEW r \in Questions,
           \/ told[r] = "nothing" /\ told'[r] = "rejected"
           \/ pc[r] \in {"model", "store"} /\ pc'[r] \in {"generate", "open"}
    PROVE  ByList(r)
<1> USE RequestSets
<1>1. ASSUME NEW q \in Requests, Look(q) PROVE ByList(r)
  <2>1. CASE clock - cache.at < TTL
    <3>1. Resolved(q, "model", cache.models)
      BY <1>1, <2>1 DEF Look
    <3>2. pc[q] = "model"
      BY <3>1 DEF Resolved, EndUncounted, End, Goto
    <3>3. q = r
      BY <3>1, EndMoves, PlaceMoves DEF Resolved, EndUncounted, outcomeVars
    <3>4. QED
      BY <2>1, <3>1, <3>2, <3>3 DEF ByList
  <2>2. CASE ~(clock - cache.at < TTL)
    <3>1. Goto(q, "model", "fetch") /\ told' = told
      BY <1>1, <2>2 DEF Look, outcomeVars
    <3>2. QED
      BY <3>1, PlaceMoves
  <2>3. QED
    BY <2>1, <2>2
<1>2. ASSUME NEW q \in Requests, Store(q) PROVE ByList(r)
  <2>1. Resolved(q, "store", list[q])
    BY <1>2 DEF Store
  <2>2. pc[q] = "store"
    BY <2>1 DEF Resolved, EndUncounted, End, Goto
  <2>3. q = r
    BY <2>1, EndMoves, PlaceMoves DEF Resolved, EndUncounted, outcomeVars
  <2>4. QED
    BY <2>1, <2>2, <2>3 DEF ByList
<1>3. ASSUME NEW q \in Requests, NEW place, NEW outcome, outcome # "rejected",
             End(q, place, outcome)
      PROVE  FALSE
  BY <1>3, EndMoves
<1>4. ASSUME NEW q \in Requests, NEW place, NEW other, told' = told,
             other \notin {"generate", "open"}, Goto(q, place, other)
      PROVE  FALSE
  BY <1>4, PlaceMoves
<1>5. CASE UNCHANGED <<pc, told>>
  BY <1>5
<1>6. ASSUME NEW q \in Requests, Start(q) PROVE FALSE
  BY <1>4, <1>6 DEF Start
<1>7. ASSUME NEW q \in Questions,
             RetrievalFails(q) \/ Retrieve(q) \/ EnterLock(q) \/ Build(q) \/ Assess(q)
      PROVE  FALSE
  <2>1. CASE RetrievalFails(q)
    BY <1>3, <2>1 DEF RetrievalFails, EndCounted, EndUncounted
  <2>2. CASE Retrieve(q) \/ EnterLock(q) \/ Build(q)
    BY <1>4, <2>2 DEF Retrieve, EnterLock, Build, outcomeVars
  <2>3. CASE Assess(q)
    BY <1>3, <1>4, <2>3 DEF Assess, EndCounted, outcomeVars
  <2>4. QED
    BY <1>7, <2>1, <2>2, <2>3
<1>8. ASSUME NEW q \in Requests, Fetch(q) PROVE FALSE
  BY <1>4, <1>8 DEF Fetch, outcomeVars
<1>9. ASSUME NEW q \in Questions, NEW place, NEW text, NEW c, Judge(q, place, text, c)
      PROVE  FALSE
  <2>1. End(q, place, Verdict(text)) /\ Verdict(text) # "rejected"
    BY <1>9, VerdictType DEF Judge
  <2>2. QED
    BY <1>3, <2>1
<1>10. ASSUME NEW q \in Asks, Generate(q) PROVE FALSE
  BY <1>3, <1>9, <1>10 DEF Generate, EndCounted
<1>11. ASSUME NEW q \in Streams, Open(q) \/ Finish(q) \/ Break(q) \/ Leave(q)
       PROVE  FALSE
  <2>1. CASE Open(q)
    BY <1>3, <1>4, <2>1 DEF Open, EndCounted, outcomeVars
  <2>2. CASE Finish(q)
    BY <1>9, <2>2 DEF Finish
  <2>3. CASE Break(q) \/ Leave(q)
    BY <1>3, <2>3 DEF Break, Leave, EndCounted, EndUncounted
  <2>4. QED
    BY <1>11, <2>1, <2>2, <2>3
<1>12. CASE \/ \E s \in Streams : Token(s) \/ Disconnect(s)
            \/ \E m \in Models : Change(m)
            \/ Tick \/ UNCHANGED vars
  BY <1>5, <1>12 DEF Token, Disconnect, Change, Tick, vars, outcomeVars
<1>13. QED
  BY <1>1, <1>2, <1>6, <1>7, <1>8, <1>10, <1>11, <1>12 DEF Next, Progress

\* What a list that is no older than MODEL_DISCOVERY_TTL_SECONDS decides.
LEMMA Decision ==
    ASSUME TypeOK, ModelsInv, [Next]_vars, NEW r \in Questions, ByList(r)
    PROVE  LET m == Wanted[r]
           IN  /\ told[r] = "nothing" /\ told'[r] = "rejected" =>
                     /\ m # Default
                     /\ m \notin installed \/ Recent(r, since[m]) \/ Recent(r, failedAt)
               /\ pc[r] \in {"model", "store"} /\ pc'[r] \in {"generate", "open"} =>
                     m = Default \/ m \in installed \/ Recent(r, since[m])
<1> USE RequestSets
<1> DEFINE m == Wanted[r]
<1>1. /\ clock \in Nat /\ failedAt \in Nat /\ since \in [Models -> Nat]
      /\ cache.at \in Nat /\ looked[r] \in Nat /\ TTL \in Nat /\ TTL > 0
  BY AskAssumption DEF TypeOK
<1>2. m \in Models \cup {Default}
  BY AskAssumption
<1>3. ASSUME NEW place, NEW models, Resolved(r, place, models)
      PROVE  /\ told[r] = "nothing" /\ told'[r] = "rejected" => m \notin models
             /\ pc'[r] \in {"generate", "open"} => m \in models
  <2>1. CASE m \in models
    <3>1. told' = told
      BY <1>3, <2>1 DEF Resolved, outcomeVars
    <3>2. QED
      BY <2>1, <3>1
  <2>2. CASE m \notin models
    <3>1. End(r, place, "rejected")
      BY <1>3, <2>2 DEF Resolved, EndUncounted
    <3>2. QED
      BY <2>2, <3>1, EndMoves
  <2>3. QED
    BY <2>1, <2>2
<1>4. ASSUME NEW time \in Nat, NEW models, Default \in models,
             Says(time, models, installed, since, failedAt),
             \A t \in Nat : t >= time => Recent(r, t)
      PROVE  /\ m \notin models =>
                   /\ m # Default
                   /\ m \notin installed \/ Recent(r, since[m]) \/ Recent(r, failedAt)
             /\ m \in models => m = Default \/ m \in installed \/ Recent(r, since[m])
  <2>1. CASE m = Default
    BY <1>4, <2>1
  <2>2. CASE m \in Models
    <3>1. since[m] \in Nat
      BY <1>1, <2>2
    <3>2. /\ m \notin models => m \notin installed \/ since[m] >= time \/ failedAt >= time
          /\ m \in models => m \in installed \/ since[m] >= time
      BY <1>4, <2>2 DEF Says
    <3>3. QED
      BY <1>1, <1>4, <3>1, <3>2, AskAssumption, <2>2
  <2>3. QED
    BY <1>2, <2>1, <2>2
<1>5. CASE /\ pc[r] = "model" /\ clock - cache.at < TTL
           /\ Resolved(r, "model", cache.models)
  <2>1. Says(cache.at, cache.models, installed, since, failedAt) /\ Default \in cache.models
    BY <1>1, <1>5 DEF ModelsInv, ListsInv
  <2>2. \A t \in Nat : t >= cache.at => Recent(r, t)
    BY <1>1, <1>5 DEF Recent
  <2>3. QED
    BY <1>1, <1>3, <1>4, <1>5, <2>1, <2>2
<1>6. CASE pc[r] = "store" /\ Resolved(r, "store", list[r])
  <2>1. Says(looked[r], list[r], installed, since, failedAt) /\ Default \in list[r]
    BY <1>6 DEF ModelsInv, ListsInv
  <2>2. \A t \in Nat : t >= looked[r] => Recent(r, t)
    BY <1>1, <1>6 DEF Recent
  <2>3. QED
    BY <1>1, <1>3, <1>4, <1>6, <2>1, <2>2
<1>7. QED
  BY <1>5, <1>6 DEF ByList

\* A model is refused or accepted by what was so less than
\* MODEL_DISCOVERY_TTL_SECONDS before the request looked, however the
\* discoveries of threads and streams overlap.
THEOREM ModelsAreBelieved == Spec => ModelsBelieved
<1>1. Init => ModelsInv
  <2> SUFFICES ASSUME Init PROVE ModelsInv
    OBVIOUS
  <2>1. TTL \in Nat
    BY AskAssumption
  <2>2. TimesInv
    BY <2>1 DEF Init, TimesInv
  <2>3. ListsInv
    BY <2>1 DEF Init, ListsInv, Says
  <2>4. QED
    BY <2>2, <2>3 DEF ModelsInv
<1>2. TypeOK /\ ModelsInv /\ [Next]_vars => ModelsInv'
  BY TimesStep, ListsStep DEF ModelsInv
<1>3. TypeOK /\ ModelsInv /\ [Next]_vars =>
        [\A r \in Questions :
            LET m == Wanted[r]
            IN  /\ told[r] = "nothing" /\ told'[r] = "rejected" =>
                      /\ m # Default
                      /\ m \notin installed \/ Recent(r, since[m]) \/ Recent(r, failedAt)
                /\ pc[r] \in {"model", "store"} /\ pc'[r] \in {"generate", "open"} =>
                      m = Default \/ m \in installed \/ Recent(r, since[m])]_vars
  BY ListDecides, Decision
<1>4. QED
  BY <1>1, <1>2, <1>3, TypeCorrect, PTL DEF Spec, ModelsBelieved
=============================================================================
