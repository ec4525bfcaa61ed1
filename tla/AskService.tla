----------------------------- MODULE AskService -----------------------------
(***************************************************************************)
(* The question endpoints of Local RAG (services/local-rag/app/main.py,       *)
(* streaming.py, reranker.py, metrics.py).  POST /ask and GET /health are run  *)
(* by threads; POST /ask/stream runs on the event loop and hands only its      *)
(* retrieval to a thread.  The handlers share the cache of installed models,   *)
(* the encoder of the reranker and the counters, and call Ollama, which may    *)
(* fail whenever it is called.                                                *)
(*                                                                           *)
(* A definition named Wrong... is a plausible bug, used by no action.        *)
(***************************************************************************)
EXTENDS Citations

CONSTANTS
    Asks,           \* POST /ask requests
    Streams,        \* POST /ask/stream requests
    Probes,         \* GET /health requests
    Models,         \* models the operator installs and removes
    Default,        \* GENERATION_MODEL, always in the list
    Wanted,         \* [Asks \cup Streams -> Models \cup {Default}]: body.model
    Answers,        \* answers the model may give, sequences of atoms
    TTL,            \* MODEL_DISCOVERY_TTL_SECONDS
    MaxRequests,    \* bound: requests that come
    MaxTime,        \* bound: the clock stops here
    MaxChanges      \* bound: installations and removals

Requests == Asks \cup Streams \cup Probes
Questions == Asks \cup Streams

Nobody == "nobody"

ASSUME AskAssumption ==
    /\ Asks \cap Streams = {} /\ Asks \cap Probes = {} /\ Streams \cap Probes = {}
    /\ IsFiniteSet(Requests) /\ Nobody \notin Requests
    /\ Wanted \in [Questions -> Models \cup {Default}]
    /\ Default \notin Models
    /\ Answers \subseteq Seq(Atoms)
    /\ TTL \in Nat \ {0}
    /\ MaxRequests \in Nat
    /\ MaxTime \in Nat
    /\ MaxChanges \in Nat

VARIABLES
    clock,      \* monotonic()
    installed,  \* the models Ollama has
    since,      \* when each model was installed or removed last
    failedAt,   \* when a discovery failed last
    changes,    \* installations and removals so far
    cache,      \* _available_models_cache, older than TTL when there is none
    loop,       \* the stream that keeps the event loop while it discovers
    encoders,   \* encoders built for LocalReranker._encoder
    locked,     \* the request that holds LocalReranker._lock
    pc,         \* where each request is
    looked,     \* now of the discoveries under way
    list,       \* the models they found
    evidence,   \* confidence.sufficient
    answer,     \* what the model is answering to each stream
    sent,       \* tokens of it received, and sent as events
    gone,       \* streams whose client has left
    told,       \* the outcome of each request
    result,     \* the answers given as grounded
    count       \* the counters of MetricRegistry

worldVars == <<clock, installed, since, failedAt, changes>>
modelVars == <<cache, loop, looked, list>>
rankVars == <<encoders, locked>>
streamVars == <<evidence, answer, sent, gone>>
outcomeVars == <<told, result, count>>
vars == <<worldVars, modelVars, rankVars, streamVars, outcomeVars, pc>>

Counters == {"asked", "streamed", "grounded", "refused",
             "embedding", "generation", "streaming_generation"}

Init ==
    /\ clock = TTL
    /\ installed \in SUBSET Models
    /\ since = [m \in Models |-> 0]
    /\ failedAt = 0
    /\ changes = 0
    /\ cache = [at |-> 0, models |-> {}]
    /\ loop = Nobody
    /\ encoders = 0
    /\ locked = Nobody
    /\ pc = [r \in Requests |-> "idle"]
    /\ looked = [r \in Requests |-> 0]
    /\ list = [r \in Requests |-> {}]
    /\ evidence = [s \in Streams |-> FALSE]
    /\ answer = [s \in Streams |-> <<>>]
    /\ sent = [s \in Streams |-> 0]
    /\ gone = {}
    /\ told = [r \in Requests |-> "nothing"]
    /\ result = [r \in Questions |-> <<>>]
    /\ count = [c \in Counters |-> 0]

\* A step on the event loop, which a thread does not need.
OnLoop(r) == r \in Streams => loop = Nobody

Goto(r, from, to) == pc[r] = from /\ pc' = [pc EXCEPT ![r] = to]

\* increment and dependency_failure, under the lock of the registry.
Increment(c) == count' = [count EXCEPT ![c] = @ + 1]

\* The handler ends with a response or an event, and what it knew is forgotten.
End(r, from, outcome) ==
    /\ Goto(r, from, "done")
    /\ told' = [told EXCEPT ![r] = outcome]
    /\ evidence' = [s \in Streams |-> IF s = r THEN FALSE ELSE evidence[s]]
    /\ answer' = [s \in Streams |-> IF s = r THEN <<>> ELSE answer[s]]
    /\ sent' = [s \in Streams |-> IF s = r THEN 0 ELSE sent[s]]
    /\ gone' = gone \ {r}

EndCounted(r, from, outcome, c) ==
    End(r, from, outcome) /\ Increment(c) /\ UNCHANGED result

EndUncounted(r, from, outcome) ==
    End(r, from, outcome) /\ UNCHANGED <<result, count>>

WrongJudge(r, from, text, component) ==
    LET v == Verdict(text)
    IN  /\ End(r, from, v)
        /\ Increment(IF v = "failed" THEN "refused" ELSE v)
        /\ result' = IF v = "grounded" THEN [result EXCEPT ![r] = text] ELSE result

\* The handlers' verdict on a whole answer; an empty one is a failure.
Judge(r, from, text, component) ==
    LET v == Verdict(text)
    IN  /\ End(r, from, v)
        /\ Increment(IF v = "failed" THEN component ELSE v)
        /\ result' = IF v = "grounded" THEN [result EXCEPT ![r] = text] ELSE result
-----------------------------------------------------------------------------
(* Retrieval and reranking, in a thread.                                    *)

Start(r) ==
    /\ loop = Nobody
    /\ Cardinality({q \in Requests : pc[q] # "idle"}) < MaxRequests
    /\ \/ r \in Asks /\ Goto(r, "idle", "retrieve") /\ Increment("asked")
       \/ r \in Streams /\ Goto(r, "idle", "retrieve") /\ Increment("streamed")
       \/ r \in Probes /\ Goto(r, "idle", "model") /\ UNCHANGED count
    /\ UNCHANGED <<worldVars, modelVars, rankVars, streamVars, told, result>>

\* embed_text counts its failure; one of the vector store is not counted.
RetrievalFails(r) ==
    /\ \/ EndCounted(r, "retrieve", "failed", "embedding")
       \/ EndUncounted(r, "retrieve", "broken")
    /\ UNCHANGED <<worldVars, modelVars, rankVars>>

\* The store has candidates to be reranked: _get_encoder looks at the encoder
\* without the lock.
Retrieve(r) ==
    /\ Goto(r, "retrieve", IF encoders = 0 THEN "wait" ELSE "assess")
    /\ UNCHANGED <<worldVars, modelVars, rankVars, streamVars, outcomeVars>>

WrongEnterLock(r) ==
    /\ locked = Nobody
    /\ Goto(r, "wait", "build")
    /\ locked' = r
    /\ UNCHANGED <<worldVars, modelVars, streamVars, outcomeVars, encoders>>

\* The look with the lock, which is given back at once when one was built.
EnterLock(r) ==
    /\ locked = Nobody
    /\ IF encoders = 0
       THEN Goto(r, "wait", "build") /\ locked' = r
       ELSE Goto(r, "wait", "assess") /\ UNCHANGED locked
    /\ UNCHANGED <<worldVars, modelVars, streamVars, outcomeVars, encoders>>

WrongBuild(r) ==
    /\ Goto(r, "build", "assess")
    /\ \/ encoders' = encoders + 1 /\ locked' = Nobody
       \/ UNCHANGED rankVars
    /\ UNCHANGED <<worldVars, modelVars, streamVars, outcomeVars>>

\* When TextCrossEncoder raises, rerank falls back to the hybrid order.
Build(r) ==
    /\ Goto(r, "build", "assess")
    /\ encoders' \in {encoders, encoders + 1}
    /\ locked' = Nobody
    /\ UNCHANGED <<worldVars, modelVars, streamVars, outcomeVars>>

\* Without evidence /ask refuses, before it looks at the model; /ask/stream
\* looks first.  Without candidates there is none.
Assess(r) ==
    /\ OnLoop(r)
    /\ \E from \in {"retrieve", "assess"} :
        \/ /\ r \in Asks
           /\ EndCounted(r, from, "refused", "refused")
        \/ \E e \in BOOLEAN :
              /\ e => from = "assess"
              /\ r \in Asks => e
              /\ Goto(r, from, "model")
              /\ evidence' = [s \in Streams |-> IF s = r THEN e ELSE evidence[s]]
              /\ UNCHANGED <<answer, sent, gone, outcomeVars>>
    /\ UNCHANGED <<worldVars, modelVars, rankVars>>
-----------------------------------------------------------------------------
(* discover_available_models and resolve_generation_model.                  *)

Resolved(r, from, models) ==
    IF r \in Probes THEN EndUncounted(r, from, "listed")
    ELSE IF Wanted[r] \notin models THEN EndUncounted(r, from, "rejected")
    ELSE /\ Goto(r, from, IF r \in Asks THEN "generate" ELSE "open")
         /\ UNCHANGED <<streamVars, outcomeVars>>

\* A stream waits for the answer on the event loop and stops it meanwhile.
Look(r) ==
    /\ OnLoop(r)
    /\ IF clock - cache.at < TTL
       THEN Resolved(r, "model", cache.models) /\ UNCHANGED <<looked, loop>>
       ELSE /\ Goto(r, "model", "fetch")
            /\ looked' = [looked EXCEPT ![r] = clock]
            /\ loop' = IF r \in Streams THEN r ELSE loop
            /\ UNCHANGED <<streamVars, outcomeVars>>
    /\ UNCHANGED <<worldVars, rankVars, cache, list>>

\* Whatever fails, the list falls back to the default model.
Fetch(r) ==
    /\ Goto(r, "fetch", "store")
    /\ \/ list' = [list EXCEPT ![r] = {Default} \cup installed] /\ UNCHANGED failedAt
       \/ list' = [list EXCEPT ![r] = {Default}] /\ failedAt' = clock
    /\ UNCHANGED <<clock, installed, since, changes>>
    /\ UNCHANGED <<rankVars, streamVars, outcomeVars, cache, loop, looked>>

WrongStore(r) ==
    /\ Resolved(r, "store", list[r])
    /\ cache' = [at |-> clock, models |-> list[r]]
    /\ loop' = IF r \in Streams THEN Nobody ELSE loop
    /\ looked' = [looked EXCEPT ![r] = 0]
    /\ list' = [list EXCEPT ![r] = {}]
    /\ UNCHANGED <<worldVars, rankVars>>

\* The last discovery to end is kept, with the time its request looked.
Store(r) ==
    /\ Resolved(r, "store", list[r])
    /\ cache' = [at |-> looked[r], models |-> list[r]]
    /\ loop' = IF r \in Streams THEN Nobody ELSE loop
    /\ looked' = [looked EXCEPT ![r] = 0]
    /\ list' = [list EXCEPT ![r] = {}]
    /\ UNCHANGED <<worldVars, rankVars>>
-----------------------------------------------------------------------------
(* Generation.                                                              *)

Generate(r) ==
    /\ \/ EndCounted(r, "generate", "failed", "generation")
       \/ \E a \in Answers : Judge(r, "generate", a, "generation")
    /\ UNCHANGED <<worldVars, modelVars, rankVars>>

\* The head of events(), and the connection of stream_ollama_answer.
Open(r) ==
    /\ loop = Nobody
    /\ \/ ~evidence[r] /\ EndCounted(r, "open", "refused", "refused")
       \/ /\ evidence[r] /\ r \notin gone
          /\ \/ EndCounted(r, "open", "failed", "streaming_generation")
             \/ \E a \in Answers :
                   /\ Goto(r, "open", "stream")
                   /\ answer' = [answer EXCEPT ![r] = a]
                   /\ UNCHANGED <<evidence, sent, gone, outcomeVars>>
    /\ UNCHANGED <<worldVars, modelVars, rankVars>>

\* A line of Ollama's answer: is_disconnected is asked before it is used.
Token(r) ==
    /\ loop = Nobody
    /\ pc[r] = "stream" /\ r \notin gone
    /\ sent[r] < Len(answer[r])
    /\ sent' = [sent EXCEPT ![r] = @ + 1]
    /\ UNCHANGED <<worldVars, modelVars, rankVars, outcomeVars, pc, evidence, answer, gone>>

Received(r) == SubSeq(answer[r], 1, sent[r])

WrongFinish(r) ==
    /\ loop = Nobody
    /\ r \notin gone
    /\ Judge(r, "stream", Received(r), "streaming_generation")
    /\ UNCHANGED <<worldVars, modelVars, rankVars>>

\* The line that says done, and the result.
Finish(r) ==
    /\ loop = Nobody
    /\ r \notin gone
    /\ sent[r] = Len(answer[r])
    /\ Judge(r, "stream", Received(r), "streaming_generation")
    /\ UNCHANGED <<worldVars, modelVars, rankVars>>

\* Ollama fails, or its answer ends before it says done: the error event.
Break(r) ==
    /\ loop = Nobody
    /\ EndCounted(r, "stream", "failed", "streaming_generation")
    /\ UNCHANGED <<worldVars, modelVars, rankVars>>

\* The generator finds the client gone, or the server cancels it.
Leave(r) ==
    /\ loop = Nobody
    /\ r \in gone
    /\ \E from \in {"open", "stream"} : EndUncounted(r, from, "left")
    /\ UNCHANGED <<worldVars, modelVars, rankVars>>
-----------------------------------------------------------------------------
\* The client of a stream leaves.  Nothing looks for it before the answer is
\* asked for, so one that left earlier is as one that leaves then.
Disconnect(r) ==
    /\ r \notin gone
    /\ pc[r] \in {"open", "stream"}
    /\ gone' = gone \cup {r}
    /\ UNCHANGED <<worldVars, modelVars, rankVars, outcomeVars, pc, evidence, answer, sent>>

\* The operator installs a model or removes it.
Change(m) ==
    /\ changes < MaxChanges
    /\ changes' = changes + 1
    /\ installed' = IF m \in installed THEN installed \ {m} ELSE installed \cup {m}
    /\ since' = [since EXCEPT ![m] = clock]
    /\ UNCHANGED <<modelVars, rankVars, streamVars, outcomeVars, pc, clock, failedAt>>

Tick ==
    /\ clock < MaxTime
    /\ clock' = clock + 1
    /\ UNCHANGED <<modelVars, rankVars, streamVars, outcomeVars, pc>>
    /\ UNCHANGED <<installed, since, failedAt, changes>>

\* What a handler does by itself.
Progress(r) ==
    \/ Look(r) \/ Fetch(r) \/ Store(r)
    \/ /\ r \in Questions
       /\ \/ RetrievalFails(r) \/ Retrieve(r)
          \/ EnterLock(r) \/ Build(r) \/ Assess(r)
    \/ r \in Asks /\ Generate(r)
    \/ r \in Streams /\ (Open(r) \/ Token(r) \/ Finish(r) \/ Break(r) \/ Leave(r))

Next ==
    \/ \E r \in Requests : Start(r) \/ Progress(r)
    \/ \E s \in Streams : Disconnect(s)
    \/ \E m \in Models : Change(m)
    \/ Tick

Spec == Init /\ [][Next]_vars

(* Threads and the event loop are scheduled, and every call to Ollama has a   *)
(* timeout.  Nothing makes a client leave or a model appear.                 *)
FairSpec == Spec /\ \A r \in Requests : WF_vars(Progress(r))
-----------------------------------------------------------------------------
TypeOK ==
    /\ clock \in Nat /\ failedAt \in Nat /\ changes \in Nat
    /\ installed \subseteq Models
    /\ since \in [Models -> Nat]
    /\ cache \in [at : Nat, models : SUBSET (Models \cup {Default})]
    /\ loop \in Streams \cup {Nobody}
    /\ encoders \in Nat
    /\ locked \in Questions \cup {Nobody}
    /\ pc \in [Requests -> {"idle", "retrieve", "wait", "build", "assess", "model",
                            "fetch", "store", "generate", "open", "stream", "done"}]
    /\ looked \in [Requests -> Nat]
    /\ list \in [Requests -> SUBSET (Models \cup {Default})]
    /\ evidence \in [Streams -> BOOLEAN]
    /\ answer \in [Streams -> Seq(Atoms)]
    /\ sent \in [Streams -> Nat]
    /\ gone \subseteq Streams
    /\ told \in [Requests -> {"nothing", "listed", "rejected", "failed", "broken",
                              "refused", "grounded", "left"}]
    /\ result \in [Questions -> Seq(Atoms)]
    /\ count \in [Counters -> Nat]

\* A 422 names a model that was missing, or followed a failed discovery, less
\* than MODEL_DISCOVERY_TTL_SECONDS before the request looked; a model that is
\* accepted was there as late.  However discoveries overlap, none counts for
\* longer (main.py:124, 265).
Recent(r, t) == t > (IF pc[r] = "model" THEN clock ELSE looked[r]) - TTL

ModelsBelieved ==
    [][\A r \in Questions :
        LET m == Wanted[r]
        IN  /\ told[r] = "nothing" /\ told'[r] = "rejected" =>
                  /\ m # Default
                  /\ m \notin installed \/ Recent(r, since[m]) \/ Recent(r, failedAt)
            /\ pc[r] \in {"model", "store"} /\ pc'[r] \in {"generate", "open"} =>
                  m = Default \/ m \in installed \/ Recent(r, since[m])]_vars

\* A grounded answer is one that the model finished, never what was received
\* of it before the stream broke or its client left, and unless the word CITATION is
\* in it, each of its words with an ASCII letter or digit is cited (main.py:1056-1127).
GroundedIsWhole ==
    \A r \in Questions : told[r] = "grounded" =>
        /\ result[r] \in Answers
        /\ Has(result[r], Placeholders) \/ CitedThroughout(result[r])

Outcome(S) == Cardinality({r \in Requests : told[r] \in S})

\* Questions whose outcome no counter knows: those under way, the ones rejected with a
\* 422, those whose store failed, and the streams whose client left.
Unaccounted ==
    {r \in Questions : pc[r] # "idle"
                          /\ told[r] \in {"nothing", "rejected", "broken", "left"}}

\* Every counter of GET /metrics is exact, and the requests counted exceed the
\* outcomes counted by exactly these questions (metrics.py:8-49, main.py:760-1127).
OutcomesCounted ==
    /\ count["asked"] = Cardinality({r \in Asks : pc[r] # "idle"})
    /\ count["streamed"] = Cardinality({r \in Streams : pc[r] # "idle"})
    /\ count["grounded"] = Outcome({"grounded"})
    /\ count["refused"] = Outcome({"refused"})
    /\ count["embedding"] + count["generation"] + count["streaming_generation"]
        = Outcome({"failed"})
    /\ count["asked"] + count["streamed"]
        = count["grounded"] + count["refused"]
          + count["embedding"] + count["generation"] + count["streaming_generation"]
          + Cardinality(Unaccounted)

\* The model of the reranker is loaded once, whatever requests come first and
\* whatever loading fails before.
EncoderBuiltOnce == encoders <= 1

\* Every request that came is answered in the end, though a stream may stop the
\* event loop for the time of a discovery and a request may wait for the encoder.
RequestsEnd == []<>(\A r \in Requests : pc[r] \in {"idle", "done"})
=============================================================================
