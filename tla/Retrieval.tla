------------------------------ MODULE Retrieval ------------------------------
(***************************************************************************)
(* How Local RAG finds the chunks for a question and whether they are enough   *)
(* evidence for an answer (services/local-rag/app/main.py _retrieve_chunks,    *)
(* retrieval.py, reranker.py, confidence.py): the nearest chunks of the        *)
(* vector store, ordered by a hybrid score, ordered again by the reranker when  *)
(* it works, and the confidence in the first of them.                          *)
(*                                                                           *)
(* Scores are in parts of Unit, so that every quotient below is exact.         *)
(*                                                                           *)
(* A definition named Wrong... is a plausible bug, used by no action.        *)
(***************************************************************************)
EXTENDS Integers, Sequences, FiniteSetsExt, Functions

CONSTANTS
    Store,          \* the ids of the chunks in the store, numbers
    Profiles,       \* what a chunk may be to the query, a set of Profile records
    QuestionTokens, \* the tokens of the question
    EarlierTokens,  \* those of the last two turns of the user before it
    FollowUp,       \* is_follow_up
    Stopwords,      \* STOPWORDS
    MinConfidence,  \* CONFIDENCE_MIN_SCORE, in parts of Unit
    Limits,         \* the limits a request may ask for
    MinCandidates, Multiplier, MaxCandidates,  \* the constants of retrieval.py
    RerankerScores  \* scores of the cross encoder

\* rewrite_retrieval_query: what chunks are looked for and matched with.
QueryTokens == IF FollowUp THEN EarlierTokens \cup QuestionTokens ELSE QuestionTokens

\* distance: of the embeddings; phrase: where the query occurs literally;
\* matched: the tokens of the query it has; inside: its path has the prefix.
Profile == [distance : Nat, phrase : {"nowhere", "snippet", "metadata", "name"},
            matched : SUBSET QueryTokens, inside : BOOLEAN]

ASSUME RetrievalAssumption ==
    /\ Store \subseteq Nat /\ IsFiniteSet(Store)
    /\ IsFiniteSet(QuestionTokens) /\ IsFiniteSet(EarlierTokens)
    /\ FollowUp \in BOOLEAN
    /\ MinConfidence \in Nat
    /\ Profiles \subseteq Profile
    /\ Limits \subseteq Nat \ {0}
    /\ RerankerScores \subseteq Int

VARIABLES
    chunk,    \* the profile of each chunk
    limit,    \* body.limit
    stage,    \* "query", "rerank", "assess" or "done"
    hybrid,   \* the candidates in the order of rerank_candidates
    scores,   \* the score of each candidate, when the reranker was used
    results,  \* the matches
    enough    \* confidence.sufficient

retrievalVars == <<chunk, limit, stage, hybrid, scores, results, enough>>

Unit == 60000

\* candidate_pool_size.
PoolSize == Min({MaxCandidates, Max({MinCandidates, limit * Multiplier}), Cardinality(Store)})

\* The nearest chunks, of which those under path_prefix are kept afterwards.
Pool(P) ==
    /\ P \subseteq Store
    /\ Cardinality(P) = PoolSize
    /\ \A c \in P, d \in Store \ P : chunk[c].distance <= chunk[d].distance

Under(P) == {c \in P : chunk[c].inside}

\* normalize_vector_scores: whatever the distances are, the nearest has 1.
VectorScore(c, C) ==
    LET distances == {chunk[d].distance : d \in C}
        span == Max(distances) - Min(distances)
    IN  IF span = 0 THEN Unit ELSE ((Max(distances) - chunk[c].distance) * Unit) \div span

Coverage(matched, tokens) ==
    IF tokens = {} THEN 0
    ELSE (Cardinality(matched \cap tokens) * Unit) \div Cardinality(tokens)

\* lexical_score.
LexicalScore(c) ==
    Max({(80 * Coverage(chunk[c].matched, QueryTokens)) \div 100,
         CASE chunk[c].phrase = "name" -> Unit
           [] chunk[c].phrase = "snippet" -> (95 * Unit) \div 100
           [] chunk[c].phrase = "metadata" -> (90 * Unit) \div 100
           [] chunk[c].phrase = "nowhere" -> 0})

CombinedScore(c, C) == (45 * VectorScore(c, C) + 55 * LexicalScore(c)) \div 100

\* The order of rerank_candidates; ids stand for paths and lines.
Before(c, d, C) ==
    LET key(e) == <<-CombinedScore(e, C), -LexicalScore(e), chunk[e].distance, e>>
    IN  \E i \in 1 .. 4 :
            /\ key(c)[i] < key(d)[i]
            /\ \A j \in 1 .. i - 1 : key(c)[j] = key(d)[j]

Hybrid(C) ==
    CHOOSE s \in [1 .. Cardinality(C) -> C] :
        \A i, j \in DOMAIN s : i < j => Before(s[i], s[j], C)

First(s) == SubSeq(s, 1, Min({limit, Len(s)}))

RetrievalInit ==
    /\ chunk \in [Store -> Profiles]
    /\ limit \in Limits
    /\ stage = "query"
    /\ hybrid = <<>>
    /\ scores = <<>>
    /\ results = <<>>
    /\ enough = FALSE
-----------------------------------------------------------------------------
\* The store answers, and rerank_candidates orders every match.
Query ==
    /\ stage = "query"
    /\ \E P \in SUBSET Store : Pool(P) /\ hybrid' = Hybrid(Under(P))
    /\ stage' = "rerank"
    /\ UNCHANGED <<chunk, limit, scores, results, enough>>

\* fallback_results: the reranker is disabled, it raises, or it returns another
\* number of scores than it was given candidates.
Fallback ==
    /\ stage = "rerank"
    /\ results' = First(hybrid)
    /\ stage' = "assess"
    /\ UNCHANGED <<chunk, limit, hybrid, scores, enough>>

\* The positions of the sequence C, the best score first.
Ranked(C, s) ==
    CHOOSE order \in [DOMAIN C -> DOMAIN C] :
        \A k, l \in DOMAIN C : k < l =>
            LET i == order[k]
                j == order[l]
            IN  s[i] > s[j] \/ (s[i] = s[j] /\ i < j)

WrongApplyScores ==
    /\ stage = "rerank"
    /\ hybrid # <<>>
    /\ scores' \in [DOMAIN hybrid -> RerankerScores]
    /\ LET order == Ranked(First(hybrid), scores')
       IN  results' = [k \in DOMAIN order |-> hybrid[order[k]]]
    /\ stage' = "assess"
    /\ UNCHANGED <<chunk, limit, hybrid, enough>>

\* apply_scores.
ApplyScores ==
    /\ stage = "rerank"
    /\ hybrid # <<>>
    /\ scores' \in [DOMAIN hybrid -> RerankerScores]
    /\ LET order == Ranked(hybrid, scores')
       IN  results' = First([k \in DOMAIN order |-> hybrid[order[k]]])
    /\ stage' = "assess"
    /\ UNCHANGED <<chunk, limit, hybrid, enough>>

\* sigmoid, rounded, at the scores of the reranker: half at zero.
Sigmoid(score) ==
    IF score = 0 THEN Unit \div 2
    ELSE IF score > 0 THEN Unit - Unit \div 20
    ELSE Unit \div 20

\* The tokens of the question that count for the coverage: no stopwords, unless all are.
SignificantTokens ==
    IF QuestionTokens \subseteq Stopwords THEN QuestionTokens ELSE QuestionTokens \ Stopwords

WrongConfidence(relevance, coverage) == relevance + (2 * coverage) \div 10

Confidence(relevance, coverage) == (8 * relevance) \div 10 + (2 * coverage) \div 10

\* assess_retrieval_confidence looks at the first result alone.
AssessConfidence ==
    /\ stage = "assess"
    /\ enough' =
        (results # <<>> /\
            LET top == Head(results)
                relevance == IF scores = <<>> THEN CombinedScore(top, Range(hybrid))
                             ELSE Sigmoid(scores[CHOOSE i \in DOMAIN hybrid : hybrid[i] = top])
                coverage == Coverage(chunk[top].matched, SignificantTokens)
            IN  Confidence(relevance, coverage) >= MinConfidence)
    /\ stage' = "done"
    /\ UNCHANGED <<chunk, limit, hybrid, scores, results>>

RetrievalNext == Query \/ Fallback \/ ApplyScores \/ AssessConfidence
-----------------------------------------------------------------------------
Score(c) == scores[CHOOSE i \in DOMAIN hybrid : hybrid[i] = c]

\* The reranker sees every match, and what it leaves out of the answer is no
\* better than what it keeps; when it fails, the answer is the hybrid order's.
\* Either way no place of the limit stays empty while there is a match.
BestKept ==
    stage \in {"assess", "done"} =>
        LET kept == Range(results)
        IN  /\ Cardinality(kept) = Min({limit, Len(hybrid)})
            /\ \A c \in kept, d \in Range(hybrid) \ kept :
                  IF scores # <<>> THEN Score(c) >= Score(d)
                  ELSE CombinedScore(c, Range(hybrid)) >= CombinedScore(d, Range(hybrid))

\* Nearness alone is no evidence: the nearest chunk has a vector score of 1 however far
\* it is, and yet a question is refused when no word of its query, for a follow-up the
\* user's last turns included, occurs in the first chunk, unless the reranker finds that
\* chunk relevant.  With CONFIDENCE_MIN_SCORE at 0.40 or below this is not so.
EvidenceNeeded ==
    stage = "done" /\ enough /\ MinConfidence > (40 * Unit) \div 100 =>
        LET top == Head(results)
        IN  \/ chunk[top].matched # {} \/ chunk[top].phrase # "nowhere"
            \/ scores # <<>> /\ Score(top) > 0
=============================================================================
