-------------------------- MODULE MCTextAlgorithms --------------------------
(* The algorithms of Local RAG on text, each on inputs of its own: a document  *)
(* that is chunked, a query that is answered from the store, or an answer that *)
(* comes in token by token and is judged.                                     *)
EXTENDS Chunking, Retrieval, Citations

CONSTANTS host, is, earlier, MaxText, MaxAnswer

VARIABLES task, answer

textVars == <<vars, retrievalVars, task, answer>>

\* Form feeds only in the shorter documents.
MCTexts ==
    UNION {[1 .. n -> {"#", "x", " ", "n"}] : n \in 0 .. MaxText}
        \cup UNION {[1 .. n -> {"#", "x", " ", "n", "f"}] : n \in 0 .. MaxText - 2}

MCProfiles ==
    {p \in [distance : {1, 4, 5}, phrase : {"nowhere", "snippet", "metadata", "name"},
            matched : {{}, {host}, {is}, {earlier}, {host, is}, {host, is, earlier}},
            inside : BOOLEAN] :
        \/ p.phrase = "nowhere" /\ p.distance # 4
        \/ p.distance = 4 /\ p.matched = {host, is, earlier} /\ p.inside}

MCScores == {-3, 0, 3}

NoQuery ==
    /\ chunk = [c \in Store |-> CHOOSE p \in Profiles : TRUE]
    /\ limit = Min(Limits)

NoDocument == text = <<>> /\ structured = FALSE

TextInit ==
    /\ \/ task = "chunk" /\ NoQuery
       \/ task = "retrieve" /\ NoDocument
       \/ task = "judge" /\ NoDocument /\ NoQuery
    /\ Init
    /\ RetrievalInit
    /\ answer = <<>>

TextNext ==
    \/ task = "chunk" /\ Next /\ UNCHANGED <<retrievalVars, task, answer>>
    \/ task = "retrieve" /\ RetrievalNext /\ UNCHANGED <<vars, task, answer>>
    \/ /\ task = "judge"
       /\ Len(answer) < MaxAnswer
       /\ \E a \in Atoms : answer' = Append(answer, a)
       /\ UNCHANGED <<vars, retrievalVars, task>>

TextSpec == TextInit /\ [][TextNext]_textVars

\* The verdict on an answer without the word CITATION passes no uncited ASCII word,
\* and without dots in words it refuses no answer that keeps the rules of the
\* prompt and has such a word (confidence.py).
JudgedRight == OnlySupported(answer) /\ CompliantPasses(answer)
=============================================================================
