------------------------------ MODULE Citations ------------------------------
(***************************************************************************)
(* When Local RAG believes an answer (services/local-rag/app/confidence.py,   *)
(* main.py): a model's refusal, the claims an answer makes and the citations   *)
(* that support them.  An answer is a sequence of atoms:                      *)
(*   "word"     a word with an ASCII letter or digit                        *)
(*   "foreign"  a word without any                                            *)
(*   "hedge"    a phrase such as "may be"                                     *)
(*   "cite"     the citation of a chunk that was retrieved                    *)
(*   "ghost"    a citation of anything else                                   *)
(*   "stop"     one of . ! ?              "line"     a new line               *)
(*   "dot"      one of them that ends no sentence, as in v1.2                 *)
(* The code writes the word CITATION where a citation stood, which an answer   *)
(* may contain on its own account:                                            *)
(*   "literal"  that word, by itself                                          *)
(*   "mention"  within brackets or the like                                   *)
(*   "derived"  within a longer word                                          *)
(*                                                                           *)
(* A definition named Wrong... is a plausible bug, used by no action.        *)
(***************************************************************************)
EXTENDS Integers, Sequences, FiniteSetsExt

Cited == {"cite", "ghost"}              \* CITATION_PATTERN
Placed == Cited \cup {"literal"}        \* CITATION behind white space
Counted == Placed \cup {"mention", "derived"}  \* what has CITATION in it
Spoken == {"word", "hedge", "derived"}  \* ASCII letters or digits besides
Stops == {"stop", "dot"}
Separators == Stops \cup {"line"}       \* CLAIM_SEPARATOR

Atoms == Counted \cup Spoken \cup Separators \cup {"foreign"}

\* answer.strip() is not empty.
Blank(answer) == \A i \in DOMAIN answer : answer[i] = "line"

\* is_insufficient_answer: some unsupported phrase occurs.
Hedged(answer) == \E i \in DOMAIN answer : answer[i] = "hedge"

\* The last of the citations behind position i, with only white space between.
CitationsEnd(answer, i) ==
    Max({i} \cup {j \in i + 1 .. Len(answer) :
                     /\ answer[j] \in Placed
                     /\ \A k \in i + 1 .. j : answer[k] \in Placed \cup {"line"}})

\* TRAILING_CITATIONS.sub: where the atom at i goes.  A stop changes places
\* with the citations behind it.
Moved(answer, i) ==
    IF answer[i] \in Stops THEN CitationsEnd(answer, i)
    ELSE IF \E s \in 1 .. i - 1 : answer[s] \in Stops /\ CitationsEnd(answer, s) >= i
    THEN i - 1
    ELSE i

Normalized(answer) ==
    [p \in 1 .. Len(answer) |->
        answer[CHOOSE i \in 1 .. Len(answer) : Moved(answer, i) = p]]

\* The citations stay behind the stop.
WrongClaims(answer) ==
    {span \in {<<a, b>> : a, b \in 1 .. Len(answer)} :
        LET a == span[1]
            b == span[2]
        IN  /\ a <= b
            /\ \A i \in a .. b : answer[i] \notin Separators
            /\ a > 1 => answer[a - 1] \in Separators
            /\ b < Len(answer) => answer[b + 1] \in Separators
            /\ \E i \in a .. b : answer[i] \in Spoken}

\* claim_segments: the positions, first and last, of the segments between
\* separators that say something.
Claims(answer) ==
    LET text == Normalized(answer)
    IN  {span \in {<<a, b>> : a, b \in 1 .. Len(answer)} :
            LET a == span[1]
                b == span[2]
            IN  /\ a <= b
                /\ \A i \in a .. b : text[i] \notin Separators
                /\ a > 1 => text[a - 1] \in Separators
                /\ b < Len(text) => text[b + 1] \in Separators
                /\ \E i \in a .. b : text[i] \in Spoken}

\* assess_citation_completeness: complete.
Complete(answer) ==
    LET text == Normalized(answer)
    IN  /\ \E i \in DOMAIN answer : answer[i] \in Cited
        /\ \A i \in DOMAIN answer : answer[i] # "ghost"
        /\ Claims(answer) # {}
        /\ \A span \in Claims(answer) :
              \E i \in span[1] .. span[2] : text[i] \in Counted

\* What both handlers make of an answer of the model.
Verdict(answer) ==
    CASE Blank(answer) -> "failed"
      [] ~Blank(answer) /\ Hedged(answer) -> "refused"
      [] ~Blank(answer) /\ ~Hedged(answer) /\ ~Complete(answer) -> "refused"
      [] ~Blank(answer) /\ ~Hedged(answer) /\ Complete(answer) -> "grounded"
-----------------------------------------------------------------------------
\* A reader's notions: what is neither a citation nor the end of a sentence says
\* something, and a dot ends nothing.
Said == Atoms \ (Cited \cup Separators)

\* What the code takes for a citation and a reader does not.
Placeholders == {"literal", "mention", "derived"}

\* No other claim and no line begins between the word at i and the citation at j.
Unbroken(answer, i, j) ==
    \A k \in i .. j :
        /\ answer[k] # "line"
        /\ answer[k] = "stop" => \A l \in k .. j : answer[l] \notin Said

InSentence(answer, i, j) ==
    \A k \in (i .. j) \cup (j .. i) : answer[k] \notin {"stop", "line"}

SpeaksFor(answer, i, j) ==
    /\ answer[j] = "cite"
    /\ InSentence(answer, i, j) \/ (i < j /\ Unbroken(answer, i, j))

\* The prompt's "end every sentence with one or more citations" (main.py:555),
\* with at most one . ! or ? before them.
EndsCited(answer, i) ==
    \E j \in i + 1 .. Len(answer) :
        /\ answer[j] = "cite"
        /\ Unbroken(answer, i, j)
        /\ \A k, l \in i .. j : answer[k] = "stop" /\ answer[l] = "stop" => k = l

Has(answer, atoms) == \E i \in DOMAIN answer : answer[i] \in atoms

Honest(answer) == ~Has(answer, {"ghost", "hedge"}) /\ Has(answer, Said)

Compliant(answer) ==
    /\ Honest(answer)
    /\ \A i \in DOMAIN answer : answer[i] \in Said => EndsCited(answer, i)

Supported(answer, i) == \E j \in DOMAIN answer : SpeaksFor(answer, i, j)

CitedThroughout(answer) ==
    /\ Honest(answer)
    /\ \A i \in DOMAIN answer : answer[i] \in Spoken => Supported(answer, i)

\* An answer without the word CITATION is grounded only if it invents no citation,
\* hedges nowhere, and each of its words that has an ASCII letter or digit has a
\* citation that speaks for it (confidence.py:150-174).
OnlySupported(answer) ==
    Verdict(answer) = "grounded" /\ ~Has(answer, Placeholders) => CitedThroughout(answer)

\* An answer that follows the prompt's rules is accepted, unless a dot in a word
\* ends its claim or it has no ASCII letter or digit at all.
CompliantPasses(answer) ==
    Compliant(answer) /\ ~Has(answer, {"dot"}) /\ Has(answer, Spoken)
        => Verdict(answer) = "grounded"
=============================================================================
