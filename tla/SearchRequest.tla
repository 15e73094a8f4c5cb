----------------------------- MODULE SearchRequest -----------------------------
(* A search with the words it takes from its question and the text it may be     *)
(* answered with.  Neither depends on the tables: what is said of them is said   *)
(* once, before the search is begun and with no memory there.                    *)
EXTENDS Search, QueryTerms, ContextText

CONSTANTS
  MaxTokens,            \* bound: the tokens of a question
  MaxEntries, MaxEntry, \* bounds: the entries of a context and the length of one
  MaxChars              \* bound: the max_chars a context is asked for with

ASSUME SearchRequestOK == /\ MaxTokens \in Nat /\ MaxEntries \in Nat
                          /\ MaxEntry \in Nat /\ MaxChars \in Nat

Untouched == search = Begun /\ changes = 0 /\ \A m \in Memories : ~Live(m)

QuestionsOfTokens == UNION {{s \in [1..n -> Kinds] : Question(s)} : n \in 1..MaxTokens}

\* What is searched for is what is meant, for every question and any one stopword
\* (query_terms and filter_query_terms, src/aimemory/services/text.py).
TermsAgree ==
  Untouched => \A s \in QuestionsOfTokens : \A stops \in {{}} \cup {{t} : t \in AllTerms(s)} :
                 Agree(s, stops)

\* The context is within its limit and uses it, whatever its entries are
\* (build_context_text, src/aimemory/api/routes.py).
ContextFits ==
  Untouched => \A max \in 1..MaxChars, n \in 0..MaxEntries :
                 \A entries \in [1..n -> 1..MaxEntry] : Fits(entries, max)
=============================================================================
