------------------------------ MODULE QueryTerms ------------------------------
(***************************************************************************)
(* Which words of a question are searched for.  The code works on text;    *)
(* here a question is a sequence of tokens and of a token only what the    *)
(* rules ask about it is kept:                                             *)
(*                                                                         *)
(*   word    an English word of three letters or more that the dictionary  *)
(*           knows, neither technical nor a function word                  *)
(*   poor    any other run of letters                                      *)
(*   digits  a number of one or two digits                                 *)
(*   number  a longer number                                               *)
(*   mixed   letters with digits or underscores                            *)
(*   han     a Chinese segment of two characters or more                   *)
(*   hanWeak such a segment without a meaning of its own                   *)
(*   hanOne  a single Chinese character                                    *)
(*   onDigits, onNumber, onMixed  the same, beginning with a digit and     *)
(*           directly behind Chinese text                                  *)
(*                                                                         *)
(* A term is a window <<i, j>> of the question, or <<i, i + 1, "noun">>: a *)
(* Chinese name with a number at its end, which is one word.               *)
(***************************************************************************)
EXTENDS Integers, Sequences, FiniteSets

CONSTANT MaxPhraseWords    \* MAX_ENGLISH_PHRASE_WORDS

ASSUME QueryTermsOK == MaxPhraseWords \in Nat \ {0, 1}

Han    == {"han", "hanWeak", "hanOne"}
Latin  == {"word", "poor"}
Number == {"digits", "number", "onDigits", "onNumber"}
Short  == {"digits", "onDigits"}
Mixed  == {"mixed", "onMixed"}
OnHan  == {"onDigits", "onNumber", "onMixed"}
Kinds  == Han \cup Latin \cup Number \cup Mixed

Question(s) == \A i \in DOMAIN s : s[i] \in OnHan => i > 1 /\ s[i - 1] \in Han

\* cjk_numeric_proper_nouns: the last segment before a number, with its first two digits.
Nouns(s) == {<<i, i + 1, "noun">> : i \in {i \in 1..(Len(s) - 1) :
  s[i] \in {"han", "hanWeak"} /\ s[i + 1] \in OnHan}}

Singles(s) == {<<i, i>> : i \in DOMAIN s}

\* Runs of plain words and numbers: anything mixed ends one, as does Chinese text.
Runs(s) == {r \in (1..Len(s)) \X (1..Len(s)) :
  /\ r[1] <= r[2]
  /\ \A i \in r[1]..r[2] : s[i] \in Latin \cup Number
  /\ r[1] > 1 => s[r[1] - 1] \notin Latin \cup Number
  /\ r[2] < Len(s) => s[r[2] + 1] \notin Latin \cup Number}

Size(w) == w[2] - w[1] + 1

\* english_phrase_word_reason(word) is None
GoodWord(s, i) == s[i] = "word"

\* is_english_numeric_phrase: words and at the end a short number.
Titled(s, w) == /\ Size(w) \in 2..MaxPhraseWords
                /\ s[w[2]] \in Short
                /\ \A i \in w[1]..(w[2] - 1) : GoodWord(s, i)

Windows(r) == {w \in (r[1]..r[2]) \X (r[1]..r[2]) : Size(w) \in 2..MaxPhraseWords}

\* Mutant: a phrase may begin with a number.
NumbersAnywhere(s) == UNION {{w \in Windows(r) : \A i \in w[1]..w[2] :
                                GoodWord(s, i) \/ s[i] \in Short} : r \in Runs(s)}

\* english_phrases
Phrases(s) == UNION {{w \in Windows(r) : Titled(s, w) \/ \A i \in w[1]..w[2] : GoodWord(s, i)} :
                       r \in Runs(s)}

RawTerms(s) == Nouns(s) \cup Singles(s) \cup Phrases(s)

\* ignored_term_reason, ignored_english_phrase_reason
Reason(s, t) ==
  IF Len(t) = 3 THEN "none"
  ELSE IF Size(t) > 1
  THEN IF Size(t) > MaxPhraseWords THEN "long"
       ELSE IF Titled(s, t) \/ (\A i \in t[1]..t[2] : GoodWord(s, i)) THEN "none"
       ELSE "badWord"
  ELSE CASE s[t[1]] \in Number -> "number"
         [] s[t[1]] = "hanOne"  -> "single"
         [] s[t[1]] = "hanWeak" -> "weak"
         [] s[t[1]] = "han"     -> "none"
         [] s[t[1]] \in Mixed   -> "mixed"
         [] OTHER -> "english"

\* The stopwords are whole terms; a phrase also falls with a single word of it.
WordStopped(t, stops) == Len(t) = 2 /\ Size(t) > 1 /\ \E i \in t[1]..t[2] : <<i, i>> \in stops

\* filter_query_terms: the terms searched for, and those the answer calls ignored;
\* a phrase with a stopword in it is neither.
Effective(s, stops) == {t \in RawTerms(s) :
  ~WordStopped(t, stops) /\ t \notin stops /\ Reason(s, t) = "none"}
Ignored(s, stops) == {t \in RawTerms(s) :
  ~WordStopped(t, stops) /\ (t \in stops \/ Reason(s, t) # "none")}

\* ai_keyword_ignore_reason: a keyword of the model is one term of the question or any
\* window of its English words; QUERY_ANALYSIS_WEAK_TERMS count as stopwords here.
Keywords(s) == RawTerms(s) \cup {w \in (1..Len(s)) \X (1..Len(s)) :
  w[1] <= w[2] /\ \A i \in w[1]..w[2] : s[i] \in Latin \cup Number \cup Mixed}
KeywordAllowed(s, t, stops) == ~WordStopped(t, stops) /\ t \notin stops /\ Reason(s, t) = "none"

-----------------------------------------------------------------------------
\* What is meant, said without runs or reasons: a Chinese word that means
\* something, a Chinese name with a number, or two to four adjacent English words,
\* the last of which may be a short number, without a stopword among them.
Meant(s, t, stops) ==
  /\ t \notin stops
  /\ \/ Len(t) = 3 /\ s[t[1]] \in {"han", "hanWeak"} /\ s[t[2]] \in OnHan
     \/ Len(t) = 2 /\ Size(t) = 1 /\ s[t[1]] = "han"
     \/ /\ Len(t) = 2 /\ Size(t) \in 2..MaxPhraseWords
        /\ \A i \in t[1]..t[2] : <<i, i>> \notin stops
        /\ \A i \in t[1]..(t[2] - 1) : s[i] = "word"
        /\ s[t[2]] \in {"word"} \cup Short

AllTerms(s) == {w \in (1..Len(s)) \X (1..Len(s)) : w[1] <= w[2]}
               \cup {<<i, i + 1, "noun">> : i \in 1..(Len(s) - 1)}

\* The phrases a question offers, the reasons for which a term is ignored and the
\* stopwords agree: searched for is exactly what is meant, no phrase is offered only
\* to be called ignored (english_phrases against ignored_english_phrase_reason,
\* src/aimemory/services/text.py:206), and a keyword of the model meets the same verdict.
Agree(s, stops) ==
  /\ Effective(s, stops) = {t \in AllTerms(s) : Meant(s, t, stops)}
  /\ \A t \in Ignored(s, stops) : t \in stops \/ Size(t) = 1
  /\ \A t \in Keywords(s) : KeywordAllowed(s, t, stops) <=> Meant(s, t, stops)
=============================================================================
