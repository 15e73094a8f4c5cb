------------------------------ MODULE ContextText ------------------------------
(***************************************************************************)
(* The text POST /v1/memories/context answers with: a header and the       *)
(* memories found, one entry each, within max_chars.  Of a text only its   *)
(* length is kept; blanks the end may lose are left out, so the text is at *)
(* most this long.                                                         *)
(***************************************************************************)
EXTENDS Integers, Sequences

CONSTANTS
  Header,  \* the length of CONTEXT_PROMPT_HEADER and what follows it
  MinCut   \* an entry is cut only if more than this is left of it

ASSUME ContextTextOK == Header \in Nat \ {0} /\ MinCut \in Nat

\* length: of the text so far; whole: entries put in uncut; open: the loop goes on.
Start == [length |-> Header, whole |-> 0, open |-> TRUE]

\* Mutant: an entry that does not fit is skipped.
AddOrSkip(text, entry, max) ==
  IF text.length + entry <= max
  THEN [text EXCEPT !.length = @ + entry, !.whole = @ + 1] ELSE text

Add(text, entry, max) ==
  IF ~text.open THEN text
  ELSE IF text.length + entry <= max
  THEN [text EXCEPT !.length = @ + entry, !.whole = @ + 1]
  ELSE [text EXCEPT !.length = IF max - @ > MinCut THEN max ELSE @, !.open = FALSE]

Loop(entries, max) ==
  LET text[i \in 0..Len(entries)] ==
        IF i = 0 THEN Start ELSE Add(text[i - 1], entries[i], max)
  IN  text[Len(entries)]

Build(entries, max) ==
  IF entries = <<>> THEN [length |-> 0, whole |-> 0, open |-> TRUE]
  ELSE IF Header >= max THEN [length |-> max, whole |-> 0, open |-> FALSE]
  ELSE Loop(entries, max)

Total(entries, n) == LET sum[i \in 0..Len(entries)] == IF i = 0 THEN Header ELSE sum[i - 1] + entries[i]
                     IN  sum[n]

\* The text never exceeds max_chars; the entries in it are the best ones, whole as
\* long as they fit; and what is left unused when something is left out is too
\* little for an entry (build_context_text, src/aimemory/api/routes.py:1122).
Fits(entries, max) ==
  LET text == Build(entries, max)
  IN  /\ text.length <= max
      /\ \A n \in 0..Len(entries) : n <= text.whole <=> (n = 0 \/ Total(entries, n) <= max)
      /\ text.whole < Len(entries) => text.length >= max - MinCut
=============================================================================
