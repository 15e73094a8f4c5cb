-------------------------------- MODULE Search --------------------------------
(***************************************************************************)
(* POST /v1/memories/search and /context.  A search asks the model for a   *)
(* category and keywords, or does without, drops the words too common in   *)
(* the category, and looks through the category, then through all titles,  *)
(* then through all texts, until something is found.  Every look is a      *)
(* statement of its own on a READ COMMITTED connection: between any two    *)
(* memories are written, moved and deleted and categories merged or        *)
(* renamed.  Memories are those of the user and agent, a term either is in *)
(* a text or not, and the request's filters (metadata_filter, since and    *)
(* until) either let a text through or not.                                *)
(***************************************************************************)
EXTENDS Integers, FiniteSets

CONSTANTS
  Memories, Categories,
  Uncategorized,  \* UNCATEGORIZED_CATEGORY, one of them
  Texts,          \* what a memory may say: sets of terms by field
  Questions,      \* the sets of terms a question may come down to
  TopK,
  CandidateLimit, \* candidate_limit: how many matching rows are scored
  FrequentAlways, FrequentMin, FrequentPercent,  \* HIGH_FREQUENCY_...
  MaxChanges,     \* bound: what others do meanwhile
  None

Text == [title : SUBSET UNION Questions, content : SUBSET UNION Questions,
         other : SUBSET UNION Questions, fits : BOOLEAN]

ASSUME SearchOK ==
  /\ Texts \subseteq Text /\ Uncategorized \in Categories
  /\ TopK \in Nat \ {0} /\ CandidateLimit \in Nat /\ CandidateLimit >= TopK
  /\ FrequentAlways \in Nat /\ FrequentMin \in Nat
  /\ FrequentMin <= FrequentAlways /\ FrequentPercent \in 0..100 /\ MaxChanges \in Nat
  /\ None \notin Categories \cup Texts /\ IsFiniteSet(Memories)
  /\ \A Q \in Questions : IsFiniteSet(Q)

VARIABLES
  mem,      \* mem[m]: state, category and text
  names,    \* the categories that are found by name
  search,   \* the search under way
  changes,  \* bound: how many changes others have made
  touched   \* history: the memories changed since the search began

vars == <<mem, names, search, changes, touched>>

Begun == [step |-> "idle", mode |-> "off", client |-> None, want |-> None, found |-> FALSE,
          asked |-> {}, terms |-> {}, min |-> 1, stage |-> "none", results |-> {}]

Live(m)  == mem[m].state = "live"
In(c)    == {m \in Memories : Live(m) /\ mem[m].cat = c}
Words(m) == mem[m].text.title \cup mem[m].text.content \cup mem[m].text.other

Init == /\ mem \in [Memories -> {[state |-> "absent", cat |-> None, text |-> None]} \cup
                      [state : {"live"}, cat : Categories, text : Texts]]
        /\ names = Categories
        /\ search = Begun
        /\ changes = 0 /\ touched = {}

-----------------------------------------------------------------------------
(* What others commit while a search is under way; what they did before it is in Init. *)

Change(ms) == /\ search.step \notin {"idle", "done"}
              /\ changes < MaxChanges /\ changes' = changes + 1
              /\ touched' = touched \cup ms
              /\ UNCHANGED search

Write(m, c, t) ==
  /\ mem[m].state # "deleted" /\ c \in names
  /\ mem' = [mem EXCEPT ![m] = [state |-> "live", cat |-> c, text |-> t]]
  /\ Change({m}) /\ UNCHANGED names

Delete(m) ==
  /\ Live(m)
  /\ mem' = [mem EXCEPT ![m].state = "deleted"]
  /\ Change({m}) /\ UNCHANGED names

Merge(c, d) ==
  /\ {c, d} \subseteq names /\ c # d
  /\ mem' = [m \in Memories |-> IF m \in In(c) THEN [mem[m] EXCEPT !.cat = d] ELSE mem[m]]
  /\ names' = names \ {c}
  /\ Change(In(c))

\* The memories stay where they are.
Rename(c) ==
  /\ c \in names /\ names' = names \ {c}
  /\ Change({}) /\ UNCHANGED mem

-----------------------------------------------------------------------------
(* The search *)

Step(s) == /\ search' = s
           /\ UNCHANGED <<mem, names, changes, touched>>

Fallback == IF search.client # None THEN search.client ELSE Uncategorized

\* The local rules leave any of the terms the question may come down to.
Ask(mode, client, Q) ==
  /\ search.step = "idle"
  /\ search' = IF mode = "off"
               THEN [Begun EXCEPT !.step = "resolve", !.asked = Q,
                                  !.want = IF client # None THEN client ELSE Uncategorized]
               ELSE [Begun EXCEPT !.step = "model", !.mode = mode, !.client = client, !.asked = Q]
  /\ touched' = {}
  /\ UNCHANGED <<mem, names, changes>>

\* The model was given the names listed before; it may answer any other, or none.
Chosen(c) == [search EXCEPT !.want = c, !.client = None, !.mode = "off",
                            !.step = IF c = None THEN "done" ELSE "resolve"]

CategoryAnswer(c) == search.step = "model" /\ search.mode = "category" /\ Step(Chosen(c))

\* Asked for both, its keywords replace the terms of the local rules.
Analysed(c, Q) == [Chosen(c) EXCEPT !.asked = Q]

CombinedAnswer(c, Q) == search.step = "model" /\ search.mode = "combined" /\ Step(Analysed(c, Q))

ModelFails ==
  /\ search.step = "model"
  /\ Step([search EXCEPT !.want = Fallback, !.client = None, !.mode = "off",
                         !.step = "resolve"])

Resolve ==
  /\ search.step = "resolve"
  /\ Step(IF search.want \in names THEN [search EXCEPT !.found = TRUE, !.step = "frequent"]
          ELSE [search EXCEPT !.step = "done"])

\* Counted are all memories of the category, also those the filters keep out.
Frequent(t, c) ==
  LET matches == Cardinality({m \in In(c) : t \in Words(m)})
  IN  \/ matches >= FrequentAlways
      \/ matches >= FrequentMin /\ 100 * matches >= FrequentPercent * Cardinality(In(c))

\* The number of terms a memory must have: counted are those that stand in the
\* question as they are, or all if none does.
Required(T) == IF Cardinality(T) <= 1 THEN {1} ELSE {1, 2}

\* "named": numeric proper nouns, which are never too common.
FilterFrequent(named, min) ==
  /\ search.step = "frequent" /\ named \subseteq search.asked
  /\ LET left == {t \in search.asked : t \in named \/ ~Frequent(t, search.want)}
     IN  /\ min \in Required(left)
         /\ Step([search EXCEPT !.terms = left, !.min = min,
                                !.step = IF left = {} THEN "done" ELSE "category"])

\* Scores, in hundredths of a term each: what is known of them before keyword rank,
\* similarity, metadata and age add up to two tenths.
Matching(T, ws) == Cardinality(T \cap ws)
CategoryScore(m, T) ==
  24 * Matching(T, mem[m].text.title) + 24 * Matching(T, Words(m))
    + 18 * Matching(T, mem[m].text.content)
FieldScore(m, T, field) ==
  LET ws == mem[m].text[field]
  IN  24 * Matching(T, ws) + (IF field = "title" THEN 24 ELSE 18) * Matching(T, ws)

SearchFloor  == 12   \* MIN_SEARCH_SCORE
ContentFloor == 18   \* CONTENT_FALLBACK_MIN_SEARCH_SCORE

\* The terms a stage finds in a row: in all it says, or in the one field.
Hits(stage, m) ==
  Matching(search.terms, IF stage = "category" THEN Words(m) ELSE mem[m].text[stage])

\* The rows a stage's WHERE lets through, and those of them sure to reach its score.
May(stage, m) ==
  /\ Live(m) /\ mem[m].text.fits
  /\ stage = "category" => mem[m].cat = search.want
  /\ Hits(stage, m) >= IF stage = "title" THEN 1 ELSE search.min

Sure(stage, m) ==
  LET T == search.terms
      n == Cardinality(T)
  IN  /\ May(stage, m) /\ T # {}
      /\ CASE stage = "category" -> CategoryScore(m, T) >= SearchFloor * n
           [] stage = "title"    -> FieldScore(m, T, "title") >= SearchFloor * n
           [] stage = "content"  -> FieldScore(m, T, "content") >= ContentFloor * n

\* The rows that are scored at all.  They are taken by the terms in the one field, but in the
\* category by keyword rank and likeness to the title first, of which nothing is known here.
Candidates(stage, C) ==
  LET rows == {m \in Memories : May(stage, m)}
  IN  /\ C \subseteq rows /\ Cardinality(C) <= CandidateLimit
      /\ C = rows \/ Cardinality(C) = CandidateLimit
      /\ stage # "category" => \A x \in C, m \in rows \ C : Hits(stage, x) >= Hits(stage, m)

\* Mutant: no LIMIT.
FoundAll(stage, R) == R = {m \in Memories : May(stage, m)}

Found(stage, R) == \E C \in SUBSET Memories :
  /\ Candidates(stage, C)
  /\ R \subseteq C /\ Cardinality(R) <= TopK
  /\ {m \in C : Sure(stage, m)} \subseteq R \/ Cardinality(R) = TopK

Show(stage, next, R) ==
  Step([search EXCEPT !.results = R, !.stage = IF R = {} THEN @ ELSE stage,
                      !.step = IF R = {} THEN next ELSE "done"])
Look(stage, next, R) == search.step = stage /\ Found(stage, R) /\ Show(stage, next, R)

\* Mutant: what only images or metadata say is not looked for.
CategoryByText(R) ==
  /\ search.step = "category"
  /\ R = {m \in Memories : Sure("category", m)
                           /\ search.terms \cap (mem[m].text.title \cup mem[m].text.content) # {}}
  /\ Cardinality(R) <= TopK /\ Show("category", "title", R)

CategoryStage(R) == Look("category", "title", R)

\* Mutant: titles of the category only.
TitleWithinCategory(R) ==
  /\ search.step = "title"
  /\ R = {m \in In(search.want) : Sure("title", m)}
  /\ Cardinality(R) <= TopK /\ Show("title", "content", R)

TitleStage(R) == Look("title", "content", R)

ContentStage(R) == Look("content", "done", R)

Next ==
  \/ \E m \in Memories, c \in Categories, t \in Texts : Write(m, c, t)
  \/ \E m \in Memories : Delete(m)
  \/ \E c, d \in Categories : Merge(c, d)
  \/ \E c \in Categories : Rename(c)
  \/ \E mode \in {"off", "category", "combined"}, client \in Categories \cup {None},
        Q \in Questions : Ask(mode, client, Q)
  \/ \E c \in Categories \cup {None} :
       CategoryAnswer(c) \/ \E Q \in Questions : CombinedAnswer(c, Q)
  \/ ModelFails \/ Resolve
  \/ \E named \in SUBSET search.asked, min \in {1, 2} : FilterFrequent(named, min)
  \/ \E R \in SUBSET Memories : CategoryStage(R) \/ TitleStage(R) \/ ContentStage(R)

Spec == Init /\ [][Next]_vars

-----------------------------------------------------------------------------
Steps == {"idle", "model", "resolve", "frequent", "category", "title", "content", "done"}

TypeOK ==
  /\ mem \in [Memories -> [state : {"absent", "live", "deleted"}, cat : Categories \cup {None},
                           text : Texts \cup {None}]]
  /\ \A m \in Memories : mem[m].state # "absent" => mem[m].cat # None /\ mem[m].text # None
  /\ names \subseteq Categories
  /\ search \in [step : Steps, mode : {"off", "category", "combined"},
                 client : Categories \cup {None}, want : Categories \cup {None},
                 found : BOOLEAN, asked : Questions \cup {{}}, terms : SUBSET search.asked,
                 min : {1, 2}, stage : {"none", "category", "title", "content"},
                 results : SUBSET Memories]
  /\ search.found => search.want # None
  /\ Cardinality(search.results) <= TopK
  /\ changes \in 0..MaxChanges /\ touched \subseteq Memories

Answered  == search.step = "done" /\ search.found
Steady    == {m \in Memories : Live(m) /\ m \notin touched}

\* More memories of the category have had enough of the terms than are scored.
Crowded == Cardinality(touched \cup {m \in Steady : May("category", m)}) > CandidateLimit

\* No memory left alone during the search should have been found at this stage, or there
\* were so many in the category that those which would have counted may not have been scored.
Unseen(stage) == \/ \A m \in Steady : ~Sure(stage, m)
                 \/ stage = "category" /\ Crowded

\* An empty answer means there was nothing to find: no memory left alone during
\* the search has enough of the terms in its title, its text or, unless more of its
\* category match than are scored, anywhere; and if no term was left to look for, the
\* category holds at least HIGH_FREQUENCY_MIN_MATCHES memories, let through by the filters
\* or not, that made them too common, or did a moment ago (the stages of _search_results,
\* src/aimemory/api/routes.py:826, each of which reads a later state of the database).
EmptyIsJustified ==
  (Answered /\ search.results = {} /\ search.asked # {}) =>
    IF search.terms = {}
    THEN Cardinality(touched \cup (Steady \cap In(search.want))) >= FrequentMin
    ELSE \A stage \in {"category", "title", "content"} : Unseen(stage)

\* Memories of other categories are shown only when the category had none, or none among
\* the candidates that were scored, and those found by their text only when no title would
\* do: a memory that was there all the time is not passed over for one of a later stage.
EarlierStagesFirst ==
  Answered => /\ search.stage \in {"title", "content"} => Unseen("category")
              /\ search.stage = "content" => Unseen("title")

-----------------------------------------------------------------------------
(* The inductive invariant behind them (SearchProofs). *)

\* A search looks only in a category it has found, with terms to look for, and shows
\* nothing before it is through.
UnderWay ==
  /\ search.step \in {"idle", "model", "resolve"} => ~search.found
  /\ search.step \in {"idle", "model", "resolve", "frequent"} => search.terms = {}
  /\ search.step \in {"frequent", "category", "title", "content"} => search.found
  /\ search.step \in {"category", "title", "content"} => search.terms # {}
  /\ search.step # "done" => search.results = {} /\ search.stage = "none"

\* A stage is reached only when the ones before had nothing to show.
StageByStage ==
  /\ search.step \in {"title", "content"} => Unseen("category")
  /\ search.step = "content" => Unseen("title")

IInv == TypeOK /\ UnderWay /\ StageByStage /\ EmptyIsJustified /\ EarlierStagesFirst
=============================================================================
