----------------------------- MODULE SearchProofs -----------------------------
(***************************************************************************)
(* Proofs about Search, for any memories, categories, texts and questions, *)
(* any limits and any number of changes that others make meanwhile.  What  *)
(* a stage reads is gone when the next one reads; what is kept is that a   *)
(* memory nobody has touched is as every stage has seen it.                *)
(***************************************************************************)
EXTENDS SearchRequest, FiniteSetTheorems, WellFoundedInduction, TLAPS

Stages == {"category", "title", "content"}

\* The types of the database, and of the search.
MemOK    == /\ mem \in [Memories -> [state : {"absent", "live", "deleted"},
                                     cat : Categories \cup {None}, text : Texts \cup {None}]]
            /\ \A m \in Memories : mem[m].state # "absent" => mem[m].cat # None /\ mem[m].text # None
            /\ names \subseteq Categories
            /\ changes \in 0..MaxChanges /\ touched \subseteq Memories
SearchRec == [step : Steps, mode : {"off", "category", "combined"},
              client : Categories \cup {None}, want : Categories \cup {None},
              found : BOOLEAN, asked : Questions \cup {{}}, terms : SUBSET search.asked,
              min : {1, 2}, stage : {"none", "category", "title", "content"},
              results : SUBSET Memories]
RecOK    == /\ search \in SearchRec
            /\ search.found => search.want # None
            /\ Cardinality(search.results) <= TopK

\* The two parts together are the type invariant.
LEMMA Types == TypeOK <=> MemOK /\ RecOK
  BY DEF TypeOK, MemOK, RecOK, SearchRec

\* Nothing found is never too much.
LEMMA NothingFits == Cardinality({}) = 0 /\ Cardinality({}) <= TopK /\ Cardinality({}) # TopK
  BY SearchOK, FS_EmptySet

-----------------------------------------------------------------------------
(* What a stage must find *)

\* A memory that is as it was, for the same search, may or must be found as it was.
LEMMA SureSame ==
  ASSUME NEW stage \in Stages, NEW m \in Memories, mem'[m] = mem[m],
         search'.terms = search.terms, search'.want = search.want, search'.min = search.min
  PROVE  /\ May(stage, m)' <=> May(stage, m)
         /\ Sure(stage, m)' <=> Sure(stage, m)
  <1>1. /\ Live(m)' <=> Live(m)
        /\ Words(m)' = Words(m)
    BY DEF Live, Words
  <1>2. /\ CategoryScore(m, search.terms)' = CategoryScore(m, search.terms)
        /\ FieldScore(m, search.terms, "title")' = FieldScore(m, search.terms, "title")
        /\ FieldScore(m, search.terms, "content")' = FieldScore(m, search.terms, "content")
    BY <1>1 DEF CategoryScore, FieldScore, Matching
  <1>3. Hits(stage, m)' = Hits(stage, m)
    BY <1>1 DEF Hits, Matching
  <1>4. May(stage, m)' <=> May(stage, m)
    BY <1>1, <1>3 DEF May
  <1>5. CASE stage = "category"
    BY <1>2, <1>4, <1>5 DEF Sure
  <1>6. CASE stage = "title"
    BY <1>2, <1>4, <1>6 DEF Sure
  <1>7. CASE stage = "content"
    BY <1>2, <1>4, <1>7 DEF Sure
  <1>8. QED
    BY <1>4, <1>5, <1>6, <1>7 DEF Stages

\* A crowd stays one, as long as the memories that change are noted.
LEMMA CrowdedSame ==
  ASSUME Crowded, NEW ms, touched' = touched \cup ms, touched' \subseteq Memories,
         \A m \in Memories \ ms : mem'[m] = mem[m],
         search'.terms = search.terms, search'.want = search.want, search'.min = search.min
  PROVE  Crowded'
  <1> DEFINE U == touched \cup {m \in Steady : May("category", m)}
  <1>1. /\ U \subseteq U'
        /\ U' \subseteq Memories
    <2>1. ASSUME NEW m \in Steady, May("category", m), m \notin ms
          PROVE  m \in Steady' /\ May("category", m)'
      BY <2>1, SureSame DEF Steady, Live, Stages
    <2>2. QED
      BY <2>1 DEF Steady
  <1>2. IsFiniteSet(U') /\ IsFiniteSet(U)
    BY <1>1, SearchOK, FS_Subset
  <1>3. /\ Cardinality(U) <= Cardinality(U')
        /\ Cardinality(U) \in Nat /\ Cardinality(U') \in Nat
    BY <1>1, <1>2, FS_Subset, FS_CardinalityType
  <1>4. Cardinality(U) > CandidateLimit
    BY DEF Crowded
  <1> HIDE DEF U
  <1>5. Cardinality(U') > CandidateLimit
    BY <1>3, <1>4, SearchOK
  <1>6. QED
    BY <1>5 DEF Crowded, U

\* What nobody need have seen stays so, as long as the memories that change are noted.
LEMMA UnseenSame ==
  ASSUME NEW stage \in Stages, Unseen(stage), NEW ms, touched' = touched \cup ms,
         touched' \subseteq Memories, \A m \in Memories \ ms : mem'[m] = mem[m],
         search'.terms = search.terms, search'.want = search.want, search'.min = search.min
  PROVE  Unseen(stage)'
  <1>1. CASE stage = "category" /\ Crowded
    BY <1>1, CrowdedSame DEF Unseen
  <1>2. CASE ~(stage = "category" /\ Crowded)
    <2> SUFFICES ASSUME NEW m \in Steady' PROVE ~Sure(stage, m)'
      BY DEF Unseen
    <2>1. m \in Memories /\ m \notin ms /\ m \notin touched /\ Live(m)'
      BY DEF Steady
    <2>2. mem'[m] = mem[m]
      BY <2>1
    <2>3. m \in Steady
      BY <2>1, <2>2 DEF Steady, Live
    <2>4. ~Sure(stage, m)
      BY <1>2, <2>3 DEF Unseen
    <2>5. QED
      BY <2>1, <2>2, <2>4, SureSame
  <1>3. QED
    BY <1>1, <1>2

\* What matches the one field no worse reaches the score as well.
LEMMA NoWorse ==
  ASSUME NEW stage \in {"title", "content"}, NEW x, NEW m, IsFiniteSet(search.terms),
         Sure(stage, m), May(stage, x), Hits(stage, x) >= Hits(stage, m)
  PROVE  Sure(stage, x)
  <1> DEFINE h(y) == Hits(stage, y)
             n == Cardinality(search.terms)
  <1>1. h(x) \in Nat /\ h(m) \in Nat /\ n \in Nat
    BY FS_Intersection, FS_CardinalityType DEF Hits, Matching
  <1>2. CASE stage = "title"
    <2>1. \A y : FieldScore(y, search.terms, "title") = 24 * h(y) + 24 * h(y)
      BY <1>2 DEF FieldScore, Hits
    <2> HIDE DEF h, n
    <2>2. 24 * h(m) + 24 * h(m) >= SearchFloor * n
      BY <1>2, <2>1 DEF Sure, n
    <2>3. 24 * h(x) + 24 * h(x) >= SearchFloor * n
      BY <1>1, <2>2 DEF h, SearchFloor
    <2>4. QED
      BY <1>2, <2>1, <2>3 DEF Sure, n
  <1>3. CASE stage = "content"
    <2>1. \A y : FieldScore(y, search.terms, "content") = 24 * h(y) + 18 * h(y)
      BY <1>3 DEF FieldScore, Hits
    <2> HIDE DEF h, n
    <2>2. 24 * h(m) + 18 * h(m) >= ContentFloor * n
      BY <1>3, <2>1 DEF Sure, n
    <2>3. 24 * h(x) + 18 * h(x) >= ContentFloor * n
      BY <1>1, <2>2 DEF h, ContentFloor
    <2>4. QED
      BY <1>3, <2>1, <2>3 DEF Sure, n
  <1>4. QED
    BY <1>2, <1>3

\* A stage that shows nothing should have found nothing, or its candidates were not all.
LEMMA NothingMissed ==
  ASSUME NEW stage \in Stages, Found(stage, {}), touched \subseteq Memories,
         IsFiniteSet(search.terms)
  PROVE  Unseen(stage)
  <1> SUFFICES ASSUME NEW m \in Steady, Sure(stage, m)
               PROVE  stage = "category" /\ Crowded
    BY DEF Unseen
  <1>1. PICK C \in SUBSET Memories : /\ Candidates(stage, C)
                                     /\ \A x \in C : ~Sure(stage, x)
    BY NothingFits DEF Found
  <1>2. m \in Memories /\ m \notin C /\ May(stage, m)
    BY <1>1 DEF Steady, Sure
  <1>3. Cardinality(C) = CandidateLimit /\ \A x \in C : May(stage, x)
    BY <1>1, <1>2 DEF Candidates
  <1>4. CASE stage \in {"title", "content"}
    <2>1. PICK x \in C : TRUE
      <3>1. C # {}
        BY <1>3, SearchOK, NothingFits
      <3>2. QED
        BY <3>1
    <2>2. Hits(stage, x) >= Hits(stage, m)
      BY <1>1, <1>2, <1>4 DEF Candidates
    <2>3. Sure(stage, x)
      BY <1>3, <1>4, <2>1, <2>2, NoWorse
    <2>4. QED
      BY <1>1, <2>3
  <1>5. CASE stage = "category"
    <2> DEFINE U == touched \cup {x \in Steady : May("category", x)}
    <2>1. C \cup {m} \subseteq U /\ U \subseteq Memories
      <3>1. \A x \in C : x \in touched \/ x \in Steady
        BY <1>3 DEF May, Steady
      <3>2. QED
        BY <1>2, <1>3, <1>5, <3>1 DEF Steady
    <2>2. IsFiniteSet(U) /\ IsFiniteSet(C) /\ IsFiniteSet(C \cup {m})
      BY <2>1, SearchOK, FS_Subset
    <2>3. Cardinality(C \cup {m}) = Cardinality(C) + 1
      BY <1>2, <2>2, FS_AddElement
    <2>4. Cardinality(C \cup {m}) <= Cardinality(U) /\ Cardinality(U) \in Nat
      BY <2>1, <2>2, FS_Subset, FS_CardinalityType
    <2> HIDE DEF U
    <2>5. Cardinality(U) > CandidateLimit
      BY <1>3, <2>3, <2>4, SearchOK
    <2>6. QED
      BY <1>5, <2>5 DEF Crowded, U
  <1>6. QED
    BY <1>4, <1>5 DEF Stages

\* In a category of which every term is too common there are memories enough.
LEMMA TooCommon ==
  ASSUME NEW t, NEW c, Frequent(t, c), touched \subseteq Memories
  PROVE  Cardinality(touched \cup (Steady \cap In(c))) >= FrequentMin
  <1> DEFINE S == {m \in In(c) : t \in Words(m)}
             U == touched \cup (Steady \cap In(c))
  <1>1. S \subseteq U /\ U \subseteq Memories
    BY DEF In, Steady
  <1>2. IsFiniteSet(U) /\ IsFiniteSet(S)
    BY <1>1, SearchOK, FS_Subset
  <1>3. Cardinality(S) <= Cardinality(U) /\ Cardinality(S) \in Nat /\ Cardinality(U) \in Nat
    BY <1>1, <1>2, FS_Subset, FS_CardinalityType
  <1>4. Cardinality(S) >= FrequentAlways \/ Cardinality(S) >= FrequentMin
    BY DEF Frequent
  <1> HIDE DEF S, U
  <1>5. Cardinality(U) >= FrequentMin
    BY <1>3, <1>4, SearchOK
  <1>6. QED
    BY <1>5 DEF U

-----------------------------------------------------------------------------
(* The others *)

\* Whatever others commit: the search goes on as it was.
LEMMA OthersStep ==
  ASSUME IInv, NEW ms \in SUBSET Memories, Change(ms), MemOK',
         \A m \in Memories \ ms : mem'[m] = mem[m]
  PROVE  IInv'
  <1>1. search' = search /\ search.step # "done" /\ touched' = touched \cup ms
    BY DEF Change
  <1>2. RecOK'
    BY <1>1, Types DEF IInv, RecOK, SearchRec
  <1>3. TypeOK'
    BY <1>2 DEF TypeOK, MemOK, RecOK, SearchRec
  <1>4. UnderWay'
    BY <1>1 DEF IInv, UnderWay
  <1>5. StageByStage'
    <2>1. \A stage \in Stages : Unseen(stage) => Unseen(stage)'
      BY <1>1, UnseenSame DEF MemOK
    <2>2. QED
      BY <1>1, <2>1 DEF IInv, StageByStage, Stages
  <1>6. EmptyIsJustified' /\ EarlierStagesFirst'
    BY <1>1 DEF EmptyIsJustified, EarlierStagesFirst, Answered
  <1>7. QED
    BY <1>3, <1>4, <1>5, <1>6 DEF IInv

\* A memory is written or deleted, a category merged or renamed.
LEMMA Others ==
  ASSUME IInv,
         \/ \E m \in Memories, c \in Categories, t \in Texts : Write(m, c, t)
         \/ \E m \in Memories : Delete(m)
         \/ \E c, d \in Categories : Merge(c, d)
         \/ \E c \in Categories : Rename(c)
  PROVE  IInv'
  <1>1. MemOK
    BY Types DEF IInv
  <1>2. \A ms \in SUBSET Memories :
          Change(ms) => changes' \in 0..MaxChanges /\ touched' \subseteq Memories
    BY <1>1, SearchOK DEF Change, MemOK
  <1>3. None \notin Categories /\ None \notin Texts
    BY SearchOK
  <1>4. ASSUME NEW m \in Memories, NEW c \in Categories, NEW t \in Texts, Write(m, c, t)
        PROVE  IInv'
    <2>1. /\ mem' = [mem EXCEPT ![m] = [state |-> "live", cat |-> c, text |-> t]]
          /\ names' = names /\ Change({m})
      BY <1>4 DEF Write
    <2>2. MemOK'
      BY <1>1, <1>2, <1>3, <2>1 DEF MemOK
    <2>3. \A r \in Memories \ {m} : mem'[r] = mem[r]
      BY <1>1, <2>1 DEF MemOK
    <2>4. QED
      BY <2>1, <2>2, <2>3, OthersStep
  <1>5. ASSUME NEW m \in Memories, Delete(m)
        PROVE  IInv'
    <2>1. /\ mem' = [mem EXCEPT ![m].state = "deleted"] /\ mem[m].state = "live"
          /\ names' = names /\ Change({m})
      BY <1>5 DEF Delete, Live
    <2>2. MemOK'
      BY <1>1, <1>2, <2>1 DEF MemOK
    <2>3. \A r \in Memories \ {m} : mem'[r] = mem[r]
      BY <1>1, <2>1 DEF MemOK
    <2>4. QED
      BY <2>1, <2>2, <2>3, OthersStep
  <1>6. ASSUME NEW c \in Categories, NEW d \in Categories, Merge(c, d)
        PROVE  IInv'
    <2>1. /\ mem' = [m \in Memories |-> IF m \in In(c) THEN [mem[m] EXCEPT !.cat = d] ELSE mem[m]]
          /\ names' = names \ {c} /\ Change(In(c)) /\ In(c) \in SUBSET Memories
      BY <1>6 DEF Merge, In
    <2>2. MemOK'
      <3>1. mem' \in [Memories -> [state : {"absent", "live", "deleted"},
                                   cat : Categories \cup {None}, text : Texts \cup {None}]]
        BY <1>1, <2>1 DEF MemOK
      <3>2. \A m \in Memories : mem'[m].state # "absent" =>
                                  mem'[m].cat # None /\ mem'[m].text # None
        BY <1>1, <1>3, <2>1 DEF MemOK
      <3>3. QED
        BY <1>1, <1>2, <2>1, <3>1, <3>2 DEF MemOK
    <2>3. \A r \in Memories \ In(c) : mem'[r] = mem[r]
      BY <2>1
    <2>4. QED
      BY <2>1, <2>2, <2>3, OthersStep
  <1>7. ASSUME NEW c \in Categories, Rename(c)
        PROVE  IInv'
    <2>1. mem' = mem /\ names' = names \ {c} /\ Change({}) /\ {} \in SUBSET Memories
      BY <1>7 DEF Rename
    <2>2. MemOK'
      BY <1>1, <1>2, <2>1 DEF MemOK
    <2>3. QED
      BY <2>1, <2>2, OthersStep
  <1>8. QED
    BY <1>4, <1>5, <1>6, <1>7

-----------------------------------------------------------------------------
(* The search *)

\* A step of the search leaves the database to the others.
LEMMA SameDatabase ==
  ASSUME MemOK, UNCHANGED <<mem, names, changes, touched>>
  PROVE  MemOK' /\ Steady' = Steady /\ \A c : In(c)' = In(c)
  BY DEF MemOK, Steady, In, Live

\* Before a stage has looked, and when there is no category to look in, nothing is claimed yet.
LEMMA NothingClaimed ==
  ASSUME MemOK', RecOK', UnderWay', search'.step \notin {"title", "content"},
         search'.step = "done" => ~search'.found
  PROVE  IInv'
  <1>1. TypeOK'
    BY DEF TypeOK, MemOK, RecOK, SearchRec
  <1>2. StageByStage' /\ EmptyIsJustified' /\ EarlierStagesFirst'
    BY DEF StageByStage, EmptyIsJustified, EarlierStagesFirst, Answered
  <1>3. QED
    BY <1>1, <1>2 DEF IInv

\* A search that has not found its category yet.
Early == [step : Steps, mode : {"off", "category", "combined"},
          client : Categories \cup {None}, want : Categories \cup {None},
          found : {FALSE}, asked : Questions \cup {{}}, terms : {{}},
          min : {1, 2}, stage : {"none"}, results : {{}}]

\* It has nothing to keep but its type.
LEMMA StillEarly ==
  ASSUME MemOK', search' \in Early, search'.step \in {"model", "resolve", "done"}
  PROVE  IInv'
  <1>1. /\ search' \in SearchRec' /\ search'.results = {} /\ ~search'.found
        /\ search'.terms = {} /\ search'.stage = "none"
    BY DEF Early, SearchRec
  <1>2. RecOK'
    BY <1>1, NothingFits DEF RecOK
  <1>3. UnderWay'
    BY <1>1 DEF UnderWay
  <1>4. QED
    BY <1>1, <1>2, <1>3, NothingClaimed

\* A search is begun.
LEMMA AskStep ==
  ASSUME IInv, NEW mode \in {"off", "category", "combined"}, NEW client \in Categories \cup {None},
         NEW Q \in Questions, Ask(mode, client, Q)
  PROVE  IInv'
  <1>1. MemOK'
    BY Types DEF IInv, Ask, MemOK
  <1>2. search' \in Early /\ search'.step \in {"model", "resolve"}
    <2>1. CASE mode = "off"
      BY <2>1, SearchOK DEF Ask, Begun, Steps, Early
    <2>2. CASE mode # "off"
      BY <2>2 DEF Ask, Begun, Steps, Early
    <2>3. QED
      BY <2>1, <2>2
  <1>3. QED
    BY <1>1, <1>2, StillEarly

\* A search that waits for the model, or for its category, has found nothing yet.
LEMMA EarlySearch ==
  ASSUME IInv, search.step \in {"model", "resolve"}
  PROVE  search \in Early /\ MemOK
  BY Types DEF IInv, RecOK, UnderWay, SearchRec, Early

\* The model answers or fails: there is a name to look for, or none.
LEMMA ModelStep ==
  ASSUME IInv,
         \/ \E c \in Categories \cup {None} :
              CategoryAnswer(c) \/ \E Q \in Questions : CombinedAnswer(c, Q)
         \/ ModelFails
  PROVE  IInv'
  <1>1. /\ search.step = "model" /\ UNCHANGED <<mem, names, changes, touched>>
    BY DEF CategoryAnswer, CombinedAnswer, ModelFails, Step
  <1>2. search \in Early /\ MemOK /\ MemOK'
    BY <1>1, EarlySearch, SameDatabase
  <1>3. search' \in Early /\ search'.step \in {"resolve", "done"}
    <2>1. ASSUME NEW c \in Categories \cup {None}, CategoryAnswer(c)
          PROVE  search' \in Early /\ search'.step \in {"resolve", "done"}
      BY <1>2, <2>1 DEF CategoryAnswer, Step, Chosen, Early, Steps
    <2>2. ASSUME NEW c \in Categories \cup {None}, NEW Q \in Questions, CombinedAnswer(c, Q)
          PROVE  search' \in Early /\ search'.step \in {"resolve", "done"}
      BY <1>2, <2>2 DEF CombinedAnswer, Step, Analysed, Chosen, Early, Steps
    <2>3. ASSUME ModelFails
          PROVE  search' \in Early /\ search'.step \in {"resolve", "done"}
      <3>1. Fallback \in Categories \cup {None}
        BY <1>2, SearchOK DEF Fallback, Early
      <3>2. QED
        BY <1>2, <2>3, <3>1 DEF ModelFails, Step, Early, Steps
    <2>4. QED
      BY <2>1, <2>2, <2>3
  <1>4. QED
    BY <1>2, <1>3, StillEarly

\* The category is looked up by name.
LEMMA ResolveStep ==
  ASSUME IInv, Resolve
  PROVE  IInv'
  <1>1. search.step = "resolve" /\ UNCHANGED <<mem, names, changes, touched>>
    BY DEF Resolve, Step
  <1>2. search \in Early /\ MemOK /\ MemOK'
    BY <1>1, EarlySearch, SameDatabase
  <1>3. CASE search.want \in names
    <2>1. search' = [search EXCEPT !.found = TRUE, !.step = "frequent"]
      BY <1>3 DEF Resolve, Step
    <2>2. /\ search' \in SearchRec' /\ search'.found /\ search'.step = "frequent"
          /\ search'.want = search.want /\ search'.terms = {} /\ search'.results = {}
          /\ search'.stage = "none"
      BY <1>2, <2>1 DEF Early, SearchRec, Steps
    <2>3. RecOK'
      BY <1>2, <1>3, <2>2, NothingFits, SearchOK DEF RecOK, MemOK
    <2>4. UnderWay'
      BY <2>2 DEF UnderWay
    <2>5. QED
      BY <1>2, <2>2, <2>3, <2>4, NothingClaimed
  <1>4. CASE search.want \notin names
    <2>1. search' = [search EXCEPT !.step = "done"]
      BY <1>4 DEF Resolve, Step
    <2>2. search' \in Early /\ search'.step = "done"
      BY <1>2, <2>1 DEF Early, Steps
    <2>3. QED
      BY <1>2, <2>2, StillEarly
  <1>5. QED
    BY <1>3, <1>4

\* The words too common in the category are dropped: if none is left, the search is over.
LEMMA FilterStep ==
  ASSUME IInv, NEW named \in SUBSET search.asked, NEW min \in {1, 2}, FilterFrequent(named, min)
  PROVE  IInv'
  <1> DEFINE left == {t \in search.asked : t \in named \/ ~Frequent(t, search.want)}
  <1>1. /\ search.step = "frequent" /\ UNCHANGED <<mem, names, changes, touched>>
        /\ search' = [search EXCEPT !.terms = left, !.min = min,
                                    !.step = IF left = {} THEN "done" ELSE "category"]
    BY DEF FilterFrequent, Step
  <1>2. MemOK /\ MemOK' /\ search \in SearchRec /\ RecOK /\ Steady' = Steady
        /\ \A c : In(c)' = In(c)
    BY <1>1, Types, SameDatabase DEF IInv, RecOK
  <1>3. search.found /\ search.results = {} /\ search.stage = "none"
    BY <1>1 DEF IInv, UnderWay
  <1>4. left \in SUBSET search.asked
    OBVIOUS
  <1> HIDE DEF left
  <1>5. /\ search' \in SearchRec'
        /\ search'.found /\ search'.results = {} /\ search'.stage = "none"
        /\ search'.terms = left /\ search'.want = search.want /\ search'.asked = search.asked
        /\ search'.step = IF left = {} THEN "done" ELSE "category"
    BY <1>1, <1>2, <1>3, <1>4 DEF SearchRec, Steps
  <1>6. RecOK'
    BY <1>2, <1>3, <1>5, NothingFits DEF RecOK
  <1>7. UnderWay'
    BY <1>5 DEF UnderWay
  <1>8. CASE left # {}
    BY <1>2, <1>5, <1>6, <1>7, <1>8, NothingClaimed
  <1>9. CASE left = {}
    <2>1. TypeOK'
      BY <1>2, <1>6 DEF TypeOK, MemOK, RecOK, SearchRec
    <2>2. ASSUME search.asked # {}
          PROVE  Cardinality(touched \cup (Steady \cap In(search.want))) >= FrequentMin
      <3>1. PICK t \in search.asked : Frequent(t, search.want)
        BY <1>9, <2>2 DEF left
      <3>2. QED
        BY <1>2, <3>1, TooCommon DEF MemOK
    <2>3. EmptyIsJustified'
      <3>1. (touched \cup (Steady \cap In(search.want)))' = touched \cup (Steady \cap In(search.want))
        <4>1. In(search.want)' = In(search.want)
          BY <1>1, <1>5 DEF In, Live
        <4>2. QED
          BY <1>1, <1>2, <4>1
      <3>2. QED
        BY <1>5, <1>9, <2>2, <3>1 DEF EmptyIsJustified
    <2>4. EarlierStagesFirst' /\ StageByStage'
      BY <1>5, <1>9 DEF EarlierStagesFirst, StageByStage
    <2>5. QED
      BY <1>7, <2>1, <2>3, <2>4 DEF IInv
  <1>10. QED
    BY <1>8, <1>9

\* A stage is looked through.
LEMMA LookStep ==
  ASSUME IInv, NEW R \in SUBSET Memories,
         CategoryStage(R) \/ TitleStage(R) \/ ContentStage(R)
  PROVE  IInv'
  <1>1. PICK stage \in Stages, next \in {"title", "content", "done"} :
          /\ Look(stage, next, R)
          /\ stage = "category" => next = "title"
          /\ stage = "title" => next = "content"
          /\ stage = "content" => next = "done"
    BY DEF CategoryStage, TitleStage, ContentStage, Stages
  <1>2. /\ search.step = stage /\ Found(stage, R) /\ UNCHANGED <<mem, names, changes, touched>>
        /\ search' = [search EXCEPT !.results = R, !.stage = IF R = {} THEN @ ELSE stage,
                                    !.step = IF R = {} THEN next ELSE "done"]
    BY <1>1 DEF Look, Show, Step
  <1>3. MemOK /\ MemOK' /\ search \in SearchRec /\ RecOK /\ Steady' = Steady
    BY <1>2, Types, SameDatabase DEF IInv, RecOK
  <1>4. search.found /\ search.terms # {} /\ search.stage = "none"
    BY <1>2 DEF IInv, UnderWay, Stages
  <1>5. /\ search' \in SearchRec' /\ search'.found = search.found
        /\ search'.terms = search.terms /\ search'.want = search.want
        /\ search'.min = search.min /\ search'.results = R
        /\ search'.stage = IF R = {} THEN "none" ELSE stage
        /\ search'.step = IF R = {} THEN next ELSE "done"
    BY <1>2, <1>3, <1>4 DEF SearchRec, Steps, Stages
  <1>6. TypeOK'
    <2>1. RecOK'
      BY <1>2, <1>3, <1>5 DEF RecOK, Found
    <2>2. QED
      BY <1>3, <2>1 DEF TypeOK, MemOK, RecOK, SearchRec
  <1>7. UnderWay'
    BY <1>4, <1>5 DEF UnderWay
  <1>8. \A s \in Stages : Unseen(s) => Unseen(s)'
    <2>1. touched' = touched \cup {} /\ \A m \in Memories \ {} : mem'[m] = mem[m]
      BY <1>2
    <2>2. QED
      BY <1>3, <1>5, <2>1, UnseenSame DEF MemOK
  <1>9. /\ stage \in {"title", "content"} => Unseen("category")'
        /\ stage = "content" => Unseen("title")'
    BY <1>2, <1>8 DEF IInv, StageByStage, Stages
  <1>10. R = {} => Unseen(stage)'
    <2>1. IsFiniteSet(search.terms)
      <3>1. IsFiniteSet(search.asked)
        BY <1>3, SearchOK, FS_EmptySet DEF SearchRec
      <3>2. QED
        BY <1>3, <3>1, FS_Subset DEF SearchRec
    <2>2. QED
      BY <1>2, <1>3, <1>8, <2>1, NothingMissed DEF MemOK
  <1>11. StageByStage'
    BY <1>1, <1>5, <1>9, <1>10 DEF StageByStage, Stages
  <1>12. EarlierStagesFirst'
    BY <1>5, <1>9 DEF EarlierStagesFirst
  <1>13. EmptyIsJustified'
    <2>1. ASSUME search'.step = "done", R = {}
          PROVE  \A s \in Stages : Unseen(s)'
      <3>1. stage = "content"
        BY <1>1, <1>5, <2>1 DEF Stages
      <3>2. QED
        BY <1>9, <1>10, <2>1, <3>1 DEF Stages
    <2>2. QED
      BY <1>4, <1>5, <2>1 DEF EmptyIsJustified, Answered, Stages
  <1>14. QED
    BY <1>6, <1>7, <1>11, <1>12, <1>13 DEF IInv

\* Nothing happens.
LEMMA Idle ==
  ASSUME IInv, UNCHANGED vars
  PROVE  IInv'
  <1>1. UNCHANGED <<mem, names, search, changes, touched>>
    BY DEF vars
  <1>2. TypeOK' /\ UnderWay'
    BY <1>1 DEF IInv, TypeOK, UnderWay
  <1>3. /\ Steady' = Steady /\ In(search.want)' = In(search.want)
        /\ Answered' <=> Answered
    BY <1>1 DEF Steady, In, Live, Answered
  <1>4. \A stage \in Stages : Unseen(stage) => Unseen(stage)'
    <2>1. /\ touched' = touched \cup {} /\ touched' \subseteq Memories
          /\ \A m \in Memories \ {} : mem'[m] = mem[m]
      BY <1>1 DEF IInv, TypeOK
    <2>2. QED
      BY <1>1, <2>1, UnseenSame
  <1>5. StageByStage'
    BY <1>1, <1>4 DEF IInv, StageByStage, Stages
  <1>6. EarlierStagesFirst'
    BY <1>1, <1>3, <1>4 DEF IInv, EarlierStagesFirst, Stages
  <1>7. EmptyIsJustified'
    <2>1. (touched \cup (Steady \cap In(search.want)))' = touched \cup (Steady \cap In(search.want))
      BY <1>1, <1>3
    <2>2. QED
      BY <1>1, <1>3, <1>4, <2>1 DEF IInv, EmptyIsJustified, Stages
  <1>8. QED
    BY <1>2, <1>5, <1>6, <1>7 DEF IInv

-----------------------------------------------------------------------------
(* The theorems *)

\* The inductive invariant of Search holds in every reachable state.
THEOREM Invariant == Spec => []IInv
  <1>1. Init => IInv
    <2> SUFFICES ASSUME Init
                 PROVE  IInv
      OBVIOUS
    <2>1. MemOK
      BY SearchOK DEF Init, MemOK
    <2>2. /\ search \in Early /\ search.step = "idle" /\ search.results = {}
          /\ search.stage = "none" /\ ~search.found /\ search.terms = {}
      BY DEF Init, Begun, Early, Steps
    <2>3. RecOK
      BY <2>2, NothingFits DEF RecOK, Early, SearchRec
    <2>4. UnderWay /\ StageByStage /\ EmptyIsJustified /\ EarlierStagesFirst
      BY <2>2 DEF UnderWay, StageByStage, EmptyIsJustified, EarlierStagesFirst, Answered
    <2>5. QED
      BY <2>1, <2>3, <2>4, Types DEF IInv
  <1>2. IInv /\ [Next]_vars => IInv'
    <2> SUFFICES ASSUME IInv, [Next]_vars
                 PROVE  IInv'
      OBVIOUS
    <2>1. CASE \/ \E m \in Memories, c \in Categories, t \in Texts : Write(m, c, t)
               \/ \E m \in Memories : Delete(m)
               \/ \E c, d \in Categories : Merge(c, d)
               \/ \E c \in Categories : Rename(c)
      BY <2>1, Others
    <2>2. CASE \E mode \in {"off", "category", "combined"}, client \in Categories \cup {None},
                  Q \in Questions : Ask(mode, client, Q)
      BY <2>2, AskStep
    <2>3. CASE \/ \E c \in Categories \cup {None} :
                    CategoryAnswer(c) \/ \E Q \in Questions : CombinedAnswer(c, Q)
               \/ ModelFails
      BY <2>3, ModelStep
    <2>4. CASE Resolve
      BY <2>4, ResolveStep
    <2>5. CASE \E named \in SUBSET search.asked, min \in {1, 2} : FilterFrequent(named, min)
      BY <2>5, FilterStep
    <2>6. CASE \E R \in SUBSET Memories : CategoryStage(R) \/ TitleStage(R) \/ ContentStage(R)
      BY <2>6, LookStep
    <2>7. CASE UNCHANGED vars
      BY <2>7, Idle
    <2>8. QED
      BY <2>1, <2>2, <2>3, <2>4, <2>5, <2>6, <2>7 DEF Next
  <1>3. QED
    BY <1>1, <1>2, PTL DEF Spec

\* Every variable keeps its type, and no answer is longer than was asked for.
THEOREM TypeCorrect == Spec => []TypeOK
  <1>1. IInv => TypeOK
    BY DEF IInv
  <1>2. QED
    BY <1>1, Invariant, PTL

\* An empty answer means that there was nothing to find, whatever others have written, moved or
\* deleted between two stages, or that more memories of the category matched than are scored.
THEOREM NothingOverlooked == Spec => []EmptyIsJustified
  <1>1. IInv => EmptyIsJustified
    BY DEF IInv
  <1>2. QED
    BY <1>1, Invariant, PTL

\* A memory that was there all the time is not passed over for one of a later stage.
THEOREM StagesInOrder == Spec => []EarlierStagesFirst
  <1>1. IInv => EarlierStagesFirst
    BY DEF IInv
  <1>2. QED
    BY <1>1, Invariant, PTL

-----------------------------------------------------------------------------
(* Induction, by way of the least number *)

\* A set of numbers that is not empty has a least one.
LEMMA Least ==
  ASSUME NEW S \in SUBSET Nat, S # {}
  PROVE  \E n \in S : \A k \in S : n <= k
<1>1. PICK n \in S : \A k \in S : ~ (<<k, n>> \in OpToRel(<, Nat))
  BY NatLessThanWellFounded, WFMin
<1>2. \A k \in S : ~ (k < n)
  BY <1>1 DEF OpToRel
<1>. QED  BY <1>2

\* What holds of 0 and, with a number, of the next one, holds up to n: the least number it did
\* not hold of would have one before it.
LEMMA Induction ==
  ASSUME NEW n \in Nat, NEW S, 0 \in S, \A i \in 0..(n - 1) : i \in S => i + 1 \in S
  PROVE  0..n \subseteq S
<1>. DEFINE B == {i \in 0..n : i \notin S}
<1>. SUFFICES ASSUME B # {} PROVE FALSE
  OBVIOUS
<1>0. B \in SUBSET Nat
  OBVIOUS
<1>1. PICK m \in B : \A k \in B : m <= k
  <2>. HIDE DEF B
  <2>. QED  BY <1>0, Least
<1>2. m \in 1..n /\ m - 1 \in 0..(n - 1) /\ m - 1 \notin B
  BY <1>1
<1>3. m - 1 + 1 \in S
  BY <1>2
<1>. QED  BY <1>1, <1>2, <1>3

-----------------------------------------------------------------------------
(* The words of a question *)

Plain == Latin \cup Number

\* Whatever consists of plain words and numbers is part of a run.
LEMMA InARun ==
  ASSUME NEW s \in Seq(Kinds), NEW i \in 1..Len(s), NEW j \in i..Len(s),
         \A k \in i..j : s[k] \in Plain
  PROVE  \E r \in Runs(s) : r[1] <= i /\ j <= r[2]
<1>. DEFINE N == Len(s)
            L == {l \in 1..i : \A k \in l..j : s[k] \in Plain}
            R == {d \in 0..(N - j) : \A k \in i..(N - d) : s[k] \in Plain}
<1>0. N \in Nat /\ i \in Nat /\ j \in Nat /\ j <= N /\ i <= j /\ 1 <= i
  OBVIOUS
<1>1. PICK l \in L : \A k \in L : l <= k
  <2>1. L \in SUBSET Nat /\ i \in L
    BY <1>0
  <2>. HIDE DEF L
  <2>. QED  BY <2>1, Least
<1>2. PICK d \in R : \A k \in R : d <= k
  <2>1. R \in SUBSET Nat /\ N - j \in R
    BY <1>0
  <2>. HIDE DEF R
  <2>. QED  BY <2>1, Least
<1>. DEFINE r == N - d
<1>3. /\ l \in 1..i /\ r \in j..N /\ d \in 0..(N - j) /\ r = N - d
      /\ \A k \in l..r : s[k] \in Plain
  <2>1. \A k \in l..j : s[k] \in Plain
    OBVIOUS
  <2>2. \A k \in i..r : s[k] \in Plain
    OBVIOUS
  <2>. QED  BY <1>0, <2>1, <2>2
<1>7. \A k \in i..r : s[k] \in Plain
  OBVIOUS
<1>4. l > 1 => s[l - 1] \notin Plain
  <2>. SUFFICES ASSUME l > 1, s[l - 1] \in Plain PROVE FALSE
    OBVIOUS
  <2>1. l - 1 \in 1..i /\ \A k \in (l - 1)..j : k = l - 1 \/ k \in l..j
    BY <1>0, <1>3
  <2>2. l - 1 \in L
    BY <1>3, <2>1
  <2>. QED  BY <1>1, <1>3, <2>2
<1>5. r < N => s[r + 1] \notin Plain
  <2>. SUFFICES ASSUME r < N, s[r + 1] \in Plain PROVE FALSE
    OBVIOUS
  <2>1. d \in Nat /\ r \in Nat
    BY <1>0, <1>3
  <2>2. d - 1 \in 0..(N - j) /\ N - (d - 1) = r + 1 /\ d - 1 < d
    <3>. HIDE DEF r
    <3>. QED  BY <1>0, <1>3, <2>1
  <2>3. \A k \in i..(r + 1) : k = r + 1 \/ k \in i..r
    <3>. HIDE DEF r
    <3>. QED  BY <1>0, <2>1
  <2>4. \A k \in i..(r + 1) : s[k] \in Plain
    <3>. HIDE DEF r, L, R
    <3>. QED  BY <1>7, <2>3
  <2>5. d - 1 \in R
    <3>. HIDE DEF r
    <3>. QED  BY <2>2, <2>4
  <2>6. d <= d - 1
    <3>. HIDE DEF R
    <3>. QED  BY <1>2, <2>5
  <2>. QED  BY <2>1, <2>6
<1>6. <<l, r>> \in Runs(s)
  <2>. HIDE DEF r, L, R
  <2>1. l \in 1..N /\ r \in 1..N /\ l <= r
    BY <1>0, <1>3
  <2>. QED  BY <1>3, <1>4, <1>5, <2>1 DEF Runs, Plain
<1>. QED  BY <1>0, <1>3, <1>6

\* A Chinese name with a number is never ignored but as a stopword.
LEMMA OfNoun ==
  ASSUME NEW s \in Seq(Kinds), NEW i \in Nat, NEW stops
  PROVE  LET t == <<i, i + 1, "noun">>
         IN  /\ Reason(s, t) = "none" /\ ~WordStopped(t, stops)
             /\ Meant(s, t, stops) <=> t \notin stops /\ s[i] \in {"han", "hanWeak"} /\ s[i + 1] \in OnHan
<1>. DEFINE t == <<i, i + 1, "noun">>
<1>1. Len(t) = 3 /\ t[1] = i /\ t[2] = i + 1
  OBVIOUS
<1>. HIDE DEF t
<1>2. Reason(s, t) = "none" /\ ~WordStopped(t, stops)
  BY <1>1 DEF Reason, WordStopped
<1>3. Meant(s, t, stops) <=> t \notin stops /\ s[i] \in {"han", "hanWeak"} /\ s[i + 1] \in OnHan
  BY <1>1 DEF Meant
<1>. QED  BY <1>2, <1>3 DEF t

\* Of single tokens only Chinese words with a meaning are searched for.
LEMMA OfSingle ==
  ASSUME NEW s \in Seq(Kinds), NEW i \in DOMAIN s, NEW stops
  PROVE  LET t == <<i, i>>
         IN  /\ Size(t) = 1 /\ ~WordStopped(t, stops)
             /\ Reason(s, t) = "none" <=> s[i] = "han"
             /\ Meant(s, t, stops) <=> t \notin stops /\ s[i] = "han"
<1>. DEFINE t == <<i, i>>
<1>0. i \in Nat /\ s[i] \in Kinds
  OBVIOUS
<1>1. Len(t) = 2 /\ t[1] = i /\ t[2] = i
  OBVIOUS
<1>. HIDE DEF t
<1>2. Size(t) = 1
  BY <1>0, <1>1 DEF Size
<1>3. ~WordStopped(t, stops)
  BY <1>2 DEF WordStopped
<1>4. Reason(s, t) = "none" <=> s[i] = "han"
  <2>1. Reason(s, t) = CASE s[i] \in Number -> "number"
         [] s[i] = "hanOne"  -> "single"
         [] s[i] = "hanWeak" -> "weak"
         [] s[i] = "han"     -> "none"
         [] s[i] \in Mixed   -> "mixed"
         [] OTHER -> "english"
    BY <1>1, <1>2 DEF Reason
  <2>2. s[i] \notin Number \cup Mixed \cup {"hanOne", "hanWeak", "han"} => Reason(s, t) = "english"
    BY <2>1 DEF Number, Mixed
  <2>. QED  BY <2>1, <2>2 DEF Number, Mixed
<1>5. Meant(s, t, stops) <=> t \notin stops /\ s[i] = "han"
  BY <1>1, <1>2 DEF Meant
<1>. QED  BY <1>2, <1>3, <1>4, <1>5 DEF t

\* English words, the last of which may be a short number.
AllButLast(s, i, j) == /\ \A k \in i..(j - 1) : s[k] = "word"
                       /\ s[j] \in {"word"} \cup Short

\* Of the windows of several tokens those are searched for that are words with perhaps a short
\* number at the end.
LEMMA OfWindow ==
  ASSUME NEW s \in Seq(Kinds), NEW i \in DOMAIN s, NEW j \in (i + 1)..Len(s), NEW stops
  PROVE  LET t == <<i, j>>
         IN  /\ Size(t) = j - i + 1 /\ t[1] = i /\ t[2] = j
             /\ (Size(t) <= MaxPhraseWords => ((Titled(s, t) \/ \A k \in i..j : GoodWord(s, k)) <=> AllButLast(s, i, j)))
             /\ Reason(s, t) = "none" <=> Size(t) <= MaxPhraseWords /\ AllButLast(s, i, j)
             /\ Meant(s, t, stops) <=> /\ t \notin stops /\ Size(t) <= MaxPhraseWords
                                       /\ ~WordStopped(t, stops) /\ AllButLast(s, i, j)
<1>. DEFINE t == <<i, j>>
<1>0. i \in Nat /\ j \in Nat /\ i < j /\ MaxPhraseWords \in Nat
  BY QueryTermsOK
<1>1. Len(t) = 2 /\ t[1] = i /\ t[2] = j
  OBVIOUS
<1>. HIDE DEF t
<1>2. Size(t) = j - i + 1 /\ Size(t) \in Nat /\ Size(t) > 1
  BY <1>0, <1>1 DEF Size
<1>3. Size(t) <= MaxPhraseWords => ((Titled(s, t) \/ \A k \in i..j : GoodWord(s, k)) <=> AllButLast(s, i, j))
  <2>1. \A k \in i..j : k = j \/ k \in i..(j - 1)
    BY <1>0
  <2>2. i..(j - 1) \subseteq i..j /\ j \in i..j
    BY <1>0
  <2>3. Size(t) <= MaxPhraseWords =>
          (Titled(s, t) <=> s[j] \in Short /\ \A k \in i..(j - 1) : s[k] = "word")
    BY <1>0, <1>1, <1>2 DEF Titled, GoodWord
  <2>4. (\A k \in i..j : GoodWord(s, k)) <=> s[j] = "word" /\ \A k \in i..(j - 1) : s[k] = "word"
    BY <2>1, <2>2 DEF GoodWord
  <2>. QED  BY <2>3, <2>4 DEF AllButLast
<1>4. Reason(s, t) = "none" <=> Size(t) <= MaxPhraseWords /\ AllButLast(s, i, j)
  <2>1. Reason(s, t) = IF Size(t) > MaxPhraseWords THEN "long"
                       ELSE IF Titled(s, t) \/ (\A k \in i..j : GoodWord(s, k)) THEN "none"
                       ELSE "badWord"
    BY <1>1, <1>2 DEF Reason
  <2>2. Size(t) > MaxPhraseWords <=> ~(Size(t) <= MaxPhraseWords)
    BY <1>0, <1>2
  <2>. QED  BY <1>3, <2>1, <2>2
<1>5. WordStopped(t, stops) <=> \E k \in i..j : <<k, k>> \in stops
  BY <1>1, <1>2 DEF WordStopped
<1>6. Meant(s, t, stops) <=> /\ t \notin stops /\ Size(t) <= MaxPhraseWords
                             /\ ~WordStopped(t, stops) /\ AllButLast(s, i, j)
  <2>1. Size(t) \in 2..MaxPhraseWords <=> Size(t) <= MaxPhraseWords
    BY <1>0, <1>2
  <2>2. Meant(s, t, stops) <=> /\ t \notin stops /\ Size(t) \in 2..MaxPhraseWords
                               /\ \A k \in i..j : <<k, k>> \notin stops
                               /\ \A k \in i..(j - 1) : s[k] = "word"
                               /\ s[j] \in {"word"} \cup Short
    BY <1>1, <1>2 DEF Meant
  <2>. QED  BY <1>5, <2>1, <2>2 DEF AllButLast
<1>. QED  BY <1>1, <1>2, <1>3, <1>4, <1>6 DEF t

\* A phrase is offered for what is meant as one, whatever stands around it.
LEMMA PhrasesAre ==
  ASSUME NEW s \in Seq(Kinds)
  PROVE  \A t : t \in Phrases(s) <=>
           \E i \in 1..Len(s), j \in 1..Len(s) :
             i < j /\ t = <<i, j>> /\ j - i + 1 <= MaxPhraseWords /\ AllButLast(s, i, j)
<1>0. Len(s) \in Nat /\ MaxPhraseWords \in Nat /\ DOMAIN s = 1..Len(s)
  BY QueryTermsOK
<1>1. ASSUME NEW t \in Phrases(s)
      PROVE  \E i \in 1..Len(s), j \in 1..Len(s) :
               i < j /\ t = <<i, j>> /\ j - i + 1 <= MaxPhraseWords /\ AllButLast(s, i, j)
  <2>1. PICK r \in Runs(s) : /\ t \in Windows(r)
                             /\ Titled(s, t) \/ \A k \in t[1]..t[2] : GoodWord(s, k)
    BY DEF Phrases
  <2>2. r[1] \in 1..Len(s) /\ r[2] \in 1..Len(s)
    BY <2>1 DEF Runs
  <2>3. PICK i \in r[1]..r[2], j \in r[1]..r[2] : t = <<i, j>> /\ Size(t) \in 2..MaxPhraseWords
    BY <2>1 DEF Windows
  <2>4. i \in 1..Len(s) /\ j \in 1..Len(s) /\ Size(t) = j - i + 1
    BY <1>0, <2>2, <2>3 DEF Size
  <2>5. i < j /\ j \in (i + 1)..Len(s)
    BY <1>0, <2>3, <2>4
  <2>6. t[1] = i /\ t[2] = j /\ Size(t) <= MaxPhraseWords
    BY <1>0, <2>3
  <2>7. AllButLast(s, i, j)
    BY <1>0, <2>1, <2>3, <2>4, <2>5, <2>6, OfWindow
  <2>. QED  BY <2>3, <2>4, <2>5, <2>6, <2>7
<1>2. ASSUME NEW i \in 1..Len(s), NEW j \in 1..Len(s), i < j,
             j - i + 1 <= MaxPhraseWords, AllButLast(s, i, j)
      PROVE  <<i, j>> \in Phrases(s)
  <2>. DEFINE t == <<i, j>>
  <2>1. \A k \in i..j : s[k] \in Plain
    <3>1. \A k \in i..j : k = j \/ k \in i..(j - 1)
      BY <1>0
    <3>. QED  BY <3>1, <1>2 DEF AllButLast, Plain, Latin, Number, Short
  <2>2. PICK r \in Runs(s) : r[1] <= i /\ j <= r[2]
    BY <1>0, <1>2, <2>1, InARun
  <2>3. r[1] \in 1..Len(s) /\ r[2] \in 1..Len(s)
    BY DEF Runs
  <2>4. j \in (i + 1)..Len(s) /\ Size(t) = j - i + 1 /\ t[1] = i /\ t[2] = j
    BY <1>0, <1>2 DEF Size
  <2>5. Titled(s, t) \/ \A k \in t[1]..t[2] : GoodWord(s, k)
    BY <1>0, <1>2, <2>4, OfWindow
  <2>6. t \in Windows(r)
    <3>1. i \in r[1]..r[2] /\ j \in r[1]..r[2] /\ Size(t) \in 2..MaxPhraseWords
      BY <1>0, <1>2, <2>2, <2>3, <2>4
    <3>. QED  BY <3>1 DEF Windows
  <2>. QED  BY <2>5, <2>6 DEF Phrases
<1>. QED  BY <1>1, <1>2

\* The terms a question offers are of three kinds.
LEMMA RawAre ==
  ASSUME NEW s \in Seq(Kinds)
  PROVE  \A t : t \in RawTerms(s) <=>
           \/ \E i \in 1..(Len(s) - 1) : /\ t = <<i, i + 1, "noun">>
                                         /\ s[i] \in {"han", "hanWeak"} /\ s[i + 1] \in OnHan
           \/ \E i \in 1..Len(s) : t = <<i, i>>
           \/ \E i \in 1..Len(s), j \in 1..Len(s) :
                i < j /\ t = <<i, j>> /\ j - i + 1 <= MaxPhraseWords /\ AllButLast(s, i, j)
<1>1. \A t : t \in Nouns(s) <=> \E i \in 1..(Len(s) - 1) :
        t = <<i, i + 1, "noun">> /\ s[i] \in {"han", "hanWeak"} /\ s[i + 1] \in OnHan
  BY DEF Nouns
<1>2. \A t : t \in Singles(s) <=> \E i \in 1..Len(s) : t = <<i, i>>
  BY DEF Singles
<1>. QED  BY <1>1, <1>2, PhrasesAre, Zenon DEF RawTerms

\* The windows of a question are of the same three kinds.
LEMMA AllAre ==
  ASSUME NEW s \in Seq(Kinds)
  PROVE  \A t : t \in AllTerms(s) <=>
           \/ \E i \in 1..(Len(s) - 1) : t = <<i, i + 1, "noun">>
           \/ \E i \in 1..Len(s) : t = <<i, i>>
           \/ \E i \in 1..Len(s), j \in 1..Len(s) : i < j /\ t = <<i, j>>
<1>1. ASSUME NEW w \in (1..Len(s)) \X (1..Len(s)), w[1] <= w[2]
      PROVE  \/ \E i \in 1..Len(s) : w = <<i, i>>
             \/ \E i \in 1..Len(s), j \in 1..Len(s) : i < j /\ w = <<i, j>>
  <2>1. PICK i \in 1..Len(s), j \in 1..Len(s) : w = <<i, j>> /\ i <= j
    BY <1>1
  <2>2. i = j \/ i < j
    BY <2>1
  <2>. QED  BY <2>1, <2>2
<1>. QED  BY <1>1 DEF AllTerms

\* Searched for is what is meant.
LEMMA EffectiveAre ==
  ASSUME NEW s \in Seq(Kinds), NEW stops, NEW t
  PROVE  t \in Effective(s, stops) <=> t \in AllTerms(s) /\ Meant(s, t, stops)
<1>0. Len(s) \in Nat /\ DOMAIN s = 1..Len(s)
  OBVIOUS
<1>1. ASSUME NEW i \in 1..(Len(s) - 1), t = <<i, i + 1, "noun">>
      PROVE  t \in Effective(s, stops) <=> t \in AllTerms(s) /\ Meant(s, t, stops)
  <2>1. t \in RawTerms(s) <=> s[i] \in {"han", "hanWeak"} /\ s[i + 1] \in OnHan
    <3>1. \A k, l \in 1..Len(s) : t # <<k, l>>
      BY <1>1
    <3>2. \A k \in 1..(Len(s) - 1) : t = <<k, k + 1, "noun">> => k = i
      BY <1>1
    <3>. QED  BY <1>1, <3>1, <3>2, RawAre
  <2>2. t \in AllTerms(s)
    BY <1>1, AllAre
  <2>3. i \in Nat
    BY <1>0
  <2>4. /\ Reason(s, t) = "none" /\ ~WordStopped(t, stops)
        /\ Meant(s, t, stops) <=> t \notin stops /\ s[i] \in {"han", "hanWeak"} /\ s[i + 1] \in OnHan
    BY <1>1, <2>3, OfNoun
  <2>. QED  BY <2>1, <2>2, <2>4 DEF Effective
<1>2. ASSUME NEW i \in 1..Len(s), t = <<i, i>>
      PROVE  t \in Effective(s, stops) <=> t \in AllTerms(s) /\ Meant(s, t, stops)
  <2>1. t \in RawTerms(s) /\ t \in AllTerms(s)
    BY <1>2, RawAre, AllAre
  <2>2. /\ ~WordStopped(t, stops)
        /\ Reason(s, t) = "none" <=> s[i] = "han"
        /\ Meant(s, t, stops) <=> t \notin stops /\ s[i] = "han"
    BY <1>0, <1>2, OfSingle
  <2>. QED  BY <2>1, <2>2 DEF Effective
<1>3. ASSUME NEW i \in 1..Len(s), NEW j \in 1..Len(s), i < j, t = <<i, j>>
      PROVE  t \in Effective(s, stops) <=> t \in AllTerms(s) /\ Meant(s, t, stops)
  <2>1. t \in AllTerms(s)
    BY <1>3, AllAre
  <2>2. t \in RawTerms(s) <=> j - i + 1 <= MaxPhraseWords /\ AllButLast(s, i, j)
    <3>1. \A k \in 1..(Len(s) - 1) : t # <<k, k + 1, "noun">>
      BY <1>3
    <3>2. \A k, l \in 1..Len(s) : t = <<k, l>> => k = i /\ l = j
      BY <1>3
    <3>3. \A k \in 1..Len(s) : t # <<k, k>>
      BY <1>3
    <3>4. ASSUME t \in RawTerms(s)
          PROVE  j - i + 1 <= MaxPhraseWords /\ AllButLast(s, i, j)
      <4>1. PICK k \in 1..Len(s), l \in 1..Len(s) :
              k < l /\ t = <<k, l>> /\ l - k + 1 <= MaxPhraseWords /\ AllButLast(s, k, l)
        BY <3>1, <3>3, <3>4, RawAre, Zenon
      <4>2. k = i /\ l = j
        BY <3>2, <4>1
      <4>. QED  BY <4>1, <4>2
    <3>5. ASSUME j - i + 1 <= MaxPhraseWords, AllButLast(s, i, j) PROVE t \in RawTerms(s)
      BY <1>3, <3>5, RawAre
    <3>. QED  BY <3>4, <3>5
  <2>3. j \in (i + 1)..Len(s) /\ i \in DOMAIN s
    BY <1>0, <1>3
  <2>4. /\ Size(t) = j - i + 1
        /\ Reason(s, t) = "none" <=> Size(t) <= MaxPhraseWords /\ AllButLast(s, i, j)
        /\ Meant(s, t, stops) <=> /\ t \notin stops /\ Size(t) <= MaxPhraseWords
                                  /\ ~WordStopped(t, stops) /\ AllButLast(s, i, j)
    BY <1>3, <2>3, OfWindow
  <2>. QED  BY <2>1, <2>2, <2>4 DEF Effective
<1>4. t \in RawTerms(s) => t \in AllTerms(s)
  BY RawAre, AllAre
<1>5. t \in Effective(s, stops) => t \in RawTerms(s)
  BY DEF Effective
<1>. QED  BY <1>1, <1>2, <1>3, <1>4, <1>5, AllAre

\* Only single tokens and stopwords are called ignored.
LEMMA IgnoredAre ==
  ASSUME NEW s \in Seq(Kinds), NEW stops, NEW t \in Ignored(s, stops)
  PROVE  t \in stops \/ Size(t) = 1
<1>0. Len(s) \in Nat /\ DOMAIN s = 1..Len(s)
  OBVIOUS
<1>4. /\ t \in RawTerms(s)
      /\ t \in stops \/ Reason(s, t) # "none"
  BY DEF Ignored
<1>1. ASSUME NEW i \in 1..(Len(s) - 1), t = <<i, i + 1, "noun">> PROVE t \in stops
  <2>1. i \in Nat
    BY <1>0
  <2>2. Reason(s, t) = "none"
    BY <1>1, <2>1, OfNoun
  <2>. QED  BY <1>4, <2>2
<1>2. ASSUME NEW i \in 1..Len(s), t = <<i, i>> PROVE Size(t) = 1
  BY <1>0, <1>2, OfSingle
<1>3. ASSUME NEW i \in 1..Len(s), NEW j \in 1..Len(s), i < j, t = <<i, j>>,
             j - i + 1 <= MaxPhraseWords, AllButLast(s, i, j)
      PROVE  t \in stops
  <2>1. j \in (i + 1)..Len(s) /\ i \in DOMAIN s
    BY <1>0, <1>3
  <2>2. Reason(s, t) = "none"
    BY <1>3, <2>1, OfWindow
  <2>. QED  BY <1>4, <2>2
<1>. QED  BY <1>1, <1>2, <1>3, <1>4, RawAre

\* A keyword of the model meets the verdict a term of the question meets.
LEMMA KeywordsAre ==
  ASSUME NEW s \in Seq(Kinds), NEW stops, NEW t \in Keywords(s)
  PROVE  KeywordAllowed(s, t, stops) <=> Meant(s, t, stops)
<1>0. Len(s) \in Nat /\ DOMAIN s = 1..Len(s)
  OBVIOUS
<1>1. t \in AllTerms(s)
  <2>1. t \in RawTerms(s) => t \in AllTerms(s)
    BY RawAre, AllAre
  <2>. QED  BY <2>1 DEF Keywords, AllTerms
<1>2. ASSUME NEW i \in 1..(Len(s) - 1), t = <<i, i + 1, "noun">>
      PROVE  KeywordAllowed(s, t, stops) <=> Meant(s, t, stops)
  <2>1. i \in Nat /\ \A k, l \in 1..Len(s) : t # <<k, l>>
    BY <1>0, <1>2
  <2>2. t \notin (1..Len(s)) \X (1..Len(s))
    BY <2>1
  <2>3. t \in RawTerms(s)
    BY <2>2 DEF Keywords
  <2>4. s[i] \in {"han", "hanWeak"} /\ s[i + 1] \in OnHan
    <3>1. \A k \in 1..(Len(s) - 1) : t = <<k, k + 1, "noun">> => k = i
      BY <1>2
    <3>. QED  BY <2>1, <2>3, <3>1, RawAre
  <2>5. /\ Reason(s, t) = "none" /\ ~WordStopped(t, stops)
        /\ Meant(s, t, stops) <=> t \notin stops /\ s[i] \in {"han", "hanWeak"} /\ s[i + 1] \in OnHan
    BY <1>2, <2>1, OfNoun
  <2>. QED  BY <2>4, <2>5 DEF KeywordAllowed
<1>3. ASSUME NEW i \in 1..Len(s), t = <<i, i>>
      PROVE  KeywordAllowed(s, t, stops) <=> Meant(s, t, stops)
  <2>1. /\ ~WordStopped(t, stops)
        /\ Reason(s, t) = "none" <=> s[i] = "han"
        /\ Meant(s, t, stops) <=> t \notin stops /\ s[i] = "han"
    BY <1>0, <1>3, OfSingle
  <2>. QED  BY <2>1 DEF KeywordAllowed
<1>4. ASSUME NEW i \in 1..Len(s), NEW j \in 1..Len(s), i < j, t = <<i, j>>
      PROVE  KeywordAllowed(s, t, stops) <=> Meant(s, t, stops)
  <2>1. j \in (i + 1)..Len(s) /\ i \in DOMAIN s
    BY <1>0, <1>4
  <2>2. /\ Reason(s, t) = "none" <=> Size(t) <= MaxPhraseWords /\ AllButLast(s, i, j)
        /\ Meant(s, t, stops) <=> /\ t \notin stops /\ Size(t) <= MaxPhraseWords
                                  /\ ~WordStopped(t, stops) /\ AllButLast(s, i, j)
    BY <1>4, <2>1, OfWindow
  <2>. QED  BY <2>2 DEF KeywordAllowed
<1>. QED  BY <1>1, <1>2, <1>3, <1>4, AllAre

\* For questions of any length and any stopwords the terms offered, the reasons for ignoring one
\* and the verdict on a keyword of the model agree.
THEOREM QuestionsAgree == \A s \in Seq(Kinds) : \A stops : Agree(s, stops)
<1>. SUFFICES ASSUME NEW s \in Seq(Kinds), NEW stops PROVE Agree(s, stops)
  OBVIOUS
<1>1. Effective(s, stops) = {t \in AllTerms(s) : Meant(s, t, stops)}
  BY EffectiveAre
<1>. QED  BY <1>1, IgnoredAre, KeywordsAre DEF Agree

-----------------------------------------------------------------------------
(* The text of a context *)

\* t is the text after each of the first n entries, sum their running total.
IsText(t, entries, max, n) ==
  t = [i \in 0..n |-> IF i = 0 THEN Start ELSE Add(t[i - 1], entries[i], max)]
IsSum(t, entries, n) ==
  t = [i \in 0..n |-> IF i = 0 THEN Header ELSE t[i - 1] + entries[i]]

\* The recursion of the loop over the entries defines a function: a text for n entries gives
\* one for n + 1.
LEMMA TextExists ==
  ASSUME NEW entries \in Seq(Nat \ {0}), NEW max \in Nat
  PROVE  \E t : IsText(t, entries, max, Len(entries))
<1>. DEFINE S == {n \in 0..Len(entries) : \E t : IsText(t, entries, max, n)}
<1>0. Len(entries) \in Nat
  OBVIOUS
<1>1. 0 \in S
  <2>. DEFINE t == [i \in 0..0 |-> Start]
  <2>1. IsText(t, entries, max, 0)
    BY DEF IsText
  <2>. QED  BY <2>1
<1>2. ASSUME NEW n \in 0..(Len(entries) - 1), n \in S PROVE n + 1 \in S
  <2>1. PICK t : IsText(t, entries, max, n)
    BY <1>2
  <2>. DEFINE u == [i \in 0..(n + 1) |-> IF i = n + 1 THEN Add(t[n], entries[i], max) ELSE t[i]]
  <2>2. u[0] = Start
    BY <2>1 DEF IsText
  <2>3. \A i \in 1..(n + 1) : u[i] = Add(u[i - 1], entries[i], max)
    BY <2>1 DEF IsText
  <2>4. IsText(u, entries, max, n + 1)
    <3>1. u = [i \in 0..(n + 1) |-> IF i = 0 THEN Start ELSE Add(u[i - 1], entries[i], max)]
      <4>1. \A i \in 0..(n + 1) : u[i] = IF i = 0 THEN Start ELSE Add(u[i - 1], entries[i], max)
        <5>. HIDE DEF u
        <5>. QED  BY <2>2, <2>3
      <4>. QED  BY <4>1
    <3>. QED  BY <3>1 DEF IsText
  <2>. QED  BY <2>4, <1>0
<1>3. 0..Len(entries) \subseteq S
  BY <1>0, <1>1, <1>2, Induction
<1>. QED  BY <1>0, <1>3

\* So Loop is the last value of such a function.
LEMMA LoopIs ==
  ASSUME NEW entries \in Seq(Nat \ {0}), NEW max \in Nat
  PROVE  \E t : IsText(t, entries, max, Len(entries)) /\ Loop(entries, max) = t[Len(entries)]
<1>. DEFINE text == CHOOSE t : t = [i \in 0..Len(entries) |-> IF i = 0 THEN Start ELSE Add(t[i - 1], entries[i], max)]
<1>1. \E t : t = [i \in 0..Len(entries) |-> IF i = 0 THEN Start ELSE Add(t[i - 1], entries[i], max)]
  BY TextExists DEF IsText
<1>2. text = [i \in 0..Len(entries) |-> IF i = 0 THEN Start ELSE Add(text[i - 1], entries[i], max)]
  BY <1>1, Zenon
<1>3. Loop(entries, max) = text[Len(entries)]
  BY Zenon DEF Loop
<1>. QED  BY <1>2, <1>3, Zenon DEF IsText
\* What a function of running totals is at each place.
LEMMA SumUnfolds ==
  ASSUME NEW entries, NEW n, NEW t, IsSum(t, entries, n)
  PROVE  \A i \in 0..n : t[i] = IF i = 0 THEN Header ELSE t[i - 1] + entries[i]
<1>. DEFINE g == [i \in 0..n |-> IF i = 0 THEN Header ELSE t[i - 1] + entries[i]]
<1>1. t = g
  BY DEF IsSum
<1>2. \A i \in 0..n : g[i] = IF i = 0 THEN Header ELSE t[i - 1] + entries[i]
  OBVIOUS
<1>. HIDE DEF g
<1>. QED  BY <1>1, <1>2, Zenon

\* There is a function of running totals.
LEMMA SumExists ==
  ASSUME NEW entries \in Seq(Nat \ {0})
  PROVE  \E t : IsSum(t, entries, Len(entries))
<1>. DEFINE S == {n \in 0..Len(entries) : \E t : IsSum(t, entries, n)}
<1>0. Len(entries) \in Nat
  OBVIOUS
<1>1. 0 \in S
  <2>. DEFINE t == [i \in 0..0 |-> Header]
  <2>1. IsSum(t, entries, 0)
    BY DEF IsSum
  <2>. QED  BY <2>1
<1>2. ASSUME NEW n \in 0..(Len(entries) - 1), n \in S PROVE n + 1 \in S
  <2>1. PICK t : IsSum(t, entries, n)
    BY <1>2
  <2>. DEFINE u == [i \in 0..(n + 1) |-> IF i = n + 1 THEN t[n] + entries[i] ELSE t[i]]
  <2>0. \A i \in 0..n : t[i] = IF i = 0 THEN Header ELSE t[i - 1] + entries[i]
    BY <2>1, SumUnfolds
  <2>2. u[0] = Header
    BY <2>0
  <2>3. \A i \in 1..(n + 1) : u[i] = u[i - 1] + entries[i]
    BY <2>0
  <2>4. \A i \in 0..(n + 1) : u[i] = IF i = 0 THEN Header ELSE u[i - 1] + entries[i]
    <3>. HIDE DEF u
    <3>. QED  BY <2>2, <2>3
  <2>5. IsSum(u, entries, n + 1)
    BY <2>4 DEF IsSum
  <2>. QED  BY <2>5, <1>0
<1>3. 0..Len(entries) \subseteq S
  BY <1>0, <1>1, <1>2, Induction
<1>. QED  BY <1>0, <1>3

\* Total reads it.
LEMMA TotalIs ==
  ASSUME NEW entries \in Seq(Nat \ {0})
  PROVE  \E t : IsSum(t, entries, Len(entries)) /\ \A n : Total(entries, n) = t[n]
<1>. DEFINE sum == CHOOSE t : t = [i \in 0..Len(entries) |-> IF i = 0 THEN Header ELSE t[i - 1] + entries[i]]
<1>1. \E t : t = [i \in 0..Len(entries) |-> IF i = 0 THEN Header ELSE t[i - 1] + entries[i]]
  BY SumExists DEF IsSum
<1>2. sum = [i \in 0..Len(entries) |-> IF i = 0 THEN Header ELSE sum[i - 1] + entries[i]]
  BY <1>1, Zenon
<1>3. \A n : Total(entries, n) = sum[n]
  BY Zenon DEF Total
<1>. QED  BY <1>2, <1>3, Zenon DEF IsSum

\* The totals grow, since no entry is empty.
LEMMA SumGrows ==
  ASSUME NEW entries \in Seq(Nat \ {0}), NEW sum, IsSum(sum, entries, Len(entries))
  PROVE  \A i \in 0..Len(entries) : sum[i] \in Nat /\ \A j \in 0..(i - 1) : sum[j] < sum[i]
<1>. DEFINE S == {i \in 0..Len(entries) : /\ \A j \in 0..i : sum[j] \in Nat
                                     /\ \A j \in 0..(i - 1) : sum[j] < sum[i]}
<1>0. Len(entries) \in Nat
  OBVIOUS
<1>4. /\ sum[0] = Header
      /\ \A i \in 1..Len(entries) : sum[i] = sum[i - 1] + entries[i]
  BY <1>0, SumUnfolds
<1>1. 0 \in S
  BY <1>4, ContextTextOK
<1>2. ASSUME NEW n \in 0..(Len(entries) - 1), n \in S PROVE n + 1 \in S
  <2>1. entries[n + 1] \in Nat \ {0} /\ n + 1 \in 1..Len(entries)
    OBVIOUS
  <2>2. sum[n + 1] = sum[n] + entries[n + 1]
    BY <2>1, <1>4
  <2>3. \A j \in 0..n : j = n \/ j \in 0..(n - 1)
    OBVIOUS
  <2>4. (\A j \in 0..n : sum[j] \in Nat) /\ \A j \in 0..(n - 1) : sum[j] < sum[n]
    BY <1>2
  <2>6. sum[n + 1] \in Nat /\ sum[n] < sum[n + 1]
    BY <2>1, <2>2, <2>4
  <2>7. \A j \in 0..(n - 1) : sum[j] < sum[n + 1]
    BY <2>1, <2>2, <2>4, <2>6
  <2>8. \A j \in 0..(n + 1 - 1) : sum[j] < sum[n + 1]
    BY <2>3, <2>6, <2>7
  <2>9. \A j \in 0..(n + 1) : sum[j] \in Nat
    BY <2>4, <2>6
  <2>. QED  BY <1>0, <2>8, <2>9
<1>3. 0..Len(entries) \subseteq S
  BY <1>0, <1>1, <1>2, Induction
<1>. QED  BY <1>0, <1>3

\* What a text is after each entry.
LEMMA TextUnfolds ==
  ASSUME NEW entries, NEW max, NEW n, NEW t, IsText(t, entries, max, n)
  PROVE  \A i \in 0..n : t[i] = IF i = 0 THEN Start ELSE Add(t[i - 1], entries[i], max)
<1>. DEFINE g == [i \in 0..n |-> IF i = 0 THEN Start ELSE Add(t[i - 1], entries[i], max)]
<1>1. t = g
  BY DEF IsText
<1>2. \A i \in 0..n : g[i] = IF i = 0 THEN Start ELSE Add(t[i - 1], entries[i], max)
  OBVIOUS
<1>. HIDE DEF g
<1>. QED  BY <1>1, <1>2, Zenon

\* A text that goes on, and one that is closed.
Whole(length, w) == [length |-> length, whole |-> w, open |-> TRUE]
Full(length, w, max) == [length |-> IF max - length > MinCut THEN max ELSE length,
                         whole |-> w, open |-> FALSE]

Shape(text, sum, i, max) ==
  \/ text = Whole(sum[i], i) /\ sum[i] <= max
  \/ \E w \in 0..(i - 1) : text = Full(sum[w], w, max) /\ sum[w] <= max /\ sum[w + 1] > max

\* The entry fits.
Room(length, entry, max) == length + entry <= max

\* One turn of the loop: the entry is put in whole, or closes the text.
LEMMA Adds ==
  \A a, w, e, max \in Nat :
    Add(Whole(a, w), e, max) = IF Room(a, e, max) THEN Whole(a + e, w + 1) ELSE Full(a, w, max)
<1>. SUFFICES ASSUME NEW a \in Nat, NEW w \in Nat, NEW e \in Nat, NEW max \in Nat
              PROVE  Add(Whole(a, w), e, max) =
                       IF Room(a, e, max) THEN Whole(a + e, w + 1) ELSE Full(a, w, max)
  OBVIOUS
<1>. DEFINE text == [length |-> a, whole |-> w, open |-> TRUE]
<1>1. text.length = a /\ text.whole = w /\ text.open = TRUE /\ Whole(a, w) = text
  BY DEF Whole
<1>2. ASSUME a + e <= max PROVE Add(text, e, max) = Whole(a + e, w + 1)
  <2>1. Add(text, e, max) = [text EXCEPT !.length = @ + e, !.whole = @ + 1]
    BY <1>1, <1>2 DEF Add
  <2>. QED  BY <2>1 DEF Whole
<1>3. ASSUME ~(a + e <= max) PROVE Add(text, e, max) = Full(a, w, max)
  <2>1. Add(text, e, max) = [text EXCEPT !.length = IF max - @ > MinCut THEN max ELSE @, !.open = FALSE]
    BY <1>1, <1>3 DEF Add
  <2>. QED  BY <2>1 DEF Full
<1>. HIDE DEF text
<1>. QED  BY <1>1, <1>2, <1>3 DEF Room

\* After i entries the text is these entries whole, or the first w of them and what MinCut let
\* in of the next, which did not fit.
LEMMA Shapes ==
  ASSUME NEW entries \in Seq(Nat \ {0}), NEW max \in Nat, Header < max,
         NEW sum, IsSum(sum, entries, Len(entries)),
         NEW t, IsText(t, entries, max, Len(entries))
  PROVE  \A i \in 0..Len(entries) : Shape(t[i], sum, i, max)
<1>. DEFINE S == {i \in 0..Len(entries) : Shape(t[i], sum, i, max)}
<1>0. Len(entries) \in Nat
  OBVIOUS
<1>4. /\ sum[0] = Header
      /\ \A i \in 1..Len(entries) : sum[i] = sum[i - 1] + entries[i]
  BY <1>0, SumUnfolds
<1>5. /\ t[0] = Start
      /\ \A i \in 1..Len(entries) : t[i] = Add(t[i - 1], entries[i], max)
  BY <1>0, TextUnfolds
<1>6. \A i \in 0..Len(entries) : sum[i] \in Nat
  BY SumGrows
<1>1. 0 \in S
  <2>1. t[0] = Whole(sum[0], 0) /\ sum[0] <= max
    BY <1>4, <1>5, ContextTextOK DEF Start, Whole
  <2>. QED  BY <1>0, <2>1 DEF Shape
<1>2. ASSUME NEW n \in 0..(Len(entries) - 1), n \in S PROVE n + 1 \in S
  <2>1. entries[n + 1] \in Nat \ {0} /\ n + 1 \in 1..Len(entries)
    OBVIOUS
  <2>0. entries[n + 1] \in Nat
    BY <2>1
  <2>2. sum[n + 1] = sum[n] + entries[n + 1] /\ sum[n] \in Nat /\ sum[n + 1] \in Nat
    BY <2>1, <1>4, <1>6
  <2>3. t[n + 1] = Add(t[n], entries[n + 1], max)
    BY <2>1, <1>5
  <2>4. Shape(t[n], sum, n, max)
    BY <1>2
  <2>5. ASSUME t[n] = Whole(sum[n], n), sum[n] <= max, sum[n + 1] <= max
        PROVE  t[n + 1] = Whole(sum[n + 1], n + 1)
    <3>1. n \in Nat /\ sum[n] + entries[n + 1] <= max
      BY <2>2, <2>5
    <3>3. PICK a \in Nat : a = sum[n]
      BY <2>2
    <3>4. PICK e \in Nat : e = entries[n + 1]
      BY <2>0
    <3>2. Add(Whole(a, n), e, max) = Whole(a + e, n + 1)
      <4>1. n \in Nat
        OBVIOUS
      <4>2. Room(a, e, max)
        BY <3>1, <3>3, <3>4 DEF Room
      <4>. QED  BY <4>1, <4>2, Adds, Zenon
    <3>. QED  BY <2>2, <2>3, <2>5, <3>3, <3>4, <3>2
  <2>6. ASSUME t[n] = Whole(sum[n], n), sum[n] <= max, ~(sum[n + 1] <= max)
        PROVE  t[n + 1] = Full(sum[n], n, max) /\ sum[n + 1] > max
    <3>1. n \in Nat /\ ~(sum[n] + entries[n + 1] <= max)
      BY <2>2, <2>6
    <3>3. PICK a \in Nat : a = sum[n]
      BY <2>2
    <3>4. PICK e \in Nat : e = entries[n + 1]
      BY <2>0
    <3>2. Add(Whole(a, n), e, max) = Full(a, n, max)
      <4>1. n \in Nat
        OBVIOUS
      <4>2. ~Room(a, e, max)
        BY <3>1, <3>3, <3>4 DEF Room
      <4>. QED  BY <4>1, <4>2, Adds, Zenon
    <3>. QED  BY <2>2, <2>3, <2>6, <3>3, <3>4, <3>2
  <2>7. ASSUME NEW w \in 0..(n - 1), t[n] = Full(sum[w], w, max)
        PROVE  t[n + 1] = Full(sum[w], w, max) /\ w \in 0..n
    BY <2>3, <2>7 DEF Add, Full
  <2>8. Shape(t[n + 1], sum, n + 1, max)
    <3>1. CASE t[n] = Whole(sum[n], n) /\ sum[n] <= max /\ sum[n + 1] <= max
      BY <3>1, <2>5 DEF Shape
    <3>2. CASE t[n] = Whole(sum[n], n) /\ sum[n] <= max /\ ~(sum[n + 1] <= max)
      <4>1. t[n + 1] = Full(sum[n], n, max) /\ sum[n + 1] > max
        BY <3>2, <2>6
      <4>2. n \in 0..(n + 1 - 1)
        OBVIOUS
      <4>. QED  BY <4>1, <4>2, <3>2 DEF Shape
    <3>3. CASE \E w \in 0..(n - 1) : t[n] = Full(sum[w], w, max) /\ sum[w] <= max /\ sum[w + 1] > max
      <4>1. PICK w \in 0..(n - 1) : t[n] = Full(sum[w], w, max) /\ sum[w] <= max /\ sum[w + 1] > max
        BY <3>3
      <4>2. t[n + 1] = Full(sum[w], w, max) /\ w \in 0..(n + 1 - 1)
        BY <4>1, <2>7
      <4>. QED  BY <4>1, <4>2 DEF Shape
    <3>. QED  BY <2>4, <3>1, <3>2, <3>3, Zenon DEF Shape
  <2>. QED  BY <2>1, <2>8
<1>3. 0..Len(entries) \subseteq S
  BY <1>0, <1>1, <1>2, Induction
<1>. QED  BY <1>0, <1>3

\* Whatever the entries and the limit, the context is within it and uses it: lengths and numbers
\* are any, where ContextFits bounds them.
THEOREM ContextsFit ==
  ASSUME NEW entries \in Seq(Nat \ {0}), NEW max \in Nat
  PROVE  Fits(entries, max)
<1>. DEFINE N == Len(entries)
            text == Build(entries, max)
<1>0. N \in Nat /\ (entries = <<>> <=> N = 0)
  OBVIOUS
<1>1. PICK sum : IsSum(sum, entries, N) /\ \A n : Total(entries, n) = sum[n]
  BY TotalIs
<1>2. /\ \A i \in 0..N : sum[i] \in Nat /\ \A j \in 0..(i - 1) : sum[j] < sum[i]
      /\ sum[0] = Header
  BY <1>0, <1>1, SumGrows, SumUnfolds
<1>. SUFFICES /\ text.length <= max
              /\ \A n \in 0..N : n <= text.whole <=> (n = 0 \/ sum[n] <= max)
              /\ text.whole < N => text.length >= max - MinCut
  BY <1>1 DEF Fits
<1>3. CASE N = 0
  <2>1. text.length = 0 /\ text.whole = 0
    BY <1>0, <1>3 DEF Build
  <2>. QED  BY <2>1, <1>3
<1>4. CASE N # 0 /\ Header >= max
  <2>1. text.length = max /\ text.whole = 0
    BY <1>0, <1>4 DEF Build
  <2>2. \A n \in 1..N : sum[n] > sum[0] /\ sum[n] \in Nat
    BY <1>2, <1>0
  <2>3. \A n \in 1..N : ~(sum[n] <= max)
    BY <1>2, <1>4, <2>2, ContextTextOK
  <2>. QED  BY <1>0, <2>1, <2>3, ContextTextOK
<1>5. CASE N # 0 /\ Header < max
  <2>1. text = Loop(entries, max)
    BY <1>0, <1>5, ContextTextOK DEF Build
  <2>2. PICK t : IsText(t, entries, max, N) /\ text = t[N]
    BY <2>1, LoopIs
  <2>. HIDE DEF text
  <2>3. Shape(text, sum, N, max)
    BY <1>0, <1>1, <1>5, <2>2, Shapes
  <2>4. CASE text = Whole(sum[N], N) /\ sum[N] <= max
    <3>1. text.length = sum[N] /\ text.whole = N
      BY <2>4 DEF Whole
    <3>2. \A n \in 0..N : sum[n] <= max
      BY <1>0, <1>2, <2>4
    <3>. QED  BY <1>0, <2>4, <3>1, <3>2
  <2>5. CASE \E w \in 0..(N - 1) : text = Full(sum[w], w, max) /\ sum[w] <= max /\ sum[w + 1] > max
    <3>1. PICK w \in 0..(N - 1) : text = Full(sum[w], w, max) /\ sum[w] <= max /\ sum[w + 1] > max
      BY <2>5
    <3>2. /\ text.length = IF max - sum[w] > MinCut THEN max ELSE sum[w]
          /\ text.whole = w
      BY <3>1 DEF Full
    <3>3. sum[w] \in Nat /\ sum[w + 1] \in Nat
      BY <1>0, <1>2
    <3>4. text.length <= max /\ text.length >= max - MinCut
      BY <3>1, <3>2, <3>3, ContextTextOK
    <3>5. ASSUME NEW n \in 0..w PROVE sum[n] <= max
      <4>1. n = w \/ n \in 0..(w - 1)
        OBVIOUS
      <4>2. n \in 0..w /\ w \in 0..N /\ n \in 0..N
        BY <1>0
      <4>3. sum[n] \in Nat /\ (n \in 0..(w - 1) => sum[n] < sum[w])
        BY <1>2, <4>2
      <4>. QED  BY <3>1, <3>3, <4>1, <4>3
    <3>6. \A n \in (w + 1)..N : ~(sum[n] <= max)
      BY <1>0, <1>2, <3>1, <3>3
    <3>. QED  BY <1>0, <3>2, <3>4, <3>5, <3>6
  <2>. QED  BY <2>3, <2>4, <2>5, Zenon DEF Shape
<1>. QED  BY <1>0, <1>3, <1>4, <1>5, ContextTextOK

\* The same of every bound a run may put on questions and stopwords.
THEOREM TermsOfQuestions == Spec => []TermsAgree
<1>1. ASSUME NEW s \in QuestionsOfTokens PROVE s \in Seq(Kinds)
  BY SearchRequestOK DEF QuestionsOfTokens
<1>2. TermsAgree
  BY <1>1, QuestionsAgree DEF TermsAgree
<1>. QED  BY <1>2, PTL

\* The same of every bound a run may put on entries and limits.
THEOREM ContextsOfSearches == Spec => []ContextFits
<1>1. ASSUME NEW n \in 0..MaxEntries, NEW entries \in [1..n -> 1..MaxEntry]
      PROVE  entries \in Seq(Nat \ {0})
  BY SearchRequestOK
<1>2. ASSUME NEW max \in 1..MaxChars PROVE max \in Nat
  BY SearchRequestOK
<1>3. ContextFits
  BY <1>1, <1>2, ContextsFit DEF ContextFits
<1>. QED  BY <1>3, PTL
===============================================================================
