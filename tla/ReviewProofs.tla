----------------------------- MODULE ReviewProofs -----------------------------
(***************************************************************************)
(* What holds of AI memory review for every table of memories, every       *)
(* answer of the model and any number of suggestions: the inductive        *)
(* invariant IInv of ReviewLifecycle and what follows from it.             *)
(***************************************************************************)
EXTENDS ReviewLifecycle, TLAPS

\* The assumption on the constants, as the provers need it.
LEMMA Constants ==
  /\ Answers \subseteq Answer /\ Tables \subseteq [Memories -> {m \in Memory : ~m.gone}]
  /\ MaxOutside \in Nat /\ NaN \notin Int \cup {None}
  /\ None \notin Memories /\ None \notin Texts /\ None \notin Copy /\ None \notin Suggestion
  /\ None \notin Sessions /\ None \notin Int /\ None \notin Suggestions /\ None \notin Statuses
  /\ None \notin Images
BY ConstantsOK

\* None is nothing else.
LEMMA NoneApart ==
  /\ None \notin Memories /\ None \notin Texts /\ None \notin Copy /\ None \notin Suggestion
  /\ None \notin Sessions /\ None \notin Suggestions /\ None \notin Statuses /\ None \notin Images
BY Constants

\* A session holds a row as it is in the table.
LEMMA MemoryIsCopy == Memory \subseteq Copy
BY DEF Memory, Copy

\* Loading the images, or not, changes nothing else of the object.
LEMMA ImagesSet ==
  ASSUME NEW x \in Copy, NEW i \in Images \cup {None}
  PROVE  WithImages(x, i) \in Copy /\ WithImages(x, i).gone = x.gone
BY DEF WithImages, Copy

\* The first state: no run, no suggestion, both sessions idle.
LEMMA InitInv == Init => IInv
<1> SUFFICES ASSUME Init PROVE IInv
  OBVIOUS
<1> USE Constants
<1>1. TypeOK
  BY DEF Init, TypeOK, NoCopy, Unseen
<1>2. OneAsks /\ TablesOK /\ \A p \in Sessions : SessionOK(p)
  BY DEF Init, OneAsks, TablesOK, SessionOK, Exists, Filed, Unseen, NoCopy
<1>3. WithinItsMandate /\ MergedSourcesGone /\ HalfAppliedOnlyIfFailed
  BY DEF Init, WithinItsMandate, OnlyWhatWasSent, UnattendedOnlyWhenSure, MergedSourcesGone,
     HalfAppliedOnlyIfFailed, Pending, Exists
<1>4. QED
  BY <1>1, <1>2, <1>3 DEF IInv

-----------------------------------------------------------------------------
(* The operators. *)

\* A confidence is brought into range, whatever the model has said.
LEMMA ClampInRange ==
  ASSUME NEW c \in Int \cup {None, NaN}
  PROVE  Clamp(c) \in (0..100) \cup {None}
<1>1. CASE c = None \/ c = NaN
  BY <1>1, Constants DEF Clamp
<1>2. CASE c \notin {None, NaN}
  BY <1>2, Constants DEF Clamp
<1>3. QED
  BY <1>1, <1>2

\* What is stored for an item of the reply is a suggestion about memories that were sent.
LEMMA RowOfAnItem ==
  ASSUME NEW p \in Sessions, NEW a \in Answers \cup {None}, NEW given \in SUBSET Memories,
         NEW row \in ItemRows(p, a, given)
  PROVE  \/ row = None
         \/ /\ row \in Suggestion /\ row.ids \subseteq given /\ row.target \in row.ids
            /\ row.by = None /\ row.status \in {"pending", "ignored"}
<1> USE Constants
<1>1. CASE a = None \/ Named(a, given) = {}
  BY <1>1 DEF ItemRows
<1>2. CASE a # None /\ Named(a, given) # {}
  <2>1. /\ a \in Answer /\ a.kind \in Kinds /\ a.text \in Texts \cup {None}
        /\ a.confidence \in Int \cup {None, NaN}
    BY <1>2 DEF Answer
  <2>2. Named(a, given) \subseteq given /\ Clamp(a.confidence) \in (0..100) \cup {None}
    BY <2>1, ClampInRange DEF Named
  <2>3. FirstStatus(p, a) \in {"pending", "ignored"}
    BY DEF FirstStatus
  <2>4. PICK t \in Named(a, given) :
          row = [kind |-> a.kind, ids |-> Named(a, given), target |-> t,
                 confidence |-> Clamp(a.confidence), text |-> a.text,
                 status |-> FirstStatus(p, a), by |-> None]
    BY <1>2 DEF ItemRows, Normalized
  <2>5. QED
    BY <2>1, <2>2, <2>3, <2>4 DEF Suggestion, Statuses
<1>3. QED
  BY <1>1, <1>2

\* Applying a suggestion to a row or a copy changes its text and whether it is deleted.
LEMMA AppliedFields ==
  ASSUME NEW p, NEW s, NEW m, NEW old \in Copy,
         Rewrites(p, s, m) => sugg[s].text \in Texts
  PROVE  /\ Applied(p, s, m, old) \in Copy /\ (old \in Memory => Applied(p, s, m, old) \in Memory)
         /\ Applied(p, s, m, old).gone = (old.gone \/ m \in Deleted(p, s))
         /\ Applied(p, s, m, old).images = old.images
         /\ Applied(p, s, m, old).text = IF Rewrites(p, s, m) THEN sugg[s].text ELSE old.text
<1> DEFINE t == IF Rewrites(p, s, m) THEN sugg[s].text ELSE old.text
           g == old.gone \/ m \in Deleted(p, s)
           h == [old EXCEPT !.text = t]
<1>1. t \in Texts /\ g \in BOOLEAN
  BY DEF Copy
<1>2. Applied(p, s, m, old) = [h EXCEPT !.gone = g]
  BY Zenon DEF Applied
<1> HIDE DEF t, g
<1>3. h \in Copy /\ (old \in Memory => h \in Memory) /\ h.text = t /\ h.images = old.images
  BY <1>1 DEF Copy, Memory
<1> HIDE DEF h
<1>4. QED
  BY <1>1, <1>2, <1>3 DEF Copy, Memory, t, g

-----------------------------------------------------------------------------
(* What the steps have in common. *)

\* What only speaks of the tables holds on when they stay as they are.
LEMMA TablesKept ==
  ASSUME TablesOK, WithinItsMandate, MergedSourcesGone, HalfAppliedOnlyIfFailed, UNCHANGED tables
  PROVE  TablesOK' /\ WithinItsMandate' /\ MergedSourcesGone' /\ HalfAppliedOnlyIfFailed'
BY DEF tables, TablesOK, WithinItsMandate, OnlyWhatWasSent, UnattendedOnlyWhenSure, MergedSourcesGone,
   HalfAppliedOnlyIfFailed, Pending, Exists, Filed

\* Session q is not touched.
Left(q) == /\ pc'[q] = pc[q] /\ queue'[q] = queue[q] /\ cur'[q] = cur[q]
           /\ \A m \in Memories : copy'[q][m] = copy[q][m]
           /\ \A s \in Suggestions : seen'[q][s] = seen[q][s]

\* Session q has nothing to do, and what it holds is as old as it was.
AtRest(q) == /\ pc'[q] = "idle" /\ queue'[q] = {} /\ cur'[q] = None
             /\ \A s \in Suggestions : seen'[q][s] = None
             /\ \A m \in Memories : copy'[q][m] \in {None, copy[q][m]}

\* The tables go on: nothing deleted comes back, a suggestion keeps what it proposes, none
\* is filed away that was not.
Onward ==
  /\ run' = "none" <=> run = "none"
  /\ \A m \in Memories : mem[m].gone => mem'[m].gone
  /\ \A s \in Suggestions : Exists(s) =>
       /\ sugg'[s] # None /\ sugg'[s].ids = sugg[s].ids /\ sugg'[s].kind = sugg[s].kind
       /\ sugg'[s].target = sugg[s].target /\ sugg'[s].confidence = sugg[s].confidence
  /\ \A s \in Suggestions : sugg'[s] # None => Exists(s)
  /\ \A s \in Suggestions : Exists(s) /\ ~Filed(s) => sugg'[s].status # "ignored" \/ sugg'[s].by # None

\* What NothingComesBack asks of a step, but for the traces.
NothingLost == /\ \A m \in Memories : mem[m].gone => mem'[m].gone
               /\ \A s \in Suggestions : Filed(s) => sugg'[s] = sugg[s]

\* A session that is not touched stays in order when the tables go on.
LEMMA OthersGoOn ==
  ASSUME NEW q \in Sessions, SessionOK(q), Left(q), Onward
  PROVE  SessionOK(q)'
<1>1. ASSUME NEW s \in Suggestions PROVE /\ Exists(s)' <=> Exists(s) 
                                         /\ Filed(s)' /\ Exists(s) => Filed(s)
                                         /\ Exists(s) /\ SureEnough(s) => SureEnough(s)'
  BY DEF Onward, Exists, Filed, SureEnough, Confidence
<1>2. /\ run' = "none" => /\ pc'[q] \in {"idle", "asking"} /\ cur'[q] = None /\ queue'[q] = {}
                          /\ \A s \in Suggestions : seen'[q][s] = None
      /\ pc'[q] = "asking" => run' = "none"
      /\ pc'[q] \in {"apply", "ignore"} => cur'[q] # None
  BY DEF SessionOK, Left, Onward
<1>3. ASSUME NEW s \in Suggestions
      PROVE  /\ seen'[q][s] # None \/ s \in queue'[q] \/ cur'[q] = s => Exists(s)'
             /\ Filed(s)' => seen'[q][s] # "pending" /\ cur'[q] # s
  BY <1>1, NoneApart DEF SessionOK, Left, Statuses
<1>4. ASSUME NEW s \in Suggestions, pc'[q] = "apply", cur'[q] = s
      PROVE  /\ \A m \in Memories : m \in sugg'[s].ids => copy'[q][m] # None
             /\ q = "auto" => SureEnough(s)'
  <2>1. pc[q] = "apply" /\ cur[q] = s /\ Exists(s)
    BY <1>4 DEF SessionOK, Left
  <2>2. sugg'[s].ids = sugg[s].ids
    BY <2>1 DEF Onward
  <2>3. QED
    BY <1>1, <2>1, <2>2 DEF SessionOK, Left
<1>5. ASSUME NEW m \in Memories, copy'[q][m] # None, copy'[q][m].gone
      PROVE  mem'[m].gone
  <2>1. copy'[q][m] = copy[q][m]
    BY DEF Left
  <2>2. copy[q][m] # None /\ copy[q][m].gone
    BY <1>5, <2>1
  <2>3. QED
    BY <2>2 DEF SessionOK, Onward
<1>6. QED
  BY <1>2, <1>3, <1>4, <1>5 DEF SessionOK

\* So does one that has nothing to do.
LEMMA RestIsOK ==
  ASSUME NEW q \in Sessions, SessionOK(q), AtRest(q), \A m \in Memories : mem[m].gone => mem'[m].gone
  PROVE  SessionOK(q)'
<1>1. /\ run' = "none" => /\ pc'[q] \in {"idle", "asking"} /\ cur'[q] = None /\ queue'[q] = {}
                          /\ \A s \in Suggestions : seen'[q][s] = None
      /\ pc'[q] = "asking" => run' = "none"
      /\ pc'[q] \in {"apply", "ignore"} => cur'[q] # None
  BY DEF AtRest
<1>2. ASSUME NEW s \in Suggestions
      PROVE  /\ seen'[q][s] # None \/ s \in queue'[q] \/ cur'[q] = s => Exists(s)'
             /\ Filed(s)' => seen'[q][s] # "pending" /\ cur'[q] # s
             /\ ~(pc'[q] = "apply" /\ cur'[q] = s)
  BY NoneApart DEF AtRest, Statuses
<1>3. ASSUME NEW m \in Memories, copy'[q][m] # None, copy'[q][m].gone
      PROVE  mem'[m].gone
  <2>1. copy'[q][m] = copy[q][m]
    BY <1>3 DEF AtRest
  <2>2. copy[q][m] # None /\ copy[q][m].gone
    BY <1>3, <2>1
  <2>3. QED
    BY <2>2 DEF SessionOK
<1>4. QED
  BY <1>1, <1>2, <1>3 DEF SessionOK

\* The functions that describe the sessions stay what they are.
SessionTypes ==
  /\ pc' \in [Sessions -> {"idle", "asking", "next", "apply", "ignore"}]
  /\ copy' \in [Sessions -> [Memories -> Copy \cup {None}]]
  /\ seen' \in [Sessions -> [Suggestions -> Statuses \cup {None}]]
  /\ queue' \in [Sessions -> SUBSET Suggestions]
  /\ cur' \in [Sessions -> Suggestions \cup {None}]

\* A closed session is at rest, and the other one goes on as it was.
LEMMA Closing ==
  ASSUME TypeOK, NEW p \in Sessions, Close(p)
  PROVE  SessionTypes /\ AtRest(p) /\ \A q \in Sessions \ {p} : Left(q)
BY DEF TypeOK, Close, SessionTypes, AtRest, Left, Goto, NoCopy, Unseen

\* A step that closes a session and takes the tables on leaves the sessions in order.
LEMMA CloseSessions ==
  ASSUME IInv, NEW p \in Sessions, Close(p), Onward
  PROVE  OneAsks' /\ \A q \in Sessions : SessionOK(q)'
<1>1. AtRest(p) /\ \A q \in Sessions \ {p} : Left(q)
  BY Closing DEF IInv
<1>2. OneAsks'
  BY <1>1 DEF IInv, OneAsks, AtRest, Left
<1>3. SessionOK(p)'
  BY <1>1, RestIsOK DEF IInv, Onward
<1>4. ASSUME NEW q \in Sessions \ {p} PROVE SessionOK(q)'
  BY <1>1, OthersGoOn DEF IInv
<1>5. QED
  BY <1>2, <1>3, <1>4

\* When the tables do not move they go on.
LEMMA StandingStill ==
  ASSUME UNCHANGED tables
  PROVE  Onward
BY DEF tables, Onward, Exists, Filed

-----------------------------------------------------------------------------
(* Steps that leave the tables alone. *)

\* Die, Finish.
LEMMA CloseStep ==
  ASSUME IInv, NEW p \in Sessions, Close(p), UNCHANGED tables
  PROVE  IInv'
<1>1. TypeOK'
  BY Closing DEF IInv, TypeOK, SessionTypes, tables
<1>2. QED
  BY <1>1, CloseSessions, StandingStill, TablesKept DEF IInv

\* StartRun: the reviewed memories are loaded, the run is not there yet.
LEMMA StartRunStep ==
  ASSUME IInv, NEW p \in Sessions, StartRun(p)
  PROVE  IInv'
<1>1. PICK chosen \in SUBSET Memories :
        copy' = [copy EXCEPT ![p] = [m \in Memories |-> IF m \in chosen THEN WithImages(mem[m], None)
                                                                        ELSE None]]
  BY DEF StartRun
<1>2. /\ pc[p] = "idle" /\ run = "none" /\ \A q \in Sessions : pc[q] # "asking"
      /\ pc' = [pc EXCEPT ![p] = "asking"] /\ UNCHANGED <<tables, seen, queue, cur>>
  BY DEF StartRun, Goto
<1>3. ASSUME NEW m \in Memories
      PROVE  WithImages(mem[m], None) \in Copy /\ WithImages(mem[m], None).gone = mem[m].gone
  BY MemoryIsCopy, ImagesSet DEF IInv, TypeOK
<1>4. /\ copy' \in [Sessions -> [Memories -> Copy \cup {None}]]
      /\ \A m \in Memories : copy'[p][m] # None => copy'[p][m].gone = mem[m].gone
      /\ pc'[p] = "asking" /\ cur'[p] = cur[p] /\ queue'[p] = queue[p] /\ seen'[p] = seen[p]
      /\ \A q \in Sessions \ {p} : Left(q)
  BY <1>1, <1>2, <1>3 DEF IInv, TypeOK, Left
<1>5. TypeOK'
  BY <1>2, <1>4 DEF IInv, TypeOK, tables
<1>6. OneAsks'
  BY <1>2, <1>4 DEF IInv, OneAsks, Left
<1>7. SessionOK(p)'
  <2>1. /\ cur'[p] = None /\ queue'[p] = {} /\ \A s \in Suggestions : seen'[p][s] = None
        /\ run' = "none" /\ mem' = mem
    BY <1>2, <1>4 DEF IInv, SessionOK, tables
  <2>2. QED
    BY <1>4, <2>1, NoneApart DEF SessionOK, Statuses
<1>8. ASSUME NEW q \in Sessions \ {p} PROVE SessionOK(q)'
  BY <1>2, <1>4, OthersGoOn, StandingStill DEF IInv
<1>9. QED
  BY <1>2, <1>5, <1>6, <1>7, <1>8, TablesKept DEF IInv

\* Skip: one suggestion less to look at.
LEMMA SkipStep ==
  ASSUME IInv, NEW p \in Sessions, Skip(p)
  PROVE  IInv'
<1>1. /\ queue' \in [Sessions -> SUBSET Suggestions] /\ queue'[p] \subseteq queue[p]
      /\ \A q \in Sessions \ {p} : queue'[q] = queue[q]
      /\ pc[p] = "next" /\ UNCHANGED <<tables, pc, copy, seen, cur>>
  BY DEF Skip, IInv, TypeOK
<1>2. TypeOK' /\ OneAsks'
  BY <1>1 DEF IInv, TypeOK, OneAsks, tables
<1>3. ASSUME NEW q \in Sessions \ {p} PROVE SessionOK(q)'
  BY <1>1, OthersGoOn, StandingStill DEF IInv, Left
<1>4. SessionOK(p)'
  <2>1. /\ SessionOK(p) /\ Confidence(cur[p])' = Confidence(cur[p])
        /\ UNCHANGED <<mem, run, sugg, pc, copy, seen, cur>>
    BY <1>1 DEF IInv, tables, Confidence
  <2>2. QED
    BY <1>1, <2>1 DEF SessionOK, Exists, Filed, SureEnough, Confidence
<1>5. QED
  BY <1>1, <1>2, <1>3, <1>4, TablesKept DEF IInv

\* apply_suggestion's SELECT: a copy is completed, never made newer.
LEMMA ReadMemoriesStep ==
  ASSUME IInv, NEW p \in Sessions, ReadMemories(p)
  PROVE  IInv'
<1>1. PICK s \in queue[p] :
        /\ Wants(p, s) /\ cur' = [cur EXCEPT ![p] = s] /\ queue' = [queue EXCEPT ![p] = @ \ {s}]
        /\ copy' = [copy EXCEPT ![p] = [m \in Memories |->
             IF m \notin sugg[s].ids THEN @[m]
             ELSE IF @[m] = None THEN mem[m]
             ELSE IF @[m].images = None THEN WithImages(@[m], mem[m].images)
             ELSE @[m]]]
  BY DEF ReadMemories
<1>2. pc[p] = "next" /\ pc' = [pc EXCEPT ![p] = "apply"] /\ UNCHANGED <<tables, seen>>
  BY DEF ReadMemories, Goto
<1>3. /\ s \in Suggestions /\ s # None /\ Exists(s) /\ SessionOK(p) /\ run # "none"
      /\ seen[p][s] = "pending" /\ ~Filed(s)
      /\ p = "auto" => SureEnough(s)
  BY <1>1, <1>2, NoneApart DEF IInv, TypeOK, SessionOK, Wants, SureEnough
<1>4. ASSUME NEW m \in Memories
      PROVE  /\ mem[m] \in Copy /\ mem[m] # None /\ mem[m].images \in Images
             /\ copy[p][m] # None => /\ WithImages(copy[p][m], mem[m].images) \in Copy
                                     /\ WithImages(copy[p][m], mem[m].images) # None
                                     /\ WithImages(copy[p][m], mem[m].images).gone = copy[p][m].gone
  <2>1. mem[m] \in Memory /\ copy[p][m] \in Copy \cup {None}
    BY DEF IInv, TypeOK
  <2>2. mem[m] \in Copy /\ mem[m].images \in Images
    BY <2>1, MemoryIsCopy DEF Memory
  <2>3. QED
    BY <2>1, <2>2, ImagesSet, NoneApart
<1>5. /\ copy' \in [Sessions -> [Memories -> Copy \cup {None}]]
      /\ \A m \in Memories : m \in sugg[s].ids => copy'[p][m] # None
      /\ \A m \in Memories : \/ copy'[p][m] = None \/ copy'[p][m].gone = mem[m].gone
                             \/ copy[p][m] # None /\ copy'[p][m].gone = copy[p][m].gone
      /\ \A q \in Sessions \ {p} : copy'[q] = copy[q]
  <2> DEFINE new(m) == IF m \notin sugg[s].ids THEN copy[p][m]
                       ELSE IF copy[p][m] = None THEN mem[m]
                       ELSE IF copy[p][m].images = None THEN WithImages(copy[p][m], mem[m].images)
                       ELSE copy[p][m]
  <2>1. copy' = [copy EXCEPT ![p] = [m \in Memories |-> new(m)]] /\ copy \in [Sessions -> [Memories -> Copy \cup {None}]]
    BY <1>1, Zenon DEF IInv, TypeOK
  <2>2. \A m \in Memories : /\ new(m) \in Copy \cup {None} /\ (m \in sugg[s].ids => new(m) # None)
                            /\ \/ new(m) = None \/ new(m).gone = mem[m].gone
                               \/ copy[p][m] # None /\ new(m).gone = copy[p][m].gone
    BY <1>4 DEF IInv, TypeOK
  <2> HIDE DEF new
  <2>3. QED
    BY <2>1, <2>2
<1>7. /\ pc'[p] = "apply" /\ cur'[p] = s /\ queue'[p] = queue[p] \ {s} /\ seen'[p] = seen[p]
      /\ \A q \in Sessions \ {p} : Left(q)
  BY <1>1, <1>2, <1>5 DEF IInv, TypeOK, Left
<1>8. TypeOK'
  BY <1>1, <1>2, <1>3, <1>5 DEF IInv, TypeOK, tables
<1>9. OneAsks'
  BY <1>2, <1>7 DEF IInv, OneAsks, Left
<1>10. SessionOK(p)'
  <2>1. /\ UNCHANGED <<mem, run, sugg>> /\ SureEnough(s)' = SureEnough(s)
        /\ \A o \in Suggestions : (Exists(o)' <=> Exists(o)) /\ (Filed(o)' <=> Filed(o))
    BY <1>2 DEF tables, SureEnough, Confidence, Exists, Filed
  <2>2. ASSUME NEW o \in Suggestions
        PROVE  /\ seen'[p][o] # None \/ o \in queue'[p] \/ cur'[p] = o => Exists(o)'
               /\ Filed(o)' => seen'[p][o] # "pending" /\ cur'[p] # o
    BY <1>3, <1>7, <2>1 DEF SessionOK
  <2>3. ASSUME NEW m \in Memories, copy'[p][m] # None, copy'[p][m].gone
        PROVE  mem'[m].gone
    <3>1. CASE copy'[p][m].gone = mem[m].gone
      BY <2>1, <2>3, <3>1
    <3>2. CASE copy[p][m] # None /\ copy'[p][m].gone = copy[p][m].gone
      <4>1. copy[p][m].gone
        BY <2>3, <3>2
      <4>2. QED
        BY <1>3, <2>1, <3>2, <4>1 DEF SessionOK
    <3>3. QED
      BY <1>5, <2>3, <3>1, <3>2
  <2>4. ASSUME NEW o \in Suggestions, cur'[p] = o
        PROVE  /\ \A m \in Memories : m \in sugg'[o].ids => copy'[p][m] # None
               /\ p = "auto" => SureEnough(o)'
    <3>1. o = s /\ sugg' = sugg
      BY <1>7, <2>1, <2>4
    <3>2. QED
      BY <1>3, <1>5, <2>1, <3>1
  <2>5. QED
    BY <1>3, <1>7, <2>1, <2>2, <2>3, <2>4 DEF SessionOK
<1>11. ASSUME NEW q \in Sessions \ {p} PROVE SessionOK(q)'
  BY <1>2, <1>7, OthersGoOn, StandingStill DEF IInv
<1>12. QED
  BY <1>2, <1>8, <1>9, <1>10, <1>11, TablesKept DEF IInv

\* The admin's apply and apply-all forms.
LEMMA OpenReviewStep ==
  ASSUME IInv, OpenReview
  PROVE  IInv'
<1> DEFINE p == "admin"
<1>1. PICK S \in SUBSET Suggestions :
        /\ S # {} /\ \A s \in S : Exists(s)
        /\ seen' = [seen EXCEPT ![p] = [s \in Suggestions |-> IF s \in S THEN sugg[s].status ELSE None]]
        /\ queue' = [queue EXCEPT ![p] = S]
  BY DEF OpenReview, Pending
<1>2. /\ pc[p] = "idle" /\ pc' = [pc EXCEPT ![p] = "next"] /\ p \in Sessions
      /\ UNCHANGED <<tables, copy, cur>>
  BY DEF OpenReview, Goto, Sessions
<1> HIDE DEF p
<1>3. \A s \in S : sugg[s].status \in Statuses
  BY <1>1 DEF IInv, TypeOK, Exists, Suggestion
<1>4. /\ pc'[p] = "next" /\ queue'[p] = S /\ cur'[p] = cur[p] /\ copy'[p] = copy[p]
      /\ \A s \in Suggestions : seen'[p][s] = IF s \in S THEN sugg[s].status ELSE None
      /\ \A q \in Sessions \ {p} : Left(q)
      /\ seen' \in [Sessions -> [Suggestions -> Statuses \cup {None}]]
      /\ queue' \in [Sessions -> SUBSET Suggestions]
  BY <1>1, <1>2, <1>3 DEF IInv, TypeOK, Left
<1>5. TypeOK' /\ OneAsks'
  BY <1>2, <1>4 DEF IInv, TypeOK, OneAsks, Left, tables
<1>6. SessionOK(p)'
  <2>1. /\ SessionOK(p) /\ UNCHANGED <<mem, run, sugg>> /\ run # "none"
        /\ \A s \in Suggestions : (Exists(s)' <=> Exists(s)) /\ (Filed(s)' <=> Filed(s))
    BY <1>1, <1>2 DEF IInv, TablesOK, tables, Exists, Filed
  <2>2. \A s \in Suggestions : Filed(s) => sugg[s].status # "pending" /\ None # "pending"
    BY NoneApart DEF Filed, Statuses
  <2>3. QED
    BY <1>1, <1>2, <1>4, <2>1, <2>2 DEF SessionOK
<1>7. ASSUME NEW q \in Sessions \ {p} PROVE SessionOK(q)'
  BY <1>2, <1>4, OthersGoOn, StandingStill DEF IInv
<1>8. QED
  BY <1>2, <1>5, <1>6, <1>7, TablesKept DEF IInv

\* ignore_suggestion, before its commit.
LEMMA OpenIgnoreStep ==
  ASSUME IInv, OpenIgnore
  PROVE  IInv'
<1> DEFINE p == "admin"
<1>1. PICK s \in Suggestions : Exists(s) /\ sugg[s].status = "pending" /\ cur' = [cur EXCEPT ![p] = s]
  BY DEF OpenIgnore
<1>2. /\ pc[p] = "idle" /\ pc' = [pc EXCEPT ![p] = "ignore"] /\ p \in Sessions
      /\ UNCHANGED <<tables, copy, seen, queue>>
  BY DEF OpenIgnore, Goto, Sessions
<1> HIDE DEF p
<1>3. /\ pc'[p] = "ignore" /\ cur'[p] = s /\ \A q \in Sessions \ {p} : Left(q)
  BY <1>1, <1>2 DEF IInv, TypeOK, Left
<1>4. TypeOK' /\ OneAsks'
  BY <1>1, <1>2, <1>3 DEF IInv, TypeOK, OneAsks, Left, tables
<1>5. SessionOK(p)'
  <2>1. /\ SessionOK(p) /\ UNCHANGED <<mem, run, sugg, copy, seen, queue>> /\ run # "none"
        /\ \A o \in Suggestions : (Exists(o)' <=> Exists(o)) /\ (Filed(o)' <=> Filed(o))
        /\ ~Filed(s) /\ s # None
    BY <1>1, <1>2, NoneApart DEF IInv, TablesOK, tables, Exists, Filed
  <2>2. QED
    BY <1>1, <1>3, <2>1 DEF SessionOK
<1>6. ASSUME NEW q \in Sessions \ {p} PROVE SessionOK(q)'
  BY <1>2, <1>3, OthersGoOn, StandingStill DEF IInv
<1>7. QED
  BY <1>2, <1>4, <1>5, <1>6, TablesKept DEF IInv

-----------------------------------------------------------------------------
(* Steps that change the tables. *)

\* While a run is prepared there is nothing else in this part of the database, and the other
\* session has nothing to do.
LEMMA NothingElse ==
  ASSUME IInv, NEW p \in Sessions, pc[p] = "asking"
  PROVE  /\ run = "none" /\ \A s \in Suggestions : ~Exists(s)
         /\ \A m \in Memories : traces[m] = {}
         /\ cur[p] = None /\ SessionOK(p)
         /\ \A q \in Sessions \ {p} : /\ pc[q] = "idle" /\ queue[q] = {} /\ cur[q] = None
                                      /\ \A s \in Suggestions : seen[q][s] = None
                                      /\ SessionOK(q)
BY DEF IInv, OneAsks, TablesOK, SessionOK

\* The reply is stored with the run.
LEMMA StoreReplyStep ==
  ASSUME IInv, NEW p \in Sessions, StoreReply(p)
  PROVE  IInv'
<1> DEFINE given == {m \in Memories : copy[p][m] # None}
<1>1. PICK reply \in [Suggestions -> Answers \cup {None}],
           rows \in [Suggestions -> UNION {ItemRows(p, a, given) : a \in Answers \cup {None}}] :
        /\ \A s \in Suggestions : rows[s] \in ItemRows(p, reply[s], given)
        /\ sugg' = rows
        /\ IF p = "admin" THEN Close(p)
           ELSE /\ queue' = [queue EXCEPT ![p] = {s \in Suggestions : rows[s] # None}]
                /\ seen' = [seen EXCEPT ![p] = [s \in Suggestions |->
                              IF rows[s] = None THEN None ELSE rows[s].status]]
                /\ Goto(p, "next")
                /\ UNCHANGED <<copy, cur>>
  BY DEF StoreReply
<1>2. /\ pc[p] = "asking" /\ run' = "completed" /\ scope' = given /\ UNCHANGED <<mem, traces, outside>>
      /\ given \in SUBSET Memories
  BY DEF StoreReply
<1>3. \A s \in Suggestions :
        \/ sugg'[s] = None
        \/ /\ sugg'[s] # None /\ sugg'[s] \in Suggestion /\ sugg'[s].ids \subseteq given
           /\ sugg'[s].target \in sugg'[s].ids
           /\ sugg'[s].by = None /\ sugg'[s].status \in {"pending", "ignored"}
  <2> SUFFICES ASSUME NEW s \in Suggestions, sugg'[s] # None
               PROVE  /\ sugg'[s] \in Suggestion /\ sugg'[s].ids \subseteq given
                      /\ sugg'[s].target \in sugg'[s].ids
                      /\ sugg'[s].by = None /\ sugg'[s].status \in {"pending", "ignored"}
    OBVIOUS
  <2>1. reply[s] \in Answers \cup {None} /\ sugg'[s] \in ItemRows(p, reply[s], given)
    BY <1>1
  <2> HIDE DEF given
  <2>2. QED
    BY <1>2, <2>1, RowOfAnItem
<1>4. sugg' \in [Suggestions -> Suggestion \cup {None}]
  BY <1>1, <1>3
<1>5. /\ SessionTypes /\ OneAsks' /\ pc'[p] \in {"idle", "next"}
      /\ \A q \in Sessions \ {p} : Left(q)
  <2>1. CASE p = "admin"
    <3>1. /\ SessionTypes /\ AtRest(p) /\ \A q \in Sessions \ {p} : Left(q)
      BY <1>1, <2>1, Closing DEF IInv
    <3>2. QED
      BY <3>1 DEF IInv, OneAsks, AtRest, Left
  <2>2. CASE p # "admin"
    <3>1. \A s \in Suggestions : rows[s] # None => rows[s].status \in Statuses
      BY <1>1, <1>3 DEF Statuses
    <3>2. /\ pc' = [pc EXCEPT ![p] = "next"] /\ UNCHANGED <<copy, cur>>
          /\ queue' = [queue EXCEPT ![p] = {s \in Suggestions : rows[s] # None}]
          /\ seen' = [seen EXCEPT ![p] = [s \in Suggestions |->
                        IF rows[s] = None THEN None ELSE rows[s].status]]
      BY <1>1, <2>2 DEF Goto
    <3>3. SessionTypes
      BY <3>1, <3>2 DEF IInv, TypeOK, SessionTypes
    <3>4. QED
      BY <3>2, <3>3 DEF IInv, TypeOK, OneAsks, Left
  <2>3. QED
    BY <2>1, <2>2
<1> HIDE DEF given
<1>6. TypeOK'
  BY <1>2, <1>4, <1>5 DEF IInv, TypeOK, SessionTypes
<1>7. TablesOK'
  BY <1>2, <1>3, NothingElse DEF TablesOK, Exists
<1>8. WithinItsMandate' /\ MergedSourcesGone' /\ HalfAppliedOnlyIfFailed'
  BY <1>2, <1>3, NothingElse DEF WithinItsMandate, OnlyWhatWasSent, UnattendedOnlyWhenSure,
     MergedSourcesGone, HalfAppliedOnlyIfFailed, Exists, Pending
<1>9. ASSUME NEW q \in Sessions \ {p} PROVE SessionOK(q)'
  <2>1. AtRest(q) /\ SessionOK(q) /\ \A m \in Memories : mem[m].gone => mem'[m].gone
    BY <1>2, <1>5, NothingElse DEF AtRest, Left
  <2>2. QED
    BY <2>1, RestIsOK
<1>10. SessionOK(p)'
  <2>1. SessionOK(p) /\ \A m \in Memories : mem[m].gone => mem'[m].gone
    BY <1>2, NothingElse
  <2>2. CASE p = "admin"
    BY <1>1, <2>1, <2>2, Closing, RestIsOK DEF IInv
  <2>3. CASE p # "admin"
    <3>1. /\ pc'[p] = "next" /\ cur'[p] = None /\ copy'[p] = copy[p] /\ UNCHANGED mem
          /\ queue'[p] = {s \in Suggestions : sugg'[s] # None}
          /\ \A s \in Suggestions : seen'[p][s] = IF sugg'[s] = None THEN None ELSE sugg'[s].status
      BY <1>1, <1>2, <2>3, NothingElse DEF IInv, TypeOK, Goto
    <3>2. QED
      BY <1>2, <1>3, <2>1, <3>1, NoneApart DEF SessionOK, Exists, Filed, Statuses
  <2>4. QED
    BY <2>2, <2>3
<1>11. QED
  BY <1>5, <1>6, <1>7, <1>8, <1>9, <1>10 DEF IInv

\* The model fails: the run is committed as failed, without a suggestion.
LEMMA ReplyFailsStep ==
  ASSUME IInv, NEW p \in Sessions, ReplyFails(p)
  PROVE  IInv'
<1>1. /\ pc[p] = "asking" /\ run' = "failed" /\ UNCHANGED <<mem, scope, sugg, traces, outside>>
      /\ Close(p)
  BY DEF ReplyFails
<1>2. SessionTypes /\ AtRest(p) /\ \A q \in Sessions \ {p} : Left(q)
  BY <1>1, Closing DEF IInv
<1>3. TypeOK'
  BY <1>1, <1>2 DEF IInv, TypeOK, SessionTypes
<1>4. OneAsks'
  BY <1>2 DEF IInv, OneAsks, AtRest, Left
<1>5. \A s \in Suggestions : ~Exists(s)' /\ ~Filed(s)'
  BY <1>1, NothingElse DEF Exists, Filed
<1>6. TablesOK' /\ WithinItsMandate' /\ MergedSourcesGone' /\ HalfAppliedOnlyIfFailed'
  BY <1>1, <1>5, NothingElse DEF TablesOK, WithinItsMandate, OnlyWhatWasSent,
     UnattendedOnlyWhenSure, MergedSourcesGone, HalfAppliedOnlyIfFailed, Pending
<1>7. ASSUME NEW q \in Sessions PROVE SessionOK(q)'
  <2>1. AtRest(q) /\ SessionOK(q) /\ \A m \in Memories : mem[m].gone => mem'[m].gone
    BY <1>1, <1>2, NothingElse DEF AtRest, Left
  <2>2. QED
    BY <2>1, RestIsOK
<1>8. QED
  BY <1>3, <1>4, <1>6, <1>7 DEF IInv

\* A decision changes one suggestion's status and who has decided.
LEMMA Decided ==
  ASSUME TypeOK, NEW s \in Suggestions, Exists(s), NEW st \in {"applied", "ignored"}, NEW p \in Sessions,
         sugg' = [sugg EXCEPT ![s].status = st, ![s].by = p]
  PROVE  /\ sugg' \in [Suggestions -> Suggestion \cup {None}]
         /\ \A o \in Suggestions \ {s} : sugg'[o] = sugg[o]
         /\ sugg'[s] # None /\ sugg'[s].status = st /\ sugg'[s].by = p
         /\ sugg'[s].ids = sugg[s].ids /\ sugg'[s].kind = sugg[s].kind
         /\ sugg'[s].target = sugg[s].target /\ sugg'[s].confidence = sugg[s].confidence
         /\ sugg'[s].text = sugg[s].text
<1> DEFINE x == [sugg[s] EXCEPT !.status = st]
           y == [x EXCEPT !.by = p]
           S == [sugg EXCEPT ![s] = x]
<1>1. sugg[s] \in Suggestion /\ sugg \in [Suggestions -> Suggestion \cup {None}]
  BY DEF TypeOK, Exists
<1>2. /\ x \in Suggestion /\ x.status = st /\ x.ids = sugg[s].ids /\ x.kind = sugg[s].kind
      /\ x.target = sugg[s].target /\ x.confidence = sugg[s].confidence /\ x.text = sugg[s].text
  BY <1>1 DEF Suggestion, Statuses
<1>3. sugg' = [S EXCEPT ![s].by = p]
  OBVIOUS
<1> HIDE DEF x
<1>4. /\ y \in Suggestion /\ y.status = st /\ y.ids = x.ids /\ y.kind = x.kind /\ y.by = p
      /\ y.target = x.target /\ y.confidence = x.confidence /\ y.text = x.text
  BY <1>2 DEF Suggestion
<1>5. sugg' = [S EXCEPT ![s] = y]
  BY <1>1, <1>3
<1> HIDE DEF y
<1>6. sugg' = [sugg EXCEPT ![s] = y]
  BY <1>1, <1>5
<1>7. sugg'[s] = y /\ \A o \in Suggestions \ {s} : sugg'[o] = sugg[o]
  BY <1>1, <1>6
<1>8. sugg' \in [Suggestions -> Suggestion \cup {None}]
  BY <1>1, <1>4, <1>6
<1>9. y # None
  BY <1>4, NoneApart
<1> HIDE DEF S
<1>10. QED
  BY <1>2, <1>4, <1>7, <1>8, <1>9

\* A decision takes the tables on.
LEMMA DecisionGoesOn ==
  ASSUME TypeOK, NEW s \in Suggestions, Exists(s), NEW st \in {"applied", "ignored"}, NEW p \in Sessions,
         sugg' = [sugg EXCEPT ![s].status = st, ![s].by = p],
         \A m \in Memories : mem[m].gone => mem'[m].gone,
         run' = run
  PROVE  Onward
<1>1. /\ \A o \in Suggestions \ {s} : sugg'[o] = sugg[o]
      /\ sugg'[s] # None /\ sugg'[s].status = st /\ sugg'[s].by = p
      /\ sugg'[s].ids = sugg[s].ids /\ sugg'[s].kind = sugg[s].kind
      /\ sugg'[s].target = sugg[s].target /\ sugg'[s].confidence = sugg[s].confidence
  BY Decided
<1>2. p # None
  BY NoneApart
<1>3. ASSUME NEW o \in Suggestions
      PROVE  /\ sugg'[o] # None <=> Exists(o)
             /\ Exists(o) => /\ sugg'[o].ids = sugg[o].ids /\ sugg'[o].kind = sugg[o].kind
                             /\ sugg'[o].target = sugg[o].target
                             /\ sugg'[o].confidence = sugg[o].confidence
             /\ ~Filed(o) /\ Exists(o) => sugg'[o].status # "ignored" \/ sugg'[o].by # None
  <2>1. CASE o = s
    BY <1>1, <1>2, <2>1 DEF Exists
  <2>2. CASE o # s
    BY <1>1, <2>2 DEF Exists, Filed
  <2>3. QED
    BY <2>1, <2>2
<1>4. QED
  BY <1>3 DEF Onward

\* What was done on behalf of a suggestion was proposed by it, for a memory that was sent, and
\* by the background task only when the model was sure.
Justified(p, s, m) == /\ Exists(s) /\ ~Filed(s) /\ m \in sugg[s].ids
                      /\ p = "auto" => SureEnough(s)

\* A step that takes the tables on and leaves justified traces keeps the tables in order.
LEMMA TablesFollow ==
  ASSUME IInv, Onward, TypeOK', run # "none", scope' = scope,
         NEW p \in Sessions, NEW s \in Suggestions,
         \A m \in Memories : \/ traces'[m] = traces[m]
                             \/ traces'[m] = traces[m] \cup {<<p, s>>} /\ Justified(p, s, m)
  PROVE  TablesOK' /\ WithinItsMandate'
<1>1. ASSUME NEW m \in Memories, NEW q \in Sessions, NEW o \in Suggestions, <<q, o>> \in traces'[m]
      PROVE  Justified(q, o, m)
  <2>1. CASE <<q, o>> \in traces[m]
    <3> DEFINE e == <<q, o>>
    <3>1. /\ m \in sugg[e[2]].ids
          /\ e[1] = "auto" => /\ sugg[e[2]].confidence # None
                              /\ sugg[e[2]].confidence >= AutoApplyConfidence
                              /\ sugg[e[2]].kind \in Kinds \ {"soft_delete"}
      <4>1. Exists(o) /\ sugg[o] \in Suggestion
        BY <2>1 DEF IInv, TypeOK, TablesOK, Exists
      <4>2. sugg[o].kind \in Kinds
        BY <4>1 DEF Suggestion
      <4>3. QED
        BY <2>1, <4>2 DEF IInv, WithinItsMandate, OnlyWhatWasSent, UnattendedOnlyWhenSure
    <3>2. Exists(o) /\ ~Filed(o)
      BY <2>1 DEF IInv, TablesOK
    <3>3. QED
      BY <3>1, <3>2 DEF Justified, SureEnough, Confidence, Kinds, AutoKinds
  <2>2. CASE <<q, o>> \notin traces[m]
    BY <1>1, <2>2
  <2>3. QED
    BY <2>1, <2>2
<1>2. ASSUME NEW o \in Suggestions, sugg'[o] # None
      PROVE  Exists(o) /\ sugg'[o].ids \subseteq scope' /\ sugg'[o].target \in sugg'[o].ids
  BY <1>2 DEF IInv, TablesOK, Onward, Exists
<1>3. ASSUME NEW m \in Memories, NEW q \in Sessions, NEW o \in Suggestions, <<q, o>> \in traces'[m]
      PROVE  /\ Exists(o)' /\ ~Filed(o)' /\ m \in sugg'[o].ids /\ m \in scope'
             /\ q = "auto" => SureEnough(o)'
  BY <1>1, <1>2, <1>3 DEF Justified, Onward, Exists, Filed, SureEnough, Confidence
<1>4. TablesOK'
  BY <1>2, <1>3 DEF TablesOK, Onward, Exists
<1>5. OnlyWhatWasSent'
  <2>1. ASSUME NEW m \in Memories, NEW e \in traces'[m] PROVE m \in sugg'[e[2]].ids /\ m \in scope'
    <3>1. e[1] \in Sessions /\ e[2] \in Suggestions /\ e = <<e[1], e[2]>>
      BY DEF TypeOK
    <3>2. QED
      BY <1>3, <3>1
  <2>2. QED
    BY <1>2, <2>1 DEF OnlyWhatWasSent, Exists
<1>6. UnattendedOnlyWhenSure'
  <2> SUFFICES ASSUME NEW m \in Memories, NEW e \in traces'[m], e[1] = "auto"
               PROVE  /\ sugg'[e[2]].confidence # None
                      /\ sugg'[e[2]].confidence >= AutoApplyConfidence
                      /\ sugg'[e[2]].kind # "soft_delete"
    BY DEF UnattendedOnlyWhenSure
  <2>1. e[1] \in Sessions /\ e[2] \in Suggestions /\ e = <<e[1], e[2]>>
    BY DEF TypeOK
  <2>2. SureEnough(e[2])'
    BY <1>3, <2>1
  <2>3. QED
    BY <2>2 DEF SureEnough, Confidence, AutoKinds, AutoApplyConfidence
<1>7. QED
  BY <1>4, <1>5, <1>6 DEF WithinItsMandate

\* ignore_suggestion's commit.
LEMMA CommitIgnoreStep ==
  ASSUME IInv, CommitIgnore
  PROVE  IInv' /\ NothingLost
<1> DEFINE s == cur["admin"]
<1>1. /\ "admin" \in Sessions /\ s \in Suggestions /\ Exists(s) /\ ~Filed(s) /\ TypeOK
      /\ SessionOK("admin")
  BY DEF CommitIgnore, IInv, TypeOK, SessionOK, Sessions
<1>2. /\ sugg' = [sugg EXCEPT ![s].status = "ignored", ![s].by = "admin"]
      /\ Close("admin") /\ UNCHANGED <<mem, run, scope, traces, outside>>
  BY DEF CommitIgnore
<1> HIDE DEF s
<1>3. /\ sugg' \in [Suggestions -> Suggestion \cup {None}]
      /\ \A o \in Suggestions \ {s} : sugg'[o] = sugg[o]
      /\ sugg'[s] # None /\ sugg'[s].status = "ignored" /\ sugg'[s].by = "admin"
      /\ sugg'[s].ids = sugg[s].ids /\ sugg'[s].kind = sugg[s].kind
      /\ sugg'[s].target = sugg[s].target /\ sugg'[s].confidence = sugg[s].confidence
  BY <1>1, <1>2, Decided
<1>4. Onward
  BY <1>1, <1>2, DecisionGoesOn
<1>5. TypeOK'
  BY <1>1, <1>2, <1>3, Closing DEF TypeOK, SessionTypes
<1>6. run # "none"
  BY <1>1 DEF IInv, TablesOK
<1>7. TablesOK' /\ WithinItsMandate'
  BY <1>1, <1>2, <1>4, <1>5, <1>6, TablesFollow
<1>8. MergedSourcesGone' /\ HalfAppliedOnlyIfFailed'
  BY <1>1, <1>2, <1>3 DEF IInv, MergedSourcesGone, HalfAppliedOnlyIfFailed, Pending, Exists
<1>9. QED
  <2>1. NothingLost
    BY <1>1, <1>2, <1>3 DEF NothingLost
  <2>2. QED
    BY <1>1, <1>2, <1>4, <1>5, <1>7, <1>8, <2>1, CloseSessions DEF IInv

\* What a session knows of the suggestion it is about to apply.
LEMMA AboutToApply ==
  ASSUME IInv, NEW p \in Sessions, pc[p] = "apply", NEW s, s = cur[p]
  PROVE  /\ s \in Suggestions /\ Exists(s) /\ ~Filed(s) /\ (p = "auto" => SureEnough(s))
         /\ sugg[s] \in Suggestion /\ sugg[s].target \in sugg[s].ids /\ sugg[s].ids \subseteq Memories
         /\ \A m \in sugg[s].ids : copy[p][m] \in Copy
         /\ \A m : Rewrites(p, s, m) => m = sugg[s].target /\ sugg[s].text \in Texts
         /\ run # "none"
<1>1. SessionOK(p) /\ TypeOK /\ TablesOK
  BY DEF IInv
<1>2. s \in Suggestions /\ Exists(s) /\ ~Filed(s) /\ (p = "auto" => SureEnough(s)) /\ run # "none"
  BY <1>1 DEF TypeOK, SessionOK
<1>3. /\ sugg[s] \in Suggestion /\ sugg[s].target \in sugg[s].ids /\ sugg[s].ids \subseteq Memories
      /\ sugg[s].text \in Texts \cup {None}
  BY <1>1, <1>2 DEF TypeOK, TablesOK, Exists, Suggestion
<1>4. \A m \in sugg[s].ids : copy[p][m] \in Copy
  <2>1. ASSUME NEW m \in sugg[s].ids PROVE m \in Memories /\ copy[p][m] # None
    BY <1>1, <1>2, <1>3 DEF SessionOK
  <2>2. QED
    BY <1>1, <2>1 DEF TypeOK
<1>5. \A m : Rewrites(p, s, m) => m = sugg[s].target /\ sugg[s].text \in Texts
  BY <1>3 DEF Rewrites, Proposes
<1>6. QED
  BY <1>2, <1>3, <1>4, <1>5

\* apply_suggestion fails: what the background task's session holds is committed as it is.
LEMMA ApplyRaisesStep ==
  ASSUME IInv, NEW p \in Sessions, ApplyRaises(p)
  PROVE  IInv' /\ NothingLost
<1> DEFINE s == cur[p]
           t == sugg[s].target
<1>1. pc[p] = "apply" /\ Close(p) /\ UNCHANGED <<scope, sugg, outside>>
  BY DEF ApplyRaises
<1>2. CASE p = "admin"
  <2>1. UNCHANGED tables
    BY <1>1, <1>2 DEF ApplyRaises, tables
  <2>2. QED
    BY <1>1, <2>1, CloseStep DEF tables, NothingLost
<1>3. CASE p # "admin"
  <2>1. /\ p = "auto" /\ run' = "failed"
        /\ IF Rewrites(p, s, t) THEN /\ mem' = [mem EXCEPT ![t].text = sugg[s].text]
                                     /\ traces' = [traces EXCEPT ![t] = @ \cup {<<p, s>>}]
           ELSE UNCHANGED <<mem, traces>>
    BY <1>3 DEF ApplyRaises, Sessions
  <2>2. /\ s \in Suggestions /\ t \in Memories /\ run # "none" /\ Justified(p, s, t)
        /\ Rewrites(p, s, t) => sugg[s].text \in Texts
    BY <1>1, AboutToApply DEF Justified
  <2> HIDE DEF s, t
  <2>3. /\ mem' \in [Memories -> Memory] /\ \A m \in Memories : mem'[m].gone = mem[m].gone
    <3>1. ASSUME NEW x \in Memory, NEW u \in Texts
          PROVE  [x EXCEPT !.text = u] \in Memory /\ [x EXCEPT !.text = u].gone = x.gone
      BY DEF Memory
    <3>2. CASE Rewrites(p, s, t)
      <4> DEFINE x == [mem[t] EXCEPT !.text = sugg[s].text]
      <4>1. mem' = [mem EXCEPT ![t] = x] /\ x \in Memory /\ x.gone = mem[t].gone
        BY <2>1, <2>2, <3>1, <3>2 DEF IInv, TypeOK
      <4> HIDE DEF x
      <4>2. QED
        BY <2>2, <4>1 DEF IInv, TypeOK
    <3>3. CASE ~Rewrites(p, s, t)
      BY <2>1, <3>3 DEF IInv, TypeOK
    <3>4. QED
      BY <3>2, <3>3
  <2>4. /\ traces' \in [Memories -> SUBSET (Sessions \X Suggestions)]
        /\ \A m \in Memories : \/ traces'[m] = traces[m]
                               \/ traces'[m] = traces[m] \cup {<<p, s>>} /\ Justified(p, s, m)
    <3>1. <<p, s>> \in Sessions \X Suggestions /\ traces \in [Memories -> SUBSET (Sessions \X Suggestions)]
      BY <2>2 DEF IInv, TypeOK
    <3>2. CASE Rewrites(p, s, t)
      BY <2>1, <2>2, <3>1, <3>2
    <3>3. CASE ~Rewrites(p, s, t)
      BY <2>1, <3>1, <3>3
    <3>4. QED
      BY <3>2, <3>3
  <2>5. Onward
    BY <1>1, <2>1, <2>2, <2>3 DEF Onward, Exists, Filed
  <2>6. TypeOK'
    BY <1>1, <2>1, <2>3, <2>4, Closing DEF IInv, TypeOK, SessionTypes
  <2>7. TablesOK' /\ WithinItsMandate'
    BY <1>1, <2>2, <2>4, <2>5, <2>6, TablesFollow
  <2>8. MergedSourcesGone'
    <3>1. \A o \in Suggestions : Exists(o) => sugg[o].ids \subseteq Memories
      BY DEF IInv, TypeOK, TablesOK
    <3>2. QED
      BY <1>1, <2>3, <3>1 DEF IInv, MergedSourcesGone, Exists
  <2>9. HalfAppliedOnlyIfFailed'
    BY <1>1, <2>1, <2>4 DEF IInv, HalfAppliedOnlyIfFailed, Pending, Exists
  <2>10. NothingLost
    BY <1>1, <2>3 DEF NothingLost
  <2>11. QED
    BY <1>1, <2>5, <2>6, <2>7, <2>8, <2>9, <2>10, CloseSessions DEF IInv
<1>4. QED
  BY <1>2, <1>3

\* apply_suggestion and its commit.
LEMMA ApplyCommitStep ==
  ASSUME IInv, NEW p \in Sessions, ApplyCommit(p)
  PROVE  IInv' /\ NothingLost
<1> DEFINE s == cur[p]
<1>1. /\ pc[p] = "apply" /\ mem' = [m \in Memories |-> Applied(p, s, m, mem[m])]
      /\ copy' = [copy EXCEPT ![p] = [m \in Memories |->
                    IF m \in sugg[s].ids THEN Applied(p, s, m, @[m]) ELSE @[m]]]
      /\ traces' = [m \in Memories |-> IF Rewrites(p, s, m) \/ m \in Deleted(p, s)
                                       THEN traces[m] \cup {<<p, s>>} ELSE traces[m]]
      /\ sugg' = [sugg EXCEPT ![s].status = "applied", ![s].by = p]
      /\ seen' = [seen EXCEPT ![p][s] = "applied"]
      /\ cur' = [cur EXCEPT ![p] = None] /\ pc' = [pc EXCEPT ![p] = "next"]
      /\ UNCHANGED <<run, scope, queue, outside>>
  BY DEF ApplyCommit, Goto
<1>2. /\ s \in Suggestions /\ Exists(s) /\ ~Filed(s) /\ (p = "auto" => SureEnough(s))
      /\ sugg[s].target \in sugg[s].ids /\ sugg[s].ids \subseteq Memories /\ run # "none"
      /\ \A m \in sugg[s].ids : copy[p][m] \in Copy
      /\ \A m : Rewrites(p, s, m) => m = sugg[s].target /\ sugg[s].text \in Texts
  BY <1>1, AboutToApply
<1>3. Deleted(p, s) \subseteq sugg[s].ids /\ SessionOK(p) /\ TypeOK
  BY DEF Deleted, IInv
<1> HIDE DEF s
<1>4. ASSUME NEW m \in Memories
      PROVE  /\ mem'[m] \in Memory /\ mem'[m].gone = (mem[m].gone \/ m \in Deleted(p, s))
  <2>1. mem[m] \in Memory /\ mem[m] \in Copy /\ mem'[m] = Applied(p, s, m, mem[m])
    BY <1>1, <1>3, MemoryIsCopy DEF TypeOK
  <2>2. QED
    BY <1>2, <2>1, AppliedFields
<1>5. ASSUME NEW m \in Memories, m \in sugg[s].ids
      PROVE  /\ Applied(p, s, m, copy[p][m]) \in Copy
             /\ Applied(p, s, m, copy[p][m]).gone = (copy[p][m].gone \/ m \in Deleted(p, s))
  <2>1. copy[p][m] \in Copy
    BY <1>2, <1>5
  <2>2. QED
    BY <1>2, <2>1, AppliedFields
<1>6. /\ copy' \in [Sessions -> [Memories -> Copy \cup {None}]]
      /\ \A q \in Sessions \ {p} : copy'[q] = copy[q]
      /\ \A m \in Memories : copy'[p][m] = IF m \in sugg[s].ids THEN Applied(p, s, m, copy[p][m])
                                                                ELSE copy[p][m]
  BY <1>1, <1>3, <1>5 DEF TypeOK
<1>7. /\ sugg' \in [Suggestions -> Suggestion \cup {None}]
      /\ \A o \in Suggestions \ {s} : sugg'[o] = sugg[o]
      /\ sugg'[s] # None /\ sugg'[s].status = "applied" /\ sugg'[s].by = p
      /\ sugg'[s].ids = sugg[s].ids /\ sugg'[s].kind = sugg[s].kind
      /\ sugg'[s].target = sugg[s].target
  BY <1>1, <1>2, <1>3, Decided
<1>8. Onward
  <2>1. \A m \in Memories : mem[m].gone => mem'[m].gone
    BY <1>4
  <2>2. QED
    BY <1>1, <1>2, <1>3, <2>1, DecisionGoesOn
<1>9. /\ traces' \in [Memories -> SUBSET (Sessions \X Suggestions)]
      /\ \A m \in Memories : \/ traces'[m] = traces[m]
                             \/ traces'[m] = traces[m] \cup {<<p, s>>} /\ Justified(p, s, m)
  BY <1>1, <1>2, <1>3 DEF TypeOK, Justified
<1>10. /\ seen' \in [Sessions -> [Suggestions -> Statuses \cup {None}]]
       /\ seen'[p][s] = "applied" /\ \A o \in Suggestions \ {s} : seen'[p][o] = seen[p][o]
       /\ \A q \in Sessions \ {p} : seen'[q] = seen[q]
  BY <1>1, <1>2, <1>3 DEF TypeOK, Statuses
<1>11. TypeOK'
  <2>1. mem' \in [Memories -> Memory]
    BY <1>1, <1>4
  <2>2. QED
    BY <1>1, <1>3, <1>6, <1>7, <1>9, <1>10, <2>1 DEF TypeOK
<1>12. TablesOK' /\ WithinItsMandate'
  BY <1>1, <1>2, <1>8, <1>9, <1>11, TablesFollow
<1>13. MergedSourcesGone'
  <2> SUFFICES ASSUME NEW o \in Suggestions, sugg'[o] # None, sugg'[o].status = "applied",
                      sugg'[o].kind = "merge", NEW m \in sugg'[o].ids \ {sugg'[o].target}
               PROVE  mem'[m].gone
    BY DEF MergedSourcesGone, Exists
  <2>1. CASE o = s
    <3>1. m \in sugg[s].ids /\ m # sugg[s].target /\ sugg[s].kind = "merge" /\ m \in Memories
      BY <1>2, <1>7, <2>1
    <3>2. copy[p][m] # None /\ (copy[p][m].gone => mem[m].gone)
      BY <1>2, <1>3, <3>1, NoneApart DEF SessionOK
    <3>3. copy[p][m].gone \/ m \in Deleted(p, s)
      BY <3>1 DEF Deleted
    <3>4. QED
      BY <1>4, <3>1, <3>2, <3>3
  <2>2. CASE o # s
    <3>1. sugg'[o] = sugg[o] /\ Exists(o)
      BY <1>7, <2>2 DEF Exists
    <3>2. m \in Memories /\ mem[m].gone
      BY <3>1 DEF IInv, TypeOK, TablesOK, MergedSourcesGone
    <3>3. QED
      BY <1>4, <3>2
  <2>3. QED
    BY <2>1, <2>2
<1>14. HalfAppliedOnlyIfFailed'
  <2> SUFFICES ASSUME NEW o \in Suggestions, sugg'[o] # None, sugg'[o].status = "pending",
                      NEW m \in Memories, NEW q \in Sessions, <<q, o>> \in traces'[m]
               PROVE  q = "auto" /\ run' = "failed"
    BY DEF HalfAppliedOnlyIfFailed, Pending, Exists
  <2>1. o # s /\ sugg'[o] = sugg[o] /\ <<q, o>> \in traces[m]
    BY <1>7, <1>9
  <2>2. QED
    BY <1>1, <2>1 DEF IInv, HalfAppliedOnlyIfFailed, Pending, Exists
<1>15. OneAsks' /\ \A q \in Sessions \ {p} : Left(q)
  BY <1>1, <1>6, <1>10 DEF IInv, TypeOK, OneAsks, Left
<1>16. ASSUME NEW q \in Sessions \ {p} PROVE SessionOK(q)'
  BY <1>8, <1>15, OthersGoOn DEF IInv
<1>17. SessionOK(p)'
  <2>1. pc'[p] = "next" /\ cur'[p] = None /\ queue'[p] = queue[p] /\ run' = run
    BY <1>1, <1>3 DEF TypeOK
  <2>2. ASSUME NEW o \in Suggestions
        PROVE  /\ seen'[p][o] # None \/ o \in queue'[p] \/ cur'[p] = o => Exists(o)'
               /\ Filed(o)' => seen'[p][o] # "pending" /\ cur'[p] # o
    <3>1. CASE o = s
      BY <1>7, <1>10, <2>1, <3>1, NoneApart DEF Exists, Filed
    <3>2. CASE o # s
      BY <1>3, <1>7, <1>10, <2>1, <3>2, NoneApart DEF SessionOK, Exists, Filed
    <3>3. QED
      BY <3>1, <3>2
  <2>3. ASSUME NEW m \in Memories, copy'[p][m] # None, copy'[p][m].gone
        PROVE  mem'[m].gone
    <3>1. CASE m \in sugg[s].ids
      <4>1. copy[p][m] # None /\ (copy[p][m].gone \/ m \in Deleted(p, s))
        BY <1>2, <1>5, <1>6, <2>3, <3>1, NoneApart
      <4>2. QED
        BY <1>3, <1>4, <4>1 DEF SessionOK
    <3>2. CASE m \notin sugg[s].ids
      <4>1. copy[p][m] # None /\ copy[p][m].gone
        BY <1>6, <2>3, <3>2
      <4>2. QED
        BY <1>3, <1>4, <4>1 DEF SessionOK
    <3>3. QED
      BY <3>1, <3>2
  <2>4. QED
    BY <1>2, <2>1, <2>2, <2>3 DEF SessionOK
<1>18. NothingLost
  BY <1>2, <1>4, <1>7 DEF NothingLost
<1>19. QED
  BY <1>18, <1>11, <1>12, <1>13, <1>14, <1>15, <1>16, <1>17 DEF IInv

\* What the API clients do: no session, no suggestion and no trace is touched.
LEMMA OutsideStep ==
  ASSUME IInv, ApiRewrites \/ ApiDeletes
  PROVE  IInv' /\ NothingLost
<1>1. /\ outside' \in 0..MaxOutside
      /\ UNCHANGED <<run, scope, sugg, pc, copy, seen, queue, cur, traces>>
  BY Constants DEF ApiRewrites, ApiDeletes, IInv, TypeOK
<1>2. mem' \in [Memories -> Memory] /\ \A m \in Memories : mem[m].gone => mem'[m].gone
  <2>1. ASSUME NEW x \in Memory, NEW t \in Texts, NEW i \in Images
        PROVE  /\ [x EXCEPT !.text = t] \in Memory /\ [x EXCEPT !.text = t].gone = x.gone
               /\ [x EXCEPT !.images = i] \in Memory /\ [x EXCEPT !.images = i].gone = x.gone
    BY DEF Memory
  <2>2. CASE ApiRewrites
    <3>1. PICK m \in Memories, t \in Texts, i \in Images :
            mem' = [mem EXCEPT ![m].text = t, ![m].images = i]
      BY <2>2 DEF ApiRewrites
    <3> DEFINE x == [mem[m] EXCEPT !.text = t]
               y == [x EXCEPT !.images = i]
    <3>2. mem' = [mem EXCEPT ![m] = y]
      BY <3>1 DEF IInv, TypeOK
    <3>3. x \in Memory /\ x.gone = mem[m].gone
      BY <2>1 DEF IInv, TypeOK
    <3> HIDE DEF x
    <3>4. y \in Memory /\ y.gone = x.gone
      BY <2>1, <3>3
    <3> HIDE DEF y
    <3>5. QED
      BY <3>2, <3>3, <3>4 DEF IInv, TypeOK
  <2>3. CASE ApiDeletes
    <3>1. PICK m \in Memories : mem' = [mem EXCEPT ![m].gone = TRUE, ![m].images = "fine"]
      BY <2>3 DEF ApiDeletes
    <3> DEFINE x == [mem[m] EXCEPT !.gone = TRUE]
               y == [x EXCEPT !.images = "fine"]
    <3>2. mem' = [mem EXCEPT ![m] = y]
      BY <3>1 DEF IInv, TypeOK
    <3>3. x \in Memory /\ x.gone = TRUE
      BY DEF IInv, TypeOK, Memory
    <3> HIDE DEF x
    <3>4. y \in Memory /\ y.gone = TRUE
      BY <3>3 DEF Memory, Images
    <3> HIDE DEF y
    <3>5. QED
      BY <3>2, <3>4 DEF IInv, TypeOK
  <2>4. QED
    BY <2>2, <2>3
<1>3. TypeOK' /\ OneAsks'
  BY <1>1, <1>2 DEF IInv, TypeOK, OneAsks
<1>4. Onward
  BY <1>1, <1>2 DEF Onward, Exists, Filed
<1>5. TablesOK' /\ WithinItsMandate' /\ HalfAppliedOnlyIfFailed'
  BY <1>1 DEF IInv, TablesOK, WithinItsMandate, OnlyWhatWasSent, UnattendedOnlyWhenSure,
     HalfAppliedOnlyIfFailed, Pending, Exists, Filed
<1>6. MergedSourcesGone'
  <2>1. \A o \in Suggestions : Exists(o) => sugg[o].ids \subseteq Memories
    BY DEF IInv, TypeOK, TablesOK
  <2>2. QED
    BY <1>1, <1>2, <2>1 DEF IInv, MergedSourcesGone, Exists
<1>7. ASSUME NEW q \in Sessions PROVE SessionOK(q)'
  <2>1. Left(q) /\ SessionOK(q)
    BY <1>1 DEF IInv, Left
  <2>2. QED
    BY <1>4, <2>1, OthersGoOn
<1>8. NothingLost
  BY <1>1, <1>2 DEF NothingLost
<1>9. QED
  BY <1>3, <1>5, <1>6, <1>7, <1>8 DEF IInv

-----------------------------------------------------------------------------
(* The invariant and what follows from it. *)

\* Every step keeps the invariant.
LEMMA StepInv == IInv /\ [Next]_vars => IInv'
<1> SUFFICES ASSUME IInv, [Next]_vars PROVE IInv'
  OBVIOUS
<1>1. ASSUME NEW p \in Sessions, StartRun(p) PROVE IInv'
  BY <1>1, StartRunStep
<1>2. ASSUME NEW p \in Sessions, Step(p) PROVE IInv'
  <2>1. CASE StoreReply(p) \/ ReplyFails(p)
    BY <2>1, StoreReplyStep, ReplyFailsStep
  <2>2. CASE Skip(p) \/ ReadMemories(p)
    BY <2>2, SkipStep, ReadMemoriesStep
  <2>3. CASE ApplyCommit(p) \/ ApplyRaises(p)
    BY <2>3, ApplyCommitStep, ApplyRaisesStep
  <2>4. CASE Finish(p)
    BY <2>4, CloseStep DEF Finish
  <2>5. CASE CommitIgnore
    BY <2>5, CommitIgnoreStep
  <2>6. QED
    BY <1>2, <2>1, <2>2, <2>3, <2>4, <2>5 DEF Step
<1>3. ASSUME NEW p \in Sessions, Die(p) PROVE IInv'
  BY <1>3, CloseStep DEF Die
<1>4. CASE OpenReview \/ OpenIgnore
  BY <1>4, OpenReviewStep, OpenIgnoreStep
<1>5. CASE ApiRewrites \/ ApiDeletes
  BY <1>5, OutsideStep
<1>6. CASE UNCHANGED vars
  <2>1. UNCHANGED tables /\ TypeOK' /\ OneAsks'
    BY <1>6 DEF vars, tables, IInv, TypeOK, OneAsks
  <2>2. ASSUME NEW q \in Sessions PROVE SessionOK(q)'
    BY <1>6, <2>1, OthersGoOn, StandingStill DEF vars, IInv, Left
  <2>3. QED
    BY <2>1, <2>2, TablesKept DEF IInv
<1>7. QED
  BY <1>1, <1>2, <1>3, <1>4, <1>5, <1>6 DEF Next, Idle

\* Whatever the model answers and however the handlers, the background task and the API
\* clients interleave, the inductive invariant holds of every reachable state.
THEOREM Invariant == Spec => []IInv
BY InitInv, StepInv, PTL DEF Spec

\* Every variable of a review keeps its type: the tables hold rows, the sessions' copies are
\* of rows that were there, and a suggestion that is stored is well-formed.
THEOREM TypeCorrect == Spec => []TypeOK
<1>1. IInv => TypeOK
  BY DEF IInv
<1>2. QED
  BY <1>1, Invariant, PTL

\* normalize_suggestions and apply_auto_merge_suggestions: a review changes only what was sent
\* to it, and nobody's review only what the model was sure of.
THEOREM Mandate == Spec => []WithinItsMandate
<1>1. IInv => WithinItsMandate
  BY DEF IInv
<1>2. QED
  BY <1>1, Invariant, PTL

\* apply_suggestion: the sources of an applied merge are deleted, and stay so.
THEOREM SourcesGone == Spec => []MergedSourcesGone
<1>1. IInv => MergedSourcesGone
  BY DEF IInv
<1>2. QED
  BY <1>1, Invariant, PTL

\* A suggestion that waits has changed something only when the background task's session was
\* committed by its exception handler.
THEOREM NoHalfDecision == Spec => []HalfAppliedOnlyIfFailed
<1>1. IInv => HalfAppliedOnlyIfFailed
  BY DEF IInv
<1>2. QED
  BY <1>1, Invariant, PTL

\* The steps that neither change a row nor decide a suggestion lose nothing.
LEMMA StepLosesNothing == IInv /\ [Next]_vars => NothingLost
<1> SUFFICES ASSUME IInv, [Next]_vars PROVE NothingLost
  OBVIOUS
<1>1. CASE UNCHANGED <<mem, sugg>>
  BY <1>1 DEF NothingLost
<1>2. ASSUME NEW p \in Sessions, StoreReply(p) PROVE NothingLost
  BY <1>2, NothingElse DEF StoreReply, NothingLost, Filed
<1>3. ASSUME NEW p \in Sessions, ApplyCommit(p) \/ ApplyRaises(p) PROVE NothingLost
  BY <1>3, ApplyCommitStep, ApplyRaisesStep
<1>4. CASE CommitIgnore \/ ApiRewrites \/ ApiDeletes
  BY <1>4, CommitIgnoreStep, OutsideStep
<1>5. ASSUME NEW p \in Sessions,
             \/ StartRun(p) \/ ReplyFails(p) \/ Skip(p) \/ ReadMemories(p) \/ Finish(p) \/ Die(p)
      PROVE  UNCHANGED <<mem, sugg>>
  BY <1>5 DEF StartRun, ReplyFails, Skip, ReadMemories, Finish, Die, tables
<1>6. ASSUME OpenReview \/ OpenIgnore \/ UNCHANGED vars PROVE UNCHANGED <<mem, sugg>>
  BY <1>6 DEF OpenReview, OpenIgnore, tables, vars
<1>7. QED
  BY <1>1, <1>2, <1>3, <1>4, <1>5, <1>6 DEF Next, Step, Idle

\* No session brings a deleted memory back, however old the copy it writes from; and what was
\* stored as ignored stays as it is, with nothing done on its behalf.
THEOREM DeletedStaysDeleted == Spec => NothingComesBack
<1> DEFINE A == /\ \A m \in Memories : mem[m].gone => mem'[m].gone
                /\ \A s \in Suggestions : Exists(s) /\ sugg[s].status = "ignored" /\ sugg[s].by = None =>
                     /\ sugg'[s] = sugg[s]
                     /\ \A m \in Memories, p \in Sessions : <<p, s>> \notin traces'[m]
<1>1. IInv /\ IInv' /\ [Next]_vars => [A]_vars
  <2> SUFFICES ASSUME IInv, IInv', [Next]_vars PROVE A
    OBVIOUS
  <2>1. NothingLost
    BY StepLosesNothing
  <2>2. ASSUME NEW s \in Suggestions, Filed(s)
        PROVE  sugg'[s] = sugg[s] /\ \A m \in Memories, p \in Sessions : <<p, s>> \notin traces'[m]
    <3>1. sugg'[s] = sugg[s] /\ Filed(s)'
      BY <2>1, <2>2 DEF NothingLost, Filed, Exists
    <3>2. QED
      BY <3>1 DEF IInv, TablesOK
  <2>3. QED
    BY <2>1, <2>2 DEF NothingLost, Filed
<1> HIDE DEF A
<1>2. Spec => [][A]_vars
  BY <1>1, Invariant, PTL DEF Spec
<1>3. QED
  BY <1>2 DEF NothingComesBack, A
===============================================================================
