---------------------------- MODULE ReviewLifecycle ----------------------------
(***************************************************************************)
(* AI memory review: a run sends memories to the language model and stores *)
(* its suggestions, which an admin applies or ignores.  After /extract the *)
(* background task does the same for similar memories and applies what the *)
(* model is confident of by itself.                                        *)
(*                                                                         *)
(* Two sessions work on the tables: "auto", the background task in its     *)
(* pool thread, and "admin", the admin handlers, which the event loop runs *)
(* one after the other.  A session keeps every object it has loaded, and   *)
(* neither a later SELECT nor a commit refreshes it; a flush writes only   *)
(* what the session changed.  API clients meanwhile rewrite and delete     *)
(* memories.  text stands for title, content and category; images are       *)
(* "broken" when one of them carries no metadata, which                    *)
(* attachment_search_text fails on.                                        *)
(***************************************************************************)
EXTENDS Integers, FiniteSets

CONSTANTS
  Memories, Suggestions, Texts,
  Tables,       \* the memories a behaviour may start with
  Answers,      \* the items the model may put in its reply
  MaxOutside,   \* bound: changes by API clients
  NaN, None

Sessions   == {"auto", "admin"}
Kinds      == {"rewrite", "merge", "move_category", "soft_delete"}
AutoKinds  == {"rewrite", "merge", "move_category"}  \* AUTO_EXTRACT_MERGE_ALLOWED_TYPES
AutoApplyConfidence == 75                            \* in percent

Images     == {"fine", "broken"}
Memory     == [text : Texts, images : Images, gone : BOOLEAN]
Copy       == [text : Texts, images : Images \cup {None}, gone : BOOLEAN]
Answer     == [kind : Kinds, ids : SUBSET Memories, target : Memories \cup {None},
               confidence : Int \cup {None, NaN}, text : Texts \cup {None}]
Statuses   == {"pending", "applied", "ignored"}
Suggestion == [kind : Kinds, ids : SUBSET Memories, target : Memories,
               confidence : (0..100) \cup {None}, text : Texts \cup {None},
               status : Statuses, by : Sessions \cup {None}]

ASSUME ConstantsOK ==
  /\ Answers \subseteq Answer
  /\ Tables \subseteq [Memories -> {m \in Memory : ~m.gone}]
  /\ MaxOutside \in Nat
  /\ NaN \notin Int \cup {None}
  /\ None \notin Memories \cup Texts \cup Copy \cup Suggestion \cup Sessions \cup Int
  /\ None \notin Suggestions \cup Statuses \cup Images

VARIABLES
  mem,     \* the memories table
  run,     \* the committed status of the review run, "none" before its commit
  scope,   \* history: the memories the run was given
  sugg,    \* the suggestions table
  pc,
  copy,    \* copy[p][m]: memory m as session p holds it
  seen,    \* seen[p][s]: the status of suggestion s as session p holds it
  queue,   \* the suggestions p still has to look at
  cur,     \* the suggestion p is applying
  traces,  \* history: <<p, s>> \in traces[m]: p changed m on behalf of suggestion s
  outside

vars == <<mem, run, scope, sugg, pc, copy, seen, queue, cur, traces, outside>>
tables == <<mem, run, scope, sugg, traces, outside>>

NoCopy  == [m \in Memories |-> None]
Unseen  == [s \in Suggestions |-> None]
Live(m) == ~mem[m].gone

\* The object x with its images as the database has them, or not loaded (None).
WithImages(x, images) == [x EXCEPT !.images = images]

Init == /\ mem \in Tables
        /\ run = "none" /\ scope = {}
        /\ sugg = [s \in Suggestions |-> None]
        /\ pc = [p \in Sessions |-> "idle"]
        /\ copy = [p \in Sessions |-> NoCopy]
        /\ seen = [p \in Sessions |-> Unseen]
        /\ queue = [p \in Sessions |-> {}]
        /\ cur = [p \in Sessions |-> None]
        /\ traces = [m \in Memories |-> {}]
        /\ outside = 0

Goto(p, to) == pc' = [pc EXCEPT ![p] = to]

Close(p) == /\ Goto(p, "idle")
            /\ copy' = [copy EXCEPT ![p] = NoCopy]
            /\ seen' = [seen EXCEPT ![p] = Unseen]
            /\ queue' = [queue EXCEPT ![p] = {}]
            /\ cur' = [cur EXCEPT ![p] = None]

-----------------------------------------------------------------------------
(* create_auto_extract_merge_review_run and create_review_run *)

\* The run row is flushed, not committed, while the model is asked; images are
\* not loaded yet.  Bound: one run commits, and one is prepared at a time.
StartRun(p) ==
  /\ pc[p] = "idle" /\ run = "none"
  /\ \A other \in Sessions : pc[other] # "asking"
  /\ \E chosen \in SUBSET {m \in Memories : Live(m)} :
       /\ Cardinality(chosen) >= IF p = "auto" THEN 2 ELSE 1
       /\ copy' = [copy EXCEPT ![p] = [m \in Memories |->
                                         IF m \in chosen THEN WithImages(mem[m], None)
                                                         ELSE None]]
  /\ Goto(p, "asking")
  /\ UNCHANGED <<tables, seen, queue, cur>>

\* normalize_suggestions: only ids the model was given; the target is one of
\* them, the first listed when the model named no other.
Named(a, given) == IF a.ids \cap given # {} THEN a.ids \cap given ELSE {a.target} \cap given

\* Mutant: a confidence out of range is kept.
Unclamped(c) == c

\* Python's min(1.0, nan) is 1.0: what is not a number becomes certainty.
Clamp(c) == CASE c = None -> None
              [] c = NaN  -> 100
              [] OTHER    -> IF c < 0 THEN 0 ELSE IF c > 100 THEN 100 ELSE c

Normalized(a, given, status) ==
  {[kind |-> a.kind, ids |-> Named(a, given), target |-> t,
    confidence |-> Clamp(a.confidence), text |-> a.text, status |-> status, by |-> None] :
     t \in IF a.target \in Named(a, given) THEN {a.target} ELSE Named(a, given)}

FirstStatus(p, a) == IF p = "auto" /\ a.kind \notin AutoKinds THEN "ignored" ELSE "pending"

\* What is stored for one item of the reply; an item that names no memory the
\* model was given is dropped.
ItemRows(p, a, given) == IF a = None \/ Named(a, given) = {} THEN {None}
                         ELSE Normalized(a, given, FirstStatus(p, a))

\* The reply is stored and committed with the run.  The background task goes on
\* with the suggestions as it has made them.
StoreReply(p) ==
  LET given == {m \in Memories : copy[p][m] # None}
  IN  /\ pc[p] = "asking"
      /\ \E reply \in [Suggestions -> Answers \cup {None}] :
         \E rows \in [Suggestions -> UNION {ItemRows(p, a, given) : a \in Answers \cup {None}}] :
           /\ \A s \in Suggestions : rows[s] \in ItemRows(p, reply[s], given)
           /\ sugg' = rows
           /\ run' = "completed" /\ scope' = given
           /\ UNCHANGED <<mem, traces, outside>>
           /\ IF p = "admin" THEN Close(p)
              ELSE /\ queue' = [queue EXCEPT ![p] = {s \in Suggestions : rows[s] # None}]
                   /\ seen' = [seen EXCEPT ![p] = [s \in Suggestions |->
                                 IF rows[s] = None THEN None ELSE rows[s].status]]
                   /\ Goto(p, "next")
                   /\ UNCHANGED <<copy, cur>>

\* The call fails or the reply is not JSON: the run is committed as failed.
ReplyFails(p) == /\ pc[p] = "asking"
                 /\ run' = "failed"
                 /\ Close(p)
                 /\ UNCHANGED <<mem, scope, sugg, traces, outside>>

-----------------------------------------------------------------------------
(* apply_auto_merge_suggestions, and the admin's apply and apply-all forms *)

Exists(s) == sugg[s] # None
Pending   == {s \in Suggestions : Exists(s) /\ sugg[s].status = "pending"}

\* One suggestion, whatever its status, or all the pending ones.
OpenReview ==
  /\ pc["admin"] = "idle"
  /\ \E S \in {{s} : s \in Suggestions} \cup {Pending} :
       /\ S # {} /\ \A s \in S : Exists(s)
       /\ seen' = [seen EXCEPT !["admin"] = [s \in Suggestions |->
                                               IF s \in S THEN sugg[s].status ELSE None]]
       /\ queue' = [queue EXCEPT !["admin"] = S]
  /\ Goto("admin", "next")
  /\ UNCHANGED <<tables, copy, cur>>

\* Mutant: a missing confidence counts as full confidence.
NoneIsSure(s) == IF sugg[s].confidence = None THEN 100 ELSE sugg[s].confidence

Confidence(s) == IF sugg[s].confidence = None THEN 0 ELSE sugg[s].confidence

\* Whether session p goes on to apply s.
Wants(p, s) == /\ seen[p][s] = "pending"
               /\ p = "auto" => /\ sugg[s].kind \in AutoKinds
                                /\ Confidence(s) >= AutoApplyConfidence

Skip(p) == /\ pc[p] = "next"
           /\ \E s \in queue[p] : /\ ~Wants(p, s)
                                  /\ queue' = [queue EXCEPT ![p] = @ \ {s}]
           /\ UNCHANGED <<tables, pc, copy, seen, cur>>

\* apply_suggestion selects the memories; those the session already holds stay
\* as they are, and none is filtered by deleted_at.
ReadMemories(p) ==
  /\ pc[p] = "next"
  /\ \E s \in queue[p] :
       /\ Wants(p, s)
       /\ cur' = [cur EXCEPT ![p] = s]
       /\ queue' = [queue EXCEPT ![p] = @ \ {s}]
       /\ copy' = [copy EXCEPT ![p] = [m \in Memories |->
            IF m \notin sugg[s].ids THEN @[m]
            ELSE IF @[m] = None THEN mem[m]
            ELSE IF @[m].images = None THEN WithImages(@[m], mem[m].images)
            ELSE @[m]]]
  /\ Goto(p, "apply")
  /\ UNCHANGED <<tables, seen>>

Proposes(s) == sugg[s].kind # "soft_delete" /\ sugg[s].text # None

\* Mutant: a merge whose proposal is empty deletes nothing.
DeletedIfProposed(p, s) == {m \in sugg[s].ids :
  /\ ~copy[p][m].gone
  /\ \/ sugg[s].kind = "soft_delete"
     \/ sugg[s].kind = "merge" /\ m # sugg[s].target /\ Proposes(s)}

Deleted(p, s) == {m \in sugg[s].ids :
  /\ ~copy[p][m].gone
  /\ \/ sugg[s].kind = "soft_delete"
     \/ sugg[s].kind = "merge" /\ m # sugg[s].target}

\* update_memory_from_proposal reads the target's images.
Raises(p, s) == sugg[s].kind # "soft_delete" /\ copy[p][sugg[s].target].images = "broken"

\* The columns of m the flush writes: text when it was set to something else
\* than the copy held, deleted_at when the copy was not deleted.
Rewrites(p, s, m) == Proposes(s) /\ m = sugg[s].target /\ sugg[s].text # copy[p][m].text

\* Mutant: the whole row is written back as the session holds it.
AppliedWhole(p, s, m, old) ==
  IF m \notin sugg[s].ids THEN old
  ELSE [old EXCEPT !.text = IF Rewrites(p, s, m) THEN sugg[s].text ELSE copy[p][m].text,
                   !.gone = copy[p][m].gone \/ m \in Deleted(p, s)]

Applied(p, s, m, old) ==
  [old EXCEPT !.text = IF Rewrites(p, s, m) THEN sugg[s].text ELSE @,
              !.gone = @ \/ m \in Deleted(p, s)]

ApplyCommit(p) ==
  LET s == cur[p]
  IN  /\ pc[p] = "apply" /\ ~Raises(p, s)
      /\ mem' = [m \in Memories |-> Applied(p, s, m, mem[m])]
      /\ copy' = [copy EXCEPT ![p] = [m \in Memories |->
           IF m \in sugg[s].ids THEN Applied(p, s, m, @[m]) ELSE @[m]]]
      /\ traces' = [m \in Memories |-> IF Rewrites(p, s, m) \/ m \in Deleted(p, s)
                                       THEN traces[m] \cup {<<p, s>>} ELSE traces[m]]
      /\ sugg' = [sugg EXCEPT ![s].status = "applied", ![s].by = p]
      /\ seen' = [seen EXCEPT ![p][s] = "applied"]
      /\ cur' = [cur EXCEPT ![p] = None]
      /\ Goto(p, "next")
      /\ UNCHANGED <<run, scope, queue, outside>>

\* Mutant: the admin's handler commits what the session holds, too.
RaiseAlwaysCommits(p) ==
  LET s == cur[p]
      t == sugg[s].target
  IN  /\ pc[p] = "apply" /\ Raises(p, s)
      /\ run' = IF p = "auto" THEN "failed" ELSE run
      /\ mem' = [mem EXCEPT ![t].text = IF Rewrites(p, s, t) THEN sugg[s].text ELSE @]
      /\ traces' = [traces EXCEPT ![t] = IF Rewrites(p, s, t) THEN @ \cup {<<p, s>>} ELSE @]
      /\ Close(p)
      /\ UNCHANGED <<scope, sugg, outside>>

\* The text is set before the images are read.  The admin's request dies with
\* its transaction; the background task's handler marks the run as failed and
\* commits what the session holds.
ApplyRaises(p) ==
  LET s == cur[p]
      t == sugg[s].target
  IN  /\ pc[p] = "apply" /\ Raises(p, s)
      /\ IF p = "admin" THEN UNCHANGED <<mem, traces, run>>
         ELSE /\ run' = "failed"
              /\ IF Rewrites(p, s, t)
                 THEN /\ mem' = [mem EXCEPT ![t].text = sugg[s].text]
                      /\ traces' = [traces EXCEPT ![t] = @ \cup {<<p, s>>}]
                 ELSE UNCHANGED <<mem, traces>>
      /\ Close(p)
      /\ UNCHANGED <<scope, sugg, outside>>

Finish(p) == /\ pc[p] = "next" /\ queue[p] = {}
             /\ Close(p)
             /\ UNCHANGED tables

-----------------------------------------------------------------------------
(* ignore_suggestion *)

OpenIgnore == /\ pc["admin"] = "idle"
              /\ \E s \in Suggestions :
                   /\ Exists(s)
                   /\ sugg[s].status = "pending"
                   /\ cur' = [cur EXCEPT !["admin"] = s]
              /\ Goto("admin", "ignore")
              /\ UNCHANGED <<tables, copy, seen, queue>>

CommitIgnore == /\ pc["admin"] = "ignore"
                /\ sugg' = [sugg EXCEPT ![cur["admin"]].status = "ignored",
                                        ![cur["admin"]].by = "admin"]
                /\ Close("admin")
                /\ UNCHANGED <<mem, run, scope, traces, outside>>

-----------------------------------------------------------------------------
(* Everyone else *)

\* A rewrite may bring new images; without them it fails when some are broken.
ApiRewrites == /\ outside < MaxOutside /\ outside' = outside + 1
               /\ \E m \in Memories, t \in Texts, i \in Images :
                    /\ Live(m) /\ mem[m].text # t
                    /\ mem' = [mem EXCEPT ![m].text = t, ![m].images = i]
               /\ UNCHANGED <<run, scope, sugg, pc, copy, seen, queue, cur, traces>>

ApiDeletes == /\ outside < MaxOutside /\ outside' = outside + 1
              /\ \E m \in Memories : /\ Live(m)
                                      /\ mem' = [mem EXCEPT ![m].gone = TRUE,
                                                            ![m].images = "fine"]
              /\ UNCHANGED <<run, scope, sugg, pc, copy, seen, queue, cur, traces>>

\* The process stops, or the database refuses a statement: the session is
\* closed and its open transaction, an uncommitted run included, is gone.
Die(p) == /\ pc[p] # "idle"
          /\ Close(p)
          /\ UNCHANGED tables

Step(p) == \/ StoreReply(p) \/ ReplyFails(p) \/ Skip(p) \/ ReadMemories(p)
           \/ ApplyCommit(p) \/ ApplyRaises(p) \/ Finish(p)
           \/ p = "admin" /\ CommitIgnore

Idle == (\A p \in Sessions : pc[p] = "idle") /\ UNCHANGED vars

Next == \/ \E p \in Sessions : StartRun(p) \/ Step(p) \/ Die(p)
        \/ OpenReview \/ OpenIgnore \/ ApiRewrites \/ ApiDeletes \/ Idle

\* A request or task once begun is run to its end (the model call has a timeout).
Spec == Init /\ [][Next]_vars /\ \A p \in Sessions : WF_vars(Step(p))
-----------------------------------------------------------------------------
(* What a review may do *)

TypeOK == /\ mem \in [Memories -> Memory]
          /\ run \in {"none", "completed", "failed"}
          /\ scope \in SUBSET Memories
          /\ sugg \in [Suggestions -> Suggestion \cup {None}]
          /\ pc \in [Sessions -> {"idle", "asking", "next", "apply", "ignore"}]
          /\ copy \in [Sessions -> [Memories -> Copy \cup {None}]]
          /\ seen \in [Sessions -> [Suggestions -> Statuses \cup {None}]]
          /\ queue \in [Sessions -> SUBSET Suggestions]
          /\ cur \in [Sessions -> Suggestions \cup {None}]
          /\ traces \in [Memories -> SUBSET (Sessions \X Suggestions)]
          /\ outside \in 0..MaxOutside

\* Whatever ids the model makes up, a review changes no memory that was not
\* sent to it, and the memory a suggestion is applied to is one it names.
OnlyWhatWasSent ==
  /\ \A m \in Memories : traces[m] # {} => m \in scope
  /\ \A m \in Memories : \A e \in traces[m] : m \in sugg[e[2]].ids
  /\ \A s \in Suggestions : Exists(s) => sugg[s].target \in sugg[s].ids

\* The unattended task changes memories only for suggestions the model was sure
\* of, and only deletes the sources of a merge.
UnattendedOnlyWhenSure ==
  \A m \in Memories : \A e \in traces[m] : e[1] = "auto" =>
    /\ sugg[e[2]].confidence # None
    /\ sugg[e[2]].confidence >= AutoApplyConfidence
    /\ sugg[e[2]].kind # "soft_delete"

\* What a review does is within what it was given: the memories that were sent,
\* and, when nobody watches, only what the model was sure of.
WithinItsMandate == OnlyWhatWasSent /\ UnattendedOnlyWhenSure

\* Once a merge is applied, none of its sources is live, whatever copies of
\* them the session held.
MergedSourcesGone ==
  \A s \in Suggestions : Exists(s) /\ sugg[s].status = "applied" /\ sugg[s].kind = "merge" =>
    \A m \in sugg[s].ids \ {sugg[s].target} : mem[m].gone

\* A suggestion that still waits for its decision has changed something only
\* when the unattended run broke off in the middle of applying it.
HalfAppliedOnlyIfFailed ==
  \A s \in Pending, m \in Memories, p \in Sessions :
    <<p, s>> \in traces[m] => p = "auto" /\ run = "failed"

\* No session, however old its copies, brings a deleted memory back; and a soft delete the
\* unattended task has filed as ignored can never be carried out, not even by an admin who
\* posts its apply form.
NothingComesBack ==
  [][/\ \A m \in Memories : mem[m].gone => mem'[m].gone
     /\ \A s \in Suggestions : Exists(s) /\ sugg[s].status = "ignored" /\ sugg[s].by = None =>
          /\ sugg'[s] = sugg[s]
          /\ \A m \in Memories, p \in Sessions : <<p, s>> \notin traces'[m]]_vars
-----------------------------------------------------------------------------
(* What makes these inductive. *)

\* One session at a time prepares the run.
OneAsks == \A p, other \in Sessions : pc[p] = "asking" /\ pc[other] = "asking" => p = other

SureEnough(s) == sugg[s].kind \in AutoKinds /\ Confidence(s) >= AutoApplyConfidence

\* What was stored as ignored.
Filed(s) == Exists(s) /\ sugg[s].status = "ignored" /\ sugg[s].by = None

\* Before the one run is committed there is nothing to review; a suggestion names what was
\* sent, a trace refers to a suggestion that is there, and to none that was filed away.
TablesOK ==
  /\ run = "none" => /\ \A s \in Suggestions : ~Exists(s)
                     /\ \A m \in Memories : traces[m] = {}
  /\ \A s \in Suggestions : Exists(s) => sugg[s].ids \subseteq scope /\ sugg[s].target \in sugg[s].ids
  /\ \A m \in Memories, p \in Sessions, s \in Suggestions :
       <<p, s>> \in traces[m] => Exists(s) /\ ~Filed(s)

\* A session works only on suggestions that are there, and takes none that was filed away
\* for pending; one that is about to apply a suggestion was allowed to and holds its memories;
\* a copy may be old, but what it says is deleted is deleted.
SessionOK(p) ==
  /\ run = "none" => /\ pc[p] \in {"idle", "asking"} /\ cur[p] = None /\ queue[p] = {}
                     /\ \A s \in Suggestions : seen[p][s] = None
  /\ pc[p] = "asking" => run = "none"
  /\ \A s \in Suggestions : seen[p][s] # None \/ s \in queue[p] \/ cur[p] = s => Exists(s)
  /\ \A s \in Suggestions : Filed(s) => seen[p][s] # "pending" /\ cur[p] # s
  /\ pc[p] \in {"apply", "ignore"} => cur[p] # None
  /\ \A s \in Suggestions : pc[p] = "apply" /\ cur[p] = s =>
       /\ \A m \in Memories : m \in sugg[s].ids => copy[p][m] # None
       /\ p = "auto" => SureEnough(s)
  /\ \A m \in Memories : copy[p][m] # None /\ copy[p][m].gone => mem[m].gone

IInv == /\ TypeOK /\ OneAsks /\ TablesOK /\ \A p \in Sessions : SessionOK(p)
        /\ WithinItsMandate /\ MergedSourcesGone /\ HalfAppliedOnlyIfFailed
=============================================================================
