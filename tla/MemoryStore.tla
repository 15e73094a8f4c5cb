----------------------------- MODULE MemoryStore -----------------------------
(***************************************************************************)
(* The rows of the memories table of one user, agent and category, and the *)
(* HTTP handlers that change them: POST and DELETE /v1/memories and the    *)
(* admin forms that edit and delete one memory.  Every handler runs in its *)
(* own SQLAlchemy session over a READ COMMITTED transaction, so an action  *)
(* below is one SQL statement (or a group of statements no other session   *)
(* can get between, because the row is already locked).                    *)
(*                                                                         *)
(* A session remembers the row as it read it.  A flush writes by primary   *)
(* key, without looking at deleted_at again, and only the columns whose    *)
(* value differs from what the session read.                               *)
(*                                                                         *)
(* /v1 handlers run in threads of a pool.  Admin forms run on the event    *)
(* loop and block it from their first statement to the last: meanwhile no  *)
(* request is begun, and no session of a handler that raised is closed.    *)
(*                                                                         *)
(* title and content stand for all the columns a payload sets; the images  *)
(* one request attaches are one group, known by the request that added it. *)
(***************************************************************************)
EXTENDS Integers, FiniteSets

CONSTANTS
  Requests,     \* the requests of a behaviour, each handled once
  Rows,         \* primary keys: the one request q would insert is q itself
  ExtIds, Titles, Contents,
  Calls,        \* what a request may ask for
  SimilarTexts, \* pairs of different texts scored at SIMILAR_MEMORY_MIN_SCORE
  Stored,       \* the table when the behaviour starts
  MaxActive,    \* bound: requests handled at the same time
  MaxUnlucky,   \* bound: requests whose category others make while they are about to
  None

AttModes == {"keep", "clear", "bare", "tagged", "invalid"}
Group    == [by : Rows, tagged : BOOLEAN]
Text     == [title : Titles, content : Contents, atts : SUBSET Group]
Row      == [ext : ExtIds, title : Titles, content : Contents, text : Text,
             atts : SUBSET Group, by : Rows, gone : {"no", "api", "admin"}]
Call     == [op : {"write", "delete", "edit", "remove"}, ext : ExtIds, row : Rows,
             title : Titles, content : Contents, atts : AttModes, auto : BOOLEAN]
Outcome  == {"none", "created", "updated", "rejected", "conflict", "deleted",
             "absent", "edited", "removed", "unknown", "crashed", "failed"}

\* gone is deleted_at: unset, or set by whom ("api" stays once images went too).

\* search_text agrees with the columns it is built from and one request
\* attached all the images.
Coherent(row) == /\ row.text = [title |-> row.title, content |-> row.content,
                                atts |-> row.atts]
                 /\ \A g, h \in row.atts : g.by = h.by

ASSUME ConstantsOK ==
  /\ Requests \subseteq Rows
  /\ None \notin Rows \cup Row \cup Call
  /\ Calls \subseteq Call
  /\ SimilarTexts \subseteq (Titles \X Contents) \X (Titles \X Contents)
  /\ MaxActive \in Nat /\ MaxUnlucky \in Nat

\* Behaviours start from a table earlier requests, all finished, have left.
ASSUME StoredOK ==
  /\ Stored \in [Rows -> Row \cup {None}]
  /\ \A q \in Requests : Stored[q] = None
  /\ \A r \in Rows : Stored[r] # None =>
       /\ Coherent(Stored[r])
       /\ Stored[r].gone = "no"
       /\ Stored[r].by \notin Requests
       /\ \A g \in Stored[r].atts : g.by \notin Requests
  /\ \A r, s \in Rows :
       Stored[r] # None /\ Stored[s] # None /\ Stored[r].ext = Stored[s].ext => r = s

VARIABLES
  mem,     \* mem[r]: the committed row, or None
  lock,    \* lock[r]: the request whose open transaction has written row r
  work,    \* work[q]: that row as q will commit it
  pc, call, outcome,
  target,  \* target[q]: the row q is about to change
  snap,    \* snap[q]: that row as q's session loaded it
  tries,   \* how often q rolled back on an IntegrityError
  named,   \* history: how often q was refused over the name of its category
  stale    \* history: r was written by a session whose copy of r was outdated

vars == <<mem, lock, work, pc, call, outcome, target, snap, tries, named, stale>>

Live(r)    == mem[r] # None /\ mem[r].gone = "no"
Deleted(r) == mem[r] # None /\ mem[r].gone # "no"
Active     == {q \in Requests : pc[q] \notin {"idle", "done"}}
LoopIsFree == \A q \in Active : call[q].op \in {"write", "delete"}
Similar(c, row) == \/ c.title = row.title /\ c.content = row.content
                   \/ <<<<c.title, c.content>>, <<row.title, row.content>>>> \in SimilarTexts

\* What the flush puts in a column: nothing when the value is the one loaded.
Written(new, loaded, current) == IF new = loaded THEN current ELSE new

Init == /\ mem = Stored
        /\ lock = [r \in Rows |-> None]
        /\ stale = [r \in Rows |-> FALSE]
        /\ work = [q \in Requests |-> None]
        /\ pc = [q \in Requests |-> "idle"]
        /\ call = [q \in Requests |-> None]
        /\ outcome = [q \in Requests |-> "none"]
        /\ target = [q \in Requests |-> None]
        /\ snap = [q \in Requests |-> None]
        /\ tries = [q \in Requests |-> 0]
        /\ named = [q \in Requests |-> 0]

Goto(q, from, to) == pc[q] = from /\ pc' = [pc EXCEPT ![q] = to]

\* The open transaction ends: its locks go and its copies are dropped.
EndTx(q) == /\ lock' = [r \in Rows |-> IF lock[r] = q THEN None ELSE lock[r]]
            /\ work' = [work EXCEPT ![q] = None]
            /\ target' = [target EXCEPT ![q] = None]
            /\ snap' = [snap EXCEPT ![q] = None]

\* The handler answers and its dependency closes the session.
Answer(q, result) == /\ pc' = [pc EXCEPT ![q] = "done"]
                     /\ outcome' = [outcome EXCEPT ![q] = result]
                     /\ EndTx(q)
                     /\ UNCHANGED <<call, tries>>

Begin(q) == /\ pc[q] = "idle"
            /\ LoopIsFree
            /\ Cardinality(Active) < MaxActive
            /\ \E c \in Calls :
                 /\ call' = [call EXCEPT ![q] = c]
                 /\ pc' = [pc EXCEPT ![q] = IF c.op \in {"write", "delete"}
                                            THEN "lookup" ELSE "get"]
            /\ UNCHANGED <<mem, lock, work, outcome, target, snap, tries, named, stale>>

-----------------------------------------------------------------------------
(* POST /v1/memories *)

\* decode_attachment_inputs raises AttachmentValidationError: 422.
RejectAttachments(q) == /\ pc[q] = "lookup" /\ call[q].op = "write"
                        /\ call[q].atts = "invalid"
                        /\ Answer(q, "rejected")
                        /\ UNCHANGED <<mem, named, stale>>

\* write_memory rolls back on an IntegrityError and tries once more; the second one is final.
TryAgain(q) == \/ /\ tries[q] = 0
                  /\ tries' = [tries EXCEPT ![q] = 1]
                  /\ pc' = [pc EXCEPT ![q] = "lookup"]
                  /\ EndTx(q)
                  /\ UNCHANGED <<call, outcome>>
               \/ tries[q] = 1 /\ Answer(q, "conflict")

\* The category's INSERT is refused, because somebody else has made that category at the same
\* time (Categories has the rest).
CategoryRefused(q) == /\ pc[q] = "lookup" /\ call[q].op = "write" /\ call[q].atts # "invalid"
                      /\ Cardinality({p \in Requests \ {q} : named[p] > 0}) < MaxUnlucky
                      /\ named' = [named EXCEPT ![q] = @ + 1]
                      /\ TryAgain(q)
                      /\ UNCHANGED <<mem, stale>>

Load(q, r) == /\ target' = [target EXCEPT ![q] = r]
              /\ snap' = [snap EXCEPT ![q] = mem[r]]

\* Whether find_similar_auto_memory looks at all.
Deduplicates(c) == c.auto /\ c.atts \in {"keep", "clear"}

LookupHit(q) == /\ pc[q] = "lookup" /\ call[q].atts # "invalid"
                /\ \E r \in Rows : /\ Live(r) /\ mem[r].ext = call[q].ext
                                   /\ Load(q, r)
                /\ pc' = [pc EXCEPT ![q] = IF call[q].op = "write" THEN "flush" ELSE "readatts"]
                /\ UNCHANGED <<mem, lock, work, call, outcome, tries, named, stale>>

LookupMiss(q) == /\ pc[q] = "lookup" /\ call[q].op = "write" /\ call[q].atts # "invalid"
                 /\ \A r \in Rows : Live(r) => mem[r].ext # call[q].ext
                 /\ pc' = [pc EXCEPT ![q] = IF Deduplicates(call[q]) THEN "similar" ELSE "insert"]
                 /\ UNCHANGED <<mem, lock, work, call, outcome, target, snap, tries, named, stale>>

\* The best of the live rows; which of them scores best is left open.
MatchSimilar(q) == /\ Goto(q, "similar", "flush")
                   /\ \E r \in Rows : Live(r) /\ Similar(call[q], mem[r]) /\ Load(q, r)
                   /\ UNCHANGED <<mem, lock, work, call, outcome, tries, named, stale>>

NoSimilar(q) == /\ Goto(q, "similar", "insert")
                /\ \A r \in Rows : Live(r) => ~Similar(call[q], mem[r])
                /\ UNCHANGED <<mem, lock, work, call, outcome, target, snap, tries, named, stale>>

Holds(r, e) == IF mem[r] = None THEN lock[r] # None /\ work[lock[r]].ext = e
                                ELSE Live(r) /\ mem[r].ext = e

\* An insert waits for the transaction that is writing a row with its key.
KeyBusy(e) == \E r \in Rows : lock[r] # None /\ Holds(r, e)

NewGroups(q) == IF call[q].atts \in {"bare", "tagged"}
                THEN {[by |-> q, tagged |-> call[q].atts = "tagged"]} ELSE {}

TextOf(c, atts) == [title |-> c.title, content |-> c.content, atts |-> atts]

NewRow(q) == [ext |-> call[q].ext, title |-> call[q].title, content |-> call[q].content,
              text |-> TextOf(call[q], NewGroups(q)), atts |-> NewGroups(q),
              by |-> q, gone |-> "no"]

\* Mutant: no unique index.
InsertUnchecked(q) ==
  /\ Goto(q, "insert", "inserted")
  /\ lock' = [lock EXCEPT ![q] = q]
  /\ work' = [work EXCEPT ![q] = NewRow(q)]
  /\ UNCHANGED <<mem, call, outcome, target, snap, tries, named, stale>>

Insert(q) == /\ Goto(q, "insert", "inserted")
             /\ ~KeyBusy(call[q].ext)
             /\ \A r \in Rows : Live(r) => mem[r].ext # call[q].ext
             /\ lock' = [lock EXCEPT ![q] = q]
             /\ work' = [work EXCEPT ![q] = NewRow(q)]
             /\ UNCHANGED <<mem, call, outcome, target, snap, tries, named, stale>>

\* Mutant: no retry.
ConflictIsFinal(q) ==
  /\ pc[q] = "insert" /\ ~KeyBusy(call[q].ext)
  /\ \E r \in Rows : Live(r) /\ mem[r].ext = call[q].ext
  /\ Answer(q, "conflict")
  /\ UNCHANGED <<mem, named, stale>>

\* Mutant: the retry repeats the INSERT alone, until it succeeds.
ConflictRepeatsInsert(q) ==
  /\ pc[q] = "insert" /\ ~KeyBusy(call[q].ext)
  /\ \E r \in Rows : Live(r) /\ mem[r].ext = call[q].ext
  /\ EndTx(q)
  /\ UNCHANGED <<mem, pc, call, outcome, tries, named, stale>>

\* Mutant: retries are counted but not limited.
ConflictAlwaysRetries(q) ==
  /\ pc[q] = "insert" /\ ~KeyBusy(call[q].ext)
  /\ \E r \in Rows : Live(r) /\ mem[r].ext = call[q].ext
  /\ tries' = [tries EXCEPT ![q] = @ + 1]
  /\ pc' = [pc EXCEPT ![q] = "lookup"]
  /\ EndTx(q)
  /\ UNCHANGED <<mem, call, outcome, named, stale>>

\* The unique index of the live external ids refuses the row.
InsertConflict(q) ==
  /\ pc[q] = "insert" /\ ~KeyBusy(call[q].ext)
  /\ \E r \in Rows : Live(r) /\ mem[r].ext = call[q].ext
  /\ TryAgain(q)
  /\ UNCHANGED <<mem, named, stale>>

CommitInsert(q) == /\ pc[q] = "inserted"
                   /\ mem' = [mem EXCEPT ![q] = work[q]]
                   /\ Answer(q, "created")
                   /\ UNCHANGED <<named, stale>>

\* Mutant: the columns are set but not flushed, so no row lock is taken.
UpdateWithoutFlush(q) ==
  LET r == target[q]
  IN  /\ Goto(q, "flush", "flushed")
      /\ call[q].op = "write"
      /\ work' = [work EXCEPT ![q] = [mem[r] EXCEPT
                    !.title = call[q].title, !.content = call[q].content, !.by = q]]
      /\ UNCHANGED <<mem, lock, call, outcome, target, snap, tries, named, stale>>

\* Mutant: the flush runs in autocommit mode.
FlushAutocommits(q) ==
  LET r   == target[q]
      row == [mem[r] EXCEPT !.title = call[q].title, !.content = call[q].content, !.by = q]
  IN  /\ Goto(q, "flush", "flushed")
      /\ call[q].op = "write" /\ lock[r] = None
      /\ lock' = [lock EXCEPT ![r] = q]
      /\ work' = [work EXCEPT ![q] = row]
      /\ mem' = [mem EXCEPT ![r] = row]
      /\ stale' = [stale EXCEPT ![r] = @ \/ mem[r] # snap[q]]
      /\ UNCHANGED <<call, outcome, target, snap, tries, named>>

\* The first flush of _update_memory_from_payload takes the row lock.
FlushUpdate(q) ==
  LET r == target[q]
  IN  /\ pc[q] = "flush" /\ call[q].op = "write" /\ lock[r] = None
      /\ lock' = [lock EXCEPT ![r] = q]
      /\ work' = [work EXCEPT ![q] = [mem[r] EXCEPT
                    !.title = Written(call[q].title, snap[q].title, @),
                    !.content = Written(call[q].content, snap[q].content, @),
                    !.by = q]]
      /\ stale' = [stale EXCEPT ![r] = @ \/ mem[r] # snap[q]]
      /\ pc' = [pc EXCEPT ![q] = "flushed"]
      /\ UNCHANGED <<mem, call, outcome, target, snap, tries, named>>

\* _active_attachments: an update runs it once it has the row lock, a delete
\* before it has.
ReadAttachments(q) ==
  /\ pc[q] \in {"flushed", "readatts"}
  /\ snap' = [snap EXCEPT ![q].atts = mem[target[q]].atts]
  /\ pc' = [pc EXCEPT ![q] = IF @ = "flushed" THEN "finish" ELSE "flush"]
  /\ UNCHANGED <<mem, lock, work, call, outcome, target, tries, named, stale>>

\* attachment_search_text fails on an image that carries no metadata.
Unreadable(atts) == \E g \in atts : ~g.tagged

\* Mutant: a payload without attachments clears them.
FinishClears(q) ==
  LET r == target[q]
  IN  /\ pc[q] = "finish"
      /\ mem' = [mem EXCEPT ![r] = [work[q] EXCEPT
                   !.atts = NewGroups(q), !.text = TextOf(call[q], NewGroups(q))]]
      /\ Answer(q, "updated")
      /\ UNCHANGED <<named, stale>>

\* Mutant: search_text forgets the images that are kept.
FinishForgetsWords(q) ==
  LET r    == target[q]
      keep == call[q].atts = "keep"
  IN  /\ pc[q] = "finish"
      /\ mem' = [mem EXCEPT ![r] = [work[q] EXCEPT
                   !.atts = IF keep THEN @ ELSE NewGroups(q),
                   !.text = TextOf(call[q], NewGroups(q))]]
      /\ Answer(q, "updated")
      /\ UNCHANGED <<named, stale>>

FinishUpdate(q) ==
  LET r    == target[q]
      keep == call[q].atts = "keep"
      text == TextOf(call[q], IF keep THEN snap[q].atts ELSE NewGroups(q))
  IN  /\ pc[q] = "finish"
      /\ ~(keep /\ Unreadable(snap[q].atts))
      /\ mem' = [mem EXCEPT ![r] = [work[q] EXCEPT
                   !.atts = IF keep THEN mem[r].atts
                            ELSE (mem[r].atts \ snap[q].atts) \cup NewGroups(q),
                   !.text = Written(text, snap[q].text, @)]]
      /\ Answer(q, "updated")
      /\ UNCHANGED <<named, stale>>

\* The exception leaves the handler: the client gets its 500, but the session
\* and its locks live on until the event loop closes it.
CrashUpdate(q) == /\ pc[q] = "finish"
                  /\ call[q].atts = "keep" /\ Unreadable(snap[q].atts)
                  /\ pc' = [pc EXCEPT ![q] = "closing"]
                  /\ outcome' = [outcome EXCEPT ![q] = "crashed"]
                  /\ UNCHANGED <<mem, lock, work, call, target, snap, tries, named, stale>>

Close(q) == /\ pc[q] = "closing" /\ LoopIsFree
            /\ Answer(q, outcome[q])
            /\ UNCHANGED <<mem, named, stale>>

-----------------------------------------------------------------------------
(* DELETE /v1/memories *)

DeleteNothing(q) == /\ pc[q] = "lookup" /\ call[q].op = "delete"
                    /\ \A r \in Rows : Live(r) => mem[r].ext # call[q].ext
                    /\ Answer(q, "absent")
                    /\ UNCHANGED <<mem, named, stale>>

\* Mutant: only the memory is marked deleted.
DeleteKeepsImages(q) ==
  LET r == target[q]
  IN  /\ pc[q] = "flush" /\ call[q].op = "delete" /\ lock[r] = None
      /\ mem' = [mem EXCEPT ![r].gone = "api"]
      /\ Answer(q, "deleted")
      /\ UNCHANGED <<named, stale>>

CommitDelete(q) ==
  LET r == target[q]
  IN  /\ pc[q] = "flush" /\ call[q].op = "delete" /\ lock[r] = None
      /\ mem' = [mem EXCEPT ![r].gone = "api", ![r].atts = @ \ snap[q].atts]
      /\ stale' = [stale EXCEPT ![r] = @ \/ mem[r].atts # snap[q].atts]
      /\ Answer(q, "deleted")
      /\ UNCHANGED named

-----------------------------------------------------------------------------
(* POST /admin/memories/{id}/update and /delete *)

GetUnknown(q) == /\ pc[q] = "get" /\ mem[call[q].row] = None
                 /\ Answer(q, "unknown")
                 /\ UNCHANGED <<mem, named, stale>>

\* The edit form also reaches deleted memories, the delete form skips them.
GetRow(q) == LET r == call[q].row
             IN  /\ pc[q] = "get" /\ mem[r] # None
                 /\ call[q].op = "edit" \/ Live(r)
                 /\ Load(q, r)
                 /\ pc' = [pc EXCEPT ![q] = IF call[q].op = "edit" THEN "editatts" ELSE "flush"]
                 /\ UNCHANGED <<mem, lock, work, call, outcome, tries, named, stale>>

AlreadyRemoved(q) == /\ pc[q] = "get" /\ call[q].op = "remove"
                     /\ mem[call[q].row] # None /\ ~Live(call[q].row)
                     /\ Answer(q, "removed")
                     /\ UNCHANGED <<mem, named, stale>>

\* selectinload reads the attachments with a second statement.
LoadAttachments(q) ==
  LET atts == mem[target[q]].atts
  IN  /\ pc[q] = "editatts"
      /\ \/ /\ Unreadable(atts) /\ Answer(q, "crashed")
         \/ /\ ~Unreadable(atts)
            /\ pc' = [pc EXCEPT ![q] = "flush"]
            /\ snap' = [snap EXCEPT ![q].atts = atts]
            /\ UNCHANGED <<lock, work, call, outcome, target, tries>>
      /\ UNCHANGED <<mem, named, stale>>

\* Mutant: the edit form writes every column back as it was loaded.
EditWritesWholeRow(q) ==
  LET r == target[q]
  IN  /\ pc[q] = "flush" /\ call[q].op = "edit" /\ lock[r] = None
      /\ mem' = [mem EXCEPT ![r] = [snap[q] EXCEPT
                   !.title = call[q].title, !.content = call[q].content,
                   !.text = TextOf(call[q], snap[q].atts), !.by = q]]
      /\ stale' = [stale EXCEPT ![r] = @ \/ mem[r] # snap[q]]
      /\ Answer(q, "edited")
      /\ UNCHANGED named

CommitEdit(q) ==
  LET r == target[q]
  IN  /\ pc[q] = "flush" /\ call[q].op = "edit" /\ lock[r] = None
      /\ mem' = [mem EXCEPT ![r] = [mem[r] EXCEPT
                   !.title = Written(call[q].title, snap[q].title, @),
                   !.content = Written(call[q].content, snap[q].content, @),
                   !.text = Written(TextOf(call[q], snap[q].atts), snap[q].text, @),
                   !.by = q]]
      /\ stale' = [stale EXCEPT ![r] = @ \/ mem[r] # snap[q]]
      /\ Answer(q, "edited")
      /\ UNCHANGED named

CommitRemove(q) ==
  LET r == target[q]
  IN  /\ pc[q] = "flush" /\ call[q].op = "remove" /\ lock[r] = None
      /\ mem' = [mem EXCEPT ![r].gone = IF @ = "api" THEN @ ELSE "admin"]
      /\ Answer(q, "removed")
      /\ UNCHANGED <<named, stale>>

-----------------------------------------------------------------------------
\* The connection drops: PostgreSQL rolls the transaction back at once.
Fail(q) == /\ q \in Active
           /\ Answer(q, IF pc[q] = "closing" THEN outcome[q] ELSE "failed")
           /\ UNCHANGED <<mem, named, stale>>

Progress(q) == \/ RejectAttachments(q) \/ CategoryRefused(q) \/ LookupHit(q) \/ LookupMiss(q)
               \/ MatchSimilar(q) \/ NoSimilar(q)
               \/ Insert(q) \/ InsertConflict(q) \/ CommitInsert(q)
               \/ FlushUpdate(q) \/ FinishUpdate(q) \/ CrashUpdate(q) \/ Close(q)
               \/ DeleteNothing(q) \/ ReadAttachments(q) \/ CommitDelete(q)
               \/ GetUnknown(q) \/ GetRow(q) \/ AlreadyRemoved(q)
               \/ LoadAttachments(q) \/ CommitEdit(q) \/ CommitRemove(q)

AllDone == /\ \A q \in Requests : pc[q] = "done"
           /\ UNCHANGED vars

Next == (\E q \in Requests : Begin(q) \/ Progress(q) \/ Fail(q)) \/ AllDone

\* A thread of the pool that has begun a handler runs it to the end, and
\* PostgreSQL wakes the waiter once the lock it waits for is free.
Spec == Init /\ [][Next]_vars /\ \A q \in Requests : WF_vars(Progress(q))
-----------------------------------------------------------------------------
(* What the store promises *)

TypeOK == /\ mem \in [Rows -> Row \cup {None}]
          /\ lock \in [Rows -> Requests \cup {None}]
          /\ work \in [Requests -> Row \cup {None}]
          /\ pc \in [Requests -> {"idle", "lookup", "similar", "insert", "inserted",
                                  "readatts", "get", "editatts", "flush", "flushed", "finish",
                                  "closing", "done"}]
          /\ call \in [Requests -> Calls \cup {None}]
          /\ outcome \in [Requests -> Outcome]
          /\ target \in [Requests -> Rows \cup {None}]
          /\ snap \in [Requests -> Row \cup {None}]
          /\ tries \in [Requests -> 0..1] /\ named \in [Requests -> Nat]
          /\ stale \in [Rows -> BOOLEAN]

\* However inserts, retries and deletes interleave, an external id names at
\* most one live memory (uq_memories_active_external_id).
UniqueLive == \A r, s \in Rows : Live(r) /\ Live(s) /\ mem[r].ext = mem[s].ext => r = s

\* Two writes that both replace the images of a memory never leave a mixture:
\* the flush that comes before the images are read makes the second one wait.
OneWritersImages == \A r \in Rows : mem[r] # None =>
                      \A g, h \in mem[r].atts : g.by = h.by

\* A memory no outdated session has written is what its last writer sent: both
\* columns from that one payload, and a search text built from exactly these
\* columns and the images now attached.
FreshRowsCoherent ==
  \A r \in Rows : mem[r] # None /\ ~stale[r] =>
    /\ mem[r].gone # "api" =>
         mem[r].text = [title |-> mem[r].title, content |-> mem[r].content,
                        atts |-> mem[r].atts]
    /\ mem[r].by \in Requests =>
         /\ mem[r].title = call[mem[r].by].title
         /\ mem[r].content = call[mem[r].by].content

\* A memory deleted through the API takes all its images with it, unless the
\* deleting session had read them before another one changed them.
DeletedTakesImages ==
  \A r \in Rows : mem[r] # None /\ mem[r].gone = "api" /\ ~stale[r] => mem[r].atts = {}

\* A request that is answered with an error, at whatever statement it stopped,
\* leaves nothing behind: no row, no column, no image, no word in a search text.
NoTrace(q) == /\ mem[q] = None
              /\ \A r \in Rows : mem[r] # None =>
                   /\ mem[r].by # q
                   /\ \A g \in mem[r].atts \cup mem[r].text.atts : g.by # q
AllOrNothing == \A q \in Requests :
  outcome[q] \in {"rejected", "conflict", "crashed", "failed", "absent", "unknown"} => NoTrace(q)

\* The one retry after an IntegrityError, of whichever index, is spent for a reason: a write
\* that fails for good was refused twice, and each refusal that was not over its category's
\* name was over another memory of its external id, the first of two deleted in between.
Twins(q) == {r \in Rows : mem[r] # None /\ mem[r].ext = call[q].ext}
RefusedTwice == \A q \in Requests : outcome[q] = "conflict" =>
  /\ named[q] < 2 => Twins(q) # {}
  /\ named[q] = 0 => \E r, s \in Twins(q) : r # s /\ mem[r].gone # "no"

\* No session, however old its copy of the row, brings a deleted memory back.
TombstonesStay == [][\A r \in Rows : Deleted(r) => Deleted(r)']_vars

\* A crashed write keeps the row that an admin form, on the event loop, waits for: neither
\* can ever end, and the server begins no other request.
LoopIsStuck == \E p, q \in Active : /\ pc[p] = "closing"
                                    /\ call[q].op \in {"edit", "remove"} /\ pc[q] = "flush"
                                    /\ lock[target[q]] = p

\* This apart, no set of requests waits for each other's rows or keys for ever.
Answered == \A q \in Requests : pc[q] # "idle" ~> pc[q] = "done" \/ LoopIsStuck

\* Rewriting a memory that has images, without mentioning them, works: "the
\* same external_id updates the old memory" (examples/AI_MEMORY_USAGE.md:120).
RewriteWorks == \A q \in Requests : outcome[q] # "crashed"
-----------------------------------------------------------------------------
(* Why every request is answered, but for the fairness *)

\* Whose end a request waits for: a key's or a row's lock, or the event loop.
WaitsFor(q) == {p \in Requests :
  \/ pc[q] = "insert" /\ \E r \in Rows : lock[r] = p /\ Holds(r, call[q].ext)
  \/ pc[q] = "flush" /\ lock[target[q]] = p
  \/ pc[q] = "closing" /\ p \in Active /\ call[p].op \in {"edit", "remove"}}

\* Unless the loop is stuck nobody waits in a circle: a write for a row or a key, its holder
\* for the loop to close its session, the form on the loop for another row; then it ends.
ShortQueues == ~LoopIsStuck =>
  \A q \in Requests : \A p \in WaitsFor(q) : \A s \in WaitsFor(p) : \A t \in WaitsFor(s) :
    WaitsFor(t) = {}

\* How many statements a request may still take, the second try of a write included.
Ahead == [idle |-> 8, lookup |-> 7, similar |-> 6, get |-> 6, insert |-> 5, readatts |-> 5,
          editatts |-> 5, flush |-> 4, flushed |-> 3, finish |-> 2, inserted |-> 1,
          closing |-> 1, done |-> 0]
StepsLeft(q) == Ahead[pc[q]] + 3 * (1 - tries[q])

\* Each step of a request brings it nearer to its answer, the retry after an IntegrityError
\* too, and no step of another takes it back.
EveryStepCounts ==
  [][\E q \in Requests : /\ StepsLeft(q)' < StepsLeft(q)
                         /\ \A p \in Requests \ {q} : StepsLeft(p)' = StepsLeft(p)]_vars

-----------------------------------------------------------------------------
(* Why it holds: the parts of an inductive invariant *)

Committed(q) == pc[q] = "done" /\ outcome[q] \in {"created", "updated", "edited"}

\* Images that requests which have committed, or earlier ones, have attached.
Settled(images) == \A g \in images : g.by \in Requests => Committed(g.by)
SettledCopy(row) == row # None => Settled(row.atts) /\ Settled(row.text.atts)

Locking   == {"flushed", "finish", "closing"}
HasTarget == {"readatts", "editatts", "flush"} \cup Locking

\* A handler past its first statement knows its request and its row.
InHand == \A q \in Requests :
  /\ pc[q] # "idle" => call[q] # None
  /\ pc[q] \in HasTarget => target[q] # None /\ mem[target[q]] # None /\ snap[q] # None
  /\ pc[q] \notin {"closing", "done"} => outcome[q] = "none"
  /\ pc[q] = "closing" => outcome[q] = "crashed"

\* The rows an open transaction has locked are the one it inserted or is updating.
LocksAreHeld == \A r \in Rows : lock[r] # None =>
  \/ pc[lock[r]] = "inserted" /\ lock[r] = r
  \/ pc[lock[r]] \in Locking /\ target[lock[r]] = r

\* An uncommitted row has the key it was checked for, and no live row or other
\* uncommitted row has that key as well.
PendingInsert(q) ==
  /\ lock[q] = q
  /\ work[q] # None /\ work[q].ext = call[q].ext /\ work[q].by = q
  /\ \A g \in work[q].atts \cup work[q].text.atts : g.by = q
  /\ \A r \in Rows : Live(r) => mem[r].ext # work[q].ext
  /\ \A p \in Requests \ {q} : pc[p] = "inserted" => work[p].ext # work[q].ext

\* Nobody else changes a row while it is locked for an update.
PendingUpdate(q) ==
  LET r == target[q]
  IN  /\ lock[r] = q
      /\ work[q] # None /\ work[q].ext = mem[r].ext /\ work[q].gone = mem[r].gone
      /\ work[q].by = q
      /\ SettledCopy(work[q])

PendingWrites == \A q \in Requests :
  /\ pc[q] = "inserted" => PendingInsert(q)
  /\ pc[q] \in Locking => PendingUpdate(q)

\* Whatever carries a request's name was written by its commit.
OnlyCommitted ==
  /\ \A q \in Requests : mem[q] # None => Committed(q)
  /\ \A r \in Rows : mem[r] # None =>
       /\ mem[r].by \in Requests => Committed(mem[r].by)
       /\ SettledCopy(mem[r])
  /\ \A q \in Requests : SettledCopy(snap[q])

\* The images a locked update has read are still all there are.
ImagesReadInFull == \A q \in Requests :
  pc[q] = "finish" => snap[q].atts = mem[target[q]].atts

IInv == /\ TypeOK /\ InHand /\ LocksAreHeld /\ PendingWrites /\ OnlyCommitted
        /\ UniqueLive

-----------------------------------------------------------------------------
(* What fresh copies bring about, on top of IInv *)

\* What was asked for tells the way a handler goes.
Asked(q) ==
  /\ pc[q] = "idle" => call[q] = None
  /\ pc[q] = "lookup" => call[q].op \in {"write", "delete"}
  /\ pc[q] \in {"similar", "insert", "inserted", "flushed", "finish", "closing"} => call[q].op = "write"
  /\ pc[q] = "readatts" => call[q].op = "delete"
  /\ pc[q] = "get" => call[q].op \in {"edit", "remove"}
  /\ pc[q] = "editatts" => call[q].op = "edit"

\* A write takes a row that was not deleted and, unless its copy was outdated, sets what its
\* payload says and leaves the search text alone until its end.
InStep(q) ==
  /\ Asked(q)
  /\ pc[q] = "inserted" => work[q] = NewRow(q)
  /\ pc[q] = "flush" /\ call[q].op = "write" => snap[q].gone = "no"
  /\ pc[q] \in {"flushed", "finish"} /\ ~stale[target[q]] =>
       /\ mem[target[q]].gone # "api"
       /\ work[q].title = call[q].title /\ work[q].content = call[q].content
       /\ work[q].text = snap[q].text

\* A second attempt had its reason.  If that was a row of its name, it has it still when it is
\* about to insert: somebody has deleted the row since.
Retried(q) ==
  /\ pc[q] \notin {"closing", "done"} => named[q] <= tries[q]
  /\ tries[q] = 1 => pc[q] # "idle"
  /\ tries[q] = 1 /\ named[q] = 0 =>
       /\ Twins(q) # {}
       /\ pc[q] \in {"similar", "insert"} => \E r \in Twins(q) : Deleted(r)

HistoryInv == /\ ImagesReadInFull /\ FreshRowsCoherent /\ DeletedTakesImages
              /\ RefusedTwice
              /\ \A q \in Requests : InStep(q) /\ Retried(q)
=============================================================================
