------------------------------ MODULE Categories ------------------------------
(***************************************************************************)
(* The categories of one user: every write of a memory finds or creates    *)
(* its category by name in the same transaction, while the admin creates,  *)
(* renames, deletes and merges categories.  An action is one SQL statement *)
(* of a READ COMMITTED transaction, or several none can get between.       *)
(*                                                                         *)
(* Of a memory only the category and the external id count here (module    *)
(* MemoryStore has the rest): a stored memory has its key for external id, *)
(* one made since the id its request was asked to write.                   *)
(* A category row is locked by nobody who merely refers to it: the foreign *)
(* key's share lock does not keep an UPDATE of name or deleted_at waiting. *)
(*                                                                         *)
(* "write" is POST /v1/memories, "extract" one item of /extract, "move"    *)
(* the background task applying a move_category suggestion.  The admin     *)
(* forms run on the event loop, one at a time, and no request is begun     *)
(* while one of them runs.                                                 *)
(***************************************************************************)
EXTENDS Integers, FiniteSets

CONSTANTS
  Requests,
  CatRows, MemRows,   \* primary keys: the rows request q inserts are named q
  Names,              \* normalized names
  Cut,                \* Cut[n]: the name as stored, n[:128]
  Calls,
  StoredCats, StoredMems,
  MaxActive,          \* bound: requests handled at the same time
  None

Writes   == {"write", "extract", "move"}
OnLoop   == {"create", "rename", "delete", "merge"}
Category == [name : Names, gone : BOOLEAN, into : CatRows \cup {None}]
Memory   == [cat : CatRows, live : BOOLEAN]
Call     == [op : Writes \cup OnLoop \cup {"remove"}, name : Names, auto : BOOLEAN,
             mem : MemRows, cat : CatRows, target : CatRows]
Outcome  == {"none", "ok", "conflict", "skipped", "exists", "unknown", "occupied", "failed"}

ASSUME ConstantsOK ==
  /\ Requests \subseteq CatRows \cap MemRows
  /\ Calls \subseteq Call
  /\ Cut \in [Names -> Names] /\ \A n \in Names : Cut[Cut[n]] = Cut[n]
  /\ StoredCats \in [CatRows -> Category \cup {None}]
  /\ StoredMems \in [MemRows -> Memory \cup {None}]
  /\ \A q \in Requests : StoredCats[q] = None /\ StoredMems[q] = None
  /\ \A r \in CatRows : StoredCats[r] # None =>
       ~StoredCats[r].gone /\ StoredCats[r].into = None /\ Cut[StoredCats[r].name] = StoredCats[r].name
  /\ \A r, s \in CatRows : StoredCats[r] # None /\ StoredCats[s] # None
                             /\ StoredCats[r].name = StoredCats[s].name => r = s
  /\ \A m \in MemRows : StoredMems[m] # None =>
       StoredCats[StoredMems[m].cat] # None
  /\ \A c \in Calls : c.mem \notin Requests /\ (c.op = "move" => StoredMems[c.mem] # None)
  /\ None \notin CatRows \cup MemRows \cup Requests \cup Category \cup Memory \cup Call
  /\ MaxActive \in Nat

VARIABLES
  cat,     \* the committed rows of memory_categories
  mem,     \* the committed rows of memories
  lock,    \* lock[m]: the request whose open transaction has written memory m
  pc, call, outcome, tries,
  found,   \* found[q]: the category q has found or, not yet committed, inserted
  row,     \* row[q]: the memory q is about to change or, not yet committed, has inserted
  loaded,  \* loaded[q]: its category as q's session read it
  members, \* members[q]: the memories a merge still has to move
  chosen,  \* history: the category of m's last acknowledged write
  raced    \* history: m was put in a category that was being closed, or by a
           \* session whose copy of m was outdated

vars == <<cat, mem, lock, pc, call, outcome, tries, found, row, loaded, members, chosen, raced>>
tables  == <<cat, mem, chosen, raced>>
session == <<lock, call, outcome, tries, found, row, loaded, members>>

Active     == {q \in Requests : pc[q] \notin {"idle", "done"}}
LoopIsFree == \A q \in Active : call[q].op \notin OnLoop
InUse(r)   == cat[r] # None /\ ~cat[r].gone
Named(n)   == {r \in CatRows : InUse(r) /\ cat[r].name = n}
Live(m)    == mem[m] # None /\ mem[m].live
ExtId(m)   == IF m \in Requests THEN call[m].mem ELSE m
LiveAs(e)  == {m \in MemRows : Live(m) /\ ExtId(m) = e}

\* A category whose admin form has read its memories and not yet committed.
Closing(r) == \E a \in Active : pc[a] \in {"drop", "merge"} /\ call[a].cat = r

Init == /\ cat = StoredCats /\ mem = StoredMems
        /\ lock = [m \in MemRows |-> None]
        /\ pc = [q \in Requests |-> "idle"]
        /\ call = [q \in Requests |-> None]
        /\ outcome = [q \in Requests |-> "none"]
        /\ tries = [q \in Requests |-> 0]
        /\ found = [q \in Requests |-> None]
        /\ row = [q \in Requests |-> None]
        /\ loaded = [q \in Requests |-> None]
        /\ members = [q \in Requests |-> {}]
        /\ chosen = [m \in MemRows |-> IF StoredMems[m] = None THEN None ELSE StoredMems[m].cat]
        /\ raced = [m \in MemRows |-> FALSE]

Goto(q, from, to) == pc[q] = from /\ pc' = [pc EXCEPT ![q] = to]

\* The open transaction ends, its locks go, its session is closed or emptied.
EndTx(q) == /\ lock' = [m \in MemRows |-> IF lock[m] = q THEN None ELSE lock[m]]
            /\ found' = [found EXCEPT ![q] = None]
            /\ row' = [row EXCEPT ![q] = None]
            /\ loaded' = [loaded EXCEPT ![q] = None]
            /\ members' = [members EXCEPT ![q] = {}]

Answer(q, result) == /\ pc' = [pc EXCEPT ![q] = "done"]
                     /\ outcome' = [outcome EXCEPT ![q] = result]
                     /\ EndTx(q)
                     /\ UNCHANGED <<call, tries>>

FirstStep(op) == CASE op \in {"write", "extract", "create"} -> "find"
                   [] op \in {"move", "remove"} -> "load"
                   [] OTHER -> "get"

Begin(q) == /\ pc[q] = "idle" /\ LoopIsFree
            /\ Cardinality(Active) < MaxActive
            /\ \E c \in Calls : /\ call' = [call EXCEPT ![q] = c]
                                /\ pc' = [pc EXCEPT ![q] = FirstStep(c.op)]
            /\ UNCHANGED <<tables, lock, outcome, tries, found, row, loaded, members>>

-----------------------------------------------------------------------------
(* get_or_create_category *)

AfterCategory(op) == CASE op \in {"write", "extract"} -> "lookup"
                       [] op = "move" -> "flush"
                       [] OTHER -> "commit"

FindCategory(q) ==
  /\ pc[q] = "find"
  /\ \/ \E r \in Named(call[q].name) :
          /\ found' = [found EXCEPT ![q] = r]
          /\ pc' = [pc EXCEPT ![q] = AfterCategory(call[q].op)]
     \/ /\ Named(call[q].name) = {}
        /\ pc' = [pc EXCEPT ![q] = "insert"]
        /\ UNCHANGED found
  /\ UNCHANGED <<tables, lock, call, outcome, tries, row, loaded, members>>

\* An INSERT or UPDATE with name n waits for the transaction that has inserted it.
NameBusy(n) == \E p \in Requests : found[p] = p /\ Cut[call[p].name] = n

\* Mutant: the new category is committed by itself.
InsertCommits(q) ==
  LET n == Cut[call[q].name]
  IN  /\ Goto(q, "insert", AfterCategory(call[q].op))
      /\ ~NameBusy(n) /\ Named(n) = {}
      /\ found' = [found EXCEPT ![q] = q]
      /\ cat' = [cat EXCEPT ![q] = [name |-> n, gone |-> FALSE, into |-> None]]
      /\ UNCHANGED <<mem, chosen, raced, lock, call, outcome, tries, row, loaded, members>>

InsertCategory(q) ==
  LET n == Cut[call[q].name]
  IN  /\ Goto(q, "insert", AfterCategory(call[q].op))
      /\ ~NameBusy(n) /\ Named(n) = {}
      /\ found' = [found EXCEPT ![q] = q]
      /\ UNCHANGED <<tables, lock, call, outcome, tries, row, loaded, members>>

Refusal(op) == CASE op = "write" -> "conflict"
                 [] op = "create" -> "exists"
                 [] OTHER -> "skipped"

\* Mutant: no retry.
RefusedIsFinal(q) ==
  LET n == Cut[call[q].name]
  IN  /\ pc[q] = "insert" /\ ~NameBusy(n) /\ Named(n) # {}
      /\ Answer(q, Refusal(call[q].op))
      /\ UNCHANGED tables

\* IntegrityError, of whichever index: only POST /v1/memories tries again, once.
TryAgain(q) == \/ /\ call[q].op = "write" /\ tries[q] = 0
                  /\ tries' = [tries EXCEPT ![q] = 1]
                  /\ pc' = [pc EXCEPT ![q] = "find"]
                  /\ EndTx(q)
                  /\ UNCHANGED <<call, outcome>>
               \/ /\ call[q].op = "write" => tries[q] = 1
                  /\ Answer(q, Refusal(call[q].op))

CategoryRefused(q) ==
  LET n == Cut[call[q].name]
  IN  /\ pc[q] = "insert" /\ ~NameBusy(n) /\ Named(n) # {}
      /\ TryAgain(q)
      /\ UNCHANGED tables

-----------------------------------------------------------------------------
(* upsert_memory, and the background task's update_memory_from_proposal *)

Load(q, m) == /\ row' = [row EXCEPT ![q] = m]
              /\ loaded' = [loaded EXCEPT ![q] = mem[m].cat]

\* The memory of that external id, one an automatic memory is like, or a new row
\* (what may happen between these two SELECTs is the matter of MemoryStore).
LookupMemory(q) ==
  /\ pc[q] = "lookup"
  /\ \/ \E m \in MemRows :
          /\ \/ m \in LiveAs(call[q].mem)
             \/ call[q].auto /\ LiveAs(call[q].mem) = {} /\ Live(m) /\ mem[m].cat = found[q]
          /\ Load(q, m)
          /\ pc' = [pc EXCEPT ![q] = "flush"]
     \/ /\ LiveAs(call[q].mem) = {}
        /\ pc' = [pc EXCEPT ![q] = "add"]
        /\ UNCHANGED <<row, loaded>>
  /\ UNCHANGED <<tables, lock, call, outcome, tries, found, members>>

\* Who is writing a memory of that external id: its INSERT waits for them.
KeyHolders(e) == {p \in Requests :
  \/ row[p] = p /\ call[p].mem = e
  \/ \E m \in LiveAs(e) : lock[m] = p}

InsertMemory(q) ==
  /\ Goto(q, "add", "commit")
  /\ KeyHolders(call[q].mem) = {} /\ LiveAs(call[q].mem) = {}
  /\ row' = [row EXCEPT ![q] = q]
  /\ UNCHANGED <<tables, lock, call, outcome, tries, found, loaded, members>>

\* Somebody else has made a memory of that external id since.
MemoryRefused(q) ==
  /\ pc[q] = "add"
  /\ KeyHolders(call[q].mem) = {} /\ LiveAs(call[q].mem) # {}
  /\ TryAgain(q)
  /\ UNCHANGED tables

\* Mutant: SELECT ... FOR UPDATE.
LoadLocks(q) ==
  /\ pc[q] = "load"
  /\ \/ /\ call[q].op = "remove" /\ LiveAs(call[q].mem) = {}
        /\ Answer(q, "unknown")
     \/ \E m \in MemRows :
          /\ IF call[q].op = "move" THEN m = call[q].mem ELSE m \in LiveAs(call[q].mem)
          /\ lock[m] = None
          /\ lock' = [lock EXCEPT ![m] = q]
          /\ Load(q, m)
          /\ pc' = [pc EXCEPT ![q] = IF call[q].op = "move" THEN "find" ELSE "remove"]
          /\ UNCHANGED <<call, outcome, tries, found, members>>
  /\ UNCHANGED tables

\* The background task asks by key, and neither it nor what it then does asks for deleted_at;
\* DELETE /v1/memories asks by external id, and does.
LoadMemory(q) ==
  /\ pc[q] = "load"
  /\ \/ /\ call[q].op = "remove" /\ LiveAs(call[q].mem) = {}
        /\ Answer(q, "unknown")
     \/ \E m \in MemRows :
          /\ IF call[q].op = "move" THEN m = call[q].mem ELSE m \in LiveAs(call[q].mem)
          /\ Load(q, m)
          /\ pc' = [pc EXCEPT ![q] = IF call[q].op = "move" THEN "find" ELSE "remove"]
          /\ UNCHANGED <<lock, call, outcome, tries, found, members>>
  /\ UNCHANGED tables

FlushMemory(q) ==
  LET m == row[q]
  IN  /\ Goto(q, "flush", "commit")
      /\ lock[m] \in {None, q}
      /\ lock' = [lock EXCEPT ![m] = q]
      /\ UNCHANGED <<tables, call, outcome, tries, found, row, loaded, members>>

\* What the flush puts in a column: nothing when the value is the one loaded.
Written(new, old, current) == IF new = old THEN current ELSE new

NewCategory(q) == [name |-> Cut[call[q].name], gone |-> FALSE, into |-> None]

\* The category q has inserted, if it has, is committed with whatever it is for.
CommitCategory(q) ==
  cat' = IF found[q] = q THEN [cat EXCEPT ![q] = NewCategory(q)] ELSE cat

\* Mutant: an update leaves the memory where it is.
WriteKeepsCategory(q) ==
  LET m  == row[q]
      to == IF mem[m] = None THEN found[q] ELSE mem[m].cat
  IN  /\ pc[q] = "commit" /\ call[q].op \in Writes
      /\ CommitCategory(q)
      /\ mem' = [mem EXCEPT ![m] = [cat |-> to, live |-> IF @ = None THEN TRUE ELSE @.live]]
      /\ chosen' = [chosen EXCEPT ![m] = found[q]]
      /\ UNCHANGED raced
      /\ Answer(q, "ok")

CommitWrite(q) ==
  LET m  == row[q]
      to == IF mem[m] = None THEN found[q] ELSE Written(found[q], loaded[q], mem[m].cat)
  IN  /\ pc[q] = "commit" /\ call[q].op \in Writes
      /\ CommitCategory(q)
      /\ mem' = [mem EXCEPT ![m] = [cat |-> to, live |-> mem[m] = None \/ mem[m].live]]
      /\ chosen' = [chosen EXCEPT ![m] = found[q]]
      /\ raced' = [raced EXCEPT ![m] =
                     \/ Closing(to)
                     \/ cat[to] # None /\ cat[to].gone
                     \/ mem[m] # None /\ mem[m].cat # loaded[q]]
      /\ Answer(q, "ok")

\* An update of a memory with an image of empty metadata raises in attachment_search_text (see
\* MemoryStore): what it has locked and inserted stays until the event loop closes its session.
Crash(q) == /\ Goto(q, "commit", "closing")
            /\ call[q].op = "write" /\ row[q] # q
            /\ UNCHANGED <<tables, session>>

Close(q) == /\ pc[q] = "closing" /\ LoopIsFree
            /\ Answer(q, "failed")
            /\ UNCHANGED tables

RemoveMemory(q) ==
  LET m == row[q]
  IN  /\ pc[q] = "remove" /\ lock[m] = None
      /\ mem' = [mem EXCEPT ![m].live = FALSE]
      /\ Answer(q, "ok")
      /\ UNCHANGED <<cat, chosen, raced>>

-----------------------------------------------------------------------------
(* The admin's forms *)

CommitCreate(q) == /\ pc[q] = "commit" /\ call[q].op = "create"
                   /\ CommitCategory(q)
                   /\ Answer(q, "ok")
                   /\ UNCHANGED <<mem, chosen, raced>>

AfterGet(op) == CASE op = "rename" -> "rename" [] op = "delete" -> "count" [] OTHER -> "read"

\* Mutant: the target of a merge need not be in use.
GetAnyTarget(q) ==
  LET c == call[q]
  IN  /\ pc[q] = "get"
      /\ IF InUse(c.cat) /\ (c.op = "merge" => cat[c.target] # None /\ c.target # c.cat)
         THEN /\ pc' = [pc EXCEPT ![q] = AfterGet(c.op)]
              /\ UNCHANGED session
         ELSE Answer(q, "unknown")
      /\ UNCHANGED tables

GetCategory(q) ==
  LET c == call[q]
  IN  /\ pc[q] = "get"
      /\ IF InUse(c.cat) /\ (c.op = "merge" => InUse(c.target) /\ c.target # c.cat)
         THEN /\ pc' = [pc EXCEPT ![q] = AfterGet(c.op)]
              /\ UNCHANGED session
         ELSE Answer(q, "unknown")
      /\ UNCHANGED tables

\* Mutant: no unique index.
RenameUnchecked(q) ==
  /\ pc[q] = "rename"
  /\ cat' = [cat EXCEPT ![call[q].cat].name = Cut[call[q].name]]
  /\ Answer(q, "ok")
  /\ UNCHANGED <<mem, chosen, raced>>

\* A normalized name that does not fit its column is a DataError: 500.
RenameCategory(q) ==
  LET r == call[q].cat
      n == call[q].name
  IN  /\ pc[q] = "rename"
      /\ \/ Cut[n] # n /\ Answer(q, "failed") /\ UNCHANGED cat
         \/ /\ Cut[n] = n /\ ~NameBusy(n) /\ Named(n) \ {r} # {}
            /\ Answer(q, "exists") /\ UNCHANGED cat
         \/ /\ Cut[n] = n /\ ~NameBusy(n) /\ Named(n) \ {r} = {}
            /\ cat' = [cat EXCEPT ![r].name = n]
            /\ Answer(q, "ok")
      /\ UNCHANGED <<mem, chosen, raced>>

\* Mutant: nobody counts.
CountsNothing(q) == /\ Goto(q, "count", "drop")
                    /\ UNCHANGED <<tables, session>>

CountMembers(q) ==
  /\ pc[q] = "count"
  /\ IF \E m \in MemRows : Live(m) /\ mem[m].cat = call[q].cat
     THEN Answer(q, "occupied")
     ELSE /\ pc' = [pc EXCEPT ![q] = "drop"]
          /\ UNCHANGED session
  /\ UNCHANGED tables

DeleteCategory(q) == /\ pc[q] = "drop"
                     /\ cat' = [cat EXCEPT ![call[q].cat].gone = TRUE]
                     /\ Answer(q, "ok")
                     /\ UNCHANGED <<mem, chosen, raced>>

\* Deleted memories are moved as well.
ReadMembers(q) ==
  /\ Goto(q, "read", "merge")
  /\ members' = [members EXCEPT ![q] = {m \in MemRows : mem[m] # None /\ mem[m].cat = call[q].cat}]
  /\ UNCHANGED <<tables, lock, call, outcome, tries, found, row, loaded>>

\* The flush updates one row after the other (in the order of their keys; here
\* in any) and keeps each locked.
FlushMember(q) ==
  /\ pc[q] = "merge"
  /\ \E m \in members[q] : /\ lock[m] = None
                           /\ lock' = [lock EXCEPT ![m] = q]
  /\ UNCHANGED <<tables, pc, call, outcome, tries, found, row, loaded, members>>

CommitMerge(q) ==
  LET from == call[q].cat
      to   == call[q].target
  IN  /\ pc[q] = "merge" /\ \A m \in members[q] : lock[m] = q
      /\ mem' = [m \in MemRows |-> IF m \in members[q] THEN [mem[m] EXCEPT !.cat = to] ELSE mem[m]]
      /\ cat' = [cat EXCEPT ![from].gone = TRUE, ![from].into = to]
      /\ raced' = [m \in MemRows |-> raced[m] \/ (m \in members[q] /\ mem[m].cat # from)]
      /\ Answer(q, "ok")
      /\ UNCHANGED chosen

-----------------------------------------------------------------------------
\* The connection drops: PostgreSQL rolls the transaction back at once.
Fail(q) == /\ q \in Active
           /\ Answer(q, "failed")
           /\ UNCHANGED tables

Progress(q) == \/ FindCategory(q) \/ InsertCategory(q) \/ CategoryRefused(q)
               \/ LookupMemory(q) \/ InsertMemory(q) \/ MemoryRefused(q)
               \/ LoadMemory(q) \/ FlushMemory(q) \/ CommitWrite(q) \/ Crash(q) \/ Close(q)
               \/ RemoveMemory(q) \/ CommitCreate(q) \/ GetCategory(q) \/ RenameCategory(q)
               \/ CountMembers(q) \/ DeleteCategory(q)
               \/ ReadMembers(q) \/ FlushMember(q) \/ CommitMerge(q)

AllDone == /\ \A q \in Requests : pc[q] = "done"
           /\ UNCHANGED vars

Next == (\E q \in Requests : Begin(q) \/ Progress(q) \/ Fail(q)) \/ AllDone

\* A handler once begun is run to its end, by its thread or on the event loop,
\* and PostgreSQL wakes the waiter once the lock it waits for is free.
Spec == Init /\ [][Next]_vars /\ \A q \in Requests : WF_vars(Progress(q))
-----------------------------------------------------------------------------
(* What categories promise *)

\* Following merged_into never leads round in a circle.
MergesEnd == \A S \in (SUBSET CatRows) \ {{}} :
  \E r \in S : cat[r] = None \/ cat[r].into \notin S

\* The state has its type, and merges end.
TypeOK == /\ MergesEnd
          /\ cat \in [CatRows -> Category \cup {None}]
          /\ mem \in [MemRows -> Memory \cup {None}]
          /\ lock \in [MemRows -> Requests \cup {None}]
          /\ pc \in [Requests -> {"idle", "find", "insert", "lookup", "add", "load", "flush",
                                  "commit", "closing", "remove", "get", "rename", "count", "drop",
                                  "read", "merge", "done"}]
          /\ call \in [Requests -> Calls \cup {None}]
          /\ outcome \in [Requests -> Outcome]
          /\ tries \in [Requests -> 0..1]
          /\ found \in [Requests -> CatRows \cup {None}]
          /\ row \in [Requests -> MemRows \cup {None}]
          /\ loaded \in [Requests -> CatRows \cup {None}]
          /\ members \in [Requests -> SUBSET MemRows]
          /\ chosen \in [MemRows -> CatRows \cup {None}]
          /\ raced \in [MemRows -> BOOLEAN]

\* However writes that create a category, the admin's forms and their retries
\* interleave, a name stands for at most one category in use.
OneCategoryPerName == \A r, s \in CatRows :
  InUse(r) /\ InUse(s) /\ cat[r].name = cat[s].name => r = s

\* A category exists only if the request that made it succeeded: neither an
\* error, nor a refused or failed try, leaves an empty one behind.
NothingHalfMade == \A q \in Requests : cat[q] # None => outcome[q] = "ok"

\* A live memory is in a category in use, except one written while the admin
\* was closing its category, or with an outdated copy.
ClosedOnlyWhenEmpty == \A m \in MemRows :
  Live(m) /\ ~raced[m] => InUse(mem[m].cat)

\* A memory is where its last acknowledged write has put it, or where merges
\* have taken that category since; no other request's write displaces it.
\* Excepted is, again, one written while the admin was closing its category,
\* or with an outdated copy.
FollowsItsCategory == \A m \in MemRows : mem[m] # None /\ ~raced[m] =>
  \A S \in SUBSET CatRows :
    chosen[m] \in S /\ (\A r \in S : cat[r] # None /\ cat[r].into # None => cat[r].into \in S)
      => mem[m].cat \in S

Freed       == \E a \in Requests : call[a] # None /\ call[a].op \in {"rename", "delete", "merge"}
                                   /\ outcome[a] = "ok"
TwinMade(q) == \E p \in Requests \ {q} : mem[p] # None /\ call[p].mem = call[q].mem

\* One retry, which the refused category and the refused memory share, is enough
\* for a write whose name fits its column, unless the admin freed the name again
\* or another request made a memory of the same external id.
RetryIsEnough == \A q \in Requests :
  outcome[q] = "conflict" /\ Cut[call[q].name] = call[q].name => Freed \/ TwinMade(q)

-----------------------------------------------------------------------------
(* Who waits for whom *)

\* Who has inserted a category of name n and not committed it.
NameHolders(n) == {p \in Requests : found[p] = p /\ Cut[call[p].name] = n}

\* Whose end a request waits for: a name's, a key's or a memory row's lock, or the event loop.
WaitsFor(q) == {p \in Requests \ {q} :
  \/ pc[q] = "insert" /\ p \in NameHolders(Cut[call[q].name])
  \/ pc[q] = "rename" /\ p \in NameHolders(call[q].name)
  \/ pc[q] = "add" /\ p \in KeyHolders(call[q].mem)
  \/ pc[q] \in {"flush", "remove"} /\ lock[row[q]] = p
  \/ pc[q] = "merge" /\ \E m \in members[q] : lock[m] = p
  \/ pc[q] = "closing" /\ p \in Active /\ call[p].op \in OnLoop}

\* A form of the admin, on the event loop, waits for the name or the row of a write that has
\* crashed, or for one that does: neither can ever end, and the server begins nothing else.
LoopIsStuck == \E f, p \in Active :
  /\ call[f].op \in OnLoop /\ pc[p] = "closing"
  /\ p \in WaitsFor(f) \/ \E w \in WaitsFor(f) : p \in WaitsFor(w)

\* This apart, writers and the admin's forms, which hold rows and names while they wait for
\* others, never wait for each other in a circle: every request is answered.
Answered == \A q \in Requests : pc[q] # "idle" ~> pc[q] = "done" \/ LoopIsStuck

-----------------------------------------------------------------------------
(* Why every request is answered, but for the fairness *)

Behind(S) == UNION {WaitsFor(q) : q \in S}

\* Unless the loop is stuck nobody waits in a circle: for a name, its holder for a row, that
\* row's holder for the loop, the form there for another name, its holder for another row, and
\* whoever has that one commits.
ShortQueues == ~LoopIsStuck =>
  \A q \in Requests : Behind(Behind(Behind(Behind(Behind(Behind({q})))))) = {}

\* Rows are locked right before a commit, or one after the other by a merge.
LocksHeld == \A m \in MemRows : lock[m] # None => pc[lock[m]] \in {"commit", "closing", "merge"}

\* How many statements a request may still take, the second try of a write included and the
\* rows of a merge apart, of which each is locked once.
Ahead == [idle |-> 8, load |-> 7, find |-> 6, insert |-> 5, lookup |-> 4, get |-> 3,
          add |-> 3, flush |-> 3, read |-> 2, count |-> 2, commit |-> 2, closing |-> 1,
          remove |-> 1, rename |-> 1, drop |-> 1, merge |-> 1, done |-> 0]
StepsLeft(q) == Ahead[pc[q]] + 4 * (1 - tries[q])
ToLock(q)    == {m \in members[q] : lock[m] # q}

\* Each step of a request brings it nearer to its answer, and no step of another takes it back.
EveryStepCounts ==
  [][\/ \E q \in Requests : /\ StepsLeft(q)' < StepsLeft(q)
                            /\ \A p \in Requests \ {q} : StepsLeft(p)' = StepsLeft(p)
     \/ /\ UNCHANGED <<pc, tries, members>>
        /\ \E q \in Requests : \E m \in ToLock(q) :
             pc[q] = "merge" /\ \A p \in Requests :
               ToLock(p)' = IF p = q THEN ToLock(q) \ {m} ELSE ToLock(p)]_vars

-----------------------------------------------------------------------------
(* Why it holds: the parts of an inductive invariant *)

StepsOf(op) == CASE op = "write" -> {"find", "insert", "lookup", "add", "flush", "commit", "closing"}
                 [] op = "extract" -> {"find", "insert", "lookup", "add", "flush", "commit"}
                 [] op = "move"   -> {"load", "find", "insert", "flush", "commit"}
                 [] op = "create" -> {"find", "insert", "commit"}
                 [] op = "remove" -> {"load", "remove"}
                 [] op = "rename" -> {"get", "rename"}
                 [] op = "delete" -> {"get", "count", "drop"}
                 [] OTHER         -> {"get", "read", "merge"}

\* What was asked for tells the way a request goes.
OnItsWay(q) ==
  /\ pc[q] = "idle" => call[q] = None
  /\ pc[q] # "idle" => call[q] # None
  /\ pc[q] # "done" => outcome[q] = "none"
  /\ q \in Active => pc[q] \in StepsOf(call[q].op)

\* A category that was found is there, or about to be.
HasCategory(q) ==
  /\ pc[q] \in {"lookup", "add", "flush", "commit", "closing"} <=> found[q] # None
  /\ found[q] # None => found[q] = q \/ cat[found[q]] # None

HasRow(q) ==
  /\ \/ pc[q] \in {"flush", "remove"}
     \/ pc[q] = "commit" /\ call[q].op \in Writes
     \/ call[q] # None /\ call[q].op = "move" /\ pc[q] \in {"find", "insert"}
     => row[q] # None
  /\ row[q] = q => pc[q] = "commit"
  /\ row[q] # None => row[q] = q \/ mem[row[q]] # None

\* What is live under its own external id a write that is about to insert would have found.
StillMissing(q) == pc[q] = "add" => ~Live(call[q].mem)

\* The only admin form at work finds its categories as it has looked them up.
FormInHand(q) == pc[q] \in {"rename", "count", "drop", "read", "merge"} =>
  /\ InUse(call[q].cat)
  /\ call[q].op = "merge" => InUse(call[q].target) /\ call[q].target # call[q].cat

OneForm == \A p, q \in Active : call[p].op \in OnLoop /\ call[q].op \in OnLoop => p = q

\* Memories that have come into a category since its form read them are marked as raced.
Emptied(q) ==
  /\ pc[q] = "drop" => \A m \in MemRows : Live(m) /\ mem[m].cat = call[q].cat => raced[m]
  /\ pc[q] = "merge" =>
       /\ \A m \in members[q] : mem[m] # None
       /\ \A m \in MemRows : Live(m) /\ mem[m].cat = call[q].cat => m \in members[q] \/ raced[m]

\* A category, and a memory, has the key of the request that made it.
MadeByOk(q) == cat[q] # None \/ mem[q] # None => pc[q] = "done" /\ outcome[q] = "ok"

\* Nobody else has, or is about to have, the name of an uncommitted category.
PendingName(q) == found[q] = q =>
  /\ Named(Cut[call[q].name]) = {}
  /\ \A p \in Requests \ {q} : found[p] = p => Cut[call[p].name] # Cut[call[q].name]

\* A second try finds the category that refused the first one, unless its name was freed, or
\* the first one was refused over a memory.
SecondTry(q) == tries[q] = 1 =>
  /\ pc[q] \notin {"idle", "load"}
  /\ Cut[call[q].name] = call[q].name =>
       /\ pc[q] = "find" => Named(call[q].name) # {} \/ Freed \/ TwinMade(q)
       /\ pc[q] = "insert" => Freed \/ TwinMade(q)

RequestOK(q) == /\ OnItsWay(q) /\ HasCategory(q) /\ HasRow(q) /\ FormInHand(q) /\ Emptied(q)
                /\ MadeByOk(q) /\ PendingName(q) /\ StillMissing(q) /\ SecondTry(q)

TablesOK == /\ \A r \in CatRows : cat[r] # None /\ cat[r].into # None => cat[r].gone
            /\ \A m \in MemRows : /\ mem[m] # None => cat[mem[m].cat] # None
                                  /\ StoredMems[m] # None => mem[m] # None

IInv == /\ TypeOK /\ TablesOK /\ OneForm /\ \A q \in Requests : RequestOK(q)
        /\ OneCategoryPerName /\ ClosedOnlyWhenEmpty /\ FollowsItsCategory /\ RetryIsEnough
=============================================================================
