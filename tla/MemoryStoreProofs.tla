-------------------------- MODULE MemoryStoreProofs --------------------------
(***************************************************************************)
(* What holds of the memories table for every number of requests, rows and *)
(* values: IInv, the inductive invariant of MemoryStore, and what follows. *)
(* With one request at a time the table implements the contract: the       *)
(* refinement of MemorySerial, step by step.  Below the handlers lies IInv *)
(* again; SerialInv adds what nobody else being at work brings about.      *)
(***************************************************************************)
EXTENDS MemorySerial, FiniteSetTheorems, TLAPS

USE DEF Locking

\* Requests are among the keys of rows, and None is no value.
LEMMA Constants ==
  /\ Requests \subseteq Rows /\ Calls \subseteq Call
  /\ None \notin Rows /\ None \notin Row /\ None \notin Call /\ None \notin Requests
BY ConstantsOK

\* The row a write builds, and the search text of any payload, are well typed.
LEMMA NewRowType ==
  ASSUME NEW q \in Requests, call[q] \in Call
  PROVE  /\ NewGroups(q) \in SUBSET Group
         /\ NewRow(q) \in Row
         /\ \A atts \in SUBSET Group : TextOf(call[q], atts) \in Text
<1>1. NewGroups(q) \in SUBSET Group
  BY Constants DEF NewGroups, Group
<1>2. \A atts \in SUBSET Group : TextOf(call[q], atts) \in Text
  BY DEF TextOf, Text, Call
<1>3. NewRow(q) \in Row
  BY <1>1, <1>2, Constants DEF NewRow, Row, Call
<1>4. QED
  BY <1>1, <1>2, <1>3

\* An answer keeps the types of all it touches.
LEMMA AnswerType ==
  ASSUME TypeOK, NEW q \in Requests, NEW result \in Outcome, Answer(q, result)
  PROVE  /\ lock' \in [Rows -> Requests \cup {None}]
         /\ work' \in [Requests -> Row \cup {None}]
         /\ pc' \in [Requests -> {"idle", "lookup", "similar", "insert", "inserted",
                                  "readatts", "get", "editatts", "flush", "flushed", "finish",
                                  "closing", "done"}]
         /\ call' \in [Requests -> Calls \cup {None}]
         /\ outcome' \in [Requests -> Outcome]
         /\ target' \in [Requests -> Rows \cup {None}]
         /\ snap' \in [Requests -> Row \cup {None}]
         /\ tries' \in [Requests -> 0..1]
BY DEF TypeOK, Answer, EndTx

\* A handler that answers without having written keeps every type.
LEMMA AnswerKeepsType ==
  ASSUME TypeOK, NEW q \in Requests, NEW result \in Outcome, Answer(q, result),
         mem' = mem, named' = named, stale' = stale
  PROVE  TypeOK'
BY AnswerType DEF TypeOK

\* Trying again keeps every type, whether it is the second try or the last.
LEMMA TryAgainKeepsType ==
  ASSUME TypeOK, NEW q \in Requests, TryAgain(q), named' \in [Requests -> Nat],
         mem' = mem, stale' = stale
  PROVE  TypeOK'
<1>1. CASE tries[q] = 1 /\ Answer(q, "conflict")
  <2>1. "conflict" \in Outcome
    BY DEF Outcome
  <2>2. QED
    BY <1>1, <2>1, AnswerType DEF TypeOK
<1>2. CASE tries[q] = 0 /\ tries' = [tries EXCEPT ![q] = 1] /\ EndTx(q)
           /\ pc' = [pc EXCEPT ![q] = "lookup"] /\ UNCHANGED <<call, outcome>>
  BY <1>2 DEF EndTx, TypeOK
<1>3. QED
  BY <1>1, <1>2 DEF TryAgain

\* A step that keeps the tables and only moves q on, its row and copy included.
LEMMA TypeStep ==
  ASSUME ConstantsOK, TypeOK, InHand, PendingWrites, [Next]_vars
  PROVE  TypeOK'
<1> USE Constants
<1>1. ASSUME NEW q \in Requests, Begin(q)
      PROVE  TypeOK'
  BY <1>1 DEF TypeOK, Begin
<1>2. ASSUME NEW q \in Requests, RejectAttachments(q) PROVE TypeOK'
  BY <1>2, AnswerKeepsType DEF RejectAttachments, Outcome
<1>3. ASSUME NEW q \in Requests, LookupHit(q) PROVE TypeOK'
  BY <1>3 DEF LookupHit, Load, Live, TypeOK
<1>4. ASSUME NEW q \in Requests, LookupMiss(q) PROVE TypeOK'
  BY <1>4 DEF LookupMiss, TypeOK
<1>5. ASSUME NEW q \in Requests, MatchSimilar(q) PROVE TypeOK'
  BY <1>5 DEF MatchSimilar, Goto, Load, Live, TypeOK
<1>6. ASSUME NEW q \in Requests, NoSimilar(q) PROVE TypeOK'
  BY <1>6 DEF NoSimilar, Goto, TypeOK
<1>7. ASSUME NEW q \in Requests, Insert(q) PROVE TypeOK'
  <2>1. call[q] \in Call
    BY <1>7 DEF Insert, Goto, InHand, TypeOK
  <2>2. NewRow(q) \in Row
    BY <2>1, NewRowType
  <2>3. QED
    BY <1>7, <2>2 DEF Insert, Goto, TypeOK
<1>8. ASSUME NEW q \in Requests, InsertConflict(q) \/ CategoryRefused(q) PROVE TypeOK'
  <2>1. named' \in [Requests -> Nat]
    BY <1>8 DEF InsertConflict, CategoryRefused, TypeOK
  <2>2. QED
    BY <1>8, <2>1, TryAgainKeepsType DEF InsertConflict, CategoryRefused
<1>9. ASSUME NEW q \in Requests, CommitInsert(q) PROVE TypeOK'
  <2>1. mem' \in [Rows -> Row \cup {None}]
    BY <1>9 DEF CommitInsert, TypeOK
  <2>2. QED
    BY <1>9, <2>1, AnswerType DEF CommitInsert, Outcome, TypeOK
<1>10. ASSUME NEW q \in Requests, FlushUpdate(q) PROVE TypeOK'
  <2>1. /\ target[q] \in Rows /\ mem[target[q]] \in Row /\ snap[q] \in Row
        /\ call[q] \in Call
    BY <1>10 DEF FlushUpdate, InHand, HasTarget, TypeOK
  <2>2. work' \in [Requests -> Row \cup {None}]
    BY <1>10, <2>1 DEF FlushUpdate, Written, TypeOK, Row, Call
  <2>3. QED
    BY <1>10, <2>1, <2>2 DEF FlushUpdate, TypeOK
<1>11. ASSUME NEW q \in Requests, ReadAttachments(q) PROVE TypeOK'
  <2>1. target[q] \in Rows /\ mem[target[q]] \in Row /\ snap[q] \in Row
    BY <1>11 DEF ReadAttachments, InHand, HasTarget, TypeOK
  <2>2. [snap[q] EXCEPT !.atts = mem[target[q]].atts] \in Row
    BY <2>1 DEF Row
  <2>3. QED
    BY <1>11, <2>2 DEF ReadAttachments, TypeOK
<1>12. ASSUME NEW q \in Requests, FinishUpdate(q) PROVE TypeOK'
  <2>1. /\ target[q] \in Rows /\ mem[target[q]] \in Row /\ snap[q] \in Row
        /\ call[q] \in Call /\ work[q] \in Row
    BY <1>12 DEF FinishUpdate, InHand, HasTarget, PendingWrites, PendingUpdate, TypeOK
  <2>2. /\ mem[target[q]].atts \in SUBSET Group /\ snap[q].atts \in SUBSET Group
        /\ work[q].text \in Text /\ NewGroups(q) \in SUBSET Group
    BY <2>1, NewRowType DEF Row
  <2> DEFINE keep == call[q].atts = "keep"
             atts == IF keep THEN mem[target[q]].atts
                     ELSE (mem[target[q]].atts \ snap[q].atts) \cup NewGroups(q)
             text == Written(TextOf(call[q], IF keep THEN snap[q].atts ELSE NewGroups(q)),
                             snap[q].text, work[q].text)
  <2>3. atts \in SUBSET Group /\ text \in Text
    BY <2>1, <2>2, NewRowType DEF Written
  <2>4. [work[q] EXCEPT !.atts = atts, !.text = text] \in Row
    BY <2>1, <2>3 DEF Row
  <2>5. mem' = [mem EXCEPT ![target[q]] = [work[q] EXCEPT !.atts = atts, !.text = text]]
    BY <1>12 DEF FinishUpdate
  <2>6. mem' \in [Rows -> Row \cup {None}]
    BY <2>4, <2>5 DEF TypeOK
  <2>7. QED
    BY <1>12, <2>6, AnswerType DEF FinishUpdate, Outcome, TypeOK
<1>13. ASSUME NEW q \in Requests, CrashUpdate(q) PROVE TypeOK'
  BY <1>13 DEF CrashUpdate, Outcome, TypeOK
<1>14. ASSUME NEW q \in Requests, DeleteNothing(q) PROVE TypeOK'
  BY <1>14, AnswerKeepsType DEF DeleteNothing, Outcome
<1>15. ASSUME NEW q \in Requests, CommitDelete(q) PROVE TypeOK'
  <2>1. target[q] \in Rows /\ mem[target[q]] \in Row
    BY <1>15 DEF CommitDelete, InHand, HasTarget, TypeOK
  <2>2. [mem[target[q]] EXCEPT !.gone = "api", !.atts = @ \ snap[q].atts] \in Row
    BY <2>1 DEF Row
  <2>3. mem' \in [Rows -> Row \cup {None}]
    BY <1>15, <2>2 DEF CommitDelete, TypeOK
  <2>4. QED
    BY <1>15, <2>3, AnswerType DEF CommitDelete, Outcome, TypeOK
<1>16. ASSUME NEW q \in Requests, GetUnknown(q) PROVE TypeOK'
  BY <1>16, AnswerKeepsType DEF GetUnknown, Outcome
<1>17. ASSUME NEW q \in Requests, GetRow(q) PROVE TypeOK'
  <2>1. call[q].row \in Rows
    BY <1>17 DEF GetRow, InHand, TypeOK, Call
  <2>2. QED
    BY <1>17, <2>1 DEF GetRow, Load, TypeOK
<1>18. ASSUME NEW q \in Requests, AlreadyRemoved(q) PROVE TypeOK'
  BY <1>18, AnswerKeepsType DEF AlreadyRemoved, Outcome
<1>19. ASSUME NEW q \in Requests, LoadAttachments(q) PROVE TypeOK'
  <2>1. CASE Answer(q, "crashed")
    BY <1>19, <2>1, AnswerKeepsType DEF LoadAttachments, Outcome
  <2>2. CASE ~Answer(q, "crashed")
    <3>1. target[q] \in Rows /\ mem[target[q]] \in Row /\ snap[q] \in Row
      BY <1>19 DEF LoadAttachments, InHand, HasTarget, TypeOK
    <3>2. [snap[q] EXCEPT !.atts = mem[target[q]].atts] \in Row
      BY <3>1 DEF Row
    <3>3. QED
      BY <1>19, <2>2, <3>2 DEF LoadAttachments, TypeOK
  <2>3. QED
    BY <2>1, <2>2
<1>20. ASSUME NEW q \in Requests, CommitEdit(q) PROVE TypeOK'
  <2>1. /\ target[q] \in Rows /\ mem[target[q]] \in Row /\ snap[q] \in Row
        /\ call[q] \in Call
    BY <1>20 DEF CommitEdit, InHand, HasTarget, TypeOK
  <2> DEFINE text == Written(TextOf(call[q], snap[q].atts), snap[q].text, mem[target[q]].text)
             title == Written(call[q].title, snap[q].title, mem[target[q]].title)
             content == Written(call[q].content, snap[q].content, mem[target[q]].content)
  <2>2. text \in Text /\ title \in Titles /\ content \in Contents
    <3>1. snap[q].atts \in SUBSET Group /\ mem[target[q]].text \in Text
      BY <2>1 DEF Row
    <3>2. TextOf(call[q], snap[q].atts) \in Text
      BY <2>1, <3>1, NewRowType
    <3>3. QED
      BY <2>1, <3>1, <3>2 DEF Written, Call, Row
  <2>3. [mem[target[q]] EXCEPT !.title = title, !.content = content, !.text = text, !.by = q]
          \in Row
    BY <2>1, <2>2 DEF Row
  <2>4. mem' \in [Rows -> Row \cup {None}]
    BY <1>20, <2>3 DEF CommitEdit, TypeOK
  <2>5. QED
    BY <1>20, <2>4, AnswerType DEF CommitEdit, Outcome, TypeOK
<1>21. ASSUME NEW q \in Requests, CommitRemove(q) PROVE TypeOK'
  <2>1. target[q] \in Rows /\ mem[target[q]] \in Row
    BY <1>21 DEF CommitRemove, InHand, HasTarget, TypeOK
  <2>2. [mem[target[q]] EXCEPT !.gone = IF @ = "api" THEN @ ELSE "admin"] \in Row
    BY <2>1 DEF Row
  <2>3. mem' \in [Rows -> Row \cup {None}]
    BY <1>21, <2>2 DEF CommitRemove, TypeOK
  <2>4. QED
    BY <1>21, <2>3, AnswerType DEF CommitRemove, Outcome, TypeOK
<1>22. ASSUME NEW q \in Requests, Fail(q) PROVE TypeOK'
  BY <1>22, AnswerKeepsType DEF Fail, Outcome, TypeOK
<1>23. ASSUME NEW q \in Requests, Close(q) PROVE TypeOK'
  BY <1>23, AnswerKeepsType DEF Close, TypeOK
<1>24. CASE UNCHANGED vars
  BY <1>24 DEF TypeOK, vars
<1>25. QED
  BY <1>1, <1>2, <1>3, <1>4, <1>5, <1>6, <1>7, <1>8, <1>9, <1>10, <1>11, <1>12, <1>13,
     <1>14, <1>15, <1>16, <1>17, <1>18, <1>19, <1>20, <1>21, <1>22, <1>23, <1>24
  DEF Next, Progress, AllDone

-----------------------------------------------------------------------------
(* The inductive step, for the kinds of actions there are.  Each of these   *)
(* lemmas gets TypeOK' from TypeStep.                                       *)

\* What a request that is still at work has in the tables and in others' hands:
\* nothing.
LEMMA Invisible ==
  ASSUME IInv, NEW q \in Requests, pc[q] # "done"
  PROVE  /\ mem[q] = None
         /\ \A r \in Rows : mem[r] # None =>
              /\ mem[r].by # q
              /\ \A g \in mem[r].atts \cup mem[r].text.atts : g.by # q
         /\ \A p \in Requests : snap[p] # None =>
              \A g \in snap[p].atts \cup snap[p].text.atts : g.by # q
         /\ \A p \in Requests : pc[p] \in Locking =>
              \A g \in work[p].atts \cup work[p].text.atts : g.by # q
BY DEF IInv, OnlyCommitted, PendingWrites, PendingUpdate, Settled, SettledCopy, Committed

\* What every action of q that is not a commit leaves alone.
KeepsOthers(q) ==
  /\ mem' = mem
  /\ pc[q] # "done"
  /\ \A p \in Requests \ {q} :
       /\ pc'[p] = pc[p] /\ call'[p] = call[p] /\ outcome'[p] = outcome[p]
       /\ work'[p] = work[p] /\ target'[p] = target[p] /\ snap'[p] = snap[p]

\* q ends its transaction, rolling back what it wrote.
LEMMA RollbackKeepsInv ==
  ASSUME ConstantsOK, IInv, TypeOK', NEW q \in Requests, KeepsOthers(q), EndTx(q),
         \/ pc'[q] = "done" /\ outcome'[q] \notin {"created", "updated", "edited"}
         \/ pc'[q] = "lookup" /\ outcome'[q] = "none",
         call' = call, call[q] # None
  PROVE  IInv'
<1> USE Constants
<1>1. InHand'
  BY DEF IInv, TypeOK, InHand, HasTarget, KeepsOthers
<1>2. LocksAreHeld'
  BY DEF IInv, TypeOK, LocksAreHeld, EndTx, KeepsOthers
<1>3. PendingWrites'
  <2> SUFFICES ASSUME NEW p \in Requests
               PROVE  /\ pc'[p] = "inserted" => PendingInsert(p)'
                      /\ pc'[p] \in Locking => PendingUpdate(p)'
    BY DEF PendingWrites
  <2>1. CASE p = q
    BY <2>1
  <2>2. CASE p # q
    <3>1. ASSUME pc'[p] = "inserted" PROVE PendingInsert(p)'
      <4>1. PendingInsert(p)
        BY <2>2, <3>1 DEF IInv, PendingWrites, KeepsOthers
      <4>2. lock'[p] = p
        BY <4>1, <2>2 DEF PendingInsert, EndTx, IInv, TypeOK
      <4>3. QED
        BY <2>2, <4>1, <4>2 DEF PendingInsert, KeepsOthers, Live
    <3>2. ASSUME pc'[p] \in Locking PROVE PendingUpdate(p)'
      <4>1. PendingUpdate(p) /\ target[p] \in Rows
        BY <2>2, <3>2 DEF IInv, PendingWrites, KeepsOthers, InHand, HasTarget, TypeOK
      <4>2. lock'[target[p]] = p /\ target'[p] = target[p] /\ work'[p] = work[p]
        BY <4>1, <2>2 DEF PendingUpdate, EndTx, IInv, TypeOK, KeepsOthers
      <4>3. SettledCopy(work[p])'
        BY <4>1, <4>2, <2>2 DEF PendingUpdate, SettledCopy, Settled, Committed, KeepsOthers
      <4>4. QED
        BY <2>2, <4>1, <4>2, <4>3 DEF PendingUpdate, KeepsOthers
    <3>3. QED
      BY <3>1, <3>2
  <2>3. QED
    BY <2>1, <2>2
<1>4. OnlyCommitted'
  <2>1. \A p \in Requests : Committed(p) => Committed(p)'
    BY DEF Committed, KeepsOthers
  <2>2. snap'[q] = None /\ \A p \in Requests \ {q} : snap'[p] = snap[p]
    BY DEF EndTx, IInv, TypeOK, KeepsOthers
  <2>3. \A x : SettledCopy(x) => (x # None => \A g \in x.atts \cup x.text.atts :
                                     g.by \in Requests => Committed(g.by)')
    BY <2>1 DEF SettledCopy, Settled
  <2>4. QED
    BY <2>1, <2>2, <2>3 DEF IInv, OnlyCommitted, KeepsOthers, SettledCopy, Settled
<1>5. UniqueLive'
  BY DEF IInv, UniqueLive, Live, KeepsOthers
<1>6. QED
  BY <1>1, <1>2, <1>3, <1>4, <1>5 DEF IInv

\* q reads, and takes nothing but a copy of a row.
LEMMA ReadKeepsInv ==
  ASSUME ConstantsOK, IInv, TypeOK', NEW q \in Requests, KeepsOthers(q),
         lock' = lock, work' = work,
         pc[q] \notin {"inserted"} \cup Locking,
         pc'[q] \notin {"idle", "inserted", "done"} \cup Locking,
         call'[q] # None, outcome'[q] = outcome[q],
         pc'[q] \in HasTarget => target'[q] # None /\ mem[target'[q]] # None /\ snap'[q] # None,
         SettledCopy(snap'[q])
  PROVE  IInv'
<1> USE Constants
<1>1. InHand'
  BY DEF IInv, TypeOK, InHand, HasTarget, KeepsOthers
<1>2. LocksAreHeld'
  BY DEF IInv, TypeOK, LocksAreHeld, KeepsOthers
<1>3. \A p \in Requests : Committed(p) => Committed(p)'
  BY DEF Committed, KeepsOthers
<1>4. \A x : SettledCopy(x) => (x # None => \A g \in x.atts \cup x.text.atts :
                                  g.by \in Requests => Committed(g.by)')
  BY <1>3 DEF SettledCopy, Settled
<1>5. PendingWrites'
  <2> SUFFICES ASSUME NEW p \in Requests \ {q}
               PROVE  /\ pc'[p] = "inserted" => PendingInsert(p)'
                      /\ pc'[p] \in Locking => PendingUpdate(p)'
    BY DEF PendingWrites
  <2>1. ASSUME pc'[p] = "inserted" PROVE PendingInsert(p)'
    <3>1. PendingInsert(p)
      BY <2>1 DEF IInv, PendingWrites, KeepsOthers
    <3>2. QED
      BY <3>1 DEF PendingInsert, KeepsOthers, Live
  <2>2. ASSUME pc'[p] \in Locking PROVE PendingUpdate(p)'
    <3>1. PendingUpdate(p)
      BY <2>2 DEF IInv, PendingWrites, KeepsOthers
    <3>2. SettledCopy(work[p])'
      BY <3>1, <1>4 DEF PendingUpdate, SettledCopy, Settled
    <3>3. QED
      BY <3>1, <3>2 DEF PendingUpdate, KeepsOthers
  <2>3. QED
    BY <2>1, <2>2
<1>6. OnlyCommitted'
  BY <1>3, <1>4 DEF IInv, OnlyCommitted, KeepsOthers, SettledCopy, Settled
<1>7. UniqueLive'
  BY DEF IInv, UniqueLive, Live, KeepsOthers
<1>8. QED
  BY <1>1, <1>2, <1>5, <1>6, <1>7 DEF IInv

DeletedStay == \A r \in Rows : Deleted(r) => Deleted(r)'

\* q commits one row r, which no other session has locked, and is answered.
LEMMA CommitKeepsInv ==
  ASSUME ConstantsOK, IInv, TypeOK', NEW q \in Requests, NEW r \in Rows, NEW row \in Row,
         NEW result \in {"created", "updated", "edited", "deleted", "removed"},
         pc[q] \notin {"idle", "done"}, Answer(q, result), mem' = [mem EXCEPT ![r] = row],
         lock[r] \in {None, q},
         mem[r] = None => r = q /\ pc[q] = "inserted" /\ row = work[q],
         mem[r] = None => result = "created",
         mem[r] # None => /\ row.ext = mem[r].ext
                          /\ row.gone = "no" => mem[r].gone = "no",
         mem[r] # None => \/ row.by = mem[r].by
                          \/ result \in {"updated", "edited"} /\ row.by = q,
         \A g \in row.atts \cup row.text.atts : g.by \in Requests =>
           \/ Committed(g.by)
           \/ g.by = q /\ result \in {"created", "updated", "edited"}
  PROVE  IInv' /\ DeletedStay
<1> USE Constants
<1>1. \A p \in Requests \ {q} :
        /\ pc'[p] = pc[p] /\ call'[p] = call[p] /\ outcome'[p] = outcome[p]
        /\ work'[p] = work[p] /\ target'[p] = target[p] /\ snap'[p] = snap[p]
  BY DEF Answer, EndTx, IInv, TypeOK
<1>2. pc'[q] = "done" /\ outcome'[q] = result /\ snap'[q] = None /\ call' = call
  BY DEF Answer, EndTx, IInv, TypeOK
<1>3. \A p \in Rows : mem'[p] = IF p = r THEN row ELSE mem[p]
  BY DEF IInv, TypeOK
<1>4. InHand'
  BY <1>1, <1>2, <1>3 DEF IInv, TypeOK, InHand, HasTarget
<1>5. LocksAreHeld'
  BY <1>1, <1>2 DEF IInv, TypeOK, LocksAreHeld, Answer, EndTx
<1>6. \A p \in Requests : Committed(p) => Committed(p)'
  BY <1>1 DEF Committed
<1>7. \A x : SettledCopy(x) => (x # None => \A g \in x.atts \cup x.text.atts :
                                  g.by \in Requests => Committed(g.by)')
  BY <1>6 DEF SettledCopy, Settled
<1>8. PendingWrites'
  <2> SUFFICES ASSUME NEW p \in Requests \ {q}
               PROVE  /\ pc'[p] = "inserted" => PendingInsert(p)'
                      /\ pc'[p] \in Locking => PendingUpdate(p)'
    BY <1>2 DEF PendingWrites
  <2>1. ASSUME pc'[p] = "inserted" PROVE PendingInsert(p)'
    <3>1. PendingInsert(p) /\ pc[p] = "inserted"
      BY <2>1, <1>1 DEF IInv, PendingWrites
    <3>2. lock'[p] = p
      BY <3>1 DEF PendingInsert, Answer, EndTx, IInv, TypeOK
    <3>3. \A s \in Rows : Live(s)' => mem'[s].ext # work[p].ext
      <4> SUFFICES ASSUME NEW s \in Rows, Live(s)'
                   PROVE  mem'[s].ext # work[p].ext
        OBVIOUS
      <4>1. CASE s # r \/ mem[r] # None
        BY <3>1, <1>3, <4>1 DEF PendingInsert, Live
      <4>2. CASE s = r /\ mem[r] = None
        <5>1. pc[q] = "inserted" /\ mem'[s] = work[q]
          BY <1>3, <4>2
        <5>2. PendingInsert(q)
          BY <5>1 DEF IInv, PendingWrites
        <5>3. QED
          BY <5>1, <5>2, <3>1 DEF PendingInsert
      <4>3. QED
        BY <4>1, <4>2
    <3>4. \A s \in Requests \ {p} : pc'[s] = "inserted" => work'[s].ext # work[p].ext
      BY <3>1, <1>1, <1>2 DEF PendingInsert
    <3>5. QED
      BY <3>1, <3>2, <3>3, <3>4, <1>1, <1>2 DEF PendingInsert
  <2>2. ASSUME pc'[p] \in Locking PROVE PendingUpdate(p)'
    <3>1. PendingUpdate(p) /\ target[p] \in Rows /\ mem[target[p]] # None
      BY <2>2, <1>1 DEF IInv, PendingWrites, InHand, HasTarget, TypeOK
    <3>2. target[p] # r
      BY <3>1 DEF PendingUpdate
    <3>3. lock'[target[p]] = p /\ mem'[target[p]] = mem[target[p]]
      BY <3>1, <3>2, <1>3 DEF PendingUpdate, Answer, EndTx, IInv, TypeOK
    <3>4. SettledCopy(work[p])'
      BY <3>1, <1>1, <1>7 DEF PendingUpdate, SettledCopy, Settled
    <3>5. QED
      BY <3>1, <3>3, <3>4, <1>1 DEF PendingUpdate
  <2>3. QED
    BY <2>1, <2>2
<1>9. OnlyCommitted'
  <2>1. ASSUME NEW p \in Requests, mem'[p] # None PROVE Committed(p)'
    BY <2>1, <1>2, <1>3, <1>6 DEF IInv, OnlyCommitted, Committed
  <2>2. result \in {"created", "updated", "edited"} => Committed(q)'
    BY <1>2 DEF Committed
  <2>3. row.by \in Requests => Committed(row.by)'
    <3>1. CASE mem[r] = None
      <4>1. PendingInsert(q) /\ row = work[q]
        BY <3>1 DEF IInv, PendingWrites
      <4>2. row.by = q /\ Committed(q)'
        BY <3>1, <4>1, <2>2 DEF PendingInsert
      <4>3. QED
        BY <4>2 DEF Committed
    <3>2. CASE mem[r] # None
      BY <3>2, <2>2, <1>6 DEF IInv, OnlyCommitted
    <3>3. QED
      BY <3>1, <3>2
  <2>4. SettledCopy(row)'
    BY <2>2, <1>6 DEF SettledCopy, Settled
  <2>5. ASSUME NEW s \in Rows, mem'[s] # None
        PROVE  (mem[s].by \in Requests => Committed(mem[s].by))' /\ SettledCopy(mem[s])'
    <3>1. CASE s = r
      BY <3>1, <1>3, <2>3, <2>4 DEF SettledCopy, Settled, Committed
    <3>2. CASE s # r
      <4>1. mem'[s] = mem[s] /\ mem[s] # None
        BY <3>2, <2>5, <1>3
      <4>2. (mem[s].by \in Requests => Committed(mem[s].by)) /\ SettledCopy(mem[s])
        BY <4>1 DEF IInv, OnlyCommitted
      <4>3. (mem[s].by \in Requests => Committed(mem[s].by))'
        BY <4>1, <4>2, <1>6 DEF Committed
      <4>4. SettledCopy(mem[s])'
        BY <4>1, <4>2, <1>7 DEF SettledCopy, Settled
      <4>5. QED
        BY <4>3, <4>4
    <3>3. QED
      BY <3>1, <3>2
  <2>6. \A p \in Requests : SettledCopy(snap[p])'
    BY <1>1, <1>2, <1>7 DEF IInv, OnlyCommitted, SettledCopy, Settled
  <2>7. QED
    BY <2>1, <2>5, <2>6 DEF OnlyCommitted
<1>10. UniqueLive'
  <2> SUFFICES ASSUME NEW s \in Rows, NEW t \in Rows, Live(s)', Live(t)',
                      mem'[s].ext = mem'[t].ext
               PROVE  s = t
    BY DEF UniqueLive
  <2>1. CASE mem[r] # None
    BY <2>1, <1>3 DEF IInv, UniqueLive, Live
  <2>2. CASE mem[r] = None
    <3>1. PendingInsert(q) /\ row = work[q]
      BY <2>2 DEF IInv, PendingWrites
    <3>2. QED
      BY <2>2, <3>1, <1>3 DEF IInv, UniqueLive, Live, PendingInsert
  <2>3. QED
    BY <2>1, <2>2
<1>11. DeletedStay
  BY <1>3 DEF DeletedStay, Deleted
<1>12. QED
  BY <1>4, <1>5, <1>8, <1>9, <1>10, <1>11 DEF IInv

\* An insert or the first flush of an update takes the lock of a free row.
LEMMA InsertKeepsInv ==
  ASSUME ConstantsOK, IInv, TypeOK', NEW q \in Requests, Insert(q)
  PROVE  IInv'
<1> USE Constants
<1>1. KeepsOthers(q) /\ pc[q] = "insert" /\ pc'[q] = "inserted"
  BY DEF Insert, Goto, KeepsOthers, IInv, TypeOK
<1>2. /\ lock' = [lock EXCEPT ![q] = q] /\ work'[q] = NewRow(q)
      /\ call' = call /\ outcome' = outcome /\ snap' = snap /\ target' = target
  BY DEF Insert, IInv, TypeOK
<1>3. mem[q] = None
  BY <1>1, Invisible
<1>4. InHand'
  BY <1>1, <1>2 DEF IInv, TypeOK, InHand, HasTarget, KeepsOthers
<1>5. LocksAreHeld'
  BY <1>1, <1>2 DEF IInv, TypeOK, LocksAreHeld, KeepsOthers
<1>6. \A p \in Requests : Committed(p) => Committed(p)'
  BY <1>1 DEF Committed, KeepsOthers
<1>7. \A x : SettledCopy(x) => (x # None => \A g \in x.atts \cup x.text.atts :
                                  g.by \in Requests => Committed(g.by)')
  BY <1>6 DEF SettledCopy, Settled
<1>8. \A p \in Requests \ {q} : pc[p] = "inserted" => work[p].ext # call[q].ext
  <2> SUFFICES ASSUME NEW p \in Requests \ {q}, pc[p] = "inserted"
               PROVE  work[p].ext # call[q].ext
    OBVIOUS
  <2>1. PendingInsert(p) /\ mem[p] = None
    BY Invisible DEF IInv, PendingWrites
  <2>2. Holds(p, work[p].ext) /\ lock[p] # None
    BY <2>1 DEF Holds, PendingInsert
  <2>3. ~KeyBusy(call[q].ext)
    BY DEF Insert
  <2>4. QED
    BY <2>2, <2>3 DEF KeyBusy
<1>9. PendingWrites'
  <2>1. PendingInsert(q)'
    <3>1. NewRow(q) # None /\ NewRow(q).ext = call[q].ext /\ NewRow(q).by = q
      <4>1. call[q] \in Call
        BY <1>1 DEF IInv, TypeOK, InHand
      <4>2. QED
        BY <4>1, NewRowType DEF NewRow
    <3>2. \A g \in NewRow(q).atts \cup NewRow(q).text.atts : g.by = q
      BY DEF NewRow, TextOf, NewGroups
    <3>3. \A r \in Rows : Live(r)' => mem'[r].ext # call[q].ext
      BY <1>1 DEF Insert, Live, KeepsOthers
    <3>4. lock'[q] = q
      BY <1>2 DEF IInv, TypeOK
    <3>5. QED
      BY <1>1, <1>2, <1>8, <3>1, <3>2, <3>3, <3>4 DEF PendingInsert, KeepsOthers
  <2>2. ASSUME NEW p \in Requests \ {q}, pc'[p] = "inserted" PROVE PendingInsert(p)'
    <3>1. PendingInsert(p) /\ pc[p] = "inserted"
      BY <1>1, <2>2 DEF IInv, PendingWrites, KeepsOthers
    <3>2. lock'[p] = p
      BY <1>2, <3>1 DEF PendingInsert, IInv, TypeOK
    <3>3. work'[q].ext = call[q].ext
      BY <1>2 DEF NewRow
    <3>4. QED
      BY <1>1, <1>2, <1>8, <3>1, <3>2, <3>3 DEF PendingInsert, KeepsOthers, Live
  <2>3. ASSUME NEW p \in Requests \ {q}, pc'[p] \in Locking
        PROVE  PendingUpdate(p)'
    <3>1. PendingUpdate(p) /\ target[p] \in Rows /\ mem[target[p]] # None
      BY <1>1, <2>3 DEF IInv, PendingWrites, KeepsOthers, InHand, HasTarget, TypeOK
    <3>2. lock'[target[p]] = p
      BY <1>2, <1>3, <3>1 DEF PendingUpdate, IInv, TypeOK
    <3>3. SettledCopy(work[p])'
      BY <1>1, <1>7, <3>1 DEF PendingUpdate, SettledCopy, Settled, KeepsOthers
    <3>4. QED
      BY <1>1, <3>1, <3>2, <3>3 DEF PendingUpdate, KeepsOthers
  <2>4. QED
    BY <1>1, <2>1, <2>2, <2>3 DEF PendingWrites
<1>10. OnlyCommitted'
  BY <1>1, <1>2, <1>6, <1>7 DEF IInv, OnlyCommitted, KeepsOthers, SettledCopy, Settled
<1>11. UniqueLive'
  BY <1>1 DEF IInv, UniqueLive, Live, KeepsOthers
<1>12. QED
  BY <1>4, <1>5, <1>9, <1>10, <1>11 DEF IInv

\* The first flush of an update locks the row and changes nothing else of the table.
LEMMA FlushUpdateKeepsInv ==
  ASSUME ConstantsOK, IInv, TypeOK', NEW q \in Requests, FlushUpdate(q)
  PROVE  IInv'
<1> USE Constants
<1> DEFINE r == target[q]
<1>1. KeepsOthers(q) /\ pc[q] = "flush" /\ pc'[q] = "flushed"
  BY DEF FlushUpdate, KeepsOthers, IInv, TypeOK
<1>2. /\ lock[r] = None /\ lock' = [lock EXCEPT ![r] = q]
      /\ call' = call /\ outcome' = outcome /\ snap' = snap /\ target' = target
  BY DEF FlushUpdate
<1>3. r \in Rows /\ mem[r] \in Row
  BY <1>1 DEF IInv, TypeOK, InHand, HasTarget
<1>4. /\ work'[q].ext = mem[r].ext /\ work'[q].gone = mem[r].gone /\ work'[q].by = q
      /\ work'[q].atts = mem[r].atts /\ work'[q].text = mem[r].text
      /\ work'[q] # None
  <2>1. work'[q] = [mem[r] EXCEPT !.title = Written(call[q].title, snap[q].title, mem[r].title),
                                  !.content = Written(call[q].content, snap[q].content,
                                                      mem[r].content),
                                  !.by = q]
    BY DEF FlushUpdate, IInv, TypeOK
  <2>2. work'[q] # None
    <3>1. call[q] \in Call /\ snap[q] \in Row
      BY <1>1 DEF IInv, TypeOK, InHand, HasTarget
    <3>2. work'[q] \in Row
      BY <1>3, <2>1, <3>1 DEF Row, Call, Written
    <3>3. QED
      BY <3>2
  <2>3. QED
    BY <1>3, <2>1, <2>2 DEF Row
<1>5. InHand'
  BY <1>1, <1>2 DEF IInv, TypeOK, InHand, HasTarget, KeepsOthers
<1>6. LocksAreHeld'
  BY <1>1, <1>2 DEF IInv, TypeOK, LocksAreHeld, KeepsOthers
<1>7. \A p \in Requests : Committed(p) => Committed(p)'
  BY <1>1 DEF Committed, KeepsOthers
<1>8. \A x : SettledCopy(x) => (x # None => \A g \in x.atts \cup x.text.atts :
                                  g.by \in Requests => Committed(g.by)')
  BY <1>7 DEF SettledCopy, Settled
<1>9. PendingWrites'
  <2>1. PendingUpdate(q)'
    <3>1. lock'[r] = q
      BY <1>2, <1>3 DEF IInv, TypeOK
    <3>2. SettledCopy(mem[r])
      BY <1>3 DEF IInv, OnlyCommitted
    <3>3. SettledCopy(work[q])'
      BY <1>3, <1>4, <1>8, <3>2 DEF SettledCopy, Settled
    <3>4. QED
      BY <1>1, <1>2, <1>4, <3>1, <3>3 DEF PendingUpdate, KeepsOthers
  <2>2. ASSUME NEW p \in Requests \ {q}, pc'[p] = "inserted" PROVE PendingInsert(p)'
    <3>1. PendingInsert(p) /\ pc[p] = "inserted"
      BY <1>1, <2>2 DEF IInv, PendingWrites, KeepsOthers
    <3>2. lock'[p] = p
      BY <1>2, <1>3, <3>1 DEF PendingInsert, IInv, TypeOK
    <3>3. QED
      BY <1>1, <1>2, <3>1, <3>2 DEF PendingInsert, KeepsOthers, Live
  <2>3. ASSUME NEW p \in Requests \ {q}, pc'[p] \in Locking
        PROVE  PendingUpdate(p)'
    <3>1. PendingUpdate(p) /\ target[p] \in Rows
      BY <1>1, <2>3 DEF IInv, PendingWrites, KeepsOthers, InHand, HasTarget, TypeOK
    <3>2. lock'[target[p]] = p
      BY <1>2, <1>3, <3>1 DEF PendingUpdate, IInv, TypeOK
    <3>3. SettledCopy(work[p])'
      BY <1>1, <1>8, <3>1 DEF PendingUpdate, SettledCopy, Settled, KeepsOthers
    <3>4. QED
      BY <1>1, <3>1, <3>2, <3>3 DEF PendingUpdate, KeepsOthers
  <2>4. QED
    BY <1>1, <2>1, <2>2, <2>3 DEF PendingWrites
<1>10. OnlyCommitted'
  BY <1>1, <1>2, <1>7, <1>8 DEF IInv, OnlyCommitted, KeepsOthers, SettledCopy, Settled
<1>11. UniqueLive'
  BY <1>1 DEF IInv, UniqueLive, Live, KeepsOthers
<1>12. QED
  BY <1>5, <1>6, <1>9, <1>10, <1>11 DEF IInv

\* The read that follows the flush of an update: it finds what was committed.
LEMMA ReadAttachmentsKeepsInv ==
  ASSUME ConstantsOK, IInv, TypeOK', NEW q \in Requests, ReadAttachments(q)
  PROVE  IInv'
<1> USE Constants
<1>1. KeepsOthers(q) /\ pc[q] \in {"flushed", "readatts"}
  BY DEF ReadAttachments, KeepsOthers, IInv, TypeOK
<1>2. /\ lock' = lock /\ work' = work /\ call' = call /\ outcome' = outcome /\ target' = target
      /\ pc'[q] = IF pc[q] = "flushed" THEN "finish" ELSE "flush"
      /\ snap'[q] = [snap[q] EXCEPT !.atts = mem[target[q]].atts]
  BY DEF ReadAttachments, IInv, TypeOK
<1>3. /\ target[q] \in Rows /\ mem[target[q]] \in Row /\ snap[q] \in Row /\ call[q] # None
  BY <1>1 DEF IInv, TypeOK, InHand, HasTarget
<1>4. SettledCopy(mem[target[q]]) /\ SettledCopy(snap[q])
  BY <1>3 DEF IInv, OnlyCommitted
<1>5. snap'[q] # None
  <2>1. snap'[q] \in Row
    BY <1>2, <1>3 DEF Row
  <2>2. QED
    BY <2>1
<1>6. \A p \in Requests : Committed(p) => Committed(p)'
  BY <1>1 DEF Committed, KeepsOthers
<1>7. snap'[q].atts = mem[target[q]].atts /\ snap'[q].text = snap[q].text
  BY <1>2, <1>3 DEF Row
<1>8. SettledCopy(snap'[q])
  BY <1>3, <1>4, <1>7 DEF SettledCopy, Settled
<1>9. CASE pc[q] = "readatts"
  BY <1>1, <1>2, <1>3, <1>5, <1>8, <1>9, ReadKeepsInv
<1>10. CASE pc[q] = "flushed"
  <2>1. InHand'
    BY <1>1, <1>2, <1>5, <1>10 DEF IInv, TypeOK, InHand, HasTarget, KeepsOthers
  <2>2. LocksAreHeld'
    BY <1>1, <1>2, <1>10 DEF IInv, TypeOK, LocksAreHeld, KeepsOthers
  <2>3. \A x : SettledCopy(x) => (x # None => \A g \in x.atts \cup x.text.atts :
                                    g.by \in Requests => Committed(g.by)')
    BY <1>6 DEF SettledCopy, Settled
  <2>4. PendingWrites'
    <3>1. ASSUME NEW p \in Requests, pc'[p] = "inserted" PROVE PendingInsert(p)'
      <4>1. PendingInsert(p) /\ pc[p] = "inserted" /\ p # q
        BY <1>1, <1>2, <1>10, <3>1 DEF IInv, PendingWrites, KeepsOthers
      <4>2. QED
        BY <1>1, <1>2, <1>10, <4>1 DEF PendingInsert, KeepsOthers, Live
    <3>2. ASSUME NEW p \in Requests, pc'[p] \in Locking PROVE PendingUpdate(p)'
      <4>1. PendingUpdate(p)
        BY <1>1, <1>10, <3>2 DEF IInv, PendingWrites, KeepsOthers
      <4>2. SettledCopy(work[p])'
        BY <1>2, <2>3, <4>1 DEF PendingUpdate, SettledCopy, Settled
      <4>3. QED
        BY <1>1, <1>2, <4>1, <4>2 DEF PendingUpdate, KeepsOthers
    <3>3. QED
      BY <3>1, <3>2 DEF PendingWrites
  <2>5. OnlyCommitted'
    BY <1>1, <1>2, <1>6, <1>8, <2>3 DEF IInv, OnlyCommitted, KeepsOthers, SettledCopy, Settled
  <2>6. UniqueLive'
    BY <1>1 DEF IInv, UniqueLive, Live, KeepsOthers
  <2>7. QED
    BY <2>1, <2>2, <2>4, <2>5, <2>6 DEF IInv
<1>11. QED
  BY <1>1, <1>9, <1>10

\* A handler answers without having written.
LEMMA RefusalKeepsInv ==
  ASSUME ConstantsOK, IInv, TypeOK', NEW q \in Requests, pc[q] \notin {"idle", "done"},
         NEW result \in Outcome \ {"created", "updated", "edited"},
         Answer(q, result), mem' = mem
  PROVE  IInv'
<1>1. KeepsOthers(q) /\ EndTx(q) /\ pc'[q] = "done" /\ outcome'[q] = result
  BY DEF Answer, EndTx, KeepsOthers, IInv, TypeOK
<1>2. call' = call /\ call[q] # None
  BY DEF Answer, IInv, InHand
<1>3. QED
  BY <1>1, <1>2, RollbackKeepsInv

\* The exception of a crashed update changes nothing but q's own state.
LEMMA CrashUpdateKeepsInv ==
  ASSUME ConstantsOK, IInv, TypeOK', NEW q \in Requests, CrashUpdate(q)
  PROVE  IInv'
<1>1. KeepsOthers(q) /\ pc[q] = "finish" /\ pc'[q] = "closing" /\ outcome'[q] = "crashed"
  BY DEF CrashUpdate, KeepsOthers, IInv, TypeOK
<1>2. /\ lock' = lock /\ work' = work /\ call' = call /\ target' = target /\ snap' = snap
  BY DEF CrashUpdate
<1>3. \A p \in Requests : Committed(p) => Committed(p)'
  BY <1>1 DEF Committed, KeepsOthers
<1>4. \A x : SettledCopy(x) => (x # None => \A g \in x.atts \cup x.text.atts :
                                  g.by \in Requests => Committed(g.by)')
  BY <1>3 DEF SettledCopy, Settled
<1>5. InHand'
  BY <1>1, <1>2 DEF IInv, TypeOK, InHand, HasTarget, KeepsOthers
<1>6. LocksAreHeld'
  BY <1>1, <1>2 DEF IInv, TypeOK, LocksAreHeld, KeepsOthers
<1>7. PendingWrites'
  <2>1. ASSUME NEW p \in Requests, pc'[p] = "inserted" PROVE PendingInsert(p)'
    <3>1. PendingInsert(p) /\ p # q
      BY <1>1, <2>1 DEF IInv, PendingWrites, KeepsOthers
    <3>2. QED
      BY <1>1, <1>2, <3>1 DEF PendingInsert, KeepsOthers, Live
  <2>2. ASSUME NEW p \in Requests, pc'[p] \in Locking PROVE PendingUpdate(p)'
    <3>1. PendingUpdate(p)
      BY <1>1, <2>2 DEF IInv, PendingWrites, KeepsOthers
    <3>2. SettledCopy(work[p])'
      BY <1>2, <1>4, <3>1 DEF PendingUpdate, SettledCopy, Settled
    <3>3. QED
      BY <1>1, <1>2, <3>1, <3>2 DEF PendingUpdate, KeepsOthers
  <2>3. QED
    BY <2>1, <2>2 DEF PendingWrites
<1>8. OnlyCommitted'
  BY <1>1, <1>2, <1>3, <1>4 DEF IInv, OnlyCommitted, KeepsOthers, SettledCopy, Settled
<1>9. UniqueLive'
  BY <1>1 DEF IInv, UniqueLive, Live, KeepsOthers
<1>10. QED
  BY <1>5, <1>6, <1>7, <1>8, <1>9 DEF IInv

\* A refused insert, of the category or the row, leaves its handler at the start, or answered.
LEMMA RefusedKeepsInv ==
  ASSUME ConstantsOK, IInv, TypeOK', NEW q \in Requests, InsertConflict(q) \/ CategoryRefused(q)
  PROVE  IInv'
<1>1. TryAgain(q) /\ mem' = mem /\ pc[q] \in {"lookup", "insert"}
  BY DEF InsertConflict, CategoryRefused
<1>2. CASE tries[q] = 1 /\ Answer(q, "conflict")
  BY <1>1, <1>2, RefusalKeepsInv DEF Outcome
<1>3. CASE EndTx(q) /\ pc' = [pc EXCEPT ![q] = "lookup"] /\ UNCHANGED <<call, outcome>>
  <2>1. KeepsOthers(q) /\ EndTx(q) /\ pc'[q] = "lookup" /\ outcome' = outcome /\ call' = call
    BY <1>1, <1>3 DEF EndTx, KeepsOthers, IInv, TypeOK
  <2>2. call[q] # None /\ outcome[q] = "none"
    BY <1>1 DEF IInv, InHand
  <2>3. QED
    BY <2>1, <2>2, RollbackKeepsInv
<1>4. QED
  BY <1>1, <1>2, <1>3 DEF TryAgain

\* The edit form copies the images of its row, or answers with an error.
LEMMA LoadAttachmentsKeepsInv ==
  ASSUME ConstantsOK, IInv, TypeOK', NEW q \in Requests, LoadAttachments(q)
  PROVE  IInv'
<1> USE Constants
<1>1. CASE Answer(q, "crashed")
  BY <1>1, RefusalKeepsInv DEF LoadAttachments, Outcome
<1>2. CASE ~Answer(q, "crashed")
  <2>1. KeepsOthers(q) /\ pc[q] = "editatts" /\ pc'[q] = "flush"
    BY <1>2 DEF LoadAttachments, KeepsOthers, IInv, TypeOK
  <2>2. /\ lock' = lock /\ work' = work /\ call' = call /\ outcome' = outcome
        /\ target' = target
        /\ snap'[q] = [snap[q] EXCEPT !.atts = mem[target[q]].atts]
    BY <1>2 DEF LoadAttachments, IInv, TypeOK
  <2>3. /\ target[q] \in Rows /\ mem[target[q]] \in Row /\ snap[q] \in Row /\ call[q] # None
    BY <2>1 DEF IInv, TypeOK, InHand, HasTarget
  <2>4. SettledCopy(mem[target[q]]) /\ SettledCopy(snap[q])
    BY <2>3 DEF IInv, OnlyCommitted
  <2>5. snap'[q].atts = mem[target[q]].atts /\ snap'[q].text = snap[q].text /\ snap'[q] \in Row
    BY <2>2, <2>3 DEF Row
  <2>6. SettledCopy(snap'[q]) /\ snap'[q] # None
    BY <2>3, <2>4, <2>5 DEF SettledCopy, Settled
  <2>7. QED
    BY <2>1, <2>2, <2>3, <2>6, ReadKeepsInv
<1>3. QED
  BY <1>1, <1>2

\* The committed insert is the row its handler has locked, under the key it was checked for.
LEMMA CommitInsertKeepsInv ==
  ASSUME ConstantsOK, IInv, TypeOK', NEW q \in Requests, CommitInsert(q)
  PROVE  IInv' /\ DeletedStay
<1> USE Constants
<1>1. /\ pc[q] = "inserted" /\ PendingInsert(q) /\ mem[q] = None
      /\ work[q] \in Row /\ Answer(q, "created") /\ mem' = [mem EXCEPT ![q] = work[q]]
  BY Invisible DEF CommitInsert, IInv, PendingWrites, PendingInsert, TypeOK
<1>2. lock[q] = q /\ \A g \in work[q].atts \cup work[q].text.atts : g.by = q
  BY <1>1 DEF PendingInsert
<1>3. QED
  BY <1>1, <1>2, CommitKeepsInv

\* The committed update keeps key and deletion mark, and all it leaves in the row is settled.
LEMMA FinishUpdateKeepsInv ==
  ASSUME ConstantsOK, IInv, TypeOK', NEW q \in Requests, FinishUpdate(q)
  PROVE  IInv' /\ DeletedStay
<1> USE Constants
<1> DEFINE r == target[q]
           row == mem'[r]
<1>1. /\ pc[q] = "finish" /\ PendingUpdate(q) /\ r \in Rows /\ mem[r] \in Row
      /\ snap[q] \in Row /\ call[q] \in Call /\ work[q] \in Row
  BY DEF FinishUpdate, IInv, PendingWrites, PendingUpdate, InHand, HasTarget, TypeOK
<1> DEFINE keep == call[q].atts = "keep"
           atts == IF keep THEN mem[r].atts
                   ELSE (mem[r].atts \ snap[q].atts) \cup NewGroups(q)
           sent == TextOf(call[q], IF keep THEN snap[q].atts ELSE NewGroups(q))
           text == Written(sent, snap[q].text, work[q].text)
<1>2. row = [work[q] EXCEPT !.atts = atts, !.text = text]
  BY <1>1 DEF FinishUpdate, IInv, TypeOK
<1>3. /\ row.ext = work[q].ext /\ row.gone = work[q].gone /\ row.by = work[q].by
      /\ row.atts = atts /\ row.text = text
  BY <1>1, <1>2 DEF Row
<1>4. \A g \in mem[r].atts \cup snap[q].atts \cup snap[q].text.atts \cup work[q].text.atts :
        g.by \in Requests => Committed(g.by)
  BY <1>1 DEF IInv, OnlyCommitted, PendingUpdate, SettledCopy, Settled
<1>5. \A g \in NewGroups(q) : g.by = q
  BY DEF NewGroups
<1>6. text.atts \subseteq snap[q].atts \cup NewGroups(q) \cup work[q].text.atts
  <2>1. sent.atts \subseteq snap[q].atts \cup NewGroups(q)
    BY DEF TextOf
  <2>2. QED
    BY <2>1 DEF Written
<1>7. \A g \in row.atts \cup row.text.atts : g.by \in Requests => Committed(g.by) \/ g.by = q
  BY <1>3, <1>4, <1>5, <1>6
<1>8. row \in Row /\ mem' = [mem EXCEPT ![r] = row] /\ Answer(q, "updated")
  <2>1. row \in Row
    <3>1. NewGroups(q) \in SUBSET Group /\ sent \in Text
      BY <1>1, NewRowType DEF Row
    <3>2. /\ mem[r].atts \in SUBSET Group /\ snap[q].atts \in SUBSET Group
          /\ work[q].text \in Text
      BY <1>1 DEF Row
    <3>3. atts \in SUBSET Group /\ text \in Text
      BY <3>1, <3>2 DEF Written
    <3>4. QED
      BY <1>1, <1>2, <3>3 DEF Row
  <2>2. QED
    BY <1>1, <1>2, <2>1 DEF FinishUpdate, IInv, TypeOK
<1>9. /\ row.ext = mem[r].ext /\ row.gone = mem[r].gone /\ row.by = q /\ lock[r] = q
      /\ mem[r] # None
  BY <1>1, <1>3 DEF PendingUpdate
<1>10. QED
  BY <1>1, <1>7, <1>8, <1>9, CommitKeepsInv

\* A deletion through the API only takes away.
LEMMA CommitDeleteKeepsInv ==
  ASSUME ConstantsOK, IInv, TypeOK', NEW q \in Requests, CommitDelete(q)
  PROVE  IInv' /\ DeletedStay
<1> USE Constants
<1> DEFINE r == target[q]
           row == [mem[r] EXCEPT !.gone = "api", !.atts = @ \ snap[q].atts]
<1>1. pc[q] = "flush" /\ r \in Rows /\ mem[r] \in Row /\ lock[r] = None
  BY DEF CommitDelete, IInv, InHand, HasTarget, TypeOK
<1>2. /\ row \in Row /\ row.ext = mem[r].ext /\ row.gone = "api" /\ row.by = mem[r].by
      /\ row.text = mem[r].text /\ row.atts \subseteq mem[r].atts
  BY <1>1 DEF Row
<1>3. mem' = [mem EXCEPT ![r] = row] /\ Answer(q, "deleted")
  BY <1>1 DEF CommitDelete, IInv, TypeOK
<1>4. \A g \in row.atts \cup row.text.atts : g.by \in Requests => Committed(g.by)
  BY <1>1, <1>2 DEF IInv, OnlyCommitted, SettledCopy, Settled
<1>5. QED
  BY <1>1, <1>2, <1>3, <1>4, CommitKeepsInv

\* An edit keeps key, deletion mark and images.
LEMMA CommitEditKeepsInv ==
  ASSUME ConstantsOK, IInv, TypeOK', NEW q \in Requests, CommitEdit(q)
  PROVE  IInv' /\ DeletedStay
<1> USE Constants
<1> DEFINE r == target[q]
           text == Written(TextOf(call[q], snap[q].atts), snap[q].text, mem[r].text)
           row == [mem[r] EXCEPT
                     !.title = Written(call[q].title, snap[q].title, mem[r].title),
                     !.content = Written(call[q].content, snap[q].content, mem[r].content),
                     !.text = text, !.by = q]
<1>1. /\ pc[q] = "flush" /\ r \in Rows /\ mem[r] \in Row /\ lock[r] = None
      /\ snap[q] \in Row /\ call[q] \in Call
  BY DEF CommitEdit, IInv, InHand, HasTarget, TypeOK
<1>2. mem' = [mem EXCEPT ![r] = row] /\ Answer(q, "edited")
  BY <1>1 DEF CommitEdit, IInv, TypeOK
<1>3. /\ row.ext = mem[r].ext /\ row.gone = mem[r].gone /\ row.by = q
      /\ row.text = text /\ row.atts = mem[r].atts
  BY <1>1 DEF Row
<1>4. row \in Row
  <2>1. text \in Text
    BY <1>1, NewRowType DEF Written, Row
  <2>2. QED
    BY <1>1, <2>1 DEF Row, Call, Written
<1>5. \A g \in mem[r].atts \cup mem[r].text.atts \cup snap[q].atts :
        g.by \in Requests => Committed(g.by)
  BY <1>1 DEF IInv, OnlyCommitted, SettledCopy, Settled
<1>6. text.atts \subseteq snap[q].atts \cup mem[r].text.atts
  BY DEF Written, TextOf
<1>7. \A g \in row.atts \cup row.text.atts : g.by \in Requests => Committed(g.by)
  BY <1>3, <1>5, <1>6
<1>8. QED
  BY <1>1, <1>2, <1>3, <1>4, <1>7, CommitKeepsInv

\* The delete form only sets the deletion mark.
LEMMA CommitRemoveKeepsInv ==
  ASSUME ConstantsOK, IInv, TypeOK', NEW q \in Requests, CommitRemove(q)
  PROVE  IInv' /\ DeletedStay
<1> USE Constants
<1> DEFINE r == target[q]
           row == [mem[r] EXCEPT !.gone = IF @ = "api" THEN @ ELSE "admin"]
<1>1. pc[q] = "flush" /\ r \in Rows /\ mem[r] \in Row /\ lock[r] = None
  BY DEF CommitRemove, IInv, InHand, HasTarget, TypeOK
<1>2. /\ row \in Row /\ row.ext = mem[r].ext /\ row.gone # "no" /\ row.by = mem[r].by
      /\ row.text = mem[r].text /\ row.atts = mem[r].atts
  BY <1>1 DEF Row
<1>3. mem' = [mem EXCEPT ![r] = row] /\ Answer(q, "removed")
  BY <1>1 DEF CommitRemove, IInv, TypeOK
<1>4. \A g \in row.atts \cup row.text.atts : g.by \in Requests => Committed(g.by)
  BY <1>1, <1>2 DEF IInv, OnlyCommitted, SettledCopy, Settled
<1>5. QED
  BY <1>1, <1>2, <1>3, <1>4, CommitKeepsInv

-----------------------------------------------------------------------------
(* The theorems *)

\* Nobody is at work, and the stored rows are settled.
LEMMA InitInv == Init => IInv
<1> SUFFICES ASSUME Init PROVE IInv
  OBVIOUS
<1> USE Constants, StoredOK
<1>1. TypeOK
  BY DEF Init, TypeOK, Outcome
<1>2. InHand /\ LocksAreHeld /\ PendingWrites
  BY DEF Init, InHand, HasTarget, LocksAreHeld, PendingWrites
<1>3. OnlyCommitted
  <2>1. ASSUME NEW r \in Rows, mem[r] # None
        PROVE  mem[r].by \notin Requests /\ SettledCopy(mem[r])
    <3>1. /\ Coherent(mem[r]) /\ mem[r].by \notin Requests
          /\ \A g \in mem[r].atts : g.by \notin Requests
      BY <2>1 DEF Init
    <3>2. mem[r].text.atts = mem[r].atts
      BY <3>1 DEF Coherent
    <3>3. QED
      BY <3>1, <3>2 DEF SettledCopy, Settled
  <2>2. \A q \in Requests : mem[q] = None /\ snap[q] = None
    BY DEF Init
  <2>3. QED
    BY <2>1, <2>2 DEF OnlyCommitted, SettledCopy
<1>4. UniqueLive
  BY DEF Init, UniqueLive, Live
<1>5. QED
  BY <1>1, <1>2, <1>3, <1>4 DEF IInv

\* Every step keeps the invariant.
LEMMA StepInv == ConstantsOK /\ IInv /\ [Next]_vars => IInv'
<1> SUFFICES ASSUME ConstantsOK, IInv, [Next]_vars PROVE IInv'
  OBVIOUS
<1> USE Constants
<1>0. TypeOK'
  BY TypeStep DEF IInv
<1>1. ASSUME NEW q \in Requests, Begin(q) PROVE IInv'
  <2>1. /\ KeepsOthers(q) /\ lock' = lock /\ work' = work /\ pc[q] = "idle"
        /\ pc'[q] \in {"lookup", "get"} /\ outcome' = outcome /\ snap' = snap
    BY <1>1 DEF Begin, KeepsOthers, IInv, TypeOK
  <2>2. call'[q] # None
    BY <1>1 DEF Begin, IInv, TypeOK
  <2>3. SettledCopy(snap'[q])
    BY <2>1 DEF IInv, OnlyCommitted
  <2>4. QED
    BY <1>0, <2>1, <2>2, <2>3, ReadKeepsInv DEF HasTarget
<1>2. ASSUME NEW q \in Requests,
             LookupHit(q) \/ LookupMiss(q) \/ MatchSimilar(q) \/ NoSimilar(q) \/ GetRow(q)
      PROVE IInv'
  <2>1. /\ KeepsOthers(q) /\ lock' = lock /\ work' = work /\ call' = call
        /\ pc[q] \in {"lookup", "similar", "get"}
        /\ pc'[q] \in {"similar", "insert", "readatts", "editatts", "flush"}
        /\ outcome' = outcome
    BY <1>2 DEF LookupHit, LookupMiss, MatchSimilar, NoSimilar, GetRow, Load, Goto, KeepsOthers,
       IInv, TypeOK
  <2>2. call[q] # None /\ SettledCopy(snap[q])
    BY <2>1 DEF IInv, InHand, OnlyCommitted
  <2>3. CASE target' = target /\ snap' = snap /\ pc'[q] \notin HasTarget
    BY <1>0, <2>1, <2>2, <2>3, ReadKeepsInv
  <2>4. CASE \E r \in Rows : mem[r] # None /\ Load(q, r)
    <3>1. PICK r \in Rows : mem[r] # None /\ Load(q, r)
      BY <2>4
    <3>2. target'[q] = r /\ snap'[q] = mem[r]
      BY <3>1 DEF Load, IInv, TypeOK
    <3>3. SettledCopy(mem[r])
      BY <3>1 DEF IInv, OnlyCommitted
    <3>4. QED
      BY <1>0, <2>1, <2>2, <3>1, <3>2, <3>3, ReadKeepsInv
  <2>5. call[q].row \in Rows
    BY <2>1 DEF IInv, InHand, TypeOK, Call
  <2>6. QED
    BY <1>2, <2>3, <2>4, <2>5 DEF LookupHit, LookupMiss, MatchSimilar, NoSimilar, GetRow, Live, Goto,
       HasTarget, IInv, TypeOK
<1>3. ASSUME NEW q \in Requests,
             \/ RejectAttachments(q) \/ DeleteNothing(q) \/ GetUnknown(q)
             \/ AlreadyRemoved(q) \/ Close(q) \/ Fail(q)
      PROVE IInv'
  <2>1. pc[q] = "closing" => outcome[q] = "crashed"
    BY DEF IInv, InHand
  <2>2. QED
    BY <1>0, <1>3, <2>1, RefusalKeepsInv
    DEF RejectAttachments, DeleteNothing, GetUnknown, AlreadyRemoved, Close, Fail, Active, Outcome
<1>4. ASSUME NEW q \in Requests,
             \/ Insert(q) \/ InsertConflict(q) \/ CategoryRefused(q) \/ FlushUpdate(q)
             \/ ReadAttachments(q) \/ LoadAttachments(q) \/ CrashUpdate(q)
      PROVE IInv'
  BY <1>0, <1>4, InsertKeepsInv, RefusedKeepsInv, FlushUpdateKeepsInv,
     ReadAttachmentsKeepsInv, LoadAttachmentsKeepsInv, CrashUpdateKeepsInv
<1>5. ASSUME NEW q \in Requests,
             \/ CommitInsert(q) \/ FinishUpdate(q) \/ CommitDelete(q)
             \/ CommitEdit(q) \/ CommitRemove(q)
      PROVE IInv'
  BY <1>0, <1>5, CommitInsertKeepsInv, FinishUpdateKeepsInv, CommitDeleteKeepsInv,
     CommitEditKeepsInv, CommitRemoveKeepsInv
<1>6. CASE UNCHANGED vars
  BY <1>6 DEF vars, IInv, TypeOK, InHand, LocksAreHeld, PendingWrites, PendingInsert, PendingUpdate,
     OnlyCommitted, SettledCopy, Settled, Committed, UniqueLive, Live
<1>7. QED
  BY <1>1, <1>2, <1>3, <1>4, <1>5, <1>6 DEF Next, Progress, AllDone

\* The inductive invariant holds for ever.
THEOREM Invariant == Spec => []IInv
<1>1. Init => IInv
  BY InitInv
<1>2. IInv /\ [Next]_vars => IInv'
  BY StepInv, ConstantsOK
<1>3. QED
  BY <1>1, <1>2, PTL DEF Spec

\* Every variable keeps its type: no handler ever loses its row, its copy of it
\* or its payload, and no request is retried twice.
THEOREM TypeCorrect == Spec => []TypeOK
<1>1. IInv => TypeOK
  BY DEF IInv
<1>2. QED
  BY <1>1, Invariant, PTL

\* An external id names at most one live memory, for every number of
\* concurrent requests.
THEOREM ExternalIdsUnique == Spec => []UniqueLive
<1>1. IInv => UniqueLive
  BY DEF IInv
<1>2. QED
  BY <1>1, Invariant, PTL

\* A request answered with an error leaves no trace in any row.
THEOREM ErrorsLeaveNoTrace == Spec => []AllOrNothing
<1>1. IInv => AllOrNothing
  <2> SUFFICES ASSUME IInv, NEW q \in Requests,
                      outcome[q] \in {"rejected", "conflict", "crashed", "failed", "absent", "unknown"}
               PROVE  NoTrace(q)
    BY DEF AllOrNothing
  <2>1. ~Committed(q)
    BY DEF Committed
  <2>2. QED
    BY <2>1 DEF NoTrace, IInv, OnlyCommitted, SettledCopy, Settled
<1>2. QED
  BY <1>1, Invariant, PTL

\* No session brings a deleted memory back, however old its copy of the row.
THEOREM DeletedForGood == Spec => TombstonesStay
<1>1. ConstantsOK /\ IInv /\ IInv' /\ [Next]_vars => [\A r \in Rows : Deleted(r) => Deleted(r)']_vars
  <2> SUFFICES ASSUME ConstantsOK, IInv, IInv', Next
               PROVE  DeletedStay
    BY DEF vars, DeletedStay
  <2> USE Constants
  <2>1. CASE mem' = mem
    BY <2>1 DEF DeletedStay, Deleted
  <2>2. ASSUME NEW q \in Requests,
               \/ CommitInsert(q) \/ FinishUpdate(q) \/ CommitDelete(q)
               \/ CommitEdit(q) \/ CommitRemove(q)
        PROVE  DeletedStay
    BY <2>2, CommitInsertKeepsInv, FinishUpdateKeepsInv, CommitDeleteKeepsInv,
       CommitEditKeepsInv, CommitRemoveKeepsInv DEF IInv
  <2>3. QED
    BY <2>1, <2>2 DEF Next, Progress, AllDone, vars, Begin, Fail, RejectAttachments,
       LookupHit, LookupMiss, MatchSimilar, NoSimilar, Insert, InsertConflict, CategoryRefused,
       FlushUpdate, CrashUpdate, Close, DeleteNothing, ReadAttachments, GetUnknown, GetRow, AlreadyRemoved, LoadAttachments
<1>2. QED
  BY <1>1, Invariant, ConstantsOK, PTL DEF Spec, TombstonesStay

\* What a commit of q does to the images of its row: it keeps them, drops some,
\* or replaces all of them by its own.
LEMMA CommittedImages ==
  ASSUME ConstantsOK, IInv, TypeOK', ImagesReadInFull, NEW q \in Requests,
         \/ CommitInsert(q) \/ FinishUpdate(q) \/ CommitDelete(q)
         \/ CommitEdit(q) \/ CommitRemove(q)
  PROVE  \E r \in Rows :
           /\ \A s \in Rows \ {r} : mem'[s] = mem[s]
           /\ \/ mem[r] # None /\ mem'[r].atts \subseteq mem[r].atts
              \/ \A g \in mem'[r].atts : g.by = q
           /\ mem[r] = None \/ lock[r] \in {None, q}
           /\ pc'[q] = "done"
           /\ \A p \in Requests \ {q} : pc'[p] = pc[p] /\ snap'[p] = snap[p] /\ target'[p] = target[p]
<1> USE Constants
<1>1. CASE CommitInsert(q)
  <2>1. PendingInsert(q) /\ mem[q] = None
    BY <1>1, Invisible DEF CommitInsert, IInv, PendingWrites
  <2>2. /\ \A s \in Rows \ {q} : mem'[s] = mem[s]
        /\ \A g \in mem'[q].atts : g.by = q
    BY <1>1, <2>1 DEF CommitInsert, PendingInsert, IInv, TypeOK
  <2>3. QED
    BY <1>1, <2>1, <2>2 DEF CommitInsert, Answer, EndTx, IInv, TypeOK
<1>2. CASE FinishUpdate(q)
  <2> DEFINE r == target[q]
  <2>1. /\ PendingUpdate(q) /\ r \in Rows /\ mem[r] \in Row /\ work[q] \in Row
        /\ snap[q].atts = mem[r].atts
    BY <1>2 DEF FinishUpdate, IInv, PendingWrites, PendingUpdate, InHand, HasTarget, TypeOK,
       ImagesReadInFull
  <2>2. mem'[r].atts = IF call[q].atts = "keep" THEN mem[r].atts ELSE NewGroups(q)
    <3> DEFINE keep == call[q].atts = "keep"
               atts == IF keep THEN mem[r].atts
                       ELSE (mem[r].atts \ snap[q].atts) \cup NewGroups(q)
               text == Written(TextOf(call[q], IF keep THEN snap[q].atts ELSE NewGroups(q)),
                               snap[q].text, work[q].text)
    <3>1. mem'[r] = [work[q] EXCEPT !.atts = atts, !.text = text]
      BY <1>2, <2>1 DEF FinishUpdate, IInv, TypeOK
    <3>2. mem'[r].atts = atts
      BY <2>1, <3>1 DEF Row
    <3>3. QED
      BY <2>1, <3>2
  <2>3. \A g \in NewGroups(q) : g.by = q
    BY DEF NewGroups
  <2>4. /\ \A s \in Rows \ {r} : mem'[s] = mem[s]
        /\ lock[r] = q /\ mem[r] # None
    BY <1>2, <2>1 DEF FinishUpdate, PendingUpdate, IInv, TypeOK
  <2>5. QED
    BY <1>2, <2>1, <2>2, <2>3, <2>4 DEF FinishUpdate, Answer, EndTx, IInv, TypeOK
<1>3. CASE CommitDelete(q) \/ CommitEdit(q) \/ CommitRemove(q)
  <2> DEFINE r == target[q]
  <2>1. r \in Rows /\ mem[r] \in Row /\ lock[r] = None
    BY <1>3 DEF CommitDelete, CommitEdit, CommitRemove, IInv, InHand, HasTarget, TypeOK
  <2>2. mem'[r].atts \subseteq mem[r].atts /\ mem[r] # None
    <3>1. CASE CommitDelete(q)
      BY <2>1, <3>1 DEF CommitDelete, IInv, TypeOK, Row
    <3>2. CASE CommitEdit(q)
      <4>1. mem'[r].atts = mem[r].atts
        BY <2>1, <3>2 DEF CommitEdit, IInv, TypeOK, Row
      <4>2. QED
        BY <2>1, <4>1
    <3>3. CASE CommitRemove(q)
      BY <2>1, <3>3 DEF CommitRemove, IInv, TypeOK, Row
    <3>4. QED
      BY <1>3, <3>1, <3>2, <3>3
  <2>3. \A s \in Rows \ {r} : mem'[s] = mem[s]
    BY <1>3, <2>1 DEF CommitDelete, CommitEdit, CommitRemove, IInv, TypeOK
  <2>4. QED
    BY <1>3, <2>1, <2>2, <2>3 DEF CommitDelete, CommitEdit, CommitRemove, Answer, EndTx, IInv, TypeOK
<1>4. QED
  BY <1>1, <1>2, <1>3

\* The images of a memory are never a mixture, and an update has read all of them.
LEMMA ImagesReadUnderLock == Spec => [](OneWritersImages /\ ImagesReadInFull)
<1> DEFINE J == OneWritersImages /\ ImagesReadInFull
<1>1. Init => J
  <2>1. ASSUME Init PROVE OneWritersImages
    BY <2>1, StoredOK DEF Init, OneWritersImages, Coherent
  <2>2. QED
    BY <2>1 DEF Init, ImagesReadInFull
<1>2. ConstantsOK /\ IInv /\ IInv' /\ J /\ [Next]_vars => J'
  <2> SUFFICES ASSUME ConstantsOK, IInv, IInv', J, [Next]_vars PROVE J'
    OBVIOUS
  <2>1. TypeOK'
    BY DEF IInv
  <2>2. ASSUME NEW q \in Requests,
               \/ CommitInsert(q) \/ FinishUpdate(q) \/ CommitDelete(q)
               \/ CommitEdit(q) \/ CommitRemove(q)
        PROVE  J'
    <3>1. PICK r \in Rows :
            /\ \A s \in Rows \ {r} : mem'[s] = mem[s]
            /\ \/ mem[r] # None /\ mem'[r].atts \subseteq mem[r].atts
               \/ \A g \in mem'[r].atts : g.by = q
            /\ mem[r] = None \/ lock[r] \in {None, q}
            /\ pc'[q] = "done"
            /\ \A p \in Requests \ {q} :
                 pc'[p] = pc[p] /\ snap'[p] = snap[p] /\ target'[p] = target[p]
      BY <2>1, <2>2, CommittedImages
    <3>2. OneWritersImages'
      <4> SUFFICES ASSUME NEW s \in Rows, mem'[s] # None,
                          NEW g \in mem'[s].atts, NEW h \in mem'[s].atts
                   PROVE  g.by = h.by
        BY DEF OneWritersImages
      <4>1. CASE s # r
        BY <3>1, <4>1 DEF OneWritersImages
      <4>2. CASE s = r
        BY <3>1, <4>2 DEF OneWritersImages
      <4>3. QED
        BY <4>1, <4>2
    <3>3. ImagesReadInFull'
      <4> SUFFICES ASSUME NEW p \in Requests, pc'[p] = "finish"
                   PROVE  snap'[p].atts = mem'[target'[p]].atts
        BY DEF ImagesReadInFull
      <4>1. p # q /\ pc[p] = "finish" /\ snap'[p] = snap[p] /\ target'[p] = target[p]
        BY <3>1
      <4>2. PendingUpdate(p) /\ target[p] \in Rows /\ mem[target[p]] # None
        BY <4>1 DEF IInv, PendingWrites, InHand, HasTarget, TypeOK
      <4>3. lock[target[p]] = p
        BY <4>2 DEF PendingUpdate
      <4>4. target[p] # r
        BY <3>1, <4>1, <4>2, <4>3, Constants
      <4>5. QED
        BY <3>1, <4>1, <4>2, <4>4 DEF ImagesReadInFull
    <3>4. QED
      BY <3>2, <3>3
  <2>3. ASSUME NEW q \in Requests, ReadAttachments(q) PROVE J'
    <3>1. /\ mem' = mem /\ target' = target
          /\ \A p \in Requests \ {q} : pc'[p] = pc[p] /\ snap'[p] = snap[p]
      BY <2>3 DEF ReadAttachments, IInv, TypeOK
    <3>2. snap'[q].atts = mem[target[q]].atts
      <4>1. snap[q] \in Row
        BY <2>3 DEF ReadAttachments, IInv, InHand, HasTarget, TypeOK
      <4>2. snap'[q] = [snap[q] EXCEPT !.atts = mem[target[q]].atts]
        BY <2>3 DEF ReadAttachments, IInv, TypeOK
      <4>3. QED
        BY <4>1, <4>2 DEF Row
    <3>3. QED
      BY <3>1, <3>2 DEF OneWritersImages, ImagesReadInFull
  <2>4. ASSUME NEW q \in Requests,
               \/ Begin(q) \/ RejectAttachments(q) \/ LookupHit(q) \/ LookupMiss(q)
               \/ MatchSimilar(q) \/ NoSimilar(q) \/ Insert(q) \/ InsertConflict(q)
               \/ CategoryRefused(q)
               \/ FlushUpdate(q) \/ CrashUpdate(q) \/ Close(q) \/ DeleteNothing(q) \/ GetUnknown(q)
               \/ GetRow(q) \/ AlreadyRemoved(q) \/ LoadAttachments(q) \/ Fail(q)
        PROVE  J'
    <3>1. /\ mem' = mem /\ pc'[q] # "finish"
          /\ \A p \in Requests \ {q} :
               pc'[p] = pc[p] /\ snap'[p] = snap[p] /\ target'[p] = target[p]
      BY <2>4 DEF Begin, RejectAttachments, LookupHit, LookupMiss, MatchSimilar, NoSimilar, Insert,
         InsertConflict, FlushUpdate, CrashUpdate, Close, DeleteNothing, GetUnknown, GetRow,
         AlreadyRemoved, LoadAttachments, Fail, CategoryRefused, TryAgain, Answer, EndTx, Load, Goto,
         IInv, TypeOK
    <3>2. QED
      BY <3>1 DEF OneWritersImages, ImagesReadInFull
  <2>5. CASE UNCHANGED vars
    BY <2>5 DEF vars, OneWritersImages, ImagesReadInFull
  <2>6. QED
    BY <2>2, <2>3, <2>4, <2>5 DEF Next, Progress, AllDone
<1>3. QED
  BY <1>1, <1>2, Invariant, ConstantsOK, PTL DEF Spec

\* The images of a memory are never a mixture of what two requests attached.
THEOREM ImagesOfOneWriter == Spec => []OneWritersImages
BY ImagesReadUnderLock, PTL

-----------------------------------------------------------------------------
(* What fresh copies bring about: the parts of HistoryInv *)

\* A step of q's handler leaves the other handlers alone, and the rows they have locked.
Frame(q) ==
  /\ \A p \in Requests \ {q} :
       /\ pc'[p] = pc[p] /\ call'[p] = call[p] /\ work'[p] = work[p] /\ snap'[p] = snap[p]
       /\ target'[p] = target[p] /\ tries'[p] = tries[p] /\ outcome'[p] = outcome[p]
       /\ named'[p] = named[p]
  /\ \A r \in Rows : lock[r] \notin {None, q} => mem'[r] = mem[r] /\ stale'[r] = stale[r]
  /\ pc[q] # "idle" => call'[q] = call[q]

\* No row is lost, renamed or brought back.
RowsStay == \A r \in Rows : mem[r] # None =>
  /\ mem'[r] # None /\ mem'[r].ext = mem[r].ext
  /\ mem[r].gone # "no" => mem'[r].gone # "no"

FreshRow(r) ==
  mem[r] # None /\ ~stale[r] =>
    /\ mem[r].gone # "api" =>
         mem[r].text = [title |-> mem[r].title, content |-> mem[r].content,
                        atts |-> mem[r].atts]
    /\ mem[r].by \in Requests =>
         /\ mem[r].title = call[mem[r].by].title
         /\ mem[r].content = call[mem[r].by].content
    /\ mem[r].gone = "api" => mem[r].atts = {}

\* The two invariants about fresh rows, row by row.
LEMMA FreshRows ==
  /\ FreshRowsCoherent /\ DeletedTakesImages <=> \A r \in Rows : FreshRow(r)
  /\ FreshRowsCoherent' /\ DeletedTakesImages' <=> \A r \in Rows : FreshRow(r)'
BY DEF FreshRowsCoherent, DeletedTakesImages, FreshRow

\* The statements of q's handler.
Statement(q) ==
  \/ RejectAttachments(q) \/ LookupHit(q) \/ LookupMiss(q) \/ MatchSimilar(q) \/ NoSimilar(q)
  \/ Insert(q) \/ InsertConflict(q) \/ CategoryRefused(q) \/ FlushUpdate(q) \/ CrashUpdate(q)
  \/ Close(q) \/ DeleteNothing(q) \/ ReadAttachments(q) \/ GetUnknown(q) \/ GetRow(q) \/ AlreadyRemoved(q)
  \/ LoadAttachments(q) \/ Fail(q)
Commit(q) == \/ CommitInsert(q) \/ FinishUpdate(q) \/ CommitDelete(q) \/ CommitEdit(q)
             \/ CommitRemove(q)

\* A statement before the commit changes no row.
LEMMA StatementFrame ==
  ASSUME ConstantsOK, IInv, NEW q \in Requests, Begin(q) \/ Statement(q)
  PROVE  Frame(q) /\ mem' = mem
<1>1. CASE Begin(q)
  BY <1>1 DEF Begin, Frame, IInv, TypeOK
<1>2. CASE LookupHit(q) \/ LookupMiss(q) \/ MatchSimilar(q) \/ NoSimilar(q) \/ GetRow(q)
  BY <1>2 DEF LookupHit, LookupMiss, MatchSimilar, NoSimilar, GetRow, Load, Goto, Frame, IInv, TypeOK
<1>3. CASE Insert(q) \/ FlushUpdate(q) \/ CrashUpdate(q) \/ ReadAttachments(q)
  BY <1>3 DEF Insert, FlushUpdate, CrashUpdate, ReadAttachments, Goto, Frame, IInv, TypeOK
<1>4. CASE RejectAttachments(q) \/ Close(q) \/ DeleteNothing(q) \/ GetUnknown(q)
           \/ AlreadyRemoved(q) \/ Fail(q)
  BY <1>4 DEF RejectAttachments, Close, DeleteNothing, GetUnknown, AlreadyRemoved, Fail, Answer,
     EndTx, Frame, IInv, TypeOK
<1>5. CASE InsertConflict(q) \/ CategoryRefused(q)
  BY <1>5 DEF InsertConflict, CategoryRefused, TryAgain, Answer, EndTx, Frame, IInv, TypeOK
<1>6. CASE LoadAttachments(q)
  BY <1>6 DEF LoadAttachments, Answer, EndTx, Frame, IInv, TypeOK
<1>7. QED
  BY <1>1, <1>2, <1>3, <1>4, <1>5, <1>6 DEF Statement

\* A commit changes the row its handler has locked or nobody has.
LEMMA CommitFrame ==
  ASSUME ConstantsOK, IInv, NEW q \in Requests, Commit(q)
  PROVE  Frame(q) /\ pc'[q] = "done" /\ pc[q] \in {"inserted", "finish", "flush"}
<1> USE Constants
<1>1. CASE CommitInsert(q)
  <2>1. lock[q] = q
    BY <1>1 DEF CommitInsert, IInv, PendingWrites, PendingInsert
  <2>2. QED
    BY <1>1, <2>1 DEF CommitInsert, Answer, EndTx, Frame, IInv, TypeOK
<1>2. CASE FinishUpdate(q)
  <2>1. lock[target[q]] = q
    BY <1>2 DEF FinishUpdate, IInv, PendingWrites, PendingUpdate
  <2>2. \A r \in Rows \ {target[q]} : mem'[r] = mem[r]
    BY <1>2 DEF FinishUpdate, IInv, TypeOK
  <2>3. QED
    BY <1>2, <2>1, <2>2 DEF FinishUpdate, Answer, EndTx, Frame, IInv, TypeOK
<1>3. CASE CommitDelete(q)
  BY <1>3 DEF CommitDelete, Answer, EndTx, Frame, IInv, TypeOK
<1>4. CASE CommitEdit(q)
  BY <1>4 DEF CommitEdit, Answer, EndTx, Frame, IInv, TypeOK
<1>5. CASE CommitRemove(q)
  BY <1>5 DEF CommitRemove, Answer, EndTx, Frame, IInv, TypeOK
<1>6. QED
  BY <1>1, <1>2, <1>3, <1>4, <1>5 DEF Commit

\* What another handler has in hand stays true of it.
LEMMA OthersInStep ==
  ASSUME ConstantsOK, IInv, NEW q \in Requests, Frame(q), NEW p \in Requests \ {q}, InStep(p)
  PROVE  InStep(p)'
<1>1. pc[p] \in {"flushed", "finish"} => target[p] \in Rows /\ lock[target[p]] = p /\ p \notin {None, q}
  BY Constants DEF IInv, PendingWrites, PendingUpdate, InHand, HasTarget, TypeOK
<1>2. NewRow(p)' = NewRow(p)
  BY DEF Frame, NewRow, NewGroups, TextOf
<1>3. pc[p] \in {"flushed", "finish"} =>
        mem'[target[p]] = mem[target[p]] /\ stale'[target[p]] = stale[target[p]]
  BY <1>1 DEF Frame
<1>4. QED
  BY <1>2, <1>3 DEF Frame, InStep, Asked

\* Who has written a row has committed and asks for nothing else.
LEMMA WriterSettled ==
  ASSUME ConstantsOK, IInv, NEW q \in Requests, Frame(q), NEW s \in Rows,
         mem[s] # None, mem[s].by \in Requests
  PROVE  call'[mem[s].by] = call[mem[s].by]
<1>1. pc[mem[s].by] = "done"
  BY DEF IInv, OnlyCommitted, Committed
<1>2. QED
  BY <1>1 DEF Frame

\* A row that is not touched stays fresh.
LEMMA FreshKept ==
  ASSUME ConstantsOK, IInv, NEW q \in Requests, Frame(q), NEW s \in Rows, FreshRow(s),
         mem'[s] = mem[s], stale'[s] = stale[s]
  PROVE  FreshRow(s)'
BY WriterSettled DEF FreshRow

\* A commit that writes one row.
LEMMA CommitsOneRow ==
  ASSUME ConstantsOK, IInv, HistoryInv, NEW q \in Requests, Frame(q), NEW r \in Rows,
         \A s \in Rows \ {r} : mem'[s] = mem[s] /\ stale'[s] = stale[s],
         FreshRow(r)',
         mem[r] # None => /\ mem'[r] # None /\ mem'[r].ext = mem[r].ext
                          /\ mem[r].gone # "no" => mem'[r].gone # "no"
  PROVE  RowsStay /\ \A s \in Rows : FreshRow(s)'
<1>1. RowsStay
  BY DEF RowsStay
<1>2. ASSUME NEW s \in Rows PROVE FreshRow(s)'
  <2>1. FreshRow(s)
    BY FreshRows DEF HistoryInv
  <2>2. CASE s = r
    BY <2>2
  <2>3. CASE s # r
    BY <2>1, <2>3, FreshKept
  <2>4. QED
    BY <2>2, <2>3
<1>3. QED
  BY <1>1, <1>2

\* The memory created has the columns and the words of its payload.
LEMMA InsertFresh ==
  ASSUME ConstantsOK, IInv, HistoryInv, NEW q \in Requests, CommitInsert(q)
  PROVE  RowsStay /\ \A s \in Rows : FreshRow(s)'
<1>1. /\ q \in Rows /\ work[q] = NewRow(q) /\ mem[q] = None /\ call'[q] = call[q]
      /\ pc[q] = "inserted" /\ mem' = [mem EXCEPT ![q] = work[q]] /\ stale' = stale
  BY Constants, Invisible DEF CommitInsert, HistoryInv, InStep, Answer
<1>2. mem'[q] = NewRow(q) /\ \A s \in Rows \ {q} : mem'[s] = mem[s] /\ stale'[s] = stale[s]
  BY <1>1 DEF IInv, TypeOK
<1>3. FreshRow(q)'
  BY <1>1, <1>2 DEF FreshRow, NewRow, TextOf
<1>4. Frame(q)
  BY CommitFrame DEF Commit
<1>5. QED
  BY <1>1, <1>2, <1>3, <1>4, CommitsOneRow

\* An update whose copy was not outdated leaves the columns and the words of its payload.
LEMMA UpdateFresh ==
  ASSUME ConstantsOK, IInv, HistoryInv, NEW q \in Requests, FinishUpdate(q),
         NEW r \in Rows, r = target[q]
  PROVE  RowsStay /\ \A s \in Rows : FreshRow(s)'
<1> DEFINE row == mem'[r]
           keep == call[q].atts = "keep"
           atts == IF keep THEN mem[r].atts ELSE (mem[r].atts \ snap[q].atts) \cup NewGroups(q)
           sent == TextOf(call[q], IF keep THEN snap[q].atts ELSE NewGroups(q))
           text == Written(sent, snap[q].text, work[q].text)
<1>1. /\ pc[q] = "finish" /\ r \in Rows /\ mem[r] \in Row /\ work[q] \in Row
      /\ snap[q].atts = mem[r].atts /\ PendingUpdate(q) /\ call'[q] = call[q] /\ stale' = stale
      /\ mem[r] # None /\ call[q] \in Call
  BY Constants DEF FinishUpdate, IInv, PendingWrites, PendingUpdate, InHand, HasTarget, TypeOK, Answer,
     HistoryInv, ImagesReadInFull
<1>2. row = [work[q] EXCEPT !.atts = atts, !.text = text]
      /\ \A s \in Rows \ {r} : mem'[s] = mem[s] /\ stale'[s] = stale[s]
  BY <1>1 DEF FinishUpdate, IInv, TypeOK
<1>3. /\ row.ext = mem[r].ext /\ row.gone = mem[r].gone /\ row.by = q
      /\ row.title = work[q].title /\ row.content = work[q].content
      /\ row.atts = atts /\ row.text = text
  BY <1>1, <1>2 DEF Row, PendingUpdate
<1>4. atts = IF keep THEN snap[q].atts ELSE NewGroups(q)
  BY <1>1
<1>5. ~stale[r] => /\ mem[r].gone # "api" /\ row.title = call[q].title /\ row.content = call[q].content
                   /\ text = sent
  BY <1>1, <1>3 DEF HistoryInv, InStep, Written
<1>6. sent = [title |-> call[q].title, content |-> call[q].content, atts |-> atts]
  BY <1>4 DEF TextOf
<1>7. FreshRow(r)'
  <2> HIDE DEF atts, sent, text
  <2>1. ~stale[r] => /\ row.gone # "api" /\ row.by = q
                     /\ row.title = call[q].title /\ row.content = call[q].content
                     /\ row.text = [title |-> row.title, content |-> row.content, atts |-> row.atts]
    BY <1>3, <1>5, <1>6
  <2>2. QED
    BY <1>1, <2>1 DEF FreshRow
<1>8. row # None
  <2>1. NewGroups(q) \in SUBSET Group /\ mem[r].atts \in SUBSET Group /\ snap[q].text \in Text
    BY <1>1, NewRowType DEF Row, IInv, TypeOK, InHand, HasTarget
  <2>2. atts \in SUBSET Group
    BY <1>4, <1>1, <2>1
  <2>3. sent \in Text /\ work[q].text \in Text
    BY <1>1, <1>6, <2>2, NewRowType DEF Row, TextOf
  <2>4. text \in Text
    BY <2>3 DEF Written
  <2>5. row \in Row
    BY <1>1, <1>2, <2>2, <2>4 DEF Row
  <2>6. QED
    BY <2>5, Constants
<1>9. Frame(q)
  BY CommitFrame DEF Commit
<1>10. QED
  BY <1>1, <1>2, <1>3, <1>7, <1>8, <1>9, CommitsOneRow

\* A deletion whose copy was not outdated takes all the images.
LEMMA DeleteFresh ==
  ASSUME ConstantsOK, IInv, HistoryInv, NEW q \in Requests, CommitDelete(q),
         NEW r \in Rows, r = target[q]
  PROVE  RowsStay /\ \A s \in Rows : FreshRow(s)'
<1> DEFINE row == mem'[r]
<1>1. /\ pc[q] = "flush" /\ mem[r] \in Row /\ mem[r] # None /\ Frame(q)
  BY CommitFrame DEF Commit, CommitDelete, IInv, InHand, HasTarget, TypeOK
<1>2. /\ row = [mem[r] EXCEPT !.gone = "api", !.atts = @ \ snap[q].atts]
      /\ \A s \in Rows \ {r} : mem'[s] = mem[s] /\ stale'[s] = stale[s]
      /\ stale'[r] = (stale[r] \/ mem[r].atts # snap[q].atts)
  BY <1>1 DEF CommitDelete, IInv, TypeOK
<1>3. /\ row.ext = mem[r].ext /\ row.gone = "api" /\ row.by = mem[r].by
      /\ row.title = mem[r].title /\ row.content = mem[r].content
      /\ row.atts = mem[r].atts \ snap[q].atts
  BY <1>1, <1>2 DEF Row
<1>4. ~stale'[r] => row.atts = {} /\ ~stale[r]
  BY <1>2, <1>3
<1>5. FreshRow(r)
  BY FreshRows DEF HistoryInv
<1>6. FreshRow(r)'
  BY <1>1, <1>3, <1>4, <1>5, WriterSettled DEF FreshRow
<1>7. row # None
  <2>1. mem[r].atts \ snap[q].atts \in SUBSET Group
    BY <1>1 DEF Row
  <2>2. row \in Row
    BY <1>1, <1>2, <2>1 DEF Row
  <2>3. QED
    BY <2>2, Constants
<1>8. QED
  BY <1>1, <1>2, <1>3, <1>6, <1>7, CommitsOneRow

\* An edit whose copy was not outdated leaves columns and words that agree.
LEMMA EditFresh ==
  ASSUME ConstantsOK, IInv, HistoryInv, NEW q \in Requests, CommitEdit(q),
         NEW r \in Rows, r = target[q]
  PROVE  RowsStay /\ \A s \in Rows : FreshRow(s)'
<1> DEFINE row == mem'[r]
           sent == TextOf(call[q], snap[q].atts)
<1>0. /\ pc[q] = "flush" /\ mem[r] \in Row /\ mem[r] # None /\ snap[q] \in Row
      /\ Frame(q) /\ call'[q] = call[q]
  <2>1. Frame(q)
    BY CommitFrame DEF Commit
  <2>2. QED
    BY <2>1 DEF CommitEdit, Answer, IInv, InHand, HasTarget, TypeOK
<1>1. call[q] \in Call /\ q \in Rows
  BY <1>0, Constants DEF IInv, InHand, TypeOK
<1>2. /\ row = [mem[r] EXCEPT !.title = Written(call[q].title, snap[q].title, @),
                              !.content = Written(call[q].content, snap[q].content, @),
                              !.text = Written(sent, snap[q].text, @),
                              !.by = q]
      /\ \A s \in Rows \ {r} : mem'[s] = mem[s] /\ stale'[s] = stale[s]
      /\ stale'[r] = (stale[r] \/ mem[r] # snap[q])
  BY <1>0 DEF CommitEdit, IInv, TypeOK
<1>3. /\ row.ext = mem[r].ext /\ row.gone = mem[r].gone /\ row.by = q /\ row.atts = mem[r].atts
      /\ row.title = Written(call[q].title, snap[q].title, mem[r].title)
      /\ row.content = Written(call[q].content, snap[q].content, mem[r].content)
      /\ row.text = Written(sent, snap[q].text, mem[r].text)
  BY <1>0, <1>2 DEF Row
<1>4. ~stale'[r] => /\ row.title = call[q].title /\ row.content = call[q].content
                    /\ row.text = [title |-> row.title, content |-> row.content, atts |-> row.atts]
                    /\ ~stale[r]
  <2>1. ~stale'[r] => mem[r] = snap[q] /\ ~stale[r]
    BY <1>2
  <2>2. ~stale'[r] => /\ row.title = call[q].title /\ row.content = call[q].content
                      /\ row.text = sent
    BY <1>3, <2>1 DEF Written
  <2>3. sent = [title |-> call[q].title, content |-> call[q].content, atts |-> snap[q].atts]
    BY DEF TextOf
  <2>4. QED
    BY <1>3, <2>1, <2>2, <2>3
<1>5. FreshRow(r)
  BY FreshRows DEF HistoryInv
<1>6. FreshRow(r)'
  BY <1>0, <1>3, <1>4, <1>5 DEF FreshRow
<1>7. row # None
  <2>1. sent \in Text
    BY <1>0, <1>1, NewRowType DEF Row
  <2>2. /\ Written(sent, snap[q].text, mem[r].text) \in Text
        /\ Written(call[q].title, snap[q].title, mem[r].title) \in Titles
        /\ Written(call[q].content, snap[q].content, mem[r].content) \in Contents
    BY <1>0, <1>1, <2>1 DEF Written, Row, Call
  <2>3. row \in Row
    BY <1>0, <1>1, <1>2, <2>2 DEF Row
  <2>4. QED
    BY <2>3, Constants
<1>8. QED
  BY <1>0, <1>2, <1>3, <1>6, <1>7, CommitsOneRow

\* The delete form leaves columns, words and images as they are.
LEMMA RemoveFresh ==
  ASSUME ConstantsOK, IInv, HistoryInv, NEW q \in Requests, CommitRemove(q),
         NEW r \in Rows, r = target[q]
  PROVE  RowsStay /\ \A s \in Rows : FreshRow(s)'
<1> DEFINE row == mem'[r]
<1>1. pc[q] = "flush" /\ mem[r] \in Row /\ mem[r] # None /\ Frame(q) /\ stale' = stale
  BY CommitFrame DEF Commit, CommitRemove, IInv, InHand, HasTarget, TypeOK
<1>2. /\ row = [mem[r] EXCEPT !.gone = IF @ = "api" THEN @ ELSE "admin"]
      /\ \A s \in Rows \ {r} : mem'[s] = mem[s]
  BY <1>1 DEF CommitRemove, IInv, TypeOK
<1>3. /\ row.ext = mem[r].ext /\ row.gone \in {"api", "admin"} /\ row.by = mem[r].by
      /\ row.gone = "api" <=> mem[r].gone = "api"
      /\ row.title = mem[r].title /\ row.content = mem[r].content /\ row.text = mem[r].text
      /\ row.atts = mem[r].atts
  BY <1>1, <1>2 DEF Row
<1>4. FreshRow(r)
  BY FreshRows DEF HistoryInv
<1>5. FreshRow(r)'
  BY <1>1, <1>3, <1>4, WriterSettled DEF FreshRow
<1>6. row # None
  BY <1>1, <1>2, Constants DEF Row
<1>7. QED
  BY <1>1, <1>2, <1>3, <1>5, <1>6, CommitsOneRow

\* Every commit leaves fresh rows fresh and loses none.
LEMMA CommitFresh ==
  ASSUME ConstantsOK, IInv, HistoryInv, NEW q \in Requests, Commit(q)
  PROVE  RowsStay /\ \A s \in Rows : FreshRow(s)'
<1>1. CASE CommitInsert(q)
  BY <1>1, InsertFresh
<1>2. CASE FinishUpdate(q) \/ CommitDelete(q) \/ CommitEdit(q) \/ CommitRemove(q)
  <2>1. target[q] \in Rows
    BY <1>2 DEF FinishUpdate, CommitDelete, CommitEdit, CommitRemove, IInv, InHand, HasTarget, TypeOK
  <2>2. QED
    BY <1>2, <2>1, UpdateFresh, DeleteFresh, EditFresh, RemoveFresh
<1>3. QED
  BY <1>1, <1>2 DEF Commit

\* Between the commits only the flush of an update marks a row, and as one written by an
\* outdated session.
LEMMA StatementFresh ==
  ASSUME ConstantsOK, IInv, HistoryInv, NEW q \in Requests, Begin(q) \/ Statement(q)
  PROVE  RowsStay /\ \A s \in Rows : FreshRow(s)'
<1>1. Frame(q) /\ mem' = mem
  BY StatementFrame
<1>2. ASSUME NEW s \in Rows PROVE ~stale'[s] => ~stale[s]
  <2>1. CASE FlushUpdate(q)
    BY <2>1 DEF FlushUpdate, IInv, TypeOK
  <2>2. CASE ~FlushUpdate(q)
    <3>1. stale' = stale
      BY <2>2 DEF Statement, Begin, RejectAttachments, LookupHit, LookupMiss, MatchSimilar, NoSimilar,
         Insert, InsertConflict, CategoryRefused, CrashUpdate, Close, DeleteNothing, ReadAttachments,
         GetUnknown,
         GetRow, AlreadyRemoved, LoadAttachments, Fail
    <3>2. QED
      BY <3>1
  <2>3. QED
    BY <2>1, <2>2
<1>3. RowsStay
  BY <1>1 DEF RowsStay
<1>4. ASSUME NEW s \in Rows PROVE FreshRow(s)'
  <2>1. FreshRow(s)
    BY FreshRows DEF HistoryInv
  <2>2. mem[s] # None /\ mem[s].by \in Requests => call'[mem[s].by] = call[mem[s].by]
    BY <1>1, WriterSettled
  <2>3. QED
    BY <1>1, <1>2, <2>1, <2>2 DEF FreshRow
<1>5. QED
  BY <1>3, <1>4

\* What q's handler has in hand after a statement.
LEMMA StatementInStep ==
  ASSUME ConstantsOK, IInv, HistoryInv, NEW q \in Requests, Begin(q) \/ Statement(q)
  PROVE  InStep(q)'
<1> USE Constants
<1>1. InStep(q) /\ mem' = mem
  BY StatementFrame DEF HistoryInv
<1>2. CASE Insert(q)
  <2>1. pc[q] = "insert" /\ pc'[q] = "inserted" /\ work'[q] = NewRow(q) /\ call' = call
    BY <1>2 DEF Insert, Goto, IInv, TypeOK
  <2>2. QED
    BY <1>1, <2>1 DEF InStep, Asked, NewRow, NewGroups, TextOf
<1>3. CASE LookupHit(q) \/ MatchSimilar(q)
  <2>1. PICK r \in Rows : Live(r) /\ snap'[q] = mem[r]
    BY <1>3 DEF LookupHit, MatchSimilar, Load, IInv, TypeOK
  <2>2. /\ pc'[q] \in {"flush", "readatts"} /\ call' = call
        /\ pc'[q] = "readatts" => call[q].op = "delete"
    BY <1>1, <1>3 DEF LookupHit, MatchSimilar, Goto, InStep, Asked, IInv, TypeOK
  <2>3. QED
    BY <2>1, <2>2 DEF InStep, Asked, Live
<1>4. CASE FlushUpdate(q)
  <2> SUFFICES ASSUME NEW r \in Rows, r = target[q] PROVE InStep(q)'
    BY <1>4 DEF FlushUpdate, IInv, InHand, HasTarget, TypeOK
  <2>1. /\ pc[q] = "flush" /\ pc'[q] = "flushed" /\ call[q].op = "write" /\ mem[r] \in Row
        /\ call' = call /\ snap' = snap /\ target' = target
        /\ stale'[r] = (stale[r] \/ mem[r] # snap[q])
    BY <1>4 DEF FlushUpdate, IInv, InHand, HasTarget, TypeOK
  <2>2. work'[q] = [mem[r] EXCEPT !.title = Written(call[q].title, snap[q].title, @),
                                  !.content = Written(call[q].content, snap[q].content, @),
                                  !.by = q]
    BY <1>4 DEF FlushUpdate, IInv, TypeOK
  <2>3. /\ work'[q].title = Written(call[q].title, snap[q].title, mem[r].title)
        /\ work'[q].content = Written(call[q].content, snap[q].content, mem[r].content)
        /\ work'[q].text = mem[r].text
    BY <2>1, <2>2 DEF Row
  <2>4. snap[q].gone = "no"
    BY <1>1, <2>1 DEF InStep
  <2>5. ~stale'[r] => /\ mem[r].gone # "api"
                      /\ work'[q].title = call[q].title /\ work'[q].content = call[q].content
                      /\ work'[q].text = snap[q].text
    BY <2>1, <2>3, <2>4 DEF Written
  <2>6. QED
    BY <1>1, <2>1, <2>5 DEF InStep, Asked
<1>5. CASE ReadAttachments(q)
  <2>1. /\ pc[q] \in {"flushed", "readatts"} /\ pc'[q] = IF pc[q] = "flushed" THEN "finish" ELSE "flush"
        /\ snap'[q] = [snap[q] EXCEPT !.atts = mem[target[q]].atts] /\ snap[q] \in Row
        /\ call' = call /\ work' = work /\ target' = target /\ stale' = stale
    BY <1>5 DEF ReadAttachments, IInv, InHand, HasTarget, TypeOK
  <2>2. snap'[q].gone = snap[q].gone /\ snap'[q].text = snap[q].text
    BY <2>1 DEF Row
  <2>3. QED
    BY <1>1, <2>1, <2>2 DEF InStep, Asked
<1>6. CASE GetRow(q) \/ LoadAttachments(q)
  <2>1. /\ call' = call /\ pc'[q] \in {"editatts", "flush", "done"}
        /\ pc'[q] = "flush" => call[q].op # "write"
        /\ pc'[q] = "editatts" => call[q].op = "edit"
    <3>1. CASE GetRow(q)
      BY <1>1, <3>1 DEF GetRow, InStep, Asked, IInv, TypeOK
    <3>2. CASE LoadAttachments(q)
      BY <1>1, <3>2 DEF LoadAttachments, Answer, InStep, Asked, IInv, TypeOK
    <3>3. QED
      BY <1>6, <3>1, <3>2
  <2>2. QED
    BY <2>1 DEF InStep, Asked
<1>7. CASE LookupMiss(q) \/ NoSimilar(q) \/ CrashUpdate(q)
  <2>1. pc'[q] \in {"similar", "insert", "closing"} /\ call' = call /\ call[q].op = "write"
    BY <1>1, <1>7 DEF LookupMiss, NoSimilar, CrashUpdate, Goto, InStep, Asked, IInv, TypeOK
  <2>2. QED
    BY <2>1 DEF InStep, Asked
<1>8. CASE Begin(q)
  <2>1. PICK c \in Calls : /\ call' = [call EXCEPT ![q] = c]
                           /\ pc' = [pc EXCEPT ![q] = IF c.op \in {"write", "delete"} THEN "lookup" ELSE "get"]
    BY <1>8 DEF Begin
  <2>2. /\ call'[q] = c /\ pc'[q] \in {"lookup", "get"}
        /\ pc'[q] = "lookup" <=> c.op \in {"write", "delete"}
        /\ c.op \in {"write", "delete", "edit", "remove"}
    BY <2>1 DEF IInv, TypeOK, Call
  <2>3. QED
    BY <2>2 DEF InStep, Asked
<1>9. CASE InsertConflict(q) \/ CategoryRefused(q)
  <2>1. pc[q] \in {"insert", "lookup"} /\ pc'[q] \in {"lookup", "done"} /\ call' = call
    BY <1>9 DEF InsertConflict, CategoryRefused, TryAgain, Answer, IInv, TypeOK
  <2>2. QED
    BY <1>1, <2>1 DEF InStep, Asked
<1>10. CASE \/ RejectAttachments(q) \/ Close(q) \/ DeleteNothing(q) \/ GetUnknown(q)
            \/ AlreadyRemoved(q) \/ Fail(q)
  <2>1. pc'[q] = "done"
    BY <1>10 DEF RejectAttachments, Close, DeleteNothing, GetUnknown, AlreadyRemoved, Fail, Answer, IInv, TypeOK
  <2>2. QED
    BY <2>1 DEF InStep, Asked
<1>11. QED
  BY <1>2, <1>3, <1>4, <1>5, <1>6, <1>7, <1>8, <1>9, <1>10 DEF Statement

\* The memories of a request's external id stay what they are.
LEMMA TwinsStay ==
  ASSUME RowsStay, NEW p \in Requests, call'[p] = call[p]
  PROVE  /\ \A r \in Twins(p) : r \in Twins(p)' /\ (Deleted(r) => Deleted(r)')
         /\ \A r \in Twins(p) : mem[r].gone # "no" => mem'[r].gone # "no"
BY DEF RowsStay, Twins, Deleted

\* The reason of a second attempt stays in the table.
LEMMA ReasonStays ==
  ASSUME ConstantsOK, IInv, RowsStay, NEW q \in Requests, Frame(q), NEW p \in Requests, Retried(p),
         tries'[p] = tries[p], named'[p] = named[p], pc'[p] # "idle" \/ p # q, call'[p] = call[p],
         pc'[p] \in {"similar", "insert"} => pc[p] \in {"similar", "insert"},
         pc[p] \in {"closing", "done"} => pc'[p] \in {"closing", "done"}
  PROVE  Retried(p)'
<1>1. tries'[p] = 1 => pc'[p] # "idle"
  BY DEF Frame, Retried
<1>2. tries'[p] = 1 /\ named'[p] = 0 => Twins(p)' # {}
  BY TwinsStay DEF Retried
<1>3. tries'[p] = 1 /\ named'[p] = 0 /\ pc'[p] \in {"similar", "insert"} =>
        \E r \in Twins(p)' : Deleted(r)'
  BY TwinsStay DEF Retried
<1>4. pc'[p] \notin {"closing", "done"} => named'[p] <= tries'[p]
  BY DEF Retried
<1>5. QED
  BY <1>1, <1>2, <1>3, <1>4 DEF Retried

\* A second attempt begins because of a row; when it finds none to write to, the row has been
\* deleted.
LEMMA RetriedStep ==
  ASSUME ConstantsOK, IInv, HistoryInv, RowsStay, NEW q \in Requests,
         Begin(q) \/ Statement(q) \/ Commit(q)
  PROVE  \A p \in Requests : Retried(p)'
<1>1. Frame(q) /\ Retried(q)
  BY StatementFrame, CommitFrame DEF HistoryInv
<1>2. ASSUME NEW p \in Requests \ {q} PROVE Retried(p)'
  <2>1. Retried(p)
    BY DEF HistoryInv
  <2>2. /\ tries'[p] = tries[p] /\ named'[p] = named[p] /\ call'[p] = call[p]
        /\ pc'[p] = pc[p]
    BY <1>1 DEF Frame
  <2>3. QED
    BY <1>1, <2>1, <2>2, ReasonStays
<1>3. CASE Begin(q)
  <2>1. tries'[q] # 1 /\ named'[q] <= tries'[q]
    BY <1>1, <1>3 DEF Begin, Retried
  <2>2. QED
    BY <1>2, <2>1 DEF Retried
<1>4. CASE InsertConflict(q) \/ CategoryRefused(q)
  <2>1. /\ mem' = mem /\ call' = call /\ pc'[q] \in {"lookup", "done"}
        /\ pc'[q] = "lookup" => tries[q] = 0 /\ tries'[q] = 1
        /\ tries[q] \in 0..1 /\ named[q] \in Nat
        /\ pc[q] \in {"lookup", "insert"}
    <3>1. /\ mem' = mem /\ pc[q] \in {"lookup", "insert"} /\ TryAgain(q)
          /\ tries[q] \in 0..1 /\ named[q] \in Nat
      BY <1>4 DEF InsertConflict, CategoryRefused, IInv, TypeOK
    <3>2. CASE tries[q] = 0
      BY <3>1, <3>2 DEF TryAgain, IInv, TypeOK
    <3>3. CASE Answer(q, "conflict")
      BY <3>1, <3>3 DEF Answer, IInv, TypeOK
    <3>4. QED
      BY <3>1, <3>2, <3>3 DEF TryAgain
  <2>2. ASSUME InsertConflict(q) PROVE Retried(q)'
    <3>1. PICK r \in Rows : Live(r) /\ mem[r].ext = call[q].ext
      BY <2>2 DEF InsertConflict
    <3>2. r \in Twins(q)' /\ named' = named
      BY <2>1, <2>2, <3>1 DEF Twins, Live, InsertConflict
    <3>3. pc'[q] \notin {"closing", "done"} => named'[q] <= tries'[q]
      BY <1>1, <2>1, <3>2 DEF Retried
    <3>4. Twins(q)' # {} /\ pc'[q] \notin {"idle", "similar", "insert"}
      BY <2>1, <3>2
    <3>5. QED
      BY <3>3, <3>4 DEF Retried
  <2>3. ASSUME CategoryRefused(q) PROVE Retried(q)'
    <3>1. named'[q] = named[q] + 1 /\ named'[q] # 0
      BY <2>1, <2>3 DEF CategoryRefused, IInv, TypeOK
    <3>2. pc'[q] \notin {"closing", "done"} => named'[q] <= tries'[q]
      BY <1>1, <2>1, <3>1 DEF Retried
    <3>3. pc'[q] # "idle"
      BY <2>1
    <3>4. QED
      BY <3>1, <3>2, <3>3 DEF Retried
  <2>4. QED
    BY <1>2, <1>4, <2>2, <2>3
<1>5. CASE LookupMiss(q)
  <2>1. /\ mem' = mem /\ call' = call /\ tries' = tries /\ named' = named
        /\ pc'[q] \in {"similar", "insert"} /\ pc[q] = "lookup"
        /\ \A r \in Rows : Live(r) => mem[r].ext # call[q].ext
    BY <1>5 DEF LookupMiss, IInv, TypeOK
  <2>2. \A r \in Twins(q) : Deleted(r)' /\ Twins(q)' = Twins(q)
    BY <2>1 DEF Live, Deleted, Twins
  <2>3. Retried(q)'
    BY <1>1, <2>1, <2>2 DEF Retried
  <2>4. QED
    BY <1>2, <2>3
<1>6. CASE ~(Begin(q) \/ InsertConflict(q) \/ CategoryRefused(q) \/ LookupMiss(q))
  <2>1. /\ tries'[q] = tries[q] /\ named'[q] = named[q] /\ pc'[q] # "idle" /\ call'[q] = call[q]
        /\ pc'[q] \in {"similar", "insert"} => pc[q] \in {"similar", "insert"}
        /\ pc[q] \in {"closing", "done"} => pc'[q] \in {"closing", "done"}
    <3>1. CASE Commit(q)
      <4>1. pc'[q] = "done" /\ pc[q] # "idle"
        BY <3>1, CommitFrame
      <4>2. tries' = tries /\ named' = named
        BY <3>1 DEF Commit, CommitInsert, FinishUpdate, CommitDelete, CommitEdit, CommitRemove, Answer
      <4>3. QED
        BY <1>1, <4>1, <4>2 DEF Frame
    <3>2. CASE LookupHit(q) \/ MatchSimilar(q) \/ NoSimilar(q) \/ Insert(q) \/ FlushUpdate(q)
               \/ CrashUpdate(q) \/ ReadAttachments(q) \/ GetRow(q)
      BY <3>2 DEF LookupHit, MatchSimilar, NoSimilar, Insert, FlushUpdate, CrashUpdate,
         ReadAttachments, GetRow, Goto, IInv, TypeOK
    <3>3. CASE RejectAttachments(q) \/ Close(q) \/ DeleteNothing(q) \/ GetUnknown(q)
               \/ AlreadyRemoved(q) \/ Fail(q) \/ LoadAttachments(q)
      BY <3>3 DEF RejectAttachments, Close, DeleteNothing, GetUnknown, AlreadyRemoved, Fail,
         LoadAttachments, Answer, IInv, TypeOK
    <3>4. QED
      BY <1>6, <3>1, <3>2, <3>3 DEF Statement
  <2>2. Retried(q)'
    BY <1>1, <2>1, ReasonStays
  <2>3. QED
    BY <1>2, <2>2
<1>7. QED
  BY <1>3, <1>4, <1>5, <1>6

\* The second refusal finds its reason, or the first one has left it; both stay.
LEMMA ConflictStep ==
  ASSUME ConstantsOK, IInv, HistoryInv, RowsStay, NEW q \in Requests,
         Begin(q) \/ Statement(q) \/ Commit(q)
  PROVE  RefusedTwice'
<1> DEFINE Reason(p, n) ==
      /\ n < 2 => Twins(p) # {}
      /\ n = 0 => \E r, s \in Twins(p) : r # s /\ mem[r].gone # "no"
<1>1. Frame(q) /\ Retried(q)
  BY StatementFrame, CommitFrame DEF HistoryInv
<1>2. ASSUME NEW p \in Requests, Reason(p, named'[p]), pc[p] # "idle"
      PROVE  Reason(p, named[p])'
  <2>1. call'[p] = call[p]
    BY <1>1, <1>2 DEF Frame
  <2>2. QED
    BY <1>2, <2>1, TwinsStay
<1>3. ASSUME NEW p \in Requests, outcome[p] = "conflict", outcome'[p] = "conflict"
      PROVE  Reason(p, named'[p]) /\ pc[p] # "idle"
  <2>1. Reason(p, named[p]) /\ pc[p] \in {"closing", "done"}
    BY <1>3 DEF HistoryInv, RefusedTwice, IInv, InHand
  <2>2. named'[p] = named[p]
    <3>1. CASE p # q
      BY <1>1, <3>1 DEF Frame
    <3>2. CASE p = q
      BY <2>1, <3>2 DEF Begin, Statement, Commit, RejectAttachments, LookupHit, LookupMiss,
         MatchSimilar, NoSimilar, Insert, InsertConflict, CategoryRefused, FlushUpdate, CrashUpdate,
         Close, DeleteNothing, ReadAttachments, GetUnknown, GetRow, AlreadyRemoved, LoadAttachments,
         Fail, CommitInsert, FinishUpdate, CommitDelete, CommitEdit, CommitRemove
    <3>3. QED
      BY <3>1, <3>2
  <2>3. QED
    BY <2>1, <2>2
<1>4. ASSUME NEW p \in Requests, outcome'[p] = "conflict", outcome[p] # "conflict"
      PROVE  Reason(p, named'[p]) /\ pc[p] # "idle"
  <2>1. p = q
    BY <1>1, <1>4 DEF Frame
  <2>2. (InsertConflict(q) \/ CategoryRefused(q)) /\ tries[q] = 1
    <3>1. outcome'[q] = "conflict" /\ outcome[q] # "conflict"
      BY <1>4, <2>1
    <3>2. ~Begin(q) /\ ~LookupHit(q) /\ ~LookupMiss(q) /\ ~MatchSimilar(q) /\ ~NoSimilar(q)
          /\ ~Insert(q) /\ ~FlushUpdate(q) /\ ~CrashUpdate(q) /\ ~ReadAttachments(q) /\ ~GetRow(q)
      BY <3>1 DEF Begin, LookupHit, LookupMiss, MatchSimilar, NoSimilar, Insert, FlushUpdate,
         CrashUpdate, ReadAttachments, GetRow, IInv, TypeOK
    <3>3. ~RejectAttachments(q) /\ ~Close(q) /\ ~DeleteNothing(q) /\ ~GetUnknown(q)
          /\ ~AlreadyRemoved(q) /\ ~Fail(q) /\ ~LoadAttachments(q)
      BY <3>1 DEF RejectAttachments, Close, DeleteNothing, GetUnknown, AlreadyRemoved, Fail,
         LoadAttachments, Answer, IInv, TypeOK
    <3>4. ~Commit(q)
      BY <3>1 DEF Commit, CommitInsert, FinishUpdate, CommitDelete, CommitEdit, CommitRemove, Answer,
         IInv, TypeOK
    <3>5. InsertConflict(q) \/ CategoryRefused(q)
      BY <3>2, <3>3, <3>4 DEF Statement
    <3>6. QED
      BY <3>1, <3>5 DEF InsertConflict, CategoryRefused, TryAgain
  <2>3. /\ pc[q] \in {"insert", "lookup"} /\ named[q] \in Nat
        /\ named[q] = 0 => Twins(q) # {}
    BY <1>1, <2>2 DEF InsertConflict, CategoryRefused, Retried, IInv, TypeOK
  <2>4. CASE CategoryRefused(q)
    <3>1. named'[q] = named[q] + 1
      BY <2>4 DEF CategoryRefused, IInv, TypeOK
    <3>2. QED
      BY <2>1, <2>3, <3>1
  <2>5. CASE InsertConflict(q)
    <3>1. PICK s \in Rows : Live(s) /\ mem[s].ext = call[q].ext
      BY <2>5 DEF InsertConflict
    <3>2. s \in Twins(q) /\ mem[s].gone = "no"
      BY <3>1 DEF Live, Twins
    <3>3. named' = named /\ pc[q] = "insert"
      BY <2>5 DEF InsertConflict
    <3>4. named[q] = 0 => \E r \in Twins(q) : mem[r].gone # "no"
      BY <1>1, <2>2, <3>3 DEF Retried, Deleted
    <3>5. QED
      BY <2>1, <3>2, <3>3, <3>4
  <2>6. QED
    BY <2>2, <2>4, <2>5
<1>5. ASSUME NEW p \in Requests, outcome'[p] = "conflict" PROVE Reason(p, named[p])'
  BY <1>2, <1>3, <1>4, <1>5
<1>6. QED
  BY <1>5 DEF RefusedTwice

\* Nothing is stale, retried or refused before the first request.
LEMMA HistoryInit == Init => HistoryInv
<1> SUFFICES ASSUME Init PROVE HistoryInv
  OBVIOUS
<1>1. \A q \in Requests : /\ pc[q] = "idle" /\ call[q] = None /\ tries[q] = 0 /\ outcome[q] = "none"
                          /\ named[q] = 0
  BY DEF Init
<1>2. \A q \in Requests : InStep(q) /\ Retried(q)
  BY <1>1 DEF InStep, Asked, Retried
<1>3. ASSUME NEW r \in Rows PROVE FreshRow(r)
  <2>1. mem[r] = Stored[r]
    BY DEF Init
  <2>2. QED
    BY <2>1, StoredOK DEF FreshRow, Coherent
<1>4. ImagesReadInFull /\ RefusedTwice
  BY <1>1 DEF ImagesReadInFull, RefusedTwice
<1>5. QED
  BY <1>2, <1>3, <1>4, FreshRows DEF HistoryInv

\* Every step keeps HistoryInv.
LEMMA HistoryStep ==
  ASSUME ConstantsOK, IInv, HistoryInv, ImagesReadInFull', [Next]_vars
  PROVE  HistoryInv'
<1>1. ASSUME NEW q \in Requests, Begin(q) \/ Statement(q) \/ Commit(q) PROVE HistoryInv'
  <2>1. RowsStay /\ \A s \in Rows : FreshRow(s)'
    BY <1>1, StatementFresh, CommitFresh
  <2>2. \A p \in Requests : Retried(p)'
    BY <1>1, <2>1, RetriedStep
  <2>3. RefusedTwice'
    BY <1>1, <2>1, ConflictStep
  <2>4. InStep(q)'
    <3>1. CASE Begin(q) \/ Statement(q)
      BY <3>1, StatementInStep
    <3>2. CASE Commit(q)
      <4>1. pc'[q] = "done"
        BY <3>2, CommitFrame
      <4>2. QED
        BY <4>1 DEF InStep, Asked
    <3>3. QED
      BY <1>1, <3>1, <3>2
  <2>5. ASSUME NEW p \in Requests \ {q} PROVE InStep(p)'
    <3>1. Frame(q) /\ InStep(p)
      BY <1>1, StatementFrame, CommitFrame DEF HistoryInv
    <3>2. QED
      BY <3>1, OthersInStep
  <2>6. QED
    BY <2>1, <2>2, <2>3, <2>4, <2>5, FreshRows DEF HistoryInv
<1>2. CASE UNCHANGED vars
  <2>1. \A q \in Requests : InStep(q)' /\ Retried(q)'
    BY <1>2 DEF vars, HistoryInv, InStep, Asked, Retried, Twins, Deleted, NewRow, NewGroups, TextOf
  <2>2. FreshRowsCoherent' /\ DeletedTakesImages' /\ RefusedTwice'
    BY <1>2 DEF vars, HistoryInv, FreshRowsCoherent, DeletedTakesImages, RefusedTwice, Twins
  <2>3. QED
    BY <2>1, <2>2 DEF HistoryInv
<1>3. QED
  BY <1>1, <1>2 DEF Next, Progress, AllDone, Statement, Commit

\* What copies that were not outdated bring about holds for ever.
THEOREM History == Spec => []HistoryInv
<1>1. Init => HistoryInv
  BY HistoryInit
<1>2. ConstantsOK /\ IInv /\ HistoryInv /\ ImagesReadInFull' /\ [Next]_vars => HistoryInv'
  BY HistoryStep
<1>3. QED
  BY <1>1, <1>2, Invariant, ImagesReadUnderLock, ConstantsOK, PTL DEF Spec

\* A memory no outdated session has written is, column by column and word by word, what its last
\* writer sent.
THEOREM FreshIsCoherent == Spec => []FreshRowsCoherent
<1>1. HistoryInv => FreshRowsCoherent
  BY DEF HistoryInv
<1>2. QED
  BY <1>1, History, PTL

\* A memory deleted through the API takes all its images with it, unless the deleting session
\* had read them before another one changed them.
THEOREM DeletedWithImages == Spec => []DeletedTakesImages
<1>1. HistoryInv => DeletedTakesImages
  BY DEF HistoryInv
<1>2. QED
  BY <1>1, History, PTL

\* A write is refused for good only after two refusals, each over the name of its category or
\* over a memory of its external id; if over memories alone, the first was deleted in between.
THEOREM RefusedForTwoReasons == Spec => []RefusedTwice
<1>1. HistoryInv => RefusedTwice
  BY DEF HistoryInv
<1>2. QED
  BY <1>1, History, PTL

-----------------------------------------------------------------------------
(* One request at a time: the documents of a table *)

\* The document e names in table M.
DocumentIn(M, e) ==
  IF \E r \in Rows : M[r] # None /\ M[r].gone = "no" /\ M[r].ext = e
  THEN Document(M[CHOOSE r \in Rows : M[r] # None /\ M[r].gone = "no" /\ M[r].ext = e])
  ELSE None

OneLive(M) == \A r, s \in Rows :
  /\ M[r] # None /\ M[r].gone = "no" /\ M[s] # None /\ M[s].gone = "no"
  /\ M[r].ext = M[s].ext
  => r = s

\* The mapping of this state and of the next one.
LEMMA DocumentsOfTables ==
  /\ Documents = [e \in ExtIds |-> DocumentIn(mem, e)]
  /\ Documents' = [e \in ExtIds |-> DocumentIn(mem', e)]
  /\ UniqueLive <=> OneLive(mem)
  /\ UniqueLive' <=> OneLive(mem')
BY DEF Documents, DocumentIn, UniqueLive, OneLive, Live

\* A live row is the document its external id names.
LEMMA DocumentFound ==
  ASSUME NEW M, OneLive(M), NEW r \in Rows, M[r] # None, M[r].gone = "no"
  PROVE  DocumentIn(M, M[r].ext) = Document(M[r])
<1> DEFINE P(s) == s \in Rows /\ M[s] # None /\ M[s].gone = "no" /\ M[s].ext = M[r].ext
<1>1. (CHOOSE s \in Rows : M[s] # None /\ M[s].gone = "no" /\ M[s].ext = M[r].ext) = r
  BY DEF OneLive
<1>2. QED
  BY <1>1 DEF DocumentIn

\* Without one there is no document.
LEMMA DocumentMissing ==
  ASSUME NEW M, NEW e, \A r \in Rows : M[r] # None /\ M[r].gone = "no" => M[r].ext # e
  PROVE  DocumentIn(M, e) = None
BY DEF DocumentIn

\* A table in which the rows of e are the same has the same document.
LEMMA DocumentKept ==
  ASSUME NEW M, NEW N, OneLive(M), OneLive(N), NEW e,
         \A s \in Rows : M[s] # None /\ M[s].gone = "no" /\ M[s].ext = e => N[s] = M[s],
         \A s \in Rows : N[s] # None /\ N[s].gone = "no" /\ N[s].ext = e => N[s] = M[s]
  PROVE  DocumentIn(N, e) = DocumentIn(M, e)
<1>1. CASE \E s \in Rows : M[s] # None /\ M[s].gone = "no" /\ M[s].ext = e
  <2>1. PICK s \in Rows : M[s] # None /\ M[s].gone = "no" /\ M[s].ext = e
    BY <1>1
  <2>2. DocumentIn(M, e) = Document(M[s]) /\ DocumentIn(N, e) = Document(N[s]) /\ N[s] = M[s]
    BY <2>1, DocumentFound
  <2>3. QED
    BY <2>2
<1>2. CASE ~\E s \in Rows : M[s] # None /\ M[s].gone = "no" /\ M[s].ext = e
  BY <1>2 DEF DocumentIn
<1>3. QED
  BY <1>1, <1>2

\* A document is never None.
LEMMA DocumentIsSome == ASSUME NEW row \in Row PROVE Document(row) # None
BY NoneIsNoDocument DEF Document, Row

-----------------------------------------------------------------------------
(* What a commit does to the documents *)

\* Where a live row is, and where none is.
LEMMA AtLive ==
  ASSUME TypeOK, UniqueLive, NEW r \in Rows, Live(r)
  PROVE  /\ mem[r] \in Row /\ mem[r].ext \in ExtIds
         /\ Documents[mem[r].ext] = Document(mem[r]) /\ Documents[mem[r].ext] # None
<1>1. mem[r] \in Row /\ mem[r].ext \in ExtIds
  BY DEF TypeOK, Live, Row
<1>2. DocumentIn(mem, mem[r].ext) = Document(mem[r])
  BY DocumentFound, DocumentsOfTables DEF Live
<1>3. QED
  BY <1>1, <1>2, DocumentsOfTables, DocumentIsSome

\* What no live row is called is no document.
LEMMA AtMissing ==
  ASSUME NEW c, c.ext \in ExtIds, Missing(c)
  PROVE  Documents[c.ext] = None
<1>1. DocumentIn(mem, c.ext) = None
  BY DocumentMissing DEF Missing, Live
<1>2. QED
  BY <1>1, DocumentsOfTables

\* Every document is that of a live row.
LEMMA AtDocument ==
  ASSUME TypeOK, UniqueLive, NEW e \in ExtIds, Documents[e] # None
  PROVE  \E r \in Rows : Live(r) /\ mem[r].ext = e /\ Documents[e] = Document(mem[r])
<1>1. Documents[e] = DocumentIn(mem, e)
  BY DocumentsOfTables
<1>2. PICK r \in Rows : mem[r] # None /\ mem[r].gone = "no" /\ mem[r].ext = e
  BY <1>1 DEF DocumentIn
<1>3. Live(r)
  BY <1>2 DEF Live
<1>4. QED
  BY <1>2, <1>3, AtLive

\* One row is written: q's insert, an update, an edit.
LEMMA StoreWritten ==
  ASSUME TypeOK, UniqueLive, UniqueLive', NEW r \in Rows, NEW row \in Row,
         mem' = [mem EXCEPT ![r] = row], row.gone = "no", Live(r) => mem[r].ext = row.ext
  PROVE  Documents' = [Documents EXCEPT ![row.ext] = Document(row)]
<1>1. /\ OneLive(mem) /\ OneLive(mem') /\ row # None /\ row.ext \in ExtIds
      /\ \A s \in Rows : mem'[s] = IF s = r THEN row ELSE mem[s]
  BY DocumentsOfTables, Constants DEF TypeOK, Row
<1>2. DocumentIn(mem', row.ext) = Document(row)
  <2>1. mem'[r] = row
    BY <1>1
  <2>2. QED
    BY <1>1, <2>1, DocumentFound
<1>3. ASSUME NEW e \in ExtIds, e # row.ext PROVE DocumentIn(mem', e) = DocumentIn(mem, e)
  <2>1. /\ \A s \in Rows : mem[s] # None /\ mem[s].gone = "no" /\ mem[s].ext = e => mem'[s] = mem[s]
        /\ \A s \in Rows : mem'[s] # None /\ mem'[s].gone = "no" /\ mem'[s].ext = e => mem'[s] = mem[s]
    BY <1>1, <1>3 DEF Live
  <2>2. QED
    BY <1>1, <2>1, DocumentKept
<1>4. QED
  BY <1>1, <1>2, <1>3, DocumentsOfTables

\* One live row is marked deleted.
LEMMA StoreErased ==
  ASSUME TypeOK, UniqueLive, UniqueLive', NEW r \in Rows, NEW row \in Row,
         mem' = [mem EXCEPT ![r] = row], row.gone # "no", Live(r)
  PROVE  Documents' = [Documents EXCEPT ![mem[r].ext] = None]
<1>0. OneLive(mem) /\ OneLive(mem')
  BY DocumentsOfTables
<1>1. /\ row # None /\ mem[r].ext \in ExtIds
      /\ \A s \in Rows : mem'[s] = IF s = r THEN row ELSE mem[s]
  BY Constants, AtLive DEF TypeOK
<1>2. DocumentIn(mem', mem[r].ext) = None
  <2>1. \A s \in Rows : mem'[s] # None /\ mem'[s].gone = "no" => mem'[s].ext # mem[r].ext
    BY <1>0, <1>1 DEF OneLive, Live
  <2>2. QED
    BY <2>1, DocumentMissing
<1>3. ASSUME NEW e \in ExtIds, e # mem[r].ext PROVE DocumentIn(mem', e) = DocumentIn(mem, e)
  <2>1. /\ \A s \in Rows : mem[s] # None /\ mem[s].gone = "no" /\ mem[s].ext = e => mem'[s] = mem[s]
        /\ \A s \in Rows : mem'[s] # None /\ mem'[s].gone = "no" /\ mem'[s].ext = e => mem'[s] = mem[s]
    BY <1>1, <1>3
  <2>2. QED
    BY <1>0, <2>1, DocumentKept
<1>4. QED
  BY <1>1, <1>2, <1>3, DocumentsOfTables

\* A row that is deleted already is no document, whatever is written to it.
LEMMA StoreUntouched ==
  ASSUME TypeOK, UniqueLive, UniqueLive', NEW r \in Rows, NEW row \in Row,
         mem' = [mem EXCEPT ![r] = row], row.gone # "no", ~Live(r)
  PROVE  Documents' = Documents
<1>0. OneLive(mem) /\ OneLive(mem')
  BY DocumentsOfTables
<1>1. row # None /\ \A s \in Rows : mem'[s] = IF s = r THEN row ELSE mem[s]
  BY Constants DEF TypeOK
<1>2. ASSUME NEW e \in ExtIds PROVE DocumentIn(mem', e) = DocumentIn(mem, e)
  <2>1. /\ \A s \in Rows : mem[s] # None /\ mem[s].gone = "no" /\ mem[s].ext = e => mem'[s] = mem[s]
        /\ \A s \in Rows : mem'[s] # None /\ mem'[s].gone = "no" /\ mem'[s].ext = e => mem'[s] = mem[s]
    BY <1>1 DEF Live
  <2>2. QED
    BY <1>0, <2>1, DocumentKept
<1>3. QED
  BY <1>2, DocumentsOfTables

-----------------------------------------------------------------------------
(* The steps of the only request at work *)

\* The step is one the contract allows, or none at all.
Serves == Contract!ContractNext \/ UNCHANGED <<Documents, call, outcome>>

Alone(q) == \A p \in Requests \ {q} : pc[p] \in {"idle", "done"}

\* Whoever is at work is alone.
LEMMA OnlyOne ==
  ASSUME SerialInv, NEW q \in Requests, pc[q] \notin {"idle", "done"}
  PROVE  Alone(q)
BY DEF SerialInv, OneAtATime, Active, Alone

\* What a handler knows of its request.
LEMMA InService ==
  ASSUME ConstantsOK, IInv, NEW q \in Requests, pc[q] \notin {"idle", "done"}
  PROVE  /\ call[q] \in Call /\ call[q] # None /\ call[q].ext \in ExtIds
         /\ pc[q] # "closing" => outcome[q] = "none"
         /\ pc[q] \in AtWork => target[q] \in Rows /\ mem[target[q]] \in Row
<1>1. call[q] \in Call /\ call[q] # None
  BY Constants DEF IInv, TypeOK, InHand
<1>2. pc[q] \in AtWork => target[q] \in Rows /\ mem[target[q]] \in Row
  BY DEF IInv, TypeOK, InHand, HasTarget, AtWork, Locking
<1>3. pc[q] # "closing" => outcome[q] = "none"
  BY DEF IInv, InHand
<1>4. QED
  BY <1>1, <1>2, <1>3 DEF Call

\* It is enough to look at the request that takes the step.
LEMMA Focus ==
  ASSUME NEW q \in Requests, SerialInv, Alone(q),
         \A p \in Requests \ {q} : pc'[p] = pc[p] /\ call'[p] = call[p],
         HandlerOK(q)', LiveCoherent'
  PROVE  SerialInv'
<1>1. OneAtATime'
  BY DEF OneAtATime, Active, Alone
<1>2. ASSUME NEW p \in Requests \ {q} PROVE HandlerOK(p)'
  <2>1. pc'[p] \in {"idle", "done"} /\ (pc'[p] = "idle" => call'[p] = None)
    BY DEF SerialInv, HandlerOK, Asked, Alone
  <2>2. QED
    BY <2>1 DEF HandlerOK, Asked, StillMissing, RightRow, UpdateInHand, AtWork
<1>3. QED
  BY <1>1, <1>2 DEF SerialInv

\* Of an answered request nothing is said any more.
LEMMA DoneIsOK ==
  ASSUME NEW q \in Requests, pc'[q] = "done"
  PROVE  HandlerOK(q)'
BY DEF HandlerOK, Asked, StillMissing, RightRow, UpdateInHand, AtWork

\* An answered request leaves the others as they were.
LEMMA AnswerSerial ==
  ASSUME TypeOK, SerialInv, NEW q \in Requests, pc[q] \notin {"idle", "done"}, NEW result,
         Answer(q, result), LiveCoherent'
  PROVE  SerialInv'
<1>1. pc'[q] = "done" /\ \A p \in Requests \ {q} : pc'[p] = pc[p] /\ call'[p] = call[p]
  BY DEF Answer, TypeOK
<1>2. QED
  BY <1>1, OnlyOne, DoneIsOK, Focus

\* A table that stays as it is keeps its documents and their search text.
LEMMA TableKept ==
  ASSUME UNCHANGED mem
  PROVE  Documents' = Documents /\ (LiveCoherent => LiveCoherent')
BY DEF Documents, Live, LiveCoherent, TextOf

\* An answer, in the words of the contract.
LEMMA Replied ==
  ASSUME ConstantsOK, IInv, NEW q \in Requests, pc[q] \notin {"idle", "done", "closing"},
         NEW result, outcome' = [outcome EXCEPT ![q] = result], UNCHANGED call
  PROVE  Contract!Reply(q, call[q].op, result)
BY InService DEF Contract!Reply

\* An error that changes no row is a refusal.
LEMMA Refused ==
  ASSUME ConstantsOK, IInv, SerialInv, NEW q \in Requests, pc[q] \notin {"idle", "done", "closing"},
         NEW result \in {"rejected", "unknown", "crashed", "failed"},
         outcome' = [outcome EXCEPT ![q] = result], UNCHANGED <<mem, call>>
  PROVE  Serves
<1>1. Contract!Reply(q, call[q].op, result) /\ call[q] # None /\ Documents' = Documents
  BY Replied, InService, TableKept
<1>2. Contract!Refuse(q)
  BY <1>1 DEF Contract!Refuse
<1>3. QED
  BY <1>2 DEF Serves, Contract!ContractNext

\* Requests are begun one at a time.
LEMMA BeginServes ==
  ASSUME ConstantsOK, MaxActive = 1, IInv, SerialInv, NEW q \in Requests, Begin(q)
  PROVE  SerialInv' /\ Serves
<1>1. PICK c \in Calls : /\ call' = [call EXCEPT ![q] = c]
                         /\ pc' = [pc EXCEPT ![q] = IF c.op \in {"write", "delete"} THEN "lookup" ELSE "get"]
  BY DEF Begin
<1>2. /\ pc[q] = "idle" /\ Cardinality(Active) < 1
      /\ UNCHANGED <<mem, lock, work, outcome, target, snap, tries, named, stale>>
  BY DEF Begin
<1>3. Active = {}
  <2> SUFFICES ASSUME NEW p \in Active PROVE FALSE
    OBVIOUS
  <2>1. Active = {p}
    BY DEF SerialInv, OneAtATime
  <2>2. Cardinality({p}) = 1
    BY FS_Singleton
  <2>3. QED
    BY <1>2, <2>1, <2>2
<1>4. Alone(q)
  BY <1>3 DEF Alone, Active
<1>5. c.op \in {"write", "delete", "edit", "remove"}
  BY Constants DEF Call
<1>6. /\ call'[q] = c /\ pc'[q] \in {"lookup", "get"}
      /\ pc'[q] = "lookup" <=> c.op \in {"write", "delete"}
      /\ \A p \in Requests \ {q} : pc'[p] = pc[p] /\ call'[p] = call[p]
  BY <1>1 DEF IInv, TypeOK
<1>7. HandlerOK(q)'
  BY <1>5, <1>6 DEF HandlerOK, Asked, StillMissing, RightRow, UpdateInHand, AtWork
<1>8. SerialInv'
  BY <1>2, <1>4, <1>6, <1>7, TableKept, Focus DEF SerialInv
<1>9. Contract!Ask(q)
  BY <1>1, <1>2, TableKept DEF Contract!Ask, SerialInv, HandlerOK, Asked
<1>10. QED
  BY <1>8, <1>9 DEF Serves, Contract!ContractNext

\* A statement that neither answers nor changes a row is not seen from outside.
LEMMA QuietServes ==
  ASSUME TypeOK, SerialInv, NEW q \in Requests, pc[q] \notin {"idle", "done"},
         UNCHANGED <<mem, call, outcome>>, \A p \in Requests \ {q} : pc'[p] = pc[p], HandlerOK(q)'
  PROVE  SerialInv' /\ Serves
BY OnlyOne, TableKept, Focus DEF Serves, SerialInv

\* get_memory_by_external_id, find_similar_auto_memory and the admin's session.get.
LEMMA LookupServes ==
  ASSUME ConstantsOK, IInv, SerialInv, NEW q \in Requests,
         LookupHit(q) \/ LookupMiss(q) \/ MatchSimilar(q) \/ NoSimilar(q) \/ GetRow(q)
  PROVE  SerialInv' /\ Serves
<1>1. /\ pc[q] \in {"lookup", "similar", "get"} /\ UNCHANGED <<mem, call, outcome>>
      /\ pc'[q] \in {"similar", "insert", "flush", "readatts", "editatts"}
      /\ \A p \in Requests \ {q} : pc'[p] = pc[p]
  BY DEF LookupHit, LookupMiss, MatchSimilar, NoSimilar, GetRow, Goto, IInv, TypeOK
<1>2. HandlerOK(q) /\ call[q] \in Call
  BY <1>1, InService DEF SerialInv
<1>3. \A c : Missing(c)' <=> Missing(c)
  BY <1>1 DEF Missing, Live
<1>4. CASE LookupMiss(q)
  <2>1. /\ Missing(call[q]) /\ call[q].op = "write"
        /\ pc'[q] = IF Deduplicates(call[q]) THEN "similar" ELSE "insert"
    BY <1>4 DEF LookupMiss, Missing, IInv, TypeOK
  <2>2. HandlerOK(q)'
    BY <1>1, <1>3, <2>1 DEF HandlerOK, Asked, StillMissing, RightRow, UpdateInHand, AtWork, Deduplicates
  <2>3. QED
    BY <1>1, <2>2, QuietServes DEF IInv
<1>5. CASE NoSimilar(q)
  <2>1. /\ pc[q] = "similar" /\ pc'[q] = "insert" /\ Missing(call[q]) /\ call[q].op = "write"
        /\ \A r \in Rows : Live(r) => ~Similar(call[q], mem[r])
    BY <1>2, <1>5 DEF NoSimilar, Goto, HandlerOK, Asked, StillMissing, IInv, TypeOK
  <2>2. HandlerOK(q)'
    BY <1>1, <1>3, <2>1 DEF HandlerOK, Asked, StillMissing, RightRow, UpdateInHand, AtWork,
       Deduplicates, Live, Similar
  <2>3. QED
    BY <1>1, <2>2, QuietServes DEF IInv
<1>6. CASE LookupHit(q) \/ MatchSimilar(q) \/ GetRow(q)
  <2>1. \E r \in Rows :
          /\ target'[q] = r /\ snap'[q] = mem[r]
          /\ call[q].op # "edit" => Live(r)
          /\ call[q].op = "delete" => mem[r].ext = call[q].ext
          /\ call[q].op = "write" /\ mem[r].ext # call[q].ext =>
               Missing(call[q]) /\ call[q].auto /\ Similar(call[q], mem[r])
          /\ pc'[q] = "readatts" => call[q].op = "delete"
          /\ pc'[q] = "editatts" => call[q].op = "edit"
          /\ pc'[q] \in {"flush", "readatts", "editatts"}
    <3>1. CASE LookupHit(q)
      BY <1>2, <3>1 DEF LookupHit, Load, IInv, TypeOK, HandlerOK, Asked
    <3>2. CASE MatchSimilar(q)
      <4>1. pc[q] = "similar" /\ Missing(call[q]) /\ call[q].op = "write" /\ call[q].auto
        BY <1>2, <3>2 DEF MatchSimilar, Goto, HandlerOK, Asked, StillMissing, Deduplicates
      <4>2. PICK r \in Rows : Live(r) /\ Similar(call[q], mem[r]) /\ target'[q] = r /\ snap'[q] = mem[r]
        BY <3>2 DEF MatchSimilar, Load, IInv, TypeOK
      <4>3. pc'[q] = "flush"
        BY <3>2 DEF MatchSimilar, Goto, IInv, TypeOK
      <4>4. QED
        BY <4>1, <4>2, <4>3
    <3>3. CASE GetRow(q)
      <4>1. call[q].op \in {"edit", "remove"} /\ call[q].row \in Rows
        BY <1>2, <3>3 DEF GetRow, HandlerOK, Asked, Call
      <4>2. QED
        BY <3>3, <4>1 DEF GetRow, Load, IInv, TypeOK
    <3>4. QED
      BY <1>6, <3>1, <3>2, <3>3
  <2>2. /\ pc'[q] \in {"flush", "readatts", "editatts"} /\ call[q].op \in {"write", "delete", "edit", "remove"}
        /\ pc'[q] = "readatts" => call[q].op = "delete"
        /\ pc'[q] = "editatts" => call[q].op = "edit"
    BY <1>2, <2>1 DEF Call
  <2>3. RightRow(q)'
    <3>1. PICK r \in Rows :
            /\ target'[q] = r /\ snap'[q] = mem[r]
            /\ call[q].op # "edit" => Live(r)
            /\ call[q].op = "delete" => mem[r].ext = call[q].ext
            /\ call[q].op = "write" /\ mem[r].ext # call[q].ext =>
                 Missing(call[q]) /\ call[q].auto /\ Similar(call[q], mem[r])
      BY <2>1
    <3>2. mem' = mem /\ call' = call /\ (Live(r)' <=> Live(r)) /\ (Missing(call[q])' <=> Missing(call[q]))
      BY <1>1, <1>3 DEF Live
    <3>3. QED
      BY <3>1, <3>2 DEF RightRow, Live, Missing, Similar
  <2>4. HandlerOK(q)'
    BY <1>1, <2>2, <2>3 DEF HandlerOK, Asked, StillMissing, UpdateInHand
  <2>5. QED
    BY <1>1, <2>4, QuietServes DEF IInv
<1>7. QED
  BY <1>4, <1>5, <1>6

\* The INSERT waits for its commit: nothing is seen of it.
LEMMA InsertServes ==
  ASSUME ConstantsOK, IInv, SerialInv, NEW q \in Requests, Insert(q)
  PROVE  SerialInv' /\ Serves
<1>1. /\ pc[q] = "insert" /\ pc'[q] = "inserted" /\ work'[q] = NewRow(q)
      /\ UNCHANGED <<mem, call, outcome>> /\ \A p \in Requests \ {q} : pc'[p] = pc[p]
  BY DEF Insert, Goto, IInv, TypeOK
<1>2. NewRow(q)' = NewRow(q) /\ (Missing(call[q])' <=> Missing(call[q]))
  BY <1>1 DEF NewRow, NewGroups, TextOf, Missing, Live
<1>3. call[q].op = "write" /\ Missing(call[q])
      /\ (Deduplicates(call[q]) => \A r \in Rows : Live(r) => ~Similar(call[q], mem[r]))
  BY <1>1 DEF SerialInv, HandlerOK, Asked, StillMissing
<1>4. HandlerOK(q)'
  BY <1>1, <1>2, <1>3 DEF HandlerOK, Asked, StillMissing, RightRow, UpdateInHand, AtWork,
     Deduplicates, Live, Similar
<1>5. QED
  BY <1>1, <1>4, QuietServes DEF IInv

\* The first flush of an update sets what the payload says: the session's copy is the row.
LEMMA FlushServes ==
  ASSUME ConstantsOK, IInv, SerialInv, NEW q \in Requests, FlushUpdate(q)
  PROVE  SerialInv' /\ Serves
<1> DEFINE r == target[q]
<1>1. /\ pc[q] = "flush" /\ pc'[q] = "flushed" /\ call[q].op = "write"
      /\ UNCHANGED <<mem, call, outcome, target, snap>> /\ \A p \in Requests \ {q} : pc'[p] = pc[p]
  BY DEF FlushUpdate, IInv, TypeOK
<1>2. snap[q] = mem[r] /\ RightRow(q) /\ mem[r] \in Row
  BY <1>1, InService DEF SerialInv, HandlerOK, RightRow, AtWork
<1>3. work'[q] = [mem[r] EXCEPT !.title = Written(call[q].title, snap[q].title, @),
                                !.content = Written(call[q].content, snap[q].content, @),
                                !.by = q]
  BY DEF FlushUpdate, IInv, TypeOK
<1>4. /\ work'[q].title = call[q].title /\ work'[q].content = call[q].content
      /\ work'[q].text = mem[r].text
  BY <1>2, <1>3 DEF Written, Row
<1>5. RightRow(q)'
  BY <1>1, <1>2 DEF RightRow, AtWork, Live, Missing, Similar
<1>6. HandlerOK(q)'
  BY <1>1, <1>4, <1>5 DEF HandlerOK, Asked, StillMissing, UpdateInHand
<1>7. QED
  BY <1>1, <1>6, QuietServes DEF IInv

\* The images are those the copy has already.
LEMMA ReadServes ==
  ASSUME ConstantsOK, IInv, SerialInv, NEW q \in Requests, ReadAttachments(q)
  PROVE  SerialInv' /\ Serves
<1>1. /\ pc[q] \in {"flushed", "readatts"} /\ pc'[q] = IF pc[q] = "flushed" THEN "finish" ELSE "flush"
      /\ snap'[q] = [snap[q] EXCEPT !.atts = mem[target[q]].atts]
      /\ UNCHANGED <<mem, work, call, outcome, target>> /\ \A p \in Requests \ {q} : pc'[p] = pc[p]
  BY DEF ReadAttachments, IInv, TypeOK
<1>2. snap[q] = mem[target[q]] /\ HandlerOK(q) /\ mem[target[q]] \in Row
  BY <1>1, InService DEF SerialInv, HandlerOK, RightRow, AtWork
<1>3. snap'[q] = mem[target[q]]
  BY <1>1, <1>2 DEF Row
<1>4. RightRow(q)'
  BY <1>1, <1>2, <1>3 DEF HandlerOK, RightRow, AtWork, Live, Missing, Similar
<1>5. UpdateInHand(q)'
  BY <1>1, <1>2 DEF HandlerOK, UpdateInHand
<1>6. HandlerOK(q)'
  BY <1>1, <1>2, <1>4, <1>5 DEF HandlerOK, Asked, StillMissing
<1>7. QED
  BY <1>1, <1>6, QuietServes DEF IInv

\* selectinload finds the images the copy has already, or cannot read them.
LEMMA LoadServes ==
  ASSUME ConstantsOK, IInv, SerialInv, NEW q \in Requests, LoadAttachments(q)
  PROVE  SerialInv' /\ Serves
<1>1. pc[q] = "editatts" /\ UNCHANGED mem
  BY DEF LoadAttachments
<1>2. CASE Answer(q, "crashed")
  <2>1. outcome' = [outcome EXCEPT ![q] = "crashed"] /\ UNCHANGED call
    BY <1>2 DEF Answer
  <2>2. Serves
    BY <1>1, <2>1, Refused
  <2>3. SerialInv'
    BY <1>1, <1>2, TableKept, AnswerSerial DEF IInv, SerialInv
  <2>4. QED
    BY <2>2, <2>3
<1>3. CASE ~Answer(q, "crashed")
  <2>1. /\ pc'[q] = "flush" /\ snap'[q] = [snap[q] EXCEPT !.atts = mem[target[q]].atts]
        /\ UNCHANGED <<mem, work, call, outcome, target>> /\ \A p \in Requests \ {q} : pc'[p] = pc[p]
    BY <1>3 DEF LoadAttachments, IInv, TypeOK
  <2>2. snap[q] = mem[target[q]] /\ HandlerOK(q) /\ mem[target[q]] \in Row
    BY <1>1, InService DEF SerialInv, HandlerOK, RightRow, AtWork
  <2>3. snap'[q] = mem[target[q]]
    BY <2>1, <2>2 DEF Row
  <2>4. RightRow(q)'
    BY <1>1, <2>1, <2>2, <2>3 DEF HandlerOK, RightRow, AtWork, Live, Missing, Similar
  <2>5. HandlerOK(q)'
    BY <2>1, <2>4 DEF HandlerOK, Asked, StillMissing, UpdateInHand
  <2>6. QED
    BY <1>1, <2>1, <2>5, QuietServes DEF IInv
<1>4. QED
  BY <1>2, <1>3

\* The update that cannot read the images has answered, though its session is still open.
LEMMA CrashServes ==
  ASSUME ConstantsOK, IInv, SerialInv, NEW q \in Requests, CrashUpdate(q)
  PROVE  SerialInv' /\ Serves
<1>1. /\ pc[q] = "finish" /\ pc'[q] = "closing" /\ UNCHANGED <<mem, call>>
      /\ outcome' = [outcome EXCEPT ![q] = "crashed"]
      /\ \A p \in Requests \ {q} : pc'[p] = pc[p]
  BY DEF CrashUpdate, IInv, TypeOK
<1>2. call[q].op = "write"
  BY <1>1 DEF SerialInv, HandlerOK, Asked
<1>3. HandlerOK(q)'
  BY <1>1, <1>2 DEF HandlerOK, Asked, StillMissing, RightRow, UpdateInHand, AtWork
<1>4. SerialInv'
  BY <1>1, <1>3, OnlyOne, TableKept, Focus DEF SerialInv
<1>5. Serves
  BY <1>1, Refused
<1>6. QED
  BY <1>4, <1>5

\* The answer of a handler that stops without having changed a row.
LEMMA StopServes ==
  ASSUME ConstantsOK, IInv, SerialInv, NEW q \in Requests,
         RejectAttachments(q) \/ GetUnknown(q) \/ Close(q) \/ Fail(q)
  PROVE  SerialInv' /\ Serves
<1>1. /\ pc[q] \notin {"idle", "done"} /\ UNCHANGED mem
      /\ \E result \in {"rejected", "unknown", "crashed", "failed"} :
           Answer(q, result) /\ (pc[q] = "closing" => result = outcome[q])
  BY DEF RejectAttachments, GetUnknown, Close, Fail, Active, IInv, InHand
<1>2. PICK result \in {"rejected", "unknown", "crashed", "failed"} :
             Answer(q, result) /\ (pc[q] = "closing" => result = outcome[q])
  BY <1>1
<1>3. SerialInv'
  BY <1>1, <1>2, TableKept, AnswerSerial DEF IInv, SerialInv
<1>4. CASE pc[q] = "closing"
  <2>1. UNCHANGED <<mem, call, outcome>>
    BY <1>1, <1>2, <1>4 DEF Answer, IInv, TypeOK
  <2>2. QED
    BY <2>1, <1>3, TableKept DEF Serves
<1>5. CASE pc[q] # "closing"
  <2>1. outcome' = [outcome EXCEPT ![q] = result] /\ UNCHANGED <<mem, call>>
    BY <1>1, <1>2 DEF Answer
  <2>2. QED
    BY <1>1, <1>3, <1>5, <2>1, Refused
<1>6. QED
  BY <1>4, <1>5

\* Nothing there to delete, or not any more.
LEMMA NothingServes ==
  ASSUME ConstantsOK, IInv, SerialInv, NEW q \in Requests, DeleteNothing(q) \/ AlreadyRemoved(q)
  PROVE  SerialInv' /\ Serves
<1>1. pc[q] \in {"lookup", "get"} /\ UNCHANGED mem
  BY DEF DeleteNothing, AlreadyRemoved
<1>2. Documents' = Documents /\ LiveCoherent'
  BY <1>1, TableKept DEF SerialInv
<1>3. call[q] \in Call /\ call[q].ext \in ExtIds
  BY <1>1, InService
<1>4. CASE DeleteNothing(q)
  <2>1. Missing(call[q]) /\ call[q].op = "delete" /\ Answer(q, "absent")
    BY <1>4 DEF DeleteNothing, Missing
  <2>2. Contract!Reply(q, "delete", "absent")
    BY <1>1, <2>1, Replied DEF Answer
  <2>3. Documents[call[q].ext] = None
    BY <1>3, <2>1, AtMissing
  <2>4. Contract!NothingToDelete(q)
    BY <1>2, <2>2, <2>3 DEF Contract!NothingToDelete
  <2>5. Serves
    BY <2>4 DEF Serves, Contract!ContractNext
  <2>6. SerialInv'
    BY <1>1, <1>2, <2>1, AnswerSerial DEF IInv
  <2>7. QED
    BY <2>5, <2>6
<1>5. CASE AlreadyRemoved(q)
  <2>1. call[q].op = "remove" /\ Answer(q, "removed")
    BY <1>5 DEF AlreadyRemoved
  <2>2. Contract!Reply(q, "remove", "removed")
    BY <1>1, <2>1, Replied DEF Answer
  <2>3. Contract!Remove(q)
    BY <1>2, <2>2 DEF Contract!Remove
  <2>4. Serves
    BY <2>3 DEF Serves, Contract!ContractNext
  <2>5. SerialInv'
    BY <1>1, <1>2, <2>1, AnswerSerial DEF IInv
  <2>6. QED
    BY <2>4, <2>5
<1>6. QED
  BY <1>4, <1>5

\* Nobody takes the key of a memory that is about to be inserted.
LEMMA NoConflict ==
  ASSUME SerialInv, NEW q \in Requests
  PROVE  ~InsertConflict(q)
BY DEF InsertConflict, SerialInv, HandlerOK, StillMissing, Missing

-----------------------------------------------------------------------------
(* The commits *)

\* A commit that leaves a live row coherent keeps all of them coherent.
LEMMA CoherentKept ==
  ASSUME ConstantsOK, TypeOK, LiveCoherent, NEW r \in Rows, NEW row \in Row,
         mem' = [mem EXCEPT ![r] = row], row.gone = "no" => row.text = TextOf(row, row.atts)
  PROVE  LiveCoherent'
<1> SUFFICES ASSUME NEW s \in Rows, Live(s)' PROVE (mem[s].text = TextOf(mem[s], mem[s].atts))'
  BY DEF LiveCoherent
<1>1. mem'[s] = IF s = r THEN row ELSE mem[s]
  BY DEF TypeOK
<1>2. CASE s = r
  BY <1>1, <1>2 DEF Live, TextOf
<1>3. CASE s # r
  BY <1>1, <1>3 DEF Live, LiveCoherent, TextOf
<1>4. QED
  BY <1>2, <1>3

\* A row that takes over the payload, with search words to match, is a document replaced.
LEMMA Rewritten ==
  ASSUME ConstantsOK, TypeOK, UniqueLive, UniqueLive', LiveCoherent, NEW q \in Requests,
         NEW r \in Rows, NEW row \in Row, mem' = [mem EXCEPT ![r] = row], row.gone = "no",
         Live(r) => mem[r].ext = row.ext,
         row.title = call[q].title, row.content = call[q].content,
         row.text = TextOf(call[q], row.atts)
  PROVE  LiveCoherent' /\ Contract!Rewrite(row.ext, call[q], row.atts)
<1>1. row.text = TextOf(row, row.atts)
  BY DEF TextOf
<1>2. Document(row) = Contract!Document(call[q].title, call[q].content, row.atts)
  BY <1>1 DEF Document, Contract!Document, TextOf
<1>3. Documents' = [Documents EXCEPT ![row.ext] = Document(row)]
  BY StoreWritten
<1>4. LiveCoherent'
  BY <1>1, CoherentKept
<1>5. QED
  BY <1>2, <1>3, <1>4 DEF Contract!Rewrite

\* A memory created is the document nobody had.
LEMMA CommitInsertServes ==
  ASSUME ConstantsOK, IInv, IInv', SerialInv, NEW q \in Requests, CommitInsert(q)
  PROVE  SerialInv' /\ Serves
<1> DEFINE c == call[q]
<1>1. pc[q] = "inserted" /\ Answer(q, "created") /\ mem' = [mem EXCEPT ![q] = work[q]]
  BY DEF CommitInsert
<1>2. c \in Call /\ c.ext \in ExtIds /\ q \in Rows
  BY <1>1, InService, Constants
<1>3. /\ work[q] = NewRow(q) /\ Missing(c) /\ c.op = "write"
      /\ Deduplicates(c) => \A r \in Rows : Live(r) => ~Similar(c, mem[r])
  BY <1>1 DEF SerialInv, HandlerOK, Asked, StillMissing
<1>4. NewRow(q) \in Row
  BY <1>2, NewRowType
<1>5. ~Live(q)
  BY <1>1 DEF Live, IInv, OnlyCommitted, Committed
<1>6. LiveCoherent' /\ Contract!Rewrite(c.ext, c, NewGroups(q))
  BY <1>1, <1>2, <1>3, <1>4, <1>5, Rewritten DEF NewRow, IInv, SerialInv
<1>7. (IF c.atts = "keep" THEN {} ELSE ImagesOf(q, c)) = NewGroups(q)
  BY DEF ImagesOf, NewGroups
<1>8. Documents[c.ext] = None
  BY <1>2, <1>3, AtMissing
<1>9. ASSUME NEW e \in ExtIds, c.auto, c.atts \in {"keep", "clear"}, Documents[e] # None
      PROVE  ~Similar(c, Documents[e])
  <2>1. PICK r \in Rows : Live(r) /\ Documents[e] = Document(mem[r])
    BY <1>9, AtDocument DEF IInv
  <2>2. ~Similar(c, mem[r])
    BY <1>3, <1>9, <2>1 DEF Deduplicates
  <2>3. QED
    BY <2>1, <2>2 DEF Similar, Document
<1>10. Contract!Reply(q, "write", "created")
  BY <1>1, <1>3, Replied DEF Answer
<1>11. Contract!Create(q)
  BY <1>6, <1>7, <1>8, <1>9, <1>10 DEF Contract!Create
<1>12. SerialInv'
  BY <1>1, <1>6, AnswerSerial DEF IInv
<1>13. QED
  BY <1>11, <1>12 DEF Serves, Contract!ContractNext

\* An update replaces the document it found, under its own name or, for an automatic memory
\* nobody has, under that of the similar one.
LEMMA FinishUpdateServes ==
  ASSUME ConstantsOK, IInv, IInv', SerialInv, NEW q \in Requests, FinishUpdate(q)
  PROVE  SerialInv' /\ Serves
<1> DEFINE c == call[q]
           r == target[q]
           row == mem'[r]
           keep == c.atts = "keep"
           atts == IF keep THEN mem[r].atts ELSE (mem[r].atts \ snap[q].atts) \cup NewGroups(q)
           text == TextOf(c, IF keep THEN snap[q].atts ELSE NewGroups(q))
<1>1. pc[q] = "finish" /\ Answer(q, "updated")
  BY DEF FinishUpdate
<1>2. /\ c \in Call /\ c.ext \in ExtIds /\ r \in Rows /\ mem[r] \in Row
      /\ Asked(q) /\ RightRow(q) /\ UpdateInHand(q)
  BY <1>1, InService DEF SerialInv, HandlerOK, AtWork
<1>3. /\ c.op = "write" /\ snap[q] = mem[r] /\ Live(r)
      /\ mem[r].ext # c.ext => Missing(c) /\ c.auto /\ Similar(c, mem[r])
      /\ work[q].title = c.title /\ work[q].content = c.content /\ work[q].text = mem[r].text
  BY <1>1, <1>2 DEF Asked, RightRow, UpdateInHand, AtWork
<1>4. work[q] \in Row /\ work[q].ext = mem[r].ext /\ work[q].gone = "no"
  BY <1>1, <1>3 DEF IInv, PendingWrites, PendingUpdate, Locking, Live, TypeOK
<1>5. mem' = [mem EXCEPT ![r] = [work[q] EXCEPT !.atts = atts, !.text = Written(text, snap[q].text, @)]]
  BY DEF FinishUpdate
<1>6. row = [work[q] EXCEPT !.atts = atts, !.text = Written(text, snap[q].text, @)]
      /\ mem' = [mem EXCEPT ![r] = row]
  BY <1>2, <1>5 DEF IInv, TypeOK
<1>7. /\ row.ext = mem[r].ext /\ row.gone = "no" /\ row.title = c.title /\ row.content = c.content
      /\ row.atts = atts /\ row.text = Written(text, snap[q].text, work[q].text)
  BY <1>3, <1>4, <1>6 DEF Row
<1>8. atts = IF keep THEN mem[r].atts ELSE NewGroups(q)
  BY <1>3
<1>9. row.text = TextOf(c, row.atts)
  BY <1>3, <1>7, <1>8 DEF Written
<1>10. row \in Row
  <2>1. NewGroups(q) \in SUBSET Group /\ mem[r].atts \in SUBSET Group
    BY <1>2, NewRowType DEF Row
  <2>2. atts \in SUBSET Group
    BY <1>8, <2>1
  <2>3. TextOf(c, atts) \in Text
    BY <1>2, <2>2, NewRowType
  <2>4. Written(text, snap[q].text, work[q].text) \in Text
    BY <1>7, <1>9, <2>3
  <2>5. QED
    BY <1>4, <1>6, <2>2, <2>4 DEF Row
<1>11. LiveCoherent' /\ Contract!Rewrite(mem[r].ext, c, row.atts)
  <2>1. TypeOK /\ UniqueLive /\ UniqueLive' /\ LiveCoherent
    BY DEF IInv, SerialInv
  <2>2. /\ mem' = [mem EXCEPT ![r] = row] /\ row.gone = "no" /\ row.ext = mem[r].ext
        /\ row.title = c.title /\ row.content = c.content
    BY <1>6, <1>7
  <2> HIDE DEF row, atts, text, keep
  <2>3. LiveCoherent' /\ Contract!Rewrite(row.ext, c, row.atts)
    BY <1>2, <1>9, <1>10, <2>1, <2>2, Rewritten
  <2>4. QED
    BY <2>2, <2>3
<1>12. /\ Documents[mem[r].ext] = Document(mem[r]) /\ Documents[mem[r].ext] # None
       /\ mem[r].ext \in ExtIds
  BY <1>2, <1>3, AtLive DEF IInv
<1>13. row.atts = IF keep THEN Documents[mem[r].ext].images ELSE ImagesOf(q, c)
  BY <1>7, <1>8, <1>12 DEF Document, ImagesOf, NewGroups
<1>14. \/ mem[r].ext = c.ext
       \/ Documents[c.ext] = None /\ c.auto /\ Similar(c, Documents[mem[r].ext])
  <2>1. CASE mem[r].ext # c.ext
    <3>1. Documents[c.ext] = None /\ c.auto /\ Similar(c, mem[r])
      BY <1>2, <1>3, <2>1, AtMissing
    <3>2. QED
      BY <1>12, <3>1 DEF Similar, Document
  <2>2. QED
    BY <2>1
<1>15. Contract!Reply(q, "write", "updated")
  BY <1>1, <1>3, Replied DEF Answer
<1>16. Contract!Update(q)
  BY <1>11, <1>12, <1>13, <1>14, <1>15 DEF Contract!Update
<1>17. SerialInv'
  BY <1>1, <1>11, AnswerSerial DEF IInv
<1>18. QED
  BY <1>16, <1>17 DEF Serves, Contract!ContractNext

\* An edit replaces a document too, or touches a deleted row, which is none.
LEMMA CommitEditServes ==
  ASSUME ConstantsOK, IInv, IInv', SerialInv, NEW q \in Requests, CommitEdit(q)
  PROVE  SerialInv' /\ Serves
<1> DEFINE c == call[q]
           r == target[q]
           row == mem'[r]
<1>1. pc[q] = "flush" /\ c.op = "edit" /\ Answer(q, "edited")
  BY DEF CommitEdit
<1>2. c \in Call /\ r \in Rows /\ mem[r] \in Row /\ snap[q] = mem[r]
  BY <1>1, InService DEF SerialInv, HandlerOK, RightRow, AtWork
<1>3. mem' = [mem EXCEPT ![r] = [mem[r] EXCEPT
                   !.title = Written(c.title, snap[q].title, @),
                   !.content = Written(c.content, snap[q].content, @),
                   !.text = Written(TextOf(c, snap[q].atts), snap[q].text, @),
                   !.by = q]]
  BY DEF CommitEdit
<1>4. /\ row = [mem[r] EXCEPT !.title = Written(c.title, snap[q].title, @),
                              !.content = Written(c.content, snap[q].content, @),
                              !.text = Written(TextOf(c, snap[q].atts), snap[q].text, @),
                              !.by = q]
      /\ mem' = [mem EXCEPT ![r] = row]
  BY <1>2, <1>3 DEF IInv, TypeOK
<1>5. /\ row.ext = mem[r].ext /\ row.gone = mem[r].gone /\ row.atts = mem[r].atts
      /\ row.title = c.title /\ row.content = c.content /\ row.text = TextOf(c, mem[r].atts)
  BY <1>2, <1>4 DEF Row, Written
<1>6. row \in Row
  <2>1. TextOf(c, mem[r].atts) \in Text
    BY <1>2, NewRowType DEF Row
  <2>2. /\ Written(TextOf(c, snap[q].atts), snap[q].text, mem[r].text) \in Text
        /\ Written(c.title, snap[q].title, mem[r].title) \in Titles
        /\ Written(c.content, snap[q].content, mem[r].content) \in Contents
    BY <1>2, <2>1 DEF Written, Row, Call
  <2>3. q \in Rows
    BY Constants
  <2>4. QED
    BY <1>2, <1>4, <2>2, <2>3 DEF Row
<1>7. Contract!Reply(q, "edit", "edited")
  BY <1>1, Replied DEF Answer
<1>8. CASE Live(r)
  <2>1. row.gone = "no"
    BY <1>5, <1>8 DEF Live
  <2>2. LiveCoherent' /\ Contract!Rewrite(mem[r].ext, c, row.atts)
    BY <1>2, <1>4, <1>5, <1>6, <2>1, Rewritten DEF IInv, SerialInv
  <2>3. /\ Documents[mem[r].ext] = Document(mem[r]) /\ Documents[mem[r].ext] # None
        /\ mem[r].ext \in ExtIds
    BY <1>2, <1>8, AtLive DEF IInv
  <2>4. row.atts = Documents[mem[r].ext].images
    BY <1>5, <2>3 DEF Document
  <2>5. Contract!Edit(q)
    BY <1>7, <2>2, <2>3, <2>4 DEF Contract!Edit
  <2>6. QED
    BY <1>1, <2>2, <2>5, AnswerSerial DEF IInv, Serves, Contract!ContractNext
<1>9. CASE ~Live(r)
  <2>1. row.gone # "no"
    BY <1>2, <1>5, <1>9, Constants DEF Live
  <2>2. LiveCoherent'
    BY <1>2, <1>4, <1>6, <2>1, CoherentKept DEF IInv, SerialInv
  <2>3. Documents' = Documents
    BY <1>2, <1>4, <1>6, <1>9, <2>1, StoreUntouched DEF IInv
  <2>4. Contract!Edit(q)
    BY <1>7, <2>3 DEF Contract!Edit
  <2>5. QED
    BY <1>1, <2>2, <2>4, AnswerSerial DEF IInv, Serves, Contract!ContractNext
<1>10. QED
  BY <1>8, <1>9

\* Both deletes make the document of their row disappear.
LEMMA CommitDeleteServes ==
  ASSUME ConstantsOK, IInv, IInv', SerialInv, NEW q \in Requests, CommitDelete(q) \/ CommitRemove(q)
  PROVE  SerialInv' /\ Serves
<1> DEFINE c == call[q]
           r == target[q]
           row == mem'[r]
<1>1. pc[q] = "flush" /\ c.op \in {"delete", "remove"}
  BY DEF CommitDelete, CommitRemove
<1>2. /\ c \in Call /\ c.ext \in ExtIds /\ r \in Rows /\ mem[r] \in Row /\ Live(r)
      /\ c.op = "delete" => mem[r].ext = c.ext
  BY <1>1, InService DEF SerialInv, HandlerOK, RightRow, AtWork
<1>3. mem' = [mem EXCEPT ![r] = row] /\ row.gone # "no"
  <2>1. CASE CommitDelete(q)
    <3>1. mem' = [mem EXCEPT ![r] = [mem[r] EXCEPT !.gone = "api", !.atts = @ \ snap[q].atts]]
      BY <1>2, <2>1 DEF CommitDelete, IInv, TypeOK
    <3>2. row = [mem[r] EXCEPT !.gone = "api", !.atts = @ \ snap[q].atts]
      BY <1>2, <3>1 DEF IInv, TypeOK
    <3>3. row.gone = "api"
      BY <1>2, <3>2 DEF Row
    <3>4. QED
      BY <3>1, <3>2, <3>3
  <2>2. CASE CommitRemove(q)
    <3>1. mem' = [mem EXCEPT ![r] = [mem[r] EXCEPT !.gone = IF @ = "api" THEN @ ELSE "admin"]]
      BY <1>2, <2>2 DEF CommitRemove, IInv, TypeOK
    <3>2. row = [mem[r] EXCEPT !.gone = IF @ = "api" THEN @ ELSE "admin"]
      BY <1>2, <3>1 DEF IInv, TypeOK
    <3>3. row.gone \in {"api", "admin"}
      BY <1>2, <3>2 DEF Row
    <3>4. QED
      BY <3>1, <3>2, <3>3
  <2>3. QED
    BY <2>1, <2>2
<1>4. row \in Row
  <2>1. row # None
    BY <1>2, Constants DEF CommitDelete, CommitRemove, IInv, TypeOK, Row
  <2>2. row \in Row \cup {None}
    BY <1>2 DEF IInv, TypeOK
  <2>3. QED
    BY <2>1, <2>2
<1>5. Documents' = [Documents EXCEPT ![mem[r].ext] = None] /\ mem[r].ext \in ExtIds
  BY <1>2, <1>3, <1>4, StoreErased, AtLive DEF IInv
<1>6. LiveCoherent'
  BY <1>2, <1>3, <1>4, CoherentKept DEF IInv, SerialInv
<1>7. CASE CommitDelete(q)
  <2>1. c.op = "delete" /\ Answer(q, "deleted")
    BY <1>7 DEF CommitDelete
  <2>2. Contract!Reply(q, "delete", "deleted")
    BY <1>1, <2>1, Replied DEF Answer
  <2>3. Documents[c.ext] # None
    BY <1>2, <2>1, AtLive DEF IInv
  <2>4. Contract!Delete(q)
    BY <1>2, <1>5, <2>1, <2>2, <2>3 DEF Contract!Delete
  <2>5. QED
    BY <1>1, <1>6, <2>1, <2>4, AnswerSerial DEF IInv, Serves, Contract!ContractNext
<1>8. CASE CommitRemove(q)
  <2>1. c.op = "remove" /\ Answer(q, "removed")
    BY <1>8 DEF CommitRemove
  <2>2. Contract!Reply(q, "remove", "removed")
    BY <1>1, <2>1, Replied DEF Answer
  <2>3. Contract!Remove(q)
    BY <1>5, <2>2 DEF Contract!Remove
  <2>4. QED
    BY <1>1, <1>6, <2>1, <2>3, AnswerSerial DEF IInv, Serves, Contract!ContractNext
<1>9. QED
  BY <1>7, <1>8

-----------------------------------------------------------------------------
(* The refinement *)

\* What earlier requests have left are documents of the contract, and nobody is at work.
LEMMA InitSerial == Init => SerialInv /\ Contract!ContractInit
<1> SUFFICES ASSUME Init PROVE SerialInv /\ Contract!ContractInit
  OBVIOUS
<1>1. /\ \A q \in Requests : pc[q] = "idle" /\ call[q] = None
      /\ mem = Stored /\ call = [q \in Requests |-> None] /\ outcome = [q \in Requests |-> "none"]
  BY DEF Init
<1>2. LiveCoherent
  BY <1>1, StoredOK DEF LiveCoherent, Live, Coherent, TextOf
<1>3. OneAtATime
  BY <1>1 DEF OneAtATime, Active
<1>4. ASSUME NEW q \in Requests PROVE HandlerOK(q)
  BY <1>1 DEF HandlerOK, Asked, StillMissing, RightRow, UpdateInHand, AtWork
<1>5. ASSUME NEW e \in ExtIds, Documents[e] # None
      PROVE  Documents[e] = Contract!Document(Documents[e].title, Documents[e].content,
                                              Documents[e].images)
  <2>1. PICK r \in Rows : Live(r) /\ Documents[e] = Document(mem[r])
    BY <1>5, InitInv, AtDocument DEF IInv
  <2>2. mem[r].text = TextOf(mem[r], mem[r].atts)
    BY <1>2, <2>1 DEF LiveCoherent
  <2>3. QED
    BY <2>1, <2>2 DEF Document, Contract!Document, TextOf
<1>6. QED
  BY <1>1, <1>2, <1>3, <1>4, <1>5 DEF SerialInv, Contract!ContractInit

\* Nobody has been refused over the name of a category.
Unnamed == \A q \in Requests : named[q] = 0

\* Without anybody else who makes its category, no request is refused over it.
LEMMA NoName ==
  ASSUME MaxUnlucky = 0, Unnamed, NEW q \in Requests
  PROVE  ~CategoryRefused(q)
<1>1. {p \in Requests \ {q} : named[p] > 0} = {}
  BY DEF Unnamed
<1>2. Cardinality({}) = 0
  BY FS_EmptySet
<1>3. ~(Cardinality({p \in Requests \ {q} : named[p] > 0}) < MaxUnlucky)
  BY <1>1, <1>2
<1>4. QED
  BY <1>3 DEF CategoryRefused

\* So it stays.
LEMMA StaysUnnamed == Spec /\ MaxUnlucky = 0 => []Unnamed
<1> SUFFICES ASSUME MaxUnlucky = 0 PROVE Spec => []Unnamed
  OBVIOUS
<1>1. Init => Unnamed
  BY DEF Init, Unnamed
<1>2. Unnamed /\ [Next]_vars => Unnamed'
  <2> SUFFICES ASSUME Unnamed, [Next]_vars PROVE named' = named
    BY DEF Unnamed
  <2>1. \A q \in Requests : ~CategoryRefused(q)
    BY NoName
  <2>2. QED
    BY <2>1 DEF Next, Progress, AllDone, vars, Begin, Fail, RejectAttachments, LookupHit, LookupMiss,
       MatchSimilar, NoSimilar, Insert, InsertConflict, CommitInsert, FlushUpdate, FinishUpdate,
       CrashUpdate, Close, DeleteNothing, ReadAttachments, CommitDelete, GetUnknown, GetRow,
       AlreadyRemoved, LoadAttachments, CommitEdit, CommitRemove
<1>3. QED
  BY <1>1, <1>2, PTL DEF Spec

\* Every step serves the only request at work the way the contract says.
LEMMA StepServes ==
  ASSUME ConstantsOK, MaxActive = 1, MaxUnlucky = 0, Unnamed, IInv, IInv', SerialInv, [Next]_vars
  PROVE  SerialInv' /\ Serves
<1>1. ASSUME NEW q \in Requests, Begin(q) PROVE SerialInv' /\ Serves
  BY <1>1, BeginServes
<1>2. ASSUME NEW q \in Requests,
             LookupHit(q) \/ LookupMiss(q) \/ MatchSimilar(q) \/ NoSimilar(q) \/ GetRow(q)
      PROVE  SerialInv' /\ Serves
  BY <1>2, LookupServes
<1>3. ASSUME NEW q \in Requests,
             Insert(q) \/ FlushUpdate(q) \/ ReadAttachments(q) \/ LoadAttachments(q) \/ CrashUpdate(q)
      PROVE  SerialInv' /\ Serves
  BY <1>3, InsertServes, FlushServes, ReadServes, LoadServes, CrashServes
<1>4. ASSUME NEW q \in Requests,
             \/ RejectAttachments(q) \/ GetUnknown(q) \/ Close(q) \/ Fail(q)
             \/ DeleteNothing(q) \/ AlreadyRemoved(q)
      PROVE  SerialInv' /\ Serves
  BY <1>4, StopServes, NothingServes
<1>5. ASSUME NEW q \in Requests,
             \/ CommitInsert(q) \/ FinishUpdate(q) \/ CommitEdit(q)
             \/ CommitDelete(q) \/ CommitRemove(q)
      PROVE  SerialInv' /\ Serves
  BY <1>5, CommitInsertServes, FinishUpdateServes, CommitEditServes, CommitDeleteServes
<1>6. ASSUME NEW q \in Requests PROVE ~InsertConflict(q) /\ ~CategoryRefused(q)
  BY NoConflict, NoName
<1>7. CASE UNCHANGED vars
  <2>1. UNCHANGED <<mem, pc, call, outcome, target, snap, work>>
    BY <1>7 DEF vars
  <2>2. Documents' = Documents /\ LiveCoherent'
    BY <2>1, TableKept DEF SerialInv
  <2>3. OneAtATime'
    BY <2>1 DEF SerialInv, OneAtATime, Active
  <2>4. ASSUME NEW q \in Requests PROVE HandlerOK(q)'
    <3>1. HandlerOK(q)
      BY DEF SerialInv
    <3>2. /\ Asked(q)' <=> Asked(q)
          /\ StillMissing(q)' <=> StillMissing(q)
      BY <2>1 DEF Asked, StillMissing, Missing, Live, Deduplicates, Similar, NewRow, NewGroups, TextOf
    <3>3. /\ RightRow(q)' <=> RightRow(q)
          /\ UpdateInHand(q)' <=> UpdateInHand(q)
      BY <2>1 DEF RightRow, UpdateInHand, Missing, Live, Similar
    <3>4. QED
      BY <3>1, <3>2, <3>3 DEF HandlerOK
  <2>5. QED
    BY <2>1, <2>2, <2>3, <2>4 DEF SerialInv, Serves
<1>8. QED
  BY <1>1, <1>2, <1>3, <1>4, <1>5, <1>6, <1>7 DEF Next, Progress, AllDone

\* Requests sent one at a time, in categories nobody else makes meanwhile, find every row as
\* their session has read it, and no insert is ever refused.
THEOREM SerialInvariant == Spec /\ MaxActive = 1 /\ MaxUnlucky = 0 => []SerialInv
<1> SUFFICES ASSUME MaxActive = 1, MaxUnlucky = 0 PROVE Spec => []SerialInv
  OBVIOUS
<1>1. Init => SerialInv
  BY InitSerial
<1>2. Unnamed /\ IInv /\ IInv' /\ SerialInv /\ [Next]_vars => SerialInv'
  BY StepServes, ConstantsOK
<1>3. Spec => []Unnamed
  BY StaysUnnamed
<1>4. QED
  BY <1>1, <1>2, <1>3, Invariant, PTL DEF Spec

\* Sent one at a time, in categories nobody else makes meanwhile, requests do what the contract
\* says of them, whatever the table holds,
\* whatever they ask for and however many they are.
THEOREM SerialRefinement == Spec /\ MaxActive = 1 /\ MaxUnlucky = 0 => ImplementsContract
<1> SUFFICES ASSUME MaxActive = 1, MaxUnlucky = 0 PROVE Spec => ImplementsContract
  OBVIOUS
<1>1. Init => Contract!ContractInit
  BY InitSerial
<1>2. Unnamed /\ IInv /\ IInv' /\ SerialInv /\ [Next]_vars =>
        [Contract!ContractNext]_(Contract!contractVars)
  BY StepServes, ConstantsOK DEF Serves, Contract!contractVars
<1>3. Spec => []SerialInv /\ []Unnamed
  BY SerialInvariant, StaysUnnamed
<1>4. QED
  BY <1>1, <1>2, <1>3, Invariant, PTL DEF Spec, ImplementsContract, Contract!ContractSpec

-----------------------------------------------------------------------------
(* Why every request is answered, but for the fairness. *)

\* Who holds a lock has inserted its row or is updating it, and waits at most for the loop.
LEMMA HoldersWaitForLoop ==
  ASSUME IInv, NEW r \in Rows, NEW p \in Requests, lock[r] = p
  PROVE  pc[p] \in {"inserted", "flushed", "finish", "closing"}
<1>1. lock[r] # None
  BY ConstantsOK
<1>2. QED
  BY <1>1 DEF IInv, LocksAreHeld, Locking

\* Whoever waits waits, over at most three others, for somebody who does not, unless a write
\* that crashed and a form of the administrator wait for each other.
THEOREM NoCircle == Spec => []ShortQueues
<1>1. IInv /\ HistoryInv => ShortQueues
  <2> SUFFICES ASSUME IInv, HistoryInv, ~LoopIsStuck, NEW q \in Requests, NEW p \in WaitsFor(q),
                      NEW s \in WaitsFor(p), NEW t \in WaitsFor(s)
               PROVE  WaitsFor(t) = {}
    BY DEF ShortQueues
  <2>1. p \in Requests /\ s \in Requests /\ t \in Requests
    BY DEF WaitsFor
  <2>2. ASSUME NEW u \in Requests, NEW v \in WaitsFor(u)
        PROVE  \/ pc[u] \in {"insert", "flush"} /\ \E r \in Rows : lock[r] = v
               \/ pc[u] = "closing" /\ v \in Active /\ call[v].op \in {"edit", "remove"}
    <3>1. pc[u] = "flush" => target[u] \in Rows
      BY DEF IInv, InHand, HasTarget, TypeOK
    <3>2. \/ pc[u] = "insert" /\ \E r \in Rows : lock[r] = v /\ Holds(r, call[u].ext)
          \/ pc[u] = "flush" /\ lock[target[u]] = v
          \/ pc[u] = "closing" /\ v \in Active /\ call[v].op \in {"edit", "remove"}
      BY <2>2 DEF WaitsFor
    <3>3. QED
      BY <3>1, <3>2
  <2>3. ASSUME NEW u \in Requests, NEW v \in Requests, v \in WaitsFor(u), pc[u] # "closing"
        PROVE  pc[v] \in {"inserted", "flushed", "finish", "closing"}
    BY <2>2, <2>3, HoldersWaitForLoop
  <2>4. ASSUME NEW u \in Requests, pc[u] \in {"inserted", "flushed", "finish"}
        PROVE  WaitsFor(u) = {}
    BY <2>4 DEF WaitsFor
  <2>5. ASSUME NEW u \in Requests, NEW v \in Requests, NEW w \in Requests,
               v \in WaitsFor(u), w \in WaitsFor(v), pc[u] = "closing"
        PROVE  WaitsFor(w) = {}
    <3>1. v \in Active /\ call[v].op \in {"edit", "remove"}
      BY <2>2, <2>5
    <3>2. pc[v] = "flush"
      <4>1. InStep(v)
        BY DEF HistoryInv
      <4>2. QED
        BY <2>2, <2>5, <3>1, <4>1 DEF InStep, Asked
    <3>3. lock[target[v]] = w
      BY <2>5, <3>2 DEF WaitsFor
    <3>4. pc[w] # "closing"
      <4>1. pc[w] = "closing" => w \in Active
        BY <2>5 DEF Active
      <4>2. QED
        BY <3>1, <3>2, <3>3, <4>1 DEF LoopIsStuck
    <3>5. QED
      BY <2>3, <2>4, <2>5, <3>2, <3>4
  <2>6. QED
    BY <2>1, <2>3, <2>4, <2>5
<1>2. QED
  BY <1>1, Invariant, History, PTL

\* What a request may still do is a number.
LEMMA AheadType ==
  ASSUME TypeOK, NEW q \in Requests
  PROVE  Ahead[pc[q]] \in 0..8 /\ tries[q] \in 0..1
BY DEF TypeOK, Ahead

\* A step after which a request has less ahead, or the same and a try less, counts.
LEMMA Counts ==
  ASSUME TypeOK, NEW q \in Requests, NEW to \in DOMAIN Ahead, NEW n \in 0..1,
         pc' = [pc EXCEPT ![q] = to], tries' = [tries EXCEPT ![q] = n],
         Ahead[to] + 3 * (1 - n) < StepsLeft(q)
  PROVE  \E r \in Requests : /\ StepsLeft(r)' < StepsLeft(r)
                             /\ \A p \in Requests \ {r} : StepsLeft(p)' = StepsLeft(p)
<1>1. /\ pc'[q] = to /\ tries'[q] = n
      /\ \A p \in Requests \ {q} : pc'[p] = pc[p] /\ tries'[p] = tries[p]
  BY DEF TypeOK
<1>2. StepsLeft(q)' < StepsLeft(q)
  BY <1>1 DEF StepsLeft
<1>3. \A p \in Requests \ {q} : StepsLeft(p)' = StepsLeft(p)
  BY <1>1 DEF StepsLeft
<1>4. QED
  BY <1>2, <1>3

\* A statement that brings the handler on, and counts no retry.
LEMMA MovesOn ==
  ASSUME TypeOK, NEW q \in Requests, NEW to \in DOMAIN Ahead,
         pc' = [pc EXCEPT ![q] = to], UNCHANGED tries, Ahead[to] < Ahead[pc[q]]
  PROVE  \E r \in Requests : /\ StepsLeft(r)' < StepsLeft(r)
                             /\ \A p \in Requests \ {r} : StepsLeft(p)' = StepsLeft(p)
<1>1. /\ tries' = [tries EXCEPT ![q] = tries[q]]
  BY DEF TypeOK
<1>2. Ahead[to] \in 0..8
  BY DEF Ahead
<1>3. tries[q] \in 0..1 /\ Ahead[pc[q]] \in 0..8
  BY AheadType
<1>4. Ahead[to] + 3 * (1 - tries[q]) < StepsLeft(q)
  BY <1>2, <1>3 DEF StepsLeft
<1>5. QED
  BY <1>1, <1>3, <1>4, Counts

\* Whatever the requests and the order of their statements: each of them takes at most eleven
\* steps, the second try of a write among them, and only its own.
THEOREM StepsCount == Spec => EveryStepCounts
<1> DEFINE Counted == \E q \in Requests :
      /\ StepsLeft(q)' < StepsLeft(q)
      /\ \A p \in Requests \ {q} : StepsLeft(p)' = StepsLeft(p)
<1>1. TypeOK /\ [Next]_vars => [Counted]_vars
  <2> SUFFICES ASSUME TypeOK, Next, ~UNCHANGED vars PROVE Counted
    OBVIOUS
  <2> HIDE DEF Counted
  <2>1. ASSUME NEW q \in Requests, NEW to \in DOMAIN Ahead, pc' = [pc EXCEPT ![q] = to],
               UNCHANGED tries, Ahead[to] < Ahead[pc[q]]
        PROVE  Counted
    BY <2>1, MovesOn DEF Counted
  <2>2. ASSUME NEW q \in Requests, NEW result, Answer(q, result), pc[q] # "done" PROVE Counted
    <3>1. "done" \in DOMAIN Ahead /\ Ahead["done"] < Ahead[pc[q]]
      BY <2>2 DEF Ahead, TypeOK
    <3>2. QED
      BY <2>1, <2>2, <3>1 DEF Answer
  <2>3. ASSUME NEW q \in Requests, NEW from \in DOMAIN Ahead, NEW to \in DOMAIN Ahead,
               Goto(q, from, to), UNCHANGED tries, Ahead[to] < Ahead[from]
        PROVE  Counted
    BY <2>1, <2>3 DEF Goto
  <2>4. ASSUME NEW q \in Requests, Begin(q) PROVE Counted
    <3>1. PICK to \in {"lookup", "get"} : pc' = [pc EXCEPT ![q] = to]
      BY <2>4 DEF Begin
    <3>2. to \in DOMAIN Ahead /\ Ahead[to] < Ahead["idle"]
      BY DEF Ahead
    <3>3. QED
      BY <2>1, <2>4, <3>1, <3>2 DEF Begin
  <2>5. ASSUME NEW q \in Requests, Fail(q) PROVE Counted
    BY <2>2, <2>5 DEF Fail, Active
  <2>6. ASSUME NEW q \in Requests,
               \/ RejectAttachments(q) \/ CommitInsert(q) \/ FinishUpdate(q) \/ Close(q)
               \/ DeleteNothing(q) \/ CommitDelete(q) \/ GetUnknown(q) \/ AlreadyRemoved(q)
               \/ CommitEdit(q) \/ CommitRemove(q)
        PROVE  Counted
    BY <2>2, <2>6
       DEF RejectAttachments, CommitInsert, FinishUpdate, Close, DeleteNothing, CommitDelete,
           GetUnknown, AlreadyRemoved, CommitEdit, CommitRemove
  <2>7. ASSUME NEW q \in Requests, MatchSimilar(q) \/ NoSimilar(q) \/ Insert(q) PROVE Counted
    BY <2>3, <2>7 DEF MatchSimilar, NoSimilar, Insert, Ahead
  <2>8. ASSUME NEW q \in Requests,
               LookupHit(q) \/ LookupMiss(q) \/ FlushUpdate(q) \/ CrashUpdate(q)
               \/ ReadAttachments(q) \/ GetRow(q)
        PROVE  Counted
    BY <2>1, <2>8 DEF LookupHit, LookupMiss, FlushUpdate, CrashUpdate, ReadAttachments, GetRow, Ahead
  <2>9. ASSUME NEW q \in Requests, LoadAttachments(q) PROVE Counted
    BY <2>1, <2>2, <2>9 DEF LoadAttachments, Ahead
  <2>10. ASSUME NEW q \in Requests, InsertConflict(q) \/ CategoryRefused(q) PROVE Counted
    <3>1. CASE tries[q] = 0 /\ tries' = [tries EXCEPT ![q] = 1] /\ pc' = [pc EXCEPT ![q] = "lookup"]
      <4>1. /\ "lookup" \in DOMAIN Ahead
            /\ Ahead["lookup"] + 3 * (1 - 1) < Ahead["insert"] + 3 * (1 - 0)
            /\ Ahead["lookup"] + 3 * (1 - 1) < Ahead["lookup"] + 3 * (1 - 0)
        BY DEF Ahead
      <4>2. \/ StepsLeft(q) = Ahead["insert"] + 3 * (1 - 0)
            \/ StepsLeft(q) = Ahead["lookup"] + 3 * (1 - 0)
        BY <2>10, <3>1 DEF InsertConflict, CategoryRefused, StepsLeft
      <4>3. Ahead["lookup"] + 3 * (1 - 1) < StepsLeft(q) /\ 1 \in 0..1
        BY <4>1, <4>2
      <4>4. QED
        BY <3>1, <4>1, <4>3, Counts, Zenon DEF Counted
    <3>2. CASE Answer(q, "conflict")
      BY <2>2, <2>10, <3>2 DEF InsertConflict, CategoryRefused
    <3>3. QED
      BY <2>10, <3>1, <3>2 DEF InsertConflict, CategoryRefused, TryAgain
  <2>11. ~AllDone
    BY DEF AllDone
  <2>12. QED
    BY <2>4, <2>5, <2>6, <2>7, <2>8, <2>9, <2>10, <2>11 DEF Next, Progress
<1>2. QED
  BY <1>1, TypeCorrect, PTL DEF Spec, EveryStepCounts
===============================================================================
