---------------------------- MODULE MemorySerial ----------------------------
(***************************************************************************)
(* The store seen by a client that waits for each answer: the documents it *)
(* has stored, and what the contract says of every request.                *)
(***************************************************************************)
EXTENDS MemoryStore

Document(row) == [title |-> row.title, content |-> row.content, images |-> row.atts,
                  words |-> row.text]

ASSUME NoneIsNoDocument ==
  None \notin [title : Titles, content : Contents, images : SUBSET Group, words : Text]

Documents == [e \in ExtIds |->
  IF \E r \in Rows : Live(r) /\ mem[r].ext = e
  THEN Document(mem[CHOOSE r \in Rows : Live(r) /\ mem[r].ext = e])
  ELSE None]

ImagesOf(q, c) == IF c.atts \in {"bare", "tagged"}
                  THEN {[by |-> q, tagged |-> c.atts = "tagged"]} ELSE {}

Contract == INSTANCE MemoryContract WITH
  store <- Documents, asked <- call, reply <- outcome,
  Images <- ImagesOf, Alike <- Similar

\* Sent one at a time, requests do what the contract says of them: a write
\* (re)places the whole document or merges it into a similar automatic one, a
\* delete removes it, search words follow, an error changes nothing and the
\* unique index never refuses anyone twice.
ImplementsContract == Contract!ContractSpec
-----------------------------------------------------------------------------
(* What one request at a time brings about: the parts of an inductive invariant *)

OneAtATime == \A p, q \in Active : p = q

Missing(c) == \A r \in Rows : Live(r) => mem[r].ext # c.ext

\* A memory to be inserted is still missing, and none that it should be merged into is there.
StillMissing(q) ==
  /\ pc[q] \in {"similar", "insert", "inserted"} => Missing(call[q])
  /\ pc[q] \in {"insert", "inserted"} /\ Deduplicates(call[q]) =>
       \A r \in Rows : Live(r) => ~Similar(call[q], mem[r])
  /\ pc[q] = "similar" => Deduplicates(call[q])
  /\ pc[q] = "inserted" => work[q] = NewRow(q)

AtWork == {"readatts", "editatts", "flush", "flushed", "finish"}

\* What the session holds of its row is what the table holds, and the row is the one that was
\* asked for.
RightRow(q) == pc[q] \in AtWork =>
  /\ snap[q] = mem[target[q]]
  /\ call[q].op # "edit" => Live(target[q])
  /\ call[q].op = "delete" => mem[target[q]].ext = call[q].ext
  /\ call[q].op = "write" /\ mem[target[q]].ext # call[q].ext =>
       Missing(call[q]) /\ call[q].auto /\ Similar(call[q], mem[target[q]])

\* An update has set what the payload says, and nothing else yet.
UpdateInHand(q) == pc[q] \in {"flushed", "finish"} =>
  /\ work[q].title = call[q].title /\ work[q].content = call[q].content
  /\ work[q].text = mem[target[q]].text

HandlerOK(q) == Asked(q) /\ StillMissing(q) /\ RightRow(q) /\ UpdateInHand(q)

\* The search text of a live memory is built from its columns and its images.
LiveCoherent == \A r \in Rows : Live(r) => mem[r].text = TextOf(mem[r], mem[r].atts)

SerialInv == OneAtATime /\ LiveCoherent /\ \A q \in Requests : HandlerOK(q)
=============================================================================
