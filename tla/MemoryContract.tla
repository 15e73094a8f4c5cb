---------------------------- MODULE MemoryContract ----------------------------
(***************************************************************************)
(* What the memory API promises a client that waits for each answer: one   *)
(* document per external id, and every request takes effect in one step,   *)
(* the step that answers it.                                               *)
(***************************************************************************)
CONSTANTS Requests, ExtIds, Calls, Images(_, _), Alike(_, _), None

VARIABLES store,  \* store[e]: the document e names, or None
          asked,  \* asked[q]: what request q asked for
          reply   \* reply[q]: how it was answered

contractVars == <<store, asked, reply>>

\* A document is found by its own words and by those of its images.
Document(title, content, images) ==
  [title |-> title, content |-> content, images |-> images,
   words |-> [title |-> title, content |-> content, atts |-> images]]

ContractInit == /\ \A e \in ExtIds : store[e] # None =>
                     store[e] = Document(store[e].title, store[e].content, store[e].images)
                /\ asked = [q \in Requests |-> None]
                /\ reply = [q \in Requests |-> "none"]

Ask(q) == /\ asked[q] = None
          /\ \E c \in Calls : asked' = [asked EXCEPT ![q] = c]
          /\ UNCHANGED <<store, reply>>

Reply(q, op, result) == /\ asked[q] # None /\ asked[q].op = op
                        /\ reply[q] = "none"
                        /\ reply' = [reply EXCEPT ![q] = result]
                        /\ UNCHANGED asked

Rewrite(e, c, images) ==
  store' = [store EXCEPT ![e] = Document(c.title, c.content, images)]

Create(q) == LET c == asked[q]
             IN  /\ Reply(q, "write", "created")
                 /\ store[c.ext] = None
                 /\ \A e \in ExtIds : c.auto /\ c.atts \in {"keep", "clear"} /\ store[e] # None
                      => ~Alike(c, store[e])
                 /\ Rewrite(c.ext, c, IF c.atts = "keep" THEN {} ELSE Images(q, c))

\* An automatic memory nobody has written yet is merged into one like it.
Update(q) == LET c == asked[q]
             IN  /\ Reply(q, "write", "updated")
                 /\ \E e \in ExtIds :
                      /\ store[e] # None
                      /\ \/ e = c.ext
                         \/ store[c.ext] = None /\ c.auto /\ Alike(c, store[e])
                      /\ Rewrite(e, c, IF c.atts = "keep" THEN store[e].images
                                                          ELSE Images(q, c))

Edit(q) == /\ Reply(q, "edit", "edited")
           /\ \/ \E e \in ExtIds : store[e] # None /\ Rewrite(e, asked[q], store[e].images)
              \/ UNCHANGED store

Delete(q) == /\ Reply(q, "delete", "deleted")
             /\ store[asked[q].ext] # None
             /\ store' = [store EXCEPT ![asked[q].ext] = None]

NothingToDelete(q) == /\ Reply(q, "delete", "absent")
                      /\ store[asked[q].ext] = None
                      /\ UNCHANGED store

Remove(q) == /\ Reply(q, "remove", "removed")
             /\ \/ \E e \in ExtIds : store' = [store EXCEPT ![e] = None]
                \/ UNCHANGED store

Refuse(q) == /\ asked[q] # None
             /\ \E result \in {"rejected", "unknown", "crashed", "failed"} :
                  Reply(q, asked[q].op, result)
             /\ UNCHANGED store

ContractNext == \E q \in Requests : \/ Ask(q) \/ Create(q) \/ Update(q) \/ Edit(q)
                                    \/ Delete(q) \/ NothingToDelete(q) \/ Remove(q)
                                    \/ Refuse(q)

ContractSpec == ContractInit /\ [][ContractNext]_contractVars
=============================================================================
