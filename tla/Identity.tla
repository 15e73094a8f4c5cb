------------------------------- MODULE Identity -------------------------------
(***************************************************************************)
(* Who a request is from and for whom it is.  An API key and its user are  *)
(* looked at once, when the request comes in; then a device, or an agent   *)
(* named directly, is resolved to an agent, which is created if nobody     *)
(* knows it.  The new row belongs to the request's transaction: it waits,  *)
(* uncommitted, while the language model is asked, and goes with whatever  *)
(* rollback or end that transaction meets.  The administrator's forms      *)
(* switch users, agents and devices off and on and revoke keys meanwhile.  *)
(* Agents, devices, keys and categories are entries of unique indexes: who *)
(* inserts one that another transaction has inserted waits for its end.    *)
(* What a write does to the rows of memories is the matter of MemoryStore. *)
(***************************************************************************)
EXTENDS Integers, FiniteSets

CONSTANTS
  Requests, Agents, Devices, Keys, Categories,
  User,      \* the user all of them belong to
  MaxItems,  \* bound: how many memories an extraction finds
  MaxForms,  \* bound: how many forms the administrator sends
  Nobody

Parties == Agents \cup Devices \cup Keys \cup {User}
Entries == Agents \cup Devices \cup Keys \cup Categories
Kinds   == {"write", "extract", "delete", "read"}

ASSUME IdentityOK ==
  /\ MaxItems \in Nat /\ MaxForms \in Nat
  /\ Nobody \notin Requests \cup Parties
  /\ User \notin Entries /\ Agents \cap (Devices \cup Keys \cup Categories) = {}
  /\ Categories \cap (Devices \cup Keys) = {} /\ Devices \cap Keys = {}

VARIABLES
  rows,      \* the entries that are committed and not deleted
  off,       \* the parties that are deactivated or revoked
  bound,     \* bound[d]: the agent device d speaks for
  held,      \* held[e]: the request that has inserted e and not committed
  memories,  \* the memories written: by which request, for which agent
  req,
  dropped,   \* history: dropped[r]: what was switched off since r looked at it
  forms      \* bound

vars == <<rows, off, bound, held, memories, req, dropped, forms>>
base == <<rows, off, bound, forms, dropped>>

Working == {"work", "save", "insert", "commit"}
Writing == Working \ {"work"}
Request == [step : {"idle", "resolve", "create", "done"} \cup Working,
            kind : Kinds, key : Keys \cup {Nobody}, device : Devices \cup {Nobody},
            agent : Agents \cup {Nobody}, category : Categories \cup {Nobody},
            left : 0..(MaxItems + 1), again : BOOLEAN, undone : BOOLEAN,
            status : {0, 200, 401, 403, 422, 500, 503}]

Fresh == [step |-> "idle", kind |-> "read", key |-> Nobody, device |-> Nobody, agent |-> Nobody,
          category |-> Nobody, left |-> 0, again |-> FALSE, undone |-> FALSE, status |-> 0]

Init == /\ rows \in SUBSET Entries
        /\ off = {}
        /\ bound \in [Devices -> (Agents \cap rows) \cup {Nobody}]
        /\ \A d \in Devices : d \in rows <=> bound[d] # Nobody
        /\ held = [e \in Entries |-> Nobody]
        /\ memories = {} /\ forms = 0
        /\ req = [r \in Requests |-> Fresh]
        /\ dropped = [r \in Requests |-> {}]

At(r, step)    == req[r].step = step
Step(r, change) == req' = [req EXCEPT ![r] = change]
HeldBy(r)      == {e \in Entries : held[e] = r}
Released(r)    == [e \in Entries |-> IF held[e] = r THEN Nobody ELSE held[e]]
Asked          == {r \in Requests : req[r].step \notin {"idle", "done"}}

\* A request that has been answered is forgotten, but for its answer.
Answered(q, status) == [Fresh EXCEPT !.step = "done", !.undone = q.undone, !.status = status]

\* The end of a request whose transaction is not committed: its session is closed.
Answer(r, status) ==
  /\ Step(r, Answered(req[r], status))
  /\ held' = Released(r)
  /\ UNCHANGED <<base, memories>>

-----------------------------------------------------------------------------
(* The request comes in and is resolved. *)

\* get_current_user; its commit of last_used_at ends the transaction that looked.
Authenticate(r, kind, k, d, a) ==
  /\ At(r, "idle")
  /\ LET known == k \in rows /\ {k, User} \cap off = {}
     IN  Step(r, [Fresh EXCEPT !.kind = kind, !.key = k, !.device = d, !.agent = a,
                               !.step = IF known THEN "resolve" ELSE "done",
                               !.status = IF known THEN 0 ELSE 401])
  /\ dropped' = [dropped EXCEPT ![r] = {}]
  /\ UNCHANGED <<rows, off, bound, forms, held, memories>>

\* Mutant: only the device itself is looked at, not the agent it is bound to.
ResolveTrusting(r) ==
  LET d == req[r].device
      a == IF d = Nobody THEN req[r].agent ELSE bound[d]
  IN  /\ At(r, "resolve")
      /\ CASE (d # Nobody /\ d \notin rows) \/ a = Nobody       -> Answer(r, 422)
           [] d # Nobody /\ d \in off                           -> Answer(r, 403)
           [] d = Nobody /\ a \in rows \cap off                 -> Answer(r, 403)
           [] OTHER ->
                /\ Step(r, [req[r] EXCEPT !.agent = a,
                                          !.step = IF a \in rows THEN "work" ELSE "create"])
                /\ dropped' = [dropped EXCEPT ![r] = @ \cap (Keys \cup {User})]
                /\ UNCHANGED <<rows, off, bound, forms, held, memories>>

\* resolve_memory_identity up to the INSERT of an agent nobody knows.
Resolve(r) ==
  LET d == req[r].device
      a == IF d = Nobody THEN req[r].agent ELSE bound[d]
  IN  /\ At(r, "resolve")
      /\ CASE (d # Nobody /\ d \notin rows) \/ a = Nobody       -> Answer(r, 422)
           [] d # Nobody /\ d \in off                           -> Answer(r, 403)
           [] a \in rows \cap off                               -> Answer(r, 403)
           [] OTHER ->
                /\ Step(r, [req[r] EXCEPT !.agent = a,
                                          !.step = IF a \in rows THEN "work" ELSE "create"])
                /\ dropped' = [dropped EXCEPT ![r] = @ \cap (Keys \cup {User})]
                /\ UNCHANGED <<rows, off, bound, forms, held, memories>>

\* Mutant: the agent is put together, but never added to the session.
CreateAgentUnadded(r) ==
  /\ At(r, "create")
  /\ Step(r, [req[r] EXCEPT !.step = "work"])
  /\ UNCHANGED <<base, held, memories>>

\* get_or_create_agent: the flush waits for another's INSERT of the same agent; it fails
\* when that one has committed, and nothing in the handlers catches the exception.
CreateAgent(r) ==
  LET a == req[r].agent
  IN  /\ At(r, "create") /\ held[a] = Nobody
      /\ IF a \in rows
         THEN Answer(r, 500)
         ELSE /\ held' = [held EXCEPT ![a] = r]
              /\ Step(r, [req[r] EXCEPT !.step = "work"])
              /\ UNCHANGED <<base, memories>>

-----------------------------------------------------------------------------
(* What it was sent for. *)

\* Mutant: the session of a search stays open.
ReadKeepsSession(r) ==
  /\ At(r, "work") /\ req[r].kind = "read"
  /\ Step(r, Answered(req[r], 200))
  /\ UNCHANGED <<base, held, memories>>

\* /search and /context commit nothing, not even the agent they have created.
Read(r) == At(r, "work") /\ req[r].kind = "read" /\ Answer(r, 200)

\* DELETE commits whether it has found the memory or not.
Delete(r) ==
  /\ At(r, "work") /\ req[r].kind = "delete"
  /\ rows' = rows \cup HeldBy(r)
  /\ held' = Released(r)
  /\ Step(r, Answered(req[r], 200))
  /\ UNCHANGED <<off, bound, forms, dropped, memories>>

\* The model is asked about a write's category or an extraction's transcript; if it finds
\* nothing there, or the transcript was sent before, the answer is a 200 all the same.
ModelAnswers(r) ==
  /\ At(r, "work") /\ req[r].kind \in {"write", "extract"}
  /\ \E n \in IF req[r].kind = "write" THEN {1} ELSE 0..MaxItems :
       IF n = 0 THEN Answer(r, 200)
       ELSE /\ Step(r, [req[r] EXCEPT !.step = "save", !.left = n])
            /\ UNCHANGED <<base, held, memories>>

\* ... in vain: without any category it is a 422, without an extraction a 503.
ModelFails(r) == /\ At(r, "work") /\ req[r].kind \in {"write", "extract"}
                 /\ Answer(r, IF req[r].kind = "write" THEN 422 ELSE 503)

\* upsert_memory looks for its category.
FindCategory(r, c) ==
  /\ At(r, "save")
  /\ req[r].again => c = req[r].category
  /\ Step(r, [req[r] EXCEPT !.category = c, !.step = IF c \in rows THEN "commit" ELSE "insert"])
  /\ UNCHANGED <<base, held, memories>>

\* A rollback takes the agent's row along.  A write goes once through upsert_memory again,
\* an extraction on to its next item.
RollBack(r) ==
  LET q == [req[r] EXCEPT !.undone = @ \/ held[req[r].agent] = r]
  IN  /\ held' = Released(r)
      /\ Step(r, IF q.kind = "write"
                 THEN IF q.again THEN Answered(q, 500)
                                 ELSE [q EXCEPT !.step = "save", !.again = TRUE]
                 ELSE IF q.left = 1 THEN Answered(q, 200)
                                    ELSE [q EXCEPT !.step = "save", !.left = @ - 1])
      /\ UNCHANGED <<base, memories>>

\* Mutant: the new category is not waited for, as if it were no unique index.
InsertCategoryAnyway(r) ==
  /\ At(r, "insert")
  /\ held' = [held EXCEPT ![req[r].category] = r]
  /\ Step(r, [req[r] EXCEPT !.step = "commit"])
  /\ UNCHANGED <<base, memories>>

InsertCategory(r) ==
  LET c == req[r].category
  IN  /\ At(r, "insert") /\ held[c] = Nobody
      /\ IF c \in rows
         THEN RollBack(r)
         ELSE /\ held' = [held EXCEPT ![c] = r]
              /\ Step(r, [req[r] EXCEPT !.step = "commit"])
              /\ UNCHANGED <<base, memories>>

\* An item of an extraction that raises for a reason of its own is skipped.
SkipItem(r) == At(r, "save") /\ req[r].kind = "extract" /\ RollBack(r)

Commit(r) ==
  /\ At(r, "commit")
  /\ memories' = memories \cup {[by |-> r, agent |-> req[r].agent]}
  /\ rows' = rows \cup HeldBy(r)
  /\ held' = Released(r)
  /\ Step(r, IF req[r].left = 1 THEN Answered(req[r], 200)
                                ELSE [req[r] EXCEPT !.step = "save", !.left = @ - 1])
  /\ UNCHANGED <<off, bound, forms, dropped>>

\* A bad attachment, or the connection is lost.
Raise(r) == req[r].step \in {"create"} \cup Working /\ Answer(r, 500)

-----------------------------------------------------------------------------
(* The administrator's forms, one at a time on the event loop. *)

Form == forms < MaxForms /\ forms' = forms + 1 /\ UNCHANGED <<held, memories, req>>

\* The id is generated: nobody has used it before.
CreateAgentForm(a) == /\ a \notin rows /\ \A r \in Asked : req[r].agent # a
                      /\ rows' = rows \cup {a}
                      /\ Form /\ UNCHANGED <<off, bound, dropped>>

CreateKey(k) == /\ k \notin rows /\ rows' = rows \cup {k}
                /\ Form /\ UNCHANGED <<off, bound, dropped>>

\* create_device and update_device: the agent must be there.
BindDevice(d, a) == /\ a \in rows
                    /\ rows' = rows \cup {d} /\ bound' = [bound EXCEPT ![d] = a]
                    /\ Form /\ UNCHANGED <<off, dropped>>

\* toggle_user, toggle_agent, toggle_device.
Toggle(x) ==
  /\ x \in (rows \cup {User}) \ (Keys \cup Categories)
  /\ off' = (off \ {x}) \cup ({x} \ off)
  /\ dropped' = [r \in Requests |-> dropped[r] \cup {y \in {x} \ off : r \in Asked}]
  /\ Form /\ UNCHANGED <<rows, bound>>

\* A revoked key stays revoked.
RevokeKey(k) ==
  /\ k \in rows
  /\ off' = off \cup {k}
  /\ dropped' = [r \in Requests |-> dropped[r] \cup {y \in {k} : r \in Asked}]
  /\ Form /\ UNCHANGED <<rows, bound>>

-----------------------------------------------------------------------------
Work(r) == \/ Resolve(r) \/ CreateAgent(r) \/ Read(r) \/ Delete(r)
           \/ ModelAnswers(r) \/ ModelFails(r)
           \/ \E c \in Categories : FindCategory(r, c)
           \/ InsertCategory(r) \/ SkipItem(r) \/ Commit(r)

\* The session may end; the forms may always stop coming.
Terminating == Requests = {r \in Requests : At(r, "done")} /\ UNCHANGED vars

Next == \/ \E r \in Requests :
             \/ \E kind \in Kinds, k \in Keys, d \in Devices \cup {Nobody}, a \in Agents \cup {Nobody} :
                  (d = Nobody \/ a = Nobody) /\ Authenticate(r, kind, k, d, a)
             \/ Work(r) \/ Raise(r)
        \/ \E a \in Agents : CreateAgentForm(a) \/ \E d \in Devices : BindDevice(d, a)
        \/ \E k \in Keys : CreateKey(k) \/ RevokeKey(k)
        \/ \E x \in Parties : Toggle(x)
        \/ Terminating

\* A handler runs on by itself once its request has come in.
Spec == Init /\ [][Next]_vars /\ \A r \in Requests : WF_vars(Work(r))

-----------------------------------------------------------------------------
\* The state has its type, and an index entry that is inserted is not committed yet.
TypeOK ==
  /\ rows \subseteq Entries /\ off \subseteq Parties /\ forms \in 0..MaxForms
  /\ bound \in [Devices -> Agents \cup {Nobody}]
  /\ held \in [Entries -> Requests \cup {Nobody}] /\ \A e \in rows : held[e] = Nobody
  /\ memories \subseteq [by : Requests, agent : Agents]
  /\ dropped \in [Requests -> SUBSET Parties]
  /\ req \in [Requests -> Request]

\* A memory is left without a row of its agent only by a request that created that row and
\* then rolled it back: write_memory's retry, or an extraction after an item it skipped.
AgentUnlessUndone == \A m \in memories : m.agent \in rows \/ req[m.by].undone

\* A memory is written for someone who is deactivated, or with a key that is revoked, only
\* when that happened after the one look at them: at user and key when the request is let in,
\* at device and agent when it is resolved.
OnlyWhileOn ==
  [][\A m \in memories' \ memories :
       {User, req[m.by].key, req[m.by].device, m.agent} \cap off \subseteq dropped[m.by]]_vars

\* Requests that wait for one another's agents and categories all get an answer.
EveryoneAnswered == \A r \in Requests : r \in Asked ~> At(r, "done")

-----------------------------------------------------------------------------
(* Why everyone is answered, but for the fairness. *)

\* Whose INSERT a request's own INSERT waits for.
WaitsFor(r) == {p \in Requests : \/ At(r, "create") /\ held[req[r].agent] = p
                                 \/ At(r, "insert") /\ held[req[r].category] = p}

\* Nobody waits in a circle: an agent is inserted before a category, and a request that
\* has inserted a category has nothing left to wait for.
ShortQueues == \A r \in Requests : \A p \in WaitsFor(r) : \A q \in WaitsFor(p) : WaitsFor(q) = {}

\* How often a request may still look for its category, and how many steps it may take.
Rounds(q) == q.left + IF q.again THEN 0 ELSE 1
StepsLeft(q) ==
  CASE q.step = "done"    -> 0
    [] q.step = "commit"  -> 3 * Rounds(q) - 2
    [] q.step = "insert"  -> 3 * Rounds(q) - 1
    [] q.step = "save"    -> 3 * Rounds(q)
    [] q.step = "work"    -> 3 * (MaxItems + 2) + 1
    [] q.step = "create"  -> 3 * (MaxItems + 2) + 2
    [] q.step = "resolve" -> 3 * (MaxItems + 2) + 3
    [] q.step = "idle"    -> 3 * (MaxItems + 2) + 4

\* Rollbacks and skipped items never make a request go round for ever: each of its steps
\* brings it nearer to its answer, and no step of anybody else takes it back.
EveryStepCounts ==
  [][\/ \E r \in Requests : /\ StepsLeft(req'[r]) \in Nat /\ StepsLeft(req'[r]) < StepsLeft(req[r])
                            /\ \A p \in Requests \ {r} : req'[p] = req[p]
     \/ req' = req /\ forms' = forms + 1 /\ forms' <= MaxForms]_vars

-----------------------------------------------------------------------------
(* What makes these inductive. *)

\* A request past a step knows what that step has found out.
InHand == \A r \in Requests :
  /\ req[r].step \in {"create"} \cup Working => req[r].agent \in Agents
  /\ req[r].step \in {"insert", "commit"} => req[r].category \in Categories
  /\ req[r].step \in Writing => req[r].kind \in {"write", "extract"} /\ req[r].left >= 1

\* A request holds at most its own agent and, about to commit, its own category.
HoldsItsOwn == \A e \in Entries : held[e] # Nobody =>
  LET q == req[held[e]]
  IN  \/ e \in Agents /\ q.step \in Working /\ q.agent = e
      \/ e \in Categories /\ q.step = "commit" /\ q.category = e

\* The agent is there, or will be when the request commits, or was rolled back.
AgentAtHand == \A r \in Requests : req[r].step \in Working =>
  req[r].agent \in rows \/ held[req[r].agent] = r \/ req[r].undone

\* Only requests that came as far as writing have written, and their answer stays.
WrittenByWriters == \A m \in memories : req[m.by].step \in Writing \cup {"done"}

\* What is off now and was on when a request looked at it has been switched off since.
LookedAt ==
  /\ off \subseteq rows \cup {User}
  /\ \A r \in Asked : {User, req[r].key} \cap off \subseteq dropped[r]
  /\ \A r \in Asked : req[r].step # "resolve" => {req[r].device, req[r].agent} \cap off \subseteq dropped[r]

IInv == /\ TypeOK /\ InHand /\ HoldsItsOwn /\ AgentAtHand /\ WrittenByWriters /\ LookedAt
        /\ AgentUnlessUndone
===============================================================================
