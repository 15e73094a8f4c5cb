---------------------------- MODULE IdentityProofs ----------------------------
(***************************************************************************)
(* What holds of identities for every number of requests, agents, devices, *)
(* keys and forms: IInv, the inductive invariant of Identity, and what     *)
(* follows from it.                                                        *)
(***************************************************************************)
EXTENDS Identity, TLAPS

\* What the assumption says of the constants, as the provers need it: the parties, entries and
\* requests are told apart.
LEMMA Constants ==
  /\ MaxItems \in Nat /\ MaxForms \in Nat
  /\ Nobody \notin Requests \cup Parties
  /\ User \notin Entries /\ Agents \cap (Devices \cup Keys \cup Categories) = {}
  /\ Categories \cap (Devices \cup Keys) = {} /\ Devices \cap Keys = {}
BY IdentityOK

\* The steps of a request.
Steps == {"idle", "resolve", "create", "done"} \cup Working
Statuses == {0, 200, 401, 403, 422, 500, 503}

\* n is q but for the fields given.
Like(n, q, step, agent, category, left, again) ==
  /\ n \in Request
  /\ n.kind = q.kind /\ n.key = q.key /\ n.device = q.device /\ n.undone = q.undone
  /\ n.step = step /\ n.agent = agent /\ n.category = category /\ n.left = left /\ n.again = again

\* What an update of two fields of a request gives, field by field.
LEMMA WithAgent ==
  ASSUME NEW q \in Request, NEW a \in Agents, NEW s \in Steps, NEW n,
         n = [q EXCEPT !.agent = a, !.step = s]
  PROVE  Like(n, q, s, a, q.category, q.left, q.again)
<1> DEFINE h == [q EXCEPT !.agent = a]
<1>1. Like(h, q, q.step, a, q.category, q.left, q.again)
  BY DEF Like, Request, Steps
<1>2. n = [h EXCEPT !.step = s]
  OBVIOUS
<1> HIDE DEF h
<1>3. QED
  BY <1>1, <1>2 DEF Like, Request, Steps

\* The same for the step and the memories left to write.
LEMMA WithLeft ==
  ASSUME NEW q \in Request, NEW s \in Steps, NEW i \in 0..(MaxItems + 1), NEW n,
         n = [q EXCEPT !.step = s, !.left = i]
  PROVE  Like(n, q, s, q.agent, q.category, i, q.again)
<1> DEFINE h == [q EXCEPT !.step = s]
<1>1. Like(h, q, s, q.agent, q.category, q.left, q.again)
  BY DEF Like, Request, Steps
<1>2. n = [h EXCEPT !.left = i]
  OBVIOUS
<1> HIDE DEF h
<1>3. QED
  BY <1>1, <1>2 DEF Like, Request, Steps

\* The same for the category.
LEMMA WithCategory ==
  ASSUME NEW q \in Request, NEW c \in Categories, NEW s \in Steps, NEW n,
         n = [q EXCEPT !.category = c, !.step = s]
  PROVE  Like(n, q, s, q.agent, c, q.left, q.again)
<1> DEFINE h == [q EXCEPT !.category = c]
<1>1. Like(h, q, q.step, q.agent, c, q.left, q.again)
  BY DEF Like, Request, Steps
<1>2. n = [h EXCEPT !.step = s]
  OBVIOUS
<1> HIDE DEF h
<1>3. QED
  BY <1>1, <1>2 DEF Like, Request, Steps

\* The same for the step and the retry.
LEMMA WithAgain ==
  ASSUME NEW q \in Request, NEW s \in Steps, NEW x \in BOOLEAN, NEW n,
         n = [q EXCEPT !.step = s, !.again = x]
  PROVE  Like(n, q, s, q.agent, q.category, q.left, x)
<1> DEFINE h == [q EXCEPT !.step = s]
<1>1. Like(h, q, s, q.agent, q.category, q.left, q.again)
  BY DEF Like, Request, Steps
<1>2. n = [h EXCEPT !.again = x]
  OBVIOUS
<1> HIDE DEF h
<1>3. QED
  BY <1>1, <1>2 DEF Like, Request, Steps

\* The same for the step alone.
LEMMA WithStep ==
  ASSUME NEW q \in Request, NEW s \in Steps, NEW n, n = [q EXCEPT !.step = s]
  PROVE  Like(n, q, s, q.agent, q.category, q.left, q.again)
BY DEF Like, Request, Steps

\* n is q but for undone.
Undone(n, q, u) ==
  /\ n \in Request /\ n.undone = u
  /\ n.kind = q.kind /\ n.key = q.key /\ n.device = q.device /\ n.step = q.step
  /\ n.agent = q.agent /\ n.category = q.category /\ n.left = q.left /\ n.again = q.again

\* The same for undone alone.
LEMMA WithUndone ==
  ASSUME NEW q \in Request, NEW u \in BOOLEAN, NEW n, n = [q EXCEPT !.undone = u]
  PROVE  Undone(n, q, u)
BY DEF Undone, Request

\* A request nobody has sent yet is a request.
LEMMA FreshType == Fresh \in Request /\ Fresh.step = "idle"
<1>1. Fresh.left \in 0..(MaxItems + 1)
  BY Constants DEF Fresh
<1>2. QED
  BY <1>1 DEF Fresh, Request, Kinds

\* An answered request holds nothing and has nothing left to do.
LEMMA AnsweredType ==
  ASSUME NEW q \in Request, NEW status \in Statuses
  PROVE  /\ Answered(q, status) \in Request
         /\ Answered(q, status).step = "done" /\ Answered(q, status).undone = q.undone
<1> DEFINE f == [Fresh EXCEPT !.step = "done"]
           g == [f EXCEPT !.undone = q.undone]
<1>1. f \in Request /\ f.step = "done"
  BY FreshType DEF Request
<1> HIDE DEF f
<1>2. g \in Request /\ g.step = "done" /\ g.undone = q.undone
  BY <1>1 DEF Request
<1>3. Answered(q, status) = [g EXCEPT !.status = status]
  BY DEF Answered, f
<1> HIDE DEF g
<1>4. QED
  BY <1>2, <1>3 DEF Request, Statuses

\* The first state satisfies the invariant: nobody has asked for anything yet.
LEMMA InitInv == Init => IInv
<1> SUFFICES ASSUME Init PROVE IInv
  OBVIOUS
<1> USE Constants
<1>1. TypeOK
  BY DEF Init, TypeOK, Fresh, Request, Kinds, Working
<1>2. InHand /\ HoldsItsOwn /\ AgentAtHand /\ WrittenByWriters /\ LookedAt /\ AgentUnlessUndone
  BY DEF Init, InHand, HoldsItsOwn, AgentAtHand, WrittenByWriters, LookedAt, AgentUnlessUndone,
     Fresh, Asked, Working, Writing
<1>3. QED
  BY <1>1, <1>2 DEF IInv

\* Letting go of what one request holds leaves the others' entries alone.
LEMMA Releasing ==
  ASSUME TypeOK, NEW r \in Requests, held' = Released(r)
  PROVE  /\ held' \in [Entries -> Requests \cup {Nobody}]
         /\ \A e \in Entries : held'[e] = IF held[e] = r THEN Nobody ELSE held[e]
         /\ \A e \in rows \cup HeldBy(r) : held'[e] = Nobody
BY Constants DEF TypeOK, Released, HeldBy

-----------------------------------------------------------------------------
(* What a step of one request has to see to.  n is the request after the step. *)

\* n knows what the steps before have found out, and its agent is there or is its own.
Equipped(r, n) ==
  /\ n \in Request
  /\ n.step \in {"create"} \cup Working => n.agent \in Agents
  /\ n.step \in {"insert", "commit"} => n.category \in Categories
  /\ n.step \in Writing => n.kind \in {"write", "extract"} /\ n.left >= 1
  /\ n.step \in Working => n.agent \in rows' \/ held'[n.agent] = r \/ n.undone
  /\ n.step \notin {"idle", "done"} => {User, n.key} \cap off \subseteq dropped'[r]
  /\ n.step \notin {"idle", "resolve", "done"} => {n.device, n.agent} \cap off \subseteq dropped'[r]

\* Entries only become more; r touches its own insertions only, and keeps those n answers for.
Tidy(r, n) ==
  /\ rows \subseteq rows' /\ rows' \subseteq Entries
  /\ held' \in [Entries -> Requests \cup {Nobody}]
  /\ \A e \in rows' : held'[e] = Nobody
  /\ \A e \in Entries : \/ held'[e] = held[e] /\ held[e] # r
                        \/ held'[e] = Nobody /\ held[e] = r
                        \/ /\ held'[e] = r
                           /\ \/ e \in Agents /\ n.step \in Working /\ n.agent = e
                              \/ e \in Categories /\ n.step = "commit" /\ n.category = e
                           /\ held[e] \in {r, Nobody}

\* Memories stay, and a new one is r's, for an agent that is there.
Honest(r, n) ==
  /\ memories \subseteq memories' /\ memories' \subseteq [by : Requests, agent : Agents]
  /\ \A m \in memories' \ memories : /\ m.by = r /\ n.step \in Writing \cup {"done"}
                                     /\ m.agent \in rows' \/ n.undone
  /\ req[r].undone => n.undone
  /\ req[r].step \in Writing \cup {"done"} => n.step \in Writing \cup {"done"}

\* A step of one request that is equipped, tidy and honest keeps the invariant.
LEMMA StepKeepsInv ==
  ASSUME IInv, NEW r \in Requests, NEW n, req' = [req EXCEPT ![r] = n],
         UNCHANGED <<off, bound, forms>>,
         dropped' \in [Requests -> SUBSET Parties],
         \A p \in Requests \ {r} : dropped'[p] = dropped[p],
         Equipped(r, n), Tidy(r, n), Honest(r, n)
  PROVE  IInv'
<1> USE Constants
<1>1. /\ req' \in [Requests -> Request] /\ req'[r] = n /\ \A p \in Requests \ {r} : req'[p] = req[p]
      /\ req \in [Requests -> Request] /\ held \in [Entries -> Requests \cup {Nobody}]
  BY DEF IInv, TypeOK, Equipped
<1>2. TypeOK'
  BY <1>1 DEF IInv, TypeOK, Tidy, Honest
<1>3. InHand'
  BY <1>1 DEF IInv, InHand, Equipped
<1>4. HoldsItsOwn'
  <2> SUFFICES ASSUME NEW e \in Entries, held'[e] # Nobody
               PROVE  \/ e \in Agents /\ req'[held'[e]].step \in Working /\ req'[held'[e]].agent = e
                      \/ /\ e \in Categories /\ req'[held'[e]].step = "commit"
                         /\ req'[held'[e]].category = e
    BY DEF HoldsItsOwn
  <2>1. CASE held'[e] = r
    BY <1>1, <2>1 DEF Tidy
  <2>2. CASE held'[e] # r
    <3>1. held'[e] = held[e] /\ held[e] \in Requests \ {r}
      BY <1>1, <2>2 DEF Tidy
    <3>2. QED
      BY <1>1, <3>1 DEF IInv, HoldsItsOwn
  <2>3. QED
    BY <2>1, <2>2
<1>5. AgentAtHand'
  <2> SUFFICES ASSUME NEW p \in Requests, req'[p].step \in Working
               PROVE  req'[p].agent \in rows' \/ held'[req'[p].agent] = p \/ req'[p].undone
    BY DEF AgentAtHand
  <2>1. CASE p = r
    BY <1>1, <2>1 DEF Equipped
  <2>2. CASE p # r
    <3>1. req'[p] = req[p] /\ req[p].agent \in Entries
      BY <1>1, <2>2 DEF IInv, InHand, Entries
    <3>2. held[req[p].agent] = p => held'[req[p].agent] = p
      BY <2>2, <3>1 DEF Tidy
    <3>3. QED
      BY <3>1, <3>2 DEF IInv, AgentAtHand, Tidy
  <2>3. QED
    BY <2>1, <2>2
<1>6. \A m \in memories : m.by \in Requests
  BY DEF IInv, TypeOK
<1>7. WrittenByWriters'
  BY <1>1, <1>6 DEF IInv, WrittenByWriters, Honest
<1>8. LookedAt'
  BY <1>1 DEF IInv, LookedAt, Asked, Equipped, Tidy
<1>9. AgentUnlessUndone'
  BY <1>1, <1>6 DEF IInv, AgentUnlessUndone, Honest, Tidy
<1>10. QED
  BY <1>2, <1>3, <1>4, <1>5, <1>7, <1>8, <1>9 DEF IInv

-----------------------------------------------------------------------------
(* The steps of a request, one by one. *)

\* What the invariant says of the request that takes the step.
LEMMA Known ==
  ASSUME IInv, NEW r \in Requests
  PROVE  /\ req[r] \in Request /\ held \in [Entries -> Requests \cup {Nobody}]
         /\ rows \subseteq Entries /\ \A e \in rows : held[e] = Nobody
         /\ memories \subseteq [by : Requests, agent : Agents]
         /\ req[r].step \in {"create"} \cup Working => req[r].agent \in Agents
         /\ \A e \in Entries : held[e] = r =>
              \/ e \in Agents /\ req[r].step \in Working /\ req[r].agent = e
              \/ e \in Categories /\ req[r].step = "commit" /\ req[r].category = e
         /\ req[r].step \in Working =>
              req[r].agent \in rows \/ held[req[r].agent] = r \/ req[r].undone
         /\ off \subseteq rows \cup {User}
         /\ dropped \in [Requests -> SUBSET Parties]
         /\ req[r].step \notin {"idle", "done"} => {User, req[r].key} \cap off \subseteq dropped[r]
         /\ req[r].step \notin {"idle", "resolve", "done"} =>
              {req[r].device, req[r].agent} \cap off \subseteq dropped[r]
<1>1. \A e \in Entries : held[e] = r =>
              \/ e \in Agents /\ req[r].step \in Working /\ req[r].agent = e
              \/ e \in Categories /\ req[r].step = "commit" /\ req[r].category = e
  BY Constants DEF IInv, HoldsItsOwn
<1>2. QED
  BY <1>1 DEF IInv, TypeOK, InHand, AgentAtHand, LookedAt, Asked

\* An end without a commit, whatever the answer.
LEMMA AnswerKeepsInv ==
  ASSUME IInv, NEW r \in Requests, NEW status \in Statuses, Answer(r, status)
  PROVE  IInv'
<1> USE Constants
<1> DEFINE n == Answered(req[r], status)
<1>1. n \in Request /\ n.step = "done" /\ n.undone = req[r].undone
  BY Known, AnsweredType
<1>2. /\ req' = [req EXCEPT ![r] = n] /\ held' = Released(r)
      /\ UNCHANGED <<rows, off, bound, forms, dropped, memories>>
  BY DEF Answer, Step, base
<1> HIDE DEF n
<1>3. Equipped(r, n)
  BY <1>1 DEF Equipped, Working, Writing
<1>4. Tidy(r, n)
  BY <1>2, Known, Releasing DEF IInv, Tidy
<1>5. Honest(r, n)
  BY <1>1, <1>2, Known DEF Honest
<1>6. QED
  BY <1>2, <1>3, <1>4, <1>5, Known, StepKeepsInv

\* A request that only goes on, and neither inserts nor commits anything.
LEMMA MoveKeepsInv ==
  ASSUME IInv, NEW r \in Requests, NEW n \in Request, Step(r, n), UNCHANGED <<base, held, memories>>,
         n.step \in {"create"} \cup Working => n.agent \in Agents,
         n.step \in {"insert", "commit"} => n.category \in Categories,
         n.step \in Writing => n.kind \in {"write", "extract"} /\ n.left >= 1,
         n.step \in Working => n.agent \in rows \/ held[n.agent] = r \/ n.undone,
         n.step \notin {"idle", "done"} => {User, n.key} \cap off \subseteq dropped[r],
         n.step \notin {"idle", "resolve", "done"} => {n.device, n.agent} \cap off \subseteq dropped[r],
         req[r].undone => n.undone,
         req[r].step \in Writing \cup {"done"} => n.step \in Writing \cup {"done"},
         \A e \in Entries : held[e] = r =>
           \/ e \in Agents /\ n.step \in Working /\ n.agent = e
           \/ e \in Categories /\ n.step = "commit" /\ n.category = e
  PROVE  IInv'
<1>1. /\ req' = [req EXCEPT ![r] = n]
      /\ UNCHANGED <<rows, off, bound, forms, dropped, held, memories>>
  BY DEF Step, base
<1>2. Equipped(r, n)
  BY <1>1 DEF Equipped
<1>3. Tidy(r, n)
  BY <1>1, Known DEF Tidy
<1>4. Honest(r, n)
  BY <1>1, Known DEF Honest
<1>5. QED
  BY <1>1, <1>2, <1>3, <1>4, Known, StepKeepsInv

\* resolve_memory_identity finds an agent that is not off, or one nobody knows.
LEMMA ResolveKeepsInv ==
  ASSUME IInv, NEW r \in Requests, Resolve(r)
  PROVE  IInv'
<1> USE Constants
<1> DEFINE d == req[r].device
           a == IF d = Nobody THEN req[r].agent ELSE bound[d]
           s == IF a \in rows THEN "work" ELSE "create"
<1>1. CASE Answer(r, 422) \/ Answer(r, 403)
  BY <1>1, AnswerKeepsInv DEF Statuses
<1>2. CASE /\ ~((d # Nobody /\ d \notin rows) \/ a = Nobody) /\ ~(d # Nobody /\ d \in off)
           /\ ~(a \in rows \cap off)
           /\ Step(r, [req[r] EXCEPT !.agent = a, !.step = s])
           /\ dropped' = [dropped EXCEPT ![r] = @ \cap (Keys \cup {User})]
           /\ UNCHANGED <<rows, off, bound, forms, held, memories>>
  <2>1. req[r].step = "resolve" /\ req[r] \in Request
    BY Known DEF Resolve, At
  <2>2. PICK x \in Agents : x = a
    BY <1>2, Known DEF IInv, TypeOK, Request
  <2>3. PICK y \in Steps : y = s
    BY DEF Steps, Working
  <2>4. PICK n : n = [req[r] EXCEPT !.agent = x, !.step = y]
    OBVIOUS
  <2>5. Step(r, n)
    <3>1. Step(r, [req[r] EXCEPT !.agent = a, !.step = s])
      BY <1>2
    <3> HIDE DEF a, s
    <3>2. [req[r] EXCEPT !.agent = a, !.step = s] = [req[r] EXCEPT !.agent = x, !.step = y]
      BY <2>2, <2>3, Zenon
    <3>3. QED
      BY <2>4, <3>1, <3>2, Zenon
  <2>6. Like(n, req[r], y, x, req[r].category, req[r].left, req[r].again)
    BY <2>1, <2>4, WithAgent, Zenon
  <2>7. {d, x} \cap off = {}
    <3>1. x # User /\ d # User /\ Nobody \notin off
      <4>1. off \subseteq Parties /\ d \in Devices \cup {Nobody}
        BY Known DEF IInv, TypeOK, Request
      <4>2. QED
        BY <4>1 DEF Entries, Parties
    <3>2. x \in off => x \in rows
      BY <3>1, Known
    <3>3. d \in off => d # Nobody
      BY <3>1
    <3>4. QED
      BY <1>2, <2>2, <3>2, <3>3
  <2>8. y = (IF x \in rows THEN "work" ELSE "create")
    BY <2>2, <2>3
  <2>9. req' = [req EXCEPT ![r] = n]
    BY <2>5 DEF Step
  <2>10. /\ dropped' \in [Requests -> SUBSET Parties]
         /\ dropped'[r] = dropped[r] \cap (Keys \cup {User})
         /\ \A p \in Requests \ {r} : dropped'[p] = dropped[p]
    BY <1>2, Known
  <2>11. Equipped(r, n)
    <3>1. {User, n.key} \cap off \subseteq dropped'[r]
      <4>1. n.key = req[r].key /\ n.key \in Keys \cup {Nobody} /\ Nobody \notin off
        BY <2>1, <2>6, Known DEF Like, Request, IInv, TypeOK
      <4>2. {User, req[r].key} \cap off \subseteq dropped[r]
        BY <2>1, Known
      <4>3. QED
        BY <2>10, <4>1, <4>2
    <3>2. n.device = d /\ n.agent = x
      BY <2>6 DEF Like
    <3>3. QED
      BY <1>2, <2>1, <2>6, <2>7, <2>8, <3>1, <3>2, Known DEF Equipped, Like, Working, Writing
  <2>12. Tidy(r, n)
    BY <1>2, <2>1, Known DEF Tidy, Working
  <2>13. Honest(r, n)
    BY <1>2, <2>1, <2>6, Known DEF Honest, Like, Working, Writing
  <2>14. QED
    BY <1>2, <2>9, <2>10, <2>11, <2>12, <2>13, StepKeepsInv
<1>3. QED
  BY <1>1, <1>2 DEF Resolve

\* get_or_create_agent inserts the agent under the unique index, or fails.
LEMMA CreateAgentKeepsInv ==
  ASSUME IInv, NEW r \in Requests, CreateAgent(r)
  PROVE  IInv'
<1> USE Constants
<1>1. CASE Answer(r, 500)
  BY <1>1, AnswerKeepsInv DEF Statuses
<1>2. CASE /\ req[r].agent \notin rows
           /\ held' = [held EXCEPT ![req[r].agent] = r]
           /\ Step(r, [req[r] EXCEPT !.step = "work"])
           /\ UNCHANGED <<base, memories>>
  <2>1. /\ req[r].step = "create" /\ held[req[r].agent] = Nobody
        /\ req[r] \in Request /\ req[r].agent \in Agents /\ req[r].agent \in Entries
    BY Known DEF CreateAgent, At, Entries
  <2>2. PICK n : n = [req[r] EXCEPT !.step = "work"]
    OBVIOUS
  <2>3. "work" \in Steps
    BY DEF Steps, Working
  <2>4. Like(n, req[r], "work", req[r].agent, req[r].category, req[r].left, req[r].again)
    BY <2>1, <2>2, <2>3, WithStep, Zenon
  <2>5. req' = [req EXCEPT ![r] = n] /\ UNCHANGED <<rows, off, bound, forms, dropped, memories>>
    BY <1>2, <2>2 DEF Step, base
  <2>6. /\ held'[req[r].agent] = r /\ held' \in [Entries -> Requests \cup {Nobody}]
        /\ \A e \in Entries : e # req[r].agent => held'[e] = held[e] /\ held[e] # r
    <3>1. \A e \in Entries : held[e] # r
      BY <2>1, Known DEF Working
    <3>2. QED
      BY <1>2, <2>1, <3>1, Known
  <2>7. Equipped(r, n)
    BY <2>1, <2>4, <2>5, <2>6, Known DEF Equipped, Like, Working, Writing
  <2>8. Tidy(r, n)
    BY <1>2, <2>1, <2>4, <2>5, <2>6, Known DEF Tidy, Like, Working
  <2>9. Honest(r, n)
    BY <2>1, <2>4, <2>5, Known DEF Honest, Like, Writing, Working
  <2>10. QED
    BY <2>5, <2>7, <2>8, <2>9, Known, StepKeepsInv
<1>3. QED
  BY <1>1, <1>2 DEF CreateAgent

\* DELETE commits, and the agent it has created with it.
LEMMA DeleteKeepsInv ==
  ASSUME IInv, NEW r \in Requests, Delete(r)
  PROVE  IInv'
<1> USE Constants
<1>1. PICK n : n = Answered(req[r], 200)
  OBVIOUS
<1>2. n \in Request /\ n.step = "done" /\ n.undone = req[r].undone
  BY <1>1, Known, AnsweredType DEF Statuses
<1>3. /\ req' = [req EXCEPT ![r] = n] /\ held' = Released(r) /\ rows' = rows \cup HeldBy(r)
      /\ UNCHANGED <<off, bound, forms, dropped, memories>>
  BY <1>1 DEF Delete, Step
<1>4. Equipped(r, n)
  BY <1>2 DEF Equipped, Working, Writing
<1>5. Tidy(r, n)
  BY <1>3, Known, Releasing DEF IInv, Tidy, HeldBy
<1>6. Honest(r, n)
  BY <1>2, <1>3, Known DEF Honest
<1>7. QED
  BY <1>3, <1>4, <1>5, <1>6, Known, StepKeepsInv

\* The model finds something to write, or nothing.
LEMMA ModelAnswersKeepsInv ==
  ASSUME IInv, NEW r \in Requests, ModelAnswers(r)
  PROVE  IInv'
<1> USE Constants
<1>1. CASE Answer(r, 200)
  BY <1>1, AnswerKeepsInv DEF Statuses
<1>2. ASSUME NEW i \in Nat \ {0}, i <= MaxItems + 1,
             Step(r, [req[r] EXCEPT !.step = "save", !.left = i]), UNCHANGED <<base, held, memories>>
      PROVE  IInv'
  <2>1. /\ req[r].step = "work" /\ req[r].kind \in {"write", "extract"} /\ req[r] \in Request
        /\ "save" \in Steps /\ i \in 0..(MaxItems + 1)
    BY <1>2, Known DEF ModelAnswers, At, Steps, Working
  <2>2. PICK n : n = [req[r] EXCEPT !.step = "save", !.left = i]
    OBVIOUS
  <2>3. Like(n, req[r], "save", req[r].agent, req[r].category, i, req[r].again)
    BY <2>1, <2>2, WithLeft, Zenon
  <2>4. Step(r, n)
    BY <1>2, <2>2, Zenon
  <2>5. QED
    BY <1>2, <2>1, <2>3, <2>4, Known, MoveKeepsInv DEF Like, Working, Writing
<1>3. PICK i \in IF req[r].kind = "write" THEN {1} ELSE 0..MaxItems :
        IF i = 0 THEN Answer(r, 200)
        ELSE /\ Step(r, [req[r] EXCEPT !.step = "save", !.left = i])
             /\ UNCHANGED <<base, held, memories>>
  BY Zenon DEF ModelAnswers
<1>4. CASE i = 0
  BY <1>1, <1>3, <1>4
<1>5. CASE i # 0
  <2>1. i \in Nat \ {0} /\ i <= MaxItems + 1
    BY <1>5
  <2>2. /\ Step(r, [req[r] EXCEPT !.step = "save", !.left = i])
        /\ UNCHANGED <<base, held, memories>>
    BY <1>3, <1>5, Zenon
  <2>3. QED
    BY <1>2, <2>1, <2>2, Zenon
<1>6. QED
  BY <1>4, <1>5

\* upsert_memory finds its category or has to insert it.
LEMMA FindCategoryKeepsInv ==
  ASSUME IInv, NEW r \in Requests, NEW c \in Categories, FindCategory(r, c)
  PROVE  IInv'
<1> USE Constants
<1>1. req[r].step = "save" /\ req[r] \in Request
  BY Known DEF FindCategory, At
<1>2. PICK y \in Steps : y = IF c \in rows THEN "commit" ELSE "insert"
  BY DEF Steps, Working
<1>3. PICK n : n = [req[r] EXCEPT !.category = c, !.step = y]
  OBVIOUS
<1>4. Like(n, req[r], y, req[r].agent, c, req[r].left, req[r].again)
  BY <1>1, <1>3, WithCategory, Zenon
<1>5. Step(r, n) /\ UNCHANGED <<base, held, memories>>
  BY <1>2, <1>3, Zenon DEF FindCategory
<1>6. req[r].kind \in {"write", "extract"} /\ req[r].left >= 1
  BY <1>1 DEF IInv, InHand, Writing, Working
<1>7. QED
  BY <1>1, <1>2, <1>4, <1>5, <1>6, Known, MoveKeepsInv DEF Like, Working, Writing

\* After a rollback: the agent of a request that is not done is there, or was undone.
LEMMA RollBackKeepsInv ==
  ASSUME IInv, NEW r \in Requests, req[r].step \in {"save", "insert"}, RollBack(r)
  PROVE  IInv'
<1> USE Constants
<1> DEFINE u == req[r].undone \/ held[req[r].agent] = r
<1>1. /\ req[r] \in Request /\ req[r].agent \in Agents
      /\ req[r].kind \in {"write", "extract"} /\ req[r].left >= 1
      /\ req[r].agent \in rows \/ u
  BY Known DEF IInv, InHand, Working, Writing
<1>2. PICK q : q = [req[r] EXCEPT !.undone = u]
  OBVIOUS
<1>3. Undone(q, req[r], u)
  <2>1. PICK x \in BOOLEAN : x = u
    OBVIOUS
  <2>2. q = [req[r] EXCEPT !.undone = x]
    BY <1>2, <2>1, Zenon
  <2>3. Undone(q, req[r], x)
    BY <1>1, <2>2, WithUndone, Zenon
  <2>4. QED
    BY <2>1, <2>3, Zenon
<1> HIDE DEF u
<1>4. /\ held' = Released(r) /\ UNCHANGED <<rows, off, bound, forms, dropped, memories>>
      /\ Step(r, IF q.kind = "write"
                 THEN IF q.again THEN Answered(q, 500)
                                 ELSE [q EXCEPT !.step = "save", !.again = TRUE]
                 ELSE IF q.left = 1 THEN Answered(q, 200)
                                    ELSE [q EXCEPT !.step = "save", !.left = q.left - 1])
  BY <1>2, Zenon DEF RollBack, base, u
<1>5. PICK n : /\ Step(r, n)
               /\ \/ n = Answered(q, 500) \/ n = Answered(q, 200)
                  \/ n = [q EXCEPT !.step = "save", !.again = TRUE]
                  \/ q.kind # "write" /\ q.left # 1
                     /\ n = [q EXCEPT !.step = "save", !.left = q.left - 1]
  <2>1. CASE q.kind = "write" /\ q.again
    <3>1. Step(r, Answered(q, 500))
      BY <1>4, <2>1, Zenon
    <3> WITNESS Answered(q, 500)
    <3>2. QED
      BY <3>1, Zenon
  <2>2. CASE q.kind = "write" /\ ~q.again
    <3>1. Step(r, [q EXCEPT !.step = "save", !.again = TRUE])
      BY <1>4, <2>2, Zenon
    <3>2. QED
      BY <3>1, Zenon
  <2>3. CASE q.kind # "write" /\ q.left = 1
    <3>1. Step(r, Answered(q, 200))
      BY <1>4, <2>3, Zenon
    <3>2. QED
      BY <3>1, Zenon
  <2>4. CASE q.kind # "write" /\ q.left # 1
    <3>1. Step(r, [q EXCEPT !.step = "save", !.left = q.left - 1])
      BY <1>4, <2>4, Zenon
    <3>2. QED
      BY <2>4, <3>1, Zenon
  <2>5. QED
    BY <2>1, <2>2, <2>3, <2>4, Zenon
<1>6. "save" \in Steps
  BY DEF Steps, Working
<1>7. n \in Request /\ n.undone = u
      /\ \/ n.step = "done"
         \/ /\ n.step = "save" /\ n.agent = q.agent /\ n.key = q.key /\ n.device = q.device
            /\ n.kind = q.kind /\ n.left >= 1
  <2>1. CASE n = Answered(q, 500) \/ n = Answered(q, 200)
    BY <1>3, <2>1, AnsweredType DEF Undone, Statuses
  <2>2. CASE n = [q EXCEPT !.step = "save", !.again = TRUE]
    <3>1. Like(n, q, "save", q.agent, q.category, q.left, TRUE)
      BY <1>3, <1>6, <2>2, WithAgain, Zenon DEF Undone
    <3>2. QED
      BY <1>1, <1>3, <3>1 DEF Like, Undone
  <2>3. CASE q.left # 1 /\ n = [q EXCEPT !.step = "save", !.left = q.left - 1]
    <3>1. PICK i \in 0..(MaxItems + 1) : i = q.left - 1 /\ i >= 1
      BY <1>1, <1>3, <2>3 DEF Request, Undone
    <3>2. n = [q EXCEPT !.step = "save", !.left = i]
      BY <2>3, <3>1, Zenon
    <3>3. Like(n, q, "save", q.agent, q.category, i, q.again)
      BY <1>3, <1>6, <3>2, WithLeft, Zenon DEF Undone
    <3>4. QED
      BY <1>3, <3>1, <3>3 DEF Like, Undone
  <2>4. QED
    BY <1>5, <2>1, <2>2, <2>3, Zenon
<1>8. Equipped(r, n)
  BY <1>1, <1>3, <1>4, <1>7, Known DEF Undone, Equipped, Working, Writing
<1>9. Tidy(r, n)
  BY <1>4, Known, Releasing DEF IInv, Tidy
<1>10. Honest(r, n)
  BY <1>4, <1>7, Known DEF Honest, Working, Writing, u
<1>11. req' = [req EXCEPT ![r] = n]
  BY <1>5 DEF Step
<1>12. QED
  BY <1>4, <1>8, <1>9, <1>10, <1>11, Known, StepKeepsInv

\* The INSERT of a category is made, or refused and rolled back.
LEMMA InsertCategoryKeepsInv ==
  ASSUME IInv, NEW r \in Requests, InsertCategory(r)
  PROVE  IInv'
<1> USE Constants
<1> DEFINE c == req[r].category
<1>1. /\ req[r].step = "insert" /\ c \in Categories /\ held[c] = Nobody /\ c \in Entries
      /\ req[r] \in Request /\ req[r].kind \in {"write", "extract"} /\ req[r].left >= 1
  BY Known DEF InsertCategory, At, IInv, InHand, Writing, Working, Entries
<1>2. CASE RollBack(r)
  BY <1>1, <1>2, RollBackKeepsInv
<1>3. CASE /\ c \notin rows
           /\ held' = [held EXCEPT ![c] = r]
           /\ Step(r, [req[r] EXCEPT !.step = "commit"])
           /\ UNCHANGED <<base, memories>>
  <2>1. PICK n : n = [req[r] EXCEPT !.step = "commit"]
    OBVIOUS
  <2>2. "commit" \in Steps
    BY DEF Steps, Working
  <2>3. Like(n, req[r], "commit", req[r].agent, c, req[r].left, req[r].again)
    BY <1>1, <2>1, <2>2, WithStep, Zenon
  <2>4. req' = [req EXCEPT ![r] = n] /\ UNCHANGED <<rows, off, bound, forms, dropped, memories>>
    BY <1>3, <2>1 DEF Step, base
  <2>5. /\ held' \in [Entries -> Requests \cup {Nobody}] /\ held'[c] = r
        /\ \A e \in Entries : e # c => held'[e] = held[e]
    BY <1>1, <1>3, Known
  <2>6. Equipped(r, n)
    <3>1. req[r].agent \in Agents /\ req[r].agent \in Entries /\ req[r].agent # c
      BY <1>1, Known DEF Working, Entries
    <3>2. QED
      BY <1>1, <2>3, <2>4, <2>5, <3>1, Known DEF Equipped, Like, Working, Writing
  <2>7. Tidy(r, n)
    BY <1>1, <1>3, <2>3, <2>4, <2>5, Known DEF Tidy, Like, Working
  <2>8. Honest(r, n)
    BY <1>1, <2>3, <2>4, Known DEF Honest, Like, Writing, Working
  <2>9. QED
    BY <2>4, <2>6, <2>7, <2>8, Known, StepKeepsInv
<1>4. QED
  BY <1>2, <1>3 DEF InsertCategory

\* A commit makes what the request has inserted part of the tables, the agent above all.
LEMMA CommitKeepsInv ==
  ASSUME IInv, NEW r \in Requests, Commit(r)
  PROVE  IInv'
<1> USE Constants
<1>1. /\ req[r].step = "commit" /\ req[r] \in Request /\ req[r].agent \in Agents
      /\ req[r].agent \in Entries
      /\ req[r].kind \in {"write", "extract"} /\ req[r].left >= 1
  BY Known DEF Commit, At, IInv, InHand, Writing, Working, Entries
<1>2. /\ memories' = memories \cup {[by |-> r, agent |-> req[r].agent]}
      /\ rows' = rows \cup HeldBy(r) /\ held' = Released(r)
      /\ UNCHANGED <<off, bound, forms, dropped>>
  BY DEF Commit
<1>3. PICK n : /\ Step(r, n)
               /\ \/ n = Answered(req[r], 200)
                  \/ /\ req[r].left # 1
                     /\ n = [req[r] EXCEPT !.step = "save", !.left = req[r].left - 1]
  BY Zenon DEF Commit
<1>4. /\ n \in Request /\ n.undone = req[r].undone
      /\ \/ n.step = "done"
         \/ /\ n.step = "save" /\ n.agent = req[r].agent /\ n.key = req[r].key
            /\ n.device = req[r].device /\ n.kind = req[r].kind /\ n.left >= 1
  <2>1. CASE n = Answered(req[r], 200)
    BY <1>1, <2>1, AnsweredType DEF Statuses
  <2>2. CASE /\ req[r].left # 1
             /\ n = [req[r] EXCEPT !.step = "save", !.left = req[r].left - 1]
    <3>1. PICK i \in 0..(MaxItems + 1) : i = req[r].left - 1 /\ i >= 1
      BY <1>1, <2>2 DEF Request
    <3>2. n = [req[r] EXCEPT !.step = "save", !.left = i]
      BY <2>2, <3>1, Zenon
    <3>3. "save" \in Steps
      BY DEF Steps, Working
    <3>4. Like(n, req[r], "save", req[r].agent, req[r].category, i, req[r].again)
      BY <1>1, <3>2, <3>3, WithLeft, Zenon
    <3>5. QED
      BY <3>1, <3>4 DEF Like
  <2>3. QED
    BY <1>3, <2>1, <2>2, Zenon
<1>5. req[r].agent \in rows' \/ req[r].undone
  BY <1>1, <1>2, Known DEF HeldBy, Working
<1>6. Equipped(r, n)
  BY <1>1, <1>2, <1>4, <1>5, Known DEF Equipped, Working, Writing
<1>7. Tidy(r, n)
  BY <1>2, Known, Releasing DEF IInv, Tidy, HeldBy
<1>8. Honest(r, n)
  BY <1>1, <1>2, <1>4, <1>5, Known DEF Honest, Writing, Working
<1>9. req' = [req EXCEPT ![r] = n]
  BY <1>3 DEF Step
<1>10. QED
  BY <1>2, <1>6, <1>7, <1>8, <1>9, Known, StepKeepsInv

\* Steps that end without a commit, or skip an item.
LEMMA EndingKeepsInv ==
  ASSUME IInv, NEW r \in Requests, Read(r) \/ ModelFails(r) \/ SkipItem(r) \/ Raise(r)
  PROVE  IInv'
<1>1. CASE Read(r)
  BY <1>1, AnswerKeepsInv DEF Read, Statuses
<1>2. CASE ModelFails(r)
  <2>1. Answer(r, 422) \/ Answer(r, 503)
    BY <1>2 DEF ModelFails
  <2>2. QED
    BY <2>1, AnswerKeepsInv DEF Statuses
<1>3. CASE SkipItem(r)
  <2>1. req[r].step \in {"save", "insert"} /\ RollBack(r)
    BY <1>3 DEF SkipItem, At
  <2>2. QED
    BY <2>1, RollBackKeepsInv
<1>4. CASE Raise(r)
  BY <1>4, AnswerKeepsInv DEF Raise, Statuses
<1>5. QED
  BY <1>1, <1>2, <1>3, <1>4

\* A request that has come in, looked at or turned away.
Admitted(kind, k, d, a, s, c) ==
  [Fresh EXCEPT !.kind = kind, !.key = k, !.device = d, !.agent = a, !.step = s, !.status = c]

\* What it is, field by field.
LEMMA Admission ==
  ASSUME NEW kind \in Kinds, NEW k \in Keys, NEW d \in Devices \cup {Nobody},
         NEW a \in Agents \cup {Nobody}, NEW s \in Steps, NEW c \in Statuses
  PROVE  /\ Admitted(kind, k, d, a, s, c) \in Request
         /\ Admitted(kind, k, d, a, s, c).key = k /\ Admitted(kind, k, d, a, s, c).step = s
<1> PICK n : n = Admitted(kind, k, d, a, s, c)
  OBVIOUS
<1> DEFINE e == [Fresh EXCEPT !.kind = kind]
           f == [e EXCEPT !.key = k]
           g == [f EXCEPT !.device = d]
           h == [g EXCEPT !.agent = a]
           i == [h EXCEPT !.step = s]
<1>1. n = [i EXCEPT !.status = c]
  BY Zenon DEF Admitted
<1>2. e \in Request
  BY FreshType DEF Request
<1> HIDE DEF e
<1>3. f \in Request /\ f.key = k
  BY <1>2 DEF Request
<1> HIDE DEF f
<1>4. g \in Request /\ g.key = k
  BY <1>3 DEF Request
<1> HIDE DEF g
<1>5. h \in Request /\ h.key = k
  BY <1>4 DEF Request
<1> HIDE DEF h
<1>6. i \in Request /\ i.key = k /\ i.step = s
  BY <1>5 DEF Request, Steps, Working
<1> HIDE DEF i
<1>7. QED
  BY <1>1, <1>6 DEF Request, Statuses

\* A request comes in: it holds nothing, and what is off was off before or turns it away.
LEMMA AuthenticateKeepsInv ==
  ASSUME IInv, NEW r \in Requests, NEW kind \in Kinds, NEW k \in Keys,
         NEW d \in Devices \cup {Nobody}, NEW a \in Agents \cup {Nobody},
         Authenticate(r, kind, k, d, a)
  PROVE  IInv'
<1> USE Constants
<1> DEFINE known == k \in rows /\ {k, User} \cap off = {}
<1>1. PICK n : /\ Step(r, n)
               /\ n = [Fresh EXCEPT !.kind = kind, !.key = k, !.device = d, !.agent = a,
                                    !.step = IF known THEN "resolve" ELSE "done",
                                    !.status = IF known THEN 0 ELSE 401]
  BY Zenon DEF Authenticate
<1>2. /\ n \in Request /\ n.key = k /\ n.step \in {"resolve", "done"}
      /\ n.step = "resolve" => known
  <2>1. PICK s \in {"resolve", "done"} : s = IF known THEN "resolve" ELSE "done"
    OBVIOUS
  <2>2. PICK c \in Statuses : c = IF known THEN 0 ELSE 401
    BY DEF Statuses
  <2>3. n = Admitted(kind, k, d, a, s, c)
    BY <1>1, <2>1, <2>2, Zenon DEF Admitted
  <2>4. s \in Steps
    BY <2>1 DEF Steps
  <2>5. n \in Request /\ n.key = k /\ n.step = s
    BY <2>2, <2>3, <2>4, Admission
  <2>6. QED
    BY <2>1, <2>5
<1>3. /\ req' = [req EXCEPT ![r] = n] /\ dropped' = [dropped EXCEPT ![r] = {}]
      /\ UNCHANGED <<rows, off, bound, forms, held, memories>> /\ req[r].step = "idle"
  BY <1>1 DEF Authenticate, Step, At
<1> HIDE DEF known
<1>4. /\ req' \in [Requests -> Request] /\ req'[r] = n
      /\ \A p \in Requests \ {r} : req'[p] = req[p] /\ dropped'[p] = dropped[p]
      /\ dropped' \in [Requests -> SUBSET Parties] /\ dropped'[r] = {}
  BY <1>2, <1>3 DEF IInv, TypeOK
<1>5. TypeOK'
  BY <1>3, <1>4 DEF IInv, TypeOK
<1>6. InHand' /\ AgentAtHand'
  BY <1>2, <1>3, <1>4 DEF IInv, InHand, AgentAtHand, Working, Writing
<1>7. HoldsItsOwn'
  <2>1. \A e \in Entries : held[e] # r
    BY <1>3, Known DEF Working
  <2>2. \A e \in Entries : held[e] # Nobody => held[e] \in Requests \ {r}
    BY <2>1 DEF IInv, TypeOK
  <2>3. QED
    BY <1>3, <1>4, <2>2 DEF IInv, HoldsItsOwn
<1>8. WrittenByWriters' /\ AgentUnlessUndone'
  <2>1. \A m \in memories : m.by \in Requests \ {r}
    BY <1>3 DEF IInv, TypeOK, WrittenByWriters, Writing, Working
  <2>2. QED
    BY <1>3, <1>4, <2>1 DEF IInv, WrittenByWriters, AgentUnlessUndone
<1>9. LookedAt'
  <2>1. n.step = "resolve" => {User, n.key} \cap off = {}
    BY <1>2 DEF known
  <2>2. QED
    BY <1>2, <1>3, <1>4, <2>1 DEF IInv, LookedAt, Asked
<1>10. QED
  BY <1>5, <1>6, <1>7, <1>8, <1>9 DEF IInv

-----------------------------------------------------------------------------
(* The administrator's forms. *)

\* A form leaves the requests alone; what it switches off is written down for all of them.
LEMMA FormKeepsInv ==
  ASSUME IInv, forms' \in 0..MaxForms, UNCHANGED <<held, memories, req>>,
         rows \subseteq rows', rows' \subseteq Entries, \A e \in rows' : held[e] = Nobody,
         bound' \in [Devices -> Agents \cup {Nobody}],
         off' \subseteq Parties, off' \subseteq rows' \cup {User},
         dropped' \in [Requests -> SUBSET Parties],
         \A r \in Requests : dropped[r] \subseteq dropped'[r],
         \A r \in Asked : off' \ off \subseteq dropped'[r]
  PROVE  IInv'
<1>1. TypeOK'
  BY DEF IInv, TypeOK
<1>2. InHand' /\ HoldsItsOwn' /\ WrittenByWriters'
  BY DEF IInv, InHand, HoldsItsOwn, WrittenByWriters
<1>3. AgentAtHand' /\ AgentUnlessUndone'
  BY DEF IInv, AgentAtHand, AgentUnlessUndone
<1>4. LookedAt'
  <2>1. Asked' = Asked /\ Asked \subseteq Requests
    BY DEF Asked
  <2>2. ASSUME NEW r \in Asked
        PROVE  /\ {User, req[r].key} \cap off' \subseteq dropped'[r]
               /\ req[r].step # "resolve" => {req[r].device, req[r].agent} \cap off' \subseteq dropped'[r]
    BY <2>1 DEF IInv, LookedAt
  <2>3. QED
    BY <2>1, <2>2 DEF LookedAt
<1>5. QED
  BY <1>1, <1>2, <1>3, <1>4 DEF IInv

\* Nobody has inserted a device or a key, nor an agent no request has named.
LEMMA NotHeld ==
  ASSUME IInv, NEW e \in Entries,
         e \in Devices \cup Keys \/ (e \in Agents /\ \A r \in Asked : req[r].agent # e)
  PROVE  held[e] = Nobody
BY Constants DEF IInv, HoldsItsOwn, TypeOK, Asked, Working

\* Each form of the administrator keeps the invariant.
LEMMA FormsKeepInv ==
  ASSUME IInv,
         \/ \E a \in Agents : CreateAgentForm(a) \/ \E d \in Devices : BindDevice(d, a)
         \/ \E k \in Keys : CreateKey(k) \/ RevokeKey(k)
         \/ \E x \in Parties : Toggle(x)
  PROVE  IInv'
<1> USE Constants
<1>1. /\ rows \subseteq Entries /\ off \subseteq Parties /\ off \subseteq rows \cup {User}
      /\ forms \in 0..MaxForms /\ dropped \in [Requests -> SUBSET Parties]
      /\ bound \in [Devices -> Agents \cup {Nobody}] /\ \A e \in rows : held[e] = Nobody
  BY DEF IInv, TypeOK, LookedAt
<1>2. ASSUME Form PROVE forms' \in 0..MaxForms /\ UNCHANGED <<held, memories, req>>
  BY <1>1, <1>2 DEF Form
<1>3. ASSUME NEW a \in Agents, CreateAgentForm(a) PROVE IInv'
  <2>1. a \in Entries /\ held[a] = Nobody
    BY <1>3, NotHeld DEF CreateAgentForm, Entries
  <2>2. QED
    BY <1>1, <1>2, <1>3, <2>1, FormKeepsInv DEF CreateAgentForm
<1>4. ASSUME NEW a \in Agents, NEW d \in Devices, BindDevice(d, a) PROVE IInv'
  <2>1. d \in Entries /\ held[d] = Nobody
    BY NotHeld DEF Entries
  <2>2. QED
    BY <1>1, <1>2, <1>4, <2>1, FormKeepsInv DEF BindDevice
<1>5. ASSUME NEW k \in Keys, CreateKey(k) PROVE IInv'
  <2>1. k \in Entries /\ held[k] = Nobody
    BY NotHeld DEF Entries
  <2>2. QED
    BY <1>1, <1>2, <1>5, <2>1, FormKeepsInv DEF CreateKey
<1>6. ASSUME NEW k \in Keys, RevokeKey(k) PROVE IInv'
  <2>1. k \in Parties
    BY DEF Parties
  <2>2. /\ dropped' \in [Requests -> SUBSET Parties]
        /\ \A r \in Requests : dropped[r] \subseteq dropped'[r]
        /\ \A r \in Asked : off' \ off \subseteq dropped'[r]
    BY <1>1, <1>6, <2>1 DEF RevokeKey, Asked
  <2>3. QED
    BY <1>1, <1>2, <1>6, <2>1, <2>2, FormKeepsInv DEF RevokeKey
<1>7. ASSUME NEW x \in Parties, Toggle(x) PROVE IInv'
  <2>1. /\ dropped' \in [Requests -> SUBSET Parties]
        /\ \A r \in Requests : dropped[r] \subseteq dropped'[r]
        /\ \A r \in Asked : off' \ off \subseteq dropped'[r]
    BY <1>1, <1>7 DEF Toggle, Asked
  <2>2. off' \subseteq Parties /\ off' \subseteq rows \cup {User}
    BY <1>1, <1>7 DEF Toggle
  <2>3. QED
    BY <1>1, <1>2, <1>7, <2>1, <2>2, FormKeepsInv DEF Toggle
<1>8. QED
  BY <1>3, <1>4, <1>5, <1>6, <1>7
-----------------------------------------------------------------------------
(* The theorems. *)

\* Every step of the system preserves the invariant.
LEMMA NextKeepsInv == IInv /\ [Next]_vars => IInv'
<1> SUFFICES ASSUME IInv, [Next]_vars PROVE IInv'
  OBVIOUS
<1>1. CASE UNCHANGED vars
  BY <1>1 DEF vars, IInv, TypeOK, InHand, HoldsItsOwn, AgentAtHand, WrittenByWriters, LookedAt,
     Asked, AgentUnlessUndone
<1>2. ASSUME NEW r \in Requests, Work(r) PROVE IInv'
  BY <1>2, ResolveKeepsInv, CreateAgentKeepsInv, EndingKeepsInv, DeleteKeepsInv,
     ModelAnswersKeepsInv, FindCategoryKeepsInv, InsertCategoryKeepsInv, CommitKeepsInv DEF Work
<1>3. ASSUME NEW r \in Requests, NEW kind \in Kinds, NEW k \in Keys,
             NEW d \in Devices \cup {Nobody}, NEW a \in Agents \cup {Nobody},
             Authenticate(r, kind, k, d, a)
      PROVE  IInv'
  BY <1>3, AuthenticateKeepsInv
<1>4. ASSUME NEW r \in Requests, Raise(r) PROVE IInv'
  BY <1>4, EndingKeepsInv
<1>5. CASE Next
  BY <1>1, <1>2, <1>3, <1>4, <1>5, FormsKeepInv DEF Next, Terminating
<1>6. QED
  BY <1>1, <1>5

\* In every state of the service the invariant holds: resolve_memory_identity, the
\* handlers of api/routes.py and the administrator's forms together keep it.
THEOREM Invariant == Spec => []IInv
BY InitInv, NextKeepsInv, PTL DEF Spec

\* The state has its type; no unique index holds an entry that is committed and yet
\* somebody's uncommitted insertion.
THEOREM TypeCorrect == Spec => []TypeOK
<1>1. IInv => TypeOK
  BY DEF IInv
<1>2. QED
  BY <1>1, Invariant, PTL

\* Whatever the requests and the forms, in whatever order: a memory whose agent has no row
\* was written by a request that had created that row and then rolled it back.
THEOREM AgentsKept == Spec => []AgentUnlessUndone
<1>1. IInv => AgentUnlessUndone
  BY DEF IInv
<1>2. QED
  BY <1>1, Invariant, PTL

\* A memory written for a party that is off means that the party was switched off after
\* the one look at it: get_current_user looks at the user and the key, and
\* resolve_memory_identity at the device and the agent.
THEOREM OnlyForThoseOn == Spec => OnlyWhileOn
<1> DEFINE Attended == \A m \in memories' \ memories :
             {User, req[m.by].key, req[m.by].device, m.agent} \cap off \subseteq dropped[m.by]
<1>1. IInv /\ [Next]_vars => [Attended]_vars
  <2> SUFFICES ASSUME IInv, Next, NEW m \in memories' \ memories
               PROVE  {User, req[m.by].key, req[m.by].device, m.agent} \cap off \subseteq dropped[m.by]
    OBVIOUS
  <2>1. PICK r \in Requests : Commit(r)
    <3>1. memories' # memories
      OBVIOUS
    <3>2. ASSUME NEW r \in Requests, NEW status, Answer(r, status) PROVE FALSE
      BY <3>1, <3>2 DEF Answer
    <3>3. ASSUME NEW r \in Requests, RollBack(r) PROVE FALSE
      BY <3>1, <3>3, Zenon DEF RollBack
    <3>4. ASSUME NEW r \in Requests, Resolve(r) PROVE FALSE
      BY <3>1, <3>2, <3>4, Zenon DEF Resolve
    <3>5. ASSUME NEW r \in Requests, ModelAnswers(r) PROVE FALSE
      BY <3>1, <3>2, <3>5, Zenon DEF ModelAnswers
    <3>6. ASSUME NEW r \in Requests, CreateAgent(r) \/ Read(r) \/ Delete(r) \/ ModelFails(r) \/ Raise(r)
          PROVE  FALSE
      <4>1. CASE CreateAgent(r)
        BY <3>1, <3>2, <4>1, Zenon DEF CreateAgent
      <4>2. CASE Read(r)
        BY <3>2, <4>2, Zenon DEF Read
      <4>3. CASE Delete(r)
        BY <3>1, <4>3, Zenon DEF Delete
      <4>4. CASE ModelFails(r)
        BY <3>2, <4>4, Zenon DEF ModelFails
      <4>5. CASE Raise(r)
        BY <3>2, <4>5, Zenon DEF Raise
      <4>6. QED
        BY <3>6, <4>1, <4>2, <4>3, <4>4, <4>5, Zenon
    <3>7. ASSUME NEW r \in Requests, NEW c \in Categories, FindCategory(r, c) PROVE FALSE
      BY <3>1, <3>7, Zenon DEF FindCategory
    <3>8. ASSUME NEW r \in Requests, InsertCategory(r) \/ SkipItem(r) PROVE FALSE
      BY <3>1, <3>3, <3>8, Zenon DEF InsertCategory, SkipItem
    <3>9. ASSUME NEW r \in Requests, Work(r) PROVE Commit(r)
      BY <3>4, <3>5, <3>6, <3>7, <3>8, <3>9 DEF Work
    <3>10. ASSUME NEW r, NEW kind, NEW k, NEW d, NEW a, Authenticate(r, kind, k, d, a) PROVE FALSE
      BY <3>1, <3>10, Zenon DEF Authenticate
    <3>11. ~Form /\ ~Terminating
      BY <3>1 DEF Form, Terminating, vars
    <3>12. QED
      BY <3>6, <3>9, <3>10, <3>11, Zenon DEF Next, CreateAgentForm, BindDevice, CreateKey,
         RevokeKey, Toggle
  <2>2. m.by = r /\ m.agent = req[r].agent /\ req[r].step = "commit"
    BY <2>1 DEF Commit, At
  <2>3. QED
    BY <2>2, Known
<1>2. QED
  BY <1>1, Invariant, PTL DEF Spec, OnlyWhileOn

-----------------------------------------------------------------------------
(* Why everyone is answered, but for the fairness. *)

\* Whoever waits waits for somebody who waits for nobody, or for somebody who does: agents are
\* inserted before categories, and who has inserted a category only commits.
THEOREM NoCircle == Spec => []ShortQueues
<1>1. IInv => ShortQueues
  <2> SUFFICES ASSUME IInv, NEW r \in Requests, NEW p \in WaitsFor(r), NEW q \in WaitsFor(p)
               PROVE  WaitsFor(q) = {}
    BY DEF ShortQueues
  <2>1. p \in Requests /\ q \in Requests /\ p # Nobody /\ q # Nobody
    BY Constants DEF WaitsFor
  <2>2. \/ At(r, "create") /\ held[req[r].agent] = p
        \/ At(r, "insert") /\ held[req[r].category] = p
    BY DEF WaitsFor
  <2>3. \/ At(p, "create") /\ held[req[p].agent] = q
        \/ At(p, "insert") /\ held[req[p].category] = q
    BY DEF WaitsFor
  <2>4. /\ At(r, "create") => req[r].agent \in Agents
        /\ At(r, "insert") => req[r].category \in Categories
        /\ At(p, "insert") => req[p].category \in Categories
    BY <2>1 DEF IInv, InHand, At, Working
  <2>5. ASSUME NEW e \in Categories, NEW t \in Requests, held[e] = t PROVE req[t].step = "commit"
    <3>1. e \in Entries /\ e \notin Agents /\ held[e] # Nobody
      BY <2>5, Constants DEF Entries
    <3>2. QED
      BY <2>5, <3>1 DEF IInv, HoldsItsOwn
  <2>6. ASSUME NEW e \in Agents, NEW t \in Requests, held[e] = t PROVE req[t].step \in Working
    <3>1. e \in Entries /\ e \notin Categories /\ held[e] # Nobody
      BY <2>6, Constants DEF Entries
    <3>2. QED
      BY <2>6, <3>1 DEF IInv, HoldsItsOwn
  <2>7. req[p].step \in Working
    BY <2>1, <2>2, <2>4, <2>5, <2>6 DEF Working
  <2>8. req[q].step = "commit"
    BY <2>1, <2>3, <2>4, <2>5, <2>7 DEF At, Working
  <2>9. QED
    BY <2>8 DEF WaitsFor, At
<1>2. QED
  BY <1>1, Invariant, PTL

\* What a request has left to do is a number, more than nothing until it is answered.
LEMMA Left ==
  ASSUME NEW q \in Request, q.step \in Writing => q.left >= 1
  PROVE  /\ Rounds(q) \in 0..(MaxItems + 2)
         /\ q.step \in Writing => Rounds(q) >= 1
         /\ StepsLeft(q) \in Nat
         /\ q.step # "done" => StepsLeft(q) > 0
<1> USE Constants
<1>1. q.left \in 0..(MaxItems + 1) /\ q.again \in BOOLEAN
  BY DEF Request
<1>2. Rounds(q) \in 0..(MaxItems + 2) /\ (q.left >= 1 => Rounds(q) >= 1)
  BY <1>1 DEF Rounds
<1>3. q.step \in {"idle", "resolve", "create", "done", "work", "save", "insert", "commit"}
  BY DEF Request, Working
<1>4. StepsLeft(q) \in Nat /\ (q.step # "done" => StepsLeft(q) > 0)
  BY <1>2, <1>3 DEF StepsLeft, Writing, Working
<1>5. QED
  BY <1>2, <1>4

\* What a request does next: on to a later step, or back to the next round.
Onward(q, n) ==
  \/ q.step # "done" /\ n.step = "done"
  \/ q.step = "idle" /\ n.step = "resolve"
  \/ q.step = "resolve" /\ n.step \in {"create", "work"}
  \/ q.step = "create" /\ n.step = "work"
  \/ q.step = "work" /\ n.step = "save"
  \/ q.step = "save" /\ n.step \in {"insert", "commit"} /\ Rounds(n) = Rounds(q)
  \/ q.step = "insert" /\ n.step = "commit" /\ Rounds(n) = Rounds(q)
  \/ q.step \in Writing /\ n.step = "save" /\ Rounds(n) = Rounds(q) - 1

\* The step of a request that moves it on.
Moved(r) == \E n : Step(r, n) /\ Onward(req[r], n)

\* What a request that moves on has left to do is less than before; the others have what
\* they had.
LEMMA Counts ==
  ASSUME IInv, IInv', NEW r \in Requests, Moved(r)
  PROVE  \E t \in Requests : /\ StepsLeft(req'[t]) \in Nat /\ StepsLeft(req'[t]) < StepsLeft(req[t])
                             /\ \A p \in Requests \ {t} : req'[p] = req[p]
<1> USE Constants
<1>1. PICK n : Step(r, n) /\ Onward(req[r], n)
  BY DEF Moved
<1>2. req'[r] = n /\ \A p \in Requests \ {r} : req'[p] = req[p]
  BY <1>1 DEF IInv, TypeOK, Step
<1>3. /\ req[r] \in Request /\ (req[r].step \in Writing => req[r].left >= 1)
      /\ n \in Request /\ (n.step \in Writing => n.left >= 1)
  BY <1>2 DEF IInv, TypeOK, InHand
<1>4. /\ StepsLeft(n) \in Nat /\ Rounds(n) \in 0..(MaxItems + 2)
      /\ Rounds(req[r]) \in 0..(MaxItems + 2)
      /\ req[r].step # "done" => StepsLeft(req[r]) > 0
  BY <1>3, Left
<1>5. StepsLeft(n) < StepsLeft(req[r])
  <2>1. CASE n.step = "done"
    BY <1>1, <1>4, <2>1 DEF Onward, StepsLeft, Writing, Working
  <2>2. CASE n.step \in {"resolve", "create", "work"}
    BY <1>1, <2>2 DEF Onward, StepsLeft
  <2>3. CASE n.step \in {"save", "insert", "commit"}
    <3>1. CASE req[r].step = "work"
      BY <1>4, <2>3, <3>1 DEF Onward, StepsLeft, Writing, Working
    <3>2. CASE req[r].step \in Writing
      BY <1>1, <1>4, <2>3, <3>2 DEF Onward, StepsLeft, Writing, Working
    <3>3. QED
      BY <1>1, <2>3, <3>1, <3>2 DEF Onward, Writing, Working
  <2>4. QED
    BY <1>1, <2>1, <2>2, <2>3 DEF Onward
<1>6. QED
  BY <1>2, <1>4, <1>5

\* An answer moves a request on.
LEMMA AnswerMoves ==
  ASSUME IInv, NEW r \in Requests, req[r].step # "done", NEW status \in Statuses,
         Step(r, Answered(req[r], status))
  PROVE  Moved(r)
BY AnsweredType, Known DEF Moved, Onward

\* A request that comes in is let in or turned away.
LEMMA AuthenticateMoves ==
  ASSUME IInv, NEW r \in Requests, NEW kind \in Kinds, NEW k \in Keys,
         NEW d \in Devices \cup {Nobody}, NEW a \in Agents \cup {Nobody},
         Authenticate(r, kind, k, d, a)
  PROVE  Moved(r)
<1> DEFINE known == k \in rows /\ {k, User} \cap off = {}
<1>1. PICK s \in {"resolve", "done"} : s = IF known THEN "resolve" ELSE "done"
  OBVIOUS
<1>2. PICK c \in Statuses : c = IF known THEN 0 ELSE 401
  BY DEF Statuses
<1>3. Step(r, Admitted(kind, k, d, a, s, c))
  BY <1>1, <1>2, Zenon DEF Authenticate, Admitted
<1>4. Admitted(kind, k, d, a, s, c).step = s
  BY <1>1, <1>2, Admission DEF Steps
<1>5. req[r].step = "idle"
  BY DEF Authenticate, At
<1>6. QED
  BY <1>1, <1>3, <1>4, <1>5 DEF Moved, Onward

\* Looking for the agent comes once in a request's life.
LEMMA ResolveMoves ==
  ASSUME IInv, NEW r \in Requests, Resolve(r) \/ CreateAgent(r)
  PROVE  Moved(r)
<1>1. ASSUME NEW status \in Statuses, Answer(r, status), req[r].step # "done" PROVE Moved(r)
  BY <1>1, AnswerMoves DEF Answer
<1>2. CASE Resolve(r)
  <2> DEFINE d == req[r].device
             a == IF d = Nobody THEN req[r].agent ELSE bound[d]
             s == IF a \in rows THEN "work" ELSE "create"
  <2>1. req[r].step = "resolve" /\ req[r] \in Request
    BY <1>2, Known DEF Resolve, At
  <2>2. CASE Answer(r, 422) \/ Answer(r, 403)
    BY <1>1, <2>1, <2>2 DEF Statuses
  <2>3. CASE Step(r, [req[r] EXCEPT !.agent = a, !.step = s])
    <3>1. [req[r] EXCEPT !.agent = a, !.step = s].step = s
      <4> HIDE DEF a, s
      <4>1. QED
        BY <2>1 DEF Request
    <3>2. s \in {"create", "work"}
      OBVIOUS
    <3> HIDE DEF a, s
    <3>3. QED
      BY <2>1, <2>3, <3>1, <3>2 DEF Moved, Onward
  <2>4. QED
    BY <1>2, <2>2, <2>3 DEF Resolve
<1>3. CASE CreateAgent(r)
  <2>1. req[r].step = "create" /\ req[r] \in Request
    BY <1>3, Known DEF CreateAgent, At
  <2>2. CASE Answer(r, 500)
    BY <1>1, <2>1, <2>2 DEF Statuses
  <2>3. CASE Step(r, [req[r] EXCEPT !.step = "work"])
    <3>1. [req[r] EXCEPT !.step = "work"].step = "work"
      BY <2>1 DEF Request
    <3>2. QED
      BY <2>1, <2>3, <3>1 DEF Moved, Onward
  <2>4. QED
    BY <1>3, <2>2, <2>3 DEF CreateAgent
<1>4. QED
  BY <1>2, <1>3

\* What comes before the writing, and every way to end without it.
LEMMA EarlyMoves ==
  ASSUME IInv, NEW r \in Requests,
         ModelAnswers(r) \/ ModelFails(r) \/ Read(r) \/ Delete(r) \/ Raise(r)
  PROVE  Moved(r)
<1>1. ASSUME NEW status \in Statuses, Answer(r, status), req[r].step # "done" PROVE Moved(r)
  BY <1>1, AnswerMoves DEF Answer
<1>2. CASE ModelAnswers(r)
  <2>1. req[r].step = "work" /\ req[r] \in Request
    BY <1>2, Known DEF ModelAnswers, At
  <2>2. CASE Answer(r, 200)
    BY <1>1, <2>1, <2>2 DEF Statuses
  <2>3. ASSUME NEW i, Step(r, [req[r] EXCEPT !.step = "save", !.left = i]) PROVE Moved(r)
    <3>1. [req[r] EXCEPT !.step = "save", !.left = i].step = "save"
      BY <2>1 DEF Request
    <3>2. QED
      BY <2>1, <2>3, <3>1 DEF Moved, Onward
  <2>4. QED
    BY <1>2, <2>2, <2>3, Zenon DEF ModelAnswers
<1>3. CASE ModelFails(r)
  <2>1. Answer(r, 422) \/ Answer(r, 503)
    BY <1>3 DEF ModelFails
  <2>2. QED
    BY <1>1, <1>3, <2>1 DEF ModelFails, At, Statuses
<1>4. CASE Read(r)
  BY <1>1, <1>4 DEF Read, At, Statuses
<1>5. CASE Delete(r)
  BY <1>5, AnswerMoves DEF Delete, At, Statuses
<1>6. CASE Raise(r)
  BY <1>1, <1>6 DEF Raise, Working, Statuses
<1>7. QED
  BY <1>2, <1>3, <1>4, <1>5, <1>6

\* A rollback uses up the second try, or an item.
LEMMA RollBackMoves ==
  ASSUME IInv, NEW r \in Requests, req[r].step \in {"save", "insert"}, RollBack(r)
  PROVE  Moved(r)
<1> DEFINE u == req[r].undone \/ held[req[r].agent] = r
<1>1. PICK q : q = [req[r] EXCEPT !.undone = u]
  OBVIOUS
<1>2. q \in Request /\ Undone(q, req[r], u)
  <2>1. PICK x \in BOOLEAN : x = u
    OBVIOUS
  <2>2. q = [req[r] EXCEPT !.undone = x]
    BY <1>1, <2>1, Zenon
  <2>3. Undone(q, req[r], x)
    BY <2>2, WithUndone, Known, Zenon
  <2>4. QED
    BY <2>1, <2>3 DEF Undone
<1>3. Step(r, IF q.kind = "write"
              THEN IF q.again THEN Answered(q, 500)
                              ELSE [q EXCEPT !.step = "save", !.again = TRUE]
              ELSE IF q.left = 1 THEN Answered(q, 200)
                                 ELSE [q EXCEPT !.step = "save", !.left = q.left - 1])
  BY <1>1, Zenon DEF RollBack
<1> HIDE DEF u
<1>4. ASSUME NEW status \in Statuses, Step(r, Answered(q, status)) PROVE Moved(r)
  BY <1>2, <1>4, AnsweredType DEF Moved, Onward
<1>5. CASE q.kind = "write" /\ ~q.again
  <2>1. PICK n : n = [q EXCEPT !.step = "save", !.again = TRUE]
    OBVIOUS
  <2>2. Step(r, n)
    BY <1>3, <1>5, <2>1, Zenon
  <2>3. n.step = "save" /\ n.again /\ n.left = q.left
    BY <1>2, <2>1 DEF Request
  <2>4. Rounds(n) = Rounds(req[r]) - 1
    BY <1>2, <1>5, <2>3 DEF Rounds, Undone, Request
  <2>5. QED
    BY <2>2, <2>3, <2>4 DEF Moved, Onward, Writing, Working
<1>6. CASE q.kind # "write" /\ q.left # 1
  <2>1. PICK n : n = [q EXCEPT !.step = "save", !.left = q.left - 1]
    OBVIOUS
  <2>2. Step(r, n)
    BY <1>3, <1>6, <2>1, Zenon
  <2>3. n.step = "save" /\ n.again = q.again /\ n.left = q.left - 1
    BY <1>2, <2>1 DEF Request
  <2>4. Rounds(n) = Rounds(req[r]) - 1
    BY <1>2, <2>3 DEF Rounds, Undone, Request
  <2>5. QED
    BY <2>2, <2>3, <2>4 DEF Moved, Onward, Writing, Working
<1>7. CASE (q.kind = "write" /\ q.again) \/ (q.kind # "write" /\ q.left = 1)
  <2>1. Step(r, Answered(q, 500)) \/ Step(r, Answered(q, 200))
    BY <1>3, <1>7
  <2>2. QED
    BY <1>4, <2>1 DEF Statuses
<1>8. QED
  BY <1>5, <1>6, <1>7

\* A category is looked for and, if need be, inserted or found inserted by somebody else.
LEMMA CategoryMoves ==
  ASSUME IInv, NEW r \in Requests,
         \/ \E c \in Categories : FindCategory(r, c)
         \/ InsertCategory(r) \/ SkipItem(r)
  PROVE  Moved(r)
<1>1. req[r] \in Request
  BY Known
<1>2. ASSUME NEW c \in Categories, FindCategory(r, c) PROVE Moved(r)
  <2>1. PICK y \in {"insert", "commit"} : y = IF c \in rows THEN "commit" ELSE "insert"
    OBVIOUS
  <2>2. PICK n : n = [req[r] EXCEPT !.category = c, !.step = y]
    OBVIOUS
  <2>3. Step(r, n)
    BY <1>2, <2>1, <2>2, Zenon DEF FindCategory
  <2>4. n.step = y /\ Rounds(n) = Rounds(req[r])
    BY <1>1, <2>2 DEF Request, Rounds
  <2>5. QED
    BY <1>2, <2>3, <2>4 DEF FindCategory, At, Moved, Onward
<1>3. CASE InsertCategory(r)
  <2>1. CASE RollBack(r)
    BY <1>3, <2>1, RollBackMoves DEF InsertCategory, At
  <2>2. CASE Step(r, [req[r] EXCEPT !.step = "commit"])
    <3>1. PICK n : n = [req[r] EXCEPT !.step = "commit"]
      OBVIOUS
    <3>2. n.step = "commit" /\ Rounds(n) = Rounds(req[r])
      BY <1>1, <3>1 DEF Request, Rounds
    <3>3. QED
      BY <1>3, <2>2, <3>1, <3>2 DEF InsertCategory, At, Moved, Onward
  <2>3. QED
    BY <1>3, <2>1, <2>2 DEF InsertCategory
<1>4. CASE SkipItem(r)
  BY <1>4, RollBackMoves DEF SkipItem, At
<1>5. QED
  BY <1>2, <1>3, <1>4

\* A commit is the end of a write, and of an item of an extraction.
LEMMA CommitMoves ==
  ASSUME IInv, NEW r \in Requests, Commit(r)
  PROVE  Moved(r)
<1>1. req[r] \in Request /\ req[r].step = "commit"
  BY Known DEF Commit, At
<1>2. CASE Step(r, Answered(req[r], 200))
  BY <1>1, <1>2, AnswerMoves DEF Statuses
<1>3. CASE Step(r, [req[r] EXCEPT !.step = "save", !.left = req[r].left - 1])
  <2>1. PICK n : n = [req[r] EXCEPT !.step = "save", !.left = req[r].left - 1]
    OBVIOUS
  <2>2. n.step = "save" /\ Rounds(n) = Rounds(req[r]) - 1
    BY <1>1, <2>1 DEF Request, Rounds
  <2>3. QED
    BY <1>1, <1>3, <2>1, <2>2 DEF Moved, Onward, Writing, Working
<1>4. QED
  BY <1>2, <1>3, Zenon DEF Commit

\* Whatever the requests, their number and the rollbacks: each step of one of them leaves it
\* less to do, out of a number it can never run below, and each other step is one of the
\* administrator's forms.  So nobody's retries or skipped items go on for ever.
THEOREM StepsCount == Spec => EveryStepCounts
<1> DEFINE Counted ==
      \/ \E r \in Requests : /\ StepsLeft(req'[r]) \in Nat /\ StepsLeft(req'[r]) < StepsLeft(req[r])
                             /\ \A p \in Requests \ {r} : req'[p] = req[p]
      \/ req' = req /\ forms' = forms + 1 /\ forms' <= MaxForms
<1>1. IInv /\ [Next]_vars => [Counted]_vars
  <2> SUFFICES ASSUME IInv, Next, ~UNCHANGED vars PROVE Counted
    OBVIOUS
  <2>1. IInv'
    BY NextKeepsInv
  <2>2. ASSUME NEW r \in Requests, Moved(r) PROVE Counted
    BY <2>1, <2>2, Counts
  <2>3. ASSUME Form PROVE Counted
    BY <2>3, Constants DEF Form, IInv, TypeOK
  <2> HIDE DEF Counted
  <2>4. ASSUME NEW r \in Requests, Work(r) PROVE Counted
    BY <2>2, <2>4, ResolveMoves, EarlyMoves, CategoryMoves, CommitMoves DEF Work
  <2>5. ASSUME NEW r \in Requests, NEW kind \in Kinds, NEW k \in Keys,
               NEW d \in Devices \cup {Nobody}, NEW a \in Agents \cup {Nobody},
               Authenticate(r, kind, k, d, a)
        PROVE  Counted
    BY <2>2, <2>5, AuthenticateMoves
  <2>6. ASSUME NEW r \in Requests, Raise(r) PROVE Counted
    BY <2>2, <2>6, EarlyMoves
  <2>7. ~Terminating
    BY DEF Terminating
  <2>8. QED
    BY <2>3, <2>4, <2>5, <2>6, <2>7
       DEF Next, CreateAgentForm, BindDevice, CreateKey, RevokeKey, Toggle
<1>2. QED
  BY <1>1, Invariant, PTL DEF Spec, EveryStepCounts
===============================================================================
