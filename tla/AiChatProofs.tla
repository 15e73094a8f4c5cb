----------------------------- MODULE AiChatProofs -----------------------------
(***************************************************************************)
(* What holds of the admin's conversation with the model for any number of *)
(* threads, any statements and settings: the inductive invariant IInv of   *)
(* AiChat and what follows from it.                                        *)
(***************************************************************************)
EXTENDS AiChat, TLAPS

\* The assumption on the constants, as the provers need it.
LEMMA Constants ==
  /\ Statements \subseteq Statement
  /\ PermissionSets \subseteq SUBSET (WriteOps \cup {"select"})
  /\ MaxQueries \in Nat /\ MaxWriteRows \in Nat /\ None \notin Threads
BY AiChatOK

Request == [step : {"idle", "save", "saveAndReply", "plan", "planAgain", "sql", "final", "store"},
            thread : Threads \cup {None}, left : 0..MaxQueries, ran : Seq(BOOLEAN),
            failed : BOOLEAN]
Thread  == [state : {"absent", "open", "deleted"}, title : {"new"} \cup Titles,
            messages : Seq(MessageOK)]
Change  == [reply : ReplyId, nr : 1..MaxQueries, rows : 0..MaxWriteRows]

\* What TypeOK says of the request alone ...
RequestPart == /\ req \in Request /\ Len(req.ran) + req.left <= MaxQueries
               /\ req.step # "idle" => req.thread \in Threads /\ Loaded(req.thread)
               /\ req.step = "sql" <=> req.left > 0

\* ... and of the rest.
TablePart == /\ thread \in [Threads -> Thread]
             /\ usable \in BOOLEAN /\ perms \subseteq WriteOps \cup {"select"}
             /\ begun \in [Threads -> Nat]
             /\ changes \subseteq Change /\ stopped \subseteq ReplyId
             /\ RepliesFollowQuestions

\* TypeOK by its parts.
LEMMA TypeParts == TypeOK <=> RequestPart /\ TablePart
BY DEF TypeOK, RequestPart, TablePart, Request, Thread, Change

\* The same, after a step.
LEMMA NextTypeParts ==
  ASSUME RequestPart', TablePart'
  PROVE  TypeOK'
BY DEF TypeOK, RequestPart, TablePart, Request, Thread, Change

\* A request has its fields.
LEMMA Fields ==
  ASSUME RequestPart
  PROVE  /\ req.step \in {"idle", "save", "saveAndReply", "plan", "planAgain", "sql", "final", "store"}
         /\ req.thread \in Threads \cup {None} /\ req.left \in 0..MaxQueries
         /\ req.ran \in Seq(BOOLEAN) /\ req.failed \in BOOLEAN /\ Len(req.ran) \in Nat
BY DEF RequestPart, Request

\* A thread has its messages.
LEMMA MessagesTyped ==
  ASSUME TablePart, NEW t \in Threads
  PROVE  thread[t] \in Thread /\ Messages(t) \in Seq(MessageOK) /\ Len(Messages(t)) \in Nat
BY DEF TablePart, Thread, Messages

\* The reply being prepared has an identity.
LEMMA ReplyTyped ==
  ASSUME RequestPart, TablePart, req.step # "idle"
  PROVE  ThisReply \in ReplyId
<1>1. req.thread \in Threads
  BY DEF RequestPart
<1>2. Len(Messages(req.thread)) \in Nat /\ begun[req.thread] \in Nat
  BY <1>1, MessagesTyped DEF TablePart
<1>3. Asked \in Nat
  BY <1>2 DEF Asked
<1>4. QED
  BY <1>1, <1>2, <1>3 DEF ThisReply, ReplyId

\* A request sets out with nothing run.
LEMMA IdleTyped ==
  /\ Idle \in Request /\ Idle.step = "idle" /\ Idle.ran = <<>> /\ Idle.left = 0
  /\ Idle.thread = None /\ ~Idle.failed
BY Constants DEF Idle, Request

\* The first state: no message, no request.
LEMMA InitInv == Init => IInv
<1> SUFFICES ASSUME Init PROVE IInv
  OBVIOUS
<1>1. RequestPart
  BY IdleTyped, Constants DEF Init, RequestPart
<1>2. TablePart
  <2>1. <<>> \in Seq(MessageOK)
    OBVIOUS
  <2>2. thread \in [Threads -> Thread]
    BY <2>1 DEF Init, Thread
  <2>3. \A t \in Threads : DOMAIN Messages(t) = {}
    BY DEF Init, Messages
  <2>4. RepliesFollowQuestions
    BY <2>3 DEF RepliesFollowQuestions
  <2>5. QED
    BY <2>2, <2>4 DEF Init, TablePart
<1>3. UnderWay /\ Accounted /\ RunOnceUnlessStopped
  BY IdleTyped DEF Init, UnderWay, Accounted, RunOnceUnlessStopped
<1>4. QED
  BY <1>1, <1>2, <1>3, TypeParts DEF IInv

-----------------------------------------------------------------------------
(* What the steps have in common. *)

\* The reply being prepared goes on, or nothing has been run for it; the tables stay.
LEMMA RequestStep ==
  ASSUME IInv, UNCHANGED <<thread, changes, stopped>>,
         usable' \in BOOLEAN, perms' \subseteq WriteOps \cup {"select"},
         begun' \in [Threads -> Nat], RequestPart', UnderWay',
         req.step \in {"sql", "final", "store"} =>
           /\ req'.step \in {"sql", "final", "store"} /\ req'.thread = req.thread
           /\ req'.ran = req.ran /\ begun' = begun
  PROVE  IInv'
<1>1. RequestPart /\ TablePart /\ Accounted /\ RunOnceUnlessStopped
  BY TypeParts DEF IInv
<1>2. TablePart'
  BY <1>1 DEF TablePart, RepliesFollowQuestions, Messages
<1>3. RunOnceUnlessStopped'
  BY <1>1 DEF RunOnceUnlessStopped
<1>4. ASSUME NEW c \in changes
      PROVE  c.reply \in stopped' \/ ToBeListed(c)' \/ Listed(c)'
  <2>1. Listed(c) => Listed(c)'
    BY DEF Listed, Messages
  <2>2. ToBeListed(c) => ToBeListed(c)'
    BY DEF ToBeListed, ThisReply, Asked, Saving, AtStep, Messages
  <2>3. QED
    BY <1>1, <2>1, <2>2 DEF Accounted
<1>5. Accounted'
  BY <1>4 DEF Accounted
<1>6. QED
  BY <1>2, <1>3, <1>5, NextTypeParts DEF IInv

\* A sequence and one element more.
LEMMA Appended ==
  ASSUME NEW S, NEW s \in Seq(S), NEW e \in S
  PROVE  /\ Append(s, e) \in Seq(S) /\ Len(Append(s, e)) = Len(s) + 1
         /\ Append(s, e)[Len(s) + 1] = e /\ \A i \in 1..Len(s) : Append(s, e)[i] = s[i]
         /\ DOMAIN Append(s, e) = 1..(Len(s) + 1) /\ DOMAIN s = 1..Len(s) /\ Len(s) \in Nat
OBVIOUS

\* A message more at the end of a thread; a reply only behind a question.
LEMMA MessageAdded ==
  ASSUME TablePart, NEW t \in Threads, NEW m \in MessageOK, NEW title \in {"new"} \cup Titles,
         m.role = "assistant" => Messages(t) # <<>> /\ Messages(t)[Len(Messages(t))].role = "user",
         thread' = [thread EXCEPT ![t].messages = Append(@, m), ![t].title = title]
  PROVE  /\ thread' \in [Threads -> Thread] /\ RepliesFollowQuestions'
         /\ \A s \in Threads : thread'[s].state = thread[s].state
         /\ Len(thread'[t].messages) = Len(Messages(t)) + 1
         /\ thread'[t].messages[Len(Messages(t)) + 1] = m
         /\ \A s \in Threads : \A i \in DOMAIN Messages(s) :
              i \in DOMAIN thread'[s].messages /\ thread'[s].messages[i] = Messages(s)[i]
<1>1. thread[t] \in Thread /\ Messages(t) \in Seq(MessageOK) /\ Len(Messages(t)) \in Nat
  BY MessagesTyped
<1>2. thread'[t] = [thread[t] EXCEPT !.messages = Append(Messages(t), m), !.title = title]
  BY DEF TablePart, Messages
<1>3. /\ Append(Messages(t), m) \in Seq(MessageOK)
      /\ Len(Append(Messages(t), m)) = Len(Messages(t)) + 1
      /\ Append(Messages(t), m)[Len(Messages(t)) + 1] = m
      /\ \A i \in 1..Len(Messages(t)) : Append(Messages(t), m)[i] = Messages(t)[i]
      /\ DOMAIN Append(Messages(t), m) = 1..(Len(Messages(t)) + 1)
      /\ DOMAIN Messages(t) = 1..Len(Messages(t))
  BY <1>1, Appended
<1>4. /\ thread'[t] \in Thread /\ thread'[t].messages = Append(Messages(t), m)
      /\ thread'[t].state = thread[t].state
  <2> DEFINE ms == Append(Messages(t), m)
             M  == Seq(MessageOK)
             T  == {"new"} \cup Titles
  <2>1. /\ thread[t] \in [state : {"absent", "open", "deleted"}, title : T, messages : M]
        /\ ms \in M /\ title \in T
    BY <1>1, <1>3 DEF Thread
  <2>2. thread'[t] = [thread[t] EXCEPT !.messages = ms, !.title = title]
    BY <1>2
  <2> HIDE DEF ms, M, T
  <2>3. /\ thread'[t] \in [state : {"absent", "open", "deleted"}, title : T, messages : M]
        /\ thread'[t].messages = ms /\ thread'[t].state = thread[t].state
    BY <2>1, <2>2
  <2>4. QED
    BY <2>3 DEF ms, M, T, Thread
<1>5. \A s \in Threads \ {t} : thread'[s] = thread[s]
  BY DEF TablePart
<1>6. thread' \in [Threads -> Thread]
  BY <1>4 DEF TablePart
<1>7. /\ Len(thread'[t].messages) = Len(Messages(t)) + 1
      /\ thread'[t].messages[Len(Messages(t)) + 1] = m
      /\ \A i \in 1..Len(Messages(t)) : thread'[t].messages[i] = Messages(t)[i]
  BY <1>3, <1>4
<1>8. DOMAIN thread'[t].messages = 1..(Len(Messages(t)) + 1) /\ DOMAIN Messages(t) = 1..Len(Messages(t))
  BY <1>3, <1>4
<1>9. RepliesFollowQuestions'
  <2>1. ASSUME NEW s \in Threads, NEW i \in DOMAIN thread'[s].messages,
               thread'[s].messages[i].role = "assistant"
        PROVE  i > 1 /\ thread'[s].messages[i - 1].role = "user"
    <3>1. CASE s # t
      BY <1>5, <2>1, <3>1 DEF TablePart, RepliesFollowQuestions, Messages
    <3>2. CASE s = t /\ i \in 1..Len(Messages(t))
      <4>1. Messages(t)[i].role = "assistant" /\ i \in DOMAIN Messages(t)
        BY <1>7, <1>8, <2>1, <3>2
      <4>2. i > 1 /\ Messages(t)[i - 1].role = "user"
        BY <4>1 DEF TablePart, RepliesFollowQuestions
      <4>3. i - 1 \in 1..Len(Messages(t))
        BY <1>1, <3>2, <4>2
      <4>4. QED
        BY <1>7, <3>2, <4>2, <4>3
    <3>3. CASE s = t /\ i = Len(Messages(t)) + 1
      <4>1. Messages(t) # <<>> /\ Messages(t)[Len(Messages(t))].role = "user"
        BY <1>7, <2>1, <3>3
      <4>2. Len(Messages(t)) \in 1..Len(Messages(t))
        BY <1>1, <4>1
      <4>3. thread'[t].messages[Len(Messages(t))].role = "user"
        BY <1>7, <4>1, <4>2, Zenon
      <4>4. i - 1 = Len(Messages(t)) /\ i > 1
        BY <1>1, <3>3, <4>2
      <4>5. QED
        BY <3>3, <4>3, <4>4, Zenon
    <3>4. i \in 1..Len(Messages(t)) \/ i = Len(Messages(t)) + 1 \/ s # t
      <4>1. s = t => i \in 1..(Len(Messages(t)) + 1)
        BY <1>8, <2>1, Zenon
      <4>2. QED
        BY <1>1, <4>1
    <3>5. QED
      BY <3>1, <3>2, <3>3, <3>4
  <2>2. QED
    BY <2>1 DEF RepliesFollowQuestions, Messages
<1>10. ASSUME NEW s \in Threads, NEW i \in DOMAIN Messages(s)
       PROVE  i \in DOMAIN thread'[s].messages /\ thread'[s].messages[i] = Messages(s)[i]
  <2>1. CASE s = t
    <3>1. i \in 1..Len(Messages(t))
      BY <1>8, <1>10, <2>1, Zenon
    <3>2. i \in 1..(Len(Messages(t)) + 1)
      BY <1>1, <3>1
    <3>3. i \in DOMAIN thread'[t].messages /\ thread'[t].messages[i] = Messages(t)[i]
      BY <1>7, <1>8, <3>1, <3>2, Zenon
    <3>4. QED
      BY <2>1, <3>3, Zenon
  <2>2. CASE s # t
    BY <1>5, <1>10, <2>2 DEF Messages
  <2>3. QED
    BY <2>1, <2>2
<1>11. QED
  BY <1>4, <1>5, <1>6, <1>7, <1>9, <1>10

\* What is listed stays listed when messages are added.
LEMMA ListedStays ==
  ASSUME NEW c, c.reply.thread \in Threads, Listed(c),
         \A s \in Threads : \A i \in DOMAIN Messages(s) :
           i \in DOMAIN thread'[s].messages /\ thread'[s].messages[i] = Messages(s)[i]
  PROVE  Listed(c)'
BY DEF Listed, Messages

\* What IInv says, by its parts.
LEMMA Known ==
  ASSUME IInv
  PROVE  /\ RequestPart /\ TablePart /\ UnderWay /\ Accounted /\ RunOnceUnlessStopped
         /\ \A c \in changes : c \in Change /\ c.reply \in ReplyId /\ c.reply.thread \in Threads
<1>1. RequestPart /\ TablePart /\ UnderWay /\ Accounted /\ RunOnceUnlessStopped
  BY TypeParts DEF IInv
<1>2. QED
  BY <1>1 DEF TablePart, Change, ReplyId

-----------------------------------------------------------------------------
(* The steps that only concern the request and the settings. *)

\* The settings are saved.
LEMMA SettingsInv ==
  ASSUME IInv, NEW u \in BOOLEAN, NEW p \in PermissionSets, SaveSettings(u, p)
  PROVE  IInv'
<1>1. /\ req.step = "idle" /\ usable' = u /\ perms' = p
      /\ UNCHANGED <<thread, req, begun, changes, stopped>>
  BY DEF SaveSettings, AtStep
<1>2. perms' \subseteq WriteOps \cup {"select"}
  BY <1>1, Constants
<1>3. RequestPart' /\ UnderWay' /\ begun' \in [Threads -> Nat]
  BY <1>1, Known DEF RequestPart, UnderWay, Loaded, Messages, TablePart
<1>4. QED
  BY <1>1, <1>2, <1>3, RequestStep

\* A request sets out on a thread that is open.
LEMMA SetOut ==
  ASSUME NEW t \in Threads, NEW s \in {"save", "saveAndReply", "plan"},
         req' = [step |-> s, thread |-> t, left |-> 0, ran |-> <<>>, failed |-> FALSE], Loaded(t)'
  PROVE  /\ RequestPart' /\ req'.step = s /\ req'.thread = t /\ req'.ran = <<>>
<1>1. /\ req'.step = s /\ req'.thread = t /\ req'.left = 0 /\ req'.ran = <<>>
      /\ Len(req'.ran) = 0
  OBVIOUS
<1>2. req' \in Request
  <2> DEFINE R == Seq(BOOLEAN)
             L == 0..MaxQueries
  <2>1. <<>> \in R /\ 0 \in L
    BY Constants
  <2> HIDE DEF R, L
  <2>2. req' \in [step : {"idle", "save", "saveAndReply", "plan", "planAgain", "sql", "final", "store"},
                  thread : Threads \cup {None}, left : L, ran : R, failed : BOOLEAN]
    BY <2>1
  <2>3. QED
    BY <2>2 DEF Request, R, L
<1>3. Len(req'.ran) + req'.left <= MaxQueries /\ ~(req'.left > 0) /\ s # "sql"
  BY <1>1, Constants
<1>4. Loaded(req.thread)'
  BY <1>1 DEF Loaded
<1>5. QED
  BY <1>1, <1>2, <1>3, <1>4 DEF RequestPart

\* A message is sent to an open thread.
LEMMA SendInv ==
  ASSUME IInv, NEW t \in Threads, NEW mode \in {"form", "json"}, Send(t, mode)
  PROVE  IInv'
<1> DEFINE s == IF mode = "json" THEN "save" ELSE "saveAndReply"
<1>1. /\ req.step = "idle" /\ Loaded(t)
      /\ req' = [step |-> s, thread |-> t, left |-> 0, ran |-> <<>>, failed |-> FALSE]
      /\ UNCHANGED <<thread, usable, perms, begun, changes, stopped>>
  BY DEF Send, AtStep, Idle
<1>2. s \in {"save", "saveAndReply"}
  OBVIOUS
<1> HIDE DEF s
<1>3. Loaded(t)'
  BY <1>1 DEF Loaded
<1>4. RequestPart' /\ req'.step = s /\ req'.ran = <<>>
  BY <1>1, <1>2, <1>3, SetOut
<1>5. UnderWay'
  BY <1>2, <1>4 DEF UnderWay
<1>6. QED
  BY <1>1, <1>4, <1>5, Known, RequestStep DEF TablePart

\* A reply is asked for to a question that is still the last message.
LEMMA AskInv ==
  ASSUME IInv, NEW t \in Threads, AskForReply(t)
  PROVE  IInv'
<1>1. /\ req.step = "idle" /\ Loaded(t)
      /\ req' = [step |-> "plan", thread |-> t, left |-> 0, ran |-> <<>>, failed |-> FALSE]
      /\ Messages(t) # <<>> /\ Messages(t)[Len(Messages(t))].role = "user"
      /\ begun' = [begun EXCEPT ![t] = @ + 1]
      /\ UNCHANGED <<thread, usable, perms, changes, stopped>>
  BY DEF AskForReply, AtStep, Idle
<1>2. Loaded(t)'
  BY <1>1 DEF Loaded
<1>3. RequestPart' /\ req'.step = "plan" /\ req'.ran = <<>> /\ req'.thread = t
  BY <1>1, <1>2, SetOut
<1>4. UnderWay'
  BY <1>1, <1>3 DEF UnderWay, Messages
<1>5. begun' \in [Threads -> Nat]
  BY <1>1, Known DEF TablePart
<1>6. QED
  BY <1>1, <1>3, <1>4, <1>5, Known, RequestStep DEF TablePart

\* The request goes on with another step; what it has run stays.
LEMMA NextStep ==
  ASSUME IInv, req.step \in {"plan", "planAgain", "final"},
         NEW s \in {"planAgain", "sql", "store"}, NEW n \in 0..MaxQueries, NEW f \in BOOLEAN,
         req' = [req EXCEPT !.step = s, !.left = n, !.failed = f],
         s = "sql" <=> n > 0, n > 0 => req.ran = <<>>,
         req.step = "final" => s = "store", s = "planAgain" => req.ran = <<>>,
         UNCHANGED <<thread, usable, perms, begun, changes, stopped>>
  PROVE  IInv'
<1>1. /\ RequestPart /\ UnderWay /\ req.thread \in Threads /\ Loaded(req.thread)
      /\ req \in Request /\ Len(req.ran) + req.left <= MaxQueries /\ req.left \in 0..MaxQueries
      /\ Len(req.ran) \in Nat /\ MaxQueries \in Nat
  BY Known, Fields, Constants DEF RequestPart
<1>2. /\ req' \in Request /\ req'.step = s /\ req'.left = n /\ req'.ran = req.ran
      /\ req'.thread = req.thread
  <2> DEFINE R == Seq(BOOLEAN)
             L == 0..MaxQueries
             T == Threads \cup {None}
             S == {"idle", "save", "saveAndReply", "plan", "planAgain", "sql", "final", "store"}
  <2>1. req \in [step : S, thread : T, left : L, ran : R, failed : BOOLEAN] /\ s \in S /\ n \in L
    BY <1>1 DEF Request
  <2> HIDE DEF R, L, T, S
  <2>2. req' \in [step : S, thread : T, left : L, ran : R, failed : BOOLEAN] /\ req'.step = s
        /\ req'.left = n /\ req'.ran = req.ran /\ req'.thread = req.thread
    BY <2>1
  <2>3. QED
    BY <2>2 DEF Request, R, L, T, S
<1>3. Len(req.ran) + n <= MaxQueries
  <2>1. CASE n > 0
    BY <1>1, <2>1
  <2>2. CASE n = 0
    BY <1>1, <2>2
  <2>3. QED
    BY <1>1, <2>1, <2>2
<1>4. RequestPart'
  BY <1>1, <1>2, <1>3 DEF RequestPart, Loaded
<1>5. UnderWay'
  BY <1>1, <1>2 DEF UnderWay, Messages
<1>6. QED
  BY <1>1, <1>2, <1>4, <1>5, Known, RequestStep DEF TablePart

\* The model's plan: asked for again, failed, or a list of statements.
LEMMA PlanInv ==
  ASSUME IInv, PlanIsEmpty \/ PlanFails \/ \E n \in 0..MaxQueries : PlanAnswers(n)
  PROVE  IInv'
<1>1. /\ req \in Request /\ UnderWay /\ MaxQueries \in Nat
      /\ req.left \in 0..MaxQueries /\ (req.step = "sql" <=> req.left > 0) /\ req.failed \in BOOLEAN
  BY Known, Fields, Constants DEF RequestPart
<1>2. req.step \in {"plan", "planAgain"}
  BY DEF PlanIsEmpty, PlanFails, PlanAnswers, AtStep
<1>3. req.left = 0 /\ req.ran = <<>>
  BY <1>1, <1>2 DEF UnderWay
<1>4. CASE PlanIsEmpty
  <2>1. req' = [req EXCEPT !.step = "planAgain", !.left = 0, !.failed = req.failed]
    BY <1>1, <1>3, <1>4 DEF PlanIsEmpty, Request
  <2>2. UNCHANGED <<thread, usable, perms, begun, changes, stopped>>
    BY <1>4 DEF PlanIsEmpty
  <2>3. QED
    BY <1>1, <1>2, <1>3, <2>1, <2>2, NextStep
<1>5. CASE PlanFails
  <2>1. req' = [req EXCEPT !.step = "store", !.left = 0, !.failed = TRUE]
    BY <1>1, <1>3, <1>5 DEF PlanFails, Request
  <2>2. UNCHANGED <<thread, usable, perms, begun, changes, stopped>>
    BY <1>5 DEF PlanFails
  <2>3. QED
    BY <1>1, <1>2, <1>3, <2>1, <2>2, NextStep
<1>6. ASSUME NEW n \in 0..MaxQueries, PlanAnswers(n)
      PROVE  IInv'
  <2> DEFINE s == IF n = 0 THEN "store" ELSE "sql"
  <2>1. req' = [req EXCEPT !.step = s, !.left = n, !.failed = req.failed]
    BY <1>1, <1>6 DEF PlanAnswers, Request
  <2>2. UNCHANGED <<thread, usable, perms, begun, changes, stopped>>
    BY <1>6 DEF PlanAnswers
  <2>3. s \in {"planAgain", "sql", "store"} /\ (s = "sql" <=> n > 0) /\ s # "planAgain"
    BY <1>1
  <2> HIDE DEF s
  <2>4. QED
    BY <1>1, <1>2, <1>3, <2>1, <2>2, <2>3, NextStep
<1>7. QED
  BY <1>4, <1>5, <1>6

\* The second call answers or fails.
LEMMA FinalInv ==
  ASSUME IInv, NEW fails \in BOOLEAN, FinalAnswer(fails)
  PROVE  IInv'
<1>1. /\ req \in Request /\ MaxQueries \in Nat
      /\ req.left \in 0..MaxQueries /\ (req.step = "sql" <=> req.left > 0) /\ req.step = "final"
  BY Known, Fields, Constants DEF RequestPart, FinalAnswer, AtStep
<1>2. req.left = 0
  BY <1>1
<1>3. req' = [req EXCEPT !.step = "store", !.left = 0, !.failed = fails]
  BY <1>1, <1>2 DEF FinalAnswer, Request
<1>4. UNCHANGED <<thread, usable, perms, begun, changes, stopped>>
  BY DEF FinalAnswer
<1>5. 0 \in 0..MaxQueries /\ ~(0 > 0)
  BY <1>1
<1>6. QED
  BY <1>1, <1>3, <1>4, <1>5, NextStep

-----------------------------------------------------------------------------
(* The steps that change a thread, or what its replies have committed. *)

\* A thread is opened or deleted while no request is served.
LEMMA StateChanged ==
  ASSUME IInv, req.step = "idle", NEW t \in Threads, NEW x \in {"open", "deleted"},
         thread' = [thread EXCEPT ![t].state = x],
         UNCHANGED <<usable, perms, begun, changes, stopped>>
  PROVE  /\ TablePart' /\ Accounted' /\ RunOnceUnlessStopped'
         /\ thread'[t].state = x /\ \A s \in Threads : thread'[s].messages = thread[s].messages
<1>1. TablePart /\ Accounted /\ RunOnceUnlessStopped /\ \A c \in changes : c.reply.thread \in Threads
  BY Known
<1>2. thread'[t] \in Thread /\ thread'[t].state = x /\ thread'[t].messages = thread[t].messages
  <2> DEFINE M == Seq(MessageOK)
             T == {"new"} \cup Titles
  <2>1. thread[t] \in [state : {"absent", "open", "deleted"}, title : T, messages : M]
    BY <1>1, MessagesTyped DEF Thread
  <2>2. thread'[t] = [thread[t] EXCEPT !.state = x]
    BY <1>1 DEF TablePart
  <2> HIDE DEF M, T
  <2>3. /\ thread'[t] \in [state : {"absent", "open", "deleted"}, title : T, messages : M]
        /\ thread'[t].state = x /\ thread'[t].messages = thread[t].messages
    BY <2>1, <2>2
  <2>4. QED
    BY <2>3 DEF M, T, Thread
<1>3. \A s \in Threads \ {t} : thread'[s] = thread[s]
  BY <1>1 DEF TablePart
<1>4. \A s \in Threads : thread'[s].messages = thread[s].messages
  BY <1>2, <1>3
<1>5. thread' \in [Threads -> Thread]
  BY <1>1, <1>2 DEF TablePart
<1>6. TablePart'
  BY <1>1, <1>4, <1>5 DEF TablePart, RepliesFollowQuestions, Messages
<1>7. Accounted'
  <2>1. ASSUME NEW c \in changes
        PROVE  c.reply \in stopped' \/ Listed(c)'
    <3>1. c.reply \in stopped \/ Listed(c)
      BY <1>1 DEF Accounted, ToBeListed
    <3>2. Listed(c) => Listed(c)'
      BY <1>1, <1>4 DEF Listed, Messages
    <3>3. QED
      BY <3>1, <3>2
  <2>2. QED
    BY <2>1 DEF Accounted
<1>8. RunOnceUnlessStopped'
  BY <1>1 DEF RunOnceUnlessStopped
<1>9. QED
  BY <1>2, <1>4, <1>6, <1>7, <1>8

\* A thread is created, and its first message sent with it or not.
LEMMA CreateInv ==
  ASSUME IInv, NEW t \in Threads, NEW mode \in {"bare", "form", "json"}, CreateThread(t, mode)
  PROVE  IInv'
<1> DEFINE s == IF mode = "json" THEN "save" ELSE "saveAndReply"
<1>1. /\ req.step = "idle" /\ thread' = [thread EXCEPT ![t].state = "open"]
      /\ UNCHANGED <<usable, perms, begun, changes, stopped>>
      /\ req' = IF mode = "bare" THEN req
                ELSE [step |-> s, thread |-> t, left |-> 0, ran |-> <<>>, failed |-> FALSE]
  <2>1. /\ req.step = "idle" /\ thread' = [thread EXCEPT ![t].state = "open"]
        /\ UNCHANGED <<usable, perms, begun, changes, stopped>>
        /\ req' = IF mode = "bare" THEN req ELSE [Idle EXCEPT !.step = s, !.thread = t]
    BY DEF CreateThread, AtStep
  <2> HIDE DEF s
  <2>2. CASE mode = "bare"
    BY <2>1, <2>2
  <2>3. CASE mode # "bare"
    <3>1. req' = [Idle EXCEPT !.step = s, !.thread = t]
      BY <2>1, <2>3
    <3>2. req' = [step |-> s, thread |-> t, left |-> 0, ran |-> <<>>, failed |-> FALSE]
      BY <3>1 DEF Idle
    <3>3. QED
      BY <2>1, <2>3, <3>2
  <2>4. QED
    BY <2>2, <2>3
<1>2. /\ TablePart' /\ Accounted' /\ RunOnceUnlessStopped'
      /\ thread'[t].state = "open"
  BY <1>1, StateChanged
<1>3. s \in {"save", "saveAndReply"}
  OBVIOUS
<1> HIDE DEF s
<1>4. RequestPart' /\ UnderWay'
  <2>1. CASE mode = "bare"
    BY <1>1, <2>1, Known DEF RequestPart, UnderWay
  <2>2. CASE mode # "bare"
    <3>1. Loaded(t)'
      BY <1>2 DEF Loaded
    <3>2. RequestPart' /\ req'.step = s /\ req'.ran = <<>>
      BY <1>1, <1>3, <2>2, <3>1, SetOut
    <3>3. QED
      BY <1>3, <3>2 DEF UnderWay
  <2>3. QED
    BY <2>1, <2>2
<1>5. QED
  BY <1>2, <1>4, NextTypeParts DEF IInv

\* A thread is deleted; its messages and what they tell of stay.
LEMMA DeleteInv ==
  ASSUME IInv, NEW t \in Threads, DeleteThread(t)
  PROVE  IInv'
<1>1. /\ req.step = "idle" /\ thread' = [thread EXCEPT ![t].state = "deleted"]
      /\ UNCHANGED <<usable, perms, begun, changes, stopped>> /\ req' = req
  BY DEF DeleteThread, AtStep
<1>2. TablePart' /\ Accounted' /\ RunOnceUnlessStopped'
  BY <1>1, StateChanged
<1>3. RequestPart' /\ UnderWay'
  BY <1>1, Known DEF RequestPart, UnderWay
<1>4. QED
  BY <1>2, <1>3, NextTypeParts DEF IInv

\* The question is stored; the reply, if there is to be one, is begun.
LEMMA SaveInv ==
  ASSUME IInv, SaveUserMessage
  PROVE  IInv'
<1> DEFINE t == req.thread
           title == IF Messages(t) = <<>> THEN "cut" ELSE thread[t].title
<1>1. /\ req.step \in {"save", "saveAndReply"}
      /\ thread' = [thread EXCEPT ![t].messages = Append(@, Question), ![t].title = title]
      /\ req' = IF req.step = "save" THEN Idle ELSE [req EXCEPT !.step = "plan"]
      /\ begun' = IF req.step = "save" THEN begun ELSE [begun EXCEPT ![t] = @ + 1]
      /\ UNCHANGED <<usable, perms, changes, stopped>>
  BY DEF SaveUserMessage, Saving, AtStep
<1>2. /\ RequestPart /\ TablePart /\ UnderWay /\ Accounted /\ RunOnceUnlessStopped
      /\ \A c \in changes : c.reply.thread \in Threads
      /\ t \in Threads /\ Loaded(t) /\ req \in Request
      /\ req.ran = <<>> /\ req.left \in 0..MaxQueries /\ (req.step = "sql" <=> req.left > 0)
  BY <1>1, Known, Fields DEF RequestPart, UnderWay
<1>3. Question \in MessageOK /\ Question.role = "user" /\ title \in {"new"} \cup Titles
  <2>1. thread[t] \in Thread
    BY <1>2, MessagesTyped
  <2>2. QED
    BY <2>1 DEF Question, MessageOK, Titles, Thread
<1> HIDE DEF t, title
<1>4. /\ thread' \in [Threads -> Thread] /\ RepliesFollowQuestions'
      /\ thread'[t].state = thread[t].state
      /\ Len(thread'[t].messages) = Len(Messages(t)) + 1
      /\ thread'[t].messages[Len(Messages(t)) + 1] = Question
      /\ \A s \in Threads : \A i \in DOMAIN Messages(s) :
           i \in DOMAIN thread'[s].messages /\ thread'[s].messages[i] = Messages(s)[i]
  BY <1>1, <1>2, <1>3, MessageAdded
<1>5. begun' \in [Threads -> Nat]
  BY <1>1, <1>2 DEF TablePart
<1>6. TablePart'
  BY <1>1, <1>2, <1>4, <1>5 DEF TablePart
<1>7. Accounted'
  <2>1. ASSUME NEW c \in changes
        PROVE  c.reply \in stopped' \/ Listed(c)'
    <3>1. c.reply \in stopped \/ Listed(c)
      BY <1>1, <1>2 DEF Accounted, ToBeListed
    <3>2. Listed(c) => Listed(c)'
      BY <1>2, <1>4, ListedStays
    <3>3. QED
      BY <1>1, <3>1, <3>2
  <2>2. QED
    BY <1>1, <2>1 DEF Accounted
<1>8. RunOnceUnlessStopped'
  BY <1>1, <1>2 DEF RunOnceUnlessStopped
<1>9. RequestPart' /\ UnderWay'
  <2>1. CASE req.step = "save"
    <3>1. req' = Idle
      BY <1>1, <2>1
    <3>2. QED
      BY <3>1, IdleTyped, Constants DEF RequestPart, UnderWay
  <2>2. CASE req.step = "saveAndReply"
    <3>1. req' = [req EXCEPT !.step = "plan"]
      BY <1>1, <2>2
    <3>2. /\ req' \in Request /\ req'.step = "plan" /\ req'.left = req.left /\ req'.ran = req.ran
          /\ req'.thread = t
      BY <1>2, <3>1 DEF Request, t
    <3>3. Loaded(req.thread)'
      BY <1>2, <1>4, <3>2 DEF Loaded
    <3>4. RequestPart'
      BY <1>2, <2>2, <3>2, <3>3 DEF RequestPart
    <3>5. thread'[t].messages # <<>>
      <4>1. Len(Messages(t)) \in Nat
        BY <1>2, MessagesTyped
      <4>2. Len(thread'[t].messages) # 0
        BY <1>4, <4>1
      <4>3. QED
        BY <4>2
    <3>6. UnderWay'
      BY <1>2, <1>3, <1>4, <3>2, <3>5 DEF UnderWay, Messages
    <3>7. QED
      BY <3>4, <3>6
  <2>3. QED
    BY <1>1, <2>1, <2>2
<1>10. QED
  BY <1>6, <1>7, <1>8, <1>9, NextTypeParts DEF IInv

\* The process stops; what the reply has committed is not going to be listed.
LEMMA StopInv ==
  ASSUME IInv, Stop
  PROVE  IInv'
<1>1. /\ req.step # "idle" /\ stopped' = stopped \cup {ThisReply} /\ req' = Idle
      /\ UNCHANGED <<thread, usable, perms, begun, changes>>
  BY DEF Stop, AtStep
<1>2. RequestPart /\ TablePart /\ Accounted /\ RunOnceUnlessStopped
  BY Known
<1>3. ThisReply \in ReplyId
  BY <1>1, <1>2, ReplyTyped
<1>4. TablePart'
  BY <1>1, <1>2, <1>3 DEF TablePart, RepliesFollowQuestions, Messages
<1>5. RequestPart' /\ UnderWay'
  BY <1>1, IdleTyped, Constants DEF RequestPart, UnderWay
<1>6. Accounted'
  <2>1. ASSUME NEW c \in changes
        PROVE  c.reply \in stopped' \/ Listed(c)'
    BY <1>1, <1>2, <2>1 DEF Accounted, ToBeListed, Listed, Messages
  <2>2. QED
    BY <1>1, <2>1 DEF Accounted
<1>7. RunOnceUnlessStopped'
  BY <1>1, <1>2 DEF RunOnceUnlessStopped
<1>8. QED
  BY <1>4, <1>5, <1>6, <1>7, NextTypeParts DEF IInv

\* A statement of the plan is executed, and committed unless it is refused or raises.
LEMMA RunInv ==
  ASSUME IInv, NEW s \in Statements, NEW raises \in BOOLEAN, RunStatement(s, raises)
  PROVE  IInv'
<1> DEFINE commits == Commits(s) /\ ~raises
           nr      == Len(req.ran) + 1
           step    == IF req.left = 1 THEN "final" ELSE req.step
           new     == [reply |-> ThisReply, nr |-> nr, rows |-> s.rows]
<1>1. /\ req.step = "sql"
      /\ req' = [req EXCEPT !.ran = Append(@, commits), !.left = @ - 1, !.step = step]
      /\ changes' = IF commits THEN changes \cup {new} ELSE changes
      /\ UNCHANGED <<thread, usable, perms, begun, stopped>>
  BY DEF RunStatement, AtStep
<1>2. /\ RequestPart /\ TablePart /\ UnderWay /\ Accounted /\ RunOnceUnlessStopped
      /\ \A c \in changes : c.reply \in ReplyId
      /\ req.thread \in Threads /\ Loaded(req.thread) /\ req \in Request /\ req.ran \in Seq(BOOLEAN)
      /\ req.left \in 0..MaxQueries /\ req.left > 0 /\ Len(req.ran) + req.left <= MaxQueries
      /\ Len(req.ran) \in Nat /\ MaxQueries \in Nat
  BY <1>1, Known, Fields, Constants DEF RequestPart
<1>3. commits \in BOOLEAN /\ step \in {"sql", "final"} /\ (step = "sql" <=> req.left - 1 > 0)
      /\ req.left - 1 \in 0..MaxQueries /\ nr \in 1..MaxQueries
  BY <1>1, <1>2
<1>4. commits => new \in Change /\ new.reply = ThisReply /\ new.nr = nr
  <2>1. ThisReply \in ReplyId
    BY <1>1, <1>2, ReplyTyped
  <2>2. s \in Statement
    BY Constants
  <2>3. commits => s.rows \in 0..MaxWriteRows
    BY <2>2, Constants DEF Commits, Statement
  <2>4. QED
    BY <1>3, <2>1, <2>3 DEF Change
<1> HIDE DEF commits, nr, step, new
<1>5. /\ Append(req.ran, commits) \in Seq(BOOLEAN) /\ Len(Append(req.ran, commits)) = Len(req.ran) + 1
      /\ Append(req.ran, commits)[Len(req.ran) + 1] = commits
      /\ \A i \in 1..Len(req.ran) : Append(req.ran, commits)[i] = req.ran[i]
      /\ DOMAIN Append(req.ran, commits) = 1..(Len(req.ran) + 1) /\ DOMAIN req.ran = 1..Len(req.ran)
  BY <1>2, <1>3, Appended
<1>6. /\ req' \in Request /\ req'.step = step /\ req'.left = req.left - 1
      /\ req'.ran = Append(req.ran, commits) /\ req'.thread = req.thread
  <2> DEFINE R == Seq(BOOLEAN)
             L == 0..MaxQueries
             T == Threads \cup {None}
             S == {"idle", "save", "saveAndReply", "plan", "planAgain", "sql", "final", "store"}
             ran == Append(req.ran, commits)
             left == req.left - 1
  <2>1. /\ req \in [step : S, thread : T, left : L, ran : R, failed : BOOLEAN] /\ step \in S
        /\ ran \in R /\ left \in L
    BY <1>2, <1>3, <1>5 DEF Request
  <2>2. req' = [req EXCEPT !.ran = ran, !.left = left, !.step = step]
    BY <1>1, <1>2 DEF Request
  <2> HIDE DEF R, L, T, S, ran, left
  <2>3. /\ req' \in [step : S, thread : T, left : L, ran : R, failed : BOOLEAN] /\ req'.step = step
        /\ req'.left = left /\ req'.ran = ran /\ req'.thread = req.thread
    BY <2>1, <2>2
  <2>4. QED
    BY <2>3 DEF Request, R, L, T, S, ran, left
<1>7. RequestPart'
  <2>1. Len(req'.ran) + req'.left <= MaxQueries
    BY <1>2, <1>5, <1>6
  <2>2. Loaded(req.thread)'
    BY <1>1, <1>2, <1>6 DEF Loaded
  <2>3. req'.step = "sql" <=> req'.left > 0
    BY <1>3, <1>6
  <2>4. QED
    BY <1>2, <1>6, <2>1, <2>2, <2>3 DEF RequestPart
<1>8. TablePart'
  <2>1. changes' \subseteq Change
    BY <1>1, <1>2, <1>4 DEF TablePart
  <2>2. QED
    BY <1>1, <1>2, <2>1 DEF TablePart, RepliesFollowQuestions, Messages
<1>9. UnderWay'
  BY <1>1, <1>2, <1>3, <1>6 DEF UnderWay, Messages
<1>10. ThisReply' = ThisReply /\ ThisReply.thread = req.thread
       /\ ThisReply.question = Len(Messages(req.thread))
  BY <1>1, <1>3, <1>6 DEF ThisReply, Asked, Saving, AtStep, Messages
<1>11. ASSUME NEW c \in changes
       PROVE  c.reply \in stopped' \/ ToBeListed(c)' \/ Listed(c)'
  <2>1. CASE c.reply \in stopped
    BY <1>1, <2>1
  <2>2. CASE Listed(c)
    BY <1>1, <2>2 DEF Listed, Messages
  <2>3. CASE ToBeListed(c)
    <3>1. c.reply = ThisReply /\ c.nr \in 1..Len(req.ran) /\ req.ran[c.nr]
      BY <1>5, <2>3 DEF ToBeListed
    <3>2. c.nr \in 1..(Len(req.ran) + 1) /\ Append(req.ran, commits)[c.nr]
      BY <1>2, <1>5, <3>1
    <3>3. c.nr \in DOMAIN req'.ran /\ req'.ran[c.nr]
      BY <1>5, <1>6, <3>2
    <3>4. QED
      BY <1>3, <1>6, <1>10, <3>1, <3>3 DEF ToBeListed
  <2>4. QED
    BY <1>2, <2>1, <2>2, <2>3 DEF Accounted
<1>12. Accounted'
  <2>1. ASSUME commits, NEW c, c = new
        PROVE  ToBeListed(c)'
    <3>1. nr \in DOMAIN req'.ran /\ (commits => req'.ran[nr])
      BY <1>2, <1>5, <1>6 DEF nr
    <3>2. QED
      BY <1>3, <1>4, <1>6, <1>10, <2>1, <3>1 DEF ToBeListed
  <2>2. ASSUME NEW c \in changes'
        PROVE  c.reply \in stopped' \/ ToBeListed(c)' \/ Listed(c)'
    <3>1. c \in changes \/ (commits /\ c = new)
      BY <1>1, <1>3, <2>2
    <3>2. QED
      BY <1>11, <2>1, <3>1
  <2>3. QED
    BY <2>2 DEF Accounted
<1>13. RunOnceUnlessStopped'
  <2>1. ASSUME NEW d \in changes, d.reply.thread = ThisReply.thread,
               d.reply.question = ThisReply.question, d.reply # ThisReply
        PROVE  d.reply \in stopped
    <3>1. ~ToBeListed(d)
      BY <2>1 DEF ToBeListed
    <3>2. ~Listed(d)
      <4>1. Messages(req.thread) \in Seq(MessageOK) /\ Len(Messages(req.thread)) \in Nat
        BY <1>2, MessagesTyped
      <4>2. Len(Messages(req.thread)) + 1 \notin DOMAIN Messages(req.thread)
        BY <4>1
      <4>3. QED
        BY <1>10, <2>1, <4>2 DEF Listed
    <3>3. QED
      BY <1>2, <3>1, <3>2 DEF Accounted
  <2>2. CASE commits
    <3>1. changes' = changes \cup {new} /\ new.reply = ThisReply /\ stopped' = stopped
      BY <1>1, <1>4, <2>2
    <3>2. QED
      BY <1>2, <2>1, <3>1 DEF RunOnceUnlessStopped
  <2>3. CASE ~commits
    BY <1>1, <1>2, <2>3 DEF RunOnceUnlessStopped
  <2>4. QED
    BY <2>2, <2>3
<1>14. QED
  BY <1>7, <1>8, <1>9, <1>12, <1>13, NextTypeParts DEF IInv

\* The reply is stored and lists what was committed for it.
LEMMA StoreInv ==
  ASSUME IInv, NEW title \in Titles, StoreReply(title)
  PROVE  IInv'
<1> DEFINE t == req.thread
           listed == IF req.failed THEN {} ELSE {i \in DOMAIN req.ran : req.ran[i]}
           reply == Reply(req.failed, listed)
           new == IF Asked = 1 THEN title ELSE thread[t].title
<1>1. /\ req.step = "store" /\ req' = Idle
      /\ thread' = [thread EXCEPT ![t].messages = Append(@, reply), ![t].title = new]
      /\ UNCHANGED <<usable, perms, begun, changes, stopped>>
  BY DEF StoreReply, AtStep
<1>2. /\ RequestPart /\ TablePart /\ UnderWay /\ Accounted /\ RunOnceUnlessStopped
      /\ \A c \in changes : c.reply.thread \in Threads
      /\ t \in Threads /\ req.ran \in Seq(BOOLEAN) /\ req.failed \in BOOLEAN
      /\ Len(req.ran) \in Nat /\ Len(req.ran) + req.left <= MaxQueries /\ req.left \in 0..MaxQueries
      /\ MaxQueries \in Nat
  BY <1>1, Known, Fields, Constants DEF RequestPart
<1>3. listed \in SUBSET (1..MaxQueries)
  BY <1>2
<1>4. /\ reply = [role |-> "assistant", error |-> req.failed, listed |-> listed]
      /\ reply \in MessageOK
  <2> HIDE DEF listed
  <2>1. reply = [role |-> "assistant", error |-> req.failed, listed |-> listed]
    BY DEF Reply
  <2>2. QED
    BY <1>2, <1>3, <2>1 DEF MessageOK
<1>5. new \in {"new"} \cup Titles
  <2>1. thread[t] \in Thread
    BY <1>2, MessagesTyped
  <2>2. QED
    BY <2>1 DEF Thread
<1>6. Messages(t) # <<>> /\ Messages(t)[Len(Messages(t))].role = "user"
  BY <1>1, <1>2 DEF UnderWay
<1>7. /\ reply.role = "assistant" /\ reply.error = req.failed
      /\ ~req.failed => \A i \in DOMAIN req.ran : req.ran[i] => i \in reply.listed
  BY <1>4
<1> HIDE DEF t, listed, reply, new
<1>8. /\ thread' \in [Threads -> Thread] /\ RepliesFollowQuestions'
      /\ Len(thread'[t].messages) = Len(Messages(t)) + 1
      /\ thread'[t].messages[Len(Messages(t)) + 1] = reply
      /\ \A s \in Threads : \A i \in DOMAIN Messages(s) :
           i \in DOMAIN thread'[s].messages /\ thread'[s].messages[i] = Messages(s)[i]
  BY <1>1, <1>2, <1>4, <1>5, <1>6, MessageAdded
<1>9. TablePart'
  BY <1>1, <1>2, <1>8 DEF TablePart
<1>10. RequestPart' /\ UnderWay'
  BY <1>1, IdleTyped, Constants DEF RequestPart, UnderWay
<1>11. Accounted'
  <2>1. ASSUME NEW c \in changes
        PROVE  c.reply \in stopped' \/ Listed(c)'
    <3>1. CASE c.reply \in stopped
      BY <1>1, <3>1
    <3>2. CASE Listed(c)
      BY <1>2, <1>8, <3>2, ListedStays
    <3>3. CASE ToBeListed(c)
      <4>1. /\ c.reply.thread = t /\ c.reply.question = Len(Messages(t))
            /\ c.nr \in DOMAIN req.ran /\ req.ran[c.nr]
        BY <1>1, <3>3 DEF ToBeListed, ThisReply, Asked, Saving, AtStep, t
      <4>2. reply.error \/ c.nr \in reply.listed
        BY <1>2, <1>7, <4>1
      <4>3. c.reply.question + 1 \in DOMAIN thread'[t].messages
        <5>1. thread'[t].messages \in Seq(MessageOK) /\ Len(Messages(t)) \in Nat
          BY <1>2, <1>8, MessagesTyped DEF Thread
        <5>2. QED
          BY <1>8, <4>1, <5>1
      <4>4. thread'[t].messages[c.reply.question + 1] = reply
        BY <1>8, <4>1
      <4>5. QED
        BY <1>7, <4>1, <4>2, <4>3, <4>4 DEF Listed, Messages
    <3>4. QED
      BY <1>2, <3>1, <3>2, <3>3 DEF Accounted
  <2>2. QED
    BY <1>1, <2>1 DEF Accounted
<1>12. RunOnceUnlessStopped'
  BY <1>1, <1>2 DEF RunOnceUnlessStopped
<1>13. QED
  BY <1>9, <1>10, <1>11, <1>12, NextTypeParts DEF IInv

-----------------------------------------------------------------------------
(* What follows. *)

\* Every step keeps the invariant.
LEMMA StepInv == IInv /\ [Next]_vars => IInv'
<1> SUFFICES ASSUME IInv, [Next]_vars PROVE IInv'
  OBVIOUS
<1>1. CASE UNCHANGED vars
  BY <1>1 DEF vars, IInv, TypeOK, UnderWay, Accounted, RunOnceUnlessStopped, RepliesFollowQuestions,
     Loaded, Messages, ToBeListed, Listed, ThisReply, Asked, Saving, AtStep
<1>2. CASE ServeReply
  BY <1>2, SaveInv, PlanInv, RunInv, FinalInv, StoreInv DEF ServeReply
<1>3. CASE \E u \in BOOLEAN, p \in PermissionSets : SaveSettings(u, p)
  BY <1>3, SettingsInv
<1>4. CASE \E t \in Threads :
             \/ \E mode \in {"bare", "form", "json"} : CreateThread(t, mode)
             \/ \E mode \in {"form", "json"} : Send(t, mode)
             \/ AskForReply(t) \/ DeleteThread(t)
  BY <1>4, CreateInv, SendInv, AskInv, DeleteInv
<1>5. QED
  BY <1>1, <1>2, <1>3, <1>4, StopInv DEF Next

\* The inductive invariant, for any threads, statements and settings.
THEOREM Invariant == Spec => []IInv
<1>1. Init => IInv
  BY InitInv
<1>2. IInv /\ [Next]_vars => IInv'
  BY StepInv
<1>3. QED
  BY <1>1, <1>2, PTL DEF Spec

\* The state has its type, and every reply stands behind a question.
THEOREM TypeCorrect == Spec => []TypeOK
<1>1. IInv => TypeOK
  BY DEF IInv
<1>2. QED
  BY <1>1, Invariant, PTL

\* The SQL for one question is executed twice only if the first reply was cut off.
THEOREM RunOnce == Spec => []RunOnceUnlessStopped
<1>1. IInv => RunOnceUnlessStopped
  BY DEF IInv
<1>2. QED
  BY <1>1, Invariant, PTL

\* What was committed is listed in the reply, unless the reply was lost or replaced.
THEOREM Told == Spec => []CommittedIsListed
<1>1. IInv => CommittedIsListed
  <2> SUFFICES ASSUME IInv, NEW c \in changes
               PROVE  LET ms == Messages(c.reply.thread)
                          a  == c.reply.question + 1
                      IN  \/ c.reply \in stopped
                          \/ a = Len(ms) + 1 /\ ~AtStep("idle") /\ c.reply = ThisReply
                          \/ /\ a \in DOMAIN ms /\ ms[a].role = "assistant"
                             /\ ms[a].error \/ c.nr \in ms[a].listed
    BY DEF CommittedIsListed
  <2>1. c.reply \in stopped \/ ToBeListed(c) \/ Listed(c)
    BY Known DEF Accounted
  <2>2. ASSUME ToBeListed(c)
        PROVE  /\ c.reply = ThisReply /\ ~AtStep("idle")
               /\ c.reply.question + 1 = Len(Messages(c.reply.thread)) + 1
    BY <2>2 DEF ToBeListed, ThisReply, Asked, Saving, AtStep
  <2>3. QED
    BY <2>1, <2>2 DEF Listed
<1>2. QED
  BY <1>1, Invariant, PTL
=============================================================================
