-------------------------------- MODULE AiChat --------------------------------
(***************************************************************************)
(* The admin's conversation with the language model: threads of messages,  *)
(* and the SQL the model proposes, which the server executes.              *)
(*                                                                         *)
(* The POST handlers are async and never await between their first         *)
(* database call and their answer, so one request at a time is served; the *)
(* process may still stop between any two of its steps.  A statement of    *)
(* the model commits on a connection of its own, before the reply that     *)
(* tells of it is stored.                                                  *)
(***************************************************************************)
EXTENDS Integers, Sequences, FiniteSets

CONSTANTS
  Threads,
  Statements,    \* what the model may propose
  PermissionSets, \* the settings the admin may save
  MaxQueries,    \* MAX_SQL_QUERIES
  MaxWriteRows,  \* MAX_WRITE_ROWS
  MaxMessages,   \* bound: the length of a thread
  MaxStops,      \* bound: how often the process stops
  None

WriteOps == {"insert", "update", "delete"}

\* "clean": one statement, no forbidden word; "table": one of WRITABLE_TABLES;
\* "bounded": has its WHERE, or its VALUES; "rows": how many it affects.
Statement == [op : WriteOps \cup {"select", "other"}, clean : BOOLEAN, table : BOOLEAN,
              bounded : BOOLEAN, rows : Nat]

ASSUME AiChatOK ==
  /\ Statements \subseteq Statement
  /\ PermissionSets \subseteq SUBSET (WriteOps \cup {"select"})
  /\ MaxQueries \in Nat /\ MaxWriteRows \in Nat /\ MaxMessages \in Nat /\ MaxStops \in Nat
  /\ None \notin Threads

VARIABLES
  thread,   \* thread[t]: its state, title and messages
  usable,   \* the AI is configured and enabled, and its key can be read
  perms,    \* the operations the settings allow
  req,      \* the request being served
  begun,    \* history: how many replies have been begun in a thread
  changes,  \* history: the statements committed, with the reply they were part of
  stopped   \* history: the replies that never ended

vars == <<thread, usable, perms, req, begun, changes, stopped>>

Question  == [role |-> "user"]
Reply(error, listed) == [role |-> "assistant", error |-> error, listed |-> listed]
Idle      == [step |-> "idle", thread |-> None, left |-> 0, ran |-> <<>>, failed |-> FALSE]

Titles    == {"cut", "model"}  \* cut from the first message, or given by the model

Messages(t) == thread[t].messages
Loaded(t)   == thread[t].state = "open"
AtStep(s)   == req.step = s
Saving      == AtStep("save") \/ AtStep("saveAndReply")
Asked       == IF Saving THEN 0 ELSE Len(Messages(req.thread)) \* the question being answered
ThisReply   == [thread |-> req.thread, question |-> Asked, attempt |-> begun[req.thread]]

Init == /\ thread = [t \in Threads |-> [state |-> "absent", title |-> "new", messages |-> <<>>]]
        /\ usable = FALSE /\ perms = {"select"}
        /\ req = Idle
        /\ begun = [t \in Threads |-> 0]
        /\ changes = {} /\ stopped = {}

SaveSettings(u, p) ==
  /\ AtStep("idle")
  /\ usable' = u /\ perms' = p
  /\ UNCHANGED <<thread, req, begun, changes, stopped>>

\* The thread is committed before the first message is.  "mode": how the page
\* asks, a form that waits for the reply ("form") or a script that asks again
\* ("json"); a form may come without a message.
CreateThread(t, mode) ==
  /\ AtStep("idle") /\ thread[t].state = "absent"
  /\ mode # "bare" => usable
  /\ thread' = [thread EXCEPT ![t].state = "open"]
  /\ req' = IF mode = "bare" THEN req
            ELSE [Idle EXCEPT !.step = IF mode = "json" THEN "save" ELSE "saveAndReply",
                              !.thread = t]
  /\ UNCHANGED <<usable, perms, begun, changes, stopped>>

DeleteThread(t) ==
  /\ AtStep("idle") /\ Loaded(t)
  /\ thread' = [thread EXCEPT ![t].state = "deleted"]
  /\ UNCHANGED <<usable, perms, req, begun, changes, stopped>>

Send(t, mode) ==
  /\ AtStep("idle") /\ Loaded(t) /\ usable
  /\ Len(Messages(t)) < MaxMessages
  /\ req' = [Idle EXCEPT !.step = IF mode = "json" THEN "save" ELSE "saveAndReply", !.thread = t]
  /\ UNCHANGED <<thread, usable, perms, begun, changes, stopped>>

SaveUserMessage ==
  /\ Saving
  /\ LET t == req.thread IN
     thread' = [thread EXCEPT ![t].messages = Append(@, Question),
                              ![t].title = IF Messages(t) = <<>> THEN "cut" ELSE @]
  /\ req' = IF AtStep("save") THEN Idle ELSE [req EXCEPT !.step = "plan"]
  /\ begun' = IF AtStep("save") THEN begun ELSE [begun EXCEPT ![req.thread] = @ + 1]
  /\ UNCHANGED <<usable, perms, changes, stopped>>

\* POST /ai-chat/{id}/reply; a thread whose last message is a reply has been answered.
AskForReply(t) ==
  /\ AtStep("idle") /\ Loaded(t) /\ usable
  /\ Messages(t) # <<>>
  /\ Messages(t)[Len(Messages(t))].role = "user"
  /\ req' = [Idle EXCEPT !.step = "plan", !.thread = t]
  /\ begun' = [begun EXCEPT ![t] = @ + 1]
  /\ UNCHANGED <<thread, usable, perms, changes, stopped>>

\* An answer without content is asked for once more.
PlanIsEmpty ==
  /\ AtStep("plan")
  /\ req' = [req EXCEPT !.step = "planAgain"]
  /\ UNCHANGED <<thread, usable, perms, begun, changes, stopped>>

\* No answer, or none that is a JSON object.
PlanFails ==
  /\ AtStep("plan") \/ AtStep("planAgain")
  /\ req' = [req EXCEPT !.step = "store", !.failed = TRUE]
  /\ UNCHANGED <<thread, usable, perms, begun, changes, stopped>>

\* parse_plan: what is not a query is left out after the list has been cut.
PlanAnswers(n) ==
  /\ AtStep("plan") \/ AtStep("planAgain")
  /\ req' = [req EXCEPT !.step = IF n = 0 THEN "store" ELSE "sql", !.left = n]
  /\ UNCHANGED <<thread, usable, perms, begun, changes, stopped>>

\* validate_sql
Valid(s) == /\ s.op \in perms /\ s.clean
            /\ s.op \in WriteOps => s.table /\ s.bounded

\* Mutant: one row more.
LimitIsLate(s) == Valid(s) /\ s.op \in WriteOps /\ s.rows <= MaxWriteRows + 1

\* A read runs in a read-only transaction that is rolled back, as is a write that
\* raises or affects too many rows.
Commits(s) == Valid(s) /\ s.op \in WriteOps /\ s.rows <= MaxWriteRows

\* Mutant: a statement that raises stays committed.
NoRollback(s, raises) ==
  /\ AtStep("sql")
  /\ req' = [req EXCEPT !.ran = Append(@, Commits(s) /\ ~raises), !.left = @ - 1,
                        !.step = IF req.left = 1 THEN "final" ELSE @]
  /\ changes' = IF ~Commits(s) THEN changes
               ELSE changes \cup {[reply |-> ThisReply, nr |-> Len(req.ran) + 1, rows |-> s.rows]}
  /\ UNCHANGED <<thread, usable, perms, begun, stopped>>

\* execute_sql; whatever it raises becomes the result of that query.
RunStatement(s, raises) ==
  /\ AtStep("sql")
  /\ LET commits == Commits(s) /\ ~raises
         nr      == Len(req.ran) + 1
     IN  /\ req' = [req EXCEPT !.ran = Append(@, commits), !.left = @ - 1,
                               !.step = IF req.left = 1 THEN "final" ELSE @]
         /\ changes' = IF commits
                       THEN changes \cup {[reply |-> ThisReply, nr |-> nr, rows |-> s.rows]}
                       ELSE changes
  /\ UNCHANGED <<thread, usable, perms, begun, stopped>>

\* Mutant: a failure of the second call is not caught.
FinalRaises(fails) ==
  /\ AtStep("final")
  /\ req' = IF fails THEN Idle ELSE [req EXCEPT !.step = "store"]
  /\ UNCHANGED <<thread, usable, perms, begun, changes, stopped>>

\* The second call, with the results; an exception replaces the whole reply.
FinalAnswer(fails) ==
  /\ AtStep("final")
  /\ req' = [req EXCEPT !.step = "store", !.failed = fails]
  /\ UNCHANGED <<thread, usable, perms, begun, changes, stopped>>

\* The reply and, after a first message, the title are committed together; a
\* title the model does not give is cut from the message.
StoreReply(title) ==
  /\ AtStep("store")
  /\ LET t == req.thread
         listed == IF req.failed THEN {} ELSE {i \in DOMAIN req.ran : req.ran[i]}
     IN  thread' = [thread EXCEPT
           ![t].messages = Append(@, Reply(req.failed, listed)),
           ![t].title = IF Asked = 1 THEN title ELSE @]
  /\ req' = Idle
  /\ UNCHANGED <<usable, perms, begun, changes, stopped>>

\* The process stops, or a commit of the session fails.
Stop ==
  /\ ~AtStep("idle") /\ Cardinality(stopped) < MaxStops
  /\ stopped' = stopped \cup {ThisReply}
  /\ req' = Idle
  /\ UNCHANGED <<thread, usable, perms, begun, changes>>

ServeReply ==
  \/ SaveUserMessage \/ PlanIsEmpty \/ PlanFails
  \/ \E n \in 0..MaxQueries : PlanAnswers(n)
  \/ \E s \in Statements, raises \in BOOLEAN : RunStatement(s, raises)
  \/ \E fails \in BOOLEAN : FinalAnswer(fails)
  \/ \E title \in Titles : StoreReply(title)

Next ==
  \/ \E u \in BOOLEAN, p \in PermissionSets : SaveSettings(u, p)
  \/ \E t \in Threads :
       \/ \E mode \in {"bare", "form", "json"} : CreateThread(t, mode)
       \/ \E mode \in {"form", "json"} : Send(t, mode)
       \/ AskForReply(t) \/ DeleteThread(t)
  \/ ServeReply \/ Stop

Spec == Init /\ [][Next]_vars

-----------------------------------------------------------------------------
MessageOK == [role : {"user"}] \cup
             [role : {"assistant"}, error : BOOLEAN, listed : SUBSET (1..MaxQueries)]
ReplyId   == [thread : Threads, question : Nat, attempt : Nat]

\* A reply always stands directly behind a question: however forms, scripts and
\* repeated requests for a reply mix, none is stored twice and none comes first
\* (history[-1].role, src/aimemory/admin/routes.py:1281).
RepliesFollowQuestions ==
  \A t \in Threads : \A i \in DOMAIN Messages(t) :
    Messages(t)[i].role = "assistant" => i > 1 /\ Messages(t)[i - 1].role = "user"

\* The state has its type, replies follow questions, and no statement that is committed
\* has changed more rows than max_write_rows (src/aimemory/services/ai_chat.py:332).
TypeOK ==
  /\ thread \in [Threads -> [state : {"absent", "open", "deleted"},
                             title : {"new"} \cup Titles, messages : Seq(MessageOK)]]
  /\ usable \in BOOLEAN /\ perms \subseteq WriteOps \cup {"select"}
  /\ begun \in [Threads -> Nat]
  /\ req \in [step : {"idle", "save", "saveAndReply", "plan", "planAgain", "sql", "final", "store"},
              thread : Threads \cup {None}, left : 0..MaxQueries, ran : Seq(BOOLEAN),
              failed : BOOLEAN]
  /\ Len(req.ran) + req.left <= MaxQueries
  /\ req.step # "idle" => req.thread \in Threads /\ Loaded(req.thread)
  /\ req.step = "sql" <=> req.left > 0
  /\ changes \subseteq [reply : ReplyId, nr : 1..MaxQueries, rows : 0..MaxWriteRows]
  /\ stopped \subseteq ReplyId
  /\ RepliesFollowQuestions

\* The SQL for one question is executed twice only if the first reply was cut off
\* between a commit of its SQL and its own: nothing but the stored reply tells a
\* later request that the work is done.
RunOnceUnlessStopped ==
  \A c, d \in changes :
    (c.reply.thread = d.reply.thread /\ c.reply.question = d.reply.question /\ c.reply # d.reply)
      => c.reply \in stopped \/ d.reply \in stopped

\* What a reply committed is listed in the message stored for it, by its place in
\* the plan, unless the model failed after the SQL had run or the process stopped
\* (metadata sql_results, src/aimemory/services/ai_chat.py:509).
CommittedIsListed ==
  \A c \in changes :
    LET ms == Messages(c.reply.thread)
        a  == c.reply.question + 1
    IN  \/ c.reply \in stopped
        \/ a = Len(ms) + 1 /\ ~AtStep("idle") /\ c.reply = ThisReply
        \/ a \in DOMAIN ms /\ ms[a].role = "assistant" /\ (ms[a].error \/ c.nr \in ms[a].listed)

-----------------------------------------------------------------------------
(* Why it holds: the parts of an inductive invariant *)

\* A reply is only ever prepared for a question that is still the last message; its SQL is
\* the first to be executed for it.
UnderWay ==
  /\ req.step \in {"save", "saveAndReply", "plan", "planAgain"} => req.ran = <<>>
  /\ req.step \in {"plan", "planAgain", "sql", "final", "store"} =>
       LET ms == Messages(req.thread) IN ms # <<>> /\ ms[Len(ms)].role = "user"

\* Change c is one of the reply being prepared, which will list it.
ToBeListed(c) == /\ req.step \in {"sql", "final", "store"} /\ c.reply = ThisReply
                 /\ c.nr \in DOMAIN req.ran /\ req.ran[c.nr]

\* Change c is listed in the reply stored for its question, or its results were lost.
Listed(c) == LET ms == Messages(c.reply.thread)
                 a  == c.reply.question + 1
             IN  a \in DOMAIN ms /\ ms[a].role = "assistant" /\ (ms[a].error \/ c.nr \in ms[a].listed)

Accounted == \A c \in changes : c.reply \in stopped \/ ToBeListed(c) \/ Listed(c)

IInv == TypeOK /\ UnderWay /\ Accounted /\ RunOnceUnlessStopped
=============================================================================
