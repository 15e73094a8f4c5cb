------------------------------ MODULE Extraction ------------------------------
(***************************************************************************)
(* POST /v1/memories/extract: a transcript goes to the language model and  *)
(* what it finds worth keeping is written, one transaction per item.       *)
(*                                                                         *)
(* The server process remembers in a dict when it last began on a          *)
(* transcript (its key: user, agent, reason and digest) and answers the    *)
(* same one with nothing for a while.  Handlers run in threads: another    *)
(* one may come in between any two of the steps below, and between any two *)
(* keys prune_recent_extract_requests removes.  A restart forgets the      *)
(* dict.  The rows an item is written to are the matter of MemoryStore and *)
(* Categories, the review that follows is session "auto" of                *)
(* ReviewLifecycle.                                                        *)
(***************************************************************************)
EXTENDS Integers, FiniteSets

CONSTANTS
  Requests, Keys, Items,
  TTL,          \* EXTRACT_DEDUPE_TTL_SECONDS, in ticks of the clock
  MaxClock,     \* bound: how far the clock goes
  MaxRestarts,  \* bound
  None

ASSUME ExtractionOK ==
  /\ TTL \in Nat \ {0} /\ MaxClock \in Nat /\ MaxRestarts \in Nat
  /\ None \notin Keys \cup Int

VARIABLES
  clock,
  recent,   \* RECENT_EXTRACT_REQUESTS
  store,    \* <<q, i>>: q has committed item i
  restarts,
  pc, outcome, key, now,
  size,     \* size[q]: the size of the dict when q began to look through it
  expired,  \* expired[q]: the keys q will pop
  todo,     \* todo[q]: the items q still has to write
  written,  \* written[q]: the items q's answer lists
  alone,    \* history: q's steps on the dict met no other request's
  life      \* history: restarts before q came

vars == <<clock, recent, store, restarts, pc, outcome, key, now, size, expired, todo, written,
          alone, life>>
session == <<key, now, size, expired, todo, written, alone, life>>

Setup      == {"scan", "pop", "check", "mark"}
Active     == {q \in Requests : pc[q] \notin {"idle", "done"}}
Remembered == {k \in Keys : recent[k] # None}

Init == /\ clock = 0 /\ restarts = 0
        /\ recent = [k \in Keys |-> None]
        /\ store = {}
        /\ pc = [q \in Requests |-> "idle"]
        /\ outcome = [q \in Requests |-> "none"]
        /\ key = [q \in Requests |-> None]
        /\ now = [q \in Requests |-> 0]
        /\ size = [q \in Requests |-> 0]
        /\ expired = [q \in Requests |-> {}]
        /\ todo = [q \in Requests |-> {}]
        /\ written = [q \in Requests |-> {}]
        /\ alone = [q \in Requests |-> TRUE]
        /\ life = [q \in Requests |-> 0]

Goto(q, from, to) == pc[q] = from /\ pc' = [pc EXCEPT ![q] = to]

Answer(q, result) == /\ pc' = [pc EXCEPT ![q] = "done"]
                     /\ outcome' = [outcome EXCEPT ![q] = result]
                     /\ UNCHANGED session

\* The request arrives: its key is computed and the time is taken.
Receive(q, k) ==
  LET others == {p \in Requests : pc[p] \in Setup}
  IN  /\ Goto(q, "idle", "scan")
      /\ key' = [key EXCEPT ![q] = k]
      /\ now' = [now EXCEPT ![q] = clock]
      /\ life' = [life EXCEPT ![q] = restarts]
      /\ alone' = [p \in Requests |-> alone[p] /\ (p \in others \cup {q} => others = {})]
      /\ UNCHANGED <<clock, recent, store, restarts, outcome, size, expired, todo, written>>

\* Mutant: the table's entries live a tick longer.
OldLater(q, k) == now[q] - recent[k] > TTL

Old(q, k) == now[q] - recent[k] >= TTL

\* prune_recent_extract_requests: the list of the keys to go ...
Scan(q) ==
  /\ Goto(q, "scan", "pop")
  /\ size' = [size EXCEPT ![q] = Cardinality(Remembered)]
  /\ expired' = [expired EXCEPT ![q] = {k \in Remembered : Old(q, k)}]
  /\ UNCHANGED <<clock, recent, store, restarts, outcome, key, now, todo, written, alone, life>>

\* ... which fails when another thread has changed the dict's size meanwhile ...
ScanBreaks(q) == /\ pc[q] = "pop"
                 /\ size[q] \notin {0, Cardinality(Remembered)}
                 /\ Answer(q, "broken")
                 /\ UNCHANGED <<clock, recent, store, restarts>>

\* ... and their removal, one by one.
Pop(q) == /\ pc[q] = "pop"
          /\ \E k \in expired[q] :
               /\ recent' = [recent EXCEPT ![k] = None]
               /\ expired' = [expired EXCEPT ![q] = @ \ {k}]
          /\ size' = [size EXCEPT ![q] = 0]
          /\ UNCHANGED <<clock, store, restarts, pc, outcome, key, now, todo, written, alone, life>>

Pruned(q) == /\ expired[q] = {}
             /\ Goto(q, "pop", "check")
             /\ UNCHANGED <<clock, recent, store, restarts, outcome, session>>

Check(q) ==
  LET k == key[q]
  IN  /\ pc[q] = "check"
      /\ IF k \in Remembered /\ ~Old(q, k)
         THEN Answer(q, "duplicate")
         ELSE Goto(q, "check", "mark") /\ UNCHANGED <<outcome, session>>
      /\ UNCHANGED <<clock, recent, store, restarts>>

\* Mutant: the key is remembered once the model has answered.
MarksLater(q) == /\ Goto(q, "mark", "ask")
                 /\ UNCHANGED <<clock, recent, store, restarts, outcome, session>>

Mark(q) == /\ Goto(q, "mark", "ask")
           /\ recent' = [recent EXCEPT ![key[q]] = now[q]]
           /\ UNCHANGED <<clock, store, restarts, outcome, session>>

\* No configuration (503), no answer from the model (500) or no JSON (502).
ModelFails(q) == /\ pc[q] = "ask"
                 /\ Answer(q, "failed")
                 /\ UNCHANGED <<clock, recent, store, restarts>>

\* normalize_extracted_memory_candidates leaves any set of items.
ModelAnswers(q) ==
  /\ Goto(q, "ask", "write")
  /\ \E items \in SUBSET Items : todo' = [todo EXCEPT ![q] = items]
  /\ UNCHANGED <<clock, recent, store, restarts, outcome, key, now, size, expired, written,
                 alone, life>>

\* Mutant: no commit after the item.
WritesUncommitted(q) ==
  /\ pc[q] = "write"
  /\ \E i \in todo[q] : /\ written' = [written EXCEPT ![q] = @ \cup {i}]
                        /\ todo' = [todo EXCEPT ![q] = @ \ {i}]
  /\ UNCHANGED <<clock, recent, store, restarts, pc, outcome, key, now, size, expired,
                 alone, life>>

WriteItem(q) ==
  /\ pc[q] = "write"
  /\ \E i \in todo[q] : /\ store' = store \cup {<<q, i>>}
                        /\ written' = [written EXCEPT ![q] = @ \cup {i}]
                        /\ todo' = [todo EXCEPT ![q] = @ \ {i}]
  /\ UNCHANGED <<clock, recent, restarts, pc, outcome, key, now, size, expired, alone, life>>

\* The payload is invalid or the database refuses it: rolled back and left out.
SkipItem(q) ==
  /\ pc[q] = "write"
  /\ \E i \in todo[q] : todo' = [todo EXCEPT ![q] = @ \ {i}]
  /\ UNCHANGED <<clock, recent, store, restarts, pc, outcome, key, now, size, expired, written,
                 alone, life>>

Finish(q) == /\ pc[q] = "write" /\ todo[q] = {}
             /\ Answer(q, "ok")
             /\ UNCHANGED <<clock, recent, store, restarts>>

Serve(q) == \/ Scan(q) \/ ScanBreaks(q) \/ Pop(q) \/ Pruned(q) \/ Check(q) \/ Mark(q)
            \/ ModelFails(q) \/ ModelAnswers(q) \/ WriteItem(q) \/ SkipItem(q) \/ Finish(q)

\* The process ends and a new one starts: whatever was under way is gone.
Restart == /\ restarts < MaxRestarts /\ Active # {}
           /\ restarts' = restarts + 1
           /\ recent' = [k \in Keys |-> None]
           /\ pc' = [q \in Requests |-> IF q \in Active THEN "done" ELSE pc[q]]
           /\ outcome' = [q \in Requests |-> IF q \in Active THEN "died" ELSE outcome[q]]
           /\ UNCHANGED <<clock, store, session>>

Tick == /\ clock < MaxClock /\ clock' = clock + 1
        /\ UNCHANGED <<recent, store, restarts, pc, outcome, session>>

AllDone == (\A q \in Requests : pc[q] = "done") /\ UNCHANGED vars

Next == \/ \E q \in Requests : Serve(q) \/ \E k \in Keys : Receive(q, k)
        \/ Restart \/ Tick \/ AllDone

Spec == Init /\ [][Next]_vars
-----------------------------------------------------------------------------
\* What an answer lists is stored, whichever of the other items failed.
ListedIsStored == \A q \in Requests : \A i \in written[q] : <<q, i>> \in store

\* The state has its type, and answers list what is stored.
TypeOK == /\ ListedIsStored
          /\ clock \in 0..MaxClock /\ restarts \in 0..MaxRestarts
          /\ recent \in [Keys -> 0..MaxClock \cup {None}]
          /\ store \in SUBSET (Requests \X Items)
          /\ pc \in [Requests -> Setup \cup {"idle", "ask", "write", "done"}]
          /\ outcome \in [Requests -> {"none", "ok", "duplicate", "broken", "failed", "died"}]
          /\ key \in [Requests -> Keys \cup {None}]
          /\ now \in [Requests -> 0..MaxClock]
          /\ size \in [Requests -> Nat] /\ IsFiniteSet(Remembered)
          /\ expired \in [Requests -> SUBSET Keys]
          /\ todo \in [Requests -> SUBSET Items]
          /\ written \in [Requests -> SUBSET Items]
          /\ alone \in [Requests -> BOOLEAN]
          /\ life \in [Requests -> 0..MaxRestarts]

\* q has got past the table, and has not failed since.
Admitted(q) == pc[q] \in {"ask", "write"} \/ outcome[q] = "ok"

\* Two requests for one transcript less than the time to live apart are not both
\* let through, unless the process restarted in between or their steps on the
\* table met another request's: check and set are two steps, and a third request
\* may remove a key that has just been set again.
OnceWhenAlone == \A p, q \in Requests :
  /\ p # q /\ key[p] = key[q] /\ Admitted(p) /\ Admitted(q)
  /\ alone[p] /\ alone[q] /\ life[p] = life[q]
  => now[p] - now[q] >= TTL \/ now[q] - now[p] >= TTL

\* A request is refused as a duplicate only if another one for the same
\* transcript, less than the time to live away, really got as far as the model in
\* the life of this process: no restart, removal or late mark makes a transcript
\* be refused for longer.
RefusedForAnother == \A q \in Requests : outcome[q] = "duplicate" =>
  \E p \in Requests \ {q} :
    /\ key[p] = key[q] /\ life[p] = life[q] /\ now[q] - now[p] < TTL
    /\ pc[p] \in {"ask", "write"} \/ outcome[p] \in {"ok", "failed", "died"}
-----------------------------------------------------------------------------
(* What makes these inductive. *)

\* A request under way came in this life of the process and has no outcome yet.
UnderWay ==
  /\ \A q \in Requests : pc[q] # "done" => outcome[q] = "none"
  /\ \A q \in Active : key[q] \in Keys /\ life[q] = restarts
  /\ \A q \in Requests : life[q] <= restarts /\ now[q] <= clock

\* What the table remembers of a transcript was put there, in this life, by a request that
\* has got as far as the model.
MarkedBySomeone == \A k \in Remembered : \E p \in Requests :
  /\ key[p] = k /\ now[p] = recent[k] /\ life[p] = restarts
  /\ pc[p] \in {"ask", "write"} \/ outcome[p] \in {"ok", "failed"}

\* Who is alone on the table is its only user.
AloneIsAlone == \A q, r \in Requests :
  q # r /\ pc[q] \in Setup /\ pc[r] \in Setup => ~alone[q]

\* A request let through in this life without meeting another's steps on the table.
Clean(p) == Admitted(p) /\ alone[p] /\ life[p] = restarts

\* What follows for the others: they came later, and a key that is no longer remembered, is
\* about to be removed or about to be set again is one whose time is over.
TimeIsOver(p, q) == now[q] - now[p] >= TTL

CleanOnesLast == \A p \in Requests : Clean(p) =>
  /\ \A q \in Requests : pc[q] \in Setup => now[q] >= now[p]
  /\ key[p] \in Remembered => recent[key[p]] >= now[p]
  /\ key[p] \notin Remembered => /\ clock - now[p] >= TTL
                                /\ \A q \in Requests : pc[q] \in Setup /\ alone[q] => TimeIsOver(p, q)
  /\ \A q \in Requests : /\ pc[q] = "pop" /\ key[p] \in expired[q] => TimeIsOver(p, q)
                         /\ pc[q] = "mark" /\ alone[q] /\ key[q] = key[p] => TimeIsOver(p, q)

IInv == /\ TypeOK /\ UnderWay /\ MarkedBySomeone /\ AloneIsAlone /\ CleanOnesLast
        /\ OnceWhenAlone /\ RefusedForAnother
=============================================================================
