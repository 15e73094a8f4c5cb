--------------------------- MODULE ExtractionProofs ---------------------------
(***************************************************************************)
(* What holds of /extract for every number of requests, transcripts and    *)
(* items and every time to live: the inductive invariant IInv of           *)
(* Extraction and what follows from it.                                    *)
(***************************************************************************)
EXTENDS Extraction, FiniteSetTheorems, TLAPS

\* The assumption on the constants, as the provers need it.
LEMMA Constants == /\ TTL \in Nat \ {0} /\ MaxClock \in Nat /\ MaxRestarts \in Nat
                   /\ None \notin Keys /\ None \notin Int
BY ExtractionOK

\* The first state: nobody has asked, nothing is remembered.
LEMMA InitInv == Init => IInv
<1> SUFFICES ASSUME Init PROVE IInv
  OBVIOUS
<1>1. Remembered = {} /\ IsFiniteSet({})
  BY FS_EmptySet DEF Init, Remembered
<1>2. TypeOK
  BY <1>1, Constants DEF Init, TypeOK, ListedIsStored, Setup
<1>3. UnderWay /\ MarkedBySomeone /\ AloneIsAlone
  BY <1>1, Constants DEF Init, UnderWay, MarkedBySomeone, AloneIsAlone, Active, Setup
<1>4. CleanOnesLast /\ OnceWhenAlone /\ RefusedForAnother
  BY DEF Init, CleanOnesLast, Clean, Admitted, OnceWhenAlone, RefusedForAnother
<1>5. QED
  BY <1>2, <1>3, <1>4 DEF IInv

\* The steps that leave the table and what is known of the requests alone.
Quiet(q) == ScanBreaks(q) \/ Pruned(q) \/ Check(q) \/ ModelFails(q) \/ ModelAnswers(q)
            \/ WriteItem(q) \/ SkipItem(q) \/ Finish(q)

\* Every step keeps the types.
LEMMA TypeStep == ASSUME TypeOK, Next PROVE TypeOK'
<1> USE Constants
<1>1. ASSUME NEW q \in Requests, Quiet(q) PROVE TypeOK'
  <2>1. recent' = recent /\ Remembered' = Remembered
    BY <1>1 DEF Quiet, ScanBreaks, Pruned, Check, ModelFails, ModelAnswers, WriteItem, SkipItem,
       Finish, Remembered
  <2>2. CASE WriteItem(q)
    BY <2>1, <2>2 DEF TypeOK, ListedIsStored, WriteItem
  <2>3. CASE SkipItem(q)
    BY <2>1, <2>3 DEF TypeOK, ListedIsStored, SkipItem
  <2>4. CASE ModelAnswers(q)
    BY <2>1, <2>4 DEF TypeOK, ListedIsStored, ModelAnswers, Goto
  <2>5. CASE Pruned(q)
    BY <2>1, <2>5 DEF TypeOK, ListedIsStored, Pruned, Goto, session, Setup
  <2>6. CASE Check(q)
    BY <2>1, <2>6 DEF TypeOK, ListedIsStored, Check, Answer, Goto, session, Setup
  <2>7. CASE ScanBreaks(q) \/ ModelFails(q) \/ Finish(q)
    BY <2>1, <2>7 DEF TypeOK, ListedIsStored, ScanBreaks, ModelFails, Finish, Answer, session
  <2>8. QED
    BY <1>1, <2>2, <2>3, <2>4, <2>5, <2>6, <2>7 DEF Quiet
<1>2. ASSUME NEW q \in Requests, NEW k \in Keys, Receive(q, k) PROVE TypeOK'
  BY <1>2 DEF TypeOK, ListedIsStored, Receive, Goto, Setup, Remembered
<1>3. ASSUME NEW q \in Requests, Scan(q) PROVE TypeOK'
  <2>1. Cardinality(Remembered) \in Nat
    BY FS_CardinalityType DEF TypeOK
  <2>2. QED
    BY <1>3, <2>1 DEF TypeOK, ListedIsStored, Scan, Goto, Setup, Remembered
<1>4. ASSUME NEW q \in Requests, Pop(q) PROVE TypeOK'
  <2>1. recent' \in [Keys -> 0..MaxClock \cup {None}] /\ Remembered' \subseteq Remembered
    BY <1>4 DEF TypeOK, Pop, Remembered
  <2>2. IsFiniteSet(Remembered')
    BY <2>1, FS_Subset DEF TypeOK
  <2>3. QED
    BY <1>4, <2>1, <2>2 DEF TypeOK, ListedIsStored, Pop
<1>5. ASSUME NEW q \in Requests, Mark(q) PROVE TypeOK'
  <2>1. recent' \in [Keys -> 0..MaxClock \cup {None}] /\ Remembered' \subseteq Remembered \cup {key[q]}
    BY <1>5 DEF TypeOK, Mark, Remembered
  <2>2. IsFiniteSet(Remembered')
    BY <2>1, FS_AddElement, FS_Subset DEF TypeOK
  <2>3. QED
    BY <1>5, <2>1, <2>2 DEF TypeOK, ListedIsStored, Mark, Goto, session
<1>6. CASE Restart
  <2>1. Remembered' = {} /\ IsFiniteSet({})
    BY <1>6, FS_EmptySet DEF Restart, Remembered
  <2>2. QED
    BY <1>6, <2>1 DEF TypeOK, ListedIsStored, Restart, session, Setup
<1>7. CASE Tick
  BY <1>7 DEF TypeOK, ListedIsStored, Tick, session, Remembered
<1>8. CASE AllDone
  BY <1>8 DEF TypeOK, ListedIsStored, AllDone, vars, Remembered
<1>9. QED
  BY <1>1, <1>2, <1>3, <1>4, <1>5, <1>6, <1>7, <1>8 DEF Next, Serve, Quiet

\* What a quiet step of q does: it goes on from check to mark only when its key is not
\* remembered or old, and is refused only when it is and is not.
LEMMA QuietStep ==
  ASSUME TypeOK, UnderWay, NEW q \in Requests, Quiet(q)
  PROVE  /\ UNCHANGED <<recent, clock, restarts, key, now, alone, life, expired>>
         /\ \A p \in Requests \ {q} : pc'[p] = pc[p] /\ outcome'[p] = outcome[p]
         /\ \/ /\ pc[q] \in {"ask", "write"}
               /\ \/ pc'[q] = "write" /\ outcome'[q] = "none"
                  \/ pc'[q] = "done" /\ outcome'[q] \in {"ok", "failed"}
            \/ pc[q] = "pop" /\ pc'[q] = "check" /\ outcome'[q] = "none"
            \/ pc[q] = "pop" /\ pc'[q] = "done" /\ outcome'[q] = "broken"
            \/ /\ pc[q] = "check" /\ pc'[q] = "mark" /\ outcome'[q] = "none"
               /\ key[q] \notin Remembered \/ Old(q, key[q])
            \/ /\ pc[q] = "check" /\ pc'[q] = "done" /\ outcome'[q] = "duplicate"
               /\ key[q] \in Remembered /\ ~Old(q, key[q])
         /\ pc \in [Requests -> Setup \cup {"idle", "ask", "write", "done"}]
BY DEF TypeOK, UnderWay, Quiet, ScanBreaks, Pruned, Check, ModelFails, ModelAnswers, WriteItem,
   SkipItem, Finish, Goto, Answer, session

\* Every step keeps what is known of requests under way.
LEMMA UnderWayStep == ASSUME TypeOK, UnderWay, Next PROVE UnderWay'
<1> USE Constants
<1>1. ASSUME NEW q \in Requests, Quiet(q) PROVE UnderWay'
  BY <1>1, QuietStep DEF UnderWay, Active
<1>2. ASSUME NEW q \in Requests, NEW k \in Keys, Receive(q, k) PROVE UnderWay'
  BY <1>2 DEF TypeOK, UnderWay, Receive, Goto, Active
<1>3. ASSUME NEW q \in Requests, Scan(q) \/ Pop(q) \/ Mark(q) PROVE UnderWay'
  BY <1>3 DEF TypeOK, UnderWay, Scan, Pop, Mark, Goto, Active, session
<1>4. CASE Restart
  BY <1>4 DEF TypeOK, UnderWay, Restart, Active, session
<1>5. CASE Tick
  BY <1>5 DEF TypeOK, UnderWay, Tick, Active, session
<1>6. CASE AllDone
  BY <1>6 DEF UnderWay, AllDone, Active, vars
<1>7. QED
  BY <1>1, <1>2, <1>3, <1>4, <1>5, <1>6 DEF Next, Serve, Quiet

\* Who marked a key has got as far as the model, and what it got there is never undone.
LEMMA MarkedStep == ASSUME TypeOK, UnderWay, MarkedBySomeone, Next PROVE MarkedBySomeone'
<1> USE Constants
<1>1. ASSUME NEW q \in Requests, Quiet(q) PROVE MarkedBySomeone'
  <2>1. Remembered' = Remembered
    BY <1>1, QuietStep DEF Remembered
  <2>2. \A p \in Requests : pc[p] \in {"ask", "write"} \/ outcome[p] \in {"ok", "failed"}
          => pc'[p] \in {"ask", "write"} \/ outcome'[p] \in {"ok", "failed"}
    BY <1>1, QuietStep DEF UnderWay
  <2>3. QED
    BY <1>1, <2>1, <2>2, QuietStep DEF MarkedBySomeone
<1>2. ASSUME NEW q \in Requests, NEW k \in Keys, Receive(q, k) PROVE MarkedBySomeone'
  <2>1. Remembered' = Remembered /\ UNCHANGED <<recent, restarts, outcome>>
    BY <1>2 DEF Receive, Remembered
  <2>2. pc[q] = "idle" /\ outcome[q] = "none"
    BY <1>2 DEF Receive, Goto, UnderWay
  <2>3. \A p \in Requests \ {q} : pc'[p] = pc[p] /\ key'[p] = key[p] /\ now'[p] = now[p] /\ life'[p] = life[p]
    BY <1>2 DEF Receive, Goto, TypeOK
  <2>4. QED
    BY <2>1, <2>2, <2>3 DEF MarkedBySomeone, TypeOK
<1>3. ASSUME NEW q \in Requests, Scan(q) PROVE MarkedBySomeone'
  BY <1>3 DEF MarkedBySomeone, TypeOK, Scan, Goto, Remembered
<1>4. ASSUME NEW q \in Requests, Pop(q) PROVE MarkedBySomeone'
  BY <1>4 DEF MarkedBySomeone, TypeOK, Pop, Remembered
<1>5. ASSUME NEW q \in Requests, Mark(q) PROVE MarkedBySomeone'
  <2>1. /\ pc[q] = "mark" /\ pc' = [pc EXCEPT ![q] = "ask"] /\ recent' = [recent EXCEPT ![key[q]] = now[q]]
        /\ UNCHANGED <<restarts, outcome, key, now, life>>
    BY <1>5 DEF Mark, Goto, session
  <2>2. key[q] \in Keys /\ life[q] = restarts /\ pc'[q] = "ask" /\ recent'[key[q]] = now[q]
    BY <2>1 DEF UnderWay, Active, TypeOK
  <2>3. SUFFICES ASSUME NEW k \in Remembered', k # key[q]
                 PROVE  \E p \in Requests :
                          /\ key'[p] = k /\ now'[p] = recent'[k] /\ life'[p] = restarts'
                          /\ pc'[p] \in {"ask", "write"} \/ outcome'[p] \in {"ok", "failed"}
    BY <2>1, <2>2 DEF MarkedBySomeone
  <2>4. k \in Remembered /\ recent'[k] = recent[k]
    BY <2>1, <2>3 DEF Remembered, TypeOK
  <2>5. PICK p \in Requests : /\ key[p] = k /\ now[p] = recent[k] /\ life[p] = restarts
                              /\ pc[p] \in {"ask", "write"} \/ outcome[p] \in {"ok", "failed"}
    BY <2>4 DEF MarkedBySomeone
  <2>6. pc'[p] = pc[p]
    BY <2>1, <2>3, <2>5 DEF TypeOK
  <2>7. QED
    BY <2>1, <2>4, <2>5, <2>6
<1>6. CASE Restart
  BY <1>6 DEF Restart, MarkedBySomeone, Remembered
<1>7. CASE Tick
  BY <1>7 DEF Tick, MarkedBySomeone, Remembered, session
<1>8. CASE AllDone
  BY <1>8 DEF AllDone, MarkedBySomeone, Remembered, vars
<1>9. QED
  BY <1>1, <1>2, <1>3, <1>4, <1>5, <1>6, <1>7, <1>8 DEF Next, Serve, Quiet

\* Of two requests on the table at once both know that they are not alone.
LEMMA AloneStep == ASSUME TypeOK, UnderWay, AloneIsAlone, Next PROVE AloneIsAlone'
<1> USE Constants
<1>1. ASSUME NEW q \in Requests, Quiet(q) PROVE AloneIsAlone'
  <2>1. \A p \in Requests : pc'[p] \in Setup => pc[p] \in Setup
    BY <1>1, QuietStep DEF Setup
  <2>2. QED
    BY <1>1, <2>1, QuietStep DEF AloneIsAlone
<1>2. ASSUME NEW q \in Requests, NEW k \in Keys, Receive(q, k) PROVE AloneIsAlone'
  <2>1. \A p \in Requests : pc'[p] \in Setup => p = q \/ pc[p] \in Setup
    BY <1>2 DEF Receive, Goto, TypeOK
  <2>2. \A p \in Requests : alone'[p] => alone[p]
    BY <1>2 DEF Receive
  <2>3. \A p \in Requests : p # q /\ pc[p] \in Setup => ~alone'[p] /\ ~alone'[q]
    BY <1>2 DEF Receive
  <2>4. QED
    BY <2>1, <2>2, <2>3 DEF AloneIsAlone
<1>3. ASSUME NEW q \in Requests, Scan(q) \/ Pop(q) \/ Mark(q) PROVE AloneIsAlone'
  BY <1>3 DEF TypeOK, AloneIsAlone, Scan, Pop, Mark, Goto, Setup, session
<1>4. CASE Restart
  BY <1>4 DEF Restart, AloneIsAlone, Setup, session, TypeOK
<1>5. CASE Tick \/ AllDone
  BY <1>5 DEF Tick, AllDone, AloneIsAlone, session, vars
<1>6. QED
  BY <1>1, <1>2, <1>3, <1>4, <1>5 DEF Next, Serve, Quiet

\* What was let through alone stays ahead of the others: see CleanOnesLast.
LEMMA CleanStep ==
  ASSUME TypeOK, UnderWay, AloneIsAlone, CleanOnesLast, Next
  PROVE  CleanOnesLast'
<1> USE Constants
<1>a. \A q \in Requests : now[q] \in Int /\ now[q] <= clock /\ clock \in Int
  BY DEF TypeOK, UnderWay
<1>b. \A k \in Remembered : recent[k] \in Int
  BY DEF TypeOK, Remembered
<1>1. ASSUME NEW q \in Requests, Quiet(q) PROVE CleanOnesLast'
  <2>1. /\ Remembered' = Remembered /\ UNCHANGED <<recent, clock, key, now, alone, expired>>
        /\ \A p \in Requests : (pc'[p] \in Setup => pc[p] \in Setup) /\ (pc'[p] = "pop" => pc[p] = "pop")
    BY <1>1, QuietStep DEF Setup, Remembered
  <2>2. \A p \in Requests : Clean(p)' => Clean(p)
    BY <1>1, QuietStep DEF Clean, Admitted, UnderWay
  <2>3. ASSUME NEW p \in Requests, Clean(p), NEW r \in Requests,
               pc'[r] = "mark", alone[r], key[r] = key[p]
        PROVE  TimeIsOver(p, r)
    <3>1. CASE pc[r] = "mark"
      BY <2>3, <3>1 DEF CleanOnesLast
    <3>2. CASE pc[r] # "mark"
      <4>1. pc[r] = "check" /\ (key[p] \notin Remembered \/ Old(r, key[p]))
        BY <1>1, <2>3, <3>2, QuietStep
      <4>2. CASE key[p] \notin Remembered
        BY <2>3, <4>1, <4>2 DEF CleanOnesLast, Setup
      <4>3. CASE key[p] \in Remembered /\ Old(r, key[p])
        <5>1. recent[key[p]] >= now[p] /\ now[r] - recent[key[p]] >= TTL
          BY <2>3, <4>3 DEF CleanOnesLast, Old
        <5>2. QED
          BY <1>a, <1>b, <4>3, <5>1 DEF TimeIsOver
      <4>4. QED
        BY <4>1, <4>2, <4>3
    <3>3. QED
      BY <3>1, <3>2
  <2>4. QED
    BY <2>1, <2>2, <2>3 DEF CleanOnesLast, TimeIsOver
<1>2. ASSUME NEW q \in Requests, NEW k \in Keys, Receive(q, k) PROVE CleanOnesLast'
  <2>1. /\ Remembered' = Remembered /\ UNCHANGED <<recent, clock, restarts, outcome, expired>>
        /\ pc[q] = "idle" /\ pc'[q] = "scan" /\ now'[q] = clock
        /\ \A p \in Requests \ {q} : pc'[p] = pc[p] /\ key'[p] = key[p] /\ now'[p] = now[p] /\ life'[p] = life[p]
        /\ \A p \in Requests : alone'[p] => alone[p]
    BY <1>2 DEF Receive, Goto, TypeOK, Remembered
  <2>2. \A p \in Requests : Clean(p)' => Clean(p) /\ p # q
    BY <2>1 DEF Clean, Admitted, UnderWay
  <2>3. ASSUME NEW p \in Requests, Clean(p), p # q PROVE
          /\ now'[q] >= now[p] /\ (key[p] \notin Remembered => now'[q] - now[p] >= TTL)
    BY <1>a, <2>1, <2>3 DEF CleanOnesLast
  <2>4. ASSUME NEW p \in Requests, Clean(p), p # q PROVE
          /\ \A r \in Requests : pc'[r] \in Setup => now'[r] >= now'[p]
          /\ key'[p] \in Remembered' => recent'[key'[p]] >= now'[p]
          /\ key'[p] \notin Remembered' => clock' - now'[p] >= TTL
    BY <2>1, <2>3, <2>4 DEF CleanOnesLast
  <2>5. ASSUME NEW p \in Requests, Clean(p), p # q, NEW r \in Requests PROVE
          /\ key'[p] \notin Remembered' => (pc'[r] \in Setup /\ alone'[r] => TimeIsOver(p, r)')
          /\ pc'[r] = "pop" /\ key'[p] \in expired'[r] => TimeIsOver(p, r)'
          /\ pc'[r] = "mark" /\ alone'[r] /\ key'[r] = key'[p] => TimeIsOver(p, r)'
    <3>1. CASE r = q
      BY <2>1, <2>3, <2>5, <3>1 DEF TimeIsOver
    <3>2. CASE r # q
      BY <2>1, <2>5, <3>2 DEF CleanOnesLast, TimeIsOver
    <3>3. QED
      BY <3>1, <3>2
  <2>6. QED
    BY <2>2, <2>4, <2>5 DEF CleanOnesLast
<1>3. ASSUME NEW q \in Requests, Scan(q) PROVE CleanOnesLast'
  <2>1. /\ Remembered' = Remembered /\ UNCHANGED <<recent, clock, restarts, outcome, key, now, alone, life>>
        /\ pc[q] = "scan" /\ pc'[q] = "pop" /\ expired'[q] = {k \in Remembered : Old(q, k)}
        /\ \A p \in Requests \ {q} : pc'[p] = pc[p] /\ expired'[p] = expired[p]
    BY <1>3 DEF Scan, Goto, TypeOK, Remembered
  <2>2. \A p \in Requests : Clean(p)' => Clean(p)
    BY <2>1 DEF Clean, Admitted, UnderWay
  <2>3. ASSUME NEW p \in Requests, Clean(p), key[p] \in expired'[q] PROVE TimeIsOver(p, q)
    <3>1. key[p] \in Remembered /\ now[q] - recent[key[p]] >= TTL
      BY <2>1, <2>3 DEF Old
    <3>2. recent[key[p]] >= now[p]
      BY <2>3, <3>1 DEF CleanOnesLast
    <3>3. QED
      BY <1>a, <1>b, <3>1, <3>2 DEF TimeIsOver
  <2>4. \A r \in Requests : pc'[r] \in Setup => pc[r] \in Setup
    BY <2>1 DEF Setup
  <2>5. QED
    BY <2>1, <2>2, <2>3, <2>4 DEF CleanOnesLast, TimeIsOver
<1>4. ASSUME NEW q \in Requests, Pop(q) PROVE CleanOnesLast'
  <2>1. PICK k \in expired[q] : recent' = [recent EXCEPT ![k] = None]
                                /\ expired' = [expired EXCEPT ![q] = @ \ {k}]
    BY <1>4 DEF Pop
  <2>2. /\ pc[q] = "pop" /\ UNCHANGED <<clock, restarts, pc, outcome, key, now, alone, life>>
    BY <1>4 DEF Pop
  <2>3. /\ Remembered' = Remembered \ {k} /\ \A j \in Remembered' : recent'[j] = recent[j]
        /\ \A r \in Requests : expired'[r] \subseteq expired[r]
    BY <2>1 DEF TypeOK, Remembered
  <2>4. \A p \in Requests : Clean(p)' => Clean(p)
    BY <2>2 DEF Clean, Admitted
  <2>5. ASSUME NEW p \in Requests, Clean(p), key[p] \notin Remembered'
        PROVE  /\ clock - now[p] >= TTL
               /\ \A r \in Requests : pc[r] \in Setup /\ alone[r] => TimeIsOver(p, r)
    <3>1. CASE key[p] \notin Remembered
      BY <2>5, <3>1 DEF CleanOnesLast
    <3>2. CASE key[p] = k
      <4>1. TimeIsOver(p, q)
        BY <2>2, <2>5, <3>2 DEF CleanOnesLast
      <4>2. \A r \in Requests : pc[r] \in Setup /\ alone[r] => r = q
        BY <2>2 DEF AloneIsAlone, Setup
      <4>3. QED
        BY <1>a, <4>1, <4>2 DEF TimeIsOver
    <3>3. QED
      BY <2>3, <2>5, <3>1, <3>2
  <2>6. QED
    BY <2>2, <2>3, <2>4, <2>5 DEF CleanOnesLast, TimeIsOver
<1>5. ASSUME NEW q \in Requests, Mark(q) PROVE CleanOnesLast'
  <2>1. /\ pc[q] = "mark" /\ pc' = [pc EXCEPT ![q] = "ask"] /\ recent' = [recent EXCEPT ![key[q]] = now[q]]
        /\ UNCHANGED <<clock, restarts, outcome, key, now, alone, life, expired>>
    BY <1>5 DEF Mark, Goto, session
  <2>2. key[q] \in Keys /\ now[q] # None
    BY <1>a, <2>1 DEF UnderWay, Active
  <2>3. /\ Remembered' = Remembered \cup {key[q]} /\ recent'[key[q]] = now[q]
        /\ \A j \in Keys \ {key[q]} : recent'[j] = recent[j]
    BY <2>1, <2>2 DEF TypeOK, Remembered
  <2>4. pc'[q] = "ask" /\ \A r \in Requests \ {q} : pc'[r] = pc[r]
    BY <2>1 DEF TypeOK
  <2>5. \A p \in Requests : Clean(p)' => Clean(p) \/ (p = q /\ alone[q])
    BY <2>1, <2>4 DEF Clean, Admitted
  <2>6. ASSUME NEW p \in Requests, Clean(p), p # q
        PROVE  /\ \A r \in Requests : pc'[r] \in Setup => now[r] >= now[p]
               /\ key[p] \in Remembered' => recent'[key[p]] >= now[p]
               /\ key[p] \notin Remembered' => clock - now[p] >= TTL
                    /\ \A r \in Requests : pc'[r] \in Setup /\ alone[r] => TimeIsOver(p, r)
               /\ \A r \in Requests : /\ pc'[r] = "pop" /\ key[p] \in expired[r] => TimeIsOver(p, r)
                                      /\ pc'[r] = "mark" /\ alone[r] /\ key[r] = key[p] => TimeIsOver(p, r)
    <3>1. now[q] >= now[p]
      BY <2>1, <2>6 DEF CleanOnesLast, Setup
    <3>2. \A r \in Requests : pc'[r] \in Setup \/ pc'[r] = "pop" \/ pc'[r] = "mark" => pc'[r] = pc[r]
      BY <2>4 DEF Setup
    <3>3. QED
      BY <2>3, <2>6, <3>1, <3>2 DEF CleanOnesLast, Remembered
  <2>7. ASSUME alone[q]
        PROVE  /\ recent'[key[q]] >= now[q] /\ key[q] \in Remembered'
               /\ \A r \in Requests : pc'[r] \notin Setup
    BY <1>a, <2>1, <2>3, <2>4, <2>7 DEF AloneIsAlone, Setup
  <2>8. ASSUME Clean(q) PROVE FALSE
    BY <2>1, <2>8 DEF Clean, Admitted, UnderWay
  <2>9. QED
    BY <2>1, <2>5, <2>6, <2>7, <2>8 DEF CleanOnesLast, TimeIsOver, Setup
<1>6. CASE Restart
  <2>1. \A p \in Requests : ~Clean(p)'
    BY <1>6 DEF Restart, Clean, UnderWay, TypeOK, session
  <2>2. QED
    BY <2>1 DEF CleanOnesLast
<1>7. CASE Tick
  <2>1. /\ Remembered' = Remembered /\ clock' = clock + 1
        /\ UNCHANGED <<recent, restarts, pc, outcome, key, now, alone, life, expired>>
    BY <1>7 DEF Tick, session, Remembered
  <2>2. \A p \in Requests : Clean(p)' => Clean(p)
    BY <2>1 DEF Clean, Admitted
  <2>3. \A p \in Requests : clock - now[p] >= TTL => clock' - now[p] >= TTL
    BY <1>a, <2>1
  <2>4. QED
    BY <2>1, <2>2, <2>3 DEF CleanOnesLast, TimeIsOver
<1>8. CASE AllDone
  BY <1>8 DEF AllDone, vars, CleanOnesLast, Clean, Admitted, TimeIsOver, Remembered
<1>9. QED
  BY <1>1, <1>2, <1>3, <1>4, <1>5, <1>6, <1>7, <1>8 DEF Next, Serve, Quiet

\* A request is let through by marking its key; who was let through before is then over.
LEMMA OnceStep ==
  ASSUME TypeOK, UnderWay, AloneIsAlone, CleanOnesLast, OnceWhenAlone, Next
  PROVE  OnceWhenAlone'
<1> USE Constants
<1>1. ASSUME UNCHANGED <<key, now, life>>, \A p \in Requests : Admitted(p)' => Admitted(p),
             \A p \in Requests : alone'[p] => alone[p]
      PROVE  OnceWhenAlone'
  BY <1>1 DEF OnceWhenAlone
<1>2. ASSUME NEW q \in Requests, Quiet(q) PROVE OnceWhenAlone'
  <2>1. \A p \in Requests : Admitted(p)' => Admitted(p)
    BY <1>2, QuietStep DEF Admitted, UnderWay
  <2>2. QED
    BY <1>1, <1>2, <2>1, QuietStep
<1>3. ASSUME NEW q \in Requests, NEW k \in Keys, Receive(q, k) PROVE OnceWhenAlone'
  <2>1. /\ pc[q] = "idle" /\ pc'[q] = "scan" /\ UNCHANGED outcome /\ outcome[q] = "none"
        /\ \A p \in Requests \ {q} : pc'[p] = pc[p] /\ key'[p] = key[p] /\ now'[p] = now[p] /\ life'[p] = life[p]
        /\ \A p \in Requests : alone'[p] => alone[p]
    BY <1>3 DEF Receive, Goto, TypeOK, UnderWay
  <2>2. \A p \in Requests : Admitted(p)' => Admitted(p) /\ p # q
    BY <2>1 DEF Admitted
  <2>3. QED
    BY <2>1, <2>2 DEF OnceWhenAlone
<1>4. ASSUME NEW q \in Requests, Scan(q) \/ Pop(q) PROVE OnceWhenAlone'
  <2>1. UNCHANGED <<key, now, life, alone, outcome>>
        /\ \A p \in Requests : pc'[p] \in {"ask", "write"} => pc[p] \in {"ask", "write"}
    BY <1>4 DEF Scan, Pop, Goto, TypeOK
  <2>2. QED
    BY <1>1, <2>1 DEF Admitted
<1>5. ASSUME NEW q \in Requests, Mark(q) PROVE OnceWhenAlone'
  <2>1. /\ pc[q] = "mark" /\ pc' = [pc EXCEPT ![q] = "ask"]
        /\ UNCHANGED <<outcome, key, now, alone, life>> /\ life[q] = restarts
    BY <1>5 DEF Mark, Goto, session, UnderWay, Active
  <2>2. \A p \in Requests : Admitted(p)' => Admitted(p) \/ p = q
    BY <2>1 DEF Admitted, TypeOK
  <2>3. ASSUME NEW p \in Requests, p # q, key[p] = key[q], Admitted(p), alone[p], alone[q], life[p] = life[q]
        PROVE  now[q] - now[p] >= TTL
    BY <2>1, <2>3 DEF CleanOnesLast, Clean, TimeIsOver
  <2>4. QED
    BY <2>1, <2>2, <2>3 DEF OnceWhenAlone
<1>6. CASE Restart
  <2>1. \A p \in Requests : Admitted(p)' => Admitted(p)
    BY <1>6 DEF Restart, Admitted, UnderWay, TypeOK, Active
  <2>2. QED
    BY <1>1, <1>6, <2>1 DEF Restart, session
<1>7. CASE Tick \/ AllDone
  BY <1>1, <1>7 DEF Tick, AllDone, session, vars, Admitted
<1>8. QED
  BY <1>2, <1>3, <1>4, <1>5, <1>6, <1>7 DEF Next, Serve, Quiet

\* A request is refused at check only, because of the one that marked its key.
LEMMA RefusedStep ==
  ASSUME TypeOK, UnderWay, MarkedBySomeone, RefusedForAnother, Next
  PROVE  RefusedForAnother'
<1> USE Constants
<1> DEFINE Got(p) == pc[p] \in {"ask", "write"} \/ outcome[p] \in {"ok", "failed", "died"}
<1>1. ASSUME UNCHANGED <<key, now, life>>, \A p \in Requests : Got(p) => Got(p)',
             \A p \in Requests : outcome'[p] = "duplicate" => outcome[p] = "duplicate"
      PROVE  RefusedForAnother'
  BY <1>1 DEF RefusedForAnother
<1>2. ASSUME NEW q \in Requests, Quiet(q) PROVE RefusedForAnother'
  <2>1. \A p \in Requests : Got(p) => Got(p)'
    BY <1>2, QuietStep DEF UnderWay
  <2>2. CASE outcome'[q] # "duplicate"
    <3>1. \A p \in Requests : outcome'[p] = "duplicate" => outcome[p] = "duplicate"
      BY <1>2, <2>2, QuietStep
    <3>2. QED
      BY <1>1, <1>2, <2>1, <3>1, QuietStep
  <2>3. CASE outcome'[q] = "duplicate"
    <3>1. /\ pc[q] = "check" /\ key[q] \in Remembered /\ ~Old(q, key[q]) /\ outcome[q] = "none"
          /\ UNCHANGED <<key, now, life>>
      BY <1>2, <2>3, QuietStep DEF UnderWay
    <3>2. PICK p \in Requests : /\ key[p] = key[q] /\ now[p] = recent[key[q]] /\ life[p] = restarts
                                /\ pc[p] \in {"ask", "write"} \/ outcome[p] \in {"ok", "failed"}
      BY <3>1 DEF MarkedBySomeone
    <3>3. p # q /\ life[q] = restarts /\ now[q] - now[p] < TTL
      BY <3>1, <3>2 DEF UnderWay, Active, Old, TypeOK
    <3>4. \E r \in Requests \ {q} : key'[r] = key'[q] /\ life'[r] = life'[q]
                                    /\ now'[q] - now'[r] < TTL /\ Got(r)'
      BY <2>1, <3>1, <3>2, <3>3
    <3>5. \A r \in Requests \ {q} : outcome'[r] = outcome[r]
      BY <1>2, QuietStep
    <3>6. QED
      BY <2>1, <3>1, <3>4, <3>5 DEF RefusedForAnother
  <2>4. QED
    BY <2>2, <2>3
<1>3. ASSUME NEW q \in Requests, NEW k \in Keys, Receive(q, k) PROVE RefusedForAnother'
  <2>1. /\ pc[q] = "idle" /\ UNCHANGED outcome /\ outcome[q] = "none"
        /\ \A p \in Requests \ {q} : pc'[p] = pc[p] /\ key'[p] = key[p] /\ now'[p] = now[p] /\ life'[p] = life[p]
    BY <1>3 DEF Receive, Goto, TypeOK, UnderWay
  <2>2. QED
    BY <2>1 DEF RefusedForAnother
<1>4. ASSUME NEW q \in Requests, Scan(q) \/ Pop(q) \/ Mark(q) PROVE RefusedForAnother'
  <2>1. UNCHANGED <<key, now, life, outcome>>
        /\ \A p \in Requests : pc[p] \in {"ask", "write"} => pc'[p] \in {"ask", "write"}
    BY <1>4 DEF Scan, Pop, Mark, Goto, TypeOK, session
  <2>2. QED
    BY <1>1, <2>1
<1>5. CASE Restart
  <2>1. \A p \in Requests : Got(p) => Got(p)'
    BY <1>5 DEF Restart, Active, TypeOK
  <2>2. \A p \in Requests : outcome'[p] = "duplicate" => outcome[p] = "duplicate"
    BY <1>5 DEF Restart
  <2>3. QED
    BY <1>1, <1>5, <2>1, <2>2 DEF Restart, session
<1>6. CASE Tick \/ AllDone
  BY <1>1, <1>6 DEF Tick, AllDone, session, vars
<1>7. QED
  BY <1>2, <1>3, <1>4, <1>5, <1>6 DEF Next, Serve, Quiet

-----------------------------------------------------------------------------
(* The theorems. *)

\* The inductive invariant holds in every state of /extract.
THEOREM Invariant == Spec => []IInv
<1>1. IInv /\ [Next]_vars => IInv'
  <2>1. CASE Next
    BY <2>1, TypeStep, UnderWayStep, MarkedStep, AloneStep, CleanStep, OnceStep, RefusedStep DEF IInv
  <2>2. CASE UNCHANGED vars
    BY <2>2 DEF vars, IInv, TypeOK, ListedIsStored, UnderWay, MarkedBySomeone, AloneIsAlone,
       CleanOnesLast, Clean, Admitted, TimeIsOver, OnceWhenAlone, RefusedForAnother, Remembered, Active
  <2>3. QED
    BY <2>1, <2>2
<1>2. QED
  BY InitInv, <1>1, PTL DEF Spec

\* The state has its type, the table of recent transcripts is finite, and an answer lists
\* only what is stored (extract_memory_from_transcript commits an item, then lists it).
THEOREM TypeCorrect == Spec => []TypeOK
<1>1. IInv => TypeOK
  BY DEF IInv
<1>2. QED
  BY <1>1, Invariant, PTL

\* Of two requests for one transcript that never meet another on the table, in one life of
\* the process and less than the time to live apart, at most one is let through.
THEOREM OneLetThrough == Spec => []OnceWhenAlone
<1>1. IInv => OnceWhenAlone
  BY DEF IInv
<1>2. QED
  BY <1>1, Invariant, PTL

\* Who is refused as a duplicate is refused for another request that really reached the
\* model, less than the time to live before.
THEOREM RefusedWithReason == Spec => []RefusedForAnother
<1>1. IInv => RefusedForAnother
  BY DEF IInv
<1>2. QED
  BY <1>1, Invariant, PTL
===============================================================================
