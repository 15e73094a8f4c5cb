--------------------------- MODULE CategoriesProofs ---------------------------
(***************************************************************************)
(* What holds of the categories for any number of writes and admin forms,  *)
(* any stored categories and memories: the inductive invariant IInv of     *)
(* Categories and what follows from it.                                    *)
(***************************************************************************)
EXTENDS Categories, TLAPS

\* The assumption on the constants, as the provers need it.
LEMMA Constants ==
  /\ Requests \subseteq CatRows /\ Requests \subseteq MemRows /\ Calls \subseteq Call
  /\ None \notin CatRows /\ None \notin MemRows /\ None \notin Requests
  /\ None \notin Category /\ None \notin Memory /\ None \notin Call
  /\ \A n \in Names : Cut[n] \in Names
  /\ \A c \in Calls : c.mem \notin Requests /\ (c.op = "move" => StoredMems[c.mem] # None)
BY ConstantsOK

\* The rows at the start, and the keys kept for the requests' new ones.
LEMMA Stored ==
  /\ \A r \in CatRows : StoredCats[r] # None => ~StoredCats[r].gone /\ StoredCats[r].into = None
  /\ \A q \in Requests : StoredCats[q] = None /\ StoredMems[q] = None
  /\ \A r, s \in CatRows : StoredCats[r] # None /\ StoredCats[s] # None
                             /\ StoredCats[r].name = StoredCats[s].name => r = s
  /\ \A m \in MemRows : StoredMems[m] # None => StoredCats[StoredMems[m].cat] # None
  /\ StoredCats \in [CatRows -> Category \cup {None}]
  /\ StoredMems \in [MemRows -> Memory \cup {None}]
BY ConstantsOK

\* The first state: nobody has begun, no category is merged or deleted.
LEMMA InitInv == Init => IInv
<1> SUFFICES ASSUME Init PROVE IInv
  OBVIOUS
<1> USE Constants, Stored
<1>1. MergesEnd
  <2> SUFFICES ASSUME NEW S \in (SUBSET CatRows) \ {{}}
               PROVE  \E r \in S : cat[r] = None \/ cat[r].into \notin S
    BY DEF MergesEnd
  <2>0. S # {} /\ S \subseteq CatRows
    OBVIOUS
  <2>1. PICK r \in S : r \in CatRows
    BY <2>0
  <2>2. cat[r] = None \/ cat[r].into \notin S
    BY <2>1 DEF Init
  <2>3. QED
    BY <2>2
<1>2. chosen \in [MemRows -> CatRows \cup {None}]
  <2>1. \A m \in MemRows : StoredMems[m] # None => StoredMems[m].cat \in CatRows
    BY DEF Memory
  <2>2. QED
    BY <2>1 DEF Init
<1>3. TypeOK
  BY <1>1, <1>2 DEF Init, TypeOK, Outcome
<1>4. TablesOK /\ OneForm
  BY DEF Init, TablesOK, OneForm, Active
<1>5. \A q \in Requests : RequestOK(q)
  BY DEF Init, RequestOK, OnItsWay, HasCategory, HasRow, FormInHand, Emptied, MadeByOk, PendingName,
     StillMissing, SecondTry, Active
<1>6. OneCategoryPerName /\ ClosedOnlyWhenEmpty /\ RetryIsEnough
  <2>1. \A m \in MemRows : StoredMems[m] # None => StoredMems[m].cat \in CatRows
    BY DEF Memory
  <2>2. QED
    BY <2>1 DEF Init, OneCategoryPerName, ClosedOnlyWhenEmpty, RetryIsEnough, InUse, Live
<1>7. FollowsItsCategory
  BY DEF Init, FollowsItsCategory
<1>8. QED
  BY <1>3, <1>4, <1>5, <1>6, <1>7 DEF IInv

-----------------------------------------------------------------------------
(* What the steps have in common. *)

\* The parts of TypeOK that speak of requests.
RequestTypes ==
  /\ lock \in [MemRows -> Requests \cup {None}]
  /\ pc \in [Requests -> {"idle", "find", "insert", "lookup", "add", "load", "flush",
                          "commit", "closing", "remove", "get", "rename", "count", "drop",
                          "read", "merge", "done"}]
  /\ call \in [Requests -> Calls \cup {None}]
  /\ outcome \in [Requests -> Outcome]
  /\ tries \in [Requests -> 0..1]
  /\ found \in [Requests -> CatRows \cup {None}]
  /\ row \in [Requests -> MemRows \cup {None}]
  /\ loaded \in [Requests -> CatRows \cup {None}]
  /\ members \in [Requests -> SUBSET MemRows]

\* The parts that speak of the tables.
TableTypes ==
  /\ cat \in [CatRows -> Category \cup {None}]
  /\ mem \in [MemRows -> Memory \cup {None}]
  /\ chosen \in [MemRows -> CatRows \cup {None}]
  /\ raced \in [MemRows -> BOOLEAN]

\* What is said of the tables alone.
TablesPart == TableTypes /\ MergesEnd /\ TablesOK /\ OneCategoryPerName /\ ClosedOnlyWhenEmpty
              /\ FollowsItsCategory

\* IInv by its parts.
LEMMA Parts == IInv <=> /\ RequestTypes /\ TablesPart /\ OneForm /\ RetryIsEnough
                        /\ \A q \in Requests : RequestOK(q)
BY DEF IInv, TypeOK, RequestTypes, TableTypes, TablesPart

\* The same, after a step.
LEMMA NextParts ==
  ASSUME RequestTypes', TablesPart', OneForm', RetryIsEnough',
         \A q \in Requests : RequestOK(q)'
  PROVE  IInv'
BY DEF IInv, TypeOK, RequestTypes, TableTypes, TablesPart

\* What is asked for has its type.
LEMMA CallTyped ==
  ASSUME RequestTypes, NEW q \in Requests, call[q] # None
  PROVE  /\ call[q] \in Calls /\ call[q] \in Call
         /\ call[q].op \in Writes \cup OnLoop \cup {"remove"} /\ call[q].name \in Names
         /\ call[q].auto \in BOOLEAN /\ call[q].mem \in MemRows /\ call[q].cat \in CatRows
         /\ call[q].target \in CatRows
<1>1. call[q] \in Calls /\ Calls \subseteq Call
  BY Constants DEF RequestTypes
<1>2. QED
  BY <1>1 DEF Call

\* A row of memory_categories has its fields.
LEMMA CatTyped ==
  ASSUME TableTypes, NEW r \in CatRows, cat[r] # None
  PROVE  /\ cat[r] \in Category /\ cat[r].name \in Names /\ cat[r].gone \in BOOLEAN
         /\ cat[r].into \in CatRows \cup {None}
BY DEF TableTypes, Category

\* A row of memories has its fields.
LEMMA MemTyped ==
  ASSUME TableTypes, NEW m \in MemRows, mem[m] # None
  PROVE  mem[m] \in Memory /\ mem[m].cat \in CatRows /\ mem[m].live \in BOOLEAN
BY DEF TableTypes, Memory

\* Request p has done nothing.
Left(p) == /\ pc'[p] = pc[p] /\ call'[p] = call[p] /\ outcome'[p] = outcome[p]
           /\ tries'[p] = tries[p] /\ found'[p] = found[p] /\ row'[p] = row[p]
           /\ loaded'[p] = loaded[p] /\ members'[p] = members[p]

\* Categories and memories that are there stay there, only q adds its own, and no other
\* memory comes to life.
Kept(q) == /\ \A r \in CatRows : cat[r] # None => cat'[r] # None
           /\ \A r \in CatRows \ {q} : cat'[r] # None => cat[r] # None
           /\ \A m \in MemRows : mem[m] # None => mem'[m] # None
           /\ \A m \in MemRows \ {q} : (mem'[m] # None => mem[m] # None) /\ (Live(m)' => Live(m))

\* A name in use stays in use, unless a form frees it.
NamesKept == \A n \in Names : Named(n) # {} => Named(n)' # {} \/ Freed'

\* What form p relies on stays as it is.
FormKept(p) ==
  /\ \A r \in CatRows : InUse(r) => InUse(r)'
  /\ \A m \in MemRows : Live(m)' /\ mem'[m].cat = call[p].cat =>
       \/ Live(m) /\ mem[m].cat = call[p].cat /\ (raced[m] => raced'[m])
       \/ pc[p] \in {"drop", "merge"} => raced'[m]

\* A request that is not done has no outcome, so what was freed stays freed.
LEMMA FreedStays ==
  ASSUME NEW q \in Requests, OnItsWay(q), pc[q] # "done",
         \A p \in Requests \ {q} : Left(p), Freed
  PROVE  Freed'
<1>1. PICK a \in Requests : /\ call[a] # None /\ call[a].op \in {"rename", "delete", "merge"}
                            /\ outcome[a] = "ok"
  BY DEF Freed
<1>2. a # q
  BY <1>1 DEF OnItsWay
<1>3. QED
  BY <1>1, <1>2 DEF Freed, Left

\* Nor does a memory go that another request has made.
LEMMA TwinStays ==
  ASSUME NEW q \in Requests, \A p \in Requests : MadeByOk(p), pc[q] # "done",
         \A p \in Requests \ {q} : Left(p), \A m \in MemRows : mem[m] # None => mem'[m] # None,
         NEW p \in Requests, call'[p] = call[p], TwinMade(p)
  PROVE  TwinMade(p)'
<1>1. PICK x \in Requests \ {p} : mem[x] # None /\ call[x].mem = call[p].mem
  BY DEF TwinMade
<1>2. x # q /\ x \in MemRows
  BY <1>1, Constants DEF MadeByOk
<1>3. mem'[x] # None /\ call'[x] = call[x]
  BY <1>1, <1>2 DEF Left
<1>4. QED
  BY <1>1, <1>3 DEF TwinMade

\* The requests that do not step keep what they rely on.
LEMMA OthersOK ==
  ASSUME IInv, NEW q \in Requests, pc[q] # "done", NEW p \in Requests \ {q},
         \A x \in Requests \ {q} : Left(x), Kept(q), NamesKept,
         pc[p] \in {"rename", "count", "drop", "read", "merge"} => FormKept(p),
         found[p] = p => Named(Cut[call[p].name])' = {},
         found[p] = p /\ found'[q] = q => Cut[call'[q].name] # Cut[call[p].name]
  PROVE  RequestOK(p)'
<1> USE Constants
<1>1. /\ RequestTypes /\ TableTypes /\ RequestOK(p) /\ OnItsWay(q) /\ Left(p)
      /\ PendingName(p) /\ HasCategory(p) /\ HasRow(p) /\ FormInHand(p) /\ Emptied(p) /\ SecondTry(p)
      /\ MadeByOk(p) /\ StillMissing(p) /\ OnItsWay(p) /\ \A x \in Requests : MadeByOk(x)
  BY Parts DEF TablesPart, RequestOK
<1>2. p \in Active <=> p \in Active'
  BY <1>1 DEF Active, Left
<1>3. OnItsWay(p)' /\ MadeByOk(p)' /\ StillMissing(p)'
  <2>1. OnItsWay(p)' /\ MadeByOk(p)'
    BY <1>1, <1>2 DEF OnItsWay, MadeByOk, Left, Kept
  <2>2. \A m \in MemRows \ {q} : ~Live(m) => ~Live(m)'
    BY DEF Kept
  <2>3. StillMissing(p)'
    <3>1. pc[p] = "add" => call[p].mem \in MemRows \ {q}
      BY <1>1, CallTyped DEF OnItsWay
    <3>2. QED
      BY <1>1, <2>2, <3>1 DEF StillMissing, Left, Live
  <2>4. QED
    BY <2>1, <2>3
<1>4. HasCategory(p)' /\ HasRow(p)'
  <2>1. found[p] \in CatRows \cup {None} /\ row[p] \in MemRows \cup {None}
    BY <1>1 DEF RequestTypes
  <2>2. HasCategory(p)'
    BY <1>1, <2>1 DEF HasCategory, Left, Kept
  <2>4. HasRow(p)'
    BY <1>1, <2>1 DEF HasRow, Left, Kept
  <2>5. QED
    BY <2>2, <2>4
<1>5. ASSUME pc[p] \in {"rename", "count", "drop", "read", "merge"}
      PROVE  FormInHand(p)' /\ Emptied(p)'
  <2>1. call[p] # None
    BY <1>1, <1>5 DEF OnItsWay
  <2>2. call[p].cat \in CatRows /\ call[p].target \in CatRows /\ members[p] \subseteq MemRows
    BY <1>1, <2>1, CallTyped DEF RequestTypes
  <2>3. FormInHand(p)'
    BY <1>1, <1>5, <2>2 DEF FormInHand, FormKept, Left
  <2>4. Emptied(p)'
    BY <1>1, <1>5, <2>2 DEF Emptied, FormKept, Left, Kept
  <2>5. QED
    BY <2>3, <2>4
<1>6. FormInHand(p)' /\ Emptied(p)'
  BY <1>1, <1>5 DEF FormInHand, Emptied, Left
<1>7. PendingName(p)'
  <2> SUFFICES ASSUME found'[p] = p
               PROVE  /\ Named(Cut[call[p].name])' = {}
                      /\ \A x \in Requests \ {p} : found'[x] = x => Cut[call'[x].name] # Cut[call'[p].name]
    BY DEF PendingName
  <2>1. found[p] = p /\ call'[p] = call[p]
    BY <1>1 DEF Left
  <2>2. ASSUME NEW x \in Requests \ {p}, found'[x] = x
        PROVE  Cut[call'[x].name] # Cut[call'[p].name]
    <3>1. CASE x = q
      BY <2>1, <2>2, <3>1
    <3>2. CASE x # q
      BY <1>1, <2>1, <2>2, <3>2 DEF Left, PendingName
    <3>3. QED
      BY <3>1, <3>2
  <2>3. QED
    BY <2>1, <2>2
<1>8. SecondTry(p)'
  <2>1. Freed => Freed'
    BY <1>1, FreedStays
  <2>2. pc[p] # "idle" => call[p] # None /\ call[p].name \in Names
    BY <1>1, CallTyped DEF OnItsWay
  <2>3. CASE tries[p] = 1
    <3>1. pc[p] # "idle" /\ call[p].name \in Names /\ call'[p] = call[p] /\ pc'[p] = pc[p]
      BY <1>1, <2>2, <2>3 DEF SecondTry, Left
    <3>2. Named(call[p].name) # {} => Named(call[p].name)' # {} \/ Freed'
      BY <3>1 DEF NamesKept, Named
    <3>3. TwinMade(p) => TwinMade(p)'
      BY <1>1, <3>1, TwinStays DEF Kept
    <3>4. pc[p] = "find" /\ Cut[call[p].name] = call[p].name
            => Named(call[p].name)' # {} \/ Freed' \/ TwinMade(p)'
      BY <1>1, <2>1, <2>3, <3>1, <3>2, <3>3 DEF SecondTry
    <3>5. pc[p] = "insert" /\ Cut[call[p].name] = call[p].name => Freed' \/ TwinMade(p)'
      BY <1>1, <2>1, <2>3, <3>1, <3>3 DEF SecondTry
    <3>6. QED
      BY <1>1, <2>3, <3>1, <3>4, <3>5 DEF SecondTry
  <2>4. CASE tries[p] # 1
    BY <1>1, <2>4 DEF SecondTry, Left
  <2>5. QED
    BY <2>3, <2>4
<1>9. QED
  BY <1>3, <1>4, <1>6, <1>7, <1>8 DEF RequestOK

\* What is said of the tables holds on when they stay as they are.
LEMMA TablesUnchanged ==
  ASSUME TablesPart, UNCHANGED tables
  PROVE  TablesPart' /\ \A n \in Names : Named(n)' = Named(n)
BY DEF TablesPart, TableTypes, MergesEnd, TablesOK, OneCategoryPerName, ClosedOnlyWhenEmpty,
   FollowsItsCategory, tables, InUse, Live, Named

\* At most one form is at work when no further one is begun.
LEMMA OneFormKept ==
  ASSUME OneForm, NEW q \in Requests, \A p \in Requests \ {q} : Left(p),
         q \in Active' => \/ q \in Active /\ call'[q] = call[q]
                          \/ LoopIsFree
  PROVE  OneForm'
<1>1. \A p \in Requests \ {q} : (p \in Active' <=> p \in Active) /\ call'[p] = call[p]
  BY DEF Active, Left
<1>2. ASSUME NEW p \in Active', NEW r \in Active', call'[p].op \in OnLoop, call'[r].op \in OnLoop,
             p # r
      PROVE  FALSE
  <2>1. p \in Requests /\ r \in Requests
    BY DEF Active
  <2>2. CASE p # q /\ r # q
    BY <1>1, <1>2, <2>1, <2>2 DEF OneForm
  <2>3. CASE p = q \/ r = q
    <3>1. CASE q \in Active /\ call'[q] = call[q]
      BY <1>1, <1>2, <2>1, <3>1 DEF OneForm
    <3>2. CASE LoopIsFree
      BY <1>1, <1>2, <2>1, <2>3, <3>2 DEF LoopIsFree
    <3>3. QED
      BY <1>2, <2>3, <3>1, <3>2
  <2>4. QED
    BY <2>2, <2>3
<1>3. QED
  BY <1>2 DEF OneForm

\* Who was refused a second time was refused because a name was freed or a twin made.
LEMMA ConflictsKept ==
  ASSUME RetryIsEnough, NEW q \in Requests, \A p \in Requests \ {q} : Left(p),
         OnItsWay(q), pc[q] # "done", \A p \in Requests : MadeByOk(p),
         \A m \in MemRows : mem[m] # None => mem'[m] # None,
         outcome'[q] = "conflict" /\ Cut[call'[q].name] = call'[q].name =>
           call'[q] = call[q] /\ (Freed \/ TwinMade(q))
  PROVE  RetryIsEnough'
<1>1. Freed => Freed'
  BY FreedStays
<1>2. ASSUME NEW p \in Requests, outcome'[p] = "conflict", Cut[call'[p].name] = call'[p].name
      PROVE  Freed' \/ TwinMade(p)'
  <2>1. call'[p] = call[p] /\ (Freed \/ TwinMade(p))
    <3>1. CASE p = q
      BY <1>2, <3>1
    <3>2. CASE p # q
      BY <1>2, <3>2 DEF Left, RetryIsEnough
    <3>3. QED
      BY <3>1, <3>2
  <2>2. TwinMade(p) => TwinMade(p)'
    BY <2>1, TwinStays
  <2>3. QED
    BY <1>1, <2>1, <2>2
<1>3. QED
  BY <1>2 DEF RetryIsEnough

\* A step of a session that commits nothing.
LEMMA SessionStep ==
  ASSUME IInv, NEW q \in Requests, pc[q] # "done", \A p \in Requests \ {q} : Left(p),
         UNCHANGED tables, RequestTypes', RequestOK(q)',
         q \in Active' => \/ q \in Active /\ call'[q] = call[q]
                          \/ LoopIsFree,
         \A p \in Requests \ {q} :
           found[p] = p /\ found'[q] = q => Cut[call'[q].name] # Cut[call[p].name],
         outcome'[q] = "conflict" /\ Cut[call'[q].name] = call'[q].name =>
           call'[q] = call[q] /\ (Freed \/ TwinMade(q))
  PROVE  IInv'
<1>1. /\ RequestTypes /\ TablesPart /\ TableTypes /\ OneForm /\ RetryIsEnough /\ OnItsWay(q)
      /\ \A p \in Requests : RequestOK(p) /\ MadeByOk(p)
  BY Parts DEF TablesPart, RequestOK
<1>2. TablesPart' /\ \A n \in Names : Named(n)' = Named(n)
  BY <1>1, TablesUnchanged
<1>3. Kept(q) /\ NamesKept /\ \A p : FormKept(p)
  BY <1>2 DEF Kept, NamesKept, FormKept, tables, InUse, Live
<1>4. ASSUME NEW p \in Requests \ {q}
      PROVE  RequestOK(p)'
  <2>1. found[p] = p => Named(Cut[call[p].name])' = {}
    <3>1. Left(p)
      OBVIOUS
    <3>2. found[p] = p => Named(Cut[call[p].name]) = {}
      BY <1>1 DEF RequestOK, PendingName
    <3>3. QED
      BY <3>1, <3>2 DEF Named, InUse, tables, Left
  <2>2. QED
    BY <1>3, <2>1, OthersOK
<1>5. OneForm'
  BY <1>1, OneFormKept
<1>6. RetryIsEnough'
  BY <1>1, <1>3, ConflictsKept DEF Kept
<1>7. QED
  BY <1>2, <1>4, <1>5, <1>6, NextParts

\* An answer ends the request and leaves the others alone.
LEMMA AnswerFacts ==
  ASSUME RequestTypes, NEW q \in Requests, NEW result \in Outcome, Answer(q, result)
  PROVE  /\ RequestTypes' /\ \A p \in Requests \ {q} : Left(p)
         /\ pc'[q] = "done" /\ outcome'[q] = result /\ call' = call /\ found'[q] = None
         /\ row'[q] = None /\ q \notin Active'
<1>1. RequestTypes'
  BY DEF RequestTypes, Answer, EndTx
<1>2. \A p \in Requests \ {q} : Left(p)
  BY DEF RequestTypes, Answer, EndTx, Left
<1>3. /\ pc'[q] = "done" /\ outcome'[q] = result /\ call' = call /\ found'[q] = None
      /\ row'[q] = None
  BY DEF RequestTypes, Answer, EndTx
<1>4. QED
  BY <1>1, <1>2, <1>3 DEF Active

\* Nothing more is asked of a request that has been answered.
LEMMA AnsweredOK ==
  ASSUME NEW q \in Requests, pc'[q] = "done", call'[q] # None, found'[q] = None, row'[q] = None,
         cat'[q] # None \/ mem'[q] # None => outcome'[q] = "ok"
  PROVE  RequestOK(q)'
<1>1. OnItsWay(q)' /\ HasCategory(q)' /\ HasRow(q)'
  BY Constants DEF OnItsWay, HasCategory, HasRow, Active
<1>2. FormInHand(q)' /\ Emptied(q)' /\ MadeByOk(q)' /\ StillMissing(q)' /\ SecondTry(q)'
  BY DEF FormInHand, Emptied, MadeByOk, StillMissing, SecondTry
<1>3. PendingName(q)'
  BY Constants DEF PendingName
<1>4. QED
  BY <1>1, <1>2, <1>3 DEF RequestOK

\* A request answered without having committed anything.
LEMMA NothingDone ==
  ASSUME IInv, NEW q \in Requests, pc[q] \notin {"idle", "done"}, NEW result \in Outcome,
         Answer(q, result), UNCHANGED tables,
         result = "conflict" /\ Cut[call[q].name] = call[q].name => Freed \/ TwinMade(q)
  PROVE  IInv'
<1>1. RequestTypes /\ OnItsWay(q) /\ MadeByOk(q)
  BY Parts DEF RequestOK
<1>2. /\ RequestTypes' /\ \A p \in Requests \ {q} : Left(p)
      /\ pc'[q] = "done" /\ outcome'[q] = result /\ call' = call /\ found'[q] = None
      /\ row'[q] = None /\ q \notin Active'
  BY <1>1, AnswerFacts
<1>3. call'[q] # None /\ cat'[q] = None /\ mem'[q] = None
  BY <1>1, <1>2 DEF OnItsWay, MadeByOk, tables
<1>4. RequestOK(q)'
  BY <1>2, <1>3, AnsweredOK
<1>5. \A p \in Requests \ {q} :
        found[p] = p /\ found'[q] = q => Cut[call'[q].name] # Cut[call[p].name]
  BY <1>2, Constants
<1>6. QED
  BY <1>2, <1>4, <1>5, SessionStep

\* A request answered with what it has committed.
LEMMA Committed ==
  ASSUME IInv, NEW q \in Requests, pc[q] \notin {"idle", "done"}, Answer(q, "ok"),
         TablesPart', Kept(q), NamesKept,
         \A p \in Requests \ {q} :
           pc[p] \in {"rename", "count", "drop", "read", "merge"} => FormKept(p),
         \A p \in Requests \ {q} : found[p] = p => Named(Cut[call[p].name])' = {}
  PROVE  IInv'
<1>1. RequestTypes /\ OnItsWay(q) /\ OneForm /\ RetryIsEnough /\ \A p \in Requests : MadeByOk(p)
  BY Parts DEF RequestOK
<1>2. /\ RequestTypes' /\ \A p \in Requests \ {q} : Left(p)
      /\ pc'[q] = "done" /\ outcome'[q] = "ok" /\ call' = call /\ found'[q] = None
      /\ row'[q] = None /\ q \notin Active'
  <2>1. "ok" \in Outcome
    BY DEF Outcome
  <2>2. QED
    BY <1>1, <2>1, AnswerFacts
<1>3. RequestOK(q)'
  BY <1>1, <1>2, AnsweredOK DEF OnItsWay
<1>4. ASSUME NEW p \in Requests \ {q}
      PROVE  RequestOK(p)'
  <2>1. found[p] = p /\ found'[q] = q => Cut[call'[q].name] # Cut[call[p].name]
    BY <1>2, Constants
  <2>2. QED
    BY <1>2, <2>1, OthersOK
<1>5. OneForm'
  BY <1>1, <1>2, OneFormKept
<1>6. RetryIsEnough'
  BY <1>1, <1>2, ConflictsKept DEF Kept
<1>7. QED
  BY <1>2, <1>3, <1>4, <1>5, <1>6, NextParts

-----------------------------------------------------------------------------
(* The way of a request. *)

\* Which operations come to which step.
LEMMA WhoIsWhere ==
  ASSUME NEW op \in Writes \cup OnLoop \cup {"remove"}
  PROVE  /\ "find" \in StepsOf(op) <=> op \in {"write", "extract", "move", "create"}
         /\ "insert" \in StepsOf(op) <=> op \in {"write", "extract", "move", "create"}
         /\ "lookup" \in StepsOf(op) <=> op \in {"write", "extract"}
         /\ "add" \in StepsOf(op) <=> op \in {"write", "extract"}
         /\ "closing" \in StepsOf(op) <=> op = "write"
         /\ "flush" \in StepsOf(op) <=> op \in Writes
         /\ "commit" \in StepsOf(op) <=> op \in Writes \cup {"create"}
         /\ "load" \in StepsOf(op) <=> op \in {"move", "remove"}
         /\ "remove" \in StepsOf(op) <=> op = "remove"
         /\ "get" \in StepsOf(op) <=> op \in {"rename", "delete", "merge"}
         /\ "rename" \in StepsOf(op) <=> op = "rename"
         /\ "count" \in StepsOf(op) <=> op = "delete"
         /\ "drop" \in StepsOf(op) <=> op = "delete"
         /\ "read" \in StepsOf(op) <=> op = "merge"
         /\ "merge" \in StepsOf(op) <=> op = "merge"
         /\ "idle" \notin StepsOf(op) /\ "done" \notin StepsOf(op)
<1>1. CASE op \in {"write", "extract"}
  BY <1>1 DEF StepsOf, Writes
<1>2. CASE op \in {"move", "create", "remove"}
  BY <1>2 DEF StepsOf, Writes
<1>3. CASE op \in {"rename", "delete", "merge"}
  BY <1>3 DEF StepsOf, Writes
<1>4. QED
  BY <1>1, <1>2, <1>3 DEF Writes, OnLoop

\* The first step of an operation, and the one after its category is found.
LEMMA WhereTo ==
  ASSUME NEW op \in Writes \cup OnLoop \cup {"remove"}
  PROVE  /\ FirstStep(op) \in StepsOf(op) /\ FirstStep(op) \in {"find", "load", "get"}
         /\ FirstStep(op) = "find" => op # "move"
         /\ op \in {"write", "extract"} => AfterCategory(op) = "lookup"
         /\ op = "move" => AfterCategory(op) = "flush"
         /\ op = "create" => AfterCategory(op) = "commit"
<1>1. CASE op \in {"write", "extract"}
  BY <1>1 DEF StepsOf, FirstStep, AfterCategory
<1>2. CASE op \in {"move", "create", "remove"}
  BY <1>2 DEF StepsOf, FirstStep, AfterCategory
<1>3. CASE op \in {"rename", "delete", "merge"}
  BY <1>3 DEF StepsOf, FirstStep, AfterCategory
<1>4. QED
  BY <1>1, <1>2, <1>3 DEF Writes, OnLoop

\* What IInv says of one request.
LEMMA Known ==
  ASSUME IInv, NEW q \in Requests
  PROVE  /\ RequestTypes /\ TableTypes /\ TablesOK /\ OneForm /\ OneCategoryPerName
         /\ OnItsWay(q) /\ HasCategory(q) /\ HasRow(q) /\ FormInHand(q) /\ Emptied(q)
         /\ MadeByOk(q) /\ PendingName(q) /\ StillMissing(q) /\ SecondTry(q)
         /\ q \in CatRows /\ q \in MemRows
         /\ pc[q] \notin {"idle", "done"} =>
              /\ q \in Active /\ call[q] # None /\ cat[q] = None /\ outcome[q] = "none"
              /\ mem[q] = None /\ call[q].mem \notin Requests
              /\ call[q] \in Calls /\ call[q] \in Call
              /\ call[q].op \in Writes \cup OnLoop \cup {"remove"} /\ call[q].name \in Names
              /\ call[q].mem \in MemRows /\ call[q].cat \in CatRows /\ call[q].target \in CatRows
              /\ pc[q] \in StepsOf(call[q].op)
<1>1. /\ RequestTypes /\ TableTypes /\ TablesOK /\ OneForm /\ OneCategoryPerName
      /\ OnItsWay(q) /\ HasCategory(q) /\ HasRow(q) /\ FormInHand(q) /\ Emptied(q)
      /\ MadeByOk(q) /\ PendingName(q) /\ StillMissing(q) /\ SecondTry(q)
  BY Parts DEF RequestOK, TablesPart
<1>2. q \in CatRows /\ q \in MemRows
  BY Constants
<1>3. ASSUME pc[q] \notin {"idle", "done"}
      PROVE  /\ q \in Active /\ call[q] # None /\ cat[q] = None /\ outcome[q] = "none"
             /\ mem[q] = None /\ pc[q] \in StepsOf(call[q].op)
  BY <1>1, <1>3 DEF OnItsWay, MadeByOk, Active
<1>4. QED
  BY <1>1, <1>2, <1>3, CallTyped, Constants

\* A step to another place on the way, with nothing to commit, of a request that
\* keeps its call.
LEMMA OnwardStep ==
  ASSUME IInv, NEW q \in Requests, pc[q] \notin {"idle", "done"}, UNCHANGED <<tables, call, outcome>>,
         \A p \in Requests \ {q} : Left(p), RequestTypes',
         pc'[q] \in StepsOf(call[q].op),
         HasCategory(q)', HasRow(q)', FormInHand(q)', Emptied(q)', StillMissing(q)', SecondTry(q)',
         found'[q] = q => \/ found[q] = q
                          \/ ~NameBusy(Cut[call[q].name]) /\ Named(Cut[call[q].name]) = {}
  PROVE  IInv'
<1>1. /\ OnItsWay(q) /\ PendingName(q) /\ q \in Active /\ call[q] # None /\ cat[q] = None
      /\ mem[q] = None /\ outcome[q] = "none"
  BY Known
<1>2. ASSUME found'[q] = q
      PROVE  /\ Named(Cut[call[q].name]) = {}
             /\ \A p \in Requests \ {q} : found[p] = p => Cut[call[p].name] # Cut[call[q].name]
  BY <1>1, <1>2 DEF NameBusy, PendingName
<1>3. PendingName(q)'
  BY <1>2 DEF PendingName, Left, Named, InUse, tables
<1>4. OnItsWay(q)' /\ MadeByOk(q)'
  <2>1. pc'[q] \notin {"idle", "done"}
    BY Known, WhoIsWhere
  <2>2. QED
    BY <1>1, <2>1 DEF OnItsWay, MadeByOk, tables, Active
<1>5. RequestOK(q)'
  BY <1>3, <1>4 DEF RequestOK
<1>6. \A p \in Requests \ {q} :
        found[p] = p /\ found'[q] = q => Cut[call'[q].name] # Cut[call[p].name]
  BY <1>2
<1>7. QED
  BY <1>1, <1>5, <1>6, SessionStep

-----------------------------------------------------------------------------
(* The steps that commit nothing. *)

\* A request is begun; a form only when no other is at work.
LEMMA BeginInv ==
  ASSUME IInv, NEW q \in Requests, Begin(q)
  PROVE  IInv'
<1>1. /\ RequestTypes /\ OnItsWay(q) /\ HasCategory(q) /\ HasRow(q) /\ MadeByOk(q) /\ SecondTry(q)
      /\ pc[q] = "idle" /\ LoopIsFree /\ q \in CatRows
  BY Known DEF Begin
<1>2. PICK c \in Calls : /\ call' = [call EXCEPT ![q] = c]
                         /\ pc' = [pc EXCEPT ![q] = FirstStep(c.op)]
  BY DEF Begin
<1>3. UNCHANGED <<tables, lock, outcome, tries, found, row, loaded, members>>
  BY DEF Begin
<1>4. c \in Call /\ c.op \in Writes \cup OnLoop \cup {"remove"} /\ c # None
  BY Constants DEF Call
<1>5. /\ FirstStep(c.op) \in StepsOf(c.op) /\ FirstStep(c.op) \in {"find", "load", "get"}
      /\ FirstStep(c.op) = "find" => c.op # "move"
  BY <1>4, WhereTo
<1>6. /\ pc'[q] = FirstStep(c.op) /\ call'[q] = c /\ found'[q] = None /\ tries'[q] # 1
      /\ outcome'[q] = "none" /\ cat'[q] = None /\ mem' = mem /\ row' = row /\ mem[q] = None
  BY <1>1, <1>2, <1>3 DEF RequestTypes, HasCategory, SecondTry, OnItsWay, MadeByOk, tables
<1>7. RequestTypes'
  BY <1>1, <1>2, <1>3, <1>5 DEF RequestTypes
<1>8. \A p \in Requests \ {q} : Left(p)
  BY <1>1, <1>2, <1>3 DEF RequestTypes, Left
<1>9. RequestOK(q)'
  <2>1. OnItsWay(q)' /\ HasCategory(q)' /\ MadeByOk(q)' /\ PendingName(q)' /\ SecondTry(q)'
    BY <1>4, <1>5, <1>6, Constants DEF OnItsWay, HasCategory, MadeByOk, PendingName, SecondTry
  <2>2. HasRow(q)' /\ FormInHand(q)' /\ Emptied(q)' /\ StillMissing(q)'
    BY <1>1, <1>5, <1>6 DEF HasRow, FormInHand, Emptied, StillMissing
  <2>3. QED
    BY <2>1, <2>2 DEF RequestOK
<1>10. QED
  <2>1. \A p \in Requests \ {q} :
          found[p] = p /\ found'[q] = q => Cut[call'[q].name] # Cut[call[p].name]
    BY <1>6, Constants
  <2>2. UNCHANGED tables
    BY <1>3 DEF tables
  <2>3. QED
    BY <1>1, <1>6, <1>7, <1>8, <1>9, <2>1, <2>2, SessionStep

\* The SELECT finds a category of that name, or there is none to be found.
LEMMA FindInv ==
  ASSUME IInv, NEW q \in Requests, FindCategory(q)
  PROVE  IInv'
<1>1. /\ RequestTypes /\ TableTypes /\ HasCategory(q) /\ HasRow(q) /\ SecondTry(q) /\ cat[q] = None
      /\ call[q].op \in Writes \cup OnLoop \cup {"remove"} /\ pc[q] \in StepsOf(call[q].op)
      /\ pc[q] = "find" /\ q \in Requests /\ call[q] # None
  BY Known DEF FindCategory
<1>2. call[q].op \in {"write", "extract", "move", "create"}
  BY <1>1, WhoIsWhere
<1>3. UNCHANGED <<tables, lock, call, outcome, tries, row, loaded, members>>
  BY DEF FindCategory
<1>4. CASE \E r \in Named(call[q].name) :
             /\ found' = [found EXCEPT ![q] = r]
             /\ pc' = [pc EXCEPT ![q] = AfterCategory(call[q].op)]
  <2>1. PICK r \in Named(call[q].name) :
             /\ found' = [found EXCEPT ![q] = r]
             /\ pc' = [pc EXCEPT ![q] = AfterCategory(call[q].op)]
    BY <1>4
  <2>2. r \in CatRows /\ cat[r] # None /\ r # q /\ r # None
    BY <1>1, Constants DEF Named, InUse
  <2>3. /\ AfterCategory(call[q].op) \in {"lookup", "flush", "commit"}
        /\ AfterCategory(call[q].op) \in StepsOf(call[q].op)
        /\ AfterCategory(call[q].op) = "flush" => call[q].op = "move"
        /\ AfterCategory(call[q].op) = "commit" => call[q].op = "create"
    BY <1>1, <1>2, WhereTo, WhoIsWhere DEF Writes
  <2>4. RequestTypes' /\ \A p \in Requests \ {q} : Left(p)
    <3>1. RequestTypes'
      BY <1>1, <1>3, <2>1, <2>2, <2>3 DEF RequestTypes
    <3>2. \A p \in Requests \ {q} : Left(p)
      BY <1>1, <1>3, <2>1 DEF RequestTypes, Left
    <3>3. QED
      BY <3>1, <3>2
  <2>5. /\ pc'[q] = AfterCategory(call[q].op) /\ found'[q] = r /\ call'[q] = call[q]
        /\ row'[q] = row[q] /\ cat' = cat /\ tries' = tries /\ mem' = mem
    BY <1>1, <1>3, <2>1 DEF RequestTypes, tables
  <2>6. HasCategory(q)' /\ HasRow(q)'
    <3>1. HasCategory(q)'
      BY <2>2, <2>3, <2>5 DEF HasCategory
    <3>2. HasRow(q)'
      BY <1>1, <2>3, <2>5 DEF HasRow, Writes
    <3>3. QED
      BY <3>1, <3>2
  <2>7. FormInHand(q)' /\ Emptied(q)' /\ StillMissing(q)' /\ SecondTry(q)'
    BY <1>1, <2>3, <2>5 DEF FormInHand, Emptied, StillMissing, SecondTry
  <2>8. QED
    BY <1>1, <1>3, <2>2, <2>3, <2>4, <2>5, <2>6, <2>7, OnwardStep
<1>5. CASE /\ Named(call[q].name) = {}
           /\ pc' = [pc EXCEPT ![q] = "insert"]
           /\ UNCHANGED found
  <2>1. RequestTypes' /\ \A p \in Requests \ {q} : Left(p)
    <3>1. RequestTypes'
      BY <1>1, <1>3, <1>5 DEF RequestTypes
    <3>2. \A p \in Requests \ {q} : Left(p)
      BY <1>1, <1>3, <1>5 DEF RequestTypes, Left
    <3>3. QED
      BY <3>1, <3>2
  <2>2. /\ pc'[q] = "insert" /\ found'[q] = found[q] /\ call'[q] = call[q]
        /\ row'[q] = row[q] /\ cat' = cat /\ tries' = tries /\ mem' = mem /\ outcome' = outcome
        /\ call' = call
    BY <1>1, <1>3, <1>5 DEF RequestTypes, tables
  <2>3. HasCategory(q)' /\ HasRow(q)' /\ FormInHand(q)' /\ Emptied(q)' /\ StillMissing(q)'
    BY <1>1, <2>2 DEF HasCategory, HasRow, FormInHand, Emptied, StillMissing, Writes
  <2>4. SecondTry(q)'
    BY <1>1, <1>5, <2>2 DEF SecondTry, Freed, TwinMade
  <2>5. found'[q] # q
    BY <1>1, <2>2, Constants DEF HasCategory
  <2>6. "insert" \in StepsOf(call[q].op)
    BY <1>1, <1>2, WhoIsWhere
  <2>7. QED
    BY <1>1, <1>3, <2>1, <2>2, <2>3, <2>4, <2>5, <2>6, OnwardStep
<1>6. QED
  BY <1>4, <1>5 DEF FindCategory

\* The INSERT gets the name, which nobody has and nobody is about to have.
LEMMA InsertInv ==
  ASSUME IInv, NEW q \in Requests, InsertCategory(q)
  PROVE  IInv'
<1>1. /\ RequestTypes /\ TableTypes /\ HasCategory(q) /\ HasRow(q) /\ SecondTry(q) /\ cat[q] = None
      /\ call[q].op \in Writes \cup OnLoop \cup {"remove"} /\ pc[q] \in StepsOf(call[q].op)
      /\ pc[q] = "insert" /\ call[q] # None /\ q \in CatRows
  BY Known DEF InsertCategory, Goto
<1>2. call[q].op \in {"write", "extract", "move", "create"}
  BY <1>1, WhoIsWhere
<1>3. /\ UNCHANGED <<tables, lock, call, outcome, tries, row, loaded, members>>
      /\ found' = [found EXCEPT ![q] = q] /\ pc' = [pc EXCEPT ![q] = AfterCategory(call[q].op)]
      /\ ~NameBusy(Cut[call[q].name]) /\ Named(Cut[call[q].name]) = {}
  BY DEF InsertCategory, Goto
<1>4. /\ AfterCategory(call[q].op) \in {"lookup", "flush", "commit"}
      /\ AfterCategory(call[q].op) \in StepsOf(call[q].op)
      /\ AfterCategory(call[q].op) = "flush" => call[q].op = "move"
      /\ AfterCategory(call[q].op) = "commit" => call[q].op = "create"
  BY <1>1, <1>2, WhereTo, WhoIsWhere DEF Writes
<1>5. RequestTypes'
  BY <1>1, <1>3, <1>4 DEF RequestTypes
<1>6. \A p \in Requests \ {q} : Left(p)
  BY <1>1, <1>3 DEF RequestTypes, Left
<1>7. /\ pc'[q] = AfterCategory(call[q].op) /\ found'[q] = q /\ call'[q] = call[q]
      /\ row'[q] = row[q] /\ tries' = tries /\ call' = call /\ outcome' = outcome
      /\ mem' = mem
  BY <1>1, <1>3 DEF RequestTypes, tables
<1>8. HasCategory(q)' /\ HasRow(q)'
  <2>1. HasCategory(q)'
    BY <1>4, <1>7, Constants DEF HasCategory
  <2>2. HasRow(q)'
    BY <1>1, <1>4, <1>7 DEF HasRow, Writes
  <2>3. QED
    BY <2>1, <2>2
<1>9. FormInHand(q)' /\ Emptied(q)' /\ StillMissing(q)' /\ SecondTry(q)'
  BY <1>1, <1>4, <1>7 DEF FormInHand, Emptied, StillMissing, SecondTry
<1>10. QED
  BY <1>1, <1>3, <1>4, <1>5, <1>6, <1>8, <1>9, OnwardStep

\* A refused INSERT: one more try, or the answer; a conflict only for a reason.
LEMMA TryAgainInv ==
  ASSUME IInv, NEW q \in Requests, pc[q] \in {"insert", "add"}, TryAgain(q), UNCHANGED tables,
         Cut[call[q].name] = call[q].name => Named(call[q].name) # {} \/ Freed \/ TwinMade(q),
         tries[q] = 1 /\ Cut[call[q].name] = call[q].name => Freed \/ TwinMade(q)
  PROVE  IInv'
<1>1. /\ RequestTypes /\ call[q].op \in Writes \cup OnLoop \cup {"remove"}
      /\ pc[q] \in StepsOf(call[q].op)
  BY Known
<1>2. CASE /\ call[q].op = "write" /\ tries[q] = 0
           /\ tries' = [tries EXCEPT ![q] = 1]
           /\ pc' = [pc EXCEPT ![q] = "find"]
           /\ EndTx(q)
           /\ UNCHANGED <<call, outcome>>
  <2>1. RequestTypes'
    BY <1>1, <1>2 DEF RequestTypes, EndTx
  <2>2. \A p \in Requests \ {q} : Left(p)
    BY <1>1, <1>2 DEF RequestTypes, Left, EndTx
  <2>3. /\ pc'[q] = "find" /\ found'[q] = None /\ row'[q] = None /\ call' = call /\ tries'[q] = 1
        /\ outcome' = outcome
    BY <1>1, <1>2 DEF RequestTypes, EndTx
  <2>4. HasCategory(q)' /\ HasRow(q)' /\ FormInHand(q)' /\ Emptied(q)' /\ StillMissing(q)'
    BY <1>2, <2>3, Constants DEF HasCategory, HasRow, FormInHand, Emptied, StillMissing
  <2>5. SecondTry(q)'
    BY <2>3 DEF SecondTry, Freed, TwinMade, Named, InUse, tables
  <2>6. found'[q] # q /\ "find" \in StepsOf(call[q].op)
    BY <1>1, <1>2, <2>3, Constants, WhoIsWhere
  <2>7. QED
    BY <1>1, <2>1, <2>2, <2>3, <2>4, <2>5, <2>6, OnwardStep
<1>3. CASE /\ call[q].op = "write" => tries[q] = 1
           /\ Answer(q, Refusal(call[q].op))
  <2>1. /\ call[q].op = "write" => Refusal(call[q].op) = "conflict"
        /\ call[q].op # "write" => Refusal(call[q].op) \in {"exists", "skipped"}
    BY DEF Refusal
  <2>2. Refusal(call[q].op) \in Outcome
    BY <2>1 DEF Outcome
  <2>3. Refusal(call[q].op) = "conflict" /\ Cut[call[q].name] = call[q].name => Freed \/ TwinMade(q)
    BY <1>3, <2>1
  <2>4. QED
    BY <1>3, <2>2, <2>3, NothingDone
<1>4. QED
  BY <1>2, <1>3 DEF TryAgain

\* The name is taken, so that the next SELECT finds it; again, if it was freed since, or the
\* first try refused over a memory.
LEMMA RefusedInv ==
  ASSUME IInv, NEW q \in Requests, CategoryRefused(q)
  PROVE  IInv'
<1>1. SecondTry(q) /\ pc[q] = "insert" /\ Named(Cut[call[q].name]) # {} /\ TryAgain(q)
      /\ UNCHANGED tables
  BY Known DEF CategoryRefused
<1>2. tries[q] = 1 /\ Cut[call[q].name] = call[q].name => Freed \/ TwinMade(q)
  BY <1>1 DEF SecondTry
<1>3. Cut[call[q].name] = call[q].name => Named(call[q].name) # {}
  BY <1>1
<1>4. QED
  BY <1>1, <1>2, <1>3, TryAgainInv

\* The external id is taken, by a memory another request has made.
LEMMA MemoryRefusedInv ==
  ASSUME IInv, NEW q \in Requests, MemoryRefused(q)
  PROVE  IInv'
<1>1. /\ StillMissing(q) /\ mem[q] = None /\ pc[q] = "add" /\ TryAgain(q) /\ UNCHANGED tables
      /\ LiveAs(call[q].mem) # {}
  BY Known DEF MemoryRefused
<1>2. PICK m \in MemRows : Live(m) /\ ExtId(m) = call[q].mem
  BY <1>1 DEF LiveAs
<1>3. m # call[q].mem /\ m # q /\ mem[m] # None
  BY <1>1, <1>2 DEF StillMissing, Live
<1>4. TwinMade(q)
  BY <1>2, <1>3 DEF ExtId, TwinMade
<1>5. QED
  BY <1>1, <1>4, TryAgainInv

\* The memory that is to be written is found, or is going to be a new one.
LEMMA LookupInv ==
  ASSUME IInv, NEW q \in Requests, LookupMemory(q)
  PROVE  IInv'
<1>1. /\ RequestTypes /\ TableTypes /\ HasCategory(q) /\ HasRow(q) /\ SecondTry(q)
      /\ mem[q] = None /\ call[q].mem \in MemRows \ Requests
      /\ call[q].op \in Writes \cup OnLoop \cup {"remove"} /\ pc[q] \in StepsOf(call[q].op)
      /\ pc[q] = "lookup" /\ call[q] # None /\ q \in MemRows
  BY Known DEF LookupMemory
<1>2. call[q].op \in {"write", "extract"}
  BY <1>1, WhoIsWhere
<1>3. UNCHANGED <<tables, lock, call, outcome, tries, found, members>>
  BY DEF LookupMemory
<1>4. \/ \E m \in MemRows : Live(m) /\ Load(q, m) /\ pc' = [pc EXCEPT ![q] = "flush"]
      \/ /\ LiveAs(call[q].mem) = {}
         /\ pc' = [pc EXCEPT ![q] = "add"]
         /\ UNCHANGED <<row, loaded>>
  BY DEF LookupMemory, LiveAs
<1>5. /\ RequestTypes' /\ (\A p \in Requests \ {q} : Left(p)) /\ pc'[q] \in {"flush", "add"}
      /\ \/ pc'[q] = "flush" /\ row'[q] # None /\ row'[q] # q /\ mem[row'[q]] # None
         \/ pc'[q] = "add" /\ row' = row /\ LiveAs(call[q].mem) = {}
  <2>1. CASE \E m \in MemRows : Live(m) /\ Load(q, m) /\ pc' = [pc EXCEPT ![q] = "flush"]
    <3>1. PICK m \in MemRows : Live(m) /\ Load(q, m) /\ pc' = [pc EXCEPT ![q] = "flush"]
      BY <2>1
    <3>2. mem[m].cat \in CatRows /\ m # None /\ m # q /\ mem[m] # None
      BY <1>1, <3>1, MemTyped, Constants DEF Live
    <3>3. /\ row' = [row EXCEPT ![q] = m] /\ loaded' = [loaded EXCEPT ![q] = mem[m].cat]
          /\ pc' = [pc EXCEPT ![q] = "flush"]
      BY <3>1 DEF Load
    <3>4. RequestTypes'
      BY <1>1, <1>3, <3>2, <3>3 DEF RequestTypes
    <3>5. \A p \in Requests \ {q} : Left(p)
      BY <1>1, <1>3, <3>3 DEF RequestTypes, Left
    <3>6. pc'[q] = "flush" /\ row'[q] = m
      BY <1>1, <3>3 DEF RequestTypes
    <3>7. QED
      BY <3>2, <3>4, <3>5, <3>6
  <2>2. CASE /\ LiveAs(call[q].mem) = {}
             /\ pc' = [pc EXCEPT ![q] = "add"]
             /\ UNCHANGED <<row, loaded>>
    <3>1. RequestTypes'
      BY <1>1, <1>3, <2>2 DEF RequestTypes
    <3>2. \A p \in Requests \ {q} : Left(p)
      BY <1>1, <1>3, <2>2 DEF RequestTypes, Left
    <3>3. QED
      BY <1>1, <2>2, <3>1, <3>2 DEF RequestTypes
  <2>3. QED
    BY <1>4, <2>1, <2>2
<1>6. /\ call' = call /\ found' = found /\ cat' = cat /\ mem' = mem /\ tries' = tries
      /\ outcome' = outcome /\ UNCHANGED tables
  BY <1>3 DEF tables
<1>7. HasCategory(q)' /\ HasRow(q)'
  <2>1. HasCategory(q)'
    BY <1>1, <1>5, <1>6 DEF HasCategory
  <2>2. HasRow(q)'
    BY <1>1, <1>2, <1>5, <1>6 DEF HasRow
  <2>3. QED
    BY <2>1, <2>2
<1>8. StillMissing(q)'
  <2>1. LiveAs(call[q].mem) = {} => ~Live(call[q].mem)
    BY <1>1 DEF LiveAs, ExtId
  <2>2. QED
    BY <1>5, <1>6, <2>1 DEF StillMissing, Live
<1>9. FormInHand(q)' /\ Emptied(q)' /\ SecondTry(q)'
  BY <1>1, <1>5, <1>6 DEF FormInHand, Emptied, SecondTry
<1>10. pc'[q] \in StepsOf(call[q].op)
  BY <1>1, <1>2, <1>5, WhoIsWhere DEF Writes
<1>11. QED
  BY <1>1, <1>5, <1>6, <1>7, <1>8, <1>9, <1>10, OnwardStep

\* The INSERT gets the external id, which no live memory has and nobody is writing.
LEMMA AddInv ==
  ASSUME IInv, NEW q \in Requests, InsertMemory(q)
  PROVE  IInv'
<1>1. /\ RequestTypes /\ HasCategory(q) /\ SecondTry(q) /\ q \in MemRows /\ pc[q] = "add"
      /\ call[q].op \in Writes \cup OnLoop \cup {"remove"} /\ pc[q] \in StepsOf(call[q].op)
  BY Known DEF InsertMemory, Goto
<1>2. /\ pc' = [pc EXCEPT ![q] = "commit"] /\ row' = [row EXCEPT ![q] = q]
      /\ UNCHANGED <<tables, lock, call, outcome, tries, found, loaded, members>>
  BY DEF InsertMemory, Goto
<1>3. RequestTypes'
  BY <1>1, <1>2 DEF RequestTypes
<1>4. \A p \in Requests \ {q} : Left(p)
  BY <1>1, <1>2 DEF RequestTypes, Left
<1>5. pc'[q] = "commit" /\ row'[q] = q /\ q # None
  BY <1>1, <1>2, Constants DEF RequestTypes
<1>6. HasCategory(q)' /\ HasRow(q)' /\ FormInHand(q)' /\ Emptied(q)' /\ StillMissing(q)' /\ SecondTry(q)'
  <2>1. HasCategory(q)'
    BY <1>1, <1>2, <1>5 DEF HasCategory, tables
  <2>2. HasRow(q)' /\ FormInHand(q)' /\ Emptied(q)' /\ StillMissing(q)'
    BY <1>5 DEF HasRow, FormInHand, Emptied, StillMissing
  <2>3. SecondTry(q)'
    BY <1>1, <1>2, <1>5 DEF SecondTry
  <2>4. QED
    BY <2>1, <2>2, <2>3
<1>7. pc'[q] \in StepsOf(call[q].op)
  BY <1>1, <1>5, WhoIsWhere DEF Writes
<1>8. QED
  BY <1>1, <1>2, <1>3, <1>4, <1>6, <1>7, OnwardStep

\* A write that has crashed keeps what it holds.
LEMMA CrashInv ==
  ASSUME IInv, NEW q \in Requests, Crash(q)
  PROVE  IInv'
<1>1. /\ RequestTypes /\ HasCategory(q) /\ HasRow(q) /\ SecondTry(q)
      /\ pc[q] = "commit" /\ call[q].op = "write" /\ row[q] # q
  BY Known DEF Crash, Goto
<1>2. pc' = [pc EXCEPT ![q] = "closing"] /\ UNCHANGED <<tables, session>>
  BY DEF Crash, Goto
<1>3. RequestTypes'
  BY <1>1, <1>2 DEF RequestTypes, session
<1>4. \A p \in Requests \ {q} : Left(p)
  BY <1>1, <1>2 DEF RequestTypes, Left, session
<1>5. pc'[q] = "closing"
  BY <1>1, <1>2 DEF RequestTypes
<1>6. HasCategory(q)' /\ HasRow(q)' /\ FormInHand(q)' /\ Emptied(q)' /\ StillMissing(q)' /\ SecondTry(q)'
  <2>1. HasCategory(q)' /\ HasRow(q)'
    BY <1>1, <1>2, <1>5 DEF HasCategory, HasRow, tables, session
  <2>2. FormInHand(q)' /\ Emptied(q)' /\ StillMissing(q)' /\ SecondTry(q)'
    BY <1>1, <1>2, <1>5 DEF FormInHand, Emptied, StillMissing, SecondTry, session
  <2>3. QED
    BY <2>1, <2>2
<1>7. pc'[q] \in StepsOf(call[q].op)
  BY <1>1, <1>5, WhoIsWhere DEF Writes
<1>8. QED
  BY <1>1, <1>2, <1>3, <1>4, <1>6, <1>7, OnwardStep DEF session

\* A memory that is to be moved or removed is read.
LEMMA LoadInv ==
  ASSUME IInv, NEW q \in Requests, LoadMemory(q)
  PROVE  IInv'
<1>1. /\ RequestTypes /\ TableTypes /\ TablesOK /\ HasCategory(q) /\ SecondTry(q) /\ mem[q] = None
      /\ call[q].op \in Writes \cup OnLoop \cup {"remove"} /\ pc[q] \in StepsOf(call[q].op)
      /\ pc[q] = "load" /\ call[q] # None /\ call[q].mem \in MemRows /\ call[q] \in Calls
  BY Known DEF LoadMemory
<1>2. call[q].op \in {"move", "remove"}
  BY <1>1, WhoIsWhere
<1>3. UNCHANGED tables
  BY DEF LoadMemory
<1>4. CASE Answer(q, "unknown")
  <2>1. "unknown" \in Outcome
    BY DEF Outcome
  <2>2. QED
    BY <1>1, <1>3, <1>4, <2>1, NothingDone
<1>5. ASSUME NEW m \in MemRows,
             IF call[q].op = "move" THEN m = call[q].mem ELSE m \in LiveAs(call[q].mem),
             Load(q, m), pc' = [pc EXCEPT ![q] = IF call[q].op = "move" THEN "find" ELSE "remove"],
             UNCHANGED <<lock, call, outcome, tries, found, members>>
      PROVE  IInv'
  <2>1. row' = [row EXCEPT ![q] = m] /\ loaded' = [loaded EXCEPT ![q] = mem[m].cat]
    BY <1>5 DEF Load
  <2>2. mem[m] # None /\ m # q /\ m # None
    BY <1>1, <1>5, Constants DEF TablesOK, Live, LiveAs
  <2>3. mem[m].cat \in CatRows
    BY <1>1, <2>2, MemTyped
  <2>4. RequestTypes'
    BY <1>1, <1>5, <2>1, <2>3 DEF RequestTypes
  <2>5. \A p \in Requests \ {q} : Left(p)
    BY <1>1, <1>5, <2>1 DEF RequestTypes, Left
  <2>6. /\ pc'[q] = IF call[q].op = "move" THEN "find" ELSE "remove"
        /\ row'[q] = m /\ call' = call /\ found' = found /\ tries' = tries
        /\ outcome' = outcome /\ mem' = mem
    BY <1>1, <1>3, <1>5, <2>1 DEF RequestTypes, tables
  <2>7. HasCategory(q)' /\ HasRow(q)'
    <3>1. HasCategory(q)'
      BY <1>1, <2>6 DEF HasCategory
    <3>2. HasRow(q)'
      BY <2>2, <2>6 DEF HasRow
    <3>3. QED
      BY <3>1, <3>2
  <2>8. FormInHand(q)' /\ Emptied(q)' /\ StillMissing(q)'
    BY <2>6 DEF FormInHand, Emptied, StillMissing
  <2>9. SecondTry(q)'
    <3>1. tries[q] # 1
      BY <1>1 DEF SecondTry
    <3>2. QED
      BY <2>6, <3>1 DEF SecondTry
  <2>10. pc'[q] \in StepsOf(call[q].op)
    BY <1>1, <1>2, <2>6, WhoIsWhere
  <2>11. found'[q] # q
    BY <1>1, <2>6, Constants DEF HasCategory
  <2>12. QED
    BY <1>1, <1>3, <2>4, <2>5, <2>6, <2>7, <2>8, <2>9, <2>10, <2>11, OnwardStep
<1>6. QED
  BY <1>4, <1>5 DEF LoadMemory

\* The memory is locked, to be written at the COMMIT.
LEMMA FlushInv ==
  ASSUME IInv, NEW q \in Requests, FlushMemory(q)
  PROVE  IInv'
<1>1. /\ RequestTypes /\ TableTypes /\ HasCategory(q) /\ HasRow(q) /\ SecondTry(q) /\ cat[q] = None
      /\ call[q].op \in Writes \cup OnLoop \cup {"remove"} /\ pc[q] \in StepsOf(call[q].op)
      /\ pc[q] = "flush" /\ call[q] # None
  BY Known DEF FlushMemory, Goto
<1>2. call[q].op \in Writes /\ row[q] \in MemRows
  BY <1>1, WhoIsWhere DEF HasRow, RequestTypes
<1>3. /\ pc' = [pc EXCEPT ![q] = "commit"] /\ lock' = [lock EXCEPT ![row[q]] = q]
      /\ UNCHANGED <<tables, call, outcome, tries, found, row, loaded, members>>
  BY DEF FlushMemory, Goto
<1>4. RequestTypes'
  BY <1>1, <1>2, <1>3 DEF RequestTypes
<1>5. \A p \in Requests \ {q} : Left(p)
  BY <1>1, <1>3 DEF RequestTypes, Left
<1>6. pc'[q] = "commit"
  BY <1>1, <1>3 DEF RequestTypes
<1>7. HasCategory(q)' /\ HasRow(q)' /\ FormInHand(q)' /\ Emptied(q)' /\ StillMissing(q)' /\ SecondTry(q)'
  <2>1. HasCategory(q)'
    BY <1>1, <1>3, <1>6 DEF HasCategory, tables
  <2>2. HasRow(q)'
    BY <1>1, <1>2, <1>3, <1>6 DEF HasRow, tables
  <2>3. FormInHand(q)' /\ Emptied(q)' /\ StillMissing(q)' /\ SecondTry(q)'
    BY <1>1, <1>3, <1>6 DEF FormInHand, Emptied, StillMissing, SecondTry
  <2>4. QED
    BY <2>1, <2>2, <2>3
<1>8. pc'[q] \in StepsOf(call[q].op)
  BY <1>1, <1>2, <1>6, WhoIsWhere
<1>9. QED
  BY <1>1, <1>3, <1>4, <1>5, <1>7, <1>8, OnwardStep

\* A form finds its categories in use.
LEMMA GetInv ==
  ASSUME IInv, NEW q \in Requests, GetCategory(q)
  PROVE  IInv'
<1>1. /\ RequestTypes /\ TableTypes /\ HasCategory(q) /\ HasRow(q) /\ SecondTry(q) /\ cat[q] = None
      /\ call[q].op \in Writes \cup OnLoop \cup {"remove"} /\ pc[q] \in StepsOf(call[q].op)
      /\ pc[q] = "get" /\ call[q] # None
  BY Known DEF GetCategory
<1>2. call[q].op \in {"rename", "delete", "merge"} /\ UNCHANGED tables
  BY <1>1, WhoIsWhere DEF GetCategory
<1>3. CASE /\ InUse(call[q].cat)
           /\ call[q].op = "merge" => InUse(call[q].target) /\ call[q].target # call[q].cat
  <2>1. pc' = [pc EXCEPT ![q] = AfterGet(call[q].op)] /\ UNCHANGED session
    BY <1>3 DEF GetCategory
  <2>2. /\ AfterGet(call[q].op) \in StepsOf(call[q].op)
        /\ AfterGet(call[q].op) \in {"rename", "count", "read"}
    BY <1>1, <1>2, WhoIsWhere DEF AfterGet
  <2>3. RequestTypes'
    BY <1>1, <2>1, <2>2 DEF RequestTypes, session
  <2>4. \A p \in Requests \ {q} : Left(p)
    BY <1>1, <2>1 DEF RequestTypes, Left, session
  <2>5. pc'[q] = AfterGet(call[q].op) /\ UNCHANGED session
    BY <1>1, <2>1 DEF RequestTypes
  <2>6. HasCategory(q)' /\ HasRow(q)'
    BY <1>1, <1>2, <2>2, <2>5 DEF HasCategory, HasRow, session, tables, Writes
  <2>7. FormInHand(q)' /\ Emptied(q)' /\ StillMissing(q)' /\ SecondTry(q)'
    <3>1. FormInHand(q)'
      BY <1>2, <1>3, <2>5 DEF FormInHand, session, tables, InUse
    <3>2. Emptied(q)' /\ StillMissing(q)' /\ SecondTry(q)'
      BY <1>1, <2>2, <2>5 DEF Emptied, StillMissing, SecondTry, session
    <3>3. QED
      BY <3>1, <3>2
  <2>8. UNCHANGED <<tables, call, outcome>> /\ found' = found
    BY <1>2, <2>1 DEF session
  <2>9. pc'[q] \in StepsOf(call[q].op)
    BY <2>2, <2>5
  <2>10. QED
    BY <1>1, <2>3, <2>4, <2>6, <2>7, <2>8, <2>9, OnwardStep
<1>4. CASE ~/\ InUse(call[q].cat)
            /\ call[q].op = "merge" => InUse(call[q].target) /\ call[q].target # call[q].cat
  <2>1. Answer(q, "unknown")
    BY <1>4 DEF GetCategory
  <2>2. "unknown" \in Outcome
    BY DEF Outcome
  <2>3. QED
    BY <1>1, <1>2, <2>1, <2>2, NothingDone
<1>5. QED
  BY <1>3, <1>4

\* A category is to be deleted in which no live memory was counted.
LEMMA CountInv ==
  ASSUME IInv, NEW q \in Requests, CountMembers(q)
  PROVE  IInv'
<1>1. /\ RequestTypes /\ TableTypes /\ HasCategory(q) /\ HasRow(q) /\ SecondTry(q) /\ FormInHand(q)
      /\ call[q].op \in Writes \cup OnLoop \cup {"remove"} /\ pc[q] \in StepsOf(call[q].op)
      /\ pc[q] = "count" /\ call[q] # None
  BY Known DEF CountMembers
<1>2. call[q].op = "delete" /\ UNCHANGED tables
  BY <1>1, WhoIsWhere DEF CountMembers
<1>3. CASE \E m \in MemRows : Live(m) /\ mem[m].cat = call[q].cat
  <2>1. Answer(q, "occupied")
    BY <1>3 DEF CountMembers
  <2>2. "occupied" \in Outcome
    BY DEF Outcome
  <2>3. QED
    BY <1>1, <1>2, <2>1, <2>2, NothingDone
<1>4. CASE ~\E m \in MemRows : Live(m) /\ mem[m].cat = call[q].cat
  <2>1. pc' = [pc EXCEPT ![q] = "drop"] /\ UNCHANGED session
    BY <1>4 DEF CountMembers
  <2>2. RequestTypes'
    BY <1>1, <2>1 DEF RequestTypes, session
  <2>3. \A p \in Requests \ {q} : Left(p)
    BY <1>1, <2>1 DEF RequestTypes, Left, session
  <2>4. pc'[q] = "drop" /\ UNCHANGED session
    BY <1>1, <2>1 DEF RequestTypes
  <2>5. HasCategory(q)' /\ HasRow(q)' /\ StillMissing(q)' /\ SecondTry(q)'
    BY <1>1, <1>2, <2>4 DEF HasCategory, HasRow, StillMissing, SecondTry, session, tables, Writes
  <2>6. FormInHand(q)' /\ Emptied(q)'
    <3>1. FormInHand(q)'
      BY <1>1, <1>2, <2>4 DEF FormInHand, session, tables, InUse
    <3>2. Emptied(q)'
      BY <1>2, <1>4, <2>4 DEF Emptied, session, tables, Live
    <3>3. QED
      BY <3>1, <3>2
  <2>7. UNCHANGED <<tables, call, outcome>> /\ found' = found
    BY <1>2, <2>1 DEF session
  <2>8. pc'[q] \in StepsOf(call[q].op)
    BY <1>1, <1>2, <2>4, WhoIsWhere
  <2>9. QED
    BY <1>1, <2>2, <2>3, <2>5, <2>6, <2>7, <2>8, OnwardStep
<1>5. QED
  BY <1>3, <1>4

\* A merge reads the memories it is going to move, deleted ones as well.
LEMMA ReadInv ==
  ASSUME IInv, NEW q \in Requests, ReadMembers(q)
  PROVE  IInv'
<1>1. /\ RequestTypes /\ TableTypes /\ HasCategory(q) /\ HasRow(q) /\ SecondTry(q) /\ FormInHand(q)
      /\ call[q].op \in Writes \cup OnLoop \cup {"remove"} /\ pc[q] \in StepsOf(call[q].op)
      /\ pc[q] = "read" /\ call[q] # None
  BY Known DEF ReadMembers, Goto
<1>2. call[q].op = "merge"
  BY <1>1, WhoIsWhere
<1>3. /\ pc' = [pc EXCEPT ![q] = "merge"]
      /\ members' = [members EXCEPT ![q] = {m \in MemRows : mem[m] # None /\ mem[m].cat = call[q].cat}]
      /\ UNCHANGED <<tables, lock, call, outcome, tries, found, row, loaded>>
  BY DEF ReadMembers, Goto
<1>4. RequestTypes'
  BY <1>1, <1>3 DEF RequestTypes
<1>5. \A p \in Requests \ {q} : Left(p)
  BY <1>1, <1>3 DEF RequestTypes, Left
<1>6. /\ pc'[q] = "merge"
      /\ members'[q] = {m \in MemRows : mem[m] # None /\ mem[m].cat = call[q].cat}
  BY <1>1, <1>3 DEF RequestTypes
<1>7. HasCategory(q)' /\ HasRow(q)' /\ StillMissing(q)' /\ SecondTry(q)'
  BY <1>1, <1>2, <1>3, <1>6 DEF HasCategory, HasRow, StillMissing, SecondTry, Writes, tables
<1>8. FormInHand(q)' /\ Emptied(q)'
  <2>1. FormInHand(q)'
    BY <1>1, <1>3, <1>6 DEF FormInHand, tables, InUse
  <2>2. Emptied(q)'
    BY <1>3, <1>6 DEF Emptied, tables, Live
  <2>3. QED
    BY <2>1, <2>2
<1>9. pc'[q] \in StepsOf(call[q].op)
  BY <1>1, <1>2, <1>6, WhoIsWhere
<1>10. QED
  BY <1>1, <1>3, <1>4, <1>5, <1>7, <1>8, <1>9, OnwardStep

\* A merge locks one more of its memories.
LEMMA FlushMemberInv ==
  ASSUME IInv, NEW q \in Requests, FlushMember(q)
  PROVE  IInv'
<1>1. /\ RequestTypes /\ HasCategory(q) /\ HasRow(q) /\ SecondTry(q) /\ FormInHand(q) /\ Emptied(q)
      /\ pc[q] \in StepsOf(call[q].op) /\ pc[q] = "merge"
  BY Known DEF FlushMember
<1>2. PICK m \in members[q] : lock' = [lock EXCEPT ![m] = q]
  BY DEF FlushMember
<1>3. UNCHANGED <<tables, pc, call, outcome, tries, found, row, loaded, members>>
  BY DEF FlushMember
<1>4. RequestTypes' /\ \A p \in Requests \ {q} : Left(p)
  BY <1>1, <1>2, <1>3 DEF RequestTypes, Left
<1>5. HasCategory(q)' /\ HasRow(q)' /\ StillMissing(q)' /\ SecondTry(q)'
  BY <1>1, <1>3 DEF HasCategory, HasRow, StillMissing, SecondTry, tables
<1>6. FormInHand(q)' /\ Emptied(q)'
  BY <1>1, <1>3 DEF FormInHand, Emptied, tables, InUse, Live
<1>7. QED
  BY <1>1, <1>3, <1>4, <1>5, <1>6, OnwardStep

\* The connection drops, or the loop closes it, and nothing is left of the transaction.
LEMMA FailInv ==
  ASSUME IInv, NEW q \in Requests, Fail(q) \/ Close(q)
  PROVE  IInv'
<1>1. pc[q] \notin {"idle", "done"} /\ Answer(q, "failed") /\ UNCHANGED tables
  BY DEF Fail, Close, Active
<1>2. "failed" \in Outcome
  BY DEF Outcome
<1>3. QED
  BY <1>1, <1>2, NothingDone

-----------------------------------------------------------------------------
(* The steps that commit. *)

\* The category that comes with a COMMIT has a name nobody else has.
LEMMA CategoryCommitted ==
  ASSUME IInv, NEW q \in Requests, pc[q] = "commit", CommitCategory(q), call' = call
  PROVE  /\ cat' \in [CatRows -> Category \cup {None}]
         /\ \A r \in CatRows : cat[r] # None => cat'[r] = cat[r]
         /\ \A r \in CatRows \ {q} : cat'[r] = cat[r]
         /\ cat'[q] # None => cat'[q].into = None /\ ~cat'[q].gone
         /\ found[q] \in CatRows /\ cat'[found[q]] # None
         /\ MergesEnd' /\ OneCategoryPerName' /\ NamesKept
         /\ \A p \in Requests \ {q} : found[p] = p => Named(Cut[call[p].name])' = {}
<1>1. /\ RequestTypes /\ TableTypes /\ OneCategoryPerName /\ HasCategory(q) /\ PendingName(q)
      /\ cat[q] = None /\ q \in CatRows /\ call[q].name \in Names /\ MergesEnd
  BY Known, Parts DEF TablesPart
<1>2. found[q] \in CatRows /\ found[q] # None
  BY <1>1 DEF HasCategory, RequestTypes
<1>3. Cut[call[q].name] \in Names
  BY <1>1, Constants
<1>4. NewCategory(q) \in Category /\ NewCategory(q) # None
  <2>1. NewCategory(q) \in Category
    BY <1>3 DEF NewCategory, Category
  <2>2. QED
    BY <2>1, Constants
<1>5. cat' = IF found[q] = q THEN [cat EXCEPT ![q] = NewCategory(q)] ELSE cat
  BY DEF CommitCategory
<1>6. /\ cat' \in [CatRows -> Category \cup {None}]
      /\ \A r \in CatRows \ {q} : cat'[r] = cat[r]
      /\ cat'[q] = IF found[q] = q THEN NewCategory(q) ELSE None
  BY <1>1, <1>4, <1>5 DEF TableTypes
<1>7. \A r \in CatRows : cat[r] # None => cat'[r] = cat[r]
  BY <1>1, <1>6
<1>8. cat'[q] # None => /\ found[q] = q /\ cat'[q].into = None /\ ~cat'[q].gone
                        /\ cat'[q].name = Cut[call[q].name]
  BY <1>6 DEF NewCategory
<1>9. cat'[found[q]] # None
  BY <1>1, <1>2, <1>4, <1>6 DEF HasCategory
<1>10. MergesEnd'
  <2> SUFFICES ASSUME NEW S \in (SUBSET CatRows) \ {{}}
               PROVE  \E r \in S : cat'[r] = None \/ cat'[r].into \notin S
    BY DEF MergesEnd
  <2>1. PICK r \in S : cat[r] = None \/ cat[r].into \notin S
    BY <1>1 DEF MergesEnd
  <2>2. r \in CatRows /\ None \notin S
    BY <2>1, Constants
  <2>3. cat'[r] = None \/ cat'[r].into \notin S
    BY <1>1, <1>6, <1>8, <2>1, <2>2
  <2>4. QED
    BY <2>3
<1>11. OneCategoryPerName'
  <2>1. ASSUME NEW r \in CatRows, NEW s \in CatRows, InUse(r)', InUse(s)', cat'[r].name = cat'[s].name,
               r # s
        PROVE  FALSE
    <3>1. CASE r # q /\ s # q
      BY <1>1, <1>6, <2>1, <3>1 DEF InUse, OneCategoryPerName
    <3>2. CASE r = q
      BY <1>1, <1>6, <1>8, <2>1, <3>2 DEF InUse, PendingName, Named
    <3>3. CASE s = q
      BY <1>1, <1>6, <1>8, <2>1, <3>3 DEF InUse, PendingName, Named
    <3>4. QED
      BY <3>1, <3>2, <3>3
  <2>2. QED
    BY <2>1 DEF OneCategoryPerName
<1>12. NamesKept
  BY <1>7 DEF NamesKept, Named, InUse
<1>13. ASSUME NEW p \in Requests \ {q}, found[p] = p
       PROVE  Named(Cut[call[p].name])' = {}
  <2>1. PendingName(p)
    BY Known
  <2>2. /\ Named(Cut[call[p].name]) = {}
        /\ found[q] = q => Cut[call[q].name] # Cut[call[p].name]
    BY <1>13, <2>1 DEF PendingName
  <2>3. ASSUME NEW r \in CatRows, InUse(r)', cat'[r].name = Cut[call[p].name]
        PROVE  FALSE
    <3>1. CASE r = q
      BY <1>8, <2>2, <2>3, <3>1 DEF InUse
    <3>2. CASE r # q
      BY <1>6, <2>2, <2>3, <3>2 DEF InUse, Named
    <3>3. QED
      BY <3>1, <3>2
  <2>4. QED
    BY <2>3 DEF Named
<1>14. QED
  BY <1>2, <1>6, <1>7, <1>8, <1>9, <1>10, <1>11, <1>12, <1>13

\* A form at work is the only one.
LEMMA OnlyForm ==
  ASSUME IInv, NEW q \in Requests, q \in Active, call[q].op \in OnLoop, NEW p \in Requests \ {q}
  PROVE  pc[p] \notin {"rename", "count", "drop", "read", "merge"}
<1> SUFFICES ASSUME pc[p] \in {"rename", "count", "drop", "read", "merge"}
             PROVE  FALSE
  OBVIOUS
<1>1. /\ p \in Active /\ call[p].op \in Writes \cup OnLoop \cup {"remove"}
      /\ pc[p] \in StepsOf(call[p].op) /\ OneForm
  BY Known
<1>2. call[p].op \in OnLoop
  BY <1>1, WhoIsWhere DEF OnLoop
<1>3. QED
  BY <1>1, <1>2 DEF OneForm

\* The new category of a form.
LEMMA CreateInv ==
  ASSUME IInv, NEW q \in Requests, CommitCreate(q)
  PROVE  IInv'
<1>1. /\ pc[q] = "commit" /\ call[q].op = "create" /\ CommitCategory(q) /\ Answer(q, "ok")
      /\ UNCHANGED <<mem, chosen, raced>> /\ q \in Active /\ TablesPart
  BY Known, Parts DEF CommitCreate
<1>2. call' = call
  BY <1>1 DEF Answer
<1>3. /\ cat' \in [CatRows -> Category \cup {None}]
      /\ \A r \in CatRows : cat[r] # None => cat'[r] = cat[r]
      /\ \A r \in CatRows \ {q} : cat'[r] = cat[r]
      /\ cat'[q] # None => cat'[q].into = None /\ ~cat'[q].gone
      /\ MergesEnd' /\ OneCategoryPerName' /\ NamesKept
      /\ \A p \in Requests \ {q} : found[p] = p => Named(Cut[call[p].name])' = {}
  BY <1>1, <1>2, CategoryCommitted
<1>4. TableTypes /\ TableTypes' /\ TablesOK /\ \A m \in MemRows : mem[m] # None => mem[m].cat \in CatRows
  BY <1>1, <1>3, MemTyped DEF TablesPart, TableTypes
<1>5. TablesOK' /\ ClosedOnlyWhenEmpty'
  <2>1. TablesOK'
    BY <1>1, <1>3, <1>4 DEF TablesOK
  <2>2. ClosedOnlyWhenEmpty'
    BY <1>1, <1>3, <1>4 DEF TablesPart, ClosedOnlyWhenEmpty, Live, InUse
  <2>3. QED
    BY <2>1, <2>2
<1>6. FollowsItsCategory'
  <2>1. ASSUME NEW m \in MemRows, mem[m] # None, ~raced[m], NEW S \in SUBSET CatRows, chosen[m] \in S,
               \A r \in S : cat'[r] # None /\ cat'[r].into # None => cat'[r].into \in S
        PROVE  mem[m].cat \in S
    <3>1. \A r \in S : cat[r] # None /\ cat[r].into # None => cat[r].into \in S
      BY <1>3, <2>1
    <3>2. QED
      BY <1>1, <2>1, <3>1 DEF TablesPart, FollowsItsCategory
  <2>2. QED
    BY <1>1, <2>1 DEF FollowsItsCategory
<1>7. Kept(q)
  BY <1>1, <1>3 DEF Kept, Live
<1>8. \A p \in Requests \ {q} : pc[p] \notin {"rename", "count", "drop", "read", "merge"}
  BY <1>1, OnlyForm DEF OnLoop
<1>9. TablesPart'
  BY <1>3, <1>4, <1>5, <1>6 DEF TablesPart
<1>10. QED
  BY <1>1, <1>3, <1>7, <1>8, <1>9, Committed

\* A memory is written, with its category if that is new; unless raced, where it was asked for.
LEMMA WriteInv ==
  ASSUME IInv, NEW q \in Requests, CommitWrite(q)
  PROVE  IInv'
<1> DEFINE m  == row[q]
           to == IF mem[m] = None THEN found[q] ELSE Written(found[q], loaded[q], mem[m].cat)
<1>1. /\ pc[q] = "commit" /\ call[q].op \in Writes /\ CommitCategory(q) /\ Answer(q, "ok")
      /\ mem' = [mem EXCEPT ![m] = [cat |-> to, live |-> mem[m] = None \/ mem[m].live]]
      /\ chosen' = [chosen EXCEPT ![m] = found[q]]
      /\ raced' = [raced EXCEPT ![m] = \/ Closing(to)
                                       \/ cat[to] # None /\ cat[to].gone
                                       \/ mem[m] # None /\ mem[m].cat # loaded[q]]
  BY DEF CommitWrite
<1>2. /\ RequestTypes /\ TableTypes /\ TablesOK /\ HasCategory(q) /\ HasRow(q) /\ TablesPart
      /\ q \in CatRows /\ m \in MemRows /\ cat[q] = None
  <2>1. /\ RequestTypes /\ TableTypes /\ TablesOK /\ HasCategory(q) /\ HasRow(q) /\ TablesPart
        /\ q \in CatRows /\ cat[q] = None
    BY <1>1, Known, Parts
  <2>2. m \in MemRows
    BY <1>1, <2>1 DEF HasRow, RequestTypes
  <2>3. QED
    BY <2>1, <2>2
<1>3. call' = call
  BY <1>1 DEF Answer
<1>4. /\ cat' \in [CatRows -> Category \cup {None}]
      /\ \A r \in CatRows : cat[r] # None => cat'[r] = cat[r]
      /\ \A r \in CatRows \ {q} : cat'[r] = cat[r]
      /\ cat'[q] # None => cat'[q].into = None /\ ~cat'[q].gone
      /\ found[q] \in CatRows /\ cat'[found[q]] # None
      /\ MergesEnd' /\ OneCategoryPerName' /\ NamesKept
      /\ \A p \in Requests \ {q} : found[p] = p => Named(Cut[call[p].name])' = {}
  BY <1>1, <1>3, CategoryCommitted
<1>5. to \in CatRows /\ cat'[to] # None
  <2>1. mem[m] # None => mem[m].cat \in CatRows /\ cat[mem[m].cat] # None
    BY <1>2, MemTyped DEF TablesOK
  <2>2. QED
    BY <1>4, <2>1 DEF Written
<1>6. /\ mem'[m] = [cat |-> to, live |-> mem[m] = None \/ mem[m].live]
      /\ chosen'[m] = found[q]
      /\ raced'[m] = (\/ Closing(to)
                      \/ cat[to] # None /\ cat[to].gone
                      \/ mem[m] # None /\ mem[m].cat # loaded[q])
      /\ \A x \in MemRows \ {m} : mem'[x] = mem[x] /\ chosen'[x] = chosen[x] /\ raced'[x] = raced[x]
  BY <1>1, <1>2 DEF TableTypes
<1>7. to = found[q] \/ raced'[m]
  BY <1>6 DEF Written
<1>8. mem'[m] \in Memory /\ mem'[m] # None /\ mem'[m].cat = to
  <2>1. (mem[m] = None \/ mem[m].live) \in BOOLEAN
    OBVIOUS
  <2>2. mem'[m] \in Memory
    BY <1>5, <1>6, <2>1 DEF Memory
  <2>3. QED
    BY <1>6, <2>2, Constants
<1> HIDE DEF m, to
<1>9. TableTypes'
  <2>1. mem' \in [MemRows -> Memory \cup {None}]
    BY <1>1, <1>2, <1>6, <1>8 DEF TableTypes
  <2>2. chosen' \in [MemRows -> CatRows \cup {None}]
    BY <1>1, <1>2, <1>4 DEF TableTypes
  <2>3. raced' \in [MemRows -> BOOLEAN]
    BY <1>1, <1>2 DEF TableTypes
  <2>4. QED
    BY <1>4, <2>1, <2>2, <2>3 DEF TableTypes
<1>10. \A x \in MemRows : mem[x] # None => mem[x].cat \in CatRows
  BY <1>2, MemTyped
<1>11. TablesOK'
  <2>1. \A r \in CatRows : cat'[r] # None /\ cat'[r].into # None => cat'[r].gone
    BY <1>2, <1>4 DEF TablesOK
  <2>2. \A x \in MemRows : mem'[x] # None => cat'[mem'[x].cat] # None
    BY <1>2, <1>4, <1>5, <1>6, <1>8, <1>10 DEF TablesOK
  <2>3. \A x \in MemRows : StoredMems[x] # None => mem'[x] # None
    BY <1>2, <1>6, <1>8 DEF TablesOK
  <2>4. QED
    BY <2>1, <2>2, <2>3 DEF TablesOK
<1>12. ClosedOnlyWhenEmpty'
  <2>1. ASSUME ~raced'[m]
        PROVE  cat'[to] # None /\ ~cat'[to].gone
    BY <1>2, <1>4, <1>5, <1>6, <2>1
  <2>2. ASSUME NEW x \in MemRows \ {m}, Live(x)', ~raced'[x]
        PROVE  InUse(mem[x].cat)'
    <3>1. mem'[x] = mem[x] /\ raced'[x] = raced[x]
      BY <1>6
    <3>2. mem[x].cat \in CatRows /\ InUse(mem[x].cat)
      BY <1>2, <1>10, <2>2, <3>1 DEF TablesPart, ClosedOnlyWhenEmpty, Live
    <3>3. QED
      BY <1>4, <3>1, <3>2 DEF InUse
  <2>3. QED
    BY <1>6, <1>8, <2>1, <2>2 DEF ClosedOnlyWhenEmpty, InUse, Live
<1>13. FollowsItsCategory'
  <2>1. ASSUME NEW x \in MemRows, mem'[x] # None, ~raced'[x], NEW S \in SUBSET CatRows,
               chosen'[x] \in S,
               \A r \in S : cat'[r] # None /\ cat'[r].into # None => cat'[r].into \in S
        PROVE  mem'[x].cat \in S
    <3>1. CASE x = m
      BY <1>6, <1>7, <1>8, <2>1, <3>1
    <3>2. CASE x # m
      <4>1. \A r \in S : cat[r] # None /\ cat[r].into # None => cat[r].into \in S
        BY <1>4, <2>1
      <4>2. mem[x] # None /\ ~raced[x] /\ chosen[x] \in S /\ mem'[x] = mem[x]
        BY <1>6, <2>1, <3>2
      <4>3. QED
        BY <1>2, <4>1, <4>2 DEF TablesPart, FollowsItsCategory
    <3>3. QED
      BY <3>1, <3>2
  <2>2. QED
    BY <2>1 DEF FollowsItsCategory
<1>14. Kept(q)
  <2>1. m # q => mem[m] # None
    BY <1>2, Constants DEF HasRow, m
  <2>2. ASSUME NEW x \in MemRows \ {q}, Live(x)' PROVE Live(x)
    <3>1. CASE x = m
      <4>1. mem[m] # None /\ mem[m].live \in BOOLEAN
        BY <1>2, <2>1, <3>1, MemTyped
      <4>2. mem'[m].live = mem[m].live
        BY <1>6, <4>1
      <4>3. QED
        BY <2>2, <3>1, <4>1, <4>2 DEF Live
    <3>2. CASE x # m
      BY <1>6, <2>2, <3>2 DEF Live
    <3>3. QED
      BY <3>1, <3>2
  <2>3. QED
    BY <1>4, <1>6, <1>8, <2>1, <2>2 DEF Kept
<1>15. ASSUME NEW p \in Requests \ {q}, pc[p] \in {"rename", "count", "drop", "read", "merge"}
       PROVE  FormKept(p)
  <2>1. \A r \in CatRows : InUse(r) => InUse(r)'
    BY <1>4 DEF InUse
  <2>2. pc[p] \in {"drop", "merge"} /\ to = call[p].cat => raced'[m]
    <3>1. p \in Active
      BY <1>15, Known
    <3>2. QED
      BY <1>6, <3>1 DEF Closing
  <2>3. ASSUME NEW x \in MemRows, Live(x)', mem'[x].cat = call[p].cat
        PROVE  \/ Live(x) /\ mem[x].cat = call[p].cat /\ (raced[x] => raced'[x])
               \/ pc[p] \in {"drop", "merge"} => raced'[x]
    <3>1. CASE x = m
      BY <1>8, <2>2, <2>3, <3>1
    <3>2. CASE x # m
      BY <1>6, <2>3, <3>2 DEF Live
    <3>3. QED
      BY <3>1, <3>2
  <2>4. QED
    BY <2>1, <2>3 DEF FormKept
<1>16. TablesPart'
  BY <1>4, <1>9, <1>11, <1>12, <1>13 DEF TablesPart
<1>17. QED
  BY <1>1, <1>4, <1>14, <1>15, <1>16, Committed

\* A memory is deleted and stays in its category.
LEMMA RemoveInv ==
  ASSUME IInv, NEW q \in Requests, RemoveMemory(q)
  PROVE  IInv'
<1> DEFINE m == row[q]
<1>1. /\ pc[q] = "remove" /\ mem' = [mem EXCEPT ![m].live = FALSE] /\ Answer(q, "ok")
      /\ UNCHANGED <<cat, chosen, raced>>
  BY DEF RemoveMemory
<1>2. /\ RequestTypes /\ TableTypes /\ TablesOK /\ TablesPart /\ HasRow(q)
  BY Known, Parts
<1>3. m \in MemRows /\ mem[m] \in Memory /\ mem[m] # None
  <2>1. m \in MemRows /\ mem[m] # None
    BY <1>1, <1>2, Constants DEF HasRow, RequestTypes
  <2>2. QED
    BY <1>2, <2>1, MemTyped
<1>4. /\ mem'[m] \in Memory /\ mem'[m].cat = mem[m].cat /\ ~mem'[m].live
      /\ \A x \in MemRows \ {m} : mem'[x] = mem[x]
  BY <1>1, <1>2, <1>3 DEF TableTypes, Memory
<1>5. mem'[m] # None
  BY <1>4, Constants
<1> HIDE DEF m
<1>6. TableTypes'
  <2>1. mem' \in [MemRows -> Memory \cup {None}]
    BY <1>1, <1>2, <1>4 DEF TableTypes
  <2>2. QED
    BY <1>1, <1>2, <2>1 DEF TableTypes
<1>7. MergesEnd' /\ OneCategoryPerName' /\ NamesKept
  BY <1>1, <1>2 DEF TablesPart, MergesEnd, OneCategoryPerName, NamesKept, InUse, Named
<1>8. TablesOK'
  BY <1>1, <1>2, <1>3, <1>4, <1>5 DEF TablesOK
<1>9. ClosedOnlyWhenEmpty' /\ FollowsItsCategory'
  <2>1. ClosedOnlyWhenEmpty'
    BY <1>1, <1>2, <1>4 DEF TablesPart, ClosedOnlyWhenEmpty, Live, InUse
  <2>2. \A x \in MemRows : mem'[x] # None => mem[x] # None /\ mem'[x].cat = mem[x].cat
    BY <1>3, <1>4
  <2>3. FollowsItsCategory'
    BY <1>1, <1>2, <2>2 DEF TablesPart, FollowsItsCategory
  <2>4. QED
    BY <2>1, <2>3
<1>10. Kept(q) /\ \A p : FormKept(p)
  <2>1. Kept(q)
    BY <1>1, <1>3, <1>4, <1>5 DEF Kept, Live
  <2>2. \A p : FormKept(p)
    BY <1>1, <1>4 DEF FormKept, InUse, Live
  <2>3. QED
    BY <2>1, <2>2
<1>11. ASSUME NEW p \in Requests \ {q}, found[p] = p
       PROVE  Named(Cut[call[p].name])' = {}
  <2>1. Named(Cut[call[p].name]) = {} /\ call' = call
    BY <1>1, <1>11, Known DEF PendingName, Answer
  <2>2. QED
    BY <1>1, <2>1 DEF Named, InUse
<1>12. TablesPart'
  BY <1>6, <1>7, <1>8, <1>9 DEF TablesPart
<1>13. QED
  BY <1>1, <1>7, <1>10, <1>11, <1>12, Committed

\* A form that succeeds leaves a mark: names may have been freed.
LEMMA FormFrees ==
  ASSUME RequestTypes, NEW q \in Requests, call[q] # None, call[q].op \in {"rename", "delete", "merge"},
         Answer(q, "ok")
  PROVE  NamesKept
<1>1. outcome'[q] = "ok" /\ call' = call
  BY DEF Answer, RequestTypes
<1>2. Freed'
  BY <1>1 DEF Freed
<1>3. QED
  BY <1>2 DEF NamesKept

\* A category gets a name that is free.
LEMMA RenameInv ==
  ASSUME IInv, NEW q \in Requests, RenameCategory(q)
  PROVE  IInv'
<1> DEFINE r == call[q].cat
           n == call[q].name
<1>1. /\ pc[q] = "rename" /\ q \in Active /\ call[q] # None /\ call[q].op = "rename"
      /\ r \in CatRows /\ n \in Names /\ InUse(r)
      /\ RequestTypes /\ TableTypes /\ TablesOK /\ TablesPart /\ OneCategoryPerName /\ cat[q] = None
  <2>1. pc[q] = "rename"
    BY DEF RenameCategory
  <2>2. /\ q \in Active /\ call[q] # None /\ call[q].op \in Writes \cup OnLoop \cup {"remove"}
        /\ pc[q] \in StepsOf(call[q].op) /\ r \in CatRows /\ n \in Names /\ FormInHand(q)
        /\ RequestTypes /\ TableTypes /\ TablesOK /\ TablesPart /\ OneCategoryPerName /\ cat[q] = None
    BY <2>1, Known, Parts
  <2>3. call[q].op = "rename" /\ InUse(r)
    BY <2>1, <2>2, WhoIsWhere DEF FormInHand
  <2>4. QED
    BY <2>1, <2>2, <2>3
<1>2. CASE Answer(q, "failed") /\ UNCHANGED tables
  <2>1. "failed" \in Outcome
    BY DEF Outcome
  <2>2. QED
    BY <1>1, <1>2, <2>1, NothingDone
<1>3. CASE Answer(q, "exists") /\ UNCHANGED tables
  <2>1. "exists" \in Outcome
    BY DEF Outcome
  <2>2. QED
    BY <1>1, <1>3, <2>1, NothingDone
<1>4. CASE /\ ~NameBusy(n) /\ Named(n) \ {r} = {}
           /\ cat' = [cat EXCEPT ![r].name = n]
           /\ Answer(q, "ok") /\ UNCHANGED <<mem, chosen, raced>>
  <2>1. cat[r] \in Category /\ cat[r] # None
    BY <1>1, CatTyped DEF InUse
  <2>2. /\ cat'[r] \in Category /\ cat'[r].name = n /\ cat'[r].gone = cat[r].gone
        /\ cat'[r].into = cat[r].into
        /\ \A s \in CatRows \ {r} : cat'[s] = cat[s]
    BY <1>1, <1>4, <2>1 DEF TableTypes, Category
  <2>3. cat'[r] # None
    BY <2>2, Constants
  <2> HIDE DEF r, n
  <2>4. \A s \in CatRows : /\ cat'[s] = None <=> cat[s] = None
                           /\ cat[s] # None => cat'[s].gone = cat[s].gone /\ cat'[s].into = cat[s].into
    BY <2>1, <2>2, <2>3
  <2>5. \A s \in CatRows : InUse(s)' <=> InUse(s)
    BY <2>4 DEF InUse
  <2>6. TableTypes'
    <3>1. cat' \in [CatRows -> Category \cup {None}]
      BY <1>1, <1>4, <2>2 DEF TableTypes
    <3>2. QED
      BY <1>1, <1>4, <3>1 DEF TableTypes
  <2>7. MergesEnd'
    <3> SUFFICES ASSUME NEW S \in (SUBSET CatRows) \ {{}}
                 PROVE  \E s \in S : cat'[s] = None \/ cat'[s].into \notin S
      BY DEF MergesEnd
    <3>1. PICK s \in S : cat[s] = None \/ cat[s].into \notin S
      BY <1>1 DEF TablesPart, MergesEnd
    <3>2. QED
      BY <2>4, <3>1
  <2>8. OneCategoryPerName'
    <3>1. ASSUME NEW s \in CatRows, NEW t \in CatRows, InUse(s)', InUse(t)', cat'[s].name = cat'[t].name,
                 s # t
          PROVE  FALSE
      <4>1. InUse(s) /\ InUse(t)
        BY <2>5, <3>1
      <4>2. CASE s # r /\ t # r
        BY <1>1, <2>2, <3>1, <4>1, <4>2 DEF OneCategoryPerName
      <4>3. CASE s = r
        BY <1>4, <2>2, <3>1, <4>1, <4>3 DEF Named
      <4>4. CASE t = r
        BY <1>4, <2>2, <3>1, <4>1, <4>4 DEF Named
      <4>5. QED
        BY <4>2, <4>3, <4>4
    <3>2. QED
      BY <3>1 DEF OneCategoryPerName
  <2>9. \A x \in MemRows : mem[x] # None => mem[x].cat \in CatRows
    BY <1>1, MemTyped
  <2>10. TablesOK' /\ ClosedOnlyWhenEmpty'
    <3>1. TablesOK'
      BY <1>1, <1>4, <2>4, <2>9 DEF TablesOK
    <3>2. ClosedOnlyWhenEmpty'
      <4>1. ASSUME NEW x \in MemRows, Live(x), ~raced[x]
            PROVE  cat'[mem[x].cat] # None /\ ~cat'[mem[x].cat].gone
        <5>1. mem[x].cat \in CatRows /\ InUse(mem[x].cat)
          BY <1>1, <2>9, <4>1 DEF TablesPart, ClosedOnlyWhenEmpty, Live
        <5>2. QED
          BY <2>4, <5>1 DEF InUse
      <4>2. QED
        BY <1>4, <4>1 DEF ClosedOnlyWhenEmpty, Live, InUse
    <3>3. QED
      BY <3>1, <3>2
  <2>11. FollowsItsCategory'
    <3>1. ASSUME NEW x \in MemRows, mem[x] # None, ~raced[x], NEW S \in SUBSET CatRows, chosen[x] \in S,
                 \A s \in S : cat'[s] # None /\ cat'[s].into # None => cat'[s].into \in S
          PROVE  mem[x].cat \in S
      <4>1. \A s \in S : cat[s] # None /\ cat[s].into # None => cat[s].into \in S
        BY <2>4, <3>1
      <4>2. QED
        BY <1>1, <3>1, <4>1 DEF TablesPart, FollowsItsCategory
    <3>2. QED
      BY <1>4, <3>1 DEF FollowsItsCategory
  <2>12. Kept(q)
    BY <1>4, <2>4 DEF Kept, Live
  <2>13. NamesKept
    BY <1>1, <1>4, FormFrees
  <2>14. \A p \in Requests \ {q} : pc[p] \notin {"rename", "count", "drop", "read", "merge"}
    BY <1>1, OnlyForm DEF OnLoop
  <2>15. ASSUME NEW p \in Requests \ {q}, found[p] = p
         PROVE  Named(Cut[call[p].name])' = {}
    <3>1. Named(Cut[call[p].name]) = {} /\ call' = call /\ Cut[call[p].name] # n
      BY <1>4, <2>15, Known DEF PendingName, Answer, NameBusy
    <3>2. ASSUME NEW s \in CatRows, InUse(s)', cat'[s].name = Cut[call[p].name]
          PROVE  FALSE
      BY <2>2, <2>5, <3>1, <3>2 DEF Named
    <3>3. QED
      BY <3>1, <3>2 DEF Named
  <2>16. TablesPart'
    BY <2>6, <2>7, <2>8, <2>10, <2>11 DEF TablesPart
  <2>17. QED
    BY <1>1, <1>4, <2>12, <2>13, <2>14, <2>15, <2>16, Committed
<1>5. QED
  BY <1>2, <1>3, <1>4 DEF RenameCategory, tables

\* A category that is taken out of use leaves the names of the others alone.
LEMMA Closed ==
  ASSUME IInv, NEW q \in Requests, NEW r \in CatRows, call' = call,
         \A s \in CatRows \ {r} : cat'[s] = cat[s],
         cat'[r] # None, cat'[r].gone
  PROVE  /\ OneCategoryPerName'
         /\ \A p \in Requests \ {q} : found[p] = p => Named(Cut[call[p].name])' = {}
<1>1. OneCategoryPerName
  BY Known
<1>2. \A s \in CatRows : InUse(s)' => InUse(s) /\ cat'[s] = cat[s]
  BY DEF InUse
<1>3. OneCategoryPerName'
  BY <1>1, <1>2 DEF OneCategoryPerName
<1>4. ASSUME NEW p \in Requests \ {q}, found[p] = p
      PROVE  Named(Cut[call[p].name])' = {}
  <2>1. Named(Cut[call[p].name]) = {}
    BY <1>4, Known DEF PendingName
  <2>2. QED
    BY <1>2, <2>1 DEF Named
<1>5. QED
  BY <1>3, <1>4

\* A category is deleted; what is still live in it has come too late to be counted.
LEMMA DeleteInv ==
  ASSUME IInv, NEW q \in Requests, DeleteCategory(q)
  PROVE  IInv'
<1> DEFINE r == call[q].cat
<1>1. /\ pc[q] = "drop" /\ cat' = [cat EXCEPT ![r].gone = TRUE] /\ Answer(q, "ok")
      /\ UNCHANGED <<mem, chosen, raced>> /\ call' = call
  BY DEF DeleteCategory, Answer
<1>2. /\ q \in Active /\ call[q] # None /\ call[q].op \in Writes \cup OnLoop \cup {"remove"}
      /\ pc[q] \in StepsOf(call[q].op) /\ r \in CatRows /\ FormInHand(q) /\ Emptied(q)
      /\ RequestTypes /\ TableTypes /\ TablesOK /\ TablesPart
  BY <1>1, Known, Parts
<1>3. call[q].op = "delete" /\ InUse(r)
  BY <1>1, <1>2, WhoIsWhere DEF FormInHand
<1>4. cat[r] \in Category /\ cat[r] # None
  BY <1>2, <1>3, CatTyped DEF InUse
<1>5. /\ cat'[r] \in Category /\ cat'[r].gone /\ cat'[r].into = cat[r].into
      /\ \A s \in CatRows \ {r} : cat'[s] = cat[s]
  BY <1>1, <1>2, <1>4 DEF TableTypes, Category
<1>6. cat'[r] # None
  BY <1>5, Constants
<1>7. \A m \in MemRows : Live(m) /\ mem[m].cat = r => raced[m]
  BY <1>1, <1>2 DEF Emptied
<1> HIDE DEF r
<1>8. OneCategoryPerName' /\ \A p \in Requests \ {q} : found[p] = p => Named(Cut[call[p].name])' = {}
  BY <1>1, <1>2, <1>5, <1>6, Closed
<1>9. \A s \in CatRows : /\ cat'[s] = None <=> cat[s] = None
                         /\ cat[s] # None => cat'[s].into = cat[s].into /\ (cat[s].gone => cat'[s].gone)
  BY <1>4, <1>5, <1>6
<1>10. TableTypes'
  <2>1. cat' \in [CatRows -> Category \cup {None}]
    BY <1>1, <1>2, <1>5 DEF TableTypes
  <2>2. QED
    BY <1>1, <1>2, <2>1 DEF TableTypes
<1>11. MergesEnd'
  <2> SUFFICES ASSUME NEW S \in (SUBSET CatRows) \ {{}}
               PROVE  \E s \in S : cat'[s] = None \/ cat'[s].into \notin S
    BY DEF MergesEnd
  <2>1. PICK s \in S : cat[s] = None \/ cat[s].into \notin S
    BY <1>2 DEF TablesPart, MergesEnd
  <2>2. QED
    BY <1>9, <2>1
<1>12. \A x \in MemRows : mem[x] # None => mem[x].cat \in CatRows
  BY <1>2, MemTyped
<1>13. TablesOK' /\ ClosedOnlyWhenEmpty'
  <2>1. TablesOK'
    BY <1>1, <1>2, <1>9, <1>12 DEF TablesOK
  <2>2. ClosedOnlyWhenEmpty'
    <3>1. ASSUME NEW x \in MemRows, Live(x), ~raced[x]
          PROVE  cat'[mem[x].cat] # None /\ ~cat'[mem[x].cat].gone
      <4>1. mem[x].cat \in CatRows /\ InUse(mem[x].cat) /\ mem[x].cat # r
        BY <1>2, <1>7, <1>12, <3>1 DEF TablesPart, ClosedOnlyWhenEmpty, Live
      <4>2. QED
        BY <1>5, <4>1 DEF InUse
    <3>2. QED
      BY <1>1, <3>1 DEF ClosedOnlyWhenEmpty, Live, InUse
  <2>3. QED
    BY <2>1, <2>2
<1>14. FollowsItsCategory'
  <2>1. ASSUME NEW x \in MemRows, mem[x] # None, ~raced[x], NEW S \in SUBSET CatRows, chosen[x] \in S,
               \A s \in S : cat'[s] # None /\ cat'[s].into # None => cat'[s].into \in S
        PROVE  mem[x].cat \in S
    <3>1. \A s \in S : cat[s] # None /\ cat[s].into # None => cat[s].into \in S
      BY <1>9, <2>1
    <3>2. QED
      BY <1>2, <2>1, <3>1 DEF TablesPart, FollowsItsCategory
  <2>2. QED
    BY <1>1, <2>1 DEF FollowsItsCategory
<1>15. Kept(q)
  BY <1>1, <1>9 DEF Kept, Live
<1>16. NamesKept
  BY <1>1, <1>2, <1>3, FormFrees
<1>17. \A p \in Requests \ {q} : pc[p] \notin {"rename", "count", "drop", "read", "merge"}
  BY <1>2, <1>3, OnlyForm DEF OnLoop
<1>18. TablesPart'
  BY <1>8, <1>10, <1>11, <1>13, <1>14 DEF TablesPart
<1>19. QED
  BY <1>1, <1>8, <1>15, <1>16, <1>17, <1>18, Committed

\* The memories a merge has read are moved, and it ends in a category in use.
LEMMA MergeInv ==
  ASSUME IInv, NEW q \in Requests, CommitMerge(q)
  PROVE  IInv'
<1> DEFINE from == call[q].cat
           to   == call[q].target
<1>1. /\ pc[q] = "merge" /\ Answer(q, "ok") /\ UNCHANGED chosen /\ call' = call
      /\ mem' = [m \in MemRows |-> IF m \in members[q] THEN [mem[m] EXCEPT !.cat = to] ELSE mem[m]]
      /\ cat' = [cat EXCEPT ![from].gone = TRUE, ![from].into = to]
      /\ raced' = [m \in MemRows |-> raced[m] \/ (m \in members[q] /\ mem[m].cat # from)]
  BY DEF CommitMerge, Answer
<1>2. /\ q \in Active /\ call[q] # None /\ call[q].op \in Writes \cup OnLoop \cup {"remove"}
      /\ pc[q] \in StepsOf(call[q].op) /\ from \in CatRows /\ to \in CatRows
      /\ FormInHand(q) /\ Emptied(q)
      /\ RequestTypes /\ TableTypes /\ TablesOK /\ TablesPart
  BY <1>1, Known, Parts
<1>3. call[q].op = "merge" /\ InUse(from) /\ InUse(to) /\ to # from
  BY <1>1, <1>2, WhoIsWhere DEF FormInHand
<1>4. /\ \A m \in members[q] : m \in MemRows /\ mem[m] # None
      /\ \A m \in MemRows : Live(m) /\ mem[m].cat = from => m \in members[q] \/ raced[m]
  BY <1>1, <1>2 DEF Emptied, RequestTypes
<1>5. /\ cat[from] \in Category /\ cat[from] # None /\ cat[from].into = None
      /\ cat[to] # None /\ cat[to].into = None
  BY <1>2, <1>3, CatTyped DEF InUse, TablesOK
<1>6. /\ cat'[from] \in Category /\ cat'[from].gone /\ cat'[from].into = to
      /\ \A s \in CatRows \ {from} : cat'[s] = cat[s]
  BY <1>1, <1>2, <1>5 DEF TableTypes, Category
<1>7. cat'[from] # None
  BY <1>6, Constants
<1>8. \A m \in members[q] : /\ mem'[m] \in Memory /\ mem'[m].cat = to /\ mem'[m].live = mem[m].live
                            /\ raced'[m] = (raced[m] \/ mem[m].cat # from)
  <2>1. ASSUME NEW m \in members[q]
        PROVE  /\ mem'[m] \in Memory /\ mem'[m].cat = to /\ mem'[m].live = mem[m].live
               /\ raced'[m] = (raced[m] \/ mem[m].cat # from)
    <3>1. m \in MemRows /\ mem[m] \in Memory
      BY <1>2, <1>4, MemTyped
    <3>2. mem'[m] = [mem[m] EXCEPT !.cat = to]
      BY <1>1, <3>1
    <3>3. mem'[m] \in Memory /\ mem'[m].cat = to /\ mem'[m].live = mem[m].live
      BY <1>2, <3>1, <3>2 DEF Memory
    <3>4. raced'[m] = (raced[m] \/ mem[m].cat # from)
      BY <1>1, <3>1
    <3>5. QED
      BY <3>3, <3>4
  <2>2. QED
    BY <2>1
<1>9. \A m \in members[q] : mem'[m] # None
  BY <1>8, Constants
<1>10. \A m \in MemRows \ members[q] : mem'[m] = mem[m] /\ raced'[m] = raced[m]
  BY <1>1, <1>2 DEF TableTypes
<1> HIDE DEF from, to
<1>11. OneCategoryPerName' /\ \A p \in Requests \ {q} : found[p] = p => Named(Cut[call[p].name])' = {}
  BY <1>1, <1>2, <1>6, <1>7, Closed
<1>12. \A s \in CatRows : /\ cat'[s] = None <=> cat[s] = None
                          /\ cat[s] # None /\ cat[s].into # None => cat'[s].into = cat[s].into
  BY <1>5, <1>6, <1>7
<1>13. TableTypes'
  <2>1. cat' \in [CatRows -> Category \cup {None}]
    BY <1>1, <1>2, <1>6 DEF TableTypes
  <2>2. mem' \in [MemRows -> Memory \cup {None}]
    <3>1. \A m \in MemRows : mem'[m] \in Memory \cup {None}
      BY <1>2, <1>8, <1>10 DEF TableTypes
    <3>2. QED
      BY <1>1, <3>1
  <2>3. raced' \in [MemRows -> BOOLEAN]
    <3>1. \A m \in MemRows : raced'[m] \in BOOLEAN
      BY <1>2, <1>8, <1>10 DEF TableTypes
    <3>2. QED
      BY <1>1, <3>1
  <2>4. QED
    BY <1>1, <1>2, <2>1, <2>2, <2>3 DEF TableTypes
<1>14. MergesEnd'
  <2> SUFFICES ASSUME NEW S \in (SUBSET CatRows) \ {{}}
               PROVE  \E s \in S : cat'[s] = None \/ cat'[s].into \notin S
    BY DEF MergesEnd
  <2>1. CASE to \in S
    <3>1. cat'[to].into = None
      BY <1>2, <1>3, <1>5, <1>6
    <3>2. None \notin S
      BY Constants
    <3>3. QED
      BY <2>1, <3>1, <3>2
  <2>2. CASE to \notin S
    <3>1. PICK s \in S : cat[s] = None \/ cat[s].into \notin S
      BY <1>2 DEF TablesPart, MergesEnd
    <3>2. s \in CatRows
      OBVIOUS
    <3>3. CASE s = from
      BY <1>6, <2>2, <3>3
    <3>4. CASE s # from
      BY <1>6, <3>1, <3>2, <3>4
    <3>5. QED
      BY <3>3, <3>4
  <2>3. QED
    BY <2>1, <2>2
<1>15. \A x \in MemRows : mem[x] # None => mem[x].cat \in CatRows
  BY <1>2, MemTyped
<1>16. TablesOK'
  <2>1. \A s \in CatRows : cat'[s] # None /\ cat'[s].into # None => cat'[s].gone
    BY <1>2, <1>6 DEF TablesOK
  <2>2. \A x \in MemRows : mem'[x] # None => cat'[mem'[x].cat] # None
    BY <1>2, <1>5, <1>8, <1>10, <1>12, <1>15 DEF TablesOK
  <2>3. \A x \in MemRows : StoredMems[x] # None => mem'[x] # None
    BY <1>2, <1>9, <1>10 DEF TablesOK
  <2>4. QED
    BY <2>1, <2>2, <2>3 DEF TablesOK
<1>17. ClosedOnlyWhenEmpty'
  <2>1. cat'[to] # None /\ ~cat'[to].gone
    BY <1>2, <1>3, <1>6 DEF InUse
  <2>2. ASSUME NEW x \in MemRows \ members[q], Live(x)', ~raced'[x]
        PROVE  cat'[mem'[x].cat] # None /\ ~cat'[mem'[x].cat].gone
    <3>1. Live(x) /\ ~raced[x] /\ mem'[x] = mem[x]
      BY <1>10, <2>2 DEF Live
    <3>2. mem[x].cat \in CatRows /\ InUse(mem[x].cat) /\ mem[x].cat # from
      BY <1>2, <1>4, <1>15, <3>1 DEF TablesPart, ClosedOnlyWhenEmpty, Live
    <3>3. QED
      BY <1>6, <3>1, <3>2 DEF InUse
  <2>3. QED
    BY <1>8, <2>1, <2>2 DEF ClosedOnlyWhenEmpty, InUse
<1>18. FollowsItsCategory'
  <2>1. ASSUME NEW x \in MemRows, mem'[x] # None, ~raced'[x], NEW S \in SUBSET CatRows, chosen[x] \in S,
               \A s \in S : cat'[s] # None /\ cat'[s].into # None => cat'[s].into \in S
        PROVE  mem'[x].cat \in S
    <3>1. \A s \in S : cat[s] # None /\ cat[s].into # None => cat[s].into \in S
      BY <1>12, <2>1
    <3>2. ~raced[x] /\ mem[x] # None
      BY <1>4, <1>8, <1>10, <2>1
    <3>3. mem[x].cat \in S
      BY <1>2, <2>1, <3>1, <3>2 DEF TablesPart, FollowsItsCategory
    <3>4. CASE x \in members[q]
      <4>1. mem[x].cat = from
        BY <1>8, <2>1, <3>4
      <4>2. QED
        BY <1>2, <1>6, <1>7, <1>8, <2>1, <3>3, <3>4, <4>1, Constants
    <3>5. CASE x \notin members[q]
      BY <1>10, <3>3, <3>5
    <3>6. QED
      BY <3>4, <3>5
  <2>2. QED
    BY <1>1, <2>1 DEF FollowsItsCategory
<1>19. Kept(q)
  BY <1>4, <1>8, <1>9, <1>10, <1>12 DEF Kept, Live
<1>20. NamesKept
  BY <1>1, <1>2, <1>3, FormFrees
<1>21. \A p \in Requests \ {q} : pc[p] \notin {"rename", "count", "drop", "read", "merge"}
  BY <1>2, <1>3, OnlyForm DEF OnLoop
<1>22. TablesPart'
  BY <1>11, <1>13, <1>14, <1>16, <1>17, <1>18 DEF TablesPart
<1>23. QED
  BY <1>1, <1>11, <1>19, <1>20, <1>21, <1>22, Committed

-----------------------------------------------------------------------------
(* What follows. *)

\* Every step keeps the invariant.
LEMMA StepInv == IInv /\ [Next]_vars => IInv'
<1> SUFFICES ASSUME IInv, [Next]_vars PROVE IInv'
  OBVIOUS
<1>1. ASSUME NEW q \in Requests, Progress(q)
      PROVE  IInv'
  BY <1>1, FindInv, InsertInv, RefusedInv, LookupInv, AddInv, MemoryRefusedInv, LoadInv, FlushInv,
     WriteInv, CrashInv, FailInv, RemoveInv, CreateInv, GetInv, RenameInv, CountInv, DeleteInv,
     ReadInv, FlushMemberInv, MergeInv DEF Progress
<1>2. CASE UNCHANGED vars
  <2>1. UNCHANGED tables /\ UNCHANGED <<lock, pc, call, outcome, tries, found, row, loaded, members>>
    BY <1>2 DEF vars, tables
  <2>2. TablesPart' /\ RequestTypes' /\ OneForm' /\ RetryIsEnough'
    <3>1. TablesPart'
      BY <2>1, Parts, TablesUnchanged
    <3>2. RequestTypes'
      BY <2>1, Parts DEF RequestTypes
    <3>3. OneForm' /\ RetryIsEnough'
      BY <2>1, Parts DEF OneForm, Active, RetryIsEnough, Freed, TwinMade, tables
    <3>4. QED
      BY <3>1, <3>2, <3>3
  <2>3. ASSUME NEW q \in Requests
        PROVE  RequestOK(q)'
    <3>1. OnItsWay(q)' /\ HasCategory(q)' /\ HasRow(q)' /\ FormInHand(q)' /\ Emptied(q)' /\ MadeByOk(q)'
      BY <2>1, Known DEF OnItsWay, HasCategory, HasRow, FormInHand, Emptied, MadeByOk, Active, tables,
         InUse, Live
    <3>2. PendingName(q)' /\ StillMissing(q)' /\ SecondTry(q)'
      BY <2>1, Known DEF PendingName, StillMissing, SecondTry, Freed, TwinMade, Named, tables, InUse, Live
    <3>3. QED
      BY <3>1, <3>2 DEF RequestOK
  <2>4. QED
    BY <2>2, <2>3, NextParts
<1>3. QED
  BY <1>1, <1>2, BeginInv, FailInv DEF Next, AllDone

\* The inductive invariant, for any number of requests, categories and memories.
THEOREM Invariant == Spec => []IInv
<1>1. Init => IInv
  BY InitInv
<1>2. IInv /\ [Next]_vars => IInv'
  BY StepInv
<1>3. QED
  BY <1>1, <1>2, PTL DEF Spec

\* The state has its type, and following merged_into always ends.
THEOREM TypeCorrect == Spec => []TypeOK
<1>1. IInv => TypeOK
  BY DEF IInv
<1>2. QED
  BY <1>1, Invariant, PTL

\* A name stands for at most one category in use.
THEOREM OnePerName == Spec => []OneCategoryPerName
<1>1. IInv => OneCategoryPerName
  BY DEF IInv
<1>2. QED
  BY <1>1, Invariant, PTL

\* A category exists only if the request that made it succeeded.
THEOREM Whole == Spec => []NothingHalfMade
<1>1. IInv => NothingHalfMade
  BY DEF IInv, RequestOK, MadeByOk, NothingHalfMade
<1>2. QED
  BY <1>1, Invariant, PTL

\* A live memory is in a category in use, unless it raced with the form that closed it.
THEOREM LiveInUse == Spec => []ClosedOnlyWhenEmpty
<1>1. IInv => ClosedOnlyWhenEmpty
  BY DEF IInv
<1>2. QED
  BY <1>1, Invariant, PTL

\* A memory is where its last write has put it, or where merges have taken that category.
THEOREM Follows == Spec => []FollowsItsCategory
<1>1. IInv => FollowsItsCategory
  BY DEF IInv
<1>2. QED
  BY <1>1, Invariant, PTL

\* One retry, for the name and the external id together, is enough unless the admin freed the
\* name or another request made a memory of that external id.
THEOREM OneRetryIsEnough == Spec => []RetryIsEnough
<1>1. IInv => RetryIsEnough
  BY DEF IInv
<1>2. QED
  BY <1>1, Invariant, PTL

-----------------------------------------------------------------------------
(* Why every request is answered, but for the fairness. *)

\* Where requests hold the locks of rows.
Holding == {"commit", "closing", "merge"}

\* A step of a request that does not touch the locks, or gives them up.
LEMMA LocksKept ==
  ASSUME TypeOK, LocksHeld, NEW q \in Requests, NEW to, pc' = [pc EXCEPT ![q] = to],
         \/ lock' = lock /\ (pc[q] \notin Holding \/ to \in Holding)
         \/ lock' = [m \in MemRows |-> IF lock[m] = q THEN None ELSE lock[m]]
  PROVE  LocksHeld'
<1> USE Constants DEF Holding
<1>1. SUFFICES ASSUME NEW m \in MemRows, lock'[m] # None
               PROVE  pc'[lock'[m]] \in Holding
  BY DEF LocksHeld
<1>2. lock'[m] = lock[m] /\ lock[m] \in Requests /\ (lock[m] # q \/ to \in Holding)
  BY <1>1 DEF TypeOK, LocksHeld
<1>3. QED
  BY <1>1, <1>2 DEF TypeOK, LocksHeld

\* Locks are taken by the flush before a commit, or by a merge.
LEMMA LocksTaken ==
  ASSUME TypeOK, LocksHeld, NEW q \in Requests, NEW r \in MemRows, lock' = [lock EXCEPT ![r] = q],
         pc' = pc \/ pc' = [pc EXCEPT ![q] = "commit"], pc'[q] \in {"commit", "merge"}
  PROVE  LocksHeld'
<1> USE Constants DEF Holding
<1>1. SUFFICES ASSUME NEW m \in MemRows, lock'[m] # None
               PROVE  pc'[lock'[m]] \in Holding
  BY DEF LocksHeld
<1>2. CASE m = r
  BY <1>2 DEF TypeOK
<1>3. CASE m # r
  BY <1>1, <1>3 DEF TypeOK, LocksHeld
<1>4. QED
  BY <1>2, <1>3

\* Every step keeps the locks where they belong.
LEMMA LocksStep == IInv /\ LocksHeld /\ [Next]_vars => LocksHeld'
<1> SUFFICES ASSUME IInv, LocksHeld, [Next]_vars PROVE LocksHeld'
  OBVIOUS
<1>1. TypeOK
  BY DEF IInv
<1>2. CASE UNCHANGED vars
  BY <1>2 DEF vars, LocksHeld
<1>3. ASSUME NEW q \in Requests, NEW result, Answer(q, result) PROVE LocksHeld'
  BY <1>1, <1>3, LocksKept DEF Answer, EndTx
<1>4. ASSUME NEW q \in Requests, Begin(q) PROVE LocksHeld'
  <2>1. PICK to : pc' = [pc EXCEPT ![q] = to]
    BY <1>4 DEF Begin
  <2>2. pc[q] \notin Holding
    BY <1>4 DEF Begin, Holding
  <2>3. QED
    BY <1>1, <1>4, <2>1, <2>2, LocksKept DEF Begin
<1>5. ASSUME NEW q \in Requests,
             \/ CommitWrite(q) \/ Close(q) \/ RemoveMemory(q) \/ CommitCreate(q) \/ RenameCategory(q)
             \/ DeleteCategory(q) \/ CommitMerge(q) \/ Fail(q)
      PROVE  LocksHeld'
  BY <1>3, <1>5, Zenon
     DEF CommitWrite, Close, RemoveMemory, CommitCreate, RenameCategory, DeleteCategory, CommitMerge, Fail
<1>6. ASSUME NEW q \in Requests, CategoryRefused(q) \/ MemoryRefused(q) PROVE LocksHeld'
  <2>1. CASE pc' = [pc EXCEPT ![q] = "find"] /\ EndTx(q)
    BY <1>1, <2>1, LocksKept DEF EndTx
  <2>2. CASE Answer(q, Refusal(call[q].op))
    BY <1>3, <2>2, Zenon
  <2>3. QED
    BY <1>6, <2>1, <2>2, Zenon DEF CategoryRefused, MemoryRefused, TryAgain
<1>7. ASSUME NEW q \in Requests, NEW to, pc' = [pc EXCEPT ![q] = to], UNCHANGED lock,
             pc[q] \notin Holding \/ to \in Holding
      PROVE  LocksHeld'
  BY <1>1, <1>7, LocksKept
<1>8. ASSUME NEW q \in Requests, GetCategory(q) \/ CountMembers(q) \/ LoadMemory(q) PROVE LocksHeld'
  <2>1. ASSUME NEW result, Answer(q, result) PROVE LocksHeld'
    BY <1>3, <2>1, Zenon
  <2>2. QED
    BY <1>7, <1>8, <2>1 DEF GetCategory, CountMembers, LoadMemory, session, Holding
<1>9. ASSUME NEW q \in Requests,
             \/ FindCategory(q) \/ InsertCategory(q) \/ LookupMemory(q) \/ InsertMemory(q)
             \/ ReadMembers(q) \/ Crash(q)
      PROVE  LocksHeld'
  BY <1>7, <1>9
     DEF FindCategory, InsertCategory, LookupMemory, InsertMemory, ReadMembers, Crash, Goto, session, Holding
<1>10. ASSUME NEW q \in Requests, FlushMemory(q) PROVE LocksHeld'
  <2>1. row[q] \in MemRows /\ pc'[q] = "commit"
    BY <1>1, <1>10, Constants DEF FlushMemory, Goto, IInv, RequestOK, HasRow, TypeOK
  <2>2. QED
    BY <1>1, <1>10, <2>1, LocksTaken DEF FlushMemory, Goto
<1>11. ASSUME NEW q \in Requests, FlushMember(q) PROVE LocksHeld'
  <2>1. PICK m \in members[q] : lock' = [lock EXCEPT ![m] = q]
    BY <1>11 DEF FlushMember
  <2>2. m \in MemRows /\ pc' = pc /\ pc[q] = "merge"
    BY <1>1, <1>11, <2>1 DEF FlushMember, TypeOK
  <2>3. QED
    BY <1>1, <2>1, <2>2, LocksTaken
<1>12. QED
  BY <1>2, <1>4, <1>5, <1>6, <1>8, <1>9, <1>10, <1>11 DEF Next, Progress, AllDone

\* So rows are locked by requests about to commit, by crashed ones and by merges only.
LEMMA Locks == Spec => []LocksHeld
<1>1. Init => LocksHeld
  BY DEF Init, LocksHeld
<1>2. QED
  BY <1>1, LocksStep, Invariant, PTL DEF Spec

\* The requests that wait for nobody outside D.
Upto(D) == {u \in Requests : WaitsFor(u) \subseteq D}

\* Whose end those of S wait for.
LEMMA OneBehind == ASSUME NEW D, NEW S, S \subseteq Upto(D) PROVE Behind(S) \subseteq D
BY DEF Behind, Upto

\* Who holds what another request waits for.
LEMMA Holders ==
  ASSUME IInv, LocksHeld, NEW u \in Requests, NEW v \in WaitsFor(u)
  PROVE  /\ v \in Requests \ {u}
         /\ pc[u] \in {"insert", "rename", "add", "flush", "remove", "merge", "closing"}
         /\ pc[u] \in {"insert", "rename"} => pc[v] \in {"lookup", "add", "flush", "commit", "closing"}
         /\ pc[u] \in {"add", "flush", "remove", "merge"} => pc[v] \in Holding
         /\ pc[u] = "closing" => v \in Active /\ call[v].op \in OnLoop
<1> USE Constants
<1>1. v \in Requests \ {u}
  BY DEF WaitsFor
<1>2. pc[u] \in {"insert", "rename", "add", "flush", "remove", "merge", "closing"}
  BY DEF WaitsFor
<1>3. HasCategory(v) /\ HasRow(v) /\ HasRow(u) /\ RequestTypes
  BY <1>1, Known
<1>4. ASSUME NEW n, v \in NameHolders(n) PROVE pc[v] \in {"lookup", "add", "flush", "commit", "closing"}
  BY <1>1, <1>3, <1>4 DEF NameHolders, HasCategory
<1>5. ASSUME NEW m \in MemRows, lock[m] = v PROVE pc[v] \in Holding
  BY <1>1, <1>5 DEF LocksHeld, Holding
<1>6. ASSUME NEW e, v \in KeyHolders(e) PROVE pc[v] \in Holding
  BY <1>3, <1>5, <1>6 DEF KeyHolders, LiveAs, HasRow, Holding
<1>7. members[u] \subseteq MemRows /\ (pc[u] \in {"flush", "remove"} => row[u] \in MemRows)
  BY <1>3 DEF HasRow, RequestTypes
<1>8. pc[u] \in {"insert", "rename"} => pc[v] \in {"lookup", "add", "flush", "commit", "closing"}
  BY <1>4 DEF WaitsFor
<1>9. pc[u] \in {"add", "flush", "remove", "merge"} => pc[v] \in Holding
  BY <1>5, <1>6, <1>7 DEF WaitsFor
<1>10. pc[u] = "closing" => v \in Active /\ call[v].op \in OnLoop
  BY DEF WaitsFor
<1>11. QED
  BY <1>1, <1>2, <1>8, <1>9, <1>10

\* Whoever waits waits, over at most four others, for somebody who does not: names are held by
\* writes on their way to a row, rows and keys by merges and by requests about to commit or
\* crashed, a crashed one waits for the one form at work, and this one, unless the loop is stuck,
\* for no crashed one.
THEOREM NoCircle == Spec => []ShortQueues
<1>1. IInv /\ LocksHeld => ShortQueues
  <2> SUFFICES ASSUME IInv, LocksHeld, ~LoopIsStuck, NEW q \in Requests
               PROVE  Behind(Behind(Behind(Behind(Behind(Behind({q})))))) = {}
    BY DEF ShortQueues
  <2> DEFINE D0 == Upto({})  D1 == Upto(D0)  D2 == Upto(D1)  D3 == Upto(D2)  D4 == Upto(D3)  D5 == Upto(D4)
  <2>1. D0 \subseteq D1 /\ D1 \subseteq D2 /\ D2 \subseteq D3 /\ D3 \subseteq D4 /\ D4 \subseteq D5
    BY DEF Upto
  <2>2. ASSUME NEW u \in Requests, pc[u] \in {"lookup", "commit"} PROVE u \in D0
    BY <2>2, Holders DEF Upto
  <2>3. ASSUME NEW f \in Active, call[f].op \in OnLoop PROVE f \in D2
    <3>1. f \in Requests /\ RequestTypes /\ OneForm
      BY Known DEF Active
    <3>2. ASSUME NEW w \in Requests \ {f} PROVE pc[w] # "merge"
      BY <2>3, <3>1, OnlyForm
    <3>3. ASSUME NEW v \in WaitsFor(f)
          PROVE  /\ v \in Requests \ {f} /\ pc[v] # "closing"
                 /\ \A w \in WaitsFor(v) : w \in Requests /\ pc[w] # "closing"
      <4>1. v \in Requests \ {f} /\ \A w \in WaitsFor(v) : w \in Requests
        BY <3>1, Holders DEF WaitsFor
      <4>2. \A w \in Requests : pc[w] = "closing" => w \in Active
        BY DEF Active
      <4>3. QED
        BY <2>3, <3>3, <4>1, <4>2 DEF LoopIsStuck
    <3>4. ASSUME NEW v \in WaitsFor(f) PROVE v \in D1
      <4>1. v \in Requests /\ v # f /\ pc[v] \in {"lookup", "add", "flush", "commit"} \cup Holding
        <5>1. pc[f] # "closing"
          <6>1. pc[f] = "closing" => /\ pc[f] \in StepsOf(call[f].op)
                                     /\ call[f].op \in Writes \cup OnLoop \cup {"remove"}
            BY <3>1, Known
          <6>2. QED
            BY <2>3, <6>1, WhoIsWhere DEF OnLoop
        <5>2. QED
          BY <3>1, <3>4, <5>1, Holders DEF Holding
      <4>2. pc[v] \in {"lookup", "add", "flush", "commit"}
        BY <3>2, <3>3, <3>4, <4>1 DEF Holding
      <4>3. CASE pc[v] \in {"lookup", "commit"}
        BY <2>1, <2>2, <4>1, <4>3
      <4>4. CASE pc[v] \in {"add", "flush"}
        <5>1. ASSUME NEW w \in WaitsFor(v) PROVE w \in D0
          <6>1. w \in Requests /\ pc[w] \in Holding
            BY <4>1, <4>4, <5>1, Holders
          <6>2. pc[w] # "closing"
            BY <3>3, <3>4, <5>1
          <6>3. pc[w] # "merge"
            <7>1. CASE w = f
              <8>1. pc[f] = "merge" => pc[v] \in Holding
                BY <3>1, <3>4, Holders
              <8>2. QED
                BY <4>4, <7>1, <8>1 DEF Holding
            <7>2. CASE w # f
              BY <3>2, <6>1, <7>2
            <7>3. QED
              BY <7>1, <7>2
          <6>4. QED
            BY <2>2, <6>1, <6>2, <6>3 DEF Holding
        <5>2. QED
          BY <4>1, <5>1 DEF Upto
      <4>5. QED
        BY <4>2, <4>3, <4>4
    <3>5. QED
      BY <3>1, <3>4 DEF Upto
  <2>4. ASSUME NEW u \in Requests, pc[u] = "closing" PROVE u \in D3
    <3>1. \A v \in WaitsFor(u) : v \in D2
      BY <2>3, <2>4, Holders
    <3>2. QED
      BY <3>1 DEF Upto
  <2>5. ASSUME NEW u \in Requests, pc[u] \in Holding PROVE u \in D3
    <3>1. CASE pc[u] = "merge"
      <4>1. /\ u \in Active /\ call[u].op \in Writes \cup OnLoop \cup {"remove"}
            /\ pc[u] \in StepsOf(call[u].op)
        BY <3>1, Known
      <4>2. call[u].op \in OnLoop
        BY <3>1, <4>1, WhoIsWhere DEF OnLoop
      <4>3. QED
        BY <2>1, <2>3, <4>1, <4>2
    <3>2. CASE pc[u] = "commit"
      BY <2>1, <2>2, <3>2
    <3>3. QED
      BY <2>4, <2>5, <3>1, <3>2 DEF Holding
  <2>6. ASSUME NEW u \in Requests, pc[u] \in {"add", "flush", "remove", "merge"} PROVE u \in D4
    <3>1. \A v \in WaitsFor(u) : v \in D3
      BY <2>5, <2>6, Holders
    <3>2. QED
      BY <3>1 DEF Upto
  <2>7. ASSUME NEW u \in Requests, pc[u] \in {"insert", "rename"} PROVE u \in D5
    <3>1. ASSUME NEW v \in WaitsFor(u) PROVE v \in D4
      <4>1. v \in Requests /\ pc[v] \in {"lookup", "add", "flush", "commit", "closing"}
        BY <2>7, <3>1, Holders
      <4>2. QED
        BY <2>1, <2>2, <2>4, <2>6, <4>1
    <3>2. QED
      BY <3>1 DEF Upto
  <2>8. q \in D5
    <3>1. CASE WaitsFor(q) = {}
      BY <3>1 DEF Upto
    <3>2. CASE WaitsFor(q) # {}
      <4>1. pc[q] \in {"insert", "rename", "add", "flush", "remove", "merge", "closing"}
        BY <3>2, Holders
      <4>2. QED
        BY <2>1, <2>4, <2>6, <2>7, <4>1
    <3>3. QED
      BY <3>1, <3>2
  <2> DEFINE B1 == Behind({q})  B2 == Behind(B1)  B3 == Behind(B2)  B4 == Behind(B3)  B5 == Behind(B4)
  <2>9. {q} \subseteq Upto(D4)
    BY <2>8
  <2>10. B1 \subseteq D4
    BY <2>9, OneBehind
  <2>11. B2 \subseteq D3
    BY <2>10, OneBehind
  <2>12. B3 \subseteq D2
    BY <2>11, OneBehind
  <2>13. B4 \subseteq D1
    BY <2>12, OneBehind
  <2>14. B5 \subseteq D0
    BY <2>13, OneBehind
  <2>15. Behind(B5) \subseteq {}
    BY <2>14, OneBehind
  <2>16. QED
    BY <2>15
<1>2. QED
  BY <1>1, Locks, Invariant, PTL

\* A step after which a request has less ahead, or the same and a try less, counts.
LEMMA Counts ==
  ASSUME TypeOK, NEW q \in Requests, NEW to \in DOMAIN Ahead, NEW n \in 0..1,
         pc' = [pc EXCEPT ![q] = to], tries' = [tries EXCEPT ![q] = n],
         Ahead[to] + 4 * (1 - n) < StepsLeft(q)
  PROVE  \E r \in Requests : /\ StepsLeft(r)' < StepsLeft(r)
                             /\ \A p \in Requests \ {r} : StepsLeft(p)' = StepsLeft(p)
<1>1. /\ pc'[q] = to /\ tries'[q] = n
      /\ \A p \in Requests \ {q} : pc'[p] = pc[p] /\ tries'[p] = tries[p]
  BY DEF TypeOK
<1>2. StepsLeft(q)' < StepsLeft(q)
  BY <1>1 DEF StepsLeft, Ahead
<1>3. \A p \in Requests \ {q} : StepsLeft(p)' = StepsLeft(p)
  BY <1>1 DEF StepsLeft
<1>4. QED
  BY <1>2, <1>3

\* A statement that brings the request on, and counts no retry.
LEMMA MovesOn ==
  ASSUME TypeOK, NEW q \in Requests, NEW to \in DOMAIN Ahead,
         pc' = [pc EXCEPT ![q] = to], UNCHANGED tries, Ahead[to] < Ahead[pc[q]]
  PROVE  \E r \in Requests : /\ StepsLeft(r)' < StepsLeft(r)
                             /\ \A p \in Requests \ {r} : StepsLeft(p)' = StepsLeft(p)
<1>1. /\ tries' = [tries EXCEPT ![q] = tries[q]]
  BY DEF TypeOK
<1>2. Ahead[to] \in 0..8
  BY DEF Ahead
<1>3. tries[q] \in 0..1 /\ Ahead[pc[q]] \in 0..8
  BY DEF TypeOK, Ahead
<1>4. Ahead[to] + 4 * (1 - tries[q]) < StepsLeft(q)
  BY <1>2, <1>3 DEF StepsLeft
<1>5. QED
  BY <1>1, <1>3, <1>4, Counts

\* A merge locks each of its rows once.
LEMMA MergeCounts ==
  ASSUME TypeOK, NEW q \in Requests, FlushMember(q)
  PROVE  /\ UNCHANGED <<pc, tries, members>>
         /\ \E r \in Requests : \E m \in ToLock(r) :
              pc[r] = "merge" /\ \A p \in Requests :
                ToLock(p)' = IF p = r THEN ToLock(r) \ {m} ELSE ToLock(p)
<1> USE Constants
<1>1. PICK m \in members[q] : lock[m] = None /\ lock' = [lock EXCEPT ![m] = q]
  BY DEF FlushMember
<1>2. UNCHANGED <<pc, tries, members>> /\ pc[q] = "merge"
  BY DEF FlushMember
<1>3. m \in ToLock(q) /\ m \in MemRows
  BY <1>1 DEF ToLock, TypeOK
<1>4. ASSUME NEW p \in Requests
      PROVE  ToLock(p)' = IF p = q THEN ToLock(q) \ {m} ELSE ToLock(p)
  <2>1. members[p] \subseteq MemRows
    BY DEF TypeOK
  <2>2. \A x \in MemRows : lock'[x] = IF x = m THEN q ELSE lock[x]
    BY <1>1, <1>3 DEF TypeOK
  <2>3. QED
    BY <1>1, <1>2, <1>3, <2>1, <2>2 DEF ToLock
<1>5. QED
  BY <1>2, <1>3, <1>4

\* Whatever the requests and the order of their statements: each of them takes at most twelve
\* steps, the second try of a write among them, and one for each row a merge locks.
THEOREM StepsCount == Spec => EveryStepCounts
<1> DEFINE Fewer == \E q \in Requests :
             /\ StepsLeft(q)' < StepsLeft(q)
             /\ \A p \in Requests \ {q} : StepsLeft(p)' = StepsLeft(p)
           Counted ==
             \/ Fewer
             \/ /\ UNCHANGED <<pc, tries, members>>
                /\ \E q \in Requests : \E m \in ToLock(q) :
                     pc[q] = "merge" /\ \A p \in Requests :
                       ToLock(p)' = IF p = q THEN ToLock(q) \ {m} ELSE ToLock(p)
<1>1. TypeOK /\ [Next]_vars => [Counted]_vars
  <2> SUFFICES ASSUME TypeOK, Next, ~UNCHANGED vars PROVE Counted
    OBVIOUS
  <2>1. ASSUME NEW q \in Requests, NEW to \in DOMAIN Ahead, pc' = [pc EXCEPT ![q] = to],
               UNCHANGED tries, Ahead[to] < Ahead[pc[q]]
        PROVE  Counted
    BY <2>1, MovesOn
  <2>2. ASSUME NEW q \in Requests, FlushMember(q) PROVE Counted
    BY <2>2, MergeCounts
  <2>3. ASSUME NEW q \in Requests, CategoryRefused(q) \/ MemoryRefused(q) PROVE Counted
    <3>1. pc[q] \in {"insert", "add"} /\ TryAgain(q)
      BY <2>3 DEF CategoryRefused, MemoryRefused
    <3>2. CASE tries[q] = 0 /\ tries' = [tries EXCEPT ![q] = 1] /\ pc' = [pc EXCEPT ![q] = "find"]
      <4>1. "find" \in DOMAIN Ahead /\ Ahead["find"] + 4 * (1 - 1) < Ahead[pc[q]] + 4 * (1 - 0)
        BY <3>1 DEF Ahead
      <4>2. StepsLeft(q) = Ahead[pc[q]] + 4 * (1 - 0)
        BY <3>2 DEF StepsLeft
      <4>3. Ahead["find"] + 4 * (1 - 1) < StepsLeft(q) /\ 1 \in 0..1
        BY <4>1, <4>2
      <4>4. QED
        BY <3>2, <4>1, <4>3, Counts, Zenon
    <3>3. CASE Answer(q, Refusal(call[q].op))
      <4>1. "done" \in DOMAIN Ahead /\ Ahead["done"] < Ahead[pc[q]]
        BY <3>1 DEF Ahead
      <4>2. pc' = [pc EXCEPT ![q] = "done"] /\ UNCHANGED tries
        BY <3>3, Zenon DEF Answer
      <4>3. QED
        BY <2>1, <4>1, <4>2
    <3>4. QED
      BY <3>1, <3>2, <3>3, Zenon DEF TryAgain
  <2> HIDE DEF Counted
  <2>4. ASSUME NEW q \in Requests, NEW result, Answer(q, result), pc[q] # "done" PROVE Counted
    <3>1. "done" \in DOMAIN Ahead /\ Ahead["done"] < Ahead[pc[q]]
      BY <2>4 DEF Ahead, TypeOK
    <3>2. QED
      BY <2>1, <2>4, <3>1 DEF Answer
  <2>5. ASSUME NEW q \in Requests, NEW to \in {"find", "load", "get"}, pc[q] = "idle",
               pc' = [pc EXCEPT ![q] = to], UNCHANGED tries
        PROVE  Counted
    <3>1. to \in DOMAIN Ahead /\ Ahead[to] < Ahead["idle"]
      BY DEF Ahead
    <3>2. QED
      BY <2>1, <2>5, <3>1
  <2>6. ASSUME NEW q \in Requests, Begin(q) PROVE Counted
    <3>1. PICK c : pc' = [pc EXCEPT ![q] = FirstStep(c.op)]
      BY <2>6 DEF Begin
    <3>2. FirstStep(c.op) \in {"find", "load", "get"}
      BY DEF FirstStep
    <3>3. QED
      BY <2>5, <2>6, <3>1, <3>2 DEF Begin
  <2>7. ASSUME NEW q \in Requests, Fail(q) PROVE Counted
    BY <2>4, <2>7 DEF Fail, Active
  <2>8. ASSUME NEW q \in Requests,
               \/ CommitWrite(q) \/ Close(q) \/ RemoveMemory(q) \/ CommitCreate(q)
               \/ RenameCategory(q) \/ DeleteCategory(q) \/ CommitMerge(q)
        PROVE  Counted
    <3>1. pc[q] # "done"
      BY <2>8 DEF CommitWrite, Close, RemoveMemory, CommitCreate, RenameCategory, DeleteCategory, CommitMerge
    <3>2. \E result : Answer(q, result)
      BY <2>8, Zenon
         DEF CommitWrite, Close, RemoveMemory, CommitCreate, RenameCategory, DeleteCategory, CommitMerge
    <3>3. QED
      BY <2>4, <3>1, <3>2
  <2>9. ASSUME NEW q \in Requests, NEW to \in {"lookup", "flush", "commit"},
               pc[q] \in {"find", "insert"}, pc' = [pc EXCEPT ![q] = to], UNCHANGED tries
        PROVE  Counted
    <3>1. to \in DOMAIN Ahead /\ Ahead[to] < Ahead[pc[q]]
      BY <2>9 DEF Ahead
    <3>2. QED
      BY <2>1, <2>9, <3>1
  <2>10. \A op : AfterCategory(op) \in {"lookup", "flush", "commit"}
    BY DEF AfterCategory
  <2>11. ASSUME NEW q \in Requests, FindCategory(q) PROVE Counted
    <3>1. CASE pc' = [pc EXCEPT ![q] = "insert"]
      <4>1. "insert" \in DOMAIN Ahead /\ Ahead["insert"] < Ahead["find"]
        BY DEF Ahead
      <4>2. QED
        BY <2>1, <2>11, <3>1, <4>1 DEF FindCategory
    <3>2. CASE pc' = [pc EXCEPT ![q] = AfterCategory(call[q].op)]
      BY <2>9, <2>10, <2>11, <3>2 DEF FindCategory
    <3>3. QED
      BY <2>11, <3>1, <3>2 DEF FindCategory
  <2>12. ASSUME NEW q \in Requests, InsertCategory(q) PROVE Counted
    BY <2>9, <2>10, <2>12 DEF InsertCategory, Goto
  <2>13. ASSUME NEW q \in Requests,
                \/ LookupMemory(q) \/ InsertMemory(q) \/ FlushMemory(q) \/ Crash(q) \/ ReadMembers(q)
         PROVE  Counted
    BY <2>1, <2>13 DEF LookupMemory, InsertMemory, FlushMemory, Crash, ReadMembers, Goto, session, Ahead
  <2>14. ASSUME NEW q \in Requests, GetCategory(q) \/ CountMembers(q) \/ LoadMemory(q) PROVE Counted
    <3>1. ASSUME NEW to \in {"rename", "count", "read"}, pc[q] = "get",
                 pc' = [pc EXCEPT ![q] = to], UNCHANGED tries
          PROVE  Counted
      <4>1. to \in DOMAIN Ahead /\ Ahead[to] < Ahead["get"]
        BY DEF Ahead
      <4>2. QED
        BY <2>1, <3>1, <4>1
    <3>2. \A op : AfterGet(op) \in {"rename", "count", "read"}
      BY DEF AfterGet
    <3>3. CASE GetCategory(q)
      BY <2>4, <3>1, <3>2, <3>3 DEF GetCategory, session
    <3>4. CASE CountMembers(q)
      BY <2>1, <2>4, <3>4 DEF CountMembers, session, Ahead
    <3>5. ASSUME NEW to \in {"find", "remove"}, pc[q] = "load",
                 pc' = [pc EXCEPT ![q] = to], UNCHANGED tries
          PROVE  Counted
      <4>1. to \in DOMAIN Ahead /\ Ahead[to] < Ahead["load"]
        BY DEF Ahead
      <4>2. QED
        BY <2>1, <3>5, <4>1
    <3>6. CASE LoadMemory(q)
      BY <2>4, <3>5, <3>6 DEF LoadMemory
    <3>7. QED
      BY <2>14, <3>3, <3>4, <3>6
  <2>15. ~AllDone
    BY DEF AllDone
  <2>16. QED
    BY <2>2, <2>3, <2>6, <2>7, <2>8, <2>11, <2>12, <2>13, <2>14, <2>15 DEF Next, Progress
<1>2. QED
  BY <1>1, TypeCorrect, PTL DEF Spec, EveryStepCounts
===============================================================================
