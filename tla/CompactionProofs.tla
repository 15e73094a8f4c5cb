--------------------------- MODULE CompactionProofs ---------------------------
(***************************************************************************)
(* Proofs about Compaction, for any sessions and watchers, any lives of a  *)
(* mark, of a request and of the host's patience, and any bounds.  The     *)
(* marks, the saves and the clock are followed apart from the host and the *)
(* watchers: every action either leaves the first alone, or begins a save, *)
(* or ends one, or lets a timer go off, or lets the clock go on.           *)
(***************************************************************************)
EXTENDS Compaction, TLAPS

\* The part of the invariant about marks, saves, clock and what the hooks left out.
Saves == /\ clock \in 0..MaxClock /\ marked \subseteq Sessions /\ jobs \in Seq(JobType)
         /\ OnTime /\ MarkStands /\ MarkedUntilLost /\ NoneBegunBefore /\ SkippedForAReason

\* The part about the host and the watchers.
HostOK    == host \in [Sessions -> [step : {"idle", "before", "compacted", "after"},
                                    since : 0..MaxClock, job : 0..Len(jobs)]]
SeenOK    == [Sessions -> 0..MaxCompactions]
TodoOK    == SUBSET (Sessions \X (1..MaxCompactions))
WatcherOK == watcher \in [Watchers -> [on : BOOLEAN, seen : SeenOK, todo : TodoOK,
                                       job : 0..Len(jobs)]]
Callers   == /\ count \in [Sessions -> 0..MaxCompactions] /\ HostOK /\ WatcherOK /\ Counted

\* The two parts together are the invariant: the timer that TypeOK asks for is MarkStands'.
LEMMA Parts == IInv <=> Saves /\ Callers
  BY DEF IInv, TypeOK, Saves, Callers, HostOK, WatcherOK, SeenOK, TodoOK, MarkStands

\* What is known of a single save.
LEMMA OneSave ==
  ASSUME jobs \in Seq(JobType), NEW j \in DOMAIN jobs
  PROVE  /\ j \in 1..Len(jobs) /\ Len(jobs) \in Nat /\ DOMAIN jobs = 1..Len(jobs)
         /\ jobs[j] \in JobType
         /\ jobs[j].session \in Sessions /\ jobs[j].began \in Nat /\ jobs[j].failed \in Nat
         /\ jobs[j].of \in Nat
  <1>1. DOMAIN jobs = 1..Len(jobs) /\ jobs[j] \in JobType /\ Len(jobs) \in Nat
    OBVIOUS
  <1>2. QED
    BY <1>1, CompactionOK DEF JobType

-----------------------------------------------------------------------------
(* The marks, the saves and the clock. *)

\* What is lost by some time is lost by any later one.
LEMMA LostForGood ==
  ASSUME jobs \in Seq(JobType), NEW j \in DOMAIN jobs, NEW t \in Nat, NEW u \in Nat,
         t <= u, Lost(j, t)
  PROVE  Lost(j, u)
  <1>1. jobs[j].began \in Nat /\ \A i \in DOMAIN jobs : jobs[i].began \in Nat /\ jobs[i].failed \in Nat
    BY OneSave
  <1>2. CASE t >= jobs[j].began + TTL
    BY <1>1, <1>2, CompactionOK DEF Lost
  <1>3. ASSUME NEW i \in JobsOf(jobs[j].session), i < j,
               \/ jobs[i].began + TTL \in jobs[j].began..t
               \/ jobs[i].step = "failed" /\ jobs[i].failed \in jobs[j].began..t
        PROVE  Lost(j, u)
    <2>1. i \in DOMAIN jobs
      BY DEF JobsOf
    <2>2. \/ jobs[i].began + TTL \in jobs[j].began..u
          \/ jobs[i].step = "failed" /\ jobs[i].failed \in jobs[j].began..u
      <3>1. TTL \in Nat /\ jobs[j].began \in Nat /\ jobs[i].began \in Nat /\ jobs[i].failed \in Nat
        BY <1>1, <2>1, CompactionOK
      <3>2. \A n \in Nat : n \in jobs[j].began..t => n \in jobs[j].began..u
        BY <3>1
      <3>3. jobs[i].began + TTL \in Nat
        BY <3>1
      <3>4. QED
        BY <1>3, <3>1, <3>2, <3>3
    <2>3. QED
      BY <1>3, <2>2 DEF Lost
  <1>4. QED
    BY <1>2, <1>3 DEF Lost

\* A step that leaves marks, saves and clock alone, and what was left out.
LEMMA LeftAlone ==
  ASSUME Saves, UNCHANGED <<clock, marked, jobs, skipped>>
  PROVE  Saves'
  BY DEF Saves, OnTime, MarkStands, MarkedUntilLost, NoneBegunBefore, SkippedForAReason,
         JobsOf, Saving, Lost

\* A hook that finds the mark leaves the session out: the mark's save is the reason.
LEMMA LeftOut ==
  ASSUME Saves, NEW s \in marked, NEW by, NEW c,
         skipped' = skipped \cup {[session |-> s, by |-> by, of |-> c, at |-> clock]},
         UNCHANGED <<clock, marked, jobs>>
  PROVE  Saves'
  <1> DEFINE new == [session |-> s, by |-> by, of |-> c, at |-> clock]
  <1>1. clock \in Nat /\ new.at = clock /\ new.session = s
    BY CompactionOK DEF Saves
  <1>2. PICK j \in JobsOf(s) : /\ jobs[j].timer
                               /\ Saving(j) \/ (jobs[j].step = "failed" /\ jobs[j].by = "watcher")
    BY DEF Saves, MarkStands
  <1>3. clock \in jobs[j].began..(jobs[j].began + TTL)
    <2>1. j \in DOMAIN jobs
      BY DEF JobsOf
    <2>2. jobs[j].began \in Nat
      BY <2>1, OneSave DEF Saves
    <2>3. QED
      BY <1>1, <1>2, <2>1, <2>2, CompactionOK DEF Saves, OnTime
  <1>4. OnTime'
    BY <1>1 DEF Saves, OnTime
  <1>5. MarkStands' /\ MarkedUntilLost' /\ NoneBegunBefore'
    BY DEF Saves, MarkStands, MarkedUntilLost, NoneBegunBefore, JobsOf, Saving, Lost
  <1>6. SkippedForAReason'
    BY <1>1, <1>2, <1>3 DEF Saves, SkippedForAReason, JobsOf, Saving
  <1>7. QED
    BY <1>4, <1>5, <1>6 DEF Saves

\* The clock goes on: no timer is overdue then either.
LEMMA TickSaves ==
  ASSUME Saves, Tick
  PROVE  Saves'
  <1>1. clock \in Nat /\ clock' = clock + 1 /\ clock' \in 0..MaxClock /\ clock < MaxClock
    BY CompactionOK DEF Saves, Tick
  <1>2. jobs' = jobs /\ marked' = marked /\ skipped' = skipped
    BY DEF Tick
  <1>3. \A j \in DOMAIN jobs : jobs[j].began \in Nat
    BY OneSave DEF Saves
  <1>4. OnTime'
    <2>1. \A j \in DOMAIN jobs : /\ jobs[j].began <= clock + 1
                                 /\ jobs[j].timer => clock + 1 <= jobs[j].began + TTL
      BY <1>1, <1>3, CompactionOK DEF Saves, OnTime, Tick
    <2>2. \A k \in skipped : k.at \in 0..(clock + 1)
      BY <1>1 DEF Saves, OnTime
    <2>3. QED
      BY <1>1, <1>2, <2>1, <2>2 DEF OnTime
  <1>5. MarkStands' /\ NoneBegunBefore' /\ SkippedForAReason'
    BY <1>2 DEF Saves, MarkStands, NoneBegunBefore, SkippedForAReason, JobsOf, Saving, Lost
  <1>6. MarkedUntilLost'
    <2>1. ASSUME NEW j \in DOMAIN jobs, Saving(j), jobs[j].session \notin marked
          PROVE  Lost(j, clock + 1)
      <3>1. Lost(j, clock)
        BY <2>1 DEF Saves, MarkedUntilLost
      <3>2. QED
        BY <1>1, <2>1, <3>1, LostForGood DEF Saves
    <2>2. QED
      BY <1>1, <1>2, <2>1 DEF MarkedUntilLost, JobsOf, Saving, Lost
  <1>7. QED
    BY <1>1, <1>2, <1>4, <1>5, <1>6 DEF Saves

\* A step that leaves every save's session and beginning, and failures, as they are: what was
\* lost stays lost.
LEMMA LostStays ==
  ASSUME DOMAIN jobs \subseteq DOMAIN jobs',
         \A i \in DOMAIN jobs :
           /\ jobs'[i].session = jobs[i].session /\ jobs'[i].began = jobs[i].began
           /\ jobs[i].step = "failed" => /\ jobs'[i].step = "failed"
                                         /\ jobs'[i].failed = jobs[i].failed,
         NEW j \in DOMAIN jobs, NEW t, Lost(j, t)
  PROVE  Lost(j, t)'
  <1>1. CASE t >= jobs[j].began + TTL
    BY <1>1 DEF Lost
  <1>2. ASSUME NEW i \in JobsOf(jobs[j].session), i < j,
               \/ jobs[i].began + TTL \in jobs[j].began..t
               \/ jobs[i].step = "failed" /\ jobs[i].failed \in jobs[j].began..t
        PROVE  Lost(j, t)'
    <2>1. i \in DOMAIN jobs /\ jobs[i].session = jobs[j].session
      BY DEF JobsOf
    <2>2. i \in JobsOf(jobs[j].session)' /\ jobs'[j].session = jobs[j].session
      BY <2>1 DEF JobsOf
    <2>3. \/ jobs'[i].began + TTL \in jobs'[j].began..t
          \/ jobs'[i].step = "failed" /\ jobs'[i].failed \in jobs'[j].began..t
      BY <1>2, <2>1
    <2>4. QED
      BY <1>2, <2>1, <2>2, <2>3 DEF Lost, JobsOf
  <1>3. QED
    BY <1>1, <1>2 DEF Lost

\* A save is begun for a session without a mark: whatever was saving it has lost its mark.
LEMMA Begun ==
  ASSUME Saves, NEW s \in Sessions, s \notin marked, NEW by \in {"before", "after", "watcher"},
         NEW c \in 1..MaxCompactions, Begin(s, by, c), clock' = clock, skipped' = skipped
  PROVE  /\ Saves' /\ Len(jobs') = Len(jobs) + 1
         /\ Len(jobs) \in Nat
  <1>1. PICK step \in Outsets :
          /\ jobs' = Append(jobs, Job(s, by, c, step))
          /\ marked' = IF step = "asking" THEN marked \cup {s} ELSE marked
    BY DEF Begin
  <1> DEFINE n == Len(jobs)
  <1>2. /\ jobs \in Seq(JobType) /\ n \in Nat /\ DOMAIN jobs = 1..n
        /\ clock \in 0..MaxClock /\ clock \in Nat
    BY CompactionOK DEF Saves
  <1>3. Job(s, by, c, step) \in JobType
    BY <1>2, CompactionOK DEF Job, JobType
  <1>4. /\ jobs' \in Seq(JobType) /\ Len(jobs') = n + 1 /\ DOMAIN jobs' = 1..(n + 1)
        /\ \A i \in 1..n : jobs'[i] = jobs[i]
        /\ jobs'[n + 1] = Job(s, by, c, step)
    BY <1>1, <1>2, <1>3
  <1>5. /\ jobs'[n + 1].session = s /\ jobs'[n + 1].began = clock /\ jobs'[n + 1].timer
        /\ jobs'[n + 1].step = step
    BY <1>4 DEF Job
  <1>6. \A i \in DOMAIN jobs : i \in DOMAIN jobs' /\ i # n + 1 /\ jobs'[i] = jobs[i]
    BY <1>2, <1>4
  <1>7. \A r : /\ JobsOf(r) \subseteq JobsOf(r)'
               /\ \A i \in JobsOf(r)' : i # n + 1 => i \in JobsOf(r)
    BY <1>2, <1>4 DEF JobsOf
  <1>8. ASSUME NEW j \in DOMAIN jobs, NEW t, Lost(j, t)
        PROVE  Lost(j, t)'
    BY <1>6, <1>8, LostStays
  <1>9. marked' \subseteq Sessions /\ \A r : r # s => (r \in marked' <=> r \in marked)
    BY <1>1 DEF Saves
  <1>10. OnTime'
    <2>1. clock <= clock + TTL
      BY <1>2, CompactionOK
    <2>2. ASSUME NEW j \in DOMAIN jobs'
          PROVE  jobs'[j].began <= clock /\ (jobs'[j].timer => clock <= jobs'[j].began + TTL)
      <3>1. CASE j = n + 1
        BY <1>2, <1>5, <2>1, <3>1
      <3>2. CASE j # n + 1
        <4>1. j \in DOMAIN jobs
          BY <1>2, <1>4, <3>2
        <4>2. QED
          BY <1>6, <4>1 DEF Saves, OnTime
      <3>3. QED
        BY <3>1, <3>2
    <2>3. QED
      BY <2>2 DEF Saves, OnTime
  <1>11. MarkStands'
    <2>1. ASSUME NEW r \in marked'
          PROVE  \E j \in JobsOf(r)' :
                   /\ jobs'[j].timer
                   /\ Saving(j)' \/ (jobs'[j].step = "failed" /\ jobs'[j].by = "watcher")
      <3>1. CASE r \in marked
        <4>1. PICK j \in JobsOf(r) :
                /\ jobs[j].timer
                /\ Saving(j) \/ (jobs[j].step = "failed" /\ jobs[j].by = "watcher")
          BY <3>1 DEF Saves, MarkStands
        <4>2. j \in JobsOf(r)' /\ jobs'[j] = jobs[j]
          BY <1>6, <1>7, <4>1 DEF JobsOf
        <4>3. QED
          BY <4>1, <4>2 DEF Saving
      <3>2. CASE r \notin marked
        <4>1. r = s /\ step = "asking"
          BY <1>1, <2>1, <3>2
        <4>2. n + 1 \in JobsOf(r)'
          BY <1>2, <1>4, <1>5, <4>1 DEF JobsOf
        <4>3. QED
          BY <1>5, <4>1, <4>2 DEF Saving
      <3>3. QED
        BY <3>1, <3>2
    <2>2. QED
      BY <2>1 DEF MarkStands
  <1>12. MarkedUntilLost'
    <2>1. ASSUME NEW j \in DOMAIN jobs', Saving(j)', jobs'[j].session \notin marked'
          PROVE  Lost(j, clock)'
      <3>1. j # n + 1
        BY <1>1, <1>5, <2>1 DEF Saving, Outsets
      <3>2. j \in DOMAIN jobs /\ jobs'[j] = jobs[j]
        BY <1>2, <1>4, <3>1
      <3>3. Saving(j) /\ jobs[j].session \notin marked
        BY <1>1, <2>1, <3>2 DEF Saving
      <3>4. Lost(j, clock)
        BY <3>2, <3>3 DEF Saves, MarkedUntilLost
      <3>5. \A t : Lost(j, t) => Lost(j, t)'
        BY <1>8, <3>2
      <3>6. QED
        BY <3>4, <3>5 DEF Lost
    <2>2. QED
      BY <2>1 DEF MarkedUntilLost
  <1>13. NoneBegunBefore'
    <2>1. ASSUME NEW k \in DOMAIN jobs', NEW j \in JobsOf(jobs[k].session)', j < k, Saving(j)'
          PROVE  Lost(j, jobs[k].began)'
      <3>1. j \in DOMAIN jobs' /\ jobs'[j].session = jobs'[k].session
        BY DEF JobsOf
      <3>2. j \in DOMAIN jobs /\ jobs'[j] = jobs[j] /\ Saving(j)
        BY <1>2, <1>4, <2>1, <3>1 DEF Saving
      <3>3. CASE k = n + 1
        <4>1. Lost(j, clock) /\ jobs'[k].began = clock
          BY <1>5, <3>1, <3>2, <3>3 DEF Saves, MarkedUntilLost
        <4>2. \A t : Lost(j, t) => Lost(j, t)'
          BY <1>8, <3>2
        <4>3. QED
          BY <4>1, <4>2 DEF Lost
      <3>4. CASE k # n + 1
        <4>1. k \in DOMAIN jobs /\ jobs'[k] = jobs[k] /\ j \in JobsOf(jobs[k].session)
          BY <1>2, <1>4, <3>1, <3>2, <3>4 DEF JobsOf
        <4>2. Lost(j, jobs[k].began)
          BY <2>1, <3>2, <4>1 DEF Saves, NoneBegunBefore
        <4>3. \A t : Lost(j, t) => Lost(j, t)'
          BY <1>8, <3>2
        <4>4. QED
          BY <4>1, <4>2, <4>3 DEF Lost
      <3>5. QED
        BY <3>3, <3>4
    <2>2. QED
      BY <2>1 DEF NoneBegunBefore, JobsOf
  <1>14. SkippedForAReason'
    <2>1. ASSUME NEW k \in skipped, NEW j \in JobsOf(k.session)
          PROVE  j \in JobsOf(k.session)' /\ jobs'[j] = jobs[j]
      BY <1>6, <1>7 DEF JobsOf
    <2>2. QED
      BY <2>1 DEF Saves, SkippedForAReason
  <1>15. QED
    BY <1>2, <1>4, <1>9, <1>10, <1>11, <1>12, <1>13, <1>14 DEF Saves

\* One save goes on, ends, or loses its timer.  Where its session's mark goes with it, every
\* save of the session has lost its mark: those begun before it had, when it was begun, it has
\* now, and those begun after it lose it to it.
LEMMA Changed ==
  ASSUME Saves, NEW j \in DOMAIN jobs, NEW to \in JobType, jobs' = [jobs EXCEPT ![j] = to],
         clock' = clock, skipped' = skipped,
         to.session = jobs[j].session, to.by = jobs[j].by, to.began = jobs[j].began,
         to.timer => jobs[j].timer,
         to.step \in {"asking", "saved"} => Saving(j),
         Saving(j) => \/ to.step \in {"asking", "saved"}
                      \/ to.step = "failed" /\ to.failed = clock,
         jobs[j].step = "failed" => to.step = "failed" /\ to.failed = jobs[j].failed,
         \/ /\ marked' = marked /\ to.timer = jobs[j].timer
            /\ to.step \in {"asking", "saved"} \/ jobs[j].by = "watcher" \/ ~Saving(j)
         \/ /\ marked' = marked \ {jobs[j].session}
            /\ \/ to.step = "failed" /\ to.failed = clock
               \/ clock = jobs[j].began + TTL
  PROVE  Saves'
  <1> DEFINE s == jobs[j].session
  <1>1. /\ jobs \in Seq(JobType) /\ j \in 1..Len(jobs) /\ clock \in Nat
        /\ \A i \in DOMAIN jobs : jobs[i].began \in Nat
    BY OneSave, CompactionOK DEF Saves
  <1>2. /\ jobs' \in Seq(JobType) /\ DOMAIN jobs' = DOMAIN jobs
        /\ jobs'[j] = to /\ \A i \in DOMAIN jobs : i # j => jobs'[i] = jobs[i]
    BY <1>1
  <1>3. \A i \in DOMAIN jobs :
          /\ jobs'[i].session = jobs[i].session /\ jobs'[i].by = jobs[i].by
          /\ jobs'[i].began = jobs[i].began
          /\ jobs'[i].timer => jobs[i].timer
          /\ jobs'[i].step \in {"asking", "saved"} => Saving(i)
          /\ jobs[i].step = "failed" => /\ jobs'[i].step = "failed"
                                        /\ jobs'[i].failed = jobs[i].failed
    BY <1>2 DEF Saving
  <1>4. \A r : JobsOf(r)' = JobsOf(r)
    BY <1>2, <1>3 DEF JobsOf
  <1>5. ASSUME NEW i \in DOMAIN jobs, NEW t, Lost(i, t)
        PROVE  Lost(i, t)'
    BY <1>2, <1>3, <1>5, LostStays
  <1>6. OnTime'
    BY <1>2, <1>3 DEF Saves, OnTime
  <1>7. MarkStands'
    <2>1. ASSUME NEW r \in marked'
          PROVE  \E i \in JobsOf(r) :
                   /\ jobs'[i].timer
                   /\ Saving(i)' \/ (jobs'[i].step = "failed" /\ jobs'[i].by = "watcher")
      <3>1. r \in marked
        BY <2>1
      <3>2. PICK i \in JobsOf(r) :
              /\ jobs[i].timer
              /\ Saving(i) \/ (jobs[i].step = "failed" /\ jobs[i].by = "watcher")
        BY <3>1 DEF Saves, MarkStands
      <3>3. i \in DOMAIN jobs /\ jobs[i].session = r
        BY <3>2 DEF JobsOf
      <3>4. CASE i # j
        BY <1>2, <3>2, <3>3, <3>4 DEF Saving
      <3>5. CASE i = j
        <4>1. /\ to.timer = jobs[j].timer
              /\ to.step \in {"asking", "saved"} \/ jobs[j].by = "watcher" \/ ~Saving(j)
          BY <2>1, <3>3, <3>5
        <4>2. Saving(j)' \/ (jobs'[j].step = "failed" /\ jobs'[j].by = "watcher")
          BY <1>2, <3>2, <3>5, <4>1 DEF Saving
        <4>3. QED
          BY <1>2, <3>2, <3>5, <4>1, <4>2
      <3>6. QED
        BY <3>4, <3>5
    <2>2. QED
      BY <1>4, <2>1 DEF MarkStands
  <1>8. MarkedUntilLost'
    <2>1. ASSUME NEW i \in DOMAIN jobs, Saving(i)', jobs[i].session \notin marked'
          PROVE  Lost(i, clock)'
      <3>1. Saving(i)
        BY <1>3, <2>1 DEF Saving
      <3>2. \A t : Lost(i, t) => Lost(i, t)'
        BY <1>5
      <3>3. CASE Lost(i, clock)
        BY <3>2, <3>3 DEF Lost
      <3>4. CASE jobs[i].session \in marked
        <4>1. /\ jobs[i].session = s
              /\ (to.step = "failed" /\ to.failed = clock) \/ clock = jobs[j].began + TTL
          BY <2>1, <3>4
        <4>2. CASE i < j
          <5>1. Lost(i, jobs[j].began)
            BY <3>1, <4>1, <4>2 DEF Saves, NoneBegunBefore, JobsOf
          <5>2. jobs[j].began <= clock
            BY DEF Saves, OnTime
          <5>3. Lost(i, clock)
            BY <1>1, <5>1, <5>2, LostForGood
          <5>4. QED
            BY <3>2, <5>3 DEF Lost
        <4>3. CASE i = j
          <5>1. clock = jobs[j].began + TTL
            BY <1>2, <2>1, <4>1, <4>3 DEF Saving
          <5>2. clock' >= jobs'[i].began + TTL
            BY <1>1, <1>3, <4>3, <5>1, CompactionOK
          <5>3. QED
            BY <5>2 DEF Lost
        <4>4. CASE j < i
          <5>1. j \in JobsOf(jobs'[i].session)
            BY <1>3, <4>1 DEF JobsOf
          <5>2. jobs'[i].began \in Nat /\ jobs'[i].began <= clock /\ clock' = clock
            BY <1>1, <1>3 DEF Saves, OnTime
          <5>3. \/ jobs'[j].began + TTL \in jobs'[i].began..clock'
                \/ jobs'[j].step = "failed" /\ jobs'[j].failed \in jobs'[i].began..clock'
            <6>1. clock' \in jobs'[i].began..clock'
              BY <1>1, <5>2
            <6>2. QED
              BY <1>2, <1>3, <4>1, <6>1
          <5>4. QED
            BY <1>4, <4>4, <5>1, <5>3 DEF Lost
        <4>5. QED
          BY <1>1, <4>2, <4>3, <4>4, OneSave
      <3>5. QED
        BY <3>1, <3>3, <3>4 DEF Saves, MarkedUntilLost
    <2>2. QED
      BY <1>2, <1>3, <2>1 DEF MarkedUntilLost
  <1>9. NoneBegunBefore'
    <2>1. ASSUME NEW k \in DOMAIN jobs, NEW i \in JobsOf(jobs[k].session), i < k, Saving(i)'
          PROVE  Lost(i, jobs[k].began)'
      <3>1. i \in DOMAIN jobs /\ Saving(i) /\ jobs'[k].began = jobs[k].began
        BY <1>3, <2>1 DEF Saving, JobsOf
      <3>2. Lost(i, jobs[k].began)
        BY <2>1, <3>1 DEF Saves, NoneBegunBefore
      <3>3. \A t : Lost(i, t) => Lost(i, t)'
        BY <1>5, <3>1
      <3>4. QED
        BY <3>1, <3>2, <3>3 DEF Lost
    <2>2. QED
      BY <1>2, <1>3, <1>4, <2>1 DEF NoneBegunBefore
  <1>10. SkippedForAReason'
    <2>1. ASSUME NEW k \in skipped
          PROVE  \E i \in JobsOf(k.session) :
                   /\ k.at \in jobs'[i].began..(jobs'[i].began + TTL)
                   /\ \/ jobs'[i].step \in {"asking", "saved"}
                      \/ /\ jobs'[i].step = "failed"
                         /\ jobs'[i].failed >= k.at \/ jobs'[i].by = "watcher"
      <3>1. PICK i \in JobsOf(k.session) :
              /\ k.at \in jobs[i].began..(jobs[i].began + TTL)
              /\ \/ Saving(i)
                 \/ jobs[i].step = "failed" /\ (jobs[i].failed >= k.at \/ jobs[i].by = "watcher")
        BY DEF Saves, SkippedForAReason, Saving
      <3>2. i \in DOMAIN jobs
        BY <3>1 DEF JobsOf
      <3>3. k.at \in Nat /\ k.at <= clock
        BY <1>1 DEF Saves, OnTime
      <3>4. Saving(i) => \/ jobs'[i].step \in {"asking", "saved"}
                         \/ jobs'[i].step = "failed" /\ jobs'[i].failed >= k.at
        BY <1>1, <1>2, <3>2, <3>3 DEF Saving
      <3>5. QED
        BY <1>3, <3>1, <3>2, <3>4
    <2>2. QED
      BY <1>4, <2>1 DEF SkippedForAReason
  <1>11. QED
    BY <1>2, <1>6, <1>7, <1>8, <1>9, <1>10 DEF Saves

\* The request is answered, or fails: only the hooks take the mark back then.
LEMMA EndSaves ==
  ASSUME Saves, NEW j \in DOMAIN jobs, Saved(j) \/ Fails(j)
  PROVE  Saves' /\ Len(jobs') = Len(jobs)
  <1>1. PICK step \in {"saved", "failed"} :
          /\ End(j, step) /\ jobs[j].step = "asking"
          /\ clock' = clock /\ skipped' = skipped
          /\ \/ marked' = marked /\ (step = "saved" \/ jobs[j].by = "watcher")
             \/ marked' = marked \ {jobs[j].session} /\ step = "failed"
    BY DEF Saved, Fails
  <1> DEFINE to == [jobs[j] EXCEPT !.step = step,
                                   !.failed = IF step = "failed" THEN clock ELSE @]
  <1>2. jobs[j] \in JobType /\ clock \in 0..MaxClock
    BY OneSave DEF Saves
  <1>3. to \in JobType
    BY <1>2 DEF JobType
  <1>4. /\ to.session = jobs[j].session /\ to.by = jobs[j].by /\ to.began = jobs[j].began
        /\ to.timer = jobs[j].timer /\ to.step = step
        /\ step = "failed" => to.failed = clock
    BY <1>2 DEF JobType
  <1>5. jobs' = [jobs EXCEPT ![j] = to]
    BY <1>1 DEF End
  <1>6. Saves'
    <2> HIDE DEF to
    <2>1. QED
      BY <1>1, <1>3, <1>4, <1>5, Changed DEF Saving
  <1>7. QED
    BY <1>5, <1>6 DEF Saves

\* A timer goes off, when its mark has run out and not a tick later.
LEMMA TimerSaves ==
  ASSUME Saves, NEW j \in DOMAIN jobs, Timer(j)
  PROVE  Saves' /\ Len(jobs') = Len(jobs)
  <1> DEFINE to == [jobs[j] EXCEPT !.timer = FALSE]
  <1>1. /\ jobs' = [jobs EXCEPT ![j] = to] /\ clock' = clock /\ skipped' = skipped
        /\ marked' = marked \ {jobs[j].session} /\ jobs[j].timer
        /\ clock >= jobs[j].began + TTL
    BY DEF Timer
  <1>2. jobs[j] \in JobType /\ jobs[j].began \in Nat /\ clock \in Nat
    BY OneSave, CompactionOK DEF Saves
  <1>3. clock = jobs[j].began + TTL
    BY <1>1, <1>2, CompactionOK DEF Saves, OnTime
  <1>4. to \in JobType
    BY <1>2 DEF JobType
  <1>5. /\ to.session = jobs[j].session /\ to.by = jobs[j].by /\ to.began = jobs[j].began
        /\ to.timer = FALSE /\ to.step = jobs[j].step /\ to.failed = jobs[j].failed
    BY <1>2 DEF JobType
  <1>6. Saves'
    <2> HIDE DEF to
    <2>1. QED
      BY <1>1, <1>3, <1>4, <1>5, Changed DEF Saving
  <1>7. QED
    BY <1>1, <1>6 DEF Saves

-----------------------------------------------------------------------------
(* The host and the watchers. *)

\* What a host or a watcher remembers of the saves stays in range when there are more of them.
LEMMA MoreSaves ==
  ASSUME HostOK, WatcherOK, Len(jobs) \in Nat, Len(jobs') \in Nat, Len(jobs) <= Len(jobs')
  PROVE  /\ host \in [Sessions -> [step : {"idle", "before", "compacted", "after"},
                                   since : 0..MaxClock, job : 0..Len(jobs')]]
         /\ watcher \in [Watchers -> [on : BOOLEAN, seen : SeenOK, todo : TodoOK,
                                      job : 0..Len(jobs')]]
  <1> DEFINE Old   == 0..Len(jobs)
             New   == 0..Len(jobs')
             Since == 0..MaxClock
  <1>1. Old \subseteq New
    OBVIOUS
  <1>2. /\ host \in [Sessions -> [step : {"idle", "before", "compacted", "after"},
                                  since : Since, job : Old]]
        /\ watcher \in [Watchers -> [on : BOOLEAN, seen : SeenOK, todo : TodoOK, job : Old]]
    BY DEF HostOK, WatcherOK
  <1> HIDE DEF Old, New, Since
  <1>3. \A s \in Sessions : host[s] \in [step : {"idle", "before", "compacted", "after"},
                                         since : Since, job : New]
    BY <1>1, <1>2
  <1>4. \A w \in Watchers : watcher[w] \in [on : BOOLEAN, seen : SeenOK, todo : TodoOK, job : New]
    BY <1>1, <1>2
  <1>5. /\ host \in [Sessions -> [step : {"idle", "before", "compacted", "after"},
                                  since : Since, job : New]]
        /\ watcher \in [Watchers -> [on : BOOLEAN, seen : SeenOK, todo : TodoOK, job : New]]
    BY <1>2, <1>3, <1>4
  <1>6. QED
    BY <1>5 DEF New, Since

\* A session's host goes one step on.
LEMMA HostStep ==
  ASSUME Callers, NEW s \in Sessions, Len(jobs) \in Nat, Len(jobs') \in Nat,
         Len(jobs) <= Len(jobs'),
         NEW step \in {"idle", "before", "compacted", "after"}, NEW since \in 0..MaxClock,
         NEW job \in 0..Len(jobs'),
         host' = [host EXCEPT ![s] = [step |-> step, since |-> since, job |-> job]],
         watcher' = watcher, count' \in [Sessions -> 0..MaxCompactions],
         \A r \in Sessions \ {s} : count'[r] = count[r],
         step = "compacted" => count'[s] >= 1,
         step = "before" => count'[s] < MaxCompactions
  PROVE  Callers'
  <1>1. HostOK /\ WatcherOK
    BY DEF Callers
  <1>2. WatcherOK'
    BY <1>1, MoreSaves DEF WatcherOK
  <1>3. HostOK'
    <2> DEFINE Rows == [step : {"idle", "before", "compacted", "after"},
                        since : 0..MaxClock, job : 0..Len(jobs')]
    <2>1. host \in [Sessions -> Rows]
      BY <1>1, MoreSaves
    <2>2. [step |-> step, since |-> since, job |-> job] \in Rows
      OBVIOUS
    <2> HIDE DEF Rows
    <2>3. host' \in [Sessions -> Rows]
      BY <2>1, <2>2
    <2>4. QED
      BY <2>3 DEF Rows, HostOK
  <1>4. Counted'
    <2>1. host'[s].step = step /\ \A r \in Sessions \ {s} : host'[r] = host[r]
      BY <1>1 DEF HostOK
    <2>2. \A r \in Sessions :
            /\ host'[r].step = "compacted" => count'[r] >= 1
            /\ host'[r].step = "before" => count'[r] < MaxCompactions
      <3>1. ASSUME NEW r \in Sessions \ {s}
            PROVE  /\ host'[r].step = "compacted" => count'[r] >= 1
                   /\ host'[r].step = "before" => count'[r] < MaxCompactions
        BY <2>1 DEF Callers, Counted, At
      <3>2. QED
        BY <2>1, <3>1
    <2>3. QED
      BY <2>2 DEF Counted, At
  <1>5. QED
    BY <1>2, <1>3, <1>4 DEF Callers

\* The hooks: leave the session out, or begin to save it.
LEMMA HookStep ==
  ASSUME Saves, Callers, NEW s \in Sessions, NEW by \in {"before", "after"},
         NEW c \in 1..MaxCompactions, Hook(s, by, c, by), UNCHANGED <<clock, count, watcher>>,
         by = "before" => count[s] < MaxCompactions
  PROVE  Saves' /\ Callers'
  <1>1. Len(jobs) \in Nat /\ clock \in 0..MaxClock /\ 0 \in 0..MaxClock
    BY CompactionOK DEF Saves
  <1>2. /\ count' \in [Sessions -> 0..MaxCompactions] /\ watcher' = watcher
        /\ \A r \in Sessions \ {s} : count'[r] = count[r]
        /\ by \in {"idle", "before", "compacted", "after"}
        /\ by = "compacted" => count'[s] >= 1
        /\ by = "before" => count'[s] < MaxCompactions
    BY DEF Callers
  <1>3. CASE s \in marked
    <2>1. /\ skipped' = skipped \cup {[session |-> s, by |-> by, of |-> c, at |-> clock]}
          /\ host' = [host EXCEPT ![s] = [step |-> by, since |-> 0, job |-> 0]]
          /\ marked' = marked /\ jobs' = jobs
      BY <1>3 DEF Hook
    <2>2. Saves'
      BY <1>3, <2>1, LeftOut
    <2>3. Len(jobs') \in Nat /\ Len(jobs) <= Len(jobs') /\ 0 \in 0..Len(jobs')
      BY <1>1, <2>1
    <2>4. Callers'
      BY <1>1, <1>2, <2>1, <2>3, HostStep
    <2>5. QED
      BY <2>2, <2>4
  <1>4. CASE s \notin marked
    <2>1. /\ Begin(s, by, c) /\ skipped' = skipped
          /\ host' = [host EXCEPT ![s] = [step |-> by, since |-> clock, job |-> Len(jobs) + 1]]
      BY <1>4 DEF Hook
    <2>2. Saves' /\ Len(jobs') = Len(jobs) + 1
      BY <1>4, <2>1, Begun
    <2>3. /\ Len(jobs') \in Nat /\ Len(jobs) <= Len(jobs')
          /\ Len(jobs) + 1 \in 0..Len(jobs')
      BY <1>1, <2>2
    <2>4. Callers'
      BY <1>1, <1>2, <2>1, <2>3, HostStep
    <2>5. QED
      BY <2>2, <2>4
  <1>5. QED
    BY <1>3, <1>4

\* The watchers' rows are in range after the step, and nobody else has moved.
LEMMA WatcherStep ==
  ASSUME Callers, Len(jobs) \in Nat, Len(jobs') \in Nat, Len(jobs) <= Len(jobs'),
         watcher' \in [Watchers -> [on : BOOLEAN, seen : SeenOK, todo : TodoOK,
                                    job : 0..Len(jobs')]],
         host' = host, count' = count
  PROVE  Callers'
  <1>1. HostOK'
    BY MoreSaves DEF Callers, HostOK
  <1>2. WatcherOK'
    BY DEF WatcherOK
  <1>3. Counted'
    BY DEF Callers, Counted, At
  <1>4. QED
    BY <1>1, <1>2, <1>3 DEF Callers

\* Whoever waited for a save goes on.
LEMMA SettleStep ==
  ASSUME Callers, Len(jobs') = Len(jobs), NEW j, NEW thrown \in BOOLEAN, Settle(j, thrown),
         host' = host, count' = count, Len(jobs) \in Nat
  PROVE  Callers'
  <1> DEFINE Upto == 0..Len(jobs)
  <1>1. 0 \in Upto /\ {} \in TodoOK
    BY DEF TodoOK
  <1>2. watcher \in [Watchers -> [on : BOOLEAN, seen : SeenOK, todo : TodoOK, job : Upto]]
    BY DEF Callers, WatcherOK
  <1> HIDE DEF Upto
  <1>3. watcher' \in [Watchers -> [on : BOOLEAN, seen : SeenOK, todo : TodoOK, job : Upto]]
    <2>1. ASSUME NEW w \in Watchers
          PROVE  (IF watcher[w].job # j THEN watcher[w]
                  ELSE [watcher[w] EXCEPT !.job = 0, !.todo = IF thrown THEN {} ELSE @])
                   \in [on : BOOLEAN, seen : SeenOK, todo : TodoOK, job : Upto]
      BY <1>1, <1>2
    <2>2. QED
      BY <2>1 DEF Settle
  <1>4. QED
    BY <1>3, WatcherStep DEF Upto

\* The watcher is started, is stopped, or reads the session store.
LEMMA WatchStep ==
  ASSUME Saves, Callers, NEW w \in Watchers, Start(w) \/ Stop(w) \/ Look(w)
  PROVE  Saves' /\ Callers'
  <1> DEFINE Upto == 0..Len(jobs)
             Rows == [Watchers -> [on : BOOLEAN, seen : SeenOK, todo : TodoOK, job : Upto]]
  <1>1. /\ UNCHANGED <<clock, marked, jobs, count, host, skipped>>
        /\ count \in [Sessions -> 0..MaxCompactions] /\ watcher \in Rows
    BY DEF Start, Stop, Look, Callers, WatcherOK
  <1>2. Len(jobs) \in Nat /\ Len(jobs') \in Nat /\ Len(jobs) <= Len(jobs') /\ 0 \in Upto
    BY <1>1 DEF Saves
  <1>3. Saves'
    BY <1>1, LeftAlone
  <1>4. count \in SeenOK /\ {} \in TodoOK
    BY <1>1 DEF SeenOK, TodoOK
  <1>5. ASSUME Look(w)
        PROVE  {<<s, count[s]>> : s \in {r \in Sessions : count[r] > watcher[w].seen[r]}} \in TodoOK
    <2>1. watcher[w].seen \in [Sessions -> 0..MaxCompactions]
      BY <1>1 DEF SeenOK
    <2>2. ASSUME NEW s \in Sessions, count[s] > watcher[w].seen[s]
          PROVE  count[s] \in 1..MaxCompactions
      <3>1. watcher[w].seen[s] \in 0..MaxCompactions /\ count[s] \in 0..MaxCompactions
        BY <1>1, <2>1
      <3>2. QED
        BY <2>2, <3>1, CompactionOK
    <2>3. QED
      BY <2>2 DEF TodoOK
  <1> HIDE DEF Upto
  <1>6. watcher' \in Rows
    <2>1. CASE Start(w)
      BY <1>1, <1>2, <1>4, <2>1 DEF Start, Off
    <2>2. CASE Stop(w)
      BY <1>1, <2>2 DEF Stop
    <2>3. CASE Look(w)
      BY <1>1, <1>5, <2>3 DEF Look
    <2>4. QED
      BY <2>1, <2>2, <2>3
  <1>7. Callers'
    BY <1>1, <1>2, <1>6, WatcherStep DEF Upto
  <1>8. QED
    BY <1>3, <1>7

\* A tick of the watcher comes to a session: it is marked, or is saved.
LEMMA VisitStep ==
  ASSUME Saves, Callers, NEW w \in Watchers, NEW s \in Sessions, Visit(w, s)
  PROVE  Saves' /\ Callers'
  <1>1. PICK c \in 1..MaxCompactions :
          LET at == [watcher EXCEPT ![w].seen[s] = c, ![w].todo = @ \ {<<s, c>>}]
          IN  IF s \in marked
              THEN watcher' = at /\ UNCHANGED <<marked, jobs>>
              ELSE /\ Begin(s, "watcher", c)
                   /\ watcher' = [at EXCEPT ![w].job =
                                    IF jobs'[Len(jobs')].step = "asking" THEN Len(jobs') ELSE 0]
    BY DEF Visit
  <1>2. /\ clock' = clock /\ count' = count /\ host' = host /\ skipped' = skipped
        /\ Len(jobs) \in Nat
    BY DEF Visit, Saves
  <1> DEFINE Upto == 0..Len(jobs')
             Rows == [Watchers -> [on : BOOLEAN, seen : SeenOK, todo : TodoOK, job : Upto]]
             at   == [watcher EXCEPT ![w].seen[s] = c, ![w].todo = @ \ {<<s, c>>}]
  <1>3. Saves' /\ Len(jobs') \in Nat /\ Len(jobs) <= Len(jobs')
    <2>1. CASE s \in marked
      <3>1. marked' = marked /\ jobs' = jobs
        BY <1>1, <2>1
      <3>2. QED
        BY <1>2, <3>1, LeftAlone
    <2>2. CASE s \notin marked
      <3>1. Begin(s, "watcher", c)
        BY <1>1, <2>2
      <3>2. Saves' /\ Len(jobs') = Len(jobs) + 1
        BY <1>2, <2>2, <3>1, Begun
      <3>3. QED
        BY <1>2, <3>2
    <2>3. QED
      BY <2>1, <2>2
  <1>4. watcher \in Rows
    BY <1>2, <1>3, MoreSaves DEF Callers
  <1>5. [watcher[w].seen EXCEPT ![s] = c] \in SeenOK /\ watcher[w].todo \ {<<s, c>>} \in TodoOK
    <2>1. c \in 0..MaxCompactions
      BY CompactionOK
    <2>2. watcher[w].seen \in SeenOK /\ watcher[w].todo \in TodoOK
      BY <1>4
    <2>3. QED
      BY <2>1, <2>2 DEF SeenOK, TodoOK
  <1>6. Len(jobs') \in Upto /\ 0 \in Upto
    BY <1>3
  <1> HIDE DEF Upto
  <1>7. at \in Rows
    BY <1>4, <1>5
  <1>8. watcher' \in Rows
    <2>1. \A job \in Upto : [at EXCEPT ![w].job = job] \in Rows
      <3> HIDE DEF at
      <3>1. QED
        BY <1>7
    <2>2. CASE s \in marked
      BY <1>1, <1>7, <2>2
    <2>3. CASE s \notin marked
      <3> DEFINE job == IF jobs'[Len(jobs')].step = "asking" THEN Len(jobs') ELSE 0
      <3>1. job \in Upto
        BY <1>6
      <3>2. watcher' = [at EXCEPT ![w].job = job]
        BY <1>1, <2>3
      <3> HIDE DEF at, job
      <3>3. QED
        BY <2>1, <3>1, <3>2
    <2>4. QED
      BY <2>2, <2>3
  <1>9. Callers'
    BY <1>2, <1>3, <1>8, WatcherStep DEF Upto
  <1>10. QED
    BY <1>3, <1>9

\* The host compacts, goes on, or compacts without a hook.
LEMMA HostAlone ==
  ASSUME Saves, Callers, NEW s \in Sessions, Compact(s) \/ Resume(s) \/ CodexCompacts(s)
  PROVE  Saves' /\ Callers'
  <1>1. UNCHANGED <<clock, marked, jobs, skipped, watcher>>
    BY DEF Compact, Resume, CodexCompacts
  <1>2. Saves'
    BY <1>1, LeftAlone
  <1>3. /\ Len(jobs) \in Nat /\ Len(jobs') \in Nat /\ Len(jobs) <= Len(jobs')
        /\ 0 \in 0..Len(jobs') /\ 0 \in 0..MaxClock
    BY <1>1, CompactionOK DEF Saves
  <1>4. count \in [Sessions -> 0..MaxCompactions] /\ count[s] \in Nat
    BY CompactionOK DEF Callers
  <1>5. ASSUME count[s] < MaxCompactions, count' = [count EXCEPT ![s] = @ + 1]
        PROVE  /\ count' \in [Sessions -> 0..MaxCompactions] /\ count'[s] >= 1
               /\ \A r \in Sessions \ {s} : count'[r] = count[r]
    <2>1. count[s] + 1 \in 0..MaxCompactions
      BY <1>4, <1>5, CompactionOK
    <2>2. QED
      BY <1>4, <1>5, <2>1
  <1>6. CASE Compact(s)
    <2>1. count[s] < MaxCompactions
      BY <1>6 DEF Compact, Callers, Counted
    <2>2. /\ count' = [count EXCEPT ![s] = @ + 1]
          /\ host' = [host EXCEPT ![s] = [step |-> "compacted", since |-> 0, job |-> 0]]
      BY <1>6 DEF Compact
    <2>3. QED
      BY <1>1, <1>2, <1>3, <1>5, <2>1, <2>2, HostStep
  <1>7. CASE Resume(s)
    <2>1. /\ count' = count
          /\ host' = [host EXCEPT ![s] = [step |-> "idle", since |-> 0, job |-> 0]]
      BY <1>7 DEF Resume
    <2>2. QED
      BY <1>1, <1>2, <1>3, <1>4, <2>1, HostStep
  <1>8. CASE CodexCompacts(s)
    <2>1. /\ count[s] < MaxCompactions /\ count' = [count EXCEPT ![s] = @ + 1]
          /\ host' = host /\ At(s, "idle")
      BY <1>8 DEF CodexCompacts
    <2>2. HostOK' /\ WatcherOK'
      BY <1>1, <2>1 DEF Callers, HostOK, WatcherOK
    <2>3. Counted'
      BY <1>5, <2>1 DEF Callers, Counted, At
    <2>4. QED
      BY <1>2, <1>5, <2>1, <2>2, <2>3 DEF Callers
  <1>9. QED
    BY <1>6, <1>7, <1>8

\* A hook is called.
LEMMA HookCalled ==
  ASSUME Saves, Callers, NEW s \in Sessions, BeforeCompaction(s) \/ AfterCompaction(s)
  PROVE  Saves' /\ Callers'
  <1>1. count \in [Sessions -> 0..MaxCompactions] /\ count[s] \in 0..MaxCompactions
    BY DEF Callers
  <1>2. CASE BeforeCompaction(s)
    <2>1. /\ count[s] < MaxCompactions /\ Hook(s, "before", count[s] + 1, "before")
          /\ UNCHANGED <<clock, count, watcher>>
      BY <1>2 DEF BeforeCompaction
    <2>2. count[s] + 1 \in 1..MaxCompactions
      BY <1>1, <2>1, CompactionOK
    <2>3. QED
      BY <2>1, <2>2, HookStep
  <1>3. CASE AfterCompaction(s)
    <2>1. /\ count[s] >= 1 /\ Hook(s, "after", count[s], "after")
          /\ UNCHANGED <<clock, count, watcher>>
      BY <1>3 DEF AfterCompaction, Callers, Counted
    <2>2. count[s] \in 1..MaxCompactions
      BY <1>1, <2>1, CompactionOK
    <2>3. QED
      BY <2>1, <2>2, HookStep
  <1>4. QED
    BY <1>2, <1>3

\* A step that leaves the host, the watchers, the counts and the number of saves alone.
LEMMA CallersAlone ==
  ASSUME Callers, UNCHANGED <<host, watcher, count>>, Len(jobs') = Len(jobs)
  PROVE  Callers'
  BY DEF Callers, HostOK, WatcherOK, Counted, At

\* A save ends, its timer goes off, or the clock goes on.
LEMMA TimePasses ==
  ASSUME Saves, Callers,
         (\E j \in DOMAIN jobs : Saved(j) \/ Fails(j) \/ Timer(j)) \/ Tick
  PROVE  Saves' /\ Callers'
  <1>1. ASSUME NEW j \in DOMAIN jobs, Saved(j) \/ Fails(j)
        PROVE  Saves' /\ Callers'
    <2>1. Saves' /\ Len(jobs') = Len(jobs)
      BY <1>1, EndSaves
    <2>2. Len(jobs) \in Nat
      BY DEF Saves
    <2>3. PICK thrown \in BOOLEAN : Settle(j, thrown) /\ host' = host /\ count' = count
      BY <1>1 DEF Saved, Fails
    <2>4. Callers'
      BY <2>1, <2>2, <2>3, SettleStep
    <2>5. QED
      BY <2>1, <2>4
  <1>2. ASSUME NEW j \in DOMAIN jobs, Timer(j)
        PROVE  Saves' /\ Callers'
    <2>1. Saves' /\ Len(jobs') = Len(jobs) /\ UNCHANGED <<host, watcher, count>>
      BY <1>2, TimerSaves DEF Timer
    <2>2. QED
      BY <2>1, CallersAlone
  <1>3. ASSUME Tick
        PROVE  Saves' /\ Callers'
    <2>1. Saves' /\ jobs' = jobs /\ UNCHANGED <<host, watcher, count>>
      BY <1>3, TickSaves DEF Tick
    <2>2. QED
      BY <2>1, CallersAlone
  <1>4. QED
    BY <1>1, <1>2, <1>3

-----------------------------------------------------------------------------
(* The theorems. *)

\* The inductive invariant of Compaction holds in every reachable state.
THEOREM Invariant == Spec => []IInv
  <1>1. Init => IInv
    <2> SUFFICES ASSUME Init
                 PROVE  IInv
      OBVIOUS
    <2>1. jobs = <<>> /\ marked = {} /\ skipped = {} /\ clock = 0
      BY DEF Init
    <2>2. jobs \in Seq(JobType) /\ DOMAIN jobs = {} /\ Len(jobs) = 0
      BY <2>1
    <2>3. clock \in 0..MaxClock
      BY <2>1, CompactionOK
    <2>4. Saves
      BY <2>1, <2>2, <2>3 DEF Saves, OnTime, MarkStands, MarkedUntilLost, NoneBegunBefore,
                              SkippedForAReason
    <2>5. 0 \in 0..MaxCompactions /\ 0 \in 0..MaxClock /\ 0 \in 0..Len(jobs)
      BY <2>2, CompactionOK
    <2>6. count \in [Sessions -> 0..MaxCompactions] /\ HostOK
      BY <2>5 DEF Init, HostOK
    <2>7. WatcherOK
      BY <2>5 DEF Init, Off, WatcherOK, SeenOK, TodoOK
    <2>8. Counted
      BY DEF Init, Counted, At
    <2>9. QED
      BY <2>4, <2>6, <2>7, <2>8, Parts DEF Callers
  <1>2. Saves /\ Callers /\ [Next]_vars => Saves' /\ Callers'
    <2> SUFFICES ASSUME Saves, Callers, [Next]_vars
                 PROVE  Saves' /\ Callers'
      OBVIOUS
    <2>1. ASSUME NEW s \in Sessions,
                 \/ BeforeCompaction(s) \/ Compact(s) \/ AfterCompaction(s)
                 \/ Resume(s) \/ CodexCompacts(s)
          PROVE  Saves' /\ Callers'
      BY <2>1, HookCalled, HostAlone
    <2>2. ASSUME NEW w \in Watchers, Start(w) \/ Stop(w) \/ Look(w)
          PROVE  Saves' /\ Callers'
      BY <2>2, WatchStep
    <2>3. ASSUME NEW w \in Watchers, NEW s \in Sessions, Visit(w, s)
          PROVE  Saves' /\ Callers'
      BY <2>3, VisitStep
    <2>4. CASE (\E j \in DOMAIN jobs : Saved(j) \/ Fails(j) \/ Timer(j)) \/ Tick
      BY <2>4, TimePasses
    <2>5. CASE UNCHANGED vars
      <3>1. UNCHANGED <<clock, marked, jobs, skipped, host, watcher, count>>
        BY <2>5 DEF vars
      <3>2. QED
        BY <3>1, LeftAlone, CallersAlone
    <2>6. QED
      BY <2>1, <2>2, <2>3, <2>4, <2>5 DEF Next
  <1>3. QED
    BY <1>1, <1>2, Parts, PTL DEF Spec

\* Every variable keeps its type, and a mark has a timer still to come that will delete it:
\* no session stays marked for ever.
THEOREM TypeCorrect == Spec => []TypeOK
  <1>1. IInv => TypeOK
    BY DEF IInv
  <1>2. QED
    BY <1>1, Invariant, PTL

\* A compaction is saved twice only when, by the time the second save begins, the first one's
\* mark has run out or a save begun still earlier has taken it away.
THEOREM SavedOnce == Spec => []TwiceOnlyAfterExpiry
  <1>1. IInv => TwiceOnlyAfterExpiry
    <2> SUFFICES ASSUME IInv, NEW k \in DOMAIN jobs, NEW j \in JobsOf(jobs[k].session), j < k,
                        {jobs[j].step, jobs[k].step} = {"saved"}
                 PROVE  Lost(j, jobs[k].began)
      BY DEF TwiceOnlyAfterExpiry
    <2>1. Saving(j)
      BY DEF Saving
    <2>2. QED
      BY <2>1 DEF IInv, NoneBegunBefore
  <1>2. QED
    BY <1>1, Invariant, PTL

\* A hook leaves a session out only for a save of the last two minutes that has succeeded, is
\* under way or failed later, or that was the watcher's.
THEOREM LeftOutForAReason == Spec => []SkippedForAReason
  <1>1. IInv => SkippedForAReason
    BY DEF IInv
  <1>2. QED
    BY <1>1, Invariant, PTL

===============================================================================
