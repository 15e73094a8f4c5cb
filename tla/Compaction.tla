------------------------------ MODULE Compaction ------------------------------
(***************************************************************************)
(* How the OpenClaw plugin saves a session before its history is           *)
(* compacted.  Three callers want the same: the host's before_compaction   *)
(* and after_compaction hooks, and a watcher that sees a session's         *)
(* compactionCount grow.  A set of marks, one per session, keeps them      *)
(* apart: who finds the mark leaves, who sets it starts a timer that will  *)
(* delete it, whatever it then stands for.  Between two awaits nothing     *)
(* else runs.  The host goes on when a hook takes too long; the request    *)
(* behind it goes on too, until it is aborted.  The backend is Extraction. *)
(***************************************************************************)
EXTENDS Integers, Sequences, FiniteSets

CONSTANTS
  Sessions,
  Watchers,        \* the watcher, and room for stopped ones still at a tick
  TTL,             \* ttlMs of a mark, in ticks of the clock
  Abort,           \* when aimemoryRequest gives up
  HookLimit,       \* timeoutMs of the hooks
  MaxClock,        \* bound
  MaxCompactions,  \* bound, for every session
  MaxJobs          \* bound: how many saves are begun

ASSUME CompactionOK ==
  /\ TTL \in Nat \ {0} /\ Abort \in Nat \ {0} /\ HookLimit \in Nat
  /\ MaxClock \in Nat /\ MaxCompactions \in Nat /\ MaxJobs \in Nat

VARIABLES
  clock,
  marked,   \* savedCompactions
  jobs,     \* every save that was begun; a timer of its own belongs to each
  count,    \* count[s]: compactionCount of session s
  host,     \* host[s]: what the host is doing with s, since when, for which job it waits
  watcher,
  skipped   \* history: the hook calls that found a mark

vars == <<clock, marked, jobs, count, host, watcher, skipped>>

At(s, step)  == host[s].step = step
Off          == [on |-> FALSE, seen |-> [s \in Sessions |-> 0], todo |-> {}, job |-> 0]
JobsOf(s)    == {j \in DOMAIN jobs : jobs[j].session = s}
Running(w)   == watcher[w].todo # {} \/ watcher[w].job # 0
\* The event loop is free for others: no watcher is between two awaits.
Free         == \A w \in Watchers : watcher[w].todo # {} => watcher[w].job # 0

Init == /\ clock = 0 /\ marked = {} /\ jobs = <<>> /\ skipped = {}
        /\ count = [s \in Sessions |-> 0]
        /\ host = [s \in Sessions |-> [step |-> "idle", since |-> 0, job |-> 0]]
        /\ watcher = [w \in Watchers |-> Off]

-----------------------------------------------------------------------------
(* One save: the mark, the transcript, the request to the backend. *)

Job(s, by, c, step) == [session |-> s, by |-> by, of |-> c, began |-> clock, step |-> step,
                        failed |-> 0, timer |-> TRUE]

\* How a save sets out: with a transcript to send, or without one.
Outsets == {"asking", "empty"}

\* Mutant: the mark is set when the save has succeeded.
BeginUnmarked(s, by, c) ==
  /\ Len(jobs) < MaxJobs
  /\ \E step \in Outsets :
       /\ jobs' = Append(jobs, Job(s, by, c, step))
       /\ marked' = marked

\* Without a transcript the mark is taken back at once; its timer stays.
Begin(s, by, c) ==
  /\ Len(jobs) < MaxJobs
  /\ \E step \in Outsets :
       /\ jobs' = Append(jobs, Job(s, by, c, step))
       /\ marked' = IF step = "asking" THEN marked \cup {s} ELSE marked

End(j, step) == jobs' = [jobs EXCEPT ![j].step = step, ![j].failed = IF step = "failed" THEN clock ELSE @]

\* Whoever waits for job j's promise goes on; a watcher's exception ends its tick.
Settle(j, thrown) ==
  watcher' = [w \in Watchers |->
                IF watcher[w].job # j THEN watcher[w]
                ELSE [watcher[w] EXCEPT !.job = 0, !.todo = IF thrown THEN {} ELSE @]]

Saved(j) ==
  /\ Free /\ jobs[j].step = "asking"
  /\ End(j, "saved") /\ Settle(j, FALSE)
  /\ UNCHANGED <<clock, marked, count, host, skipped>>

\* Mutant: the hooks, too, leave the mark when the save has failed.
FailsMarked(j) ==
  /\ Free /\ jobs[j].step = "asking"
  /\ End(j, "failed") /\ Settle(j, TRUE)
  /\ UNCHANGED <<clock, marked, count, host, skipped>>

\* The hooks take the mark back, be it theirs or not; the watcher leaves it.
Fails(j) ==
  /\ Free /\ jobs[j].step = "asking"
  /\ End(j, "failed") /\ Settle(j, TRUE)
  /\ marked' = IF jobs[j].by = "watcher" THEN marked ELSE marked \ {jobs[j].session}
  /\ UNCHANGED <<clock, count, host, skipped>>

\* Mutant: only the first timer of a session deletes its mark.
TimerOnce(j) ==
  /\ Free /\ jobs[j].timer /\ clock >= jobs[j].began + TTL
  /\ jobs' = [jobs EXCEPT ![j].timer = FALSE]
  /\ marked' = IF \E i \in JobsOf(jobs[j].session) : i < j THEN marked
               ELSE marked \ {jobs[j].session}
  /\ UNCHANGED <<clock, count, host, watcher, skipped>>

\* A mark's timer deletes whatever mark the session has by then.
Timer(j) ==
  /\ Free /\ jobs[j].timer /\ clock >= jobs[j].began + TTL
  /\ jobs' = [jobs EXCEPT ![j].timer = FALSE]
  /\ marked' = marked \ {jobs[j].session}
  /\ UNCHANGED <<clock, count, host, watcher, skipped>>

\* Timers are punctual: nothing is overdue when the clock goes on.
Tick ==
  /\ Free /\ clock < MaxClock
  /\ \A j \in DOMAIN jobs : /\ jobs[j].timer => clock < jobs[j].began + TTL
                            /\ jobs[j].step = "asking" => clock < jobs[j].began + Abort
  /\ clock' = clock + 1
  /\ UNCHANGED <<marked, jobs, count, host, watcher, skipped>>

-----------------------------------------------------------------------------
(* The host and the two hooks. *)

\* The body both hooks share.
Hook(s, by, c, next) ==
  IF s \in marked
  THEN /\ skipped' = skipped \cup {[session |-> s, by |-> by, of |-> c, at |-> clock]}
       /\ host' = [host EXCEPT ![s] = [step |-> next, since |-> 0, job |-> 0]]
       /\ UNCHANGED <<marked, jobs>>
  ELSE /\ Begin(s, by, c)
       /\ host' = [host EXCEPT ![s] = [step |-> next, since |-> clock, job |-> Len(jobs) + 1]]
       /\ UNCHANGED skipped

\* The hook has returned, or the host waits no longer.
Returned(s) == \A j \in DOMAIN jobs :
                 host[s].job = j /\ jobs[j].step = "asking" => clock >= host[s].since + HookLimit

BeforeCompaction(s) ==
  /\ Free /\ At(s, "idle") /\ count[s] < MaxCompactions
  /\ Hook(s, "before", count[s] + 1, "before")
  /\ UNCHANGED <<clock, count, watcher>>

Compact(s) ==
  /\ Free /\ At(s, "before") /\ Returned(s)
  /\ count' = [count EXCEPT ![s] = @ + 1]
  /\ host' = [host EXCEPT ![s] = [step |-> "compacted", since |-> 0, job |-> 0]]
  /\ UNCHANGED <<clock, marked, jobs, watcher, skipped>>

AfterCompaction(s) ==
  /\ Free /\ At(s, "compacted")
  /\ Hook(s, "after", count[s], "after")
  /\ UNCHANGED <<clock, count, watcher>>

Resume(s) ==
  /\ Free /\ At(s, "after") /\ Returned(s)
  /\ host' = [host EXCEPT ![s] = [step |-> "idle", since |-> 0, job |-> 0]]
  /\ UNCHANGED <<clock, marked, jobs, count, watcher, skipped>>

\* The app-server compacts by itself: no hook is called.
CodexCompacts(s) ==
  /\ Free /\ At(s, "idle") /\ count[s] < MaxCompactions
  /\ count' = [count EXCEPT ![s] = @ + 1]
  /\ UNCHANGED <<clock, marked, jobs, host, watcher, skipped>>

-----------------------------------------------------------------------------
(* The watcher. *)

\* gateway_start, unless there is one: its first tick only learns the counts.
Start(w) ==
  /\ Free /\ \A v \in Watchers : ~watcher[v].on
  /\ ~Running(w)
  /\ watcher' = [watcher EXCEPT ![w] = [Off EXCEPT !.on = TRUE, !.seen = count]]
  /\ UNCHANGED <<clock, marked, jobs, count, host, skipped>>

\* gateway_stop: no more ticks, but one under way goes on.
Stop(w) ==
  /\ Free /\ watcher[w].on
  /\ watcher' = [watcher EXCEPT ![w].on = FALSE]
  /\ UNCHANGED <<clock, marked, jobs, count, host, skipped>>

\* A tick reads the session store ...
Look(w) ==
  LET grown == {s \in Sessions : count[s] > watcher[w].seen[s]}
  IN  /\ Free /\ watcher[w].on /\ ~Running(w) /\ grown # {}
      /\ watcher' = [watcher EXCEPT ![w].todo = {<<s, count[s]>> : s \in grown}]
      /\ UNCHANGED <<clock, marked, jobs, count, host, skipped>>

\* ... and goes through what it has read: seen first, then saved if not marked.
Visit(w, s) ==
  /\ watcher[w].job = 0
  /\ \E c \in 1..MaxCompactions :
       LET at == [watcher EXCEPT ![w].seen[s] = c,
                                 ![w].todo = @ \ {<<s, c>>}]
       IN  /\ <<s, c>> \in watcher[w].todo
           /\ IF s \in marked
              THEN watcher' = at /\ UNCHANGED <<marked, jobs>>
              ELSE /\ Begin(s, "watcher", c)
                   /\ watcher' = [at EXCEPT ![w].job =
                                    IF jobs'[Len(jobs')].step = "asking" THEN Len(jobs') ELSE 0]
  /\ UNCHANGED <<clock, count, host, skipped>>

-----------------------------------------------------------------------------
Next == \/ \E s \in Sessions : \/ BeforeCompaction(s) \/ Compact(s) \/ AfterCompaction(s)
                               \/ Resume(s) \/ CodexCompacts(s)
        \/ \E w \in Watchers : Start(w) \/ Stop(w) \/ Look(w) \/ \E s \in Sessions : Visit(w, s)
        \/ \E j \in DOMAIN jobs : Saved(j) \/ Fails(j) \/ Timer(j)
        \/ Tick

Spec == Init /\ [][Next]_vars

-----------------------------------------------------------------------------
JobType == [session : Sessions, by : {"before", "after", "watcher"}, of : 1..MaxCompactions,
            began : 0..MaxClock, failed : 0..MaxClock,
            step : Outsets \cup {"saved", "failed"}, timer : BOOLEAN]

\* The state has its type, and no mark is for ever: a timer for it is still to come.
TypeOK ==
  /\ clock \in 0..MaxClock /\ marked \subseteq Sessions /\ jobs \in Seq(JobType)
  /\ count \in [Sessions -> 0..MaxCompactions]
  /\ host \in [Sessions -> [step : {"idle", "before", "compacted", "after"},
                            since : 0..MaxClock, job : 0..Len(jobs)]]
  /\ watcher \in [Watchers -> [on : BOOLEAN, seen : [Sessions -> 0..MaxCompactions],
                               todo : SUBSET (Sessions \X (1..MaxCompactions)),
                               job : 0..Len(jobs)]]
  /\ \A s \in marked : \E j \in JobsOf(s) : jobs[j].timer

\* By time t the mark that job j set had run out, or a save of the session that was begun
\* before j had taken it away: its timer went off, or it failed.
Lost(j, t) ==
  \/ t >= jobs[j].began + TTL
  \/ \E i \in JobsOf(jobs[j].session) :
       /\ i < j
       /\ \/ jobs[i].began + TTL \in jobs[j].began..t
          \/ jobs[i].step = "failed" /\ jobs[i].failed \in jobs[j].began..t

\* A compaction is saved twice only when, by the time the second save begins, the first one's
\* mark has run out or a save begun still earlier has taken it away.
TwiceOnlyAfterExpiry ==
  \A k \in DOMAIN jobs : \A j \in JobsOf(jobs[k].session) :
    /\ j < k /\ jobs[j].of = jobs[k].of /\ {jobs[j].step, jobs[k].step} = {"saved"}
    => Lost(j, jobs[k].began)

\* A hook that finds a mark, the last to save what is being compacted among them, leaves the
\* session out only for a save of the last 120 seconds that has succeeded, is under way or
\* failed later, or that was the watcher's.
SkippedForAReason ==
  \A k \in skipped : \E j \in JobsOf(k.session) :
    /\ k.at \in jobs[j].began..(jobs[j].began + TTL)
    /\ \/ jobs[j].step \in {"asking", "saved"}
       \/ jobs[j].step = "failed" /\ (jobs[j].failed >= k.at \/ jobs[j].by = "watcher")

-----------------------------------------------------------------------------
(* The inductive invariant behind them (CompactionProofs). *)

\* Nothing is dated ahead of the clock, and no timer is overdue.
OnTime ==
  /\ \A j \in DOMAIN jobs : /\ jobs[j].began <= clock
                            /\ jobs[j].timer => clock <= jobs[j].began + TTL
  /\ \A k \in skipped : k.at \in 0..clock

\* Who has compacted has counted it; who is about to still may.
Counted == \A s \in Sessions : /\ At(s, "compacted") => count[s] >= 1
                               /\ At(s, "before") => count[s] < MaxCompactions

Saving(j) == jobs[j].step \in {"asking", "saved"}

\* A mark is that of a save whose timer is still to come, and a failed one is the watcher's.
MarkStands ==
  \A s \in marked : \E j \in JobsOf(s) :
    /\ jobs[j].timer
    /\ Saving(j) \/ (jobs[j].step = "failed" /\ jobs[j].by = "watcher")

\* A session that is being saved, or has been, is marked until the mark is lost, ...
MarkedUntilLost ==
  \A j \in DOMAIN jobs : Saving(j) /\ jobs[j].session \notin marked => Lost(j, clock)

\* ... and no other save of the session begins before.
NoneBegunBefore ==
  \A k \in DOMAIN jobs : \A j \in JobsOf(jobs[k].session) :
    j < k /\ Saving(j) => Lost(j, jobs[k].began)

IInv == /\ TypeOK /\ OnTime /\ Counted /\ MarkStands /\ MarkedUntilLost /\ NoneBegunBefore
        /\ SkippedForAReason
===============================================================================
