---------------------------- MODULE ServiceProofs ----------------------------
(***************************************************************************)
(* Theorems about the services: WorkerPool, for any workers, tasks, TTL and *)
(* bounds, and RamCache, for any keys, sizes, limits and policies.          *)
(*                                                                          *)
(* The argument for the tasks of the pool: a task is in the queue, in       *)
(* flight, about to be appended, or done, and never in two of these; so the *)
(* head of the queue is nobody's, and what a worker acks is its own.  The   *)
(* argument for its leases: a worker that has not left is not revoked, so   *)
(* the reaper takes its lease only when an entry of its own has expired,    *)
(* and the entries of a first run expire together.                          *)
(*                                                                          *)
(* The argument for the cache: the pointers thread the nodes in one         *)
(* sequence, which every operation cuts or pushes to; the walk from the     *)
(* head is that sequence, and the sequence is the queue of RecencyQueue.    *)
(* While the hand scans, the nodes whose bit it has cleared are those       *)
(* between its start and its place, so it comes to a node that was read     *)
(* only when none is left that was not.                                     *)
(***************************************************************************)
EXTENDS WorkerPool, RamCache, FiniteSetTheorems, NaturalsInduction, WellFoundedInduction, TLAPS

----------------------------------------------------------------------------
\* The worker pool.

\* The tasks of a queue; a queue that holds none twice.
Elems(s) == {s[i] : i \in 1..Len(s)}
NoRepeat(s) == \A i, j \in 1..Len(s) : s[i] = s[j] => i = j

\* The queue holds a task once, and none that is in flight.
QueueIsSound ==
  /\ ready \in Seq(Tasks)
  /\ NoRepeat(ready)
  /\ Queued \cap inflight = {}

\* Where a worker has a task in hand; where it is at work.
Carrying == Holding \cup {"append"}
Working == Places \ {"off", "grant"}

\* A task is pending, or about to be appended, or done; and with one worker.
TasksAreOnce ==
  /\ \A w \in Workers : pc[w] \in Holding => cur[w] \in inflight
  /\ \A w \in Workers : pc[w] = "append" =>
       cur[w] \in Tasks \ (Outstanding \cup reported) /\ \A o \in outcomes : o.task # cur[w]
  /\ Outstanding \cap reported = {} /\ \A o \in outcomes : o.task \notin Outstanding
  /\ \A v, w \in Workers : v # w /\ pc[v] \in Carrying /\ pc[w] \in Carrying => cur[v] # cur[w]
  /\ OneOutcomePerTask

\* Workers run only in a run, and a status is set before it is appended.
RunsAreClosed ==
  /\ ~inRun => AllOff /\ outcomes = {}
  /\ inRun => runs > 0
  /\ \A w \in Workers : /\ pc[w] = "verify" => status[w] \in {"pass", "fail"}
                        /\ pc[w] \in {"ack", "append"} => status[w] # "none"

\* A worker's lease is its own while it works, and over when it is off.
LeasesAreTheirs ==
  \A w \in Workers : /\ pc[w] \in Working => w \notin revoked
                     /\ pc[w] = "off" => w \in revoked \/ leases[w] = Reaper!NoLease

\* The leases of a first run expire together, and go only when they have.
FirstRunExpiresAtOnce ==
  /\ runs = 0 => heap = {}
  /\ runs = 1 =>
       /\ \A e \in heap : e.expiry = runNow + LeaseTtl
       /\ \A w \in Workers : pc[w] \in Working =>
            \/ leases[w] = runNow + LeaseTtl
            \/ leases[w] = Reaper!NoLease /\ runNow + LeaseTtl <= now

BooksInv == TypeOK /\ QueueIsSound /\ TasksAreOnce /\ RunsAreClosed
LeasesInv == LeasesAreTheirs /\ FirstRunExpiresAtOnce /\ RejectedOnlyExpired

\* The inductive invariant.
IInv == BooksInv /\ LeasesInv

----------------------------------------------------------------------------
\* enqueue appends a task that the queue does not hold.
LEMMA AppendAdds ==
  ASSUME NEW s \in Seq(Tasks), NoRepeat(s), NEW t \in Tasks, t \notin Elems(s)
  PROVE  /\ Append(s, t) \in Seq(Tasks) /\ NoRepeat(Append(s, t))
         /\ Elems(Append(s, t)) = Elems(s) \cup {t}
<1>1. /\ Append(s, t) \in Seq(Tasks) /\ Len(Append(s, t)) = Len(s) + 1 /\ Len(s) \in Nat
      /\ \A i \in 1..Len(s) : Append(s, t)[i] = s[i]
      /\ Append(s, t)[Len(s) + 1] = t
  OBVIOUS
<1> QED BY <1>1 DEF NoRepeat, Elems

\* claim takes the head, which the rest of the queue does not hold.
LEMMA TailDropsHead ==
  ASSUME NEW s \in Seq(Tasks), NoRepeat(s), s # <<>>
  PROVE  /\ Head(s) \in Elems(s)
         /\ Tail(s) \in Seq(Tasks) /\ NoRepeat(Tail(s))
         /\ Elems(Tail(s)) = Elems(s) \ {Head(s)}
<1>1. /\ Len(s) \in Nat \ {0} /\ Head(s) = s[1]
      /\ Tail(s) \in Seq(Tasks) /\ Len(Tail(s)) = Len(s) - 1
      /\ \A i \in 1..Len(s) - 1 : Tail(s)[i] = s[i + 1]
  OBVIOUS
<1>2. NoRepeat(Tail(s)) BY <1>1 DEF NoRepeat
<1>3. Elems(Tail(s)) = {s[i] : i \in 2..Len(s)}
  <2>1. ASSUME NEW x \in Elems(Tail(s)) PROVE x \in {s[i] : i \in 2..Len(s)}
    BY <1>1 DEF Elems
  <2>2. ASSUME NEW i \in 2..Len(s) PROVE s[i] \in Elems(Tail(s))
    <3>1. i - 1 \in 1..Len(s) - 1 /\ Tail(s)[i - 1] = s[i] BY <1>1
    <3> QED BY <1>1, <3>1 DEF Elems
  <2> QED BY <2>1, <2>2
<1> QED BY <1>1, <1>2, <1>3 DEF NoRepeat, Elems

\* A grant: the lease of one worker, and its heap entry, end LeaseTtl after `at`.
LEMMA Granted ==
  ASSUME Reaper!ReaperTypeOK, NEW w \in Workers, NEW at \in Nat, Reaper!Grant(w, LeaseTtl, at)
  PROVE  /\ Reaper!ReaperTypeOK'
         /\ revoked' = revoked \ {w}
         /\ leases'[w] = at + LeaseTtl /\ \A v \in Workers \ {w} : leases'[v] = leases[v]
         /\ \A e \in heap' : e \in heap \/ e.expiry = at + LeaseTtl
<1>1. at + LeaseTtl \in Nat BY PoolAssumption
<1> QED BY <1>1 DEF Reaper!ReaperTypeOK, Reaper!Grant, Reaper!Entry

\* A worker on its way out is revoked, and nothing else changes.
LEMMA Revoked ==
  ASSUME Reaper!ReaperTypeOK, NEW w \in Workers, Reaper!Revoke(w)
  PROVE  Reaper!ReaperTypeOK' /\ revoked' = revoked \cup {w} /\ UNCHANGED <<heap, leases, seq>>
BY DEF Reaper!ReaperTypeOK, Reaper!Revoke

\* A reap takes the lease of a worker only if it is revoked or some entry of the
\* heap has expired.
LEMMA Reaped ==
  ASSUME Reaper!ReaperTypeOK, Reaper!Reap(now)
  PROVE  /\ Reaper!ReaperTypeOK' /\ heap' \subseteq heap /\ revoked' = revoked
         /\ \A w \in Workers :
              \/ leases'[w] = leases[w]
              \/ /\ leases'[w] = Reaper!NoLease
                 /\ w \in revoked \/ \E e \in heap : e.expiry <= now
BY DEF Reaper!ReaperTypeOK, Reaper!Reap, Reaper!ReapBy, Reaper!Popped, Reaper!ExpiredEntries,
       Reaper!RevokedEntries

\* No step of a worker, of run() or of a caller puts a task in two places: queue.py
\* and pool.py.
LEMMA BooksStep == BooksInv /\ [Next]_vars => BooksInv'
<1> SUFFICES ASSUME BooksInv, [Next]_vars PROVE BooksInv' OBVIOUS
<1>0. /\ Queued = Elems(ready) /\ Queued' = Elems(ready')
      /\ ready' = ready => Queued' = Queued
  BY DEF Queued, Elems
<1> USE PoolAssumption, <1>0
    DEF BooksInv, TypeOK, QueueIsSound, TasksAreOnce, RunsAreClosed, OneOutcomePerTask, Holding,
        Carrying, Places, Statuses, Outstanding, AllOff, Goto, Report,
        vars, reaperVars, queueVars, runVars
<1>1. CASE Tick
  BY <1>1 DEF Tick, Reaper!ReaperTypeOK
\* A task enqueued is in none of the places: message ids are fresh.
<1>2. ASSUME NEW t \in Tasks, Enqueue(t) PROVE BooksInv'
  BY <1>2, AppendAdds DEF Enqueue, Accounted, Reaper!ReaperTypeOK
\* A run starts when the last one is over, so no outcome is lost.
<1>3. CASE StartRun
  BY <1>3 DEF StartRun, Reaper!ReaperTypeOK
<1>4. CASE EndRun
  <2> USE <1>4 DEF EndRun, Reaper!ReaperTypeOK
  <2>1. reported' \subseteq Tasks
    <3>1. \A o \in outcomes : o.task \in Tasks OBVIOUS
    <3> QED BY <3>1
  <2>2. TypeOK' BY <2>1
  <2>3. QueueIsSound' /\ TasksAreOnce' /\ RunsAreClosed' OBVIOUS
  <2> QED BY <2>2, <2>3
<1>5. ASSUME NEW w \in Workers, TakeLease(w) PROVE BooksInv'
  BY <1>5, Granted DEF TakeLease
\* The head of the queue is nobody's and not in flight.
<1>6. ASSUME NEW w \in Workers, Claim(w) PROVE BooksInv'
  BY <1>6, TailDropsHead DEF Claim, Reaper!ReaperTypeOK
<1>7. ASSUME NEW w \in Workers, ClaimEnds(w) PROVE BooksInv'
  BY <1>7 DEF ClaimEnds, Reaper!ReaperTypeOK
\* A task delivered to a claim that raises is in flight and with nobody.
<1>16. ASSUME NEW w \in Workers, ClaimRaises(w) PROVE BooksInv'
  <2>1. CASE UNCHANGED queueVars
    BY <1>16, <2>1 DEF ClaimRaises, Reaper!ReaperTypeOK
  <2>2. CASE ready # <<>> /\ ready' = Tail(ready) /\ inflight' = inflight \cup {Head(ready)}
    BY <1>16, <2>2, TailDropsHead DEF ClaimRaises, Reaper!ReaperTypeOK
  <2> QED BY <1>16, <2>1, <2>2 DEF ClaimRaises
<1>8. ASSUME NEW w \in Workers, CheckLease(w) PROVE BooksInv'
  BY <1>8 DEF CheckLease, Reaper!ReaperTypeOK
<1>9. ASSUME NEW w \in Workers, RunTask(w) PROVE BooksInv'
  BY <1>9 DEF RunTask, Reaper!ReaperTypeOK
<1>10. ASSUME NEW w \in Workers, Verify(w) PROVE BooksInv'
  BY <1>10 DEF Verify, Reaper!ReaperTypeOK
\* The ack takes the worker's own task out of flight; its outcome is still to come.
<1>11. ASSUME NEW w \in Workers, Ack(w) PROVE BooksInv'
  BY <1>11 DEF Ack, Reaper!ReaperTypeOK
\* A task about to be appended has no outcome yet.
<1>12. ASSUME NEW w \in Workers, AppendOutcome(w) PROVE BooksInv'
  <2>1. [task |-> cur[w], status |-> status[w]] \in [task : Tasks, status : Statuses \ {"none"}]
    BY <1>12 DEF AppendOutcome
  <2> QED BY <1>12, <2>1 DEF AppendOutcome, Reaper!ReaperTypeOK
<1>13. ASSUME NEW w \in Workers, Exit(w) PROVE BooksInv'
  BY <1>13, Revoked DEF Exit
<1>14. CASE Reap
  BY <1>14, Reaped DEF Reap
<1>15. CASE UNCHANGED vars
  BY <1>15 DEF Reaper!ReaperTypeOK
<1> QED BY <1>1, <1>2, <1>3, <1>4, <1>5, <1>6, <1>7, <1>8, <1>9, <1>10, <1>11, <1>12, <1>13, <1>14,
           <1>15, <1>16 DEF Next, WorkerStep

\* No worker that is at work is revoked, and the leases of a first run go only when
\* they have expired: lease.py under pool.py.
LEMMA LeasesStep == BooksInv /\ LeasesInv /\ [Next]_vars => LeasesInv'
<1> SUFFICES ASSUME BooksInv, LeasesInv, [Next]_vars PROVE LeasesInv' OBVIOUS
<1>0. TypeOK /\ RunsAreClosed /\ Reaper!ReaperTypeOK BY DEF BooksInv, TypeOK
<1> USE PoolAssumption, <1>0
    DEF LeasesInv, LeasesAreTheirs, FirstRunExpiresAtOnce, RejectedOnlyExpired, Working, Places,
        TypeOK, vars, reaperVars, queueVars, runVars, Goto, Report, Reaper!NoLease
<1>1. CASE Tick
  BY <1>1 DEF Tick
<1>2. ASSUME NEW t \in Tasks, Enqueue(t) PROVE LeasesInv'
  BY <1>2 DEF Enqueue
<1>3. CASE StartRun
  BY <1>3 DEF StartRun, RunsAreClosed, AllOff
<1>4. CASE EndRun
  BY <1>4 DEF EndRun
\* The lease of a first run ends LeaseTtl after it began, like all others.
<1>5. ASSUME NEW w \in Workers, TakeLease(w) PROVE LeasesInv'
  <2>1. runs > 0 BY <1>5 DEF TakeLease, RunsAreClosed, AllOff
  <2> QED BY <1>5, <2>1, Granted DEF TakeLease
<1>6. ASSUME NEW w \in Workers, Claim(w) PROVE LeasesInv'
  BY <1>6 DEF Claim
<1>7. ASSUME NEW w \in Workers, ClaimEnds(w) PROVE LeasesInv'
  BY <1>7 DEF ClaimEnds
<1>16. ASSUME NEW w \in Workers, ClaimRaises(w) PROVE LeasesInv'
  BY <1>16 DEF ClaimRaises
\* A worker not revoked is turned away only when the reaper took its lease.
<1>8. ASSUME NEW w \in Workers, CheckLease(w) PROVE LeasesInv'
  BY <1>8 DEF CheckLease, Reaper!IsValid
<1>9. ASSUME NEW w \in Workers, RunTask(w) PROVE LeasesInv'
  BY <1>9 DEF RunTask
<1>10. ASSUME NEW w \in Workers, Verify(w) PROVE LeasesInv'
  BY <1>10 DEF Verify, RunsAreClosed
<1>11. ASSUME NEW w \in Workers, Ack(w) PROVE LeasesInv'
  BY <1>11 DEF Ack
<1>12. ASSUME NEW w \in Workers, AppendOutcome(w) PROVE LeasesInv'
  BY <1>12 DEF AppendOutcome
<1>13. ASSUME NEW w \in Workers, Exit(w) PROVE LeasesInv'
  BY <1>13, Revoked DEF Exit
\* What the reaper takes of a worker at work has expired, as it is not revoked.
<1>14. CASE Reap
  BY <1>14, Reaped DEF Reap
<1>15. CASE UNCHANGED vars
  BY <1>15
<1> QED BY <1>1, <1>2, <1>3, <1>4, <1>5, <1>6, <1>7, <1>8, <1>9, <1>10, <1>11, <1>12, <1>13, <1>14,
           <1>15, <1>16 DEF Next, WorkerStep

\* The invariant is one.
LEMMA InductiveInvariant == Spec => []IInv
<1>1. Init => IInv
  <2> SUFFICES ASSUME Init PROVE IInv OBVIOUS
  <2> USE PoolAssumption DEF Init, Holding, Carrying, Working, Places, Statuses
  <2>1. Queued = {} /\ ready \in Seq(Tasks) BY DEF Queued
  <2>2. TypeOK
    <3>1. Reaper!ReaperTypeOK BY DEF Reaper!ReaperInit, Reaper!ReaperTypeOK, Reaper!NoLease
    <3>2. raising \in Failings /\ inRun \in BOOLEAN BY DEF Failings
    <3>3. /\ now \in 0..MaxTime /\ runs \in 0..MaxRuns /\ runNow \in 0..MaxTime
          /\ pc \in [Workers -> Places] /\ cur \in [Workers -> Tasks \cup {NoTask}]
          /\ status \in [Workers -> Statuses]
      OBVIOUS
    <3> QED BY <2>1, <3>1, <3>2, <3>3 DEF TypeOK
  <2>3. QueueIsSound /\ TasksAreOnce /\ RunsAreClosed
    BY <2>1
       DEF QueueIsSound, NoRepeat, TasksAreOnce, RunsAreClosed, AllOff, Outstanding, OneOutcomePerTask
  <2>4. LeasesInv
    BY
       DEF LeasesInv, LeasesAreTheirs, FirstRunExpiresAtOnce, RejectedOnlyExpired,
           Reaper!ReaperInit,
           Reaper!NoLease
  <2> QED BY <2>2, <2>3, <2>4 DEF IInv, BooksInv
<1>2. IInv /\ [Next]_vars => IInv' BY BooksStep, LeasesStep DEF IInv
<1> QED BY <1>1, <1>2, PTL DEF Spec

\* Queue, workers and outcomes agree (BooksAgree): no task is with two workers, and
\* none is worked on twice.
THEOREM BooksAlwaysAgree == Spec => []BooksAgree
<1>1. IInv => BooksAgree
  BY DEF IInv, BooksInv, BooksAgree, ClaimsAreDisjoint, QueueIsSound, TasksAreOnce, Carrying
<1> QED BY <1>1, InductiveInvariant, PTL

\* A worker that has left holds no valid lease (_worker's finally).
THEOREM LeasesEndWithWorkers == Spec => []LeaseEndsWithWorker
<1>1. IInv => LeaseEndsWithWorker
  BY DEF IInv, LeasesInv, LeasesAreTheirs, LeaseEndsWithWorker, Reaper!IsValid
<1> QED BY <1>1, InductiveInvariant, PTL

\* In the first run only a lease that has expired turns its worker away (_run_one).
THEOREM OnlyExpiredAreRejected == Spec => []RejectedOnlyExpired
BY InductiveInvariant, PTL DEF IInv, LeasesInv

\* A task enqueued stays queued, in flight, about to be reported, or reported, but for
\* an ack over Redis that raises (queue.py, pool.py).
THEOREM NothingEverVanishes == Spec => NothingVanishes
<1> DEFINE Kept == \A t \in Tasks : t \in Accounted => (t \in Accounted)' \/ AckIsUnanswered(t)
<1>1. IInv /\ [Next]_vars => [Kept]_vars
  <2> SUFFICES ASSUME IInv, Next, NEW t \in Tasks, t \in Accounted
               PROVE  t \in Accounted' \/ AckIsUnanswered(t)
    OBVIOUS
  <2>0. TypeOK /\ QueueIsSound /\ TasksAreOnce /\ RunsAreClosed /\ Reaper!ReaperTypeOK
    BY DEF IInv, BooksInv, TypeOK
  <2> USE <2>0 DEF TypeOK, Accounted, Outstanding, Goto, Report, vars, reaperVars, queueVars, runVars
  <2>1. CASE Tick BY <2>1 DEF Tick, Queued
  <2>2. ASSUME NEW u \in Tasks, Enqueue(u) PROVE t \in Accounted'
    <3>1. Queued = Elems(ready) /\ Queued' = Elems(ready') BY DEF Queued, Elems
    <3> QED BY <2>2, <3>1, AppendAdds DEF Enqueue, QueueIsSound
  <2>3. CASE StartRun BY <2>3 DEF StartRun, Queued, RunsAreClosed, AllOff
  <2>4. CASE EndRun BY <2>4 DEF EndRun, Queued
  <2>5. ASSUME NEW w \in Workers, WorkerStep(w) PROVE t \in Accounted' \/ AckIsUnanswered(t)
    <3>1. CASE TakeLease(w) BY <3>1 DEF TakeLease, Queued
    <3>2. CASE Claim(w)
      <4>1. Queued = Elems(ready) /\ Queued' = Elems(ready') BY DEF Queued, Elems
      <4> QED BY <3>2, <4>1, TailDropsHead DEF Claim, QueueIsSound
    <3>3. CASE ClaimEnds(w) BY <3>3 DEF ClaimEnds, Queued
    <3>10. CASE ClaimRaises(w)
      <4>1. Queued = Elems(ready) /\ Queued' = Elems(ready') BY DEF Queued, Elems
      <4> QED BY <3>10, <4>1, TailDropsHead DEF ClaimRaises, QueueIsSound
    <3>4. CASE CheckLease(w) BY <3>4 DEF CheckLease, Queued
    <3>5. CASE RunTask(w) BY <3>5 DEF RunTask, Queued
    <3>6. CASE Verify(w) BY <3>6 DEF Verify, Queued
    <3>7. CASE Ack(w)
      <4>1. UNCHANGED <<ready, cur, reported, outcomes>> /\ Queued' = Queued
        BY <3>7 DEF Ack, Queued
      <4>2. CASE pc'[w] = "append" /\ inflight' = inflight \ {cur[w]}
        <5>1. \A v \in Workers \ {w} : pc'[v] = pc[v] BY <3>7 DEF Ack
        <5>2. pc[w] = "ack" BY <3>7 DEF Ack
        <5> QED BY <4>1, <4>2, <5>1, <5>2
      <4>3. CASE pc'[w] = "exit" /\ inflight' \in {inflight, inflight \ {cur[w]}}
        <5>1. pc[w] = "ack" /\ "ack" \in raising /\ \A v \in Workers \ {w} : pc'[v] = pc[v]
          BY <3>7, <4>3 DEF Ack
        <5>2. CASE t = cur[w] BY <4>3, <5>1, <5>2 DEF AckIsUnanswered
        <5>3. CASE t # cur[w] BY <4>1, <4>3, <5>1, <5>3
        <5> QED BY <5>2, <5>3
      <4> QED BY <3>7, <4>2, <4>3 DEF Ack
    <3>8. CASE AppendOutcome(w)
      <4> DEFINE new == [task |-> cur[w], status |-> status[w]]
      <4>1. outcomes' = outcomes \cup {new} /\ new.task = cur[w] BY <3>8 DEF AppendOutcome
      <4>2. cur[w] \in {o.task : o \in outcomes'} BY <4>1
      <4>3. \A v \in Workers \ {w} : pc'[v] = pc[v] BY <3>8 DEF AppendOutcome
      <4> HIDE DEF new
      <4> QED BY <3>8, <4>1, <4>2, <4>3 DEF AppendOutcome, Queued
    <3>9. CASE Exit(w) BY <3>9 DEF Exit, Queued
    <3> QED BY <2>5, <3>1, <3>2, <3>3, <3>4, <3>5, <3>6, <3>7, <3>8, <3>9, <3>10 DEF WorkerStep
  <2>6. CASE Reap BY <2>6 DEF Reap, Queued
  <2> QED BY <2>1, <2>2, <2>3, <2>4, <2>5, <2>6 DEF Next
<1> QED BY <1>1, InductiveInvariant, PTL DEF Spec, NothingVanishes

\* When no call raises, a task in flight is in the hands of a worker: it claimed the task and
\* has not acked it.
FlightIsHeld == raising = {} => \A t \in inflight : \E w \in Workers : pc[w] \in Holding /\ cur[w] = t

LEMMA FlightStep == BooksInv /\ FlightIsHeld /\ [Next]_vars => FlightIsHeld'
<1> SUFFICES ASSUME BooksInv, FlightIsHeld, [Next]_vars, raising' = {}, NEW t \in inflight'
             PROVE  \E w \in Workers : pc'[w] \in Holding /\ cur'[w] = t
  BY DEF FlightIsHeld
<1>0. /\ raising = {} /\ raising' = raising
      /\ t \in inflight => \E w \in Workers : pc[w] \in Holding /\ cur[w] = t
      /\ pc \in [Workers -> Places] /\ cur \in [Workers -> Tasks \cup {NoTask}]
  <2>1. raising' = raising
    BY DEF Next, WorkerStep, Tick, Enqueue, StartRun, EndRun, TakeLease, Claim, ClaimEnds, ClaimRaises,
           CheckLease,
           RunTask, Verify, Ack, AppendOutcome, Exit, Reap, vars, runVars
  <2> QED
    BY <2>1 DEF FlightIsHeld, BooksInv, TypeOK
<1>1. CASE Tick \/ EndRun \/ Reap \/ (\E u \in Tasks : Enqueue(u)) \/ UNCHANGED vars
  <2>1. UNCHANGED <<inflight, pc, cur>>
    BY <1>1 DEF Tick, EndRun, Reap, Enqueue, vars, queueVars
  <2> QED
    BY <1>0, <2>1
\* Nobody holds a task between runs.
<1>2. CASE StartRun
  <2>1. inflight' = inflight /\ ~inRun
    BY <1>2 DEF StartRun, queueVars
  <2>2. \A w \in Workers : pc[w] = "off"
    BY <2>1 DEF BooksInv, RunsAreClosed, AllOff
  <2> QED
    BY <1>0, <2>1, <2>2 DEF Holding
<1>3. ASSUME NEW w \in Workers, Claim(w) PROVE \E v \in Workers : pc'[v] \in Holding /\ cur'[v] = t
  <2>1. CASE t = Head(ready)
    BY <1>0, <1>3, <2>1 DEF Claim, Goto, Holding
  <2>2. CASE t # Head(ready)
    <3>1. PICK v \in Workers : pc[v] \in Holding /\ cur[v] = t
      BY <1>0, <1>3, <2>2 DEF Claim
    <3>2. v # w
      BY <1>3, <3>1 DEF Claim, Holding
    <3> QED
      BY <1>0, <1>3, <3>1, <3>2 DEF Claim, Goto
  <2> QED
    BY <2>1, <2>2
\* Nothing raises.
<1>7. ASSUME NEW w \in Workers, ClaimRaises(w) PROVE FALSE
  BY <1>0, <1>7 DEF ClaimRaises
\* The worker that acks takes its own task out of flight, and nobody else held that.
<1>4. ASSUME NEW w \in Workers, Ack(w) PROVE \E v \in Workers : pc'[v] \in Holding /\ cur'[v] = t
  <2>1. inflight' = inflight \ {cur[w]} /\ pc' = [pc EXCEPT ![w] = "append"] /\ cur' = cur
    BY <1>0, <1>4 DEF Ack, Goto
  <2>2. PICK v \in Workers : pc[v] \in Holding /\ cur[v] = t
    BY <1>0, <2>1
  <2>3. v # w
    BY <2>1, <2>2
  <2> QED
    BY <1>0, <2>1, <2>2, <2>3
<1>5. ASSUME NEW w \in Workers, TakeLease(w) \/ ClaimEnds(w) \/ AppendOutcome(w) \/ Exit(w)
      PROVE  \E v \in Workers : pc'[v] \in Holding /\ cur'[v] = t
  <2>1. /\ UNCHANGED <<inflight, cur>> /\ pc[w] \notin Holding
        /\ \A v \in Workers \ {w} : pc'[v] = pc[v]
    BY <1>0, <1>5 DEF TakeLease, ClaimEnds, AppendOutcome, Exit, Goto, Holding, queueVars
  <2> QED
    BY <1>0, <2>1
<1>6. ASSUME NEW w \in Workers, CheckLease(w) \/ RunTask(w) \/ Verify(w)
      PROVE  \E v \in Workers : pc'[v] \in Holding /\ cur'[v] = t
  <2>1. /\ UNCHANGED <<inflight, cur>> /\ pc'[w] \in Holding
        /\ \A v \in Workers \ {w} : pc'[v] = pc[v]
    BY <1>0, <1>6 DEF CheckLease, RunTask, Verify, Goto, Holding, queueVars
  <2> QED
    BY <1>0, <2>1
<1> QED
  BY <1>1, <1>2, <1>3, <1>4, <1>5, <1>6, <1>7 DEF Next, WorkerStep

\* When no call raises, nothing is in flight between runs: run() of pool.py comes back only
\* after every task that was claimed is acked.
THEOREM RunsLeaveNothingInFlight == Spec => [](raising = {} /\ ~inRun => inflight = {})
<1>1. Init => FlightIsHeld
  BY DEF Init, FlightIsHeld
<1>2. IInv /\ FlightIsHeld => (raising = {} /\ ~inRun => inflight = {})
  BY DEF IInv, BooksInv, RunsAreClosed, AllOff, FlightIsHeld, Holding
<1>3. IInv /\ FlightIsHeld /\ [Next]_vars => FlightIsHeld'
  BY FlightStep DEF IInv
<1> QED
  BY <1>1, <1>2, <1>3, InductiveInvariant, PTL DEF Spec

\* A grant brings the entry of its lease, and an entry that is popped takes the lease with it.
LEMMA CoveredStep ==
  ASSUME Reaper!ReaperTypeOK, Reaper!HeapCoversLeases,
         \/ \E w \in Workers, at \in Nat : Reaper!Grant(w, LeaseTtl, at)
         \/ \E w \in Workers : Reaper!Revoke(w)
         \/ Reaper!Reap(now)
         \/ UNCHANGED reaperVars
  PROVE  Reaper!HeapCoversLeases'
<1> SUFFICES ASSUME NEW v \in Workers, leases'[v] # Reaper!NoLease, v \notin revoked'
             PROVE  \E e \in heap' : e.id = v /\ e.expiry = leases'[v]
  BY DEF Reaper!HeapCoversLeases
<1>0. /\ leases \in [Workers -> Nat \cup {Reaper!NoLease}]
      /\ leases[v] # Reaper!NoLease /\ v \notin revoked =>
           \E e \in heap : e.id = v /\ e.expiry = leases[v]
  BY DEF Reaper!ReaperTypeOK, Reaper!HeapCoversLeases
<1>1. ASSUME NEW w \in Workers, NEW at \in Nat, Reaper!Grant(w, LeaseTtl, at)
      PROVE  \E e \in heap' : e.id = v /\ e.expiry = leases'[v]
  <2> DEFINE new == [id |-> w, expiry |-> at + LeaseTtl, seq |-> seq]
  <2>1. /\ heap' = heap \cup {new} /\ revoked' = revoked \ {w}
        /\ leases' = [leases EXCEPT ![w] = at + LeaseTtl]
    BY <1>1 DEF Reaper!Grant
  <2>2. CASE v = w
    <3>1. new \in heap' /\ new.id = v /\ new.expiry = leases'[v]
      BY <1>0, <2>1, <2>2
    <3> QED
      BY <3>1
  <2>3. CASE v # w
    <3>1. leases'[v] = leases[v] /\ v \notin revoked /\ heap \subseteq heap'
      BY <1>0, <2>1, <2>3
    <3> QED
      BY <1>0, <3>1
  <2> QED
    BY <2>2, <2>3
<1>2. ASSUME NEW w \in Workers, Reaper!Revoke(w) PROVE \E e \in heap' : e.id = v /\ e.expiry = leases'[v]
  BY <1>0, <1>2 DEF Reaper!Revoke
\* What is popped of an id takes its lease with it.
<1>3. CASE Reaper!Reap(now)
  <2> DEFINE popped == Reaper!Popped(Reaper!ExpiredEntries(now) \cup Reaper!RevokedEntries)
  <2>1. /\ heap' = heap \ popped /\ revoked' = revoked
        /\ leases'[v] = IF \E e \in popped : e.id = v THEN Reaper!NoLease ELSE leases[v]
    BY <1>0, <1>3 DEF Reaper!Reap, Reaper!ReapBy
  <2> HIDE DEF popped
  <2> QED
    BY <1>0, <2>1
<1>4. CASE UNCHANGED reaperVars
  BY <1>0, <1>4 DEF reaperVars
<1> QED
  BY <1>1, <1>2, <1>3, <1>4

\* The lease of a worker has the entry of its own expiry in the heap, unless it is revoked, so
\* the reaper of the pool finds each lease that it has to end: through later runs, whose leases
\* are granted at the `now` of their run, and reaps at any time.
THEOREM PoolLeasesAreReachable == Spec => []Reaper!HeapCoversLeases
<1>1. Init => Reaper!HeapCoversLeases
  BY DEF Init, Reaper!ReaperInit, Reaper!HeapCoversLeases, Reaper!NoLease
<1>2. IInv /\ Reaper!HeapCoversLeases /\ [Next]_vars => Reaper!HeapCoversLeases'
  <2> SUFFICES ASSUME IInv, Reaper!HeapCoversLeases, [Next]_vars PROVE Reaper!HeapCoversLeases'
    OBVIOUS
  <2>1. Reaper!ReaperTypeOK /\ runNow \in Nat
    BY PoolAssumption DEF IInv, BooksInv, TypeOK
  <2>2. ASSUME NEW w \in Workers, TakeLease(w) PROVE Reaper!HeapCoversLeases'
    BY <2>1, <2>2, CoveredStep DEF TakeLease
  <2>3. ASSUME NEW w \in Workers, Exit(w) PROVE Reaper!HeapCoversLeases'
    BY <2>1, <2>3, CoveredStep DEF Exit
  <2>4. CASE Reap
    BY <2>1, <2>4, CoveredStep DEF Reap
  <2>5. CASE UNCHANGED reaperVars
    BY <2>1, <2>5, CoveredStep
  <2>6. ASSUME NEW w \in Workers, WorkerStep(w), ~TakeLease(w), ~Exit(w) PROVE UNCHANGED reaperVars
    BY <2>6 DEF WorkerStep, Claim, ClaimEnds, ClaimRaises, CheckLease, RunTask, Verify, Ack, AppendOutcome, reaperVars
  <2>7. CASE Tick \/ (\E t \in Tasks : Enqueue(t)) \/ StartRun \/ EndRun \/ UNCHANGED vars
    BY <2>5, <2>7 DEF Tick, Enqueue, StartRun, EndRun, vars, reaperVars
  <2> QED
    BY <2>2, <2>3, <2>4, <2>5, <2>6, <2>7 DEF Next
<1> QED
  BY <1>1, <1>2, InductiveInvariant, PTL DEF Spec

----------------------------------------------------------------------------
\* The RAM cache.

\* What a walk or a scan does step by step, and what a fold does element by element,
\* is proved by induction: the least position, or a smallest set, where it would fail.
LEMMA LeastPosition ==
  ASSUME NEW T \in SUBSET Nat, T # {}
  PROVE  \E n \in T : \A m \in T : n <= m
<1>1. PICK n \in T : \A m \in T : ~(<<m, n>> \in OpToRel(<, Nat))
  BY NatLessThanWellFounded, WFMin
<1>2. ASSUME NEW m \in T PROVE n <= m
  <2>1. ~(m < n)
    BY <1>1 DEF OpToRel
  <2> QED
    BY <2>1
<1> QED
  BY <1>2

\* A family of subsets of a finite set has a smallest one.
LEMMA SmallestSet ==
  ASSUME NEW S, IsFiniteSet(S), NEW F \in SUBSET SUBSET S, F # {}
  PROVE  \E T \in F : \A U \in F : U \subseteq T => U = T
<1>1. F \subseteq FiniteSubsetsOf(S)
  BY FS_FiniteSubsetsOfFinite
<1>2. PICK T \in F : \A U \in F : ~(<<U, T>> \in StrictSubsetOrdering(S))
  BY <1>1, FS_StrictSubsetOrderingWellFounded, WFMin
<1>3. ASSUME NEW U \in F, U \subseteq T PROVE U = T
  BY <1>2, <1>3 DEF StrictSubsetOrdering
<1> QED
  BY <1>3

\* What holds of position 1, and of each after the one before it, holds of all.
LEMMA PositionInduction ==
  ASSUME NEW n \in Nat, NEW S, \A i \in 1..n : (i = 1 \/ i - 1 \in S) => i \in S
  PROVE  1..n \subseteq S
<1> DEFINE T == {i \in 1..n : i \notin S}
<1> SUFFICES ASSUME T # {} PROVE FALSE
  OBVIOUS
<1>1. T \in SUBSET Nat
  OBVIOUS
<1>2. PICK i \in T : \A j \in T : i <= j
  BY <1>1, LeastPosition
<1>3. i \in 1..n /\ i \notin S /\ i # 1
  OBVIOUS
<1>4. i - 1 \in 1..n /\ ~(i <= i - 1)
  BY <1>3
<1>5. i - 1 \in S
  BY <1>2, <1>4
<1> QED
  BY <1>3, <1>5

----------------------------------------------------------------------------
\* Sums.  The fold takes the elements of a set in the order of CHOOSE; the sum is the
\* same in any order.
Chosen(s) == CHOOSE x \in s : TRUE

\* it is the table of partial sums of f over the sets in D.
SumsOver(it, f, D) == it = [s \in D |-> IF s = {} THEN 0 ELSE f[Chosen(s)] + it[s \ {Chosen(s)}]]

SmallSets(S, n) == {s \in SUBSET S : Cardinality(s) <= n}

\* There is such a table, up to any number of elements ...
LEMMA TableExists ==
  ASSUME NEW f, NEW S, IsFiniteSet(S)
  PROVE  \E it : SumsOver(it, f, SUBSET S)
<1> DEFINE P(n) == \E it : SumsOver(it, f, SmallSets(S, n))
           N == Cardinality(S)
           Q == {i \in 1..(N + 1) : P(i - 1)}
<1>1. N \in Nat
  BY FS_CardinalityType
<1>2. \A s \in SUBSET S : IsFiniteSet(s) /\ Cardinality(s) \in Nat /\ Cardinality(s) <= N
  BY FS_Subset, FS_CardinalityType
<1>3. P(0)
  <2> DEFINE it == [s \in SmallSets(S, 0) |-> 0]
  <2>1. \A s \in SmallSets(S, 0) : s = {}
    BY <1>2, FS_EmptySet DEF SmallSets
  <2>2. SumsOver(it, f, SmallSets(S, 0))
    BY <2>1 DEF SumsOver
  <2> QED
    BY <2>2
<1>4. ASSUME NEW n \in Nat, P(n) PROVE P(n + 1)
  <2>1. PICK old : SumsOver(old, f, SmallSets(S, n))
    BY <1>4
  <2> DEFINE it == [s \in SmallSets(S, n + 1) |->
                      IF s \in SmallSets(S, n) THEN old[s] ELSE f[Chosen(s)] + old[s \ {Chosen(s)}]]
  <2>2. ASSUME NEW s \in SmallSets(S, n + 1), s # {}
        PROVE  /\ s \ {Chosen(s)} \in SmallSets(S, n) /\ s \ {Chosen(s)} \in SmallSets(S, n + 1)
    <3>1. Chosen(s) \in s
      BY <2>2 DEF Chosen
    <3>2. IsFiniteSet(s) /\ Cardinality(s) \in Nat /\ Cardinality(s) <= n + 1
      BY <1>2 DEF SmallSets
    <3>3. Cardinality(s \ {Chosen(s)}) = Cardinality(s) - 1
      BY <3>1, <3>2, FS_RemoveElement
    <3>4. Cardinality(s \ {Chosen(s)}) <= n /\ Cardinality(s \ {Chosen(s)}) <= n + 1
      BY <3>2, <3>3
    <3> QED
      BY <3>4 DEF SmallSets
  <2>3. ASSUME NEW s \in SmallSets(S, n + 1)
        PROVE  it[s] = IF s = {} THEN 0 ELSE f[Chosen(s)] + it[s \ {Chosen(s)}]
    <3>1. CASE s \in SmallSets(S, n)
      <4>1. old[s] = IF s = {} THEN 0 ELSE f[Chosen(s)] + old[s \ {Chosen(s)}]
        BY <2>1, <3>1 DEF SumsOver
      <4> QED
        BY <2>2, <3>1, <4>1
    <3>2. CASE s \notin SmallSets(S, n)
      <4>1. s # {}
        BY <1>2, <3>2, FS_EmptySet DEF SmallSets
      <4> QED
        BY <2>2, <3>2, <4>1
    <3> QED
      BY <3>1, <3>2
  <2>4. SumsOver(it, f, SmallSets(S, n + 1))
    <3> HIDE DEF it
    <3>1. it = [s \in SmallSets(S, n + 1) |-> it[s]]
      BY DEF it
    <3> QED
      BY <2>3, <3>1 DEF SumsOver
  <2> QED
    BY <2>4
<1>5. P(N)
  <2>1. \A i \in 1..(N + 1) : (i = 1 \/ i - 1 \in Q) => i \in Q
    <3> SUFFICES ASSUME NEW i \in 1..(N + 1), i = 1 \/ i - 1 \in Q PROVE P(i - 1)
      OBVIOUS
    <3> HIDE DEF P
    <3>1. CASE i = 1
      BY <1>3, <3>1
    <3>2. CASE i - 1 \in Q
      <4>1. (i - 1) - 1 \in Nat /\ ((i - 1) - 1) + 1 = i - 1 /\ P((i - 1) - 1)
        BY <1>1, <3>2
      <4>2. P(((i - 1) - 1) + 1)
        BY <1>4, <4>1
      <4> QED
        BY <4>1, <4>2
    <3> QED
      BY <3>1, <3>2
  <2> HIDE DEF P
  <2>2. 1..(N + 1) \subseteq Q
    <3> HIDE DEF Q
    <3> QED
      BY <1>1, <2>1, PositionInduction
  <2>3. N + 1 \in 1..(N + 1) /\ (N + 1) - 1 = N
    BY <1>1
  <2> QED
    BY <2>2, <2>3
<1>6. SmallSets(S, N) = SUBSET S
  BY <1>2 DEF SmallSets
<1> QED
  BY <1>5, <1>6

\* ... and only one.
LEMMA TablesAgree ==
  ASSUME NEW f, NEW g, NEW S, NEW T, IsFiniteSet(S), NEW a, NEW b,
         SumsOver(a, f, SUBSET S), SumsOver(b, g, SUBSET T), \A x \in S : f[x] = g[x]
  PROVE  \A U \in SUBSET S : U \in SUBSET T => a[U] = b[U]
<1> DEFINE F == {U \in SUBSET S : U \in SUBSET T /\ a[U] # b[U]}
<1> SUFFICES ASSUME F # {} PROVE FALSE
  OBVIOUS
<1>1. PICK U \in F : \A V \in F : V \subseteq U => V = U
  <2>1. F \in SUBSET SUBSET S
    OBVIOUS
  <2> HIDE DEF F
  <2> QED
    BY <2>1, SmallestSet
<1>2. /\ a[U] = IF U = {} THEN 0 ELSE f[Chosen(U)] + a[U \ {Chosen(U)}]
      /\ b[U] = IF U = {} THEN 0 ELSE g[Chosen(U)] + b[U \ {Chosen(U)}]
  BY DEF SumsOver
<1>3. U # {} /\ U \in SUBSET S /\ U \in SUBSET T
  BY <1>2
<1>4. Chosen(U) \in U
  BY <1>3 DEF Chosen
<1>5. a[U \ {Chosen(U)}] = b[U \ {Chosen(U)}]
  BY <1>1, <1>3, <1>4
<1> QED
  BY <1>2, <1>3, <1>4, <1>5

\* it holds the sums of f over S and its subsets.
SumsOf(it, f, S) == SumsOver(it, f, SUBSET S) /\ \A U \in SUBSET S : SumFunctionOnSet(f, U) = it[U]

\* The fold of SumFunctionOnSet is one such table.
LEMMA SumIsTable ==
  ASSUME NEW f, NEW S, IsFiniteSet(S)
  PROVE  \E it : SumsOf(it, f, S)
<1> DEFINE Table(U) == CHOOSE it : SumsOver(it, f, SUBSET U)
<1>1. ASSUME NEW U \in SUBSET S PROVE SumsOver(Table(U), f, SUBSET U) /\ SumFunctionOnSet(f, U) = Table(U)[U]
  <2>1. IsFiniteSet(U)
    BY FS_Subset
  <2>2. SumsOver(Table(U), f, SUBSET U)
    BY <2>1, TableExists
  <2>3. SumFunctionOnSet(f, U) = Table(U)[U]
    BY DEF SumFunctionOnSet, FoldFunctionOnSet, MapThenFoldSet, SumsOver, Chosen
  <2> QED
    BY <2>2, <2>3
<1> HIDE DEF Table
<1>2. ASSUME NEW U \in SUBSET S PROVE Table(U)[U] = Table(S)[U]
  <2>1. IsFiniteSet(U)
    BY FS_Subset
  <2>2. SumsOver(Table(U), f, SUBSET U) /\ SumsOver(Table(S), f, SUBSET S)
    BY <1>1
  <2>3. \A V \in SUBSET U : V \in SUBSET S => Table(U)[V] = Table(S)[V]
    BY <2>1, <2>2, TablesAgree
  <2> QED
    BY <2>3
<1>3. SumsOf(Table(S), f, S)
  BY <1>1, <1>2 DEF SumsOf
<1> QED
  BY <1>3

\* A sum over no element, ...
LEMMA SumOfNone == ASSUME NEW f PROVE SumFunctionOnSet(f, {}) = 0
<1>1. PICK it : SumsOf(it, f, {})
  BY SumIsTable, FS_EmptySet
<1> QED
  BY <1>1 DEF SumsOf, SumsOver

\* ... over all but one, ...
LEMMA SumWithout ==
  ASSUME NEW S, IsFiniteSet(S), NEW D, S \subseteq D, NEW f \in [D -> Nat]
  PROVE  /\ SumFunctionOnSet(f, S) \in Nat
         /\ \A x \in S : SumFunctionOnSet(f, S) = f[x] + SumFunctionOnSet(f, S \ {x})
<1>1. PICK it : SumsOf(it, f, S)
  BY SumIsTable
<1>2. ASSUME NEW U \in SUBSET S, U # {}
      PROVE  Chosen(U) \in U /\ it[U] = f[Chosen(U)] + it[U \ {Chosen(U)}]
  BY <1>1, <1>2 DEF SumsOf, SumsOver, Chosen
<1>3. it[{}] = 0
  BY <1>1 DEF SumsOf, SumsOver
<1>4. ASSUME NEW U \in SUBSET S PROVE it[U] \in Nat
  <2> DEFINE F == {V \in SUBSET S : it[V] \notin Nat}
  <2> SUFFICES ASSUME F # {} PROVE FALSE
    OBVIOUS
  <2>1. PICK V \in F : \A W \in F : W \subseteq V => W = V
    <3>1. F \in SUBSET SUBSET S
      OBVIOUS
    <3> HIDE DEF F
    <3> QED
      BY <3>1, SmallestSet
  <2>2. V # {}
    BY <1>3
  <2>3. Chosen(V) \in V /\ it[V] = f[Chosen(V)] + it[V \ {Chosen(V)}]
    BY <1>2, <2>2
  <2>4. it[V \ {Chosen(V)}] \in Nat /\ f[Chosen(V)] \in Nat
    BY <2>1, <2>3
  <2> QED
    BY <2>3, <2>4
<1>5. ASSUME NEW U \in SUBSET S PROVE \A x \in U : it[U] = f[x] + it[U \ {x}]
  <2> DEFINE F == {V \in SUBSET S : \E x \in V : it[V] # f[x] + it[V \ {x}]}
  <2> SUFFICES ASSUME F # {} PROVE FALSE
    OBVIOUS
  <2>1. PICK V \in F : \A W \in F : W \subseteq V => W = V
    <3>1. F \in SUBSET SUBSET S
      OBVIOUS
    <3> HIDE DEF F
    <3> QED
      BY <3>1, SmallestSet
  <2>2. PICK x \in V : it[V] # f[x] + it[V \ {x}]
    OBVIOUS
  <2> DEFINE c == Chosen(V)
  <2>3. c \in V /\ it[V] = f[c] + it[V \ {c}] /\ c # x
    BY <1>2, <2>2
  <2> HIDE DEF c
  <2>4. it[V \ {c}] = f[x] + it[(V \ {c}) \ {x}]
    <3>1. V \ {c} \notin F /\ V \ {c} \in SUBSET S /\ x \in V \ {c}
      BY <2>1, <2>2, <2>3
    <3> QED
      BY <3>1
  <2>5. it[V \ {x}] = f[c] + it[(V \ {x}) \ {c}]
    <3>1. V \ {x} \notin F /\ V \ {x} \in SUBSET S /\ c \in V \ {x}
      BY <2>1, <2>2, <2>3
    <3> QED
      BY <3>1
  <2>6. (V \ {c}) \ {x} = (V \ {x}) \ {c}
    OBVIOUS
  <2>7. f[c] \in Nat /\ f[x] \in Nat /\ it[(V \ {x}) \ {c}] \in Nat
    BY <1>4, <2>2, <2>3
  <2>8. it[V] = f[c] + (f[x] + it[(V \ {x}) \ {c}])
    BY <2>3, <2>4, <2>6
  <2>9. f[x] + it[V \ {x}] = f[c] + (f[x] + it[(V \ {x}) \ {c}])
    BY <2>5, <2>7
  <2> QED
    BY <2>2, <2>8, <2>9
<1> QED
  BY <1>1, <1>4, <1>5 DEF SumsOf

\* ... and of functions that agree.
LEMMA SumsAgree ==
  ASSUME NEW S, IsFiniteSet(S), NEW f, NEW g, \A x \in S : f[x] = g[x]
  PROVE  SumFunctionOnSet(f, S) = SumFunctionOnSet(g, S)
<1>1. PICK a : SumsOf(a, f, S)
  BY SumIsTable
<1>2. PICK b : SumsOf(b, g, S)
  BY SumIsTable
<1>3. a[S] = b[S]
  BY <1>1, <1>2, TablesAgree DEF SumsOf
<1>4. SumFunctionOnSet(f, S) = a[S]
  BY <1>1 DEF SumsOf
<1>5. SumFunctionOnSet(g, S) = b[S]
  BY <1>2 DEF SumsOf
<1> QED
  BY <1>3, <1>4, <1>5

----------------------------------------------------------------------------
\* The list.  Its thread s is the sequence of nodes that the pointers of l link, newest
\* first, each node of N once.
Linked(l, s, n, N) ==
  /\ s \in [1..n -> N]
  /\ \A i, j \in 1..n : s[i] = s[j] => i = j
  /\ \A k \in N : \E i \in 1..n : s[i] = k
  /\ l.head = IF n = 0 THEN Nil ELSE s[1]
  /\ l.tail = IF n = 0 THEN Nil ELSE s[n]
  /\ \A i \in 1..n : /\ l.newer[s[i]] = IF i = 1 THEN Nil ELSE s[i - 1]
                     /\ l.older[s[i]] = IF i = n THEN Nil ELSE s[i + 1]

Lists == [newer : Pointers, older : Pointers,
          head : Keys \cup {Nil}, tail : Keys \cup {Nil}, hand : Keys \cup {Nil}]

Pushed(s, n, k) == [i \in 1..(n + 1) |-> IF i = 1 THEN k ELSE s[i - 1]]
Cut(s, n, p) == [i \in 1..(n - 1) |-> IF i < p THEN s[i] ELSE s[i + 1]]

\* The operations yield lists.
LEMMA ListTypes ==
  ASSUME NEW l \in Lists, NEW k \in Keys
  PROVE  /\ LinkAtHead(l, k) \in Lists /\ Unlink(l, k) \in Lists
         /\ LinkAtHead(l, k).hand = l.hand
         /\ Unlink(l, k).hand = IF k = l.hand THEN l.newer[k] ELSE l.hand
<1>1. /\ l.newer \in Pointers /\ l.older \in Pointers
      /\ l.head \in Keys \cup {Nil} /\ l.tail \in Keys \cup {Nil} /\ l.hand \in Keys \cup {Nil}
  BY DEF Lists
<1>2. /\ \A j \in Keys : l.newer[j] \in Keys \cup {Nil} /\ l.older[j] \in Keys \cup {Nil}
  BY <1>1 DEF Pointers
<1>3. LinkAtHead(l, k) \in Lists /\ LinkAtHead(l, k).hand = l.hand
  <2> DEFINE x == [j \in Keys |-> IF j = k THEN Nil ELSE IF j = l.head THEN k ELSE l.newer[j]]
  <2>1. x \in Pointers
    BY <1>2 DEF Pointers
  <2>2. l.head \in Keys \cup {Nil} /\ Or(l.tail, k) \in Keys \cup {Nil}
    BY <1>1 DEF Or
  <2> DEFINE Push(y, a, b) == [l EXCEPT !.older[k] = a, !.newer = y, !.head = k, !.tail = b]
  <2>3. LinkAtHead(l, k) = Push(x, l.head, Or(l.tail, k))
    BY DEF LinkAtHead, Lists
  <2>4. \A y \in Pointers : \A a, b \in Keys \cup {Nil} : Push(y, a, b) \in Lists /\ Push(y, a, b).hand = l.hand
    BY DEF Lists, Pointers
  <2> HIDE DEF x, Push
  <2>5. Push(x, l.head, Or(l.tail, k)) \in Lists /\ Push(x, l.head, Or(l.tail, k)).hand = l.hand
    BY <2>1, <2>2, <2>4
  <2> QED
    BY <2>3, <2>5
<1>4. Unlink(l, k) \in Lists /\ Unlink(l, k).hand = IF k = l.hand THEN l.newer[k] ELSE l.hand
  <2>1. Unlink(l, k).newer \in Pointers
    BY <1>2 DEF Pointers, Unlink
  <2>2. Unlink(l, k).older \in Pointers
    BY <1>2 DEF Pointers, Unlink
  <2>3. /\ Unlink(l, k).head \in Keys \cup {Nil} /\ Unlink(l, k).tail \in Keys \cup {Nil}
        /\ Unlink(l, k).hand \in Keys \cup {Nil}
        /\ Unlink(l, k).hand = IF k = l.hand THEN l.newer[k] ELSE l.hand
    BY <1>1, <1>2 DEF Unlink
  <2>4. Unlink(l, k) = [newer |-> Unlink(l, k).newer, older |-> Unlink(l, k).older,
                        head |-> Unlink(l, k).head, tail |-> Unlink(l, k).tail, hand |-> Unlink(l, k).hand]
    BY DEF Unlink
  <2> QED
    BY <2>1, <2>2, <2>3, <2>4 DEF Lists
<1> QED
  BY <1>3, <1>4

\* A new node goes to the front.
LEMMA LinkPushes ==
  ASSUME NEW l \in Lists, NEW s, NEW n \in Nat, NEW N, N \subseteq Keys, Linked(l, s, n, N),
         NEW k \in Keys \ N
  PROVE  Linked(LinkAtHead(l, k), Pushed(s, n, k), n + 1, N \cup {k})
<1> DEFINE m == LinkAtHead(l, k)
           t == Pushed(s, n, k)
<1>1. /\ s \in [1..n -> N] /\ \A i \in 1..n : s[i] \in Keys /\ s[i] # k /\ s[i] # Nil
      /\ \A i, j \in 1..n : s[i] = s[j] => i = j
      /\ \A x \in N : \E i \in 1..n : s[i] = x
  BY CacheAssumption DEF Linked
<1>2. /\ l.head = IF n = 0 THEN Nil ELSE s[1]
      /\ l.tail = IF n = 0 THEN Nil ELSE s[n]
      /\ \A i \in 1..n : /\ l.newer[s[i]] = IF i = 1 THEN Nil ELSE s[i - 1]
                         /\ l.older[s[i]] = IF i = n THEN Nil ELSE s[i + 1]
  BY DEF Linked
<1>3. /\ \A j \in Keys : m.newer[j] = IF j = k THEN Nil ELSE IF j = l.head THEN k ELSE l.newer[j]
      /\ \A j \in Keys : m.older[j] = IF j = k THEN l.head ELSE l.older[j]
      /\ m.head = k /\ m.tail = IF l.tail # Nil THEN l.tail ELSE k
  BY DEF LinkAtHead, Lists, Pointers, Or
<1> HIDE DEF m
<1>4. /\ t[1] = k
      /\ \A i \in 1..(n + 1) : i # 1 => i - 1 \in 1..n /\ t[i] = s[i - 1]
      /\ \A i \in 1..n : i + 1 \in 1..(n + 1) /\ t[i + 1] = s[i]
      /\ t \in [1..(n + 1) -> N \cup {k}]
  <2>1. \A i \in 1..(n + 1) : i # 1 => i - 1 \in 1..n
    OBVIOUS
  <2>2. \A i \in 1..n : i + 1 \in 1..(n + 1) /\ i + 1 # 1 /\ (i + 1) - 1 = i
    OBVIOUS
  <2> QED
    BY <1>1, <2>1, <2>2 DEF Pushed
<1> HIDE DEF t
<1>5. \A i, j \in 1..(n + 1) : t[i] = t[j] => i = j
  <2> SUFFICES ASSUME NEW i \in 1..(n + 1), NEW j \in 1..(n + 1), t[i] = t[j] PROVE i = j
    OBVIOUS
  <2>1. (i = 1) <=> (j = 1)
    BY <1>1, <1>4
  <2>2. CASE i # 1 /\ j # 1
    <3>1. i - 1 \in 1..n /\ j - 1 \in 1..n /\ s[i - 1] = s[j - 1]
      BY <1>4, <2>2
    <3>2. i - 1 = j - 1
      BY <1>1, <3>1
    <3> QED
      BY <3>2
  <2> QED
    BY <2>1, <2>2
<1>6. \A x \in N \cup {k} : \E i \in 1..(n + 1) : t[i] = x
  <2>1. 1 \in 1..(n + 1)
    OBVIOUS
  <2> QED
    BY <1>1, <1>4, <2>1
<1>7. m.head = t[1] /\ m.tail = t[n + 1]
  <2>1. CASE n = 0
    BY <1>2, <1>3, <1>4, <2>1
  <2>2. CASE n # 0
    <3>1. n \in 1..n
      BY <2>2
    <3> QED
      BY <1>1, <1>2, <1>3, <1>4, <2>2, <3>1
  <2> QED
    BY <2>1, <2>2
<1>8. ASSUME NEW i \in 1..(n + 1)
      PROVE  /\ m.newer[t[i]] = IF i = 1 THEN Nil ELSE t[i - 1]
             /\ m.older[t[i]] = IF i = n + 1 THEN Nil ELSE t[i + 1]
  <2>1. CASE i = 1
    <3>1. m.newer[t[i]] = Nil /\ m.older[t[i]] = l.head
      BY <1>3, <1>4, <2>1
    <3>2. CASE n = 0
      BY <1>2, <2>1, <3>1, <3>2
    <3>3. CASE n # 0
      <4>1. 1 \in 1..n /\ i # n + 1
        BY <2>1, <3>3
      <4>2. t[i + 1] = s[1]
        BY <1>4, <2>1, <4>1
      <4> QED
        BY <1>2, <2>1, <3>1, <3>3, <4>1, <4>2
    <3> QED
      BY <3>2, <3>3
  <2>2. CASE i # 1
    <3> DEFINE j == i - 1
    <3>1. j \in 1..n /\ t[i] = s[j] /\ (i = n + 1 <=> j = n) /\ i = j + 1
      BY <1>4, <2>2
    <3> HIDE DEF j
    <3>2. /\ m.newer[s[j]] = IF s[j] = l.head THEN k ELSE l.newer[s[j]]
          /\ m.older[s[j]] = l.older[s[j]]
      BY <1>1, <1>3, <3>1
    <3>3. m.newer[s[j]] = t[j]
      <4>1. CASE j = 1
        <5>1. s[j] = l.head
          BY <1>2, <3>1, <4>1
        <5> QED
          BY <1>4, <3>2, <4>1, <5>1
      <4>2. CASE j # 1
        <5>1. 1 \in 1..n /\ n # 0 /\ j - 1 \in 1..n
          BY <3>1, <4>2
        <5>2. s[j] # l.head
          BY <1>1, <1>2, <3>1, <4>2, <5>1
        <5>3. t[j] = s[j - 1]
          BY <1>4, <3>1, <4>2
        <5> QED
          BY <1>2, <3>1, <3>2, <4>2, <5>2, <5>3
      <4> QED
        BY <4>1, <4>2
    <3>4. m.older[s[j]] = IF j = n THEN Nil ELSE t[i + 1]
      <4>1. CASE j = n
        BY <1>2, <3>1, <3>2, <4>1
      <4>2. CASE j # n
        <5>1. j + 1 \in 1..n
          BY <3>1, <4>2
        <5>2. t[(j + 1) + 1] = s[j + 1]
          BY <1>4, <5>1
        <5> QED
          BY <1>2, <3>1, <3>2, <4>2, <5>2
      <4> QED
        BY <4>1, <4>2
    <3>5. t[i - 1] = t[j]
      BY <3>1
    <3> QED
      BY <2>2, <3>1, <3>3, <3>4, <3>5
  <2> QED
    BY <2>1, <2>2
<1>9. /\ \A i, j \in 1..(n + 1) : t[i] = t[j] => i = j
      /\ m.head = IF n + 1 = 0 THEN Nil ELSE t[1]
      /\ m.tail = IF n + 1 = 0 THEN Nil ELSE t[n + 1]
  BY <1>5, <1>7
<1>10. Linked(m, t, n + 1, N \cup {k})
  BY <1>4, <1>6, <1>8, <1>9 DEF Linked
<1> QED
  BY <1>10 DEF m, t

\* A node that leaves closes the gap, wherever it is.
LEMMA UnlinkCuts ==
  ASSUME NEW l \in Lists, NEW s, NEW n \in Nat, NEW N, N \subseteq Keys, Linked(l, s, n, N),
         NEW p \in 1..n
  PROVE  Linked(Unlink(l, s[p]), Cut(s, n, p), n - 1, N \ {s[p]})
<1> DEFINE k == s[p]
           m == Unlink(l, k)
           t == Cut(s, n, p)
<1>1. /\ s \in [1..n -> N] /\ \A i \in 1..n : s[i] \in Keys /\ s[i] # Nil
      /\ \A i, j \in 1..n : s[i] = s[j] => i = j
      /\ \A x \in N : \E i \in 1..n : s[i] = x
  <2>1. /\ s \in [1..n -> N] /\ \A i, j \in 1..n : s[i] = s[j] => i = j
        /\ \A x \in N : \E i \in 1..n : s[i] = x
    BY DEF Linked
  <2>2. \A i \in 1..n : s[i] \in Keys
    BY <2>1
  <2> QED
    BY <2>1, <2>2, CacheAssumption
<1>2. /\ l.head = s[1] /\ l.tail = s[n] /\ 1 \in 1..n /\ n \in 1..n /\ n # 0
      /\ \A i \in 1..n : /\ l.newer[s[i]] = IF i = 1 THEN Nil ELSE s[i - 1]
                         /\ l.older[s[i]] = IF i = n THEN Nil ELSE s[i + 1]
  BY DEF Linked
<1>3. /\ \A j \in Keys : m.newer[j] = IF j = k THEN Nil ELSE IF j = l.older[k] THEN l.newer[k] ELSE l.newer[j]
      /\ \A j \in Keys : m.older[j] = IF j = k THEN Nil ELSE IF j = l.newer[k] THEN l.older[k] ELSE l.older[j]
      /\ m.head = IF l.newer[k] = Nil THEN l.older[k] ELSE l.head
      /\ m.tail = IF l.older[k] = Nil THEN l.newer[k] ELSE l.tail
  BY DEF Unlink
<1> HIDE DEF m
\* The neighbours of k.
<1>4. /\ p > 1 => p - 1 \in 1..n /\ l.newer[k] = s[p - 1]
      /\ p = 1 => l.newer[k] = Nil
      /\ p < n => p + 1 \in 1..n /\ l.older[k] = s[p + 1]
      /\ p = n => l.older[k] = Nil
  BY <1>2
\* Pointers of the nodes that stay.
<1>5. ASSUME NEW i \in 1..n, i # p
      PROVE  /\ m.newer[s[i]] = IF i = p + 1 THEN (IF p = 1 THEN Nil ELSE s[p - 1])
                                ELSE IF i = 1 THEN Nil ELSE s[i - 1]
             /\ m.older[s[i]] = IF i = p - 1 THEN (IF p = n THEN Nil ELSE s[p + 1])
                                ELSE IF i = n THEN Nil ELSE s[i + 1]
  <2>1. s[i] # k /\ s[i] # Nil /\ s[i] \in Keys
    BY <1>1, <1>5
  <2>2. s[i] = l.older[k] <=> i = p + 1
    BY <1>1, <1>4, <2>1
  <2>3. s[i] = l.newer[k] <=> i = p - 1
    BY <1>1, <1>4, <2>1
  <2>4. /\ l.newer[k] = IF p = 1 THEN Nil ELSE s[p - 1]
        /\ l.older[k] = IF p = n THEN Nil ELSE s[p + 1]
    BY <1>2
  <2> QED
    BY <1>2, <1>3, <2>1, <2>2, <2>3, <2>4
<1>6. /\ t \in [1..(n - 1) -> N \ {k}]
      /\ \A i \in 1..(n - 1) : t[i] = IF i < p THEN s[i] ELSE s[i + 1]
  <2>1. \A i \in 1..(n - 1) : t[i] = IF i < p THEN s[i] ELSE s[i + 1]
    BY DEF Cut
  <2>2. \A i \in 1..(n - 1) : i \in 1..n /\ i + 1 \in 1..n /\ (i < p => i # p) /\ (~(i < p) => i + 1 # p)
    BY <1>2
  <2>3. \A i \in 1..(n - 1) : t[i] \in N \ {k}
    BY <1>1, <2>1, <2>2
  <2> QED
    BY <2>1, <2>3 DEF Cut
<1> HIDE DEF t, k
\* Where a position of the shorter thread was: at(i).
<1> DEFINE at(i) == IF i < p THEN i ELSE i + 1
<1>7. \A i \in 1..(n - 1) : at(i) \in 1..n /\ at(i) # p /\ t[i] = s[at(i)]
  BY <1>2, <1>6
<1>8. ASSUME NEW i \in 1..(n - 1), NEW j \in 1..(n - 1), t[i] = t[j] PROVE i = j
  <2>1. at(i) = at(j)
    BY <1>1, <1>7, <1>8
  <2> QED
    BY <1>2, <2>1
<1>9. ASSUME NEW x \in N \ {k} PROVE \E i \in 1..(n - 1) : t[i] = x
  <2>1. PICK j \in 1..n : s[j] = x
    BY <1>1
  <2>2. j # p
    BY <1>9, <2>1 DEF k
  <2>3. CASE j < p
    <3>1. j \in 1..(n - 1) /\ t[j] = s[j]
      BY <1>2, <1>6, <2>3
    <3> QED
      BY <2>1, <3>1
  <2>4. CASE p < j
    <3>1. j - 1 \in 1..(n - 1) /\ ~(j - 1 < p) /\ (j - 1) + 1 = j
      BY <1>2, <2>4
    <3>2. t[j - 1] = s[j]
      BY <1>6, <3>1
    <3> QED
      BY <2>1, <3>1, <3>2
  <2> QED
    BY <2>2, <2>3, <2>4
<1>10. m.head = IF n - 1 = 0 THEN Nil ELSE t[1]
  <2>1. CASE n = 1
    <3>1. p = 1 /\ p = n
      BY <2>1
    <3> QED
      BY <1>3, <1>4, <2>1, <3>1
  <2>2. CASE n # 1 /\ p = 1
    <3>1. 1 \in 1..(n - 1) /\ t[1] = s[2] /\ p < n /\ n - 1 # 0
      BY <1>2, <1>6, <2>2
    <3> QED
      BY <1>3, <1>4, <2>2, <3>1
  <2>3. CASE n # 1 /\ p # 1
    <3>1. 1 \in 1..(n - 1) /\ t[1] = s[1] /\ p > 1 /\ n - 1 # 0
      BY <1>2, <1>6, <2>3
    <3>2. l.newer[k] # Nil
      BY <1>1, <1>4, <3>1
    <3> QED
      BY <1>2, <1>3, <3>1, <3>2
  <2> QED
    BY <2>1, <2>2, <2>3
<1>11. m.tail = IF n - 1 = 0 THEN Nil ELSE t[n - 1]
  <2>1. CASE n = 1
    <3>1. p = 1 /\ p = n
      BY <2>1
    <3> QED
      BY <1>3, <1>4, <2>1, <3>1
  <2>2. CASE n # 1 /\ p = n
    <3>1. n - 1 \in 1..(n - 1) /\ n - 1 < p /\ p > 1 /\ n - 1 # 0
      BY <1>2, <2>2
    <3>2. t[n - 1] = s[p - 1]
      BY <1>6, <2>2, <3>1
    <3> QED
      BY <1>3, <1>4, <2>2, <3>1, <3>2
  <2>3. CASE n # 1 /\ p # n
    <3>1. n - 1 \in 1..(n - 1) /\ ~(n - 1 < p) /\ p < n /\ n - 1 # 0 /\ (n - 1) + 1 = n
      BY <1>2, <2>3
    <3>2. t[n - 1] = s[n]
      BY <1>6, <3>1
    <3>3. l.older[k] # Nil
      BY <1>1, <1>4, <3>1
    <3> QED
      BY <1>2, <1>3, <3>1, <3>2, <3>3
  <2> QED
    BY <2>1, <2>2, <2>3
<1>12. ASSUME NEW i \in 1..(n - 1)
       PROVE  /\ m.newer[t[i]] = IF i = 1 THEN Nil ELSE t[i - 1]
              /\ m.older[t[i]] = IF i = n - 1 THEN Nil ELSE t[i + 1]
  <2>1. CASE i < p
    <3>1. t[i] = s[i] /\ i \in 1..n /\ i # p /\ i # n /\ i # p + 1
      BY <1>2, <1>6, <2>1
    <3>2. /\ m.newer[s[i]] = IF i = 1 THEN Nil ELSE s[i - 1]
          /\ m.older[s[i]] = IF i = p - 1 THEN (IF p = n THEN Nil ELSE s[p + 1]) ELSE s[i + 1]
      BY <1>5, <3>1
    <3>3. i # 1 => t[i - 1] = s[i - 1]
      BY <1>6, <2>1
    <3>4. i # n - 1 => t[i + 1] = IF i = p - 1 THEN s[p + 1] ELSE s[i + 1]
      <4> SUFFICES ASSUME i # n - 1 PROVE t[i + 1] = IF i = p - 1 THEN s[p + 1] ELSE s[i + 1]
        OBVIOUS
      <4>1. i + 1 \in 1..(n - 1)
        OBVIOUS
      <4>2. t[i + 1] = IF i + 1 < p THEN s[i + 1] ELSE s[(i + 1) + 1]
        BY <1>6, <4>1
      <4>3. i = p - 1 => ~(i + 1 < p) /\ i + 1 = p
        OBVIOUS
      <4>4. i # p - 1 => i + 1 < p
        BY <2>1
      <4> QED
        BY <4>2, <4>3, <4>4
    <3>5. i = n - 1 => i = p - 1 /\ p = n
      BY <2>1
    <3>6. p = n /\ i = p - 1 => i = n - 1
      OBVIOUS
    <3> QED
      BY <3>1, <3>2, <3>3, <3>4, <3>5, <3>6
  <2>2. CASE ~(i < p)
    <3> DEFINE j == i + 1
    <3>1. t[i] = s[j] /\ j \in 1..n /\ j # p /\ j # 1 /\ j # p - 1 /\ j - 1 = i /\ (j = n <=> i = n - 1)
      BY <1>2, <1>6, <2>2
    <3>2. /\ m.newer[s[j]] = IF j = p + 1 THEN (IF p = 1 THEN Nil ELSE s[p - 1]) ELSE s[i]
          /\ m.older[s[j]] = IF j = n THEN Nil ELSE s[j + 1]
      <4> HIDE DEF j
      <4> QED
        BY <1>5, <3>1
    <3>3. i # n - 1 => t[i + 1] = s[j + 1]
      <4>1. i # n - 1 => i + 1 \in 1..(n - 1) /\ ~(i + 1 < p)
        BY <2>2
      <4> QED
        BY <1>6, <4>1
    <3>4. i = p /\ i # 1 => t[i - 1] = s[p - 1]
      BY <1>6
    <3>5. i # p => i # 1 /\ t[i - 1] = s[i]
      <4> SUFFICES ASSUME i # p PROVE i # 1 /\ t[i - 1] = s[i]
        OBVIOUS
      <4>1. i - 1 \in 1..(n - 1) /\ ~(i - 1 < p) /\ (i - 1) + 1 = i
        BY <2>2
      <4> QED
        BY <1>6, <4>1
    <3>6. j = p + 1 <=> i = p
      OBVIOUS
    <3> HIDE DEF j
    <3> QED
      BY <3>1, <3>2, <3>3, <3>4, <3>5, <3>6
  <2> QED
    BY <2>1, <2>2
<1>13. n - 1 \in Nat
  BY <1>2
<1>14. Linked(m, t, n - 1, N \ {k})
  BY <1>6, <1>8, <1>9, <1>10, <1>11, <1>12 DEF Linked
<1> QED
  BY <1>14 DEF m, t, k

\* The walk from the head meets the thread.
LEMMA WalkIsThread ==
  ASSUME NEW s, Linked(list, s, Cardinality(nodes), nodes), Cardinality(nodes) \in Nat, nodes \subseteq Keys
  PROVE  Walk = s
<1> DEFINE n == Cardinality(nodes)
           Step(w, i) == IF i = 1 THEN list.head
                         ELSE IF w[i - 1] = Nil THEN Nil ELSE list.older[w[i - 1]]
<1>1. /\ s = [i \in 1..n |-> s[i]] /\ \A i \in 1..n : s[i] # Nil
      /\ n # 0 => list.head = s[1]
      /\ \A i \in 1..n : list.older[s[i]] = IF i = n THEN Nil ELSE s[i + 1]
  BY CacheAssumption DEF Linked
<1>2. \A i \in 1..n : s[i] = Step(s, i)
  <2> SUFFICES ASSUME NEW i \in 1..n PROVE s[i] = Step(s, i)
    OBVIOUS
  <2>1. CASE i = 1
    BY <1>1, <2>1
  <2>2. CASE i # 1
    <3>1. i - 1 \in 1..n /\ i - 1 # n /\ (i - 1) + 1 = i
      BY <2>2
    <3> QED
      BY <1>1, <2>2, <3>1
  <2> QED
    BY <2>1, <2>2
<1>3. s = [i \in 1..n |-> Step(s, i)]
  <2> HIDE DEF Step, n
  <2> QED
    BY <1>1, <1>2
<1>4. Walk = CHOOSE w : w = [i \in 1..n |-> Step(w, i)]
  BY DEF Walk
<1>5. Walk = [i \in 1..n |-> Step(Walk, i)]
  <2> HIDE DEF Step, n
  <2> QED
    BY <1>3, <1>4
<1> DEFINE Same == {i \in 1..n : Walk[i] = s[i]}
<1>6. \A i \in 1..n : (i = 1 \/ i - 1 \in Same) => i \in Same
  <2> SUFFICES ASSUME NEW i \in 1..n, i = 1 \/ i - 1 \in Same PROVE Walk[i] = s[i]
    OBVIOUS
  <2>1. Walk[i] = Step(Walk, i) /\ s[i] = Step(s, i)
    BY <1>2, <1>5
  <2> QED
    BY <2>1
<1>7. 1..n \subseteq Same
  <2>1. n \in Nat
    OBVIOUS
  <2> HIDE DEF Same, n
  <2> QED
    BY <1>6, <2>1, PositionInduction
<1>8. Walk = [i \in 1..n |-> Walk[i]]
  <2> HIDE DEF Step, n
  <2> QED
    BY <1>5
<1> QED
  BY <1>1, <1>7, <1>8

----------------------------------------------------------------------------
\* The invariant.
Sound(l, N) ==
  /\ l \in Lists /\ N \subseteq Keys /\ IsFiniteSet(N)
  /\ \E s \in [1..Cardinality(N) -> N] : Linked(l, s, Cardinality(N), N)
  /\ l.hand \in N \cup {Nil}

\* What the scan has cleared so far is what lies between its start p and its place j,
\* or, once it has wrapped, all but what is still before it.
Cleared == (nodes \ visited) \ unread
Behind(s, n, p, j) ==
  \/ j <= p /\ Cleared = {s[i] : i \in (j + 1)..p}
  \/ p <= j /\ Cleared = {s[i] : i \in (1..n) \ ((p + 1)..j)}
ScanInOrder ==
  \E s \in [1..Cardinality(nodes) -> nodes] :
    /\ Linked(list, s, Cardinality(nodes), nodes)
    /\ \E p, j \in 1..Cardinality(nodes) : node = s[j] /\ Behind(s, Cardinality(nodes), p, j)

ScanIsSound ==
  lock = "scanning" =>
    Over /\ unread \subseteq nodes \ visited /\ ScanInOrder /\ (policy = "lru" => node = list.tail)

CacheInv ==
  /\ CacheTypeOK /\ Sound(list, nodes)
  /\ BytesAreCounted /\ (\A k \in Keys \ nodes : size[k] = 0)
  /\ (lock = "free" => ~Over)
  /\ (policy = "lru" => visited = {})
  /\ ScanIsSound

\* Cardinalities of a set and of the set with one element more or less.
LEMMA Counting ==
  ASSUME NEW N, IsFiniteSet(N), NEW k
  PROVE  /\ Cardinality(N) \in Nat /\ (Cardinality(N) = 0 <=> N = {})
         /\ IsFiniteSet(N \ {k}) /\ IsFiniteSet(N \cup {k})
         /\ k \in N => Cardinality(N \ {k}) = Cardinality(N) - 1
         /\ k \notin N => Cardinality(N \cup {k}) = Cardinality(N) + 1
<1>1. Cardinality(N) \in Nat /\ (Cardinality(N) = 0 <=> N = {})
  BY FS_CardinalityType, FS_EmptySet
<1>2. IsFiniteSet(N \ {k}) /\ (k \in N => Cardinality(N \ {k}) = Cardinality(N) - 1)
  BY FS_RemoveElement
<1>3. IsFiniteSet(N \cup {k}) /\ (k \notin N => Cardinality(N \cup {k}) = Cardinality(N) + 1)
  BY FS_AddElement
<1> QED
  BY <1>1, <1>2, <1>3

\* The nodes on a thread.
LEMMA LinkedRange ==
  ASSUME NEW l, NEW s, NEW n \in Nat, NEW N, Linked(l, s, n, N)
  PROVE  s \in [1..n -> N]
  BY DEF Linked

\* Each operation on the pointers keeps them sound.
LEMMA UnlinkSound ==
  ASSUME NEW l, NEW N, Sound(l, N), NEW k \in N
  PROVE  Sound(Unlink(l, k), N \ {k})
<1> DEFINE n == Cardinality(N)
<1>1. n \in Nat /\ Cardinality(N \ {k}) = n - 1 /\ IsFiniteSet(N \ {k}) /\ n # 0
  BY Counting DEF Sound
<1>2. l \in Lists /\ N \subseteq Keys /\ l.hand \in N \cup {Nil}
  BY DEF Sound
<1>3. PICK s \in [1..n -> N] : Linked(l, s, n, N)
  BY DEF Sound
<1>4. PICK p \in 1..n : s[p] = k
  BY <1>3 DEF Linked
<1>5. Linked(Unlink(l, k), Cut(s, n, p), n - 1, N \ {k})
  <2> HIDE DEF n
  <2> QED
    BY <1>1, <1>2, <1>3, <1>4, UnlinkCuts
<1>6. Unlink(l, k) \in Lists /\ Unlink(l, k).hand = IF k = l.hand THEN l.newer[k] ELSE l.hand
  BY <1>2, ListTypes
<1>7. l.newer[k] \in (N \ {k}) \cup {Nil}
  <2>1. l.newer[s[p]] = IF p = 1 THEN Nil ELSE s[p - 1]
    BY <1>3 DEF Linked
  <2>2. p # 1 => p - 1 \in 1..n /\ p - 1 # p
    BY <1>1
  <2>3. p # 1 => s[p - 1] # s[p] /\ s[p - 1] \in N
    BY <1>3, <2>2 DEF Linked
  <2> QED
    BY <1>4, <2>1, <2>3
<1>8. n - 1 \in Nat
  BY <1>1
<1>9. Cut(s, n, p) \in [1..Cardinality(N \ {k}) -> N \ {k}]
  <2>1. Cut(s, n, p) \in [1..(n - 1) -> N \ {k}]
    <3> HIDE DEF n
    <3> QED
      BY <1>5, <1>8, LinkedRange
  <2> QED
    BY <1>1, <2>1
<1>10. \E t \in [1..Cardinality(N \ {k}) -> N \ {k}] : Linked(Unlink(l, k), t, Cardinality(N \ {k}), N \ {k})
  BY <1>1, <1>5, <1>9
<1>11. Unlink(l, k).hand \in (N \ {k}) \cup {Nil}
  BY <1>2, <1>6, <1>7
<1> QED
  BY <1>1, <1>2, <1>6, <1>10, <1>11 DEF Sound

LEMMA LinkSound ==
  ASSUME NEW l, NEW N, Sound(l, N), NEW k \in Keys \ N
  PROVE  Sound(LinkAtHead(l, k), N \cup {k})
<1> DEFINE n == Cardinality(N)
<1>1. n \in Nat /\ Cardinality(N \cup {k}) = n + 1 /\ IsFiniteSet(N \cup {k}) /\ n + 1 \in Nat
  <2>1. Cardinality(N) \in Nat /\ Cardinality(N \cup {k}) = Cardinality(N) + 1 /\ IsFiniteSet(N \cup {k})
    BY Counting DEF Sound
  <2> QED
    BY <2>1
<1>2. l \in Lists /\ N \subseteq Keys /\ l.hand \in N \cup {Nil}
  BY DEF Sound
<1>3. PICK s \in [1..n -> N] : Linked(l, s, n, N)
  BY DEF Sound
<1>4. Linked(LinkAtHead(l, k), Pushed(s, n, k), n + 1, N \cup {k})
  <2> HIDE DEF n
  <2> QED
    BY <1>1, <1>2, <1>3, LinkPushes
<1>5. Pushed(s, n, k) \in [1..(n + 1) -> N \cup {k}]
  <2> HIDE DEF n
  <2> QED
    BY <1>1, <1>4, LinkedRange
<1>6. LinkAtHead(l, k) \in Lists /\ LinkAtHead(l, k).hand = l.hand
  BY <1>2, ListTypes
<1>7. \E t \in [1..Cardinality(N \cup {k}) -> N \cup {k}] :
        Linked(LinkAtHead(l, k), t, Cardinality(N \cup {k}), N \cup {k})
  BY <1>1, <1>4, <1>5
<1> QED
  BY <1>1, <1>2, <1>6, <1>7 DEF Sound

LEMMA MoveSound ==
  ASSUME NEW l, NEW N, Sound(l, N), NEW k \in N
  PROVE  Sound(MoveToHead(l, k), N)
<1>1. CASE k = l.head
  BY <1>1 DEF MoveToHead
<1>2. CASE k # l.head
  <2>1. Sound(Unlink(l, k), N \ {k})
    BY UnlinkSound
  <2>2. k \in Keys \ (N \ {k}) /\ (N \ {k}) \cup {k} = N
    BY DEF Sound
  <2>3. Sound(LinkAtHead(Unlink(l, k), k), (N \ {k}) \cup {k})
    BY <2>1, <2>2, LinkSound
  <2> QED
    BY <1>2, <2>2, <2>3 DEF MoveToHead
<1> QED
  BY <1>1, <1>2

LEMMA EmptySound == Sound(EmptyList, {})
<1>1. EmptyList \in Lists
  BY DEF EmptyList, Lists, Pointers
<1>2. IsFiniteSet({}) /\ Cardinality({}) = 0
  BY FS_EmptySet
<1>3. Linked(EmptyList, [i \in 1..0 |-> Nil], 0, {})
  BY DEF Linked, EmptyList
<1>4. [i \in 1..0 |-> Nil] \in [1..0 -> {}]
  OBVIOUS
<1> QED
  BY <1>1, <1>2, <1>3, <1>4 DEF Sound, EmptyList

LEMMA HandSound ==
  ASSUME NEW l, NEW N, Sound(l, N), NEW h \in N \cup {Nil}
  PROVE  Sound([l EXCEPT !.hand = h], N)
<1> DEFINE m == [l EXCEPT !.hand = h]
<1>1. l \in Lists /\ N \subseteq Keys /\ IsFiniteSet(N)
  BY DEF Sound
<1>2. /\ m \in Lists /\ m.hand = h /\ m.newer = l.newer /\ m.older = l.older
      /\ m.head = l.head /\ m.tail = l.tail
  BY <1>1 DEF Lists
<1> HIDE DEF m
<1>3. \A s, n : Linked(l, s, n, N) => Linked(m, s, n, N)
  BY <1>2 DEF Linked
<1>4. Sound(m, N)
  BY <1>1, <1>2, <1>3 DEF Sound
<1> QED
  BY <1>4 DEF m

\* f and g agree on N but for k, which may be missing from it.
AgreesBut(g, f, k, N) ==
  /\ IsFiniteSet(N) /\ N \subseteq Keys /\ k \in Keys
  /\ f \in [Keys -> Nat] /\ g \in [Keys -> Nat]
  /\ \A x \in N \ {k} : g[x] = f[x]
  /\ k \notin N => f[k] = 0

\* The sum of the sizes follows a value that is taken out, or replaced.
LEMMA SumReplaced ==
  ASSUME NEW g, NEW f, NEW k, NEW N, AgreesBut(g, f, k, N)
  PROVE  /\ SumFunctionOnSet(g, N \ {k}) = SumFunctionOnSet(f, N) - f[k]
         /\ SumFunctionOnSet(g, N \cup {k}) = (SumFunctionOnSet(f, N) - f[k]) + g[k]
<1>1. /\ IsFiniteSet(N) /\ N \subseteq Keys /\ k \in Keys
      /\ f \in [Keys -> Nat] /\ g \in [Keys -> Nat]
      /\ \A x \in N \ {k} : g[x] = f[x]
      /\ k \notin N => f[k] = 0
  BY DEF AgreesBut
<1> USE <1>1
<1>2. IsFiniteSet(N \ {k}) /\ IsFiniteSet(N \cup {k})
  BY Counting
<1>3. SumFunctionOnSet(g, N \ {k}) = SumFunctionOnSet(f, N \ {k})
  BY <1>2, SumsAgree
<1>4. SumFunctionOnSet(f, N \ {k}) \in Nat /\ SumFunctionOnSet(f, N) \in Nat
  <2>1. N \ {k} \subseteq Keys
    OBVIOUS
  <2> QED
    BY <1>2, <2>1, SumWithout
<1>5. SumFunctionOnSet(f, N \ {k}) = SumFunctionOnSet(f, N) - f[k]
  <2>1. CASE k \in N
    <3>1. SumFunctionOnSet(f, N) = f[k] + SumFunctionOnSet(f, N \ {k})
      BY <2>1, SumWithout
    <3>2. f[k] \in Nat
      OBVIOUS
    <3> QED
      BY <1>4, <3>1, <3>2
  <2>2. CASE k \notin N
    <3>1. N \ {k} = N
      BY <2>2
    <3>2. SumFunctionOnSet(f, N \ {k}) = SumFunctionOnSet(f, N) /\ f[k] = 0
      BY <2>2, <3>1
    <3> QED
      BY <1>4, <3>2
  <2> QED
    BY <2>1, <2>2
<1>6. SumFunctionOnSet(g, N \cup {k}) = g[k] + SumFunctionOnSet(g, N \ {k})
  <2>1. (N \cup {k}) \ {k} = N \ {k} /\ N \cup {k} \subseteq Keys /\ k \in N \cup {k}
    OBVIOUS
  <2>2. \A x \in N \cup {k} :
          SumFunctionOnSet(g, N \cup {k}) = g[x] + SumFunctionOnSet(g, (N \cup {k}) \ {x})
    BY <1>2, <2>1, SumWithout
  <2> QED
    BY <2>1, <2>2
<1>7. f[k] \in Nat /\ g[k] \in Nat
  OBVIOUS
<1> QED
  BY <1>3, <1>4, <1>5, <1>6, <1>7

----------------------------------------------------------------------------
\* The operations keep the invariant: one lemma for each action.
LEMMA TypesAre ==
  ASSUME CacheInv
  PROVE  /\ list \in Lists /\ nodes \subseteq Keys /\ IsFiniteSet(nodes) /\ Sound(list, nodes)
         /\ size \in [Keys -> Nat] /\ visited \subseteq nodes /\ policy \in Policies
         /\ bytes = SumFunctionOnSet(size, nodes) /\ bytes \in Nat
         /\ \A k \in Keys : size[k] \in Nat /\ (k \notin nodes => size[k] = 0)
         /\ node \in Keys \cup {Nil} /\ unread \subseteq Keys /\ Cardinality(nodes) \in Nat
<1>1. SumFunctionOnSet(size, nodes) \in Nat
  BY SumWithout DEF CacheInv, CacheTypeOK, Sound
<1> QED
  BY <1>1, Counting DEF CacheInv, CacheTypeOK, Sound, BytesAreCounted

\* What is left when the lock is free, or not held for a scan.
LEMMA InvOutsideScan ==
  ASSUME policy' \in Policies, Sound(list', nodes'), visited' \subseteq nodes', size' \in [Keys -> Nat],
         bytes' = SumFunctionOnSet(size', nodes'), \A k \in Keys \ nodes' : size'[k] = 0,
         lock' \in {"free", "evicting"}, node' \in Keys \cup {Nil}, unread' \subseteq Keys,
         lock' = "free" => ~Over', policy' = "lru" => visited' = {}
  PROVE  CacheInv'
<1>1. list' \in Lists /\ nodes' \subseteq Keys /\ IsFiniteSet(nodes')
  BY DEF Sound
<1>2. bytes' \in Int
  BY <1>1, SumWithout
<1>3. CacheTypeOK'
  BY <1>1, <1>2 DEF CacheTypeOK, Lists
<1>4. Sound(list, nodes)'
  BY DEF Sound
<1> QED
  BY <1>3, <1>4 DEF CacheInv, BytesAreCounted, ScanIsSound

LEMMA InitHolds == CacheInit => CacheInv
<1> SUFFICES ASSUME CacheInit PROVE CacheInv
  OBVIOUS
<1>1. Sound(list, nodes)
  BY EmptySound DEF CacheInit
<1>2. Cardinality(nodes) = 0 /\ bytes = 0 /\ SumFunctionOnSet(size, nodes) = 0
  BY FS_EmptySet, SumOfNone DEF CacheInit
<1>3. ~Over
  BY <1>2, CacheAssumption DEF Over
<1>4. CacheTypeOK
  BY <1>1 DEF CacheInit, CacheTypeOK, Sound, Lists
<1> QED
  BY <1>1, <1>2, <1>3, <1>4 DEF CacheInit, CacheInv, BytesAreCounted, ScanIsSound

LEMMA StutterKeeps == ASSUME CacheInv, UNCHANGED cacheVars PROVE CacheInv'
<1> USE DEF cacheVars
<1>1. CacheTypeOK' /\ Sound(list, nodes)' /\ BytesAreCounted' /\ Over' = Over
  BY DEF CacheInv, CacheTypeOK, Sound, BytesAreCounted, Over
<1>2. ScanIsSound'
  BY <1>1 DEF CacheInv, ScanIsSound, ScanInOrder, Behind, Cleared
<1> QED
  BY <1>1, <1>2 DEF CacheInv

LEMMA GetKeeps == ASSUME CacheInv, UNCHANGED policy, NEW k \in Keys, Get(k) PROVE CacheInv'
<1>1. k \in nodes /\ lock = "free" /\ ~Over /\ (policy = "lru" => visited = {})
  BY DEF Get, CacheInv
<1>2. Sound(list', nodes') /\ visited' \subseteq nodes' /\ (policy' = "lru" => visited' = {})
  BY <1>1, TypesAre, MoveSound DEF Get
<1>3. ~Over'
  BY <1>1 DEF Get, Over
<1> QED
  BY <1>1, <1>2, <1>3, TypesAre, InvOutsideScan DEF Get, unlocked

\* What leaves with a node, in delete and in an eviction.
LEMMA RemoveKeeps ==
  ASSUME CacheInv, NEW k \in nodes
  PROVE  LET g == [size EXCEPT ![k] = 0]
         IN  /\ Sound(Unlink(list, k), nodes \ {k})
             /\ g \in [Keys -> Nat] /\ (\A x \in Keys \ (nodes \ {k}) : g[x] = 0)
             /\ bytes - size[k] = SumFunctionOnSet(g, nodes \ {k}) /\ bytes - size[k] \in Nat
             /\ bytes - size[k] <= bytes /\ Cardinality(nodes \ {k}) <= Cardinality(nodes)
<1> DEFINE g == [size EXCEPT ![k] = 0]
<1>1. Sound(Unlink(list, k), nodes \ {k})
  BY TypesAre, UnlinkSound
<1>2. g \in [Keys -> Nat] /\ (\A x \in Keys \ (nodes \ {k}) : g[x] = 0) /\ size[k] \in Nat /\ k \in Keys
  BY TypesAre
<1>3. SumFunctionOnSet(g, nodes \ {k}) = SumFunctionOnSet(size, nodes) - size[k]
  <2>1. /\ IsFiniteSet(nodes) /\ nodes \subseteq Keys /\ size \in [Keys -> Nat]
        /\ k \in Keys /\ (k \notin nodes => size[k] = 0)
    BY TypesAre
  <2>2. AgreesBut(g, size, k, nodes)
    BY <1>2, <2>1 DEF AgreesBut
  <2> HIDE DEF g
  <2>3. /\ SumFunctionOnSet(g, nodes \ {k}) = SumFunctionOnSet(size, nodes) - size[k]
        /\ SumFunctionOnSet(g, nodes \cup {k}) = (SumFunctionOnSet(size, nodes) - size[k]) + g[k]
    BY <2>2, SumReplaced
  <2> QED
    BY <2>3
<1>4. Cardinality(nodes \ {k}) <= Cardinality(nodes)
  <2>1. Cardinality(nodes) \in Nat /\ Cardinality(nodes \ {k}) = Cardinality(nodes) - 1
    BY TypesAre, Counting
  <2> QED
    BY <2>1
<1>5. SumFunctionOnSet(g, nodes \ {k}) \in Nat
  BY <1>1, <1>2, SumWithout DEF Sound
<1> HIDE DEF g
<1>6. bytes - size[k] = SumFunctionOnSet(g, nodes \ {k}) /\ bytes - size[k] \in Nat /\ bytes - size[k] <= bytes
  BY <1>2, <1>3, <1>5, TypesAre
<1>7. /\ Sound(Unlink(list, k), nodes \ {k})
      /\ g \in [Keys -> Nat] /\ (\A x \in Keys \ (nodes \ {k}) : g[x] = 0)
  BY <1>1, <1>2
<1> QED
  BY <1>4, <1>6, <1>7 DEF g

LEMMA DeleteKeeps == ASSUME CacheInv, UNCHANGED policy, NEW k \in Keys, Delete(k) PROVE CacheInv'
<1>1. k \in nodes /\ lock = "free" /\ ~Over /\ (policy = "lru" => visited = {})
  BY DEF Delete, CacheInv
<1>2. /\ Sound(list', nodes') /\ size' \in [Keys -> Nat] /\ (\A x \in Keys \ nodes' : size'[x] = 0)
      /\ bytes' = SumFunctionOnSet(size', nodes')
      /\ bytes' \in Nat /\ bytes' <= bytes /\ Cardinality(nodes') <= Cardinality(nodes)
  BY <1>1, RemoveKeeps DEF Delete, Remove
<1>3. visited' \subseteq nodes' /\ (policy' = "lru" => visited' = {})
  BY <1>1, TypesAre DEF Delete, Remove
<1>4. ~Over'
  <2>1. /\ bytes \in Nat /\ Cardinality(nodes) \in Nat /\ Cardinality(nodes') \in Nat
        /\ MaxEntries \in Nat /\ MaxBytes \in Nat
    BY <1>2, TypesAre, FS_CardinalityType, CacheAssumption DEF Sound
  <2>2. Cardinality(nodes) <= MaxEntries /\ bytes <= MaxBytes
    BY <1>1, <2>1 DEF Over
  <2> QED
    BY <1>2, <2>1, <2>2 DEF Over
<1> QED
  BY <1>1, <1>2, <1>3, <1>4, TypesAre, InvOutsideScan DEF Delete, unlocked

LEMMA ClearKeeps == ASSUME CacheInv, UNCHANGED policy, Clear PROVE CacheInv'
<1>1. Sound(list', nodes')
  BY EmptySound DEF Clear
<1>2. Cardinality(nodes') = 0 /\ bytes' = 0 /\ SumFunctionOnSet(size', nodes') = 0
  BY FS_EmptySet, SumOfNone DEF Clear
<1>3. ~Over'
  BY <1>2, CacheAssumption DEF Over
<1>4. size' \in [Keys -> Nat] /\ (\A k \in Keys : size'[k] = 0) /\ visited' = {} /\ lock' = "free"
  BY DEF Clear, unlocked
<1> QED
  BY <1>1, <1>2, <1>3, <1>4, TypesAre, InvOutsideScan DEF Clear, unlocked

LEMMA PutKeeps ==
  ASSUME CacheInv, UNCHANGED policy, NEW k \in Keys, NEW s \in Sizes, Put(k, s)
  PROVE  CacheInv'
<1> DEFINE cleared == IF k \in nodes THEN Unlink(list, k) ELSE list
           v == IF s <= MaxBytes THEN s ELSE 0
<1>1. lock = "free" /\ ~Over /\ (policy = "lru" => visited = {}) /\ s \in Nat /\ MaxBytes \in Nat /\ v \in Nat
  BY CacheAssumption DEF Put, CacheInv
<1>2. Sound(cleared, nodes \ {k})
  <2>1. CASE k \in nodes
    BY <2>1, RemoveKeeps
  <2>2. CASE k \notin nodes
    <3>1. nodes \ {k} = nodes
      BY <2>2
    <3> QED
      BY <2>2, <3>1, TypesAre
  <2> QED
    BY <2>1, <2>2
<1>3. /\ size' = [size EXCEPT ![k] = v] /\ bytes' = (bytes - size[k]) + v
      /\ visited' = visited \ {k} /\ UNCHANGED <<node, unread>>
  BY DEF Put
<1>4. size' \in [Keys -> Nat] /\ size'[k] = v /\ \A x \in Keys \ {k} : size'[x] = size[x]
  BY <1>1, <1>3, TypesAre
<1>5. /\ SumFunctionOnSet(size', nodes \ {k}) = bytes - size[k]
      /\ SumFunctionOnSet(size', nodes \cup {k}) = (bytes - size[k]) + v
  <2> HIDE DEF v
  <2>1. /\ IsFiniteSet(nodes) /\ nodes \subseteq Keys /\ size \in [Keys -> Nat] /\ v \in Nat
        /\ k \notin nodes => size[k] = 0
    BY <1>1, TypesAre
  <2>2. AgreesBut(size', size, k, nodes)
    BY <1>4, <2>1 DEF AgreesBut
  <2>3. /\ SumFunctionOnSet(size', nodes \ {k}) = SumFunctionOnSet(size, nodes) - size[k]
        /\ SumFunctionOnSet(size', nodes \cup {k}) = (SumFunctionOnSet(size, nodes) - size[k]) + size'[k]
    BY <2>2, SumReplaced
  <2>4. SumFunctionOnSet(size, nodes) = bytes
    BY TypesAre
  <2> QED
    BY <1>4, <2>3, <2>4
<1>6. CASE s <= MaxBytes
  <2>1. /\ nodes' = nodes \cup {k} /\ list' = LinkAtHead(cleared, k) /\ lock' = "evicting"
    BY <1>6 DEF Put
  <2>2. Sound(list', nodes')
    <3>1. (nodes \ {k}) \cup {k} = nodes \cup {k} /\ k \in Keys \ (nodes \ {k})
      OBVIOUS
    <3> HIDE DEF cleared
    <3> QED
      BY <1>2, <2>1, <3>1, LinkSound
  <2>3. bytes' = SumFunctionOnSet(size', nodes')
    BY <1>3, <1>5, <2>1
  <2>4. (\A x \in Keys \ nodes' : size'[x] = 0) /\ visited' \subseteq nodes' /\ (policy' = "lru" => visited' = {})
    BY <1>1, <1>3, <1>4, <2>1, TypesAre
  <2> HIDE DEF cleared, v
  <2> QED
    BY <1>3, <1>4, <2>1, <2>2, <2>3, <2>4, TypesAre, InvOutsideScan
<1>7. CASE ~(s <= MaxBytes)
  <2>1. nodes' = nodes \ {k} /\ list' = cleared /\ lock' = "free" /\ v = 0
    BY <1>7 DEF Put
  <2>2. Sound(list', nodes')
    BY <1>2, <2>1
  <2>3. bytes - size[k] \in Int
    BY TypesAre
  <2>4. bytes' = SumFunctionOnSet(size', nodes')
    BY <1>3, <1>5, <2>1, <2>3
  <2>5. (\A x \in Keys \ nodes' : size'[x] = 0) /\ visited' \subseteq nodes' /\ (policy' = "lru" => visited' = {})
    BY <1>1, <1>3, <1>4, <2>1, TypesAre
  <2>6. ~Over'
    <3>1. /\ bytes \in Nat /\ size[k] \in Nat /\ Cardinality(nodes) \in Nat
          /\ MaxEntries \in Nat /\ MaxBytes \in Nat
      BY TypesAre, CacheAssumption
    <3>2. Cardinality(nodes') \in Nat /\ Cardinality(nodes') <= Cardinality(nodes)
      BY <2>1, TypesAre, FS_Subset, FS_CardinalityType
    <3>3. Cardinality(nodes) <= MaxEntries /\ bytes <= MaxBytes
      BY <1>1, <3>1 DEF Over
    <3>4. bytes' <= bytes /\ bytes' \in Int
      BY <1>3, <2>1, <3>1
    <3> QED
      BY <3>1, <3>2, <3>3, <3>4 DEF Over
  <2> HIDE DEF cleared, v
  <2> QED
    BY <1>3, <1>4, <2>1, <2>2, <2>4, <2>5, <2>6, TypesAre, InvOutsideScan
<1> QED
  BY <1>6, <1>7

LEMMA ReleaseKeeps == ASSUME CacheInv, UNCHANGED policy, Release PROVE CacheInv'
<1>1. ~Over' /\ (policy = "lru" => visited = {})
  BY DEF Release, Over, CacheInv
<1> QED
  BY <1>1, TypesAre, InvOutsideScan DEF Release

\* Over a limit there is a node to give up.
LEMMA OverHasNodes ==
  ASSUME CacheInv, Over
  PROVE  /\ Cardinality(nodes) \in Nat \ {0} /\ list.tail \in nodes
         /\ list.tail # Nil /\ list.hand \in nodes \cup {Nil}
         /\ \A s : Linked(list, s, Cardinality(nodes), nodes) => list.tail = s[Cardinality(nodes)]
<1> DEFINE n == Cardinality(nodes)
<1>1. n \in Nat /\ (n = 0 <=> nodes = {})
  BY TypesAre, Counting
<1>2. nodes # {}
  <2> SUFFICES ASSUME nodes = {} PROVE FALSE
    OBVIOUS
  <2>1. SumFunctionOnSet(size, nodes) = 0
    BY SumOfNone
  <2>2. bytes = 0 /\ n = 0
    BY <1>1, <2>1, TypesAre
  <2> QED
    BY <2>2, CacheAssumption DEF Over
<1>3. n \in Nat \ {0} /\ n \in 1..n
  BY <1>1, <1>2
<1>4. \E s \in [1..n -> nodes] : Linked(list, s, n, nodes)
  BY TypesAre DEF Sound
<1> HIDE DEF n
<1>5. \A s : Linked(list, s, n, nodes) => list.tail = s[n] /\ s[n] \in nodes
  BY <1>3 DEF Linked
<1>6. list.tail \in nodes /\ list.tail # Nil
  BY <1>4, <1>5, TypesAre, CacheAssumption
<1>7. list.hand \in nodes \cup {Nil}
  BY TypesAre DEF Sound
<1> QED
  BY <1>3, <1>5, <1>6, <1>7 DEF n

\* The scan starts with nothing cleared; each step clears the bit it passes; the victim leaves.
LEMMA PickVictimKeeps == ASSUME CacheInv, UNCHANGED policy, PickVictim PROVE CacheInv'
<1> DEFINE n == Cardinality(nodes)
<1>1. Over /\ UNCHANGED <<nodes, size, visited, list, bytes>>
  BY DEF PickVictim
<1>2. n \in Nat \ {0} /\ node' \in nodes /\ node' # Nil /\ (policy = "lru" => node' = list.tail)
  <2>1. n \in Nat \ {0} /\ list.tail \in nodes /\ list.tail # Nil /\ list.hand \in nodes \cup {Nil}
    BY <1>1, OverHasNodes
  <2>2. nodes \subseteq Keys /\ Nil \notin Keys
    BY TypesAre, CacheAssumption
  <2> QED
    BY <2>1, <2>2 DEF PickVictim, Or
<1>3. lock' = "scanning" /\ unread' = nodes \ visited
  BY <1>2 DEF PickVictim
<1>4. CacheTypeOK'
  BY <1>1, <1>2, <1>3, TypesAre DEF CacheInv, CacheTypeOK
<1>5. Sound(list, nodes)' /\ BytesAreCounted' /\ Over'
  BY <1>1 DEF CacheInv, Sound, BytesAreCounted, Over
<1>6. ScanInOrder'
  <2>1. PICK s \in [1..n -> nodes] : Linked(list, s, n, nodes)
    BY TypesAre DEF Sound
  <2>2. PICK p \in 1..n : node' = s[p]
    BY <1>2, <2>1 DEF Linked
  <2>3. Cleared' = {}
    BY <1>1, <1>3 DEF Cleared
  <2>4. Behind(s, n, p, p)'
    <3>1. (p + 1)..p = {} /\ p <= p
      BY <1>2
    <3> QED
      BY <2>3, <3>1 DEF Behind
  <2>5. Linked(list, s, n, nodes)'
    BY <1>1, <2>1 DEF Linked
  <2> QED
    BY <1>1, <2>1, <2>2, <2>4, <2>5 DEF ScanInOrder
<1>7. ScanIsSound'
  BY <1>1, <1>2, <1>3, <1>5, <1>6 DEF ScanIsSound
<1> QED
  BY <1>1, <1>3, <1>4, <1>5, <1>7 DEF CacheInv

LEMMA ScanKeeps == ASSUME CacheInv, UNCHANGED policy, Scan PROVE CacheInv'
<1>1. /\ lock = "scanning" /\ lock' = "scanning" /\ node \in visited /\ visited' = visited \ {node}
      /\ node' = Or(list.newer[node], list.tail)
      /\ UNCHANGED <<nodes, size, list, bytes, unread>>
  BY DEF Scan
<1>2. Over /\ unread \subseteq nodes \ visited /\ ScanInOrder /\ policy # "lru"
  BY <1>1 DEF CacheInv, ScanIsSound
<1>3. PICK n \in Nat \ {0} : n = Cardinality(nodes)
  BY <1>2, OverHasNodes
<1>4. Cleared' = Cleared \cup {node} /\ node \notin Cleared
  BY <1>1, <1>2, TypesAre DEF Cleared
<1>5. PICK s \in [1..n -> nodes] :
        /\ Linked(list, s, n, nodes)
        /\ \E p, j \in 1..n : node = s[j] /\ Behind(s, n, p, j)
  BY <1>2, <1>3 DEF ScanInOrder
<1>6. PICK p \in 1..n, j \in 1..n : node = s[j] /\ Behind(s, n, p, j)
  BY <1>5
<1>7. /\ list.newer[s[j]] = IF j = 1 THEN Nil ELSE s[j - 1]
      /\ list.tail = s[n] /\ \A i \in 1..n : s[i] \in nodes /\ s[i] # Nil
  <2>1. list.newer[s[j]] = IF j = 1 THEN Nil ELSE s[j - 1]
    BY <1>5 DEF Linked
  <2>2. list.tail = s[n]
    BY <1>3, <1>5 DEF Linked
  <2>3. \A i \in 1..n : s[i] \in nodes /\ s[i] \in Keys
    BY <1>5, TypesAre
  <2> QED
    BY <2>1, <2>2, <2>3, CacheAssumption
<1>8. \E q \in 1..n : node' = s[q] /\ Behind(s, n, p, q)'
  <2>1. CASE j <= p /\ Cleared = {s[i] : i \in (j + 1)..p}
    <3>1. Cleared' = {s[i] : i \in j..p}
      <4>1. j..p = ((j + 1)..p) \cup {j}
        BY <2>1
      <4> QED
        BY <1>4, <1>6, <2>1, <4>1
    <3>2. CASE j = 1
      <4>1. j..p = (1..n) \ ((p + 1)..n) /\ p <= n /\ n \in 1..n
        BY <1>3, <3>2
      <4>2. node' = s[n]
        BY <1>1, <1>6, <1>7, <3>2 DEF Or
      <4>3. Behind(s, n, p, n)'
        BY <3>1, <4>1 DEF Behind
      <4> QED
        BY <4>1, <4>2, <4>3
    <3>3. CASE j # 1
      <4>1. j..p = ((j - 1) + 1)..p /\ j - 1 <= p /\ j - 1 \in 1..n
        BY <1>3, <2>1, <3>3
      <4>2. node' = s[j - 1]
        BY <1>1, <1>6, <1>7, <3>3, <4>1 DEF Or
      <4>3. Behind(s, n, p, j - 1)'
        BY <3>1, <4>1 DEF Behind
      <4> QED
        BY <4>1, <4>2, <4>3
    <3> QED
      BY <3>2, <3>3
  <2>2. CASE p <= j /\ Cleared = {s[i] : i \in (1..n) \ ((p + 1)..j)}
    <3>1. j # p
      <4> SUFFICES ASSUME j = p PROVE FALSE
        OBVIOUS
      <4>1. j \in (1..n) \ ((p + 1)..j)
        OBVIOUS
      <4> QED
        BY <1>4, <1>6, <2>2, <4>1
    <3>2. p <= j - 1 /\ j - 1 \in 1..n /\ j # 1
      BY <1>3, <2>2, <3>1
    <3>3. (1..n) \ ((p + 1)..(j - 1)) = ((1..n) \ ((p + 1)..j)) \cup {j}
      BY <3>2
    <3>4. Cleared' = {s[i] : i \in (1..n) \ ((p + 1)..(j - 1))}
      BY <1>4, <1>6, <2>2, <3>3
    <3>5. node' = s[j - 1]
      BY <1>1, <1>6, <1>7, <3>2 DEF Or
    <3>6. Behind(s, n, p, j - 1)'
      BY <3>2, <3>4 DEF Behind
    <3> QED
      BY <3>2, <3>5, <3>6
  <2> QED
    BY <1>6, <2>1, <2>2 DEF Behind
<1>9. ScanInOrder'
  <2>1. Linked(list, s, n, nodes)'
    BY <1>1, <1>5 DEF Linked
  <2>2. n = Cardinality(nodes') /\ nodes' = nodes
    BY <1>1, <1>3
  <2> QED
    BY <1>1, <1>5, <1>6, <1>8, <2>1, <2>2 DEF ScanInOrder
<1>10. Over' /\ Sound(list, nodes)' /\ BytesAreCounted'
  BY <1>1, <1>2 DEF CacheInv, Over, Sound, BytesAreCounted
<1>11. ScanIsSound'
  BY <1>1, <1>2, <1>9, <1>10, TypesAre DEF ScanIsSound
<1>12. CacheTypeOK'
  <2>1. node' \in Keys \cup {Nil}
    BY <1>7, <1>8, TypesAre
  <2> QED
    BY <1>1, <2>1, TypesAre DEF CacheInv, CacheTypeOK
<1> QED
  BY <1>1, <1>2, <1>10, <1>11, <1>12 DEF CacheInv

LEMMA EvictKeeps == ASSUME CacheInv, UNCHANGED policy, Evict PROVE CacheInv'
<1> DEFINE passed == IF policy = "sieve" THEN [list EXCEPT !.hand = list.newer[node]] ELSE list
<1>1. /\ node \in nodes \ visited /\ lock' = "evicting" /\ node' = Nil /\ unread' = {}
      /\ list' = Unlink(passed, node) /\ nodes' = nodes \ {node} /\ size' = [size EXCEPT ![node] = 0]
      /\ bytes' = bytes - size[node] /\ visited' = visited
  BY DEF Evict
<1>2. Sound(passed, nodes)
  <2>1. list.newer[node] \in nodes \cup {Nil}
    <3>1. PICK s \in [1..Cardinality(nodes) -> nodes] : Linked(list, s, Cardinality(nodes), nodes)
      BY TypesAre DEF Sound
    <3>2. PICK i \in 1..Cardinality(nodes) : s[i] = node
      BY <1>1, <3>1 DEF Linked
    <3>3. list.newer[node] = IF i = 1 THEN Nil ELSE s[i - 1]
      BY <3>1, <3>2 DEF Linked
    <3>4. i # 1 => i - 1 \in 1..Cardinality(nodes)
      BY TypesAre
    <3> QED
      BY <3>1, <3>3, <3>4
  <2> QED
    BY <2>1, TypesAre, HandSound
<1>3. Sound(list', nodes')
  <2> HIDE DEF passed
  <2> QED
    BY <1>1, <1>2, UnlinkSound
<1>4. /\ size' \in [Keys -> Nat] /\ (\A x \in Keys \ nodes' : size'[x] = 0)
      /\ bytes' = SumFunctionOnSet(size', nodes')
  BY <1>1, RemoveKeeps
<1>5. visited' \subseteq nodes' /\ (policy' = "lru" => visited' = {}) /\ policy' \in Policies
  BY <1>1, TypesAre DEF CacheInv
<1> HIDE DEF passed
<1> QED
  BY <1>1, <1>3, <1>4, <1>5, InvOutsideScan

\* The invariant holds in every reachable state.
LEMMA CacheInductive == CacheSpec => []CacheInv
<1>1. CacheInit => CacheInv
  BY InitHolds
<1>2. CacheInv /\ [CacheNext]_cacheVars => CacheInv'
  <2> SUFFICES ASSUME CacheInv, [CacheNext]_cacheVars PROVE CacheInv'
    OBVIOUS
  <2>1. CASE Calling
    BY <2>1, GetKeeps, DeleteKeeps, PutKeeps, ClearKeeps DEF Calling
  <2>2. CASE Evicting
    BY <2>2, ReleaseKeeps, PickVictimKeeps, ScanKeeps, EvictKeeps DEF Evicting
  <2>3. CASE UNCHANGED cacheVars
    BY <2>3, StutterKeeps
  <2> QED
    BY <2>1, <2>2, <2>3 DEF CacheNext
<1> QED
  BY <1>1, <1>2, PTL DEF CacheSpec

----------------------------------------------------------------------------
\* What the invariant says of the cache.

\* The walk from the head is the thread.
LEMMA ThreadExists ==
  ASSUME CacheInv
  PROVE  /\ Cardinality(nodes) \in Nat /\ (Cardinality(nodes) = 0 <=> nodes = {})
         /\ \E s \in [1..Cardinality(nodes) -> nodes] : Linked(list, s, Cardinality(nodes), nodes) /\ Walk = s
<1>1. Cardinality(nodes) \in Nat /\ (Cardinality(nodes) = 0 <=> nodes = {}) /\ nodes \subseteq Keys
  BY TypesAre, Counting
<1>2. PICK s \in [1..Cardinality(nodes) -> nodes] : Linked(list, s, Cardinality(nodes), nodes)
  BY TypesAre DEF Sound
<1>3. Walk = s
  BY <1>1, <1>2, WalkIsThread
<1> QED
  BY <1>1, <1>2, <1>3

\* The thread holds the nodes of the dict, and `newer` is the way back.
LEMMA InvIsWhole == CacheInv => ListIsWhole
<1> SUFFICES ASSUME CacheInv PROVE ListIsWhole
  OBVIOUS
<1>1. PICK n \in Nat : n = Cardinality(nodes) /\ (n = 0 <=> nodes = {})
  BY ThreadExists
<1>2. PICK s \in [1..n -> nodes] : Linked(list, s, n, nodes) /\ Walk = s
  BY <1>1, ThreadExists
<1>3. /\ \A i, j \in 1..n : s[i] = s[j] => i = j
      /\ \A k \in nodes : \E i \in 1..n : s[i] = k
      /\ list.head = IF n = 0 THEN Nil ELSE s[1]
      /\ list.tail = IF n = 0 THEN Nil ELSE s[n]
      /\ \A i \in 1..n : /\ list.newer[s[i]] = IF i = 1 THEN Nil ELSE s[i - 1]
                         /\ list.older[s[i]] = IF i = n THEN Nil ELSE s[i + 1]
      /\ \A i \in 1..n : s[i] \in nodes /\ s[i] # Nil
  <2>1. nodes \subseteq Keys /\ Nil \notin Keys
    BY TypesAre, CacheAssumption
  <2> QED
    BY <1>2, <2>1 DEF Linked
<1>4. {Walk[i] : i \in DOMAIN Walk} = nodes
  <2>1. DOMAIN Walk = 1..n
    BY <1>2
  <2> QED
    BY <1>2, <1>3, <2>1
<1>5. nodes # {} => Walk[n] = list.tail /\ list.older[list.tail] = Nil
  <2> SUFFICES ASSUME nodes # {} PROVE Walk[n] = list.tail /\ list.older[list.tail] = Nil
    OBVIOUS
  <2>1. n # 0 /\ n \in 1..n
    BY <1>1
  <2> QED
    BY <1>2, <1>3, <2>1
<1>6. ASSUME NEW k \in nodes
      PROVE  list.newer[k] = IF k = list.head THEN Nil ELSE CHOOSE j \in nodes : list.older[j] = k
  <2>1. PICK i \in 1..n : s[i] = k
    BY <1>3
  <2>2. n # 0 /\ 1 \in 1..n
    BY <2>1
  <2>3. k = list.head <=> i = 1
    BY <1>3, <2>1, <2>2
  <2>4. CASE i = 1
    BY <1>3, <2>1, <2>3, <2>4
  <2>5. CASE i # 1
    <3>1. i - 1 \in 1..n /\ i - 1 # n /\ (i - 1) + 1 = i
      BY <2>5
    <3>2. list.older[s[i - 1]] = k /\ s[i - 1] \in nodes
      BY <1>3, <2>1, <3>1
    <3>3. ASSUME NEW j \in nodes, list.older[j] = k PROVE j = s[i - 1]
      <4>1. PICK m \in 1..n : s[m] = j
        BY <1>3
      <4>2. m # n /\ s[m + 1] = s[i]
        BY <1>3, <2>1, <3>3, <4>1
      <4>3. m + 1 \in 1..n
        BY <4>2
      <4>4. m + 1 = i
        BY <1>3, <4>2, <4>3
      <4>5. m = i - 1
        BY <4>4
      <4> QED
        BY <4>1, <4>5
    <3>4. (CHOOSE j \in nodes : list.older[j] = k) = s[i - 1]
      BY <3>2, <3>3
    <3> QED
      BY <1>3, <2>1, <2>3, <2>5, <3>4
  <2> QED
    BY <2>4, <2>5
<1> QED
  BY <1>1, <1>3, <1>4, <1>5, <1>6 DEF ListIsWhole

\* The hand and the scan stand on nodes of the cache.
LEMMA InvIsLive == CacheInv => HandIsLive
<1> SUFFICES ASSUME CacheInv PROVE HandIsLive
  OBVIOUS
<1>1. list.hand \in nodes \cup {Nil}
  BY TypesAre DEF Sound
<1>2. lock = "scanning" => node \in nodes
  BY DEF CacheInv, ScanIsSound, ScanInOrder
<1> QED
  BY <1>1, <1>2 DEF HandIsLive

\* No sequence of calls breaks the pointers of services/cache/ram_cache.py, and neither
\* the hand nor the scan ever stands on a node that has left the cache.
THEOREM ListStaysSound == CacheSpec => []ListIsSound
<1>1. CacheInv => ListIsSound
  BY InvIsWhole, InvIsLive DEF ListIsSound, CacheInv
<1> QED
  BY <1>1, CacheInductive, PTL

\* When the lock is free the values that are cached are within both limits, and the
\* running total _bytes is what they hold.
THEOREM BudgetAlwaysHolds == CacheSpec => []BudgetHolds
<1>1. CacheInv => BudgetHolds
  <2> SUFFICES ASSUME CacheInv PROVE BudgetHolds
    OBVIOUS
  <2>1. BytesAreCounted
    BY DEF CacheInv
  <2>2. Cardinality(nodes) \in Nat /\ bytes \in Nat /\ MaxEntries \in Nat /\ MaxBytes \in Nat
    BY TypesAre, CacheAssumption
  <2>3. lock = "free" => ~Over
    BY DEF CacheInv
  <2>4. WithinLimits
    BY <2>1, <2>2, <2>3 DEF WithinLimits, BytesAreCounted, Over
  <2> QED
    BY <2>1, <2>4 DEF BudgetHolds
<1> QED
  BY <1>1, CacheInductive, PTL

\* The scan gives up a node that was read only once it has been round the whole list,
\* and then no node that was not read is left.
LEMMA VictimIsCold == ASSUME CacheInv, Evict PROVE unread = {} \/ node \in unread
<1> SUFFICES ASSUME node \notin unread PROVE unread = {}
  OBVIOUS
<1>1. node \in Cleared /\ unread \subseteq nodes \ visited /\ ScanInOrder
  BY DEF Evict, Cleared, CacheInv, ScanIsSound
<1>2. PICK n \in Nat : n = Cardinality(nodes)
  BY TypesAre
<1>3. PICK s \in [1..n -> nodes], p \in 1..n, j \in 1..n :
        Linked(list, s, n, nodes) /\ node = s[j] /\ Behind(s, n, p, j)
  BY <1>1, <1>2 DEF ScanInOrder
<1>4. \A a, b \in 1..n : s[a] = s[b] => a = b
  BY <1>3 DEF Linked
<1>5. \A x \in nodes : \E a \in 1..n : s[a] = x
  BY <1>3 DEF Linked
<1>6. ~(j <= p /\ Cleared = {s[i] : i \in (j + 1)..p})
  <2> SUFFICES ASSUME j <= p, Cleared = {s[i] : i \in (j + 1)..p} PROVE FALSE
    OBVIOUS
  <2>1. PICK i \in (j + 1)..p : s[i] = s[j]
    BY <1>1, <1>3
  <2>2. i \in 1..n /\ i # j
    OBVIOUS
  <2> QED
    BY <1>4, <2>1, <2>2
<1>7. p <= j /\ Cleared = {s[i] : i \in (1..n) \ ((p + 1)..j)}
  BY <1>3, <1>6 DEF Behind
<1>8. j = p
  <2>1. PICK i \in (1..n) \ ((p + 1)..j) : s[i] = s[j]
    BY <1>1, <1>3, <1>7
  <2>2. i = j
    BY <1>4, <2>1
  <2> QED
    BY <1>7, <2>2
<1>9. (p + 1)..j = {}
  BY <1>8
<1>10. Cleared = nodes
  BY <1>3, <1>5, <1>7, <1>9
<1> QED
  BY <1>1, <1>10 DEF Cleared

\* An entry that was read since the hand last passed it is not evicted while one that was
\* not read is left.
THEOREM HotEntriesAlwaysSurvive == CacheSpec => HotEntriesSurvive
<1>1. CacheInv /\ [CacheNext]_cacheVars => [Evict => unread = {} \/ node \in unread]_cacheVars
  BY VictimIsCold
<1> QED
  BY <1>1, CacheInductive, PTL DEF CacheSpec, HotEntriesSurvive

----------------------------------------------------------------------------
\* The refinement: the thread is the queue.
Order == [i \in 1..Cardinality(nodes) |-> Walk[i]]

\* The sequence that the refinement mapping gives is the thread.
LEMMA OrderIsThread ==
  ASSUME NEW s, Linked(list, s, Cardinality(nodes), nodes), Cardinality(nodes) \in Nat, nodes \subseteq Keys
  PROVE  Order = s
<1>1. Walk = s
  BY WalkIsThread
<1>2. s \in [1..Cardinality(nodes) -> nodes]
  BY DEF Linked
<1> QED
  BY <1>1, <1>2 DEF Order

\* The same of the state after a step.
LEMMA OrderOfNext ==
  ASSUME NEW s
  PROVE  (Linked(list, s, Cardinality(nodes), nodes) /\ Cardinality(nodes) \in Nat /\ nodes \subseteq Keys
           => Order = s)'
<1>1. Linked(list, s, Cardinality(nodes), nodes) /\ Cardinality(nodes) \in Nat /\ nodes \subseteq Keys => Order = s
  BY OrderIsThread
<1> QED
  BY <1>1, PTL

\* Sequence operators on a thread.
LEMMA CutRemoves ==
  ASSUME NEW n \in Nat, NEW s \in [1..n -> Keys], NEW p \in 1..n
  PROVE  Queue!RemoveAt(s, p) = Cut(s, n, p)
<1>1. s \in Seq(Keys) /\ Len(s) = n
  OBVIOUS
<1> DEFINE a == SubSeq(s, 1, p - 1)
           b == SubSeq(s, p + 1, n)
<1>2. a \in Seq(Keys) /\ Len(a) = p - 1 /\ \A i \in 1..(p - 1) : a[i] = s[i]
  BY <1>1
<1>3. b \in Seq(Keys) /\ Len(b) = n - p /\ \A i \in 1..(n - p) : b[i] = s[p + i]
  BY <1>1
<1> HIDE DEF a, b
<1>4. a \o b \in [1..(n - 1) -> Keys]
  <2>1. a \o b \in Seq(Keys)
    BY <1>2, <1>3
  <2>2. Len(a \o b) = Len(a) + Len(b)
    BY <1>2, <1>3
  <2>3. Len(a \o b) = n - 1
    BY <1>2, <1>3, <2>2
  <2>4. \A q \in Seq(Keys) : q \in [1..Len(q) -> Keys]
    OBVIOUS
  <2> QED
    BY <2>1, <2>3, <2>4
<1>5. ASSUME NEW i \in 1..(n - 1) PROVE (a \o b)[i] = IF i < p THEN s[i] ELSE s[i + 1]
  <2>1. CASE i < p
    BY <1>2, <1>3, <2>1
  <2>2. CASE ~(i < p)
    <3>1. i - (p - 1) \in 1..(n - p) /\ p + (i - (p - 1)) = i + 1
      BY <2>2
    <3>2. (a \o b)[i] = b[i - (p - 1)]
      BY <1>2, <1>3, <2>2
    <3> QED
      BY <1>3, <2>2, <3>1, <3>2
  <2> QED
    BY <2>1, <2>2
<1>6. a \o b = Cut(s, n, p)
  BY <1>4, <1>5 DEF Cut
<1> QED
  BY <1>1, <1>6 DEF Queue!RemoveAt, a, b

\* A node that is pushed is put in front.
LEMMA PushedAppends ==
  ASSUME NEW n \in Nat, NEW s \in [1..n -> Keys], NEW k \in Keys
  PROVE  <<k>> \o s = Pushed(s, n, k)
<1>1. s \in Seq(Keys) /\ Len(s) = n
  OBVIOUS
<1>2. <<k>> \o s \in Seq(Keys) /\ Len(<<k>> \o s) = n + 1
  BY <1>1
<1>3. \A i \in 1..(n + 1) : (<<k>> \o s)[i] = IF i = 1 THEN k ELSE s[i - 1]
  BY <1>1
<1> QED
  BY <1>2, <1>3 DEF Pushed

\* What the queue is to the cache in a state of the invariant.
LEMMA QueueView ==
  ASSUME CacheInv
  PROVE  \E n \in Nat : \E s \in [1..n -> nodes] :
           /\ n = Cardinality(nodes) /\ Linked(list, s, n, nodes) /\ Order = s
           /\ Queue!Over <=> Over
           /\ \A k \in Keys : /\ Queue!Contains(Order, k) <=> k \in nodes
                              /\ k \notin nodes => Queue!Without(k) = s
           /\ \A p \in 1..n : Queue!Without(s[p]) = Cut(s, n, p)
           /\ n # 0 => Queue!Last(Order) = list.tail
<1>1. PICK n \in Nat : n = Cardinality(nodes)
  BY TypesAre
<1>2. PICK s \in [1..n -> nodes] : Linked(list, s, n, nodes)
  BY <1>1, TypesAre DEF Sound
<1>3. Order = s
  BY <1>1, <1>2, TypesAre, OrderIsThread
<1>4. s \in [1..n -> Keys] /\ Len(s) = n /\ nodes \subseteq Keys
  BY TypesAre
<1>5. /\ \A i, j \in 1..n : s[i] = s[j] => i = j
      /\ \A k \in nodes : \E i \in 1..n : s[i] = k
      /\ list.tail = IF n = 0 THEN Nil ELSE s[n]
  BY <1>2 DEF Linked
<1>6. \A k \in Keys : Queue!Contains(Order, k) <=> k \in nodes
  BY <1>3, <1>4, <1>5 DEF Queue!Contains
<1>7. Queue!Over <=> Over
  <2>1. Queue!Range(Order) = nodes
    BY <1>3, <1>4, <1>5 DEF Queue!Range
  <2>2. Queue!SumFunctionOnSet(size, nodes) = SumFunctionOnSet(size, nodes)
    BY DEF Queue!SumFunctionOnSet, Queue!FoldFunctionOnSet, Queue!MapThenFoldSet,
           SumFunctionOnSet, FoldFunctionOnSet, MapThenFoldSet
  <2> QED
    BY <1>1, <1>3, <1>4, <2>1, <2>2, TypesAre DEF Queue!Over, Over, Order
<1>8. \A k \in Keys : k \notin nodes => Queue!Without(k) = s
  BY <1>3, <1>6 DEF Queue!Without, Order
<1>9. ASSUME NEW p \in 1..n PROVE Queue!Without(s[p]) = Cut(s, n, p)
  <2>1. Queue!Contains(Order, s[p])
    BY <1>4, <1>6
  <2>2. (CHOOSE i \in 1..Len(Order) : Order[i] = s[p]) = p
    BY <1>3, <1>4, <1>5
  <2>3. Queue!RemoveAt(s, p) = Cut(s, n, p)
    BY <1>4, CutRemoves
  <2> QED
    BY <1>3, <2>1, <2>2, <2>3 DEF Queue!Without, Order
<1>10. n # 0 => Queue!Last(Order) = list.tail
  BY <1>3, <1>4, <1>5 DEF Queue!Last
<1> QED
  BY <1>1, <1>2, <1>3, <1>6, <1>7, <1>8, <1>9, <1>10

\* The queue after a step, from the thread of the list after it.
LEMMA NextOrder ==
  ASSUME CacheInv', NEW t, Linked(list', t, Cardinality(nodes'), nodes')
  PROVE  Order' = t
<1>1. nodes' \subseteq Keys /\ IsFiniteSet(nodes')
  BY DEF CacheInv, Sound
<1>2. Cardinality(nodes') \in Nat
  BY <1>1, FS_CardinalityType
<1> QED
  BY <1>1, <1>2, OrderOfNext

LEMMA SameOrder == ASSUME UNCHANGED <<nodes, list>> PROVE Order' = Order
  BY DEF Order, Walk

\* A node that leaves the list leaves the queue.
LEMMA NodeTaken ==
  ASSUME CacheInv, CacheInv', NEW k \in nodes, NEW l \in Lists,
         \A s, n : Linked(list, s, n, nodes) => Linked(l, s, n, nodes),
         list' = Unlink(l, k), nodes' = nodes \ {k}
  PROVE  Queue!Contains(Order, k) /\ Order' = Queue!Without(k)
<1> DEFINE View(n, s) ==
        /\ n = Cardinality(nodes) /\ Linked(list, s, n, nodes)
        /\ \A x \in Keys : Queue!Contains(Order, x) <=> x \in nodes
        /\ \A p \in 1..n : Queue!Without(s[p]) = Cut(s, n, p)
<1>0. PICK n \in Nat : \E s \in [1..n -> nodes] : View(n, s)
  BY QueueView
<1>1. PICK s \in [1..n -> nodes] : View(n, s)
  BY <1>0
<1>2. PICK p \in 1..n : s[p] = k
  BY <1>1 DEF Linked
<1>3. nodes \subseteq Keys /\ Linked(l, s, n, nodes) /\ Cardinality(nodes') = n - 1
  BY <1>1, TypesAre, Counting
<1>4. Linked(Unlink(l, s[p]), Cut(s, n, p), n - 1, nodes \ {s[p]})
  BY <1>3, UnlinkCuts
<1>5. Order' = Cut(s, n, p)
  BY <1>2, <1>3, <1>4, NextOrder
<1> QED
  BY <1>1, <1>2, <1>3, <1>5

\* A new node, and one that is moved to the head, become the newest.
LEMMA NodeLinked ==
  ASSUME CacheInv, CacheInv', NEW k \in Keys, nodes' = nodes \cup {k},
         list' = LinkAtHead(IF k \in nodes THEN Unlink(list, k) ELSE list, k)
  PROVE  Order' = <<k>> \o Queue!Without(k)
<1> DEFINE View(n, s) ==
        /\ n = Cardinality(nodes) /\ Linked(list, s, n, nodes)
        /\ \A x \in Keys : x \notin nodes => Queue!Without(x) = s
        /\ \A p \in 1..n : Queue!Without(s[p]) = Cut(s, n, p)
<1>0. PICK n \in Nat : \E s \in [1..n -> nodes] : View(n, s)
  BY QueueView
<1>1. PICK s \in [1..n -> nodes] : View(n, s)
  BY <1>0
<1>2. nodes \subseteq Keys /\ IsFiniteSet(nodes) /\ list \in Lists
  BY TypesAre
<1>3. CASE k \notin nodes
  <2>1. Linked(list', Pushed(s, n, k), n + 1, nodes \cup {k})
    BY <1>1, <1>2, <1>3, LinkPushes
  <2>2. Cardinality(nodes') = n + 1
    BY <1>1, <1>2, <1>3, Counting
  <2>3. Order' = Pushed(s, n, k)
    BY <2>1, <2>2, NextOrder
  <2>4. s \in [1..n -> Keys]
    BY <1>2
  <2>5. <<k>> \o s = Pushed(s, n, k)
    BY <2>4, PushedAppends
  <2> QED
    BY <1>1, <1>3, <2>3, <2>5
<1>4. CASE k \in nodes
  <2>1. PICK p \in 1..n : s[p] = k
    BY <1>1, <1>4 DEF Linked
  <2> DEFINE m == Unlink(list, k)
             t == Cut(s, n, p)
  <2>2. Linked(m, t, n - 1, nodes \ {k})
    BY <1>1, <1>2, <2>1, UnlinkCuts
  <2>3. m \in Lists /\ n - 1 \in Nat /\ k \in Keys \ (nodes \ {k}) /\ nodes \ {k} \subseteq Keys
    BY <1>2, ListTypes
  <2>4. list' = LinkAtHead(m, k) /\ nodes' = nodes /\ (nodes \ {k}) \cup {k} = nodes
    BY <1>4
  <2> HIDE DEF m, t
  <2>5. Linked(LinkAtHead(m, k), Pushed(t, n - 1, k), (n - 1) + 1, (nodes \ {k}) \cup {k})
    BY <2>2, <2>3, LinkPushes
  <2>6. (n - 1) + 1 = Cardinality(nodes')
    <3>1. n = Cardinality(nodes) /\ (n - 1) + 1 = n
      BY <1>1
    <3> QED
      BY <2>4, <3>1
  <2>7. Order' = Pushed(t, n - 1, k)
    BY <2>4, <2>5, <2>6, NextOrder
  <2>8. t \in [1..(n - 1) -> Keys]
    <3>1. t \in [1..(n - 1) -> nodes \ {k}]
      BY <2>2, <2>3, LinkedRange
    <3> QED
      BY <2>3, <3>1
  <2>9. <<k>> \o t = Pushed(t, n - 1, k)
    BY <2>3, <2>8, PushedAppends
  <2> QED
    BY <1>1, <2>1, <2>7, <2>9 DEF t
<1> QED
  BY <1>3, <1>4

\* The operations are those of the queue.
LEMMA QueueIsStill == ASSUME UNCHANGED <<policy, nodes, size, list>> PROVE UNCHANGED Queue!vars
<1>1. Order' = Order
  BY SameOrder
<1> QED
  BY <1>1 DEF Queue!vars, Order

\* Calls are served only under the limits.
LEMMA UnderLimits == ASSUME CacheInv, lock = "free" PROVE ~Queue!Over
  BY QueueView DEF CacheInv

LEMMA GetIsHit ==
  ASSUME CacheInv, CacheInv', UNCHANGED policy, NEW k \in Keys, Get(k)
  PROVE  Queue!Hit(k) \/ UNCHANGED Queue!vars
<1>1. CASE UNCHANGED list
  BY <1>1, QueueIsStill DEF Get
<1>2. CASE list' # list
  <2>1. policy = "lru" /\ list' = LinkAtHead(Unlink(list, k), k) /\ k \in nodes /\ nodes' = nodes
        /\ lock = "free" /\ UNCHANGED size
    BY <1>2 DEF Get, MoveToHead
  <2>2. Order' = <<k>> \o Queue!Without(k)
    <3>1. nodes' = nodes \cup {k} /\ list' = LinkAtHead(IF k \in nodes THEN Unlink(list, k) ELSE list, k)
      BY <2>1
    <3> QED
      BY <3>1, NodeLinked
  <2>3. Queue!Contains(Order, k) /\ ~Queue!Over
    BY <2>1, QueueView, UnderLimits
  <2> QED
    BY <2>1, <2>2, <2>3 DEF Queue!Hit, Order
<1> QED
  BY <1>1, <1>2

LEMMA DeleteIsForget ==
  ASSUME CacheInv, CacheInv', UNCHANGED policy, NEW k \in Keys, Delete(k)
  PROVE  Queue!Forget(k)
<1>1. /\ lock = "free" /\ k \in nodes /\ nodes' = nodes \ {k} /\ list' = Unlink(list, k)
      /\ size' = [size EXCEPT ![k] = 0]
  BY DEF Delete, Remove
<1>2. Queue!Contains(Order, k) /\ Order' = Queue!Without(k)
  BY <1>1, TypesAre, NodeTaken
<1>3. ~Queue!Over
  BY <1>1, UnderLimits
<1> QED
  BY <1>1, <1>2, <1>3 DEF Queue!Forget, Queue!Drop, Order

LEMMA PutIsInsert ==
  ASSUME CacheInv, CacheInv', UNCHANGED policy, NEW k \in Keys, NEW s \in Sizes, Put(k, s)
  PROVE  Queue!Insert(k, s) \/ Queue!Forget(k) \/ UNCHANGED Queue!vars
<1>1. lock = "free" /\ ~Queue!Over
  BY UnderLimits DEF Put
<1>2. CASE s <= MaxBytes
  <2>1. /\ nodes' = nodes \cup {k} /\ size' = [size EXCEPT ![k] = s]
        /\ list' = LinkAtHead(IF k \in nodes THEN Unlink(list, k) ELSE list, k)
    BY <1>2 DEF Put
  <2>2. Order' = <<k>> \o Queue!Without(k)
    BY <2>1, NodeLinked
  <2> QED
    BY <1>1, <1>2, <2>1, <2>2 DEF Queue!Insert, Order
<1>3. CASE ~(s <= MaxBytes) /\ k \in nodes
  <2>1. nodes' = nodes \ {k} /\ list' = Unlink(list, k) /\ size' = [size EXCEPT ![k] = 0]
    BY <1>3 DEF Put
  <2>2. Queue!Contains(Order, k) /\ Order' = Queue!Without(k)
    BY <1>3, <2>1, TypesAre, NodeTaken
  <2> QED
    BY <1>1, <2>1, <2>2 DEF Queue!Forget, Queue!Drop, Order
<1>4. CASE ~(s <= MaxBytes) /\ k \notin nodes
  <2>1. nodes' = nodes \ {k} /\ list' = list /\ size' = [size EXCEPT ![k] = 0]
    BY <1>4 DEF Put
  <2>2. nodes' = nodes
    BY <1>4, <2>1
  <2>3. size' = size
    <3>1. size \in [Keys -> Nat] /\ size[k] = 0
      BY <1>4, TypesAre
    <3> QED
      BY <2>1, <3>1
  <2> QED
    BY <2>1, <2>2, <2>3, QueueIsStill
<1> QED
  BY <1>2, <1>3, <1>4

LEMMA ClearIsClear == ASSUME CacheInv, CacheInv', UNCHANGED policy, Clear PROVE Queue!Clear
<1>1. lock = "free" /\ nodes' = {} /\ size' = [k \in Keys |-> 0] /\ ~Queue!Over
  BY UnderLimits DEF Clear
<1>2. Cardinality(nodes') = 0
  BY <1>1, FS_EmptySet
<1>3. Order' = <<>>
  BY <1>2 DEF Order
<1> QED
  BY <1>1, <1>3 DEF Queue!Clear, Order

LEMMA EvictIsEvict == ASSUME CacheInv, CacheInv', UNCHANGED policy, Evict PROVE \E k \in Keys : Queue!Evict(k)
<1> DEFINE passed == IF policy = "sieve" THEN [list EXCEPT !.hand = list.newer[node]] ELSE list
<1>1. /\ lock = "scanning" /\ node \in nodes /\ nodes' = nodes \ {node} /\ size' = [size EXCEPT ![node] = 0]
      /\ list' = Unlink(passed, node)
  BY DEF Evict
<1>2. passed \in Lists /\ \A s, n : Linked(list, s, n, nodes) => Linked(passed, s, n, nodes)
  <2>1. list \in Lists /\ node \in Keys
    BY <1>1, TypesAre
  <2>2. list.newer[node] \in Keys \cup {Nil}
    BY <2>1 DEF Lists, Pointers
  <2>3. /\ passed \in Lists
        /\ passed.newer = list.newer /\ passed.older = list.older
        /\ passed.head = list.head /\ passed.tail = list.tail
    BY <2>1, <2>2 DEF Lists
  <2> HIDE DEF passed
  <2> QED
    BY <2>3 DEF Linked
<1> HIDE DEF passed
<1>3. Queue!Contains(Order, node) /\ Order' = Queue!Without(node)
  BY <1>1, <1>2, NodeTaken
<1>4. Over /\ (policy = "lru" => node = list.tail)
  BY <1>1 DEF CacheInv, ScanIsSound
<1>5. Cardinality(nodes) # 0
  BY <1>4, OverHasNodes
<1>6. Queue!Over /\ (policy = "lru" => node = Queue!Last(Order))
  BY <1>4, <1>5, QueueView
<1>7. PICK k \in Keys : k = node
  BY <1>1, TypesAre
<1>8. Queue!Evict(k)
  BY <1>1, <1>3, <1>6, <1>7 DEF Queue!Evict, Queue!Drop, Order
<1> QED
  BY <1>8

\* The cache is a queue of keys in order of recency that is back within its limits before the
\* next call: every operation of services/cache/ram_cache.py is a step of RecencyQueue, or
\* leaves the queue as it is.
THEOREM ImplementsRecencyQueue == CacheSpec => IsRecencyQueue
<1>1. CacheInit => Queue!Init
  <2> SUFFICES ASSUME CacheInit PROVE Queue!Init
    OBVIOUS
  <2>1. Cardinality(nodes) = 0
    BY FS_EmptySet DEF CacheInit
  <2>2. Order = <<>>
    BY <2>1 DEF Order
  <2> QED
    BY <2>2 DEF CacheInit, Queue!Init, Order
<1>2. CacheInv /\ CacheInv' /\ [CacheNext]_cacheVars => [Queue!Next]_(Queue!vars)
  <2> SUFFICES ASSUME CacheInv, CacheInv', [CacheNext]_cacheVars PROVE [Queue!Next]_(Queue!vars)
    OBVIOUS
  <2>1. CASE Calling
    <3>1. ASSUME NEW k \in Keys, Get(k) PROVE [Queue!Next]_(Queue!vars)
      BY <2>1, <3>1, GetIsHit DEF Calling, Queue!Next
    <3>2. ASSUME NEW k \in Keys, Delete(k) PROVE [Queue!Next]_(Queue!vars)
      BY <2>1, <3>2, DeleteIsForget DEF Calling, Queue!Next
    <3>3. ASSUME NEW k \in Keys, NEW s \in Sizes, Put(k, s) PROVE [Queue!Next]_(Queue!vars)
      BY <2>1, <3>3, PutIsInsert DEF Calling, Queue!Next
    <3>4. ASSUME Clear PROVE [Queue!Next]_(Queue!vars)
      BY <2>1, <3>4, ClearIsClear DEF Calling, Queue!Next
    <3> QED
      BY <2>1, <3>1, <3>2, <3>3, <3>4 DEF Calling
  <2>2. CASE Evicting
    <3>1. CASE Evict
      <4>1. PICK k \in Keys : Queue!Evict(k)
        BY <2>2, <3>1, EvictIsEvict DEF Evicting
      <4> QED
        BY <2>2, <4>1 DEF Evicting, Queue!Next
    <3>2. CASE Release \/ PickVictim \/ Scan
      BY <2>2, <3>2, QueueIsStill DEF Evicting, Release, PickVictim, Scan
    <3> QED
      BY <2>2, <3>1, <3>2 DEF Evicting
  <2>3. CASE UNCHANGED cacheVars
    BY <2>3, QueueIsStill DEF cacheVars
  <2> QED
    BY <2>1, <2>2, <2>3 DEF CacheNext
<1> QED
  BY <1>1, <1>2, CacheInductive, PTL DEF CacheSpec, IsRecencyQueue, Queue!Spec

----------------------------------------------------------------------------
\* The eviction loop.

\* At most so many steps are left of it: a scan clears a bit, an eviction takes a node and
\* starts a stage, which a release or a scan ends.
StepsLeft == 2 * Cardinality(nodes) + Cardinality(visited) + (IF lock = "evicting" THEN 1 ELSE 0)

StepsDecrease == StepsLeft \in Nat /\ StepsLeft' \in Nat /\ StepsLeft' < StepsLeft

LEMMA EvictingDecreases == ASSUME CacheInv, Evicting PROVE StepsDecrease
<1> DEFINE n == Cardinality(nodes)
           v == Cardinality(visited)
<1>1. IsFiniteSet(nodes) /\ IsFiniteSet(visited) /\ n \in Nat /\ v \in Nat
  BY TypesAre, FS_Subset, FS_CardinalityType
<1>2. CASE Release \/ PickVictim
  <2>1. lock = "evicting" /\ lock' # "evicting" /\ Cardinality(nodes') = n /\ Cardinality(visited') = v
    BY <1>2 DEF Release, PickVictim
  <2> HIDE DEF n, v
  <2> QED
    BY <1>1, <2>1 DEF StepsDecrease, StepsLeft, n, v
<1>3. CASE Scan
  <2>1. /\ lock = "scanning" /\ lock' = "scanning" /\ Cardinality(nodes') = n
        /\ node \in visited /\ visited' = visited \ {node}
    BY <1>3 DEF Scan
  <2>2. Cardinality(visited') = v - 1 /\ Cardinality(visited') \in Nat
    BY <1>1, <2>1, Counting
  <2> HIDE DEF n, v
  <2> QED
    BY <1>1, <2>1, <2>2 DEF StepsDecrease, StepsLeft, n, v
<1>4. CASE Evict
  <2>1. /\ lock = "scanning" /\ lock' = "evicting" /\ Cardinality(visited') = v
        /\ node \in nodes /\ nodes' = nodes \ {node}
    BY <1>4 DEF Evict
  <2>2. Cardinality(nodes') = n - 1 /\ Cardinality(nodes') \in Nat
    BY <1>1, <2>1, Counting
  <2> HIDE DEF n, v
  <2> QED
    BY <1>1, <2>1, <2>2 DEF StepsDecrease, StepsLeft, n, v
<1> QED
  BY <1>2, <1>3, <1>4 DEF Evicting

\* The loop of _evict_locked is bounded: each step of it, and of the scan within, lowers a natural
\* number; by ListStaysSound the scan always stands on a node, which it can pass or take.
THEOREM EvictionIsBounded == CacheSpec => [][Evicting => StepsDecrease]_cacheVars
<1>1. CacheInv /\ [CacheNext]_cacheVars => [Evicting => StepsDecrease]_cacheVars
  BY EvictingDecreases
<1> QED
  BY <1>1, CacheInductive, PTL DEF CacheSpec
=============================================================================
