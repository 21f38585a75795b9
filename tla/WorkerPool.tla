----------------------------- MODULE WorkerPool -----------------------------
(***************************************************************************)
(* services/army: the job queue (queue.py) and the lease-governed worker    *)
(* pool (pool.py) as citadel army runs them (cli.py, _cmd_army).  Producers *)
(* enqueue atomic tasks; run() starts one thread per worker; each takes a   *)
(* TTL lease, claims, runs, verifies, acks and reports tasks until the      *)
(* queue is empty, and revokes its lease on the way out.  Another thread    *)
(* may call reap() at any time.                                             *)
(*                                                                          *)
(* The two backends of the queue keep one contract: enqueue appends, claim  *)
(* takes the head and marks it in flight (the Redis pending entries list,   *)
(* or _inflight), ack clears the mark.  Nothing ever hands out an in-flight *)
(* task again.  Over Redis a claim or an ack is a round trip that may raise *)
(* before or after the server has done it; the caller's verify may raise on *)
(* either backend.  `raising` says which calls may, in this life of a pool. *)
(*                                                                          *)
(* Abstracted: a task is its id, run_fn a choice of status; the capability  *)
(* check of _run_one always passes (every worker holds WRITE_FILE).         *)
(***************************************************************************)
EXTENDS Naturals, Sequences, FiniteSets

CONSTANTS Workers, Tasks,
          LeaseTtl,   \* lease_ttl
          MaxTime,    \* bound of the clock
          MaxRuns     \* bound on the calls of run()

ASSUME PoolAssumption == /\ LeaseTtl \in Nat \ {0}
                         /\ MaxTime \in Nat /\ MaxRuns \in Nat

VARIABLES now, heap, leases, revoked, seq,   \* the clock and the pool's LeaseReaper
          ready,      \* _ready: the tasks to claim, in order
          inflight,   \* _inflight: claimed and not acked
          outcomes,   \* _outcomes of the current run: [task, status]
          raising,    \* the calls that may raise: verify, and claim and ack if _redis is set
          inRun,      \* a call of run() is under way
          runs,       \* how many times run() was called
          runNow,     \* the `now` that run() was given, frozen for the run
          pc, cur,    \* where each worker stands, and the task it holds
          status,     \* the status of the outcome it is about to report
          reported    \* tasks whose outcome some run() returned (history)

Reaper == INSTANCE LeaseReaper WITH
            LeaseIds <- Workers, Ttls <- {LeaseTtl}, MaxGrants <- MaxRuns * Cardinality(Workers)

reaperVars == <<heap, leases, revoked, seq>>
queueVars == <<ready, inflight>>
runVars == <<raising, inRun, runs, runNow, reported>>
vars == <<now, reaperVars, queueVars, runVars, outcomes, pc, cur, status>>

NoTask == "none"
Failings == {{}, {"verify"}, {"verify", "claim", "ack"}}
Queued == {ready[i] : i \in 1..Len(ready)}
Outstanding == Queued \cup inflight
Accounted == Outstanding \cup reported \cup {o.task : o \in outcomes}
               \cup {cur[w] : w \in {v \in Workers : pc[v] = "append"}}

Goto(w, place) == pc' = [pc EXCEPT ![w] = place]
Report(w, s) == status' = [status EXCEPT ![w] = s]
AllOff == \A w \in Workers : pc[w] = "off"

----------------------------------------------------------------------------
Init == /\ now = 0 /\ Reaper!ReaperInit
        /\ ready = <<>> /\ inflight = {}
        /\ outcomes = {} /\ reported = {}
        /\ raising \in Failings
        /\ inRun = FALSE /\ runs = 0 /\ runNow = 0
        /\ pc = [w \in Workers |-> "off"]
        /\ cur = [w \in Workers |-> NoTask]
        /\ status = [w \in Workers |-> "none"]

Tick == /\ now < MaxTime /\ now' = now + 1
        /\ UNCHANGED <<reaperVars, queueVars, runVars, outcomes, pc, cur, status>>

\* enqueue: a task that the pool does not know of (message ids are fresh).
Enqueue(t) == /\ t \notin Accounted
              /\ ready' = Append(ready, t)
              /\ UNCHANGED <<now, reaperVars, inflight, runVars, outcomes, pc, cur, status>>

\* run(now): resets the outcomes and starts a thread per worker.
StartRun == /\ ~inRun /\ runs < MaxRuns
            /\ inRun' = TRUE /\ runs' = runs + 1 /\ runNow' = now
            /\ outcomes' = {}
            /\ pc' = [w \in Workers |-> "grant"]
            /\ UNCHANGED <<now, reaperVars, queueVars, raising, reported, cur, status>>

\* A mutant of TakeLease: the TTL is lost on the way.
TakeLeaseWithoutTtl(w) ==
  /\ pc[w] = "grant"
  /\ Reaper!Grant(w, 0, runNow)
  /\ Goto(w, "claim")
  /\ UNCHANGED <<now, queueVars, runVars, outcomes, cur, status>>

\* _worker: the lease is granted at the run's `now`, not at the clock's.
TakeLease(w) == /\ pc[w] = "grant"
                /\ Reaper!Grant(w, LeaseTtl, runNow)
                /\ Goto(w, "claim")
                /\ UNCHANGED <<now, queueVars, runVars, outcomes, cur, status>>

\* A mutant of Claim: the head is read but not taken off the queue.
ClaimPeeks(w) ==
  /\ pc[w] = "claim" /\ ready # <<>>
  /\ cur' = [cur EXCEPT ![w] = Head(ready)]
  /\ inflight' = inflight \cup {Head(ready)}
  /\ Goto(w, "check")
  /\ UNCHANGED <<now, reaperVars, ready, runVars, outcomes, status>>

\* claim: take the head of the queue; it is in flight until acked.
Claim(w) == /\ pc[w] = "claim" /\ ready # <<>>
            /\ cur' = [cur EXCEPT ![w] = Head(ready)]
            /\ ready' = Tail(ready)
            /\ inflight' = inflight \cup {Head(ready)}
            /\ Goto(w, "check")
            /\ UNCHANGED <<now, reaperVars, runVars, outcomes, status>>

\* claim finds nothing within its window: the worker leaves.
ClaimEnds(w) == /\ pc[w] = "claim" /\ ready = <<>>
                /\ Goto(w, "exit")
                /\ UNCHANGED <<now, reaperVars, queueVars, runVars, outcomes, cur, status>>

\* XREADGROUP raises, before the server has delivered a task or after: the
\* worker leaves, and a delivered task stays in flight without it.
ClaimRaises(w) ==
  /\ pc[w] = "claim" /\ "claim" \in raising
  /\ \/ UNCHANGED queueVars
     \/ ready # <<>> /\ ready' = Tail(ready) /\ inflight' = inflight \cup {Head(ready)}
  /\ Goto(w, "exit")
  /\ UNCHANGED <<now, reaperVars, runVars, outcomes, cur, status>>

\* _run_one: no work without a valid lease, as of the run's `now`.
CheckLease(w) == /\ pc[w] = "check"
                 /\ IF Reaper!IsValid(w, runNow)
                    THEN Goto(w, "run") /\ UNCHANGED status
                    ELSE Goto(w, "ack") /\ Report(w, "rejected")
                 /\ UNCHANGED <<now, reaperVars, queueVars, runVars, outcomes, cur>>

\* run_fn returns a status, or raises.
RunTask(w) == /\ pc[w] = "run"
              /\ \/ \E s \in {"pass", "fail"} : Report(w, s) /\ Goto(w, "verify")
                 \/ Report(w, "error") /\ Goto(w, "ack")
              /\ UNCHANGED <<now, reaperVars, queueVars, runVars, outcomes, cur>>

\* verify accepts the output, refuses it, or raises: that is outside the try,
\* so it ends the worker before the ack, and the future swallows it.
Verify(w) == /\ pc[w] = "verify"
             /\ \/ UNCHANGED status /\ Goto(w, "ack")
                \/ Report(w, "fail") /\ Goto(w, "ack")
                \/ "verify" \in raising /\ UNCHANGED status /\ Goto(w, "exit")
             /\ UNCHANGED <<now, reaperVars, queueVars, runVars, outcomes, cur>>

\* A mutant of Ack: a failing ack is ignored as if it had worked, and the
\* outcome of a task that ran is dropped with it.
AckDropsOutcome(w) ==
  /\ pc[w] = "ack"
  /\ inflight' = inflight \ {cur[w]}
  /\ Goto(w, IF status[w] = "error" THEN "claim" ELSE "append")
  /\ UNCHANGED <<now, reaperVars, ready, runVars, outcomes, cur, status>>

\* ack, before the outcome is appended.  XACK may raise, before the server has
\* done it or after, and the worker leaves with the outcome.
Ack(w) == /\ pc[w] = "ack"
          /\ \/ inflight' = inflight \ {cur[w]} /\ Goto(w, "append")
             \/ /\ "ack" \in raising
                /\ inflight' \in {inflight, inflight \ {cur[w]}}
                /\ Goto(w, "exit")
          /\ UNCHANGED <<now, reaperVars, ready, runVars, outcomes, cur, status>>

AppendOutcome(w) == /\ pc[w] = "append"
                    /\ outcomes' = outcomes \cup {[task |-> cur[w], status |-> status[w]]}
                    /\ Goto(w, "claim")
                    /\ UNCHANGED <<now, reaperVars, queueVars, runVars, cur, status>>

\* A mutant of Exit: the thread's last act forgets the lease.
ExitKeepsLease(w) == /\ pc[w] = "exit"
                     /\ Goto(w, "off")
                     /\ UNCHANGED <<now, reaperVars, queueVars, runVars, outcomes, cur, status>>

\* The finally of _worker, however the loop ended.
Exit(w) == /\ pc[w] = "exit"
           /\ Reaper!Revoke(w)
           /\ Goto(w, "off")
           /\ UNCHANGED <<now, queueVars, runVars, outcomes, cur, status>>

\* A mutant of EndRun: it waits for the queue to drain, not for the threads.
EndRunWhenDrained ==
  /\ inRun /\ Outstanding = {}
  /\ inRun' = FALSE
  /\ reported' = reported \cup {o.task : o \in outcomes}
  /\ outcomes' = {}
  /\ pc' = [w \in Workers |-> "off"]
  /\ UNCHANGED <<now, reaperVars, queueVars, raising, runs, runNow, cur, status>>

\* The pool's executor joins every thread; run() returns the outcomes.
EndRun == /\ inRun /\ AllOff
          /\ inRun' = FALSE
          /\ reported' = reported \cup {o.task : o \in outcomes}
          /\ outcomes' = {}
          /\ UNCHANGED <<now, reaperVars, queueVars, raising, runs, runNow, pc, cur, status>>

\* reap(now), from the control plane, while workers run or not.
Reap == /\ Reaper!Reap(now)
        /\ UNCHANGED <<now, queueVars, runVars, outcomes, pc, cur, status>>

WorkerStep(w) == \/ TakeLease(w) \/ Claim(w) \/ ClaimEnds(w) \/ ClaimRaises(w) \/ CheckLease(w)
                 \/ RunTask(w) \/ Verify(w) \/ Ack(w) \/ AppendOutcome(w) \/ Exit(w)

Next == \/ Tick
        \/ \E t \in Tasks : Enqueue(t)
        \/ StartRun \/ EndRun
        \/ \E w \in Workers : WorkerStep(w)
        \/ Reap

Spec == Init /\ [][Next]_vars

\* A started run goes on: every thread is scheduled, and run() returns.
LiveSpec == /\ Spec
            /\ \A w \in Workers : WF_vars(WorkerStep(w))
            /\ WF_vars(EndRun)

----------------------------------------------------------------------------
Places == {"off", "grant", "claim", "check", "run", "verify", "ack", "append", "exit"}
Statuses == {"none", "pass", "fail", "error", "rejected"}
Holding == {"check", "run", "verify", "ack"}

TypeOK == /\ now \in 0..MaxTime /\ Reaper!ReaperTypeOK
          /\ Queued \subseteq Tasks /\ inflight \subseteq Tasks
          /\ outcomes \subseteq [task : Tasks, status : Statuses \ {"none"}]
          /\ reported \subseteq Tasks /\ raising \in Failings /\ inRun \in BOOLEAN
          /\ runs \in 0..MaxRuns /\ runNow \in 0..MaxTime
          /\ pc \in [Workers -> Places]
          /\ cur \in [Workers -> Tasks \cup {NoTask}]
          /\ status \in [Workers -> Statuses]

\* "N workers pull disjoint tasks": a task that a worker holds is in flight,
\* is not in the queue, and no other worker holds it.
ClaimsAreDisjoint ==
  \A w \in Workers : pc[w] \in Holding =>
    /\ cur[w] \in inflight \ Queued
    /\ \A v \in Workers \ {w} : pc[v] \in Holding => cur[v] # cur[w]

\* Each task has at most one outcome, over all workers.
OneOutcomePerTask ==
  \A o, p \in outcomes : o.task = p.task => o = p

\* Queue, workers and outcomes agree: a task is one worker's at a time, and is
\* worked on once.
BooksAgree == TypeOK /\ ClaimsAreDisjoint /\ OneOutcomePerTask

\* A task never leaves the books without a trace.  Once enqueued it is queued
\* or in flight, or a run has reported its outcome or is about to, whichever
\* claim or verify raised, and whatever ack did in memory.  Over Redis one
\* call may break this: an ack that the server has done and that then raises
\* takes the task and its outcome away together with the worker.
AckIsUnanswered(t) ==
  "ack" \in raising /\ \E w \in Workers : pc[w] = "ack" /\ cur[w] = t /\ pc'[w] = "exit"

NothingVanishes ==
  [][\A t \in Tasks : t \in Accounted => (t \in Accounted)' \/ AckIsUnanswered(t)]_vars

\* A worker's lease ends with the worker, crashed or not.
LeaseEndsWithWorker ==
  \A w \in Workers : pc[w] = "off" => ~Reaper!IsValid(w, runNow)

\* In the first run of a pool no worker is turned away early: it is rejected
\* only when its TTL has run out and the reaper took the lease.  (In a later
\* run the entry that the first one left in the heap may take the new lease
\* of the same worker: Reap of LeaseReaper.)
RejectedOnlyExpired ==
  runs = 1 => \A w \in Workers : pc[w] = "ack" /\ status[w] = "rejected" => runNow + LeaseTtl <= now

\* When no call raises, a run reports every task that was queued when it
\* started, whatever is reaped meanwhile.
RunReportsAll ==
  \A t \in Tasks :
    (raising = {} /\ t \in Queued /\ \A w \in Workers : pc[w] = "grant") ~> (t \in reported)
=============================================================================
