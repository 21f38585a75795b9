--------------------------- MODULE LifetimeProofs ---------------------------
(***************************************************************************)
(* Theorems about what ends when it should: the leases of LeaseReaper, for  *)
(* any ids, TTLs, clock and grant bounds, and the daemons of Daemons, for   *)
(* any pids, commands and number of jobs.                                   *)
(***************************************************************************)
EXTENDS LeaseReaper, Daemons, TLAPS

----------------------------------------------------------------------------
\* Leases.

\* The inductive invariant: with HeapCoversLeases, a type is all it needs,
\* because a pop that removes an entry of an id also forgets the id's lease.
LeaseInv == LeaseTypeOK /\ HeapCoversLeases

LEMMA ExpiryIsNat == ASSUME NEW ttl \in Ttls, LeaseTypeOK PROVE now + ttl \in Nat
  BY LeaseAssumption DEF LeaseTypeOK

\* Whatever a loop pops is in the heap.
LEMMA PoppedInHeap ==
  /\ Popped(RevokedEntries) \subseteq RevokedEntries
  /\ Popped(ExpiredEntries(now) \cup RevokedEntries) \subseteq heap
  BY DEF Popped, RevokedEntries, ExpiredEntries

\* Every reachable state is well-typed and the heap covers the dict.
LEMMA LeaseInductive == LeaseSpec => []LeaseInv
<1>1. LeaseInit => LeaseInv
  BY DEF LeaseInit, ReaperInit, LeaseInv, LeaseTypeOK, ReaperTypeOK, HeapCoversLeases, NoLease
<1>2. LeaseInv /\ [LeaseNext]_leaseVars => LeaseInv'
  <2> SUFFICES ASSUME LeaseInv, [LeaseNext]_leaseVars PROVE LeaseInv'
    OBVIOUS
  <2> USE DEF LeaseInv, LeaseTypeOK, ReaperTypeOK, HeapCoversLeases
  <2>1. CASE Tick
    BY <2>1 DEF Tick, reaperVars
  <2>2. ASSUME NEW id \in LeaseIds, NEW ttl \in Ttls, Grant(id, ttl, now), UNCHANGED now PROVE LeaseInv'
    <3>1. now + ttl \in Nat
      BY ExpiryIsNat
    <3>2. LeaseTypeOK'
      BY <2>2, <3>1 DEF Grant, Entry
    <3>3. ASSUME NEW i \in LeaseIds, leases'[i] # NoLease, i \notin revoked'
          PROVE  \E e \in heap' : e.id = i /\ e.expiry = leases'[i]
      <4> DEFINE new == [id |-> id, expiry |-> now + ttl, seq |-> seq]
      <4>1. CASE i = id
        <5>1. new \in heap' /\ new.id = i /\ new.expiry = leases'[i]
          BY <2>2, <4>1 DEF Grant
        <5>2. QED BY <5>1
      <4>2. CASE i # id
        <5>1. leases'[i] = leases[i] /\ i \notin revoked
          BY <2>2, <3>3, <4>2 DEF Grant
        <5>2. PICK e \in heap : e.id = i /\ e.expiry = leases[i]
          BY <3>3, <5>1
        <5>3. QED BY <2>2, <5>1, <5>2 DEF Grant
      <4>3. QED BY <4>1, <4>2
    <3>4. QED BY <3>2, <3>3
  <2>3. ASSUME NEW id \in LeaseIds, Revoke(id), UNCHANGED now PROVE LeaseInv'
    BY <2>3 DEF Revoke
  <2>4. CASE NextExpiry /\ UNCHANGED now
    BY <2>4, PoppedInHeap DEF NextExpiry, RevokedEntries
  <2>5. CASE Reap(now) /\ UNCHANGED now
    <3>1. LeaseTypeOK'
      BY <2>5 DEF Reap, ReapBy
    <3>2. HeapCoversLeases'
      BY <2>5 DEF Reap, ReapBy
    <3>3. QED BY <3>1, <3>2
  <2>6. CASE UNCHANGED leaseVars
    BY <2>6 DEF leaseVars, reaperVars
  <2>7. QED BY <2>1, <2>2, <2>3, <2>4, <2>5, <2>6 DEF LeaseNext
<1>3. QED BY <1>1, <1>2, PTL DEF LeaseSpec

\* LeaseTypeOK: the three structures keep their types.
THEOREM LeaseTypeCorrect == LeaseSpec => []LeaseTypeOK
  BY LeaseInductive, PTL DEF LeaseInv

\* HeapCoversLeases: no unrevoked lease is ever out of the reaper's reach.
THEOREM LeasesAreReachable == LeaseSpec => []HeapCoversLeases
  BY LeaseInductive, PTL DEF LeaseInv

\* ReapTakesExpired: reap leaves no unrevoked lease whose time has come.
THEOREM ReapIsComplete == LeaseSpec => ReapTakesExpired
<1> DEFINE Complete ==
      /\ \A e \in heap' : now < e.expiry
      /\ \A id \in LeaseIds \ revoked : leases'[id] = NoLease \/ now < leases'[id]
<1>1. LeaseInv /\ [LeaseNext]_leaseVars => [Reap(now) => Complete]_leaseVars
  <2> SUFFICES ASSUME LeaseInv, Reap(now) PROVE Complete
    OBVIOUS
  <2> DEFINE dead == ExpiredEntries(now) \cup RevokedEntries
  <2> USE DEF LeaseInv, LeaseTypeOK, ReaperTypeOK
  \* An expired entry that stayed would lie behind one that is not dead, but
  \* whatever lies before it has expired too.
  <2>1. ASSUME NEW e \in ExpiredEntries(now) PROVE e \in Popped(dead)
    <3>1. ASSUME NEW f \in heap, Before(f, e) PROVE f \in ExpiredEntries(now)
      <4>1. e \in Entry /\ f \in Entry /\ now \in Nat /\ e.expiry <= now
        BY DEF ExpiredEntries
      <4>2. f.expiry <= now
        BY <3>1, <4>1 DEF Before, Entry
      <4>3. QED BY <4>2 DEF ExpiredEntries
    <3>2. QED BY <3>1 DEF Popped
  <2>2. ASSUME NEW e \in heap' PROVE now < e.expiry
    <3>1. e \in heap /\ e \notin ExpiredEntries(now)
      BY <2>1, <2>2 DEF Reap, ReapBy
    <3>2. e \in Entry /\ now \in Nat
      BY <3>1
    <3>3. QED BY <3>1, <3>2 DEF ExpiredEntries, Entry
  <2>3. ASSUME NEW id \in LeaseIds \ revoked, leases'[id] # NoLease PROVE now < leases'[id]
    <3>1. leases[id] = leases'[id] /\ ~\E e \in Popped(dead) : e.id = id
      BY <2>3 DEF Reap, ReapBy
    <3>2. PICK e \in heap : e.id = id /\ e.expiry = leases[id]
      BY <2>3, <3>1 DEF HeapCoversLeases
    <3>3. e \in heap'
      BY <3>1, <3>2 DEF Reap, ReapBy
    <3>4. QED BY <2>2, <3>1, <3>2, <3>3
  <2>4. QED BY <2>2, <2>3
<1>2. QED BY <1>1, LeaseInductive, PTL DEF LeaseSpec, ReapTakesExpired

\* AuthorityIsGranted: the reaper implements Authority; an id has authority
\* only within the TTL of its latest grant.
THEOREM ImplementsAuthority == LeaseSpec => AuthorityIsGranted
<1> DEFINE h == [id \in LeaseIds |-> IF id \in revoked THEN NoLease ELSE leases[id]]
<1>1. LeaseInit => Abstract!Init
  BY DEF LeaseInit, ReaperInit, Abstract!Init, Abstract!NoAuthority, NoLease
<1>2. LeaseInv /\ [LeaseNext]_leaseVars => [Abstract!Next]_<<now, h>>
  <2> SUFFICES ASSUME LeaseInv, [LeaseNext]_leaseVars PROVE [Abstract!Next]_<<now, h>>
    OBVIOUS
  <2> USE DEF LeaseInv, LeaseTypeOK, ReaperTypeOK
  <2>1. CASE Tick
    BY <2>1 DEF Tick, reaperVars, Abstract!Next, Abstract!Tick
  <2>2. ASSUME NEW id \in LeaseIds, NEW ttl \in Ttls, Grant(id, ttl, now), UNCHANGED now PROVE Abstract!Grant(id, ttl)
    BY <2>2 DEF Grant, Abstract!Grant
  <2>3. ASSUME NEW id \in LeaseIds, Revoke(id), UNCHANGED now PROVE Abstract!Withdraw({id})
    BY <2>3 DEF Revoke, Abstract!Withdraw, Abstract!NoAuthority, NoLease
  <2>4. CASE NextExpiry /\ UNCHANGED now
    BY <2>4 DEF NextExpiry
  <2>5. CASE Reap(now) /\ UNCHANGED now
    <3> DEFINE popped == Popped(ExpiredEntries(now) \cup RevokedEntries)
               ids == {id \in LeaseIds : \E e \in popped : e.id = id}
    <3>1. ids \in SUBSET LeaseIds
      OBVIOUS
    <3>2. Abstract!Withdraw(ids)
      BY <2>5 DEF Reap, ReapBy, Abstract!Withdraw, Abstract!NoAuthority, NoLease
    <3>3. \E S \in SUBSET LeaseIds : Abstract!Withdraw(S)
      BY <3>1, <3>2 DEF Abstract!Withdraw
    <3>4. Abstract!Next
      BY <3>3 DEF Abstract!Next
    <3>5. QED BY <3>4
  <2>6. CASE UNCHANGED leaseVars
    BY <2>6 DEF leaseVars, reaperVars
  <2>7. QED BY <2>1, <2>2, <2>3, <2>4, <2>5, <2>6 DEF LeaseNext, Abstract!Next
<1>3. QED BY <1>1, <1>2, LeaseInductive, PTL DEF LeaseSpec, AuthorityIsGranted, Abstract!Spec

----------------------------------------------------------------------------
\* Daemons.  A command that runs alone and sees what it scans leaves none of the
\* daemons alive that it sweeps, because only commands start daemons; from there
\* on, the daemon that is alive is the one in the pidfile, or the one that the
\* command is about to note there.

\* A daemon that may still serve.
Serving(p) == Live(p) /\ proc[p] # "cleaning"

\* Where a command can be, by what it was asked to do.
Staged(c) ==
  /\ Active(c) /\ cmd[c].job = "stop" => cmd[c].at \in {"ask", "end"}
  /\ Active(c) /\ cmd[c].job = "up" => cmd[c].at \notin {"ask", "read", "unlink"} /\ cmd[c].spared = {}
  /\ Active(c) /\ cmd[c].job = "down" => cmd[c].at \notin {"ask", "start", "note"}
  /\ Active(c) /\ cmd[c].job = "restart" => cmd[c].at \notin {"ask", "start", "note", "end"}
  /\ cmd[c].at \in {"signal", "reap"} => cmd[c].stage \in {"first", "stray"} /\ kind \in Scanned
  /\ cmd[c].at \in {"signal", "reap"} /\ cmd[c].job = "up" => cmd[c].stage = "stray"
  /\ cmd[c].at = "unlink" => kind \in Scanned
  /\ cmd[c].at = "read" => cmd[c].spared = {}

OneAtWork == /\ calm => alone
             /\ alone => \A c, d \in Commands : Active(c) /\ Active(d) => c = d

\* At its first strike or before the next.
First(c) == (cmd[c].at \in {"signal", "reap"} /\ cmd[c].stage = "first") \/ cmd[c].at = "unlink"
Stray(c) == cmd[c].at \in {"signal", "reap"} /\ cmd[c].stage = "stray"

\* A sweep that nothing overlaps: whoever is alive is among those it strikes.
SweepIsComplete(c) ==
  alone /\ kind \in Scanned =>
    /\ First(c) /\ cmd[c].at = "signal" => cmd[c].spared \subseteq cmd[c].on
    /\ First(c) /\ cmd[c].at = "reap" => \A p \in cmd[c].spared : Live(p) => p \in cmd[c].on
    /\ cmd[c].at \in {"unlink", "scan"} => \A p \in cmd[c].spared : ~Live(p)
    /\ Stray(c) => \A p \in Pids : Live(p) => p \in cmd[c].on
    /\ cmd[c].at = "start" \/ (cmd[c].at = "end" /\ cmd[c].job = "down") => \A p \in Pids : ~Live(p)

\* Nothing has overlapped, or the sweep of c that repairs it is over.
Past(c) == cmd[c].at \in {"start", "note", "end"} /\ cmd[c].job # "stop"
Settled == calm \/ (alone /\ kind \in Scanned /\ \E c \in Commands : Past(c))

\* One daemon, but for one that is only cleaning up and that no scan can see.
OneIsAlive ==
  \A p, q \in Pids : Live(p) /\ Live(q) /\ p # q =>
    kind \notin Scanned /\ (proc[p] = "cleaning" \/ proc[q] = "cleaning")

\* The pidfile has the daemon, or will have it.
OneIsTracked ==
  \A p \in Pids : Serving(p) => \/ pidfile = p
                                \/ proc[p] = "spawned" /\ \E c \in Commands : cmd[c].at = "note"
NoteIsRight(c) == cmd[c].at = "note" => \A p \in Pids : Serving(p) => p = cmd[c].got

\* The pid that `down` read is that of the daemon there is.
ReadIsRight(c) == calm /\ First(c) => \A p \in Pids : Serving(p) => p \in cmd[c].spared

\* The inductive invariant.
DaemonsInv == /\ TypeOK /\ OneAtWork
              /\ \A c \in Commands : Staged(c) /\ SweepIsComplete(c) /\ ReadIsRight(c)
              /\ Settled => OneIsAlive /\ OneIsTracked /\ \A c \in Commands : NoteIsRight(c)

----------------------------------------------------------------------------
\* A command that is assigned a record has it, and no other command is touched.
LEMMA Assigned ==
  ASSUME TypeOK, NEW c \in Commands, NEW r \in Command, cmd' = [cmd EXCEPT ![c] = r]
  PROVE  /\ cmd' \in [Commands -> Command] /\ cmd'[c] = r
         /\ \A d \in Commands \ {c} : cmd'[d] = cmd[d]
BY DEF TypeOK

\* What is known of a command at work.
LEMMA AtWork ==
  ASSUME DaemonsInv, NEW c \in Commands, Active(c)
  PROVE  /\ cmd[c] \in Command /\ Staged(c) /\ SweepIsComplete(c) /\ ReadIsRight(c)
         /\ alone => \A d \in Commands \ {c} : cmd[d].at = "idle"
         /\ Settled => /\ alone /\ (calm \/ (kind \in Scanned /\ Past(c)))
                       /\ OneIsAlive /\ NoteIsRight(c)
                       /\ cmd[c].at # "note" => \A p \in Pids : Serving(p) => pidfile = p
<1>1. cmd[c] \in Command /\ Staged(c) /\ SweepIsComplete(c) /\ ReadIsRight(c)
  BY DEF DaemonsInv, TypeOK
<1>2. alone => \A d \in Commands \ {c} : cmd[d].at = "idle"
  BY DEF DaemonsInv, OneAtWork, Active
<1>3. ASSUME Settled
      PROVE  /\ alone /\ (calm \/ (kind \in Scanned /\ Past(c)))
             /\ OneIsAlive /\ NoteIsRight(c)
             /\ cmd[c].at # "note" => \A p \in Pids : Serving(p) => pidfile = p
  <2>1. alone
    BY <1>3 DEF Settled, DaemonsInv, OneAtWork
  <2>2. calm \/ (kind \in Scanned /\ Past(c))
    BY <1>2, <1>3, <2>1 DEF Settled, Past
  <2>3. OneIsAlive /\ OneIsTracked /\ NoteIsRight(c)
    BY <1>3 DEF DaemonsInv
  <2>4. cmd[c].at # "note" => ~\E d \in Commands : cmd[d].at = "note"
    BY <1>2, <2>1
  <2> QED
    BY <2>1, <2>2, <2>3, <2>4 DEF OneIsTracked
<1> QED
  BY <1>1, <1>2, <1>3

\* A step of c keeps the invariant if it does so for c.
LEMMA StepOfOne ==
  ASSUME DaemonsInv, NEW c \in Commands, Active(c), TypeOK', kind' = kind,
         \A d \in Commands \ {c} : cmd'[d] = cmd[d],
         alone' => alone, calm' => alone',
         Staged(c)', SweepIsComplete(c)', ReadIsRight(c)',
         calm' \/ (alone' /\ kind \in Scanned /\ Past(c)') =>
           OneIsAlive' /\ OneIsTracked' /\ NoteIsRight(c)'
  PROVE  DaemonsInv'
<1>1. ASSUME alone' PROVE \A d \in Commands \ {c} : cmd'[d].at = "idle"
  BY <1>1, AtWork
<1>2. OneAtWork'
  BY <1>1 DEF OneAtWork, Active
<1>3. ASSUME NEW d \in Commands \ {c} PROVE Staged(d)' /\ SweepIsComplete(d)' /\ ReadIsRight(d)'
  <2>1. Staged(d)'
    BY DEF DaemonsInv, Staged, Active
  <2>2. alone' => cmd'[d].at = "idle"
    BY <1>1
  <2> QED
    BY <2>1, <2>2 DEF SweepIsComplete, ReadIsRight, First, Stray
<1>4. ASSUME Settled' PROVE OneIsAlive' /\ OneIsTracked' /\ \A d \in Commands : NoteIsRight(d)'
  <2>1. alone'
    BY <1>4 DEF Settled
  <2>2. calm' \/ (alone' /\ kind \in Scanned /\ Past(c)')
    BY <1>1, <1>4, <2>1 DEF Settled, Past
  <2>3. \A d \in Commands \ {c} : NoteIsRight(d)'
    BY <1>1, <2>1 DEF NoteIsRight
  <2> QED
    BY <2>2, <2>3
<1> QED
  BY <1>2, <1>3, <1>4 DEF DaemonsInv

----------------------------------------------------------------------------
\* A step of the daemons, or of the system, brings no daemon to life.
LEMMA StepOfDaemon ==
  ASSUME DaemonsInv, UNCHANGED <<kind, cmd, jobs, history>>, TypeOK',
         \A p \in Pids : (Live(p)' => Live(p)) /\ (Serving(p)' => Serving(p)),
         OneIsAlive /\ OneIsTracked => OneIsTracked'
  PROVE  DaemonsInv'
<1>1. OneAtWork'
  BY DEF DaemonsInv, OneAtWork, Active, history
<1>2. ASSUME NEW c \in Commands PROVE Staged(c)' /\ SweepIsComplete(c)' /\ ReadIsRight(c)'
  <2>1. Staged(c) /\ SweepIsComplete(c) /\ ReadIsRight(c) /\ cmd[c] \in Command
    BY DEF DaemonsInv, TypeOK
  <2>2. Staged(c)'
    BY <2>1 DEF Staged, Active
  <2>3. SweepIsComplete(c)'
    BY <2>1 DEF SweepIsComplete, First, Stray, history, Command
  <2>4. ReadIsRight(c)'
    BY <2>1 DEF ReadIsRight, First, history
  <2> QED
    BY <2>2, <2>3, <2>4
<1>3. ASSUME Settled' PROVE OneIsAlive' /\ OneIsTracked' /\ \A c \in Commands : NoteIsRight(c)'
  <2>1. Settled
    BY <1>3 DEF Settled, Past, history
  <2>2. OneIsAlive /\ OneIsTracked /\ \A c \in Commands : NoteIsRight(c)
    BY <2>1 DEF DaemonsInv
  <2>3. OneIsAlive'
    BY <2>2 DEF OneIsAlive, Serving
  <2>4. \A c \in Commands : NoteIsRight(c)'
    BY <2>2 DEF NoteIsRight
  <2> QED
    BY <2>2, <2>3, <2>4
<1> QED
  BY <1>1, <1>2, <1>3 DEF DaemonsInv

LEMMA WritePidKeeps == ASSUME DaemonsInv, NEW p \in Pids, WritePid(p) PROVE DaemonsInv'
<1>1. TypeOK' /\ UNCHANGED <<kind, cmd, jobs, history>>
  BY DEF WritePid, DaemonsInv, TypeOK, history
<1>2. \A q \in Pids : (Live(q)' => Live(q)) /\ (Serving(q)' => Serving(q))
  BY DEF WritePid, DaemonsInv, TypeOK, Live, Serving
<1>3. ASSUME OneIsAlive PROVE OneIsTracked'
  <2>1. \A q \in Pids : Serving(q)' => q = p
    BY <1>2, <1>3 DEF OneIsAlive, WritePid, Serving, Live
  <2> QED
    BY <2>1 DEF OneIsTracked, WritePid
<1> QED
  BY <1>1, <1>2, <1>3, StepOfDaemon

LEMMA ServeKeeps == ASSUME DaemonsInv, NEW p \in Pids, Serve(p) PROVE DaemonsInv'
<1>1. TypeOK' /\ UNCHANGED <<kind, cmd, jobs, history>>
  BY DEF Serve, DaemonsInv, TypeOK, history
<1>2. \A q \in Pids : (Live(q)' => Live(q)) /\ (Serving(q)' => Serving(q))
  BY DEF Serve, DaemonsInv, TypeOK, Live, Serving
<1>3. ASSUME OneIsTracked PROVE OneIsTracked'
  BY <1>2, <1>3 DEF OneIsTracked, Serve, DaemonsInv, TypeOK
<1> QED
  BY <1>1, <1>2, <1>3, StepOfDaemon

LEMMA NoticeStopKeeps == ASSUME DaemonsInv, NEW p \in Pids, NoticeStop(p) PROVE DaemonsInv'
<1>1. TypeOK' /\ UNCHANGED <<kind, cmd, jobs, history>>
  BY DEF NoticeStop, DaemonsInv, TypeOK, history
<1>2. \A q \in Pids : (Live(q)' => Live(q)) /\ (Serving(q)' => Serving(q))
  BY DEF NoticeStop, DaemonsInv, TypeOK, Live, Serving
<1>3. ASSUME OneIsTracked PROVE OneIsTracked'
  BY <1>2, <1>3 DEF OneIsTracked, NoticeStop, DaemonsInv, TypeOK
<1> QED
  BY <1>1, <1>2, <1>3, StepOfDaemon

\* The pidfile that a sentinel daemon removes is its own: no other is serving.
LEMMA LeaveKeeps == ASSUME DaemonsInv, NEW p \in Pids, Leave(p) PROVE DaemonsInv'
<1>1. TypeOK' /\ UNCHANGED <<kind, cmd, jobs, history>>
  BY DEF Leave, DaemonsInv, TypeOK, history
<1>2. \A q \in Pids : /\ Live(q)' => Live(q)
                      /\ Serving(q)' => Serving(q) /\ q # p /\ proc'[q] = proc[q]
  BY DEF Leave, DaemonsInv, TypeOK, Live, Serving
<1>3. ASSUME OneIsAlive, OneIsTracked PROVE OneIsTracked'
  <2>1. Live(p) /\ Serving(p)
    BY DEF Leave, Live, Serving
  <2>2. \A q \in Pids : ~Serving(q)'
    BY <1>2, <1>3, <2>1 DEF OneIsAlive, Serving
  <2> QED
    BY <2>2 DEF OneIsTracked
<1> QED
  BY <1>1, <1>2, <1>3, StepOfDaemon

\* Of the kinds that a scan can see, none other is alive when one cleans up.
LEMMA ExitKeeps == ASSUME DaemonsInv, NEW p \in Pids, Exit(p) PROVE DaemonsInv'
<1>1. TypeOK' /\ UNCHANGED <<kind, cmd, jobs, history>>
  BY DEF Exit, DaemonsInv, TypeOK, history
<1>2. \A q \in Pids : /\ Live(q)' => Live(q)
                      /\ Serving(q)' => Serving(q) /\ q # p /\ proc'[q] = proc[q]
  BY DEF Exit, DaemonsInv, TypeOK, Live, Serving
<1>3. ASSUME OneIsAlive, OneIsTracked PROVE OneIsTracked'
  <2>1. CASE pidfile' = pidfile
    BY <1>2, <1>3, <2>1 DEF OneIsTracked, Exit
  <2>2. CASE pidfile' # pidfile
    <3>1. kind \in Scanned /\ Live(p)
      BY <2>2 DEF Exit, DaemonsInv, TypeOK, Kinds, OnSentinel, Scanned, Live
    <3>2. \A q \in Pids : ~Serving(q)'
      BY <1>2, <1>3, <3>1 DEF OneIsAlive, Serving
    <3> QED
      BY <3>2 DEF OneIsTracked
  <2> QED
    BY <2>1, <2>2
<1> QED
  BY <1>1, <1>2, <1>3, StepOfDaemon

LEMMA SystemKeeps == ASSUME DaemonsInv, NEW p \in Pids, Crash(p) \/ Reuse(p) \/ Release(p) PROVE DaemonsInv'
<1>1. TypeOK' /\ UNCHANGED <<kind, cmd, jobs, history>> /\ pidfile' = pidfile
  BY DEF Crash, Reuse, Release, DaemonsInv, TypeOK, history
<1>2. \A q \in Pids : /\ Live(q)' => Live(q)
                      /\ Serving(q)' => Serving(q) /\ proc'[q] = proc[q]
  BY DEF Crash, Reuse, Release, DaemonsInv, TypeOK, Live, Serving
<1>3. ASSUME OneIsTracked PROVE OneIsTracked'
  BY <1>1, <1>2, <1>3 DEF OneIsTracked
<1> QED
  BY <1>1, <1>2, <1>3, StepOfDaemon

----------------------------------------------------------------------------
\* A command that begins while none is at work finds things as they are.
LEMMA BeginKeeps == ASSUME DaemonsInv, NEW c \in Commands, NEW job \in Jobs, Begin(c, job) PROVE DaemonsInv'
<1> DEFINE r == [job |-> job,
                 at |-> CASE job = "up" -> "scan" [] job = "stop" -> "ask" [] OTHER -> "read",
                 stage |-> "none", on |-> {}, spared |-> {}, got |-> NoPid]
<1>1. r.at \in {"scan", "ask", "read"} /\ (job = "up" => r.at = "scan")
      /\ (job = "stop" => r.at = "ask") /\ (job \in {"down", "restart"} => r.at = "read")
  BY DEF Jobs
<1>2. r \in Command
  BY <1>1 DEF Command, Places, Stages
<1>3. cmd' \in [Commands -> Command] /\ cmd'[c] = r /\ \A d \in Commands \ {c} : cmd'[d] = cmd[d]
  BY <1>2, Assigned DEF Begin, DaemonsInv
<1>4. /\ cmd'[c].at \in {"scan", "ask", "read"} /\ cmd'[c].job = job /\ cmd'[c].spared = {}
      /\ job = "up" => cmd'[c].at = "scan"
      /\ job = "stop" => cmd'[c].at = "ask"
      /\ job \in {"down", "restart"} => cmd'[c].at = "read"
  BY <1>1, <1>3
<1> HIDE DEF r
<1>5. alone' \in BOOLEAN /\ calm' \in BOOLEAN /\ stop' \in BOOLEAN /\ jobs' \in 0..MaxJobs
  BY DaemonsAssumption DEF Begin, DaemonsInv, TypeOK
<1>6. TypeOK'
  BY <1>3, <1>5 DEF Begin, DaemonsInv, TypeOK
<1>7. OneAtWork'
  BY <1>3 DEF Begin, OneAtWork, Active
<1>8. ASSUME NEW d \in Commands PROVE Staged(d)' /\ SweepIsComplete(d)' /\ ReadIsRight(d)'
  <2>1. CASE d = c
    BY <1>4, <2>1 DEF Staged, SweepIsComplete, ReadIsRight, First, Stray, Active, Jobs
  <2>2. CASE d # c
    <3>1. Staged(d)' /\ (alone' => cmd'[d].at = "idle") /\ (calm' => alone')
      BY <1>3, <2>2 DEF Begin, DaemonsInv, Staged, Active
    <3> QED
      BY <3>1 DEF SweepIsComplete, ReadIsRight, First, Stray
  <2> QED
    BY <2>1, <2>2
<1>9. ASSUME Settled' PROVE OneIsAlive' /\ OneIsTracked' /\ \A d \in Commands : NoteIsRight(d)'
  <2>1. alone'
    BY <1>9 DEF Settled, Begin
  <2>2. \A d \in Commands : cmd[d].at = "idle" /\ cmd'[d].at \notin {"start", "note", "end"}
    BY <1>3, <1>4, <2>1 DEF Begin, Active
  <2>3. calm
    BY <1>9, <2>2 DEF Settled, Past, Begin
  <2>4. OneIsAlive /\ OneIsTracked
    BY <2>3 DEF DaemonsInv, Settled
  <2> QED
    BY <2>2, <2>4 DEF OneIsAlive, OneIsTracked, NoteIsRight, Begin, Serving, Live
<1> QED
  BY <1>6, <1>7, <1>8, <1>9 DEF DaemonsInv

\* `down` reads the pidfile of the daemon there is.
LEMMA ReadPidKeeps == ASSUME DaemonsInv, NEW c \in Commands, ReadPid(c) PROVE DaemonsInv'
<1>1. /\ cmd[c] \in Command /\ Active(c) /\ Staged(c) /\ cmd[c].at = "read"
      /\ cmd[c].job \in {"down", "restart"}
  BY AtWork DEF ReadPid, Active, Staged, Command, Jobs
<1> DEFINE found == kind \in Listed /\ pidfile # NoPid
           r == IF found THEN [cmd[c] EXCEPT !.at = "signal", !.stage = "first",
                                             !.on = {pidfile}, !.spared = {pidfile}]
                ELSE [cmd[c] EXCEPT !.at = "scan"]
<1>2. r \in Command
  BY <1>1 DEF Command, Places, Stages, DaemonsInv, TypeOK
<1>3. cmd' = [cmd EXCEPT ![c] = r]
  BY <1>1 DEF ReadPid, Goto, DaemonsInv, TypeOK, Command
<1>4. cmd' \in [Commands -> Command] /\ cmd'[c] = r /\ \A d \in Commands \ {c} : cmd'[d] = cmd[d]
  BY <1>2, <1>3, Assigned DEF DaemonsInv
<1>5. /\ cmd'[c].job = cmd[c].job
      /\ \/ /\ found /\ cmd'[c].at = "signal" /\ cmd'[c].stage = "first"
            /\ cmd'[c].on = {pidfile} /\ cmd'[c].spared = {pidfile}
         \/ ~found /\ cmd'[c].at = "scan" /\ cmd'[c].spared = cmd[c].spared
  BY <1>1, <1>4 DEF Command
<1>6. TypeOK' /\ UNCHANGED <<kind, proc, pidfile, stop, alone, calm>>
  BY <1>4 DEF ReadPid, DaemonsInv, TypeOK, system, history
<1>7. Staged(c)'
  BY <1>1, <1>5, <1>6 DEF Staged, Active, Listed, Scanned
<1>8. SweepIsComplete(c)'
  BY <1>1, <1>5, <1>6 DEF SweepIsComplete, First, Stray, Staged
<1>9. ReadIsRight(c)'
  <2> SUFFICES ASSUME calm, found, NEW p \in Pids, Serving(p) PROVE p = pidfile
    BY <1>5, <1>6 DEF ReadIsRight, First, Serving, Live
  <2> QED
    BY <1>1, AtWork DEF Settled
<1>10. ASSUME calm' \/ (alone' /\ kind \in Scanned /\ Past(c)')
       PROVE  OneIsAlive' /\ OneIsTracked' /\ NoteIsRight(c)'
  <2>1. Settled
    BY <1>5, <1>6, <1>10 DEF Past, Settled
  <2>2. OneIsAlive /\ \A p \in Pids : Serving(p) => pidfile = p
    BY <1>1, <2>1, AtWork
  <2> QED
    BY <1>5, <1>6, <2>2 DEF OneIsAlive, OneIsTracked, NoteIsRight, Live, Serving
<1>11. calm' => alone'
  BY <1>6 DEF DaemonsInv, OneAtWork
<1> QED
  BY <1>1, <1>4, <1>6, <1>7, <1>8, <1>9, <1>10, <1>11, StepOfOne

\* SIGTERM brings nothing to life.
LEMMA StruckIsWeaker ==
  ASSUME TypeOK, NEW p \in Pids
  PROVE  /\ Struck(p) \in {"free", "leaving", "cleaning"}
         /\ Struck(p) # "free" => Live(p)
         /\ Struck(p) = "leaving" => Serving(p)
BY DEF TypeOK, Struck, Live, Serving

\* Whoever is alive among the pids gets its SIGTERM.
LEMMA SignalKeeps == ASSUME DaemonsInv, NEW c \in Commands, Signal(c) PROVE DaemonsInv'
<1>1. /\ cmd[c] \in Command /\ Active(c) /\ Staged(c) /\ cmd[c].at = "signal"
      /\ SweepIsComplete(c) /\ ReadIsRight(c)
  BY AtWork DEF Signal, Active
<1> DEFINE left == {p \in cmd[c].on : proc[p] # "free"}
           r == [cmd[c] EXCEPT !.at = "reap", !.on = left]
<1>2. r \in Command
  BY <1>1 DEF Command, Places
<1>3. cmd' = [cmd EXCEPT ![c] = r]
  BY <1>1 DEF Signal, DaemonsInv, TypeOK, Command
<1>4. cmd' \in [Commands -> Command] /\ cmd'[c] = r /\ \A d \in Commands \ {c} : cmd'[d] = cmd[d]
  BY <1>2, <1>3, Assigned DEF DaemonsInv
<1>5. /\ cmd'[c].job = cmd[c].job /\ cmd'[c].at = "reap" /\ cmd'[c].stage = cmd[c].stage
      /\ cmd'[c].on = left /\ cmd'[c].spared = cmd[c].spared
  BY <1>1, <1>4 DEF Command
<1>6. TypeOK' /\ UNCHANGED <<kind, pidfile, stop, alone, calm>>
  <2>1. proc' \in [Pids -> {"free", "stranger", "spawned", "noted", "running", "leaving", "cleaning"}]
    BY StruckIsWeaker DEF Signal, DaemonsInv, TypeOK
  <2> QED
    BY <1>4, <2>1 DEF Signal, DaemonsInv, TypeOK, history
<1>7. \A p \in Pids : /\ Live(p)' => Live(p) /\ proc[p] # "free"
                      /\ Serving(p)' => Serving(p)
                      /\ p \notin cmd[c].on => proc'[p] = proc[p]
  BY StruckIsWeaker DEF Signal, Live, Serving, DaemonsInv, TypeOK
<1>8. Staged(c)'
  BY <1>1, <1>5, <1>6 DEF Staged, Active
<1>9. SweepIsComplete(c)'
  BY <1>1, <1>5, <1>6, <1>7 DEF SweepIsComplete, First, Stray, Command
<1>10. ReadIsRight(c)'
  BY <1>1, <1>5, <1>6, <1>7 DEF ReadIsRight, First
<1>11. ASSUME calm' \/ (alone' /\ kind \in Scanned /\ Past(c)')
       PROVE  OneIsAlive' /\ OneIsTracked' /\ NoteIsRight(c)'
  <2>1. Settled
    BY <1>5, <1>6, <1>11 DEF Past, Settled
  <2>2. OneIsAlive /\ \A p \in Pids : Serving(p) => pidfile = p
    BY <1>1, <2>1, AtWork
  <2>3. OneIsAlive'
    BY <1>6, <1>7, <2>2 DEF OneIsAlive, Serving
  <2> QED
    BY <1>5, <1>6, <1>7, <2>2, <2>3 DEF OneIsTracked, NoteIsRight
<1>12. calm' => alone'
  BY <1>6 DEF DaemonsInv, OneAtWork
<1> QED
  BY <1>1, <1>4, <1>6, <1>8, <1>9, <1>10, <1>11, <1>12, StepOfOne

\* What a command becomes when a scan is over.
LEMMA SweptIs ==
  ASSUME NEW m \in Command
  PROVE  /\ Swept(m) \in Command /\ Swept(m).spared = {}
         /\ m.job = "down" => Swept(m).job = "down" /\ Swept(m).at = "end"
         /\ m.job = "restart" => Swept(m).job = "up" /\ Swept(m).at = "scan"
         /\ m.job \in {"up", "stop"} => Swept(m).job = m.job /\ Swept(m).at = "start"
<1> DEFINE job == IF m.job = "restart" THEN "up" ELSE m.job
           at == CASE m.job = "down" -> "end" [] m.job = "restart" -> "scan" [] OTHER -> "start"
<1>1. /\ m.job \in Jobs /\ job \in Jobs /\ at \in {"end", "scan", "start"}
      /\ m.job = "down" => job = "down" /\ at = "end"
      /\ m.job = "restart" => job = "up" /\ at = "scan"
      /\ m.job \in {"up", "stop"} => job = m.job /\ at = "start"
  BY DEF Command, Jobs
<1>2. Swept(m) = [m EXCEPT !.job = job, !.spared = {}, !.at = at]
  BY DEF Swept
<1> HIDE DEF job, at
<1> QED
  BY <1>1, <1>2 DEF Command, Places

\* Whoever still has one of the pids is killed; the sweep of the strays leaves nobody.
LEMMA KillKeeps == ASSUME DaemonsInv, NEW c \in Commands, Kill(c) PROVE DaemonsInv'
<1>1. /\ cmd[c] \in Command /\ Active(c) /\ Staged(c) /\ cmd[c].at = "reap"
      /\ SweepIsComplete(c) /\ ReadIsRight(c) /\ cmd[c].job \in {"up", "down", "restart"}
  BY AtWork DEF Kill, Active, Staged, Command, Jobs
<1> DEFINE r == Reaped(cmd[c])
<1>2. /\ r \in Command
      /\ cmd[c].stage = "first" => /\ r.at = "unlink" /\ r.job = cmd[c].job /\ r.spared = cmd[c].spared
                                   /\ cmd[c].job # "up"
      /\ cmd[c].stage # "first" =>
           /\ cmd[c].stage = "stray" /\ r.spared = {}
           /\ cmd[c].job = "down" => r.job = "down" /\ r.at = "end"
           /\ cmd[c].job = "restart" => r.job = "up" /\ r.at = "scan"
           /\ cmd[c].job = "up" => r.job = "up" /\ r.at = "start"
  <2>1. CASE cmd[c].stage = "first"
    BY <1>1, <2>1 DEF Reaped, Command, Places, Staged
  <2>2. CASE cmd[c].stage # "first"
    <3>1. r = Swept(cmd[c])
      BY <2>2 DEF Reaped
    <3> QED
      BY <1>1, <2>2, <3>1, SweptIs DEF Staged
  <2> QED
    BY <2>1, <2>2
<1>3. cmd' = [cmd EXCEPT ![c] = r]
  BY DEF Kill
<1> HIDE DEF r
<1>4. cmd' \in [Commands -> Command] /\ cmd'[c] = r /\ \A d \in Commands \ {c} : cmd'[d] = cmd[d]
  BY <1>2, <1>3, Assigned DEF DaemonsInv
<1>5. TypeOK' /\ UNCHANGED <<kind, pidfile, stop, alone, calm>>
  BY <1>4 DEF Kill, DaemonsInv, TypeOK, history
<1>6. \A p \in Pids : /\ Live(p)' => Live(p) /\ p \notin cmd[c].on
                      /\ Serving(p)' => Serving(p)
  BY DEF Kill, Live, Serving, DaemonsInv, TypeOK
<1>7. Staged(c)'
  BY <1>1, <1>2, <1>4, <1>5 DEF Staged, Active
<1>8. SweepIsComplete(c)'
  BY <1>1, <1>2, <1>4, <1>5, <1>6 DEF SweepIsComplete, First, Stray, Command
<1>9. ReadIsRight(c)'
  BY <1>1, <1>2, <1>4, <1>5, <1>6 DEF ReadIsRight, First
<1>10. ASSUME calm' \/ (alone' /\ kind \in Scanned /\ Past(c)')
       PROVE  OneIsAlive' /\ OneIsTracked' /\ NoteIsRight(c)'
  <2>1. cmd'[c].at # "note"
    BY <1>1, <1>2, <1>4
  <2>2. CASE calm
    <3>1. OneIsAlive /\ \A p \in Pids : Serving(p) => pidfile = p
      BY <1>1, <2>2, AtWork DEF Settled
    <3>2. OneIsAlive'
      BY <1>5, <1>6, <3>1 DEF OneIsAlive, Serving
    <3> QED
      BY <1>5, <1>6, <2>1, <3>1, <3>2 DEF OneIsTracked, NoteIsRight
  <2>3. CASE alone /\ kind \in Scanned /\ cmd[c].stage = "stray"
    <3>1. \A p \in Pids : ~Live(p)'
      BY <1>1, <1>6, <2>3 DEF SweepIsComplete, Stray
    <3> QED
      BY <2>1, <3>1 DEF OneIsAlive, OneIsTracked, NoteIsRight, Serving
  <2> QED
    BY <1>1, <1>2, <1>4, <1>5, <1>10, <2>2, <2>3 DEF Past
<1>11. calm' => alone'
  BY <1>5 DEF DaemonsInv, OneAtWork
<1> QED
  BY <1>1, <1>4, <1>5, <1>7, <1>8, <1>9, <1>10, <1>11, StepOfOne

\* The pidfile that goes is that of a daemon that is dead.
LEMMA UnlinkKeeps == ASSUME DaemonsInv, NEW c \in Commands, Unlink(c) PROVE DaemonsInv'
<1>1. /\ cmd[c] \in Command /\ Active(c) /\ Staged(c) /\ cmd[c].at = "unlink"
      /\ SweepIsComplete(c) /\ ReadIsRight(c)
  BY AtWork DEF Unlink, Active
<1> DEFINE r == [cmd[c] EXCEPT !.at = "scan"]
<1>2. r \in Command
  BY <1>1 DEF Command, Places
<1>3. cmd' = [cmd EXCEPT ![c] = r]
  BY <1>1 DEF Unlink, Goto, DaemonsInv, TypeOK, Command
<1>4. cmd' \in [Commands -> Command] /\ cmd'[c] = r /\ \A d \in Commands \ {c} : cmd'[d] = cmd[d]
  BY <1>2, <1>3, Assigned DEF DaemonsInv
<1>5. cmd'[c].job = cmd[c].job /\ cmd'[c].at = "scan" /\ cmd'[c].spared = cmd[c].spared
  BY <1>1, <1>4 DEF Command
<1>6. TypeOK' /\ UNCHANGED <<kind, proc, stop, alone, calm>>
  BY <1>4 DEF Unlink, DaemonsInv, TypeOK, history
<1>7. Staged(c)'
  BY <1>1, <1>5, <1>6 DEF Staged, Active
<1>8. SweepIsComplete(c)' /\ ReadIsRight(c)'
  BY <1>1, <1>5, <1>6 DEF SweepIsComplete, ReadIsRight, First, Stray, Live
<1>9. ASSUME calm' \/ (alone' /\ kind \in Scanned /\ Past(c)')
      PROVE  OneIsAlive' /\ OneIsTracked' /\ NoteIsRight(c)'
  <2>1. calm /\ alone /\ kind \in Scanned
    BY <1>1, <1>5, <1>6, <1>9 DEF Past, Staged, DaemonsInv, OneAtWork
  <2>2. OneIsAlive
    BY <1>1, <2>1, AtWork DEF Settled
  <2>3. \A p \in Pids : ~Serving(p)
    BY <1>1, <2>1 DEF ReadIsRight, SweepIsComplete, First, Serving
  <2> QED
    BY <1>5, <1>6, <2>2, <2>3 DEF OneIsAlive, OneIsTracked, NoteIsRight, Serving, Live
<1>10. calm' => alone'
  BY <1>6 DEF DaemonsInv, OneAtWork
<1> QED
  BY <1>1, <1>4, <1>6, <1>7, <1>8, <1>9, <1>10, StepOfOne

\* A scan that sees what there is: all that is alive will be struck, or nothing is.
LEMMA ScanKeeps == ASSUME DaemonsInv, NEW c \in Commands, Scan(c) PROVE DaemonsInv'
<1>1. /\ cmd[c] \in Command /\ Active(c) /\ Staged(c) /\ cmd[c].at = "scan"
      /\ SweepIsComplete(c) /\ cmd[c].job \in {"up", "down", "restart"}
  BY AtWork DEF Scan, Active, Staged, Command, Jobs
<1>2. PICK seen \in {{}, {p \in Pids : Live(p) /\ kind \in Scanned} \ cmd[c].spared} :
        /\ cmd' = [cmd EXCEPT ![c] =
             IF seen = {} THEN Swept(@) ELSE [@ EXCEPT !.at = "signal", !.stage = "stray", !.on = seen]]
        /\ alone' = (alone /\ \A p \in Pids : Live(p) /\ kind \in Scanned => p \in seen \cup cmd[c].spared)
        /\ calm' = (calm /\ alone')
  BY DEF Scan
<1> DEFINE r == IF seen = {} THEN Swept(cmd[c])
                ELSE [cmd[c] EXCEPT !.at = "signal", !.stage = "stray", !.on = seen]
<1>3. /\ r \in Command
      /\ seen # {} => /\ kind \in Scanned /\ r.at = "signal" /\ r.stage = "stray" /\ r.on = seen
                      /\ r.job = cmd[c].job /\ r.spared = cmd[c].spared
      /\ seen = {} =>
           /\ r.spared = {}
           /\ cmd[c].job = "down" => r.job = "down" /\ r.at = "end"
           /\ cmd[c].job = "restart" => r.job = "up" /\ r.at = "scan"
           /\ cmd[c].job = "up" => r.job = "up" /\ r.at = "start"
  <2>1. CASE seen = {}
    BY <1>1, <2>1, SweptIs
  <2>2. CASE seen # {}
    <3>1. seen \in SUBSET Pids /\ kind \in Scanned
      BY <1>2, <2>2
    <3> QED
      BY <1>1, <2>2, <3>1 DEF Command, Places, Stages
  <2> QED
    BY <2>1, <2>2
<1>4. cmd' = [cmd EXCEPT ![c] = r]
  BY <1>2
<1> HIDE DEF r
<1>5. cmd' \in [Commands -> Command] /\ cmd'[c] = r /\ \A d \in Commands \ {c} : cmd'[d] = cmd[d]
  BY <1>3, <1>4, Assigned DEF DaemonsInv
<1>6. /\ TypeOK' /\ UNCHANGED <<kind, proc, pidfile, stop>>
      /\ alone' => alone /\ \A p \in Pids : Live(p) /\ kind \in Scanned => p \in seen \cup cmd[c].spared
      /\ calm' => calm /\ alone'
  BY <1>2, <1>5 DEF Scan, DaemonsInv, TypeOK, system
<1>7. alone' /\ kind \in Scanned => \A p \in Pids : Live(p) => p \in seen
  BY <1>1, <1>6 DEF SweepIsComplete
<1>8. Staged(c)'
  BY <1>1, <1>3, <1>5, <1>6 DEF Staged, Active
<1>9. SweepIsComplete(c)' /\ ReadIsRight(c)'
  BY <1>1, <1>3, <1>5, <1>6, <1>7 DEF SweepIsComplete, ReadIsRight, First, Stray, Live
<1>10. ASSUME calm' \/ (alone' /\ kind \in Scanned /\ Past(c)')
       PROVE  OneIsAlive' /\ OneIsTracked' /\ NoteIsRight(c)'
  <2>1. cmd'[c].at # "note"
    BY <1>1, <1>3, <1>5
  <2>2. CASE calm'
    <3>1. OneIsAlive /\ \A p \in Pids : Serving(p) => pidfile = p
      BY <1>1, <1>6, <2>2, AtWork DEF Settled
    <3> QED
      BY <1>6, <2>1, <3>1 DEF OneIsAlive, OneIsTracked, NoteIsRight, Serving, Live
  <2>3. CASE alone' /\ kind \in Scanned /\ Past(c)'
    <3>1. seen = {}
      BY <1>3, <1>5, <2>3 DEF Past
    <3>2. \A p \in Pids : ~Live(p)'
      BY <1>6, <1>7, <2>3, <3>1 DEF Live
    <3> QED
      BY <2>1, <3>2 DEF OneIsAlive, OneIsTracked, NoteIsRight, Serving
  <2> QED
    BY <1>10, <2>2, <2>3
<1> QED
  BY <1>1, <1>5, <1>6, <1>8, <1>9, <1>10, StepOfOne

LEMMA KeepKeeps == ASSUME DaemonsInv, NEW c \in Commands, Keep(c) PROVE DaemonsInv'
<1>1. /\ cmd[c] \in Command /\ Active(c) /\ Staged(c) /\ cmd[c].at = "start" /\ cmd[c].job = "up"
  BY AtWork DEF Keep, Active, Staged, Command, Jobs
<1> DEFINE r == [cmd[c] EXCEPT !.at = "end", !.got = pidfile]
<1>2. r \in Command
  BY <1>1 DEF Command, Places, DaemonsInv, TypeOK
<1>3. cmd' = [cmd EXCEPT ![c] = r]
  BY <1>1 DEF Keep, DaemonsInv, TypeOK, Command
<1>4. cmd' \in [Commands -> Command] /\ cmd'[c] = r /\ \A d \in Commands \ {c} : cmd'[d] = cmd[d]
  BY <1>2, <1>3, Assigned DEF DaemonsInv
<1>5. cmd'[c].job = "up" /\ cmd'[c].at = "end" /\ cmd'[c].spared = cmd[c].spared
  BY <1>1, <1>4 DEF Command
<1>6. TypeOK' /\ UNCHANGED <<kind, proc, pidfile, stop, alone, calm>>
  BY <1>4 DEF Keep, DaemonsInv, TypeOK, system, history
<1>7. Staged(c)' /\ SweepIsComplete(c)' /\ ReadIsRight(c)'
  BY <1>1, <1>5, <1>6 DEF Staged, SweepIsComplete, ReadIsRight, First, Stray, Active
<1>8. ASSUME calm' \/ (alone' /\ kind \in Scanned /\ Past(c)')
      PROVE  OneIsAlive' /\ OneIsTracked' /\ NoteIsRight(c)'
  <2>1. Settled
    BY <1>1, <1>6, <1>8 DEF Past, Settled
  <2>2. OneIsAlive /\ \A p \in Pids : Serving(p) => pidfile = p
    BY <1>1, <2>1, AtWork
  <2> QED
    BY <1>5, <1>6, <2>2 DEF OneIsAlive, OneIsTracked, NoteIsRight, Live, Serving
<1>9. calm' => alone'
  BY <1>6 DEF DaemonsInv, OneAtWork
<1> QED
  BY <1>1, <1>4, <1>6, <1>7, <1>8, <1>9, StepOfOne

\* `up` starts a daemon only when none is serving.
LEMMA SpawnKeeps == ASSUME DaemonsInv, NEW c \in Commands, Spawn(c) PROVE DaemonsInv'
<1>1. /\ cmd[c] \in Command /\ Active(c) /\ Staged(c) /\ cmd[c].at = "start" /\ cmd[c].job = "up"
      /\ SweepIsComplete(c)
  BY AtWork DEF Spawn, Active, Staged, Command, Jobs
<1>2. PICK p \in Pids : /\ proc[p] = "free"
                        /\ proc' = [proc EXCEPT ![p] = "spawned"]
                        /\ cmd' = [cmd EXCEPT ![c].at = "note", ![c].got = p]
  BY DEF Spawn
<1> DEFINE r == [cmd[c] EXCEPT !.at = "note", !.got = p]
<1>3. r \in Command
  BY <1>1 DEF Command, Places
<1>4. cmd' = [cmd EXCEPT ![c] = r]
  BY <1>1, <1>2 DEF DaemonsInv, TypeOK, Command
<1>5. cmd' \in [Commands -> Command] /\ cmd'[c] = r /\ \A d \in Commands \ {c} : cmd'[d] = cmd[d]
  BY <1>3, <1>4, Assigned DEF DaemonsInv
<1>6. cmd'[c].job = "up" /\ cmd'[c].at = "note" /\ cmd'[c].got = p /\ cmd'[c].spared = cmd[c].spared
  BY <1>1, <1>5 DEF Command
<1>7. TypeOK' /\ UNCHANGED <<kind, pidfile, stop, alone, calm>>
  BY <1>2, <1>5 DEF Spawn, DaemonsInv, TypeOK, history
<1>8. proc'[p] = "spawned" /\ \A q \in Pids \ {p} : proc'[q] = proc[q]
  BY <1>2 DEF DaemonsInv, TypeOK
<1>9. Staged(c)' /\ SweepIsComplete(c)' /\ ReadIsRight(c)'
  BY <1>1, <1>6, <1>7 DEF Staged, SweepIsComplete, ReadIsRight, First, Stray, Active
<1>10. ASSUME calm' \/ (alone' /\ kind \in Scanned /\ Past(c)')
       PROVE  OneIsAlive' /\ OneIsTracked' /\ NoteIsRight(c)'
  <2>1. Settled
    BY <1>1, <1>7, <1>10 DEF Past, Settled
  <2>2. OneIsAlive /\ alone /\ \A q \in Pids : Serving(q) => pidfile = q
    BY <1>1, <2>1, AtWork
  <2>3. \A q \in Pids : ~Serving(q)
    BY <2>2, DaemonsAssumption DEF Spawn, Recognized, Serving
  <2>4. kind \in Scanned => \A q \in Pids : ~Live(q)
    BY <1>1, <2>2 DEF SweepIsComplete
  <2>5. \A q \in Pids : Serving(q)' => q = p
    BY <1>8, <2>3 DEF Serving, Live
  <2>6. \A q \in Pids : Live(q)' /\ q # p => kind \notin Scanned /\ proc'[q] = "cleaning"
    BY <1>8, <2>3, <2>4 DEF Live, Serving
  <2>7. OneIsAlive'
    BY <1>7, <2>6 DEF OneIsAlive
  <2> QED
    BY <1>6, <1>8, <2>5, <2>7 DEF OneIsTracked, NoteIsRight
<1>11. calm' => alone'
  BY <1>7 DEF DaemonsInv, OneAtWork
<1> QED
  BY <1>1, <1>5, <1>7, <1>9, <1>10, <1>11, StepOfOne

\* The pid that is noted is that of the daemon that was started, dead or alive.
LEMMA NoteKeeps == ASSUME DaemonsInv, NEW c \in Commands, Note(c) PROVE DaemonsInv'
<1>1. /\ cmd[c] \in Command /\ Active(c) /\ Staged(c) /\ cmd[c].at = "note" /\ cmd[c].job = "up"
  BY AtWork DEF Note, Active, Staged, Command, Jobs
<1> DEFINE r == [cmd[c] EXCEPT !.at = "end"]
<1>2. r \in Command
  BY <1>1 DEF Command, Places
<1>3. cmd' = [cmd EXCEPT ![c] = r]
  BY <1>1 DEF Note, Goto, DaemonsInv, TypeOK, Command
<1>4. cmd' \in [Commands -> Command] /\ cmd'[c] = r /\ \A d \in Commands \ {c} : cmd'[d] = cmd[d]
  BY <1>2, <1>3, Assigned DEF DaemonsInv
<1>5. cmd'[c].job = "up" /\ cmd'[c].at = "end" /\ cmd'[c].spared = cmd[c].spared
  BY <1>1, <1>4 DEF Command
<1>6. TypeOK' /\ UNCHANGED <<kind, proc, stop, alone, calm>> /\ pidfile' = cmd[c].got
  BY <1>1, <1>4 DEF Note, DaemonsInv, TypeOK, history, Command
<1>7. Staged(c)' /\ SweepIsComplete(c)' /\ ReadIsRight(c)'
  BY <1>1, <1>5, <1>6 DEF Staged, SweepIsComplete, ReadIsRight, First, Stray, Active
<1>8. ASSUME calm' \/ (alone' /\ kind \in Scanned /\ Past(c)')
      PROVE  OneIsAlive' /\ OneIsTracked' /\ NoteIsRight(c)'
  <2>1. Settled
    BY <1>1, <1>6, <1>8 DEF Past, Settled
  <2>2. OneIsAlive /\ \A p \in Pids : Serving(p) => p = cmd[c].got
    BY <1>1, <2>1, AtWork DEF NoteIsRight
  <2> QED
    BY <1>5, <1>6, <2>2 DEF OneIsAlive, OneIsTracked, NoteIsRight, Live, Serving
<1>9. calm' => alone'
  BY <1>6 DEF DaemonsInv, OneAtWork
<1> QED
  BY <1>1, <1>4, <1>6, <1>7, <1>8, <1>9, StepOfOne

\* `--stop` removes only the pid of nobody, and starts nothing.
LEMMA AskKeeps == ASSUME DaemonsInv, NEW c \in Commands, Ask(c) PROVE DaemonsInv'
<1>1. /\ cmd[c] \in Command /\ Active(c) /\ Staged(c) /\ cmd[c].at = "ask" /\ cmd[c].job = "stop"
  BY AtWork DEF Ask, Active, Staged, Command, Jobs
<1> DEFINE r == [cmd[c] EXCEPT !.at = "end"]
<1>2. r \in Command
  BY <1>1 DEF Command, Places
<1>3. cmd' = [cmd EXCEPT ![c] = r]
  BY <1>1 DEF Ask, Goto, DaemonsInv, TypeOK, Command
<1>4. cmd' \in [Commands -> Command] /\ cmd'[c] = r /\ \A d \in Commands \ {c} : cmd'[d] = cmd[d]
  BY <1>2, <1>3, Assigned DEF DaemonsInv
<1>5. cmd'[c].job = "stop" /\ cmd'[c].at = "end" /\ cmd'[c].spared = cmd[c].spared
  BY <1>1, <1>4 DEF Command
<1>6. /\ proc' \in [Pids -> {"free", "stranger", "spawned", "noted", "running", "leaving", "cleaning"}]
      /\ pidfile' \in Pids \cup {NoPid} /\ stop' \in BOOLEAN
      /\ UNCHANGED <<kind, alone, calm>>
      /\ \A p \in Pids : (Live(p)' => Live(p)) /\ (Serving(p)' => Serving(p))
      /\ pidfile' # pidfile => pidfile \in Pids /\ ~Live(pidfile)
  <2>1. CASE proc' = proc
    BY <2>1 DEF Ask, DaemonsInv, TypeOK, history, Live, Serving
  <2>2. CASE proc' # proc
    <3>1. /\ pidfile \in Pids /\ pidfile' = pidfile /\ stop' = stop
          /\ proc' = [proc EXCEPT ![pidfile] = Struck(pidfile)]
      BY <2>2 DEF Ask, DaemonsInv, TypeOK
    <3>2. proc'[pidfile] = Struck(pidfile) /\ \A p \in Pids \ {pidfile} : proc'[p] = proc[p]
      BY <3>1 DEF DaemonsInv, TypeOK
    <3>3. proc' \in [Pids -> {"free", "stranger", "spawned", "noted", "running", "leaving", "cleaning"}]
      BY <3>1, StruckIsWeaker DEF DaemonsInv, TypeOK
    <3>4. \A p \in Pids : (Live(p)' => Live(p)) /\ (Serving(p)' => Serving(p))
      BY <3>1, <3>2, StruckIsWeaker DEF DaemonsInv, Live, Serving
    <3> QED
      BY <3>1, <3>3, <3>4 DEF Ask, DaemonsInv, TypeOK, history
  <2> QED
    BY <2>1, <2>2
<1>7. TypeOK'
  BY <1>4, <1>6 DEF Ask, DaemonsInv, TypeOK
<1>8. Staged(c)' /\ SweepIsComplete(c)' /\ ReadIsRight(c)'
  BY <1>1, <1>5, <1>6 DEF Staged, SweepIsComplete, ReadIsRight, First, Stray, Active
<1>9. ASSUME calm' \/ (alone' /\ kind \in Scanned /\ Past(c)')
      PROVE  OneIsAlive' /\ OneIsTracked' /\ NoteIsRight(c)'
  <2>1. Settled
    BY <1>5, <1>6, <1>9 DEF Past, Settled
  <2>2. OneIsAlive /\ \A p \in Pids : Serving(p) => pidfile = p
    BY <1>1, <2>1, AtWork
  <2>3. OneIsAlive'
    BY <1>6, <2>2 DEF OneIsAlive, Serving
  <2>4. \A p \in Pids : Serving(p)' => pidfile' = p
    BY <1>6, <2>2 DEF Serving
  <2> QED
    BY <1>5, <2>3, <2>4 DEF OneIsTracked, NoteIsRight
<1>10. calm' => alone'
  BY <1>6 DEF DaemonsInv, OneAtWork
<1> QED
  BY <1>1, <1>4, <1>6, <1>7, <1>8, <1>9, <1>10, StepOfOne

\* A command ends, or is interrupted.
LEMMA EndKeeps == ASSUME DaemonsInv, NEW c \in Commands, End(c) \/ Interrupt(c) PROVE DaemonsInv'
<1>1. cmd[c] \in Command /\ Active(c) /\ Staged(c)
  BY AtWork DEF End, Interrupt, Active
<1> DEFINE r == [cmd[c] EXCEPT !.at = "idle"]
<1>2. r \in Command
  BY <1>1 DEF Command, Places
<1>3. cmd' = [cmd EXCEPT ![c] = r]
  BY <1>1 DEF End, Interrupt, Goto, DaemonsInv, TypeOK, Command
<1>4. cmd' \in [Commands -> Command] /\ cmd'[c] = r /\ \A d \in Commands \ {c} : cmd'[d] = cmd[d]
  BY <1>2, <1>3, Assigned DEF DaemonsInv
<1>5. cmd'[c].at = "idle"
  BY <1>1, <1>4 DEF Command
<1>6. /\ TypeOK' /\ UNCHANGED <<kind, proc, pidfile, stop, alone>>
      /\ calm' => /\ alone /\ cmd[c].at = "end"
                  /\ calm \/ (kind \in Scanned /\ cmd[c].job # "stop")
  BY <1>4 DEF End, Interrupt, DaemonsInv, TypeOK, system
<1>7. Staged(c)' /\ SweepIsComplete(c)' /\ ReadIsRight(c)'
  BY <1>5 DEF Staged, SweepIsComplete, ReadIsRight, First, Stray, Active
<1>8. ASSUME calm' \/ (alone' /\ kind \in Scanned /\ Past(c)')
      PROVE  OneIsAlive' /\ OneIsTracked' /\ NoteIsRight(c)'
  <2>1. Settled /\ cmd[c].at = "end"
    BY <1>5, <1>6, <1>8 DEF Past, Settled
  <2>2. OneIsAlive /\ \A p \in Pids : Serving(p) => pidfile = p
    BY <1>1, <2>1, AtWork
  <2> QED
    BY <1>5, <1>6, <2>2 DEF OneIsAlive, OneIsTracked, NoteIsRight, Live, Serving
<1> QED
  BY <1>1, <1>4, <1>6, <1>7, <1>8, StepOfOne

----------------------------------------------------------------------------
LEMMA InitHolds == Init => DaemonsInv
<1> SUFFICES ASSUME Init PROVE DaemonsInv
  OBVIOUS
<1>1. TypeOK
  <2> DEFINE r == [job |-> "stop", at |-> "idle", stage |-> "none", on |-> {}, spared |-> {}, got |-> NoPid]
  <2>1. r \in Command
    BY DEF Command, Jobs, Places, Stages
  <2>2. cmd \in [Commands -> Command]
    BY <2>1 DEF Init
  <2>3. proc \in [Pids -> {"free", "stranger", "spawned", "noted", "running", "leaving", "cleaning"}]
    BY DEF Init
  <2>4. jobs \in 0..MaxJobs /\ pidfile \in Pids \cup {NoPid}
    BY DaemonsAssumption DEF Init
  <2> QED
    BY <2>2, <2>3, <2>4 DEF Init, TypeOK
<1>2. \A c \in Commands : cmd[c].at = "idle"
  BY DEF Init
<1>3. \A p \in Pids : ~Live(p)
  BY DEF Init, Live
<1> QED
  BY <1>1, <1>2, <1>3
  DEF DaemonsInv, Init, OneAtWork, Active, Staged, SweepIsComplete, ReadIsRight, First, Stray,
      OneIsAlive, OneIsTracked, NoteIsRight, Serving

LEMMA StutterKeeps == ASSUME DaemonsInv, UNCHANGED vars PROVE DaemonsInv'
<1>1. TypeOK' /\ UNCHANGED <<kind, cmd, jobs, history>> /\ UNCHANGED <<proc, pidfile>>
  BY DEF vars, system, history, DaemonsInv, TypeOK
<1>2. \A p \in Pids : (Live(p)' => Live(p)) /\ (Serving(p)' => Serving(p))
  BY <1>1 DEF Live, Serving
<1>3. OneIsTracked => OneIsTracked'
  BY <1>1 DEF OneIsTracked, Serving, Live
<1> QED
  BY <1>1, <1>2, <1>3, StepOfDaemon

LEMMA DaemonsInductive == Spec => []DaemonsInv
<1>1. DaemonsInv /\ [Next]_vars => DaemonsInv'
  <2> SUFFICES ASSUME DaemonsInv, [Next]_vars PROVE DaemonsInv'
    OBVIOUS
  <2>1. ASSUME NEW c \in Commands, Step(c) \/ Interrupt(c) PROVE DaemonsInv'
    BY <2>1, ReadPidKeeps, SignalKeeps, KillKeeps, UnlinkKeeps, ScanKeeps, KeepKeeps, SpawnKeeps,
       NoteKeeps, AskKeeps, EndKeeps DEF Step
  <2>2. ASSUME NEW p \in Pids, DaemonStep(p) PROVE DaemonsInv'
    BY <2>2, WritePidKeeps, ServeKeeps, NoticeStopKeeps, LeaveKeeps, ExitKeeps DEF DaemonStep
  <2> QED
    BY <2>1, <2>2, BeginKeeps, SystemKeeps, StutterKeeps DEF Next
<1> QED
  BY <1>1, InitHolds, PTL DEF Spec

\* OneTrackedDaemon: while commands run one at a time to their end, or after one that
\* swept alone, at most one daemon serves, and it is the one in the pidfile.
THEOREM OneDaemonIsTracked == Spec => []OneTrackedDaemon
<1>1. DaemonsInv => OneTrackedDaemon
  <2> SUFFICES ASSUME DaemonsInv PROVE SingleDaemon /\ RunningIsTracked
    BY DEF OneTrackedDaemon, DaemonsInv
  <2>1. calm => OneIsAlive /\ OneIsTracked
    BY DEF DaemonsInv, Settled
  <2> QED
    BY <2>1 DEF SingleDaemon, RunningIsTracked, OneIsAlive, OneIsTracked, Serving, Live
<1> QED
  BY <1>1, DaemonsInductive, PTL

\* DownLeavesNone: a `down` that ran alone, and saw what it scanned, leaves no daemon
\* of the kinds that it knows.
THEOREM DownAlwaysLeavesNone == Spec => []DownLeavesNone
<1>1. DaemonsInv => DownLeavesNone
  BY DEF DaemonsInv, DownLeavesNone, SweepIsComplete
<1> QED
  BY <1>1, DaemonsInductive, PTL
=============================================================================
