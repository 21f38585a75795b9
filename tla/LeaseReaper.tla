---------------------------- MODULE LeaseReaper ----------------------------
(***************************************************************************)
(* services/authority/lease.py: TTL leases with a min-heap reaper.          *)
(*                                                                          *)
(* The reaper keeps three structures that must agree: the heap (_heap), the *)
(* dict from lease id to the lease last granted (_leases) and the set of    *)
(* revoked ids (_revoked).  A grant pushes a heap entry and never removes   *)
(* an older one of the same id, so the heap may hold several entries of an  *)
(* id; reap pops entries, and with each the dict's lease of that id.        *)
(*                                                                          *)
(* Abstracted: a lease is its expiry (the subject is never read), the heap  *)
(* is a set of entries ordered by (expiry, seq) as heapq orders its tuples, *)
(* and time is an integer.  Each operation takes the time `at` that its     *)
(* caller passes as `now`; LeaseNext passes the clock, WorkerPool does not. *)
(***************************************************************************)
EXTENDS Integers

CONSTANTS LeaseIds,   \* lease ids callers use
          Ttls,       \* ttl_seconds a caller may pass to grant
          MaxTime,    \* bound: the clock stops here
          MaxGrants   \* bound: grants over the reaper's life

ASSUME LeaseAssumption == /\ Ttls \subseteq Nat
                          /\ MaxTime \in Nat
                          /\ MaxGrants \in Nat

VARIABLES now,      \* the clock
          heap,     \* _heap: entries [id, expiry, seq]
          leases,   \* _leases: id -> expiry of the lease, or NoLease
          revoked,  \* _revoked
          seq       \* _counter

reaperVars == <<heap, leases, revoked, seq>>
leaseVars == <<now, reaperVars>>

NoLease == -1

Entry == [id : LeaseIds, expiry : Nat, seq : Nat]

\* The order heapq gives the (expiry, counter, lease) tuples: counters differ,
\* so the lease itself is never compared.
Before(e, f) == e.expiry < f.expiry \/ (e.expiry = f.expiry /\ e.seq < f.seq)

RevokedEntries == {e \in heap : e.id \in revoked}
ExpiredEntries(at) == {e \in heap : e.expiry <= at}

\* What a loop `while heap and heap[0] in dead: heappop(heap)` pops: it stops
\* at the first entry, in heap order, that is not dead.
Popped(dead) == {e \in dead : \A f \in heap : Before(f, e) => f \in dead}

\* is_valid(lease_id, now=at): not revoked, in the dict, before its expiry.
IsValid(id, at) == id \notin revoked /\ leases[id] # NoLease /\ at < leases[id]

----------------------------------------------------------------------------
ReaperInit == /\ heap = {}
              /\ leases = [id \in LeaseIds |-> NoLease]
              /\ revoked = {}
              /\ seq = 0

LeaseInit == now = 0 /\ ReaperInit

\* Time passes between two calls.
Tick == now < MaxTime /\ now' = now + 1 /\ UNCHANGED reaperVars

\* A mutant of Grant: the sign of the TTL is wrong.
GrantBackwards(id, ttl, at) ==
  /\ seq < MaxGrants
  /\ leases' = [leases EXCEPT ![id] = at - ttl]
  /\ revoked' = revoked \ {id}
  /\ heap' = heap \cup {[id |-> id, expiry |-> at - ttl, seq |-> seq]}
  /\ seq' = seq + 1

\* grant: also how a lease is renewed, and how a revoked id comes back.
Grant(id, ttl, at) ==
  /\ seq < MaxGrants
  /\ leases' = [leases EXCEPT ![id] = at + ttl]
  /\ revoked' = revoked \ {id}
  /\ heap' = heap \cup {[id |-> id, expiry |-> at + ttl, seq |-> seq]}
  /\ seq' = seq + 1

Revoke(id) == revoked' = revoked \cup {id} /\ UNCHANGED <<heap, leases, seq>>

\* Mutants of NextExpiry: it drops what has expired as well; it forgets the
\* revocations of the entries it drops.
NextExpiryDropsExpired ==
  heap' = heap \ Popped(ExpiredEntries(now) \cup RevokedEntries)
  /\ UNCHANGED <<leases, revoked, seq>>

NextExpiryForgetsRevoked ==
  /\ heap' = heap \ Popped(RevokedEntries)
  /\ revoked' = revoked \ {e.id : e \in Popped(RevokedEntries)}
  /\ UNCHANGED <<leases, seq>>

\* next_expiry: drops the revoked entries on top of the heap; the dict keeps
\* their leases.
NextExpiry == heap' = heap \ Popped(RevokedEntries) /\ UNCHANGED <<leases, revoked, seq>>

\* The entries that reap pops leave the heap, and the dict forgets their ids.
ReapBy(popped) ==
  /\ heap' = heap \ popped
  /\ leases' = [id \in LeaseIds |->
                  IF \E e \in popped : e.id = id THEN NoLease ELSE leases[id]]
  /\ UNCHANGED <<revoked, seq>>

\* A mutant of Reap: a revoked entry on top stops the loop.
ReapStopsAtRevoked(at) == ReapBy(Popped(ExpiredEntries(at) \ RevokedEntries))

\* reap: pops while the top is expired or revoked.
Reap(at) == ReapBy(Popped(ExpiredEntries(at) \cup RevokedEntries))

LeaseNext == \/ Tick
             \/ \E id \in LeaseIds, ttl \in Ttls : Grant(id, ttl, now) /\ UNCHANGED now
             \/ \E id \in LeaseIds : Revoke(id) /\ UNCHANGED now
             \/ NextExpiry /\ UNCHANGED now
             \/ Reap(now) /\ UNCHANGED now

LeaseSpec == LeaseInit /\ [][LeaseNext]_leaseVars

----------------------------------------------------------------------------
ReaperTypeOK == /\ heap \subseteq Entry
                /\ leases \in [LeaseIds -> Nat \cup {NoLease}]
                /\ revoked \subseteq LeaseIds
                /\ seq \in Nat

\* The three structures and the clock keep their types; no expiry is ever
\* before the reaper's epoch.
LeaseTypeOK == now \in Nat /\ ReaperTypeOK

\* The reaper can always find what it has to reap: every lease of the dict
\* that is not revoked has the heap entry of its own expiry, however many
\* renewals, revocations and partial pops came before.  So the time that
\* next_expiry returns is never later than the expiry of a valid lease.
HeapCoversLeases ==
  \A id \in LeaseIds :
    leases[id] # NoLease /\ id \notin revoked =>
      \E e \in heap : e.id = id /\ e.expiry = leases[id]

\* A reap leaves behind no heap entry and no unrevoked lease whose time has
\* come, so nothing below the top of the heap shields an expired lease.
ReapTakesExpired ==
  [][Reap(now) =>
       /\ \A e \in heap' : now < e.expiry
       /\ \A id \in LeaseIds \ revoked : leases'[id] = NoLease \/ now < leases'[id]]_leaseVars

----------------------------------------------------------------------------
\* What the rest of the system relies on (module Authority): an id has
\* authority only between a grant and the end of that grant's TTL.
Abstract == INSTANCE Authority WITH
              held <- [id \in LeaseIds |-> IF id \in revoked THEN NoLease ELSE leases[id]]

AuthorityIsGranted == Abstract!Spec
=============================================================================
