----------------------------- MODULE Authority -----------------------------
(***************************************************************************)
(* What a lease promises the code that checks it (services/authority): an   *)
(* id holds authority only from a grant on, and never past the end of the   *)
(* TTL of its latest grant.  Authority may be withdrawn at any time; once   *)
(* withdrawn, only a new grant brings it back.                              *)
(***************************************************************************)
EXTENDS Integers

CONSTANTS LeaseIds, Ttls, MaxTime

VARIABLES now,   \* the clock
          held   \* id -> the time its authority ends, or NoAuthority

NoAuthority == -1

Init == now = 0 /\ held = [id \in LeaseIds |-> NoAuthority]

Tick == now < MaxTime /\ now' = now + 1 /\ UNCHANGED held

Grant(id, ttl) == held' = [held EXCEPT ![id] = now + ttl] /\ UNCHANGED now

Withdraw(ids) ==
  /\ held' = [id \in LeaseIds |-> IF id \in ids THEN NoAuthority ELSE held[id]]
  /\ UNCHANGED now

Next == \/ Tick
        \/ \E id \in LeaseIds, ttl \in Ttls : Grant(id, ttl)
        \/ \E ids \in SUBSET LeaseIds : Withdraw(ids)

Spec == Init /\ [][Next]_<<now, held>>
=============================================================================
