---------------------------- MODULE RecencyQueue ----------------------------
(***************************************************************************)
(* What the RAM cache promises, with no pointer in it: a queue of keys in   *)
(* order of recency, newest first, that is back within its two limits       *)
(* before the next call is served.  RamCache implements it.                 *)
(***************************************************************************)
EXTENDS SequencesExt

CONSTANTS Keys, Sizes, MaxEntries, MaxBytes, Policies

VARIABLES policy, \* how the queue gives up its keys
          order,  \* the cached keys, newest first
          size    \* the size of the value of each cached key, 0 for the others

vars == <<policy, order, size>>

Without(k) == IF Contains(order, k) THEN RemoveAt(order, CHOOSE i \in 1..Len(order) : order[i] = k)
                                     ELSE order
Over == Len(order) > MaxEntries \/ SumFunctionOnSet(size, Range(order)) > MaxBytes

Init == policy \in Policies /\ order = <<>> /\ size = [k \in Keys |-> 0]

\* Reading refreshes a key under lru only.
Hit(k) == /\ ~Over /\ Contains(order, k) /\ policy = "lru"
          /\ order' = <<k>> \o Without(k)
          /\ UNCHANGED size

\* A value that fits becomes the newest, whether its key was cached or not.
Insert(k, s) == /\ ~Over /\ s <= MaxBytes
                /\ order' = <<k>> \o Without(k)
                /\ size' = [size EXCEPT ![k] = s]

Drop(k) == order' = Without(k) /\ size' = [size EXCEPT ![k] = 0]

Forget(k) == ~Over /\ Contains(order, k) /\ Drop(k)

\* Over a limit, a key is given up: the oldest under lru.
Evict(k) == Over /\ Contains(order, k) /\ (policy = "lru" => k = Last(order)) /\ Drop(k)

Clear == ~Over /\ order' = <<>> /\ size' = [k \in Keys |-> 0]

Next == /\ \/ \E k \in Keys : Hit(k) \/ Forget(k) \/ Evict(k) \/ \E s \in Sizes : Insert(k, s)
           \/ Clear
        /\ UNCHANGED policy

Spec == Init /\ [][Next]_vars
=============================================================================
