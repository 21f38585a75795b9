------------------------------ MODULE RamCache ------------------------------
(***************************************************************************)
(* services/cache/ram_cache.py: the byte-budgeted cache that the RAM cache  *)
(* daemon and the memoizer serve their threads from.                        *)
(*                                                                          *)
(* The cache is a dict of nodes threaded on a doubly-linked list, with the  *)
(* SIEVE hand as a third pointer into the list.  One lock serialises the    *)
(* operations, so an operation is one step, except that the eviction loop   *)
(* of put and the scan of the hand inside it are steps of their own, taken  *)
(* while the lock is held.                                                  *)
(*                                                                          *)
(* Abstracted: a node is its key (the dict has one node per key and nothing *)
(* else reaches a node that left it), a value is its size, and the counters *)
(* of hits, misses and evictions are left out.                              *)
(***************************************************************************)
EXTENDS Integers, FiniteSets, Functions

CONSTANTS Keys, Sizes, MaxEntries, MaxBytes, Policies

Nil == "nil"

\* The ValueErrors of the constructor, and the length of a bytes value; None is no key.
ASSUME CacheAssumption == /\ MaxEntries \in Nat \ {0} /\ MaxBytes \in Nat \ {0}
                          /\ Policies \subseteq {"sieve", "lru"}
                          /\ Sizes \subseteq Nat /\ Nil \notin Keys

VARIABLES policy,   \* _policy, as constructed
          nodes,    \* the keys of _nodes
          size,     \* size of each cached value, 0 for the other keys
          visited,  \* the keys whose node has its visited bit set
          list,     \* the pointers: newer, older, _head, _tail, _hand
          bytes,    \* _bytes
          lock,     \* "free", or what its holder does: "evicting", "scanning"
          node,     \* the node the scan of _pick_victim stands at
          unread    \* the keys not visited when the scan began (history)

cacheVars == <<policy, nodes, size, visited, list, bytes, lock, node, unread>>

EmptyList == [newer |-> [k \in Keys |-> Nil], older |-> [k \in Keys |-> Nil],
              head |-> Nil, tail |-> Nil, hand |-> Nil]

\* `a or b` on nodes.
Or(a, b) == IF a # Nil THEN a ELSE b

LinkAtHead(l, k) ==
  [l EXCEPT !.older[k] = l.head,
            !.newer = [j \in Keys |-> IF j = k THEN Nil ELSE IF j = l.head THEN k ELSE @[j]],
            !.head = k,
            !.tail = Or(@, k)]

\* Mutants of Unlink: the hand is not moved off the node; a new oldest node does
\* not become the tail.
UnlinkKeepsHand(l, k) ==
  [newer |-> [j \in Keys |-> IF j = k THEN Nil ELSE IF j = l.older[k] THEN l.newer[k] ELSE l.newer[j]],
   older |-> [j \in Keys |-> IF j = k THEN Nil ELSE IF j = l.newer[k] THEN l.older[k] ELSE l.older[j]],
   head |-> IF k = l.head THEN l.older[k] ELSE l.head,
   tail |-> IF k = l.tail THEN l.newer[k] ELSE l.tail,
   hand |-> l.hand]

Unlink(l, k) ==
  [newer |-> [j \in Keys |-> IF j = k THEN Nil ELSE IF j = l.older[k] THEN l.newer[k] ELSE l.newer[j]],
   older |-> [j \in Keys |-> IF j = k THEN Nil ELSE IF j = l.newer[k] THEN l.older[k] ELSE l.older[j]],
   head |-> IF l.newer[k] = Nil THEN l.older[k] ELSE l.head,
   tail |-> IF l.older[k] = Nil THEN l.newer[k] ELSE l.tail,
   hand |-> IF k = l.hand THEN l.newer[k] ELSE l.hand]

MoveToHead(l, k) == IF k = l.head THEN l ELSE LinkAtHead(Unlink(l, k), k)

----------------------------------------------------------------------------
CacheInit == /\ policy \in Policies /\ nodes = {} /\ size = [k \in Keys |-> 0] /\ visited = {}
             /\ list = EmptyList /\ bytes = 0
             /\ lock = "free" /\ node = Nil /\ unread = {}

unlocked == <<lock, node, unread>>

\* get of a cached key; a miss changes nothing.
Get(k) == /\ lock = "free" /\ k \in nodes
          /\ \/ policy = "sieve" /\ visited' = visited \cup {k} /\ UNCHANGED list
             \/ policy = "lru" /\ list' = MoveToHead(list, k) /\ UNCHANGED visited
          /\ UNCHANGED <<nodes, size, bytes, unlocked>>

\* A mutant of Put: a key that is cached keeps its node, with the new value.
PutInPlace(k, s) ==
  /\ lock = "free" /\ s <= MaxBytes
  /\ nodes' = nodes \cup {k} /\ visited' = visited \ {k}
  /\ list' = IF k \in nodes THEN list ELSE LinkAtHead(list, k)
  /\ size' = [size EXCEPT ![k] = s] /\ bytes' = (bytes - size[k]) + s
  /\ lock' = "evicting" /\ UNCHANGED <<node, unread>>

\* put: the old node goes in any case, also when the new value is too big to be
\* cached; a new node is linked and the lock is kept for the eviction.
Put(k, s) ==
  /\ lock = "free"
  /\ LET cleared == IF k \in nodes THEN Unlink(list, k) ELSE list
         fits == s <= MaxBytes
     IN /\ nodes' = IF fits THEN nodes \cup {k} ELSE nodes \ {k}
        /\ list' = IF fits THEN LinkAtHead(cleared, k) ELSE cleared
        /\ size' = [size EXCEPT ![k] = IF fits THEN s ELSE 0]
        /\ bytes' = (bytes - size[k]) + (IF fits THEN s ELSE 0)
        /\ lock' = IF fits THEN "evicting" ELSE "free"
  /\ visited' = visited \ {k}
  /\ UNCHANGED <<node, unread>>

\* Mutants of Remove: the bytes of the value are not given back; the visited bit
\* survives its node.
RemoveKeepsBytes(k) ==
  /\ nodes' = nodes \ {k} /\ visited' = visited \ {k}
  /\ list' = Unlink(list, k)
  /\ size' = [size EXCEPT ![k] = 0] /\ UNCHANGED bytes

\* delete: the node leaves the dict and the list, and its bytes are given back.
Remove(k) ==
  /\ nodes' = nodes \ {k} /\ visited' = visited \ {k}
  /\ list' = Unlink(list, k)
  /\ size' = [size EXCEPT ![k] = 0] /\ bytes' = bytes - size[k]

Delete(k) == lock = "free" /\ k \in nodes /\ Remove(k) /\ UNCHANGED unlocked

Clear == /\ lock = "free"
         /\ nodes' = {} /\ size' = [k \in Keys |-> 0] /\ visited' = {}
         /\ list' = EmptyList /\ bytes' = 0
         /\ UNCHANGED unlocked

\* The condition of the loop of _evict_locked.
Over == Cardinality(nodes) > MaxEntries \/ bytes > MaxBytes

\* The loop ends and put releases the lock.
Release == lock = "evicting" /\ ~Over /\ lock' = "free"
           /\ UNCHANGED <<nodes, size, visited, list, bytes, node, unread>>

\* _pick_victim starts from the hand, or from the tail; under lru the tail is the
\* victim (no node is ever visited then).  With no node left, put gives up.
PickVictim ==
  /\ lock = "evicting" /\ Over
  /\ node' = IF policy = "lru" THEN list.tail ELSE Or(list.hand, list.tail)
  /\ unread' = nodes \ visited
  /\ lock' = IF node' = Nil THEN "free" ELSE "scanning"
  /\ UNCHANGED <<nodes, size, visited, list, bytes>>

\* A mutant of Scan: only the wrap is left of the body of the loop.
ScanStays == /\ lock = "scanning" /\ node \in visited
             /\ node' = list.tail
             /\ UNCHANGED <<nodes, size, visited, list, bytes, lock, unread>>

\* The scan passes a visited node, clears its bit and goes on to the newer one,
\* or from the head back to the tail.
Scan == /\ lock = "scanning" /\ node \in visited
        /\ visited' = visited \ {node}
        /\ node' = Or(list.newer[node], list.tail)
        /\ UNCHANGED <<nodes, size, list, bytes, lock, unread>>

\* A mutant of Evict: it takes the node the scan stands at, visited or not.
EvictUnchecked == /\ lock = "scanning" /\ node \in nodes
                  /\ list' = Unlink([list EXCEPT !.hand = list.newer[node]], node)
                  /\ nodes' = nodes \ {node} /\ visited' = visited \ {node}
                  /\ size' = [size EXCEPT ![node] = 0] /\ bytes' = bytes - size[node]
                  /\ lock' = "evicting" /\ node' = Nil /\ unread' = {}

\* The scan stops at the victim: the hand moves past it and it is removed.
Evict == /\ lock = "scanning" /\ node \in nodes \ visited
         /\ LET passed == IF policy = "sieve" THEN [list EXCEPT !.hand = list.newer[node]] ELSE list
            IN list' = Unlink(passed, node)
         /\ nodes' = nodes \ {node} /\ size' = [size EXCEPT ![node] = 0]
         /\ bytes' = bytes - size[node]
         /\ lock' = "evicting" /\ node' = Nil /\ unread' = {}
         /\ UNCHANGED visited

Evicting == (Release \/ PickVictim \/ Scan \/ Evict) /\ UNCHANGED policy

Calling == /\ \/ \E k \in Keys : Get(k) \/ Delete(k) \/ \E s \in Sizes : Put(k, s)
              \/ Clear
           /\ UNCHANGED policy

CacheNext == Calling \/ Evicting

CacheSpec == CacheInit /\ [][CacheNext]_cacheVars

\* The thread that holds the lock goes on.
CacheLiveSpec == CacheSpec /\ WF_cacheVars(Evicting)

----------------------------------------------------------------------------
Pointers == [Keys -> Keys \cup {Nil}]

CacheTypeOK == /\ policy \in Policies
               /\ nodes \subseteq Keys /\ visited \subseteq nodes
               /\ size \in [Keys -> Nat]
               /\ list \in [newer : Pointers, older : Pointers,
                            head : Keys \cup {Nil}, tail : Keys \cup {Nil}, hand : Keys \cup {Nil}]
               /\ bytes \in Int
               /\ lock \in {"free", "evicting", "scanning"}
               /\ node \in Keys \cup {Nil} /\ unread \subseteq Keys

\* The keys met on the way from the head along `older`, Nil past the tail.
Walk == LET step[i \in 1..Cardinality(nodes)] ==
              IF i = 1 THEN list.head
              ELSE IF step[i - 1] = Nil THEN Nil ELSE list.older[step[i - 1]]
        IN step

\* The list holds the nodes of the dict, each once: from the head `older` meets
\* them all and ends at the tail, and `newer` is the way back.
ListIsWhole ==
  /\ {Walk[i] : i \in DOMAIN Walk} = nodes
  /\ nodes = {} => list.head = Nil /\ list.tail = Nil
  /\ nodes # {} => Walk[Cardinality(nodes)] = list.tail /\ list.older[list.tail] = Nil
  /\ \A k \in nodes : list.newer[k] = IF k = list.head THEN Nil
                                       ELSE CHOOSE j \in nodes : list.older[j] = k

\* The hand and the scan never stand on a node that has left the cache, by
\* whichever operation it left: an eviction would remove it a second time.
HandIsLive == /\ list.hand \in nodes \cup {Nil}
              /\ lock = "scanning" => node \in nodes

\* No sequence of calls breaks the pointers.
ListIsSound == CacheTypeOK /\ ListIsWhole /\ HandIsLive

\* Whenever a call can be served, the values in the cache are within both limits:
\* counted from the values, not from the running total.
WithinLimits ==
  lock = "free" => /\ Cardinality(nodes) <= MaxEntries
                   /\ SumFunctionOnSet(size, nodes) <= MaxBytes

\* The running total is the bytes really held, so no sequence of replacements,
\* deletions, oversized puts and evictions eats up the budget.
BytesAreCounted == bytes = SumFunctionOnSet(size, nodes)

\* The limits hold, and go on holding what they should.
BudgetHolds == WithinLimits /\ BytesAreCounted

\* An entry that was read since the hand last passed it is not evicted while an
\* entry that was not read is left: a scan of one-hit keys flushes no hot entry.
HotEntriesSurvive == [][Evict => unread = {} \/ node \in unread]_cacheVars

\* put returns: the hand does not run in circles and the loop gets under the limits.
EvictionEnds == lock # "free" ~> lock = "free"

----------------------------------------------------------------------------
\* The linked list implements a queue in order of recency.
Queue == INSTANCE RecencyQueue WITH order <- [i \in 1..Cardinality(nodes) |-> Walk[i]]

IsRecencyQueue == Queue!Spec
=============================================================================
