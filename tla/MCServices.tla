----------------------------- MODULE MCServices -----------------------------
(***************************************************************************)
(* WorkerPool and RamCache on small instances.  The two share no variable    *)
(* and neither calls the other, so a behaviour of one is checked while the   *)
(* other rests where it starts, where none of its fair steps can be taken.   *)
(***************************************************************************)
EXTENDS WorkerPool, RamCache

VARIABLE moving    \* whose behaviour it is

serviceVars == <<vars, cacheVars, moving>>

ServiceInit == /\ moving \in {"pool", "cache"}
               /\ Init /\ CacheInit
               /\ moving = "pool" => policy = "sieve"
               /\ moving = "cache" => raising = {}

ServiceNext == \/ moving = "pool" /\ Next /\ UNCHANGED <<cacheVars, moving>>
               \/ moving = "cache" /\ CacheNext /\ UNCHANGED <<vars, moving>>

\* The fairness of each: the threads of a run and its end, the holder of the lock.
ServiceSpec == /\ ServiceInit /\ [][ServiceNext]_serviceVars
               /\ \A w \in Workers : WF_vars(WorkerStep(w))
               /\ WF_vars(EndRun)
               /\ WF_cacheVars(Evicting)

\* A second run is followed where every call may raise (what it does where fewer may, it
\* also does there when the others happen not to), where it begins after the clock has
\* moved, so that the heap entries of the first can be due in it, and while every task
\* is known: it finds what the first one left.
SecondRunIsLate ==
  runs = 2 => "ack" \in raising /\ runNow = MaxTime /\ Tasks \subseteq Accounted
=============================================================================
