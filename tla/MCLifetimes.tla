---------------------------- MODULE MCLifetimes ----------------------------
(***************************************************************************)
(* LeaseReaper and Daemons on small instances.  The two share no variable   *)
(* and neither calls the other, so a behaviour of one is checked while the  *)
(* other rests where it starts: nothing is lost, and one run asks for both. *)
(* Pids and commands are interchangeable.                                   *)
(***************************************************************************)
EXTENDS LeaseReaper, Daemons, TLC

VARIABLE moving    \* whose behaviour it is

lifetimeVars == <<leaseVars, vars, moving>>

LifetimeInit == /\ moving \in {"reaper", "daemon"}
                /\ LeaseInit /\ Init
                /\ moving = "reaper" => kind = "brain"

LifetimeNext == \/ moving = "reaper" /\ LeaseNext /\ UNCHANGED <<vars, moving>>
                \/ moving = "daemon" /\ Next /\ UNCHANGED <<leaseVars, moving>>

LifetimeSpec == LifetimeInit /\ [][LifetimeNext]_lifetimeVars

Symmetry == Permutations(Pids) \cup Permutations(Commands)
=============================================================================
