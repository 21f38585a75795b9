------------------------------ MODULE MCAsking ------------------------------
(***************************************************************************)
(* GroundedAnswers, with the daemon under it, and ProviderCalls on small     *)
(* instances.  The two share no variable and neither calls the other, so a   *)
(* behaviour of one is checked while the other rests where it starts.        *)
(* Files, texts, callers and tasks are interchangeable.                      *)
(***************************************************************************)
EXTENDS GroundedAnswers, ProviderCalls, TLC

VARIABLE moving    \* whose behaviour it is

askingVars == <<allVars, providerVars, moving>>

AskingInit ==
  /\ moving \in {"answers", "provider"}
  /\ AskInit /\ ProviderInit
  /\ moving = "provider" => Local /\ Present = {}

AskingNext ==
  \/ moving = "answers" /\ AskNext /\ UNCHANGED <<providerVars, moving>>
  \/ moving = "provider" /\ ProviderNext /\ UNCHANGED <<allVars, moving>>

AskingSpec == AskingInit /\ [][AskingNext]_askingVars

\* A second edit is followed while nobody has asked: it is the daemon's index that two
\* edits can leave behind.
SecondEditBeforeAsking == edits < 2 \/ (asking = "idle" /\ answer = NoAnswer)

\* Only one of the two moves, so permuting the sets of both at once leaves no more states
\* than permuting each alone, and there are fewer permutations to try.
Moves(p) == \E x \in DOMAIN p : p[x] # x
Odd(p) == Cardinality({x \in DOMAIN p : p[x] = x}) = 1    \* of three tasks: swaps two

Symmetry ==
  {p @@ q : <<p, q>> \in {pq \in Permutations(Callers) \X Permutations(Texts) : Moves(pq[1]) <=> Moves(pq[2])}}
  \cup
  {p @@ q : <<p, q>> \in {pq \in Permutations(Tasks) \X Permutations(Files) : Odd(pq[1]) <=> Moves(pq[2])}}
=============================================================================
