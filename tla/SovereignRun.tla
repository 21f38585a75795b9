----------------------------- MODULE SovereignRun -----------------------------
(***************************************************************************)
(* sovereign_run (services/execute/executor.py) and LocalConfidence         *)
(* (policy.py): which commands try the local tier.  Each command loads the  *)
(* confidence file, is routed by it, appends what became of its local       *)
(* attempt, and goes to the cloud after a failure.  Commands overlap, and   *)
(* one may die in the middle of its append.                                 *)
(*                                                                          *)
(* One intent, local first, of low complexity and no risk: `do --file`      *)
(* always asks for "simple_function".  What the executors do is             *)
(* SovereignDo's subject: here an attempt passes or fails, and `trend` is   *)
(* what the intent has come to: anything goes, every attempt fails, or      *)
(* every attempt passes.  The file is what a load makes of it: its local    *)
(* lines before the first torn one.                                         *)
(***************************************************************************)
EXTENDS Naturals

CONSTANTS Commands,     \* command processes alive at once
          MinAttempts,  \* min_attempts of LocalConfidence
          MaxPassed,    \* bound on the local passes recorded while the trend is mixed
          MaxCrashes    \* bound on the commands that die

ASSUME RunAssumption == MinAttempts \in Nat \ {0} /\ MaxPassed \in Nat /\ MaxCrashes \in Nat

VARIABLES stats,    \* what a load of the confidence file makes of it
          torn,     \* the file has a torn line
          stage,    \* process -> where it stands
          learned,  \* process -> the stats it loaded
          trend,    \* "mixed", then "failing", then "recovered"
          crashes   \* commands that have died

routeVars == <<stats, torn, stage, learned, trend, crashes>>

NoStats == [passed |-> 0, attempts |-> 0]

----------------------------------------------------------------------------
RunInit == /\ stats = NoStats /\ torn = FALSE /\ trend = "mixed" /\ crashes = 0
           /\ stage = [c \in Commands |-> "off"] /\ learned = [c \in Commands |-> NoStats]

In(c, where) == stage[c] = where
Into(c, where) == stage' = [stage EXCEPT ![c] = where]

\* confidence: the prior of 1 until MinAttempts attempts are recorded.
Confident(s) == s.attempts < MinAttempts \/ 2 * s.passed >= s.attempts

\* LocalConfidence is loaded by the command that uses it.  The commands of an intent
\* that has recovered and is trusted are left out: they only count further passes.
Start(c) == /\ In(c, "off") /\ Into(c, "routing")
            /\ trend = "recovered" => ~Confident(stats)
            /\ learned' = [learned EXCEPT ![c] = stats]
            /\ UNCHANGED <<stats, torn, trend, crashes>>

\* route, for an intent that is local first.
Route(c) == /\ In(c, "routing")
            /\ Into(c, IF Confident(learned[c]) THEN "local" ELSE "cloud")
            /\ UNCHANGED <<stats, torn, learned, trend, crashes>>

\* What an attempt of the intent may end with.
MayEnd(passed) == \/ trend = "mixed" /\ (passed => stats.passed < MaxPassed)
                  \/ trend = "failing" /\ ~passed
                  \/ trend = "recovered" /\ passed

\* A mutant of Learned: the line of an attempt is appended when it passed.
LearnedPasses(passed) ==
  stats' = IF torn \/ ~passed THEN stats
           ELSE [passed |-> stats.passed + 1, attempts |-> stats.attempts + 1]

\* record: one line is appended, which a load counts unless it is behind a torn one.
Learned(passed) ==
  stats' = IF torn THEN stats
           ELSE [passed |-> stats.passed + IF passed THEN 1 ELSE 0, attempts |-> stats.attempts + 1]

\* The local attempt is recorded; a failed one goes on to the cloud.
TryLocal(c, passed) ==
  /\ In(c, "local") /\ MayEnd(passed) /\ Learned(passed)
  /\ Into(c, IF passed THEN "off" ELSE "cloud")
  /\ UNCHANGED <<torn, learned, trend, crashes>>

\* The cloud's outcome is appended too, with a tier that no load counts.
TryCloud(c) == /\ In(c, "cloud") /\ Into(c, "off")
               /\ UNCHANGED <<stats, torn, learned, trend, crashes>>

\* The process dies, perhaps within an append.
Killed(c) == /\ stage[c] # "off" /\ Into(c, "off")
             /\ crashes < MaxCrashes /\ crashes' = crashes + 1
             /\ torn' \in IF stage[c] \in {"local", "cloud"} THEN {torn, TRUE} ELSE {torn}
             /\ UNCHANGED <<stats, learned, trend>>

\* The intent comes to fail whatever is tried, and later to pass.
Turn == /\ \/ trend = "mixed" /\ trend' = "failing"
           \/ trend = "failing" /\ trend' = "recovered"
        /\ UNCHANGED <<stats, torn, stage, learned, crashes>>

RunStep(c) == Start(c) \/ Route(c) \/ (\E passed \in BOOLEAN : TryLocal(c, passed)) \/ TryCloud(c)

RunNext == (\E c \in Commands : RunStep(c) \/ Killed(c)) \/ Turn

RunSpec == RunInit /\ [][RunNext]_routeVars

\* Commands of the intent keep coming, and those that do not die end.
LiveRunSpec == RunSpec /\ \A c \in Commands : WF_routeVars(RunStep(c))

----------------------------------------------------------------------------
RunTypeOK == /\ stats \in [passed : Nat, attempts : Nat] /\ torn \in BOOLEAN
             /\ stage \in [Commands -> {"off", "routing", "local", "cloud"}]
             /\ learned \in [Commands -> [passed : Nat, attempts : Nat]]
             /\ trend \in {"mixed", "failing", "recovered"} /\ crashes \in 0..MaxCrashes

Low == ~Confident(stats)

\* "A repeatedly-failing intent loses confidence": as long as the intent fails, it comes
\* to be escalated, however its commands overlap, unless one died within its append:
\* what is behind a torn line is not learned.
FailingIsEscalated == trend = "failing" ~> Low \/ torn \/ trend = "recovered"

\* "A recovering intent regains confidence and returns to the free local tier": from the
\* moment on that every attempt passes, a low confidence does not stay low.  The cloud's
\* passes do not count, and the local tier is not tried any more.
RecoveredReturns == trend = "recovered" ~> ~Low

\* No command is left that found the intent worth trying.
MayTryLocal(c) == stage[c] \in {"routing", "local"} /\ Confident(learned[c])
Settled == Low /\ \A c \in Commands : ~MayTryLocal(c)

\* What refutes RecoveredReturns, of any number of commands: once the recorded attempts
\* passed too rarely, and no command is left that loaded them before, no step of any
\* command raises the confidence again.
LowConfidenceIsFinal == [][Settled => Settled']_routeVars
=============================================================================
