----------------------------- MODULE LegionRun -----------------------------
(***************************************************************************)
(* `citadel run`: tools/legion_orchestrator.py (plan, spawn, supervise,     *)
(* finalize), tools/failure_recovery.py (respawn one tier up), the          *)
(* governance gate of tools/legion_governance.py with the board and L5, and *)
(* the table that tools/worker_status.py reduces from the run's ledger.     *)
(*                                                                          *)
(* A run is a supervisor process and its worker processes, one per company. *)
(* The workers only run and exit; the supervisor polls them, one at a time. *)
(* The runs of a workspace share the scorecard file, which the gate writes  *)
(* for a worker and then reads twice, by the board and by L5.  Runs are     *)
(* those followed; Intrude stands for the others, of which only what they   *)
(* do to that file is seen.                                                 *)
(*                                                                          *)
(* Abstracted: a company's change is the verdict it deserves, a scorecard   *)
(* the verdict it leads to; L6 is a verdict of its own; the ledger is the   *)
(* table it reduces to (`row`), which is all that its readers see of it;    *)
(* token usage is left out, as the supervisor never acts on it.             *)
(***************************************************************************)
EXTENDS Naturals, FiniteSets

CONSTANTS Runs,         \* runs in the workspace at once
          NumWorkers,   \* workers of a run
          BlindDiffs    \* `git diff HEAD` may show nothing of a change: it fails,
                        \* times out, or the change is in new files

ASSUME LegionAssumption == NumWorkers \in Nat \ {0} /\ BlindDiffs \in BOOLEAN

Slots == 1..NumWorkers
Workers == Runs \X Slots

VARIABLES pc,        \* run -> where its supervisor stands
          at,        \* run -> the slot of the worker it finalizes
          allOk,     \* run -> approved_all
          proc,      \* worker -> "none", "running", "exited"
          ended,     \* worker -> how its last process ended
          change,    \* worker -> what its company's tree has become
          tier, used, \* worker -> spec.tier, spec.escalations_used
          terminal,  \* worker -> "no", "done", "blocked"
          row,       \* worker -> its row of legion_status
          scorecard, \* principle-scorecard.json of the workspace
          misjudged  \* workers whose scorecard was not that of their change: git
                     \* did not show it, or another run wrote the file (history)

runVars == <<pc, at, allOk>>
specVars == <<tier, used, terminal, row>>
gate == <<scorecard, misjudged>>
legionVars == <<runVars, proc, ended, change, specVars, gate>>

Tiers == {"cheap", "standard", "strong-planning", "ultracode"}

\* next_tier: the ceiling maps to itself.
NextTier == [t \in Tiers |-> CASE t = "cheap" -> "standard" [] t = "standard" -> "strong-planning"
                               [] OTHER -> "ultracode"]

MaxEscalations == 2

\* Verdicts a change can deserve: no contested principle; none below the board's
\* threshold but one below L5's; contested and not accepted by the board.
Verdicts == {"clean", "decayed", "vetoed"}

----------------------------------------------------------------------------
\* plan_run: the first worker leads at the tier of the task's complexity.
LegionInit ==
  /\ pc = [r \in Runs |-> "planning"] /\ at = [r \in Runs |-> 1]
  /\ allOk = [r \in Runs |-> TRUE]
  /\ proc = [w \in Workers |-> "none"]
  /\ ended = [w \in Workers |-> "clean"]
  /\ change = [w \in Workers |-> "clean"]
  /\ \E lead \in [Runs -> Tiers \ {"ultracode"}] :
       tier = [w \in Workers |-> IF w[2] = 1 THEN lead[w[1]] ELSE "cheap"]
  /\ used = [w \in Workers |-> 0]
  /\ terminal = [w \in Workers |-> "no"]
  /\ row = [w \in Workers |-> [status |-> "absent", tier |-> "cheap"]]
  /\ scorecard = "clean" /\ misjudged = {}

Goto(r, place) == pc' = [pc EXCEPT ![r] = place]
Record(w, status, t) == row' = [row EXCEPT ![w] = [status |-> status, tier |-> t]]

\* The plan gate lets the run start, or ends it.
Plan(r) == /\ pc[r] = "planning"
           /\ \/ Goto(r, "spawning") /\ UNCHANGED allOk
              \/ Goto(r, "returned") /\ allOk' = [allOk EXCEPT ![r] = FALSE]
           /\ UNCHANGED <<at, proc, ended, change, specVars, gate>>

\* spawn_worker: Popen, then the prompt is written to the process; either may raise,
\* which ends the supervisor, after the second with the worker running.
Popen(r, w, place) ==
  \/ proc' = [proc EXCEPT ![w] = "running"] /\ (Goto(r, place) \/ Goto(r, "dead"))
  \/ Goto(r, "dead") /\ UNCHANGED proc

\* _spawn_all: one worker after the other.
Spawn(r, n) ==
  LET w == <<r, n>> IN
  /\ pc[r] = "spawning" /\ proc[w] = "none" /\ \A m \in Slots : m < n => proc[<<r, m>>] # "none"
  /\ at' = [at EXCEPT ![r] = n]
  /\ Popen(r, w, "starting")
  /\ UNCHANGED <<allOk, ended, change, specVars, gate>>

\* Its start is appended to the ledger.
RecordStart(r) ==
  LET w == <<r, at[r]>> IN
  /\ pc[r] = "starting" /\ Record(w, "working", tier[w])
  /\ Goto(r, IF at[r] = NumWorkers THEN "polling" ELSE "spawning")
  /\ UNCHANGED <<at, allOk, proc, ended, change, tier, used, terminal, gate>>

\* A worker process ends, whatever became of its supervisor: cleanly; with a
\* retryable exit code or an error result; with another exit code, as one that
\* was killed by a signal has.
Exit(w) == /\ proc[w] = "running"
           /\ proc' = [proc EXCEPT ![w] = "exited"]
           /\ \E how \in {"clean", "failed", "other"} : ended' = [ended EXCEPT ![w] = how]
           /\ \E v \in Verdicts : change' = [change EXCEPT ![w] = v]
           /\ UNCHANGED <<runVars, specVars, gate>>

\* decide: a failed worker is respawned one tier up while its budget lasts.
ShouldRespawn(w) == /\ ended[w] = "failed" /\ used[w] < MaxEscalations
                    /\ NextTier[tier[w]] # tier[w]

\* A mutant of Polled: the sweep waits for each worker in turn.
PolledInTurn(r, w) ==
  /\ pc[r] = "polling" /\ w[1] = r /\ proc[w] = "exited" /\ terminal[w] = "no"
  /\ \A n \in Slots : n < w[2] => terminal[<<r, n>>] # "no"

\* poll sees the exit of w.
Polled(r, w) ==
  /\ pc[r] = "polling" /\ w[1] = r /\ proc[w] = "exited" /\ terminal[w] = "no"

\* A mutant of Respawn: the ledger keeps the tier the worker had.
RespawnRecordsOldTier(r, w) ==
  /\ Polled(r, w) /\ ShouldRespawn(w)
  /\ tier' = [tier EXCEPT ![w] = NextTier[@]] /\ used' = [used EXCEPT ![w] = @ + 1]
  /\ row' = [row EXCEPT ![w].status = "respawning"]
  /\ proc' = [proc EXCEPT ![w] = "running"]
  /\ UNCHANGED <<pc, at, allOk, ended, change, terminal, gate>>

\* The respawn is recorded, then spawned.
Respawn(r, w) ==
  /\ Polled(r, w) /\ ShouldRespawn(w)
  /\ tier' = [tier EXCEPT ![w] = NextTier[@]] /\ used' = [used EXCEPT ![w] = @ + 1]
  /\ Record(w, "respawning", NextTier[tier[w]])
  /\ Popen(r, w, "polling")
  /\ UNCHANGED <<at, allOk, ended, change, terminal, gate>>

\* The workers whose scorecard has been written and is still to be read.
AtGate == {<<r, at[r]>> : r \in {q \in Runs : pc[q] \in {"ruling", "validating"}}}

\* Every other worker is finalized, also one that failed: the scorecard file is
\* opened for its changed files.
Finalize(r, w) ==
  /\ Polled(r, w) /\ ~ShouldRespawn(w)
  /\ at' = [at EXCEPT ![r] = w[2]] /\ Goto(r, "scoring")
  /\ scorecard' = "torn" /\ misjudged' = misjudged \cup AtGate
  /\ UNCHANGED <<allOk, proc, ended, change, specVars>>

\* score_companies: the changed files that git shows are scored; none is clean.
Score(r) ==
  /\ pc[r] = "scoring" /\ Goto(r, "ruling")
  /\ \/ scorecard' = change[<<r, at[r]>>] /\ misjudged' = misjudged \cup AtGate
     \/ BlindDiffs /\ scorecard' = "clean" /\ misjudged' = misjudged \cup AtGate \cup {<<r, at[r]>>}
  /\ UNCHANGED <<at, allOk, proc, ended, change, specVars>>

\* A mutant of Settle: the last worker's verdict becomes the run's.
SettleLast(r, ok) ==
  LET w == <<r, at[r]>>  status == IF ok THEN "done" ELSE "blocked" IN
  /\ terminal' = [terminal EXCEPT ![w] = status]
  /\ allOk' = [allOk EXCEPT ![r] = ok]
  /\ Record(w, status, tier[w]) /\ UNCHANGED tier
  /\ Goto(r, "polling")

\* The verdict on the worker is recorded and the worker is terminal.
Settle(r, ok) ==
  LET w == <<r, at[r]>>  status == IF ok THEN "done" ELSE "blocked" IN
  /\ terminal' = [terminal EXCEPT ![w] = status]
  /\ allOk' = [allOk EXCEPT ![r] = @ /\ ok]
  /\ Record(w, status, tier[w]) /\ UNCHANGED tier
  /\ Goto(r, "polling")

\* board_ruling reads the scorecard; a torn one raises and ends the supervisor.
Rule(r) ==
  /\ pc[r] = "ruling"
  /\ \/ scorecard = "torn" /\ Goto(r, "dead") /\ UNCHANGED <<allOk, specVars>>
     \/ scorecard = "vetoed" /\ Settle(r, FALSE) /\ UNCHANGED used
     \/ scorecard \in {"clean", "decayed"} /\ Goto(r, "validating") /\ UNCHANGED <<allOk, specVars>>
  /\ UNCHANGED <<at, proc, ended, change, gate>>

\* A mutant of Validate: only L6 is asked.
ValidateByTests(r) ==
  /\ pc[r] = "validating" /\ Goto(r, "testing")
  /\ UNCHANGED <<at, allOk, proc, ended, change, specVars, gate>>

\* validation_gates: L5 reads the scorecard again and fails closed; L6 has its say
\* when git shows a changed Python file.
Validate(r) ==
  /\ pc[r] = "validating"
  /\ \/ scorecard # "clean" /\ Settle(r, FALSE) /\ UNCHANGED used
     \/ scorecard = "clean" /\ Settle(r, TRUE) /\ UNCHANGED used
     \/ scorecard = "clean" /\ Goto(r, "testing") /\ UNCHANGED <<allOk, specVars>>
  /\ UNCHANGED <<at, proc, ended, change, gate>>

\* execute_shadow_build: pytest runs what the worker wrote, without a timeout, and
\* passes or not, if it ends.
TestsEnd(r) ==
  /\ pc[r] = "testing" /\ \E l6 \in BOOLEAN : Settle(r, l6)
  /\ UNCHANGED <<at, proc, ended, change, used, gate>>

\* All workers are terminal: the exit code is 0 if all were approved.
Return(r) == /\ pc[r] = "polling" /\ \A n \in Slots : terminal[<<r, n>>] # "no"
             /\ Goto(r, "returned")
             /\ UNCHANGED <<at, allOk, proc, ended, change, specVars, gate>>

\* The supervisor is killed; its workers run on.
Die(r) == /\ pc[r] \notin {"returned", "dead"} /\ Goto(r, "dead")
          /\ UNCHANGED <<at, allOk, proc, ended, change, specVars, gate>>

\* Another run of the workspace writes the file, for a worker of its own.
Intrude == /\ AtGate # {} /\ scorecard' \in Verdicts \cup {"torn"}
           /\ misjudged' = misjudged \cup AtGate
           /\ UNCHANGED <<runVars, proc, ended, change, specVars>>

Handle(r) == \E n \in Slots : \/ Respawn(r, <<r, n>>) \/ Finalize(r, <<r, n>>)

SupervisorStep(r) == \/ Plan(r) \/ (\E n \in Slots : Spawn(r, n)) \/ RecordStart(r) \/ Handle(r)
                     \/ Score(r) \/ Rule(r) \/ Validate(r) \/ Return(r)

LegionNext == \/ \E r \in Runs : SupervisorStep(r) \/ TestsEnd(r) \/ Die(r)
              \/ Intrude \/ \E w \in Workers : Exit(w)

LegionSpec == LegionInit /\ [][LegionNext]_legionVars

\* The supervisor process is scheduled.  Nothing makes a worker exit, and nothing ends
\* the tests of L6: neither has a timeout.
LiveSpec == LegionSpec /\ \A r \in Runs : WF_legionVars(SupervisorStep(r))

----------------------------------------------------------------------------
Alive(r) == pc[r] # "dead"

LegionTypeOK ==
  /\ pc \in [Runs -> {"planning", "spawning", "starting", "polling", "scoring", "ruling",
                      "validating", "testing", "returned", "dead"}]
  /\ at \in [Runs -> Slots] /\ allOk \in [Runs -> BOOLEAN]
  /\ proc \in [Workers -> {"none", "running", "exited"}]
  /\ ended \in [Workers -> {"clean", "failed", "other"}]
  /\ change \in [Workers -> Verdicts]
  /\ tier \in [Workers -> Tiers] /\ used \in [Workers -> 0..MaxEscalations]
  /\ terminal \in [Workers -> {"no", "done", "blocked"}]
  /\ row \in [Workers -> [status : {"absent", "working", "respawning", "done", "blocked"},
                          tier : Tiers]]
  /\ scorecard \in Verdicts \cup {"torn"} /\ misjudged \subseteq Workers

\* A run that returns leaves no process behind and no worker without a verdict,
\* however its workers failed and came back; and its exit code is 0 exactly when
\* every one of them was approved.
ReturnedRunIsSettled ==
  \A r \in Runs : pc[r] = "returned" =>
    /\ \A n \in Slots : proc[<<r, n>>] # "running"
    /\ allOk[r] <=> \A n \in Slots : terminal[<<r, n>>] = "done"

\* Started, and not yet in the ledger.
Unrecorded(w) == pc[w[1]] = "starting" /\ at[w[1]] = w[2]

\* The table reduced from the ledger shows the tier a live worker runs at and the
\* verdict a settled one got, unless its supervisor died or has just started it.
TableFollowsRun ==
  \A w \in Workers : Alive(w[1]) /\ proc[w] # "none" /\ ~Unrecorded(w) =>
    /\ row[w].tier = tier[w]
    /\ terminal[w] # "no" => row[w].status = terminal[w]

\* Escalations stay within their budget, and the table says so.
WorkersAreAccounted == LegionTypeOK /\ TableFollowsRun

\* legion_governance: the companies "mechanically score each worker's changed
\* files" and the gates veto: a worker is done only if its own change is clean, or
\* the scorecard it was judged by was not that of its change.
DoneIsClean ==
  \A w \in Workers : terminal[w] = "done" => change[w] = "clean" \/ w \in misjudged

\* The exit of a worker is always noticed: it is respawned or settled, whatever the
\* other workers do, unless the supervisor dies or the tests of some worker never end,
\* as the supervisor waits for them.
ExitIsHandled ==
  \A w \in Workers :
    \/ proc[w] = "exited" ~> (proc[w] = "running" \/ terminal[w] # "no" \/ pc[w[1]] = "dead")
    \/ <>[](pc[w[1]] = "testing")
=============================================================================
