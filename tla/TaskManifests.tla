--------------------------- MODULE TaskManifests ---------------------------
(***************************************************************************)
(* The task manifests of the AI execution workflow, as the UI server drives *)
(* them: tools/citadel_execution_manifest.py (store, state machine, guards, *)
(* recovery), tools/citadel_ai_orchestrator.py (plan, run) and the          *)
(* POST /api/execute/... handlers of tools/citadel_ui_server.py.            *)
(*                                                                          *)
(* The server runs one thread per request (ThreadingHTTPServer).  A handler *)
(* loads a manifest file, changes its own copy and writes the copy back, at *)
(* once or after a provider or validation call that lasts minutes; no       *)
(* handler below holds a lock.  A write is Path.write_text: the file is     *)
(* truncated, then written; a torn file loads as None.                      *)
(*                                                                          *)
(* A handler thread is its place, its copy, and `todo`: the versions of the *)
(* manifest it has still to write, in order.  Abstracted: texts and         *)
(* timestamps; plan_output, validation_output, allowed_files and            *)
(* validation_required are whether they are empty; a token is a number and  *)
(* 0 is none.                                                               *)
(*                                                                          *)
(* Every manifest is created by run_plan_only with the plan-only mode, so   *)
(* can_execute refuses every run: what follows it in run_execute_scoped is  *)
(* not reached, and is not modelled.  No task is ever executed either, so a *)
(* request for a review is refused by the table and changes nothing.        *)
(***************************************************************************)
EXTENDS Naturals, Sequences

CONSTANTS Tasks,      \* task ids (create_manifest draws fresh ones)
          Handlers,   \* request threads alive at once
          MaxTokens   \* bound on the approval tokens generated

ASSUME ManifestAssumption == MaxTokens \in Nat

VARIABLES file,      \* task -> the last complete version written, or Missing
          torn,      \* tasks whose file is truncated or garbled
          place,     \* handler -> where its thread stands
          task,      \* handler -> the task of its request
          copy,      \* handler -> its copy of the manifest
          todo,      \* handler -> the versions of the copy it has still to write
          tokens,    \* approval tokens generated so far
          refused    \* the reasons runs were refused for (history)

threadVars == <<place, task, copy, todo>>
vars == <<file, torn, threadVars, tokens, refused>>

States == {"draft", "planned", "awaiting_plan_approval", "plan_rejected",
           "execution_approved", "executing", "execution_failed", "executed", "reviewing",
           "review_failed", "validating", "validation_failed", "completed", "blocked", "cancelled"}

Stop == {"blocked", "cancelled"}

\* _ALLOWED_TRANSITIONS
Allowed == [s \in States |->
  CASE s = "draft"                  -> {"planned"} \cup Stop
    [] s = "planned"                -> {"awaiting_plan_approval"} \cup Stop
    [] s = "awaiting_plan_approval" -> {"execution_approved", "plan_rejected"} \cup Stop
    [] s = "plan_rejected"          -> {"draft", "cancelled"}
    [] s = "execution_approved"     -> {"executing"} \cup Stop
    [] s = "executing"              -> {"executed", "execution_failed"} \cup Stop
    [] s = "execution_failed"       -> {"executing"} \cup Stop
    [] s = "executed"               -> {"reviewing", "validating", "completed"} \cup Stop
    [] s = "reviewing"              -> {"review_failed", "validating", "completed"} \cup Stop
    [] s = "review_failed"          -> {"reviewing"} \cup Stop
    [] s = "validating"             -> {"completed", "validation_failed"} \cup Stop
    [] s = "validation_failed"      -> {"validating"} \cup Stop
    [] s = "blocked"                -> {"cancelled"}
    [] s \in {"completed", "cancelled"} -> {}]

Manifest == [status : States, approved : BOOLEAN, byUser : BOOLEAN, token : Nat,
             plan : BOOLEAN, files : BOOLEAN, checks : BOOLEAN, validated : BOOLEAN]

Missing == [status |-> "missing"]
NoTask == "none"

\* create_manifest
NewManifest(files) ==
  [status |-> "draft", approved |-> FALSE, byUser |-> FALSE, token |-> 0,
   plan |-> FALSE, files |-> files, checks |-> FALSE, validated |-> FALSE]

\* The versions that transition(m, s) writes: one, or none when the table does
\* not allow it (ValueError).
CanMove(m, s) == s \in Allowed[m.status]
Transition(m, s) == IF CanMove(m, s) THEN <<[m EXCEPT !.status = s]>> ELSE <<>>

\* ManifestStore.load finds a manifest: None for a missing or a torn file.
Loadable(t) == t \in Tasks \ torn /\ file[t] # Missing

----------------------------------------------------------------------------
Init == /\ file = [t \in Tasks |-> Missing]
        /\ torn = {}
        /\ place = [h \in Handlers |-> "idle"]
        /\ task = [h \in Handlers |-> NoTask]
        /\ copy = [h \in Handlers |-> Missing]
        /\ todo = [h \in Handlers |-> <<>>]
        /\ tokens = 0
        /\ refused = {}

\* Handler h goes on to place p with copy m and the versions ms to write.
Proceed(h, t, p, m, ms) ==
  /\ place' = [place EXCEPT ![h] = p]
  /\ task' = [task EXCEPT ![h] = t]
  /\ copy' = [copy EXCEPT ![h] = m]
  /\ todo' = [todo EXCEPT ![h] = ms]

\* A handler that loads t and has only ms left to write.
Answer(h, t, ms) == /\ place[h] = "idle" /\ Loadable(t)
                    /\ Proceed(h, t, "writing", file[t], ms)
                    /\ UNCHANGED <<file, torn, refused>>

\* POST plan, run_plan_only: a fresh task is created (one write) and moved to
\* planned (another); then the provider is called.
StartPlan(h, t, files) ==
  /\ place[h] = "idle" /\ file[t] = Missing /\ \A g \in Handlers : task[g] # t
  /\ LET new == NewManifest(files)
         planned == [new EXCEPT !.status = "planned"]
     IN Proceed(h, t, "creating", planned, <<new, planned>>)
  /\ UNCHANGED <<file, torn, tokens, refused>>

\* A mutant of PlanReturns: the task is offered for approval before the plan is
\* stored, the order that the blocked branch uses.
PlanReturnsLate(h) ==
  /\ place[h] = "planning"
  /\ \E checks \in BOOLEAN :
       LET waiting == [copy[h] EXCEPT !.status = "awaiting_plan_approval"]
           stored == [waiting EXCEPT !.plan = TRUE, !.files = TRUE, !.checks = checks]
       IN Proceed(h, task[h], "writing", stored, <<waiting, stored>>)
  /\ UNCHANGED <<file, torn, tokens, refused>>

\* A mutant of PlanReturns: the provider's own result status becomes the task's.
PlanReturnsRaw(h) ==
  /\ place[h] = "planning"
  /\ LET stored == [copy[h] EXCEPT !.status = "completed_error", !.plan = TRUE]
     IN Proceed(h, task[h], "writing", stored, <<stored>>)
  /\ UNCHANGED <<file, torn, tokens, refused>>

\* The provider call ends: with a plan, which is stored and then offered for
\* approval; blocked, and then the task is blocked before the output is stored;
\* or with an exception, which leaves the task planned.
PlanReturns(h) ==
  /\ place[h] = "planning"
  /\ \/ \E checks \in BOOLEAN, proposed \in BOOLEAN :
          LET stored == [copy[h] EXCEPT !.plan = TRUE, !.checks = checks,
                                        !.files = @ \/ proposed]
          IN Proceed(h, task[h], "writing", stored,
                     <<stored>> \o Transition(stored, "awaiting_plan_approval"))
     \/ LET moved == Transition(copy[h], "blocked")
            stored == [copy[h] EXCEPT !.status = "blocked", !.plan = TRUE]
        IN Proceed(h, task[h], "writing", stored, moved \o <<stored>>)
     \/ Proceed(h, NoTask, "idle", Missing, <<>>)
  /\ UNCHANGED <<file, torn, tokens, refused>>

\* The versions that an approval of the execution writes: generate_approval_token
\* saves the flags and the token, then the task moves to execution_approved.
ExecutionApproved(m) ==
  LET flagged == [m EXCEPT !.byUser = TRUE, !.approved = TRUE, !.token = tokens + 1]
  IN <<flagged>> \o Transition(flagged, "execution_approved")

\* A mutant of Approve: the transition is saved before the token is generated.
ApproveThenToken(h, t, plan, exec) ==
  /\ exec /\ tokens < MaxTokens /\ tokens' = tokens + 1
  /\ Loadable(t) /\ CanMove(file[t], "execution_approved")
  /\ LET moved == [file[t] EXCEPT !.byUser = TRUE, !.approved = TRUE,
                                  !.status = "execution_approved"]
     IN Answer(h, t, <<moved, [moved EXCEPT !.token = tokens + 1]>>)

\* POST approve.  An approval of the execution is taken from planned too, where
\* the transition fails once the flags and the token are saved; any request that
\* approves nothing writes the manifest back as it was loaded.
Approve(h, t, plan, exec) ==
  /\ Loadable(t)
  /\ LET m == file[t]
         waiting == m.status = "awaiting_plan_approval"
     IN \/ /\ exec /\ (waiting \/ m.status = "planned")
           /\ tokens < MaxTokens /\ tokens' = tokens + 1
           /\ Answer(h, t, ExecutionApproved(m))
        \/ /\ plan /\ waiting /\ ~exec
           /\ Answer(h, t, <<[m EXCEPT !.byUser = TRUE]>>)
           /\ UNCHANGED tokens
        \/ /\ ~(exec /\ (waiting \/ m.status = "planned")) /\ ~(plan /\ waiting)
           /\ Answer(h, t, <<m>>)
           /\ UNCHANGED tokens

\* POST cancel: to cancelled, else to blocked, else refused.
Cancel(h, t) ==
  /\ Loadable(t)
  /\ \E s \in Stop : /\ CanMove(file[t], s)
                     /\ s = "blocked" => ~CanMove(file[t], "cancelled")
                     /\ Answer(h, t, Transition(file[t], s))
  /\ UNCHANGED tokens

\* can_execute: why a run of m is refused, in the order of the guards.  The mode
\* is plan-only in every manifest that exists.
Refusal(m) == IF m.status # "execution_approved" THEN "status"
              ELSE IF ~m.approved THEN "not_approved"
              ELSE IF ~m.byUser THEN "not_by_user"
              ELSE IF ~m.files THEN "no_files"
              ELSE "mode"

\* POST run, run_execute_scoped up to its first guard.
Run(h, t) == /\ place[h] = "idle" /\ Loadable(t)
             /\ refused' = refused \cup {Refusal(file[t])}
             /\ UNCHANGED <<file, torn, threadVars, tokens>>

\* POST validate: the commands run for minutes between the load and the save.
StartValidate(h, t) ==
  /\ place[h] = "idle" /\ Loadable(t)
  /\ Proceed(h, t, "validating", file[t], <<>>)
  /\ UNCHANGED <<file, torn, tokens, refused>>

ValidateReturns(h) ==
  /\ place[h] = "validating"
  /\ Proceed(h, task[h], "writing", copy[h], <<[copy[h] EXCEPT !.validated = TRUE]>>)
  /\ UNCHANGED <<file, torn, tokens, refused>>

\* ManifestStore.save, first half: write_text opens the file and truncates it.
Truncate(h) ==
  /\ place[h] \in {"creating", "writing"} /\ todo[h] # <<>>
  /\ torn' = torn \cup {task[h]}
  /\ place' = [place EXCEPT ![h] = IF @ = "creating" THEN "creating_open" ELSE "writing_open"]
  /\ UNCHANGED <<file, task, copy, todo, tokens, refused>>

\* Second half: the text is written.  When another handler has written the same
\* file since, its longer text may survive after the end of this one and garble it.
Write(h) ==
  /\ place[h] \in {"creating_open", "writing_open"}
  /\ \/ /\ file' = [file EXCEPT ![task[h]] = Head(todo[h])]
        /\ torn' = torn \ {task[h]}
     \/ /\ task[h] \notin torn
        /\ torn' = torn \cup {task[h]}
        /\ UNCHANGED file
  /\ todo' = [todo EXCEPT ![h] = Tail(@)]
  /\ place' = [place EXCEPT ![h] = IF @ = "creating_open" THEN "creating" ELSE "writing"]
  /\ UNCHANGED <<task, copy, tokens, refused>>

\* Everything is written: run_plan_only calls the provider, the others reply.
Written(h) ==
  /\ todo[h] = <<>>
  /\ \/ place[h] = "creating" /\ Proceed(h, task[h], "planning", copy[h], <<>>)
     \/ place[h] = "writing" /\ Proceed(h, NoTask, "idle", Missing, <<>>)
  /\ UNCHANGED <<file, torn, tokens, refused>>

\* The server dies at any point and starts again: recover_stuck_tasks blocks
\* what it finds active with no live process.
Restart ==
  /\ \E h \in Handlers : place[h] # "idle"
  /\ place' = [h \in Handlers |-> "idle"]
  /\ task' = [h \in Handlers |-> NoTask]
  /\ copy' = [h \in Handlers |-> Missing]
  /\ todo' = [h \in Handlers |-> <<>>]
  /\ file' = [t \in Tasks |->
                IF Loadable(t) /\ file[t].status \in {"executing", "reviewing", "validating"}
                THEN [file[t] EXCEPT !.status = "blocked"] ELSE file[t]]
  /\ UNCHANGED <<torn, tokens, refused>>

Request(h, t) == \/ \E files \in BOOLEAN : StartPlan(h, t, files)
                 \/ \E plan, exec \in BOOLEAN : Approve(h, t, plan, exec)
                 \/ Cancel(h, t) \/ Run(h, t) \/ StartValidate(h, t)

HandlerStep(h) == PlanReturns(h) \/ ValidateReturns(h) \/ Truncate(h) \/ Write(h) \/ Written(h)

Next == \/ \E h \in Handlers, t \in Tasks : Request(h, t)
        \/ \E h \in Handlers : HandlerStep(h)
        \/ Restart

Spec == Init /\ [][Next]_vars

----------------------------------------------------------------------------
Places == {"idle", "creating", "creating_open", "planning", "validating", "writing", "writing_open"}

TypeOK == /\ file \in [Tasks -> Manifest \cup {Missing}]
          /\ torn \subseteq Tasks
          /\ place \in [Handlers -> Places]
          /\ task \in [Handlers -> Tasks \cup {NoTask}]
          /\ copy \in [Handlers -> Manifest \cup {Missing}]
          /\ todo \in [Handlers -> Seq(Manifest)]
          /\ tokens \in 0..MaxTokens

\* A task that is approved for execution carries the approval: the user's, the
\* flag and a token, in the same version of its file.  No interleaving of stale
\* copies, no crash between two saves and no lost write separates them.
ApprovalIsComplete ==
  \A t \in Tasks : file[t].status = "execution_approved" =>
    file[t].approved /\ file[t].byUser /\ file[t].token # 0

\* Nobody is asked to approve, and nobody has approved, a plan that is not
\* stored with the task.
PlanBeforeApproval ==
  \A t \in Tasks :
    file[t].status \in {"awaiting_plan_approval", "execution_approved"} => file[t].plan
=============================================================================
