--------------------------- MODULE ApprovalProofs ---------------------------
(***************************************************************************)
(* Theorems about what an approval rests on: of a task, in TaskManifests,   *)
(* for any tasks and any number of handler threads; of a worker's change,   *)
(* in LegionRun, for any runs, workers and `git diff`.                      *)
(***************************************************************************)
EXTENDS TaskManifests, LegionRun, SequenceTheorems, TLAPS

----------------------------------------------------------------------------
\* Tasks.  Every version of a manifest that a handler composes from a sound copy
\* is sound by itself, and a file is only ever replaced as a whole; so it does not
\* matter how stale the copies are, in which order they are written, or which
\* writes a crash cuts off.

\* A version that may stand in a file: approved only with a complete approval,
\* and up for approval only with its plan.
Sound(m) ==
  /\ m.status = "execution_approved" => m.approved /\ m.byUser /\ m.token # 0
  /\ m.status \in {"awaiting_plan_approval", "execution_approved"} => m.plan

Version == {m \in Manifest : Sound(m)}

\* The places where a handler still needs the copy it loaded or made.
NeedsCopy == {"creating", "creating_open", "planning", "validating"}
Writing == {"creating_open", "writing_open"}

\* The inductive invariant: the files, the copies and all that is still to be
\* written are sound versions.
ManifestInv == /\ file \in [Tasks -> Version \cup {Missing}]
               /\ torn \subseteq Tasks
               /\ place \in [Handlers -> Places]
               /\ task \in [Handlers -> Tasks \cup {NoTask}]
               /\ copy \in [Handlers -> Version \cup {Missing}]
               /\ todo \in [Handlers -> Seq(Version)]
               /\ tokens \in 0..MaxTokens
               /\ \A h \in Handlers : place[h] # "idle" => task[h] \in Tasks
               /\ \A h \in Handlers : place[h] \in NeedsCopy => copy[h] \in Version
               /\ \A h \in Handlers : place[h] \in Writing => todo[h] # <<>>

----------------------------------------------------------------------------
\* The missing manifest is none of the versions: it has one field.
LEMMA MissingIsNoVersion == Missing \notin Manifest /\ Missing.status = "missing"
<1>1. \A m \in Manifest : m # Missing
  BY DEF Manifest, Missing, States
<1>2. QED BY <1>1 DEF Missing

\* Singletons and pairs of versions are sequences of versions.
LEMMA VersionSeqs ==
  /\ <<>> \in Seq(Version)
  /\ \A m \in Version : <<m>> \in Seq(Version)
  /\ \A m, n \in Version : <<m, n>> \in Seq(Version)
  OBVIOUS

\* The updates that keep a version sound, whatever its status.
LEMMA SoundUpdates ==
  ASSUME NEW m \in Version
  PROVE  /\ [m EXCEPT !.validated = TRUE] \in Version
         /\ [m EXCEPT !.byUser = TRUE] \in Version
         /\ \A k \in Nat \ {0} :
              [m EXCEPT !.byUser = TRUE, !.approved = TRUE, !.token = k] \in Version
         /\ \A c, f \in BOOLEAN :
              [m EXCEPT !.plan = TRUE, !.checks = c, !.files = @ \/ f] \in Version
         /\ [m EXCEPT !.status = "blocked", !.plan = TRUE] \in Version
<1>1. [m EXCEPT !.validated = TRUE] \in Version /\ [m EXCEPT !.byUser = TRUE] \in Version
  BY DEF Version, Manifest, Sound
<1>2. ASSUME NEW k \in Nat \ {0}
      PROVE  [m EXCEPT !.byUser = TRUE, !.approved = TRUE, !.token = k] \in Version
  BY DEF Version, Manifest, Sound
<1>3. ASSUME NEW c \in BOOLEAN, NEW f \in BOOLEAN
      PROVE  [m EXCEPT !.plan = TRUE, !.checks = c, !.files = @ \/ f] \in Version
  <2>1. (m.files \/ f) \in BOOLEAN
    OBVIOUS
  <2> DEFINE g == m.files \/ f
  <2>2. [m EXCEPT !.plan = TRUE, !.checks = c, !.files = g] \in Version
    <3> HIDE DEF g
    <3>1. g \in BOOLEAN
      BY <2>1 DEF g
    <3>2. QED BY <3>1 DEF Version, Manifest, Sound
  <2>3. QED BY <2>2
<1>4. [m EXCEPT !.status = "blocked", !.plan = TRUE] \in Version
  BY DEF Version, Manifest, Sound, States
<1>5. QED BY <1>1, <1>2, <1>3, <1>4

\* A transition that needs no approval, or has one, yields a sound version.
LEMMA SoundTransitions ==
  ASSUME NEW m \in Version, NEW s \in States,
         s \in {"awaiting_plan_approval", "execution_approved"} => m.plan,
         s = "execution_approved" => m.approved /\ m.byUser /\ m.token # 0
  PROVE  Transition(m, s) \in Seq(Version)
<1>1. [m EXCEPT !.status = s] \in Version
  BY DEF Version, Manifest, Sound
<1>2. QED BY <1>1, VersionSeqs DEF Transition

\* Only a task that awaits approval can become approved for execution.
LEMMA ApprovedFromAwaiting ==
  ASSUME NEW m \in Manifest, CanMove(m, "execution_approved")
  PROVE  m.status = "awaiting_plan_approval"
  BY DEF CanMove, Allowed, Manifest, States, Stop

\* The two versions of an approval of the execution are sound.
LEMMA SoundApproval ==
  ASSUME NEW m \in Version, tokens \in Nat
  PROVE  ExecutionApproved(m) \in Seq(Version)
<1> DEFINE flagged == [m EXCEPT !.byUser = TRUE, !.approved = TRUE, !.token = tokens + 1]
<1>1. flagged \in Version
  <2>1. tokens + 1 \in Nat \ {0}
    OBVIOUS
  <2>2. QED BY <2>1, SoundUpdates
<1>2. flagged.approved /\ flagged.byUser /\ flagged.token # 0
  BY DEF Version, Manifest
<1>3. Transition(flagged, "execution_approved") \in Seq(Version)
  <2> HIDE DEF flagged
  <2>1. CASE CanMove(flagged, "execution_approved")
    <3>1. flagged.status = "awaiting_plan_approval"
      BY <1>1, <2>1, ApprovedFromAwaiting DEF Version
    <3>2. flagged.plan
      BY <1>1, <3>1 DEF Version, Sound
    <3>3. QED BY <1>1, <1>2, <3>2, SoundTransitions DEF States
  <2>2. CASE ~CanMove(flagged, "execution_approved")
    BY <2>2, VersionSeqs DEF Transition
  <2>3. QED BY <2>1, <2>2
<1>4. <<flagged>> \in Seq(Version)
  BY <1>1, VersionSeqs
<1>5. <<flagged>> \o Transition(flagged, "execution_approved") \in Seq(Version)
  <2> HIDE DEF flagged
  <2>1. QED BY <1>3, <1>4, ConcatProperties
<1>6. QED BY <1>5 DEF ExecutionApproved

\* A handler that goes on with a sound copy and sound versions to write keeps
\* the invariant.
LEMMA ProceedKeeps ==
  ASSUME ManifestInv, NEW h \in Handlers, NEW t \in Tasks \cup {NoTask}, NEW p \in Places \ Writing,
         NEW m \in Version \cup {Missing}, NEW ms \in Seq(Version),
         p # "idle" => t \in Tasks, p \in NeedsCopy => m \in Version,
         Proceed(h, t, p, m, ms),
         UNCHANGED <<file, torn>>, tokens' \in 0..MaxTokens
  PROVE  ManifestInv'
  BY DEF ManifestInv, Proceed

\* What is loaded is sound.
LEMMA LoadedIsSound == ASSUME ManifestInv, NEW t, Loadable(t) PROVE t \in Tasks /\ file[t] \in Version
  BY DEF ManifestInv, Loadable

\* A handler that answers from a loaded manifest keeps the invariant.
LEMMA AnswerKeeps ==
  ASSUME ManifestInv, NEW h \in Handlers, NEW t, NEW ms \in Seq(Version),
         Answer(h, t, ms), tokens' \in 0..MaxTokens
  PROVE  ManifestInv'
<1>1. t \in Tasks /\ file[t] \in Version
  BY LoadedIsSound DEF Answer
<1>2. "writing" \in Places \ Writing /\ "writing" \notin NeedsCopy
  BY DEF Places, Writing, NeedsCopy
<1>3. QED BY <1>1, <1>2, ProceedKeeps DEF Answer

----------------------------------------------------------------------------
\* A request keeps the invariant.
LEMMA RequestKeeps ==
  ASSUME ManifestInv, NEW h \in Handlers, NEW t \in Tasks, Request(h, t)
  PROVE  ManifestInv'
<1>1. ASSUME NEW files \in BOOLEAN, StartPlan(h, t, files)
      PROVE  ManifestInv'
  <2> DEFINE new == NewManifest(files)
             planned == [new EXCEPT !.status = "planned"]
  <2>1. new \in Version /\ planned \in Version
    BY DEF NewManifest, Version, Manifest, Sound, States
  <2>2. Proceed(h, t, "creating", planned, <<new, planned>>)
    BY <1>1 DEF StartPlan
  <2>3. "creating" \in Places \ Writing
    BY DEF Places, Writing
  <2>4. UNCHANGED <<file, torn>> /\ tokens' \in 0..MaxTokens
    BY <1>1 DEF StartPlan, ManifestInv
  <2> HIDE DEF new, planned
  <2>5. <<new, planned>> \in Seq(Version)
    BY <2>1, VersionSeqs
  <2>6. QED BY <2>1, <2>2, <2>3, <2>4, <2>5, ProceedKeeps
<1>2. ASSUME NEW plan \in BOOLEAN, NEW exec \in BOOLEAN, Approve(h, t, plan, exec)
      PROVE  ManifestInv'
  <2>1. file[t] \in Version
    BY <1>2, LoadedIsSound DEF Approve
  <2>2. tokens' \in 0..MaxTokens /\ tokens \in Nat
    BY <1>2, ManifestAssumption DEF Approve, ManifestInv
  <2>3. ExecutionApproved(file[t]) \in Seq(Version)
    BY <2>1, <2>2, SoundApproval
  <2>4. <<[file[t] EXCEPT !.byUser = TRUE]>> \in Seq(Version) /\ <<file[t]>> \in Seq(Version)
    BY <2>1, SoundUpdates, VersionSeqs
  <2>5. \/ Answer(h, t, ExecutionApproved(file[t]))
        \/ Answer(h, t, <<[file[t] EXCEPT !.byUser = TRUE]>>)
        \/ Answer(h, t, <<file[t]>>)
    BY <1>2 DEF Approve
  <2>6. QED BY <2>2, <2>3, <2>4, <2>5, AnswerKeeps
<1>3. ASSUME Cancel(h, t)
      PROVE  ManifestInv'
  <2>1. file[t] \in Version
    BY <1>3, LoadedIsSound DEF Cancel
  <2>2. PICK s \in Stop : Answer(h, t, Transition(file[t], s))
    BY <1>3 DEF Cancel
  <2>3. s \in States /\ s # "awaiting_plan_approval" /\ s # "execution_approved"
    BY DEF Stop, States
  <2>4. Transition(file[t], s) \in Seq(Version)
    BY <2>1, <2>3, SoundTransitions
  <2>5. tokens' \in 0..MaxTokens
    BY <1>3 DEF Cancel, ManifestInv
  <2>6. QED BY <2>2, <2>4, <2>5, AnswerKeeps
<1>4. ASSUME Run(h, t)
      PROVE  ManifestInv'
  BY <1>4 DEF Run, threadVars, ManifestInv
<1>5. ASSUME StartValidate(h, t)
      PROVE  ManifestInv'
  <2>1. file[t] \in Version
    BY <1>5, LoadedIsSound DEF StartValidate
  <2>2. "validating" \in Places \ Writing
    BY DEF Places, Writing
  <2>3. UNCHANGED <<file, torn>> /\ tokens' \in 0..MaxTokens
    BY <1>5 DEF StartValidate, ManifestInv
  <2>4. QED BY <1>5, <2>1, <2>2, <2>3, VersionSeqs, ProceedKeeps DEF StartValidate
<1>6. QED BY <1>1, <1>2, <1>3, <1>4, <1>5 DEF Request

\* The return of the provider keeps the invariant: whatever the copy was, what is
\* composed from it is sound.
LEMMA PlanReturnsKeeps ==
  ASSUME ManifestInv, NEW h \in Handlers, PlanReturns(h)
  PROVE  ManifestInv'
<1>1. copy[h] \in Version /\ task[h] \in Tasks
  BY DEF PlanReturns, ManifestInv, NeedsCopy
<1>2. UNCHANGED <<file, torn>> /\ tokens' \in 0..MaxTokens
  BY DEF PlanReturns, ManifestInv
<1>3. "writing" \in Places \ Writing /\ "writing" \notin NeedsCopy /\ "idle" \in Places \ Writing
  BY DEF Places, Writing, NeedsCopy
<1>4. ASSUME NEW checks \in BOOLEAN, NEW proposed \in BOOLEAN,
             LET stored == [copy[h] EXCEPT !.plan = TRUE, !.checks = checks, !.files = @ \/ proposed]
             IN Proceed(h, task[h], "writing", stored,
                        <<stored>> \o Transition(stored, "awaiting_plan_approval"))
      PROVE  ManifestInv'
  <2> DEFINE stored == [copy[h] EXCEPT !.plan = TRUE, !.checks = checks, !.files = @ \/ proposed]
             ms == <<stored>> \o Transition(stored, "awaiting_plan_approval")
  <2>1. stored \in Version
    BY <1>1, SoundUpdates
  <2>2. stored.plan
    BY <1>1 DEF Version, Manifest
  <2>3. Proceed(h, task[h], "writing", stored, ms)
    BY <1>4
  <2> HIDE DEF stored
  <2>4. Transition(stored, "awaiting_plan_approval") \in Seq(Version)
    BY <2>1, <2>2, SoundTransitions DEF States
  <2>5. <<stored>> \in Seq(Version)
    BY <2>1, VersionSeqs
  <2>6. ms \in Seq(Version)
    BY <2>4, <2>5, ConcatProperties
  <2> HIDE DEF ms
  <2>7. QED BY <1>1, <1>2, <1>3, <2>1, <2>3, <2>6, ProceedKeeps
<1>5. ASSUME LET moved == Transition(copy[h], "blocked")
                 stored == [copy[h] EXCEPT !.status = "blocked", !.plan = TRUE]
             IN Proceed(h, task[h], "writing", stored, moved \o <<stored>>)
      PROVE  ManifestInv'
  <2> DEFINE stored == [copy[h] EXCEPT !.status = "blocked", !.plan = TRUE]
             moved == Transition(copy[h], "blocked")
             ms == moved \o <<stored>>
  <2>1. stored \in Version
    BY <1>1, SoundUpdates
  <2>2. Proceed(h, task[h], "writing", stored, ms)
    BY <1>5
  <2> HIDE DEF stored
  <2>3. moved \in Seq(Version)
    BY <1>1, SoundTransitions DEF States
  <2>4. <<stored>> \in Seq(Version)
    BY <2>1, VersionSeqs
  <2> HIDE DEF moved
  <2>5. ms \in Seq(Version)
    BY <2>3, <2>4, ConcatProperties
  <2> HIDE DEF ms
  <2>6. QED BY <1>1, <1>2, <1>3, <2>1, <2>2, <2>5, ProceedKeeps
<1>6. ASSUME Proceed(h, NoTask, "idle", Missing, <<>>)
      PROVE  ManifestInv'
  <2>1. "idle" \notin NeedsCopy
    BY DEF NeedsCopy
  <2>2. QED BY <1>2, <1>3, <1>6, <2>1, VersionSeqs, ProceedKeeps
<1>7. QED BY <1>4, <1>5, <1>6 DEF PlanReturns

\* So do the other steps of a handler; a write replaces a file by a whole version.
LEMMA HandlerStepKeeps ==
  ASSUME ManifestInv, NEW h \in Handlers, HandlerStep(h)
  PROVE  ManifestInv'
<1>1. ASSUME ValidateReturns(h)
      PROVE  ManifestInv'
  <2>1. copy[h] \in Version /\ task[h] \in Tasks
    BY <1>1 DEF ValidateReturns, ManifestInv, NeedsCopy
  <2>2. <<[copy[h] EXCEPT !.validated = TRUE]>> \in Seq(Version)
    BY <2>1, SoundUpdates, VersionSeqs
  <2>3. "writing" \in Places \ Writing /\ "writing" \notin NeedsCopy
    BY DEF Places, Writing, NeedsCopy
  <2>4. UNCHANGED <<file, torn>> /\ tokens' \in 0..MaxTokens
    BY <1>1 DEF ValidateReturns, ManifestInv
  <2>5. QED BY <1>1, <2>1, <2>2, <2>3, <2>4, ProceedKeeps DEF ValidateReturns
<1>2. ASSUME Truncate(h)
      PROVE  ManifestInv'
  BY <1>2 DEF Truncate, ManifestInv, Places, NeedsCopy, Writing
<1>3. ASSUME Write(h)
      PROVE  ManifestInv'
  <2>1. task[h] \in Tasks /\ todo[h] \in Seq(Version) /\ todo[h] # <<>>
    BY <1>3 DEF Write, ManifestInv, Writing
  <2>2. Head(todo[h]) \in Version /\ Tail(todo[h]) \in Seq(Version)
    BY <2>1, HeadTailProperties
  <2>3. file' \in [Tasks -> Version \cup {Missing}] /\ torn' \subseteq Tasks
    <3> DEFINE version == Head(todo[h])
    <3>1. /\ version \in Version
          /\ \/ file' = [file EXCEPT ![task[h]] = version] /\ torn' = torn \ {task[h]}
             \/ file' = file /\ torn' = torn \cup {task[h]}
      BY <1>3, <2>2 DEF Write
    <3>2. file \in [Tasks -> Version \cup {Missing}] /\ torn \subseteq Tasks
      BY DEF ManifestInv
    <3> HIDE DEF version
    <3>3. QED BY <2>1, <3>1, <3>2
  <2>4. todo' \in [Handlers -> Seq(Version)]
    BY <1>3, <2>2 DEF Write, ManifestInv
  <2>5. /\ place' \in [Handlers -> Places]
        /\ \A g \in Handlers : place'[g] \in Writing => g # h /\ place[g] \in Writing
        /\ \A g \in Handlers : place'[g] # "idle" => place[g] # "idle"
        /\ \A g \in Handlers : place'[g] \in NeedsCopy => place[g] \in NeedsCopy
    BY <1>3 DEF Write, ManifestInv, Places, NeedsCopy, Writing
  <2>6. \A g \in Handlers : place'[g] \in Writing => todo'[g] # <<>>
    BY <1>3, <2>5 DEF Write, ManifestInv
  <2>7. QED BY <1>3, <2>3, <2>4, <2>5, <2>6 DEF Write, ManifestInv
<1>4. ASSUME Written(h)
      PROVE  ManifestInv'
  <2>1. "planning" \in Places \ Writing /\ "idle" \in Places \ Writing /\ "idle" \notin NeedsCopy
    BY DEF Places, Writing, NeedsCopy
  <2>2. UNCHANGED <<file, torn>> /\ tokens' \in 0..MaxTokens
    BY <1>4 DEF Written, ManifestInv
  <2>3. CASE place[h] = "creating" /\ Proceed(h, task[h], "planning", copy[h], <<>>)
    <3>1. task[h] \in Tasks /\ copy[h] \in Version
      BY <2>3 DEF ManifestInv, NeedsCopy
    <3>2. QED BY <2>1, <2>2, <2>3, <3>1, VersionSeqs, ProceedKeeps
  <2>4. CASE Proceed(h, NoTask, "idle", Missing, <<>>)
    BY <2>1, <2>2, <2>4, VersionSeqs, ProceedKeeps
  <2>5. QED BY <1>4, <2>3, <2>4 DEF Written
<1>5. QED BY <1>1, <1>2, <1>3, <1>4, PlanReturnsKeeps DEF HandlerStep

\* The recovery at a restart only blocks tasks.
LEMMA RestartKeeps == ASSUME ManifestInv, Restart PROVE ManifestInv'
<1>1. ASSUME NEW m \in Version
      PROVE  [m EXCEPT !.status = "blocked"] \in Version
  BY DEF Version, Manifest, Sound, States
<1>2. file' \in [Tasks -> Version \cup {Missing}]
  <2>1. ASSUME NEW t \in Tasks
        PROVE  file'[t] \in Version \cup {Missing}
    BY <1>1, LoadedIsSound DEF Restart, ManifestInv
  <2>2. QED BY <2>1 DEF Restart
<1>3. "idle" \in Places \ Writing /\ "idle" \notin NeedsCopy
  BY DEF Places, Writing, NeedsCopy
<1>4. QED BY <1>2, <1>3, VersionSeqs DEF Restart, ManifestInv

----------------------------------------------------------------------------
\* The inductive invariant holds in every reachable state.
THEOREM ManifestInvariant == Spec => []ManifestInv
<1>1. Init => ManifestInv
  <2> SUFFICES ASSUME Init PROVE ManifestInv
    OBVIOUS
  <2>1. "idle" \in Places \ Writing /\ "idle" \notin NeedsCopy
    BY DEF Places, Writing, NeedsCopy
  <2>2. tokens \in 0..MaxTokens
    BY ManifestAssumption DEF Init
  <2>3. QED BY <2>1, <2>2, VersionSeqs DEF Init, ManifestInv
<1>2. ManifestInv /\ [Next]_vars => ManifestInv'
  <2> SUFFICES ASSUME ManifestInv, [Next]_vars PROVE ManifestInv'
    OBVIOUS
  <2>1. CASE UNCHANGED vars
    BY <2>1 DEF vars, threadVars, ManifestInv
  <2>2. QED BY <2>1, RequestKeeps, HandlerStepKeeps, RestartKeeps DEF Next
<1>3. QED BY <1>1, <1>2, PTL DEF Spec

\* Type correctness, for any tasks and handlers.
THEOREM TypeCorrect == Spec => []TypeOK
<1>1. Version \subseteq Manifest
  BY DEF Version
<1>2. Seq(Version) \subseteq Seq(Manifest)
  BY <1>1
<1>3. ManifestInv => TypeOK
  BY <1>1, <1>2 DEF ManifestInv, TypeOK
<1>4. QED BY <1>3, ManifestInvariant, PTL

\* No interleaving of handlers, no lost or torn write and no restart leaves a task
\* approved for execution without the complete approval (ApprovalIsComplete).
THEOREM ApprovalsAreComplete == Spec => []ApprovalIsComplete
<1>1. ManifestInv => ApprovalIsComplete
  BY MissingIsNoVersion DEF ManifestInv, ApprovalIsComplete, Version, Sound
<1>2. QED BY <1>1, ManifestInvariant, PTL

\* Whatever the interleaving, a task that awaits approval or is approved has its
\* plan (PlanBeforeApproval).
THEOREM PlansPrecedeApproval == Spec => []PlanBeforeApproval
<1>1. ManifestInv => PlanBeforeApproval
  BY MissingIsNoVersion DEF ManifestInv, PlanBeforeApproval, Version, Sound
<1>2. QED BY <1>1, ManifestInvariant, PTL

----------------------------------------------------------------------------
\* Workers.  Only the worker that a supervisor has seen exit, and has no verdict
\* for, is finalized; it stays as it is until its verdict is recorded, so a verdict
\* is on an exited worker; and the scorecard read at the gate is that of its
\* change, or misjudged says that it is not.

\* Where a supervisor is finalizing the worker at[r].
Finalizing == {"scoring", "ruling", "validating", "testing"}

\* A verdict is on a process that has exited, and no process runs before the plan
\* is approved.
VerdictsAreLate ==
  /\ \A w \in Workers : terminal[w] # "no" => proc[w] = "exited"
  /\ \A r \in Runs : pc[r] = "planning" => \A n \in Slots : proc[<<r, n>>] = "none"

\* The worker that is finalized has exited and has no verdict, nor has one that was just
\* started.
FinalizedIsIdle ==
  \A r \in Runs :
    /\ pc[r] \in Finalizing => proc[<<r, at[r]>>] = "exited" /\ terminal[<<r, at[r]>>] = "no"
    /\ pc[r] = "starting" => terminal[<<r, at[r]>>] = "no"

\* approved_all says whether some worker was blocked.
ApprovalFollows ==
  \A r \in Runs : pc[r] # "returned" =>
    (allOk[r] <=> \A n \in Slots : terminal[<<r, n>>] # "blocked")

\* The scorecard at the gate is that of the worker's change, and what is tested is what
\* it has passed.
GateSeesChange ==
  \A r \in Runs :
    /\ pc[r] \in {"ruling", "validating"} =>
         scorecard = change[<<r, at[r]>>] \/ <<r, at[r]>> \in misjudged
    /\ pc[r] = "testing" => change[<<r, at[r]>>] = "clean" \/ <<r, at[r]>> \in misjudged

\* The inductive invariant.
LegionInv == /\ WorkersAreAccounted /\ VerdictsAreLate /\ FinalizedIsIdle /\ ApprovalFollows
             /\ GateSeesChange /\ ReturnedRunIsSettled /\ DoneIsClean

\* The places of a supervisor, the statuses of a row and the rows.
Stations == {"planning", "spawning", "starting", "polling", "scoring", "ruling", "validating",
             "testing", "returned", "dead"}
Statuses == {"absent", "working", "respawning", "done", "blocked"}
Rows == [status : Statuses, tier : Tiers]

----------------------------------------------------------------------------
\* A worker is its run and its slot.
LEMMA WorkerIsItsPair ==
  /\ \A r \in Runs, n \in Slots : <<r, n>> \in Workers
  /\ \A w \in Workers : w[1] \in Runs /\ w[2] \in Slots /\ w = <<w[1], w[2]>>
BY DEF Workers

\* Goto moves one supervisor.
LEMMA Goes ==
  ASSUME pc \in [Runs -> Stations], NEW r \in Runs, NEW p \in Stations, Goto(r, p)
  PROVE  /\ pc' \in [Runs -> Stations] /\ pc'[r] = p
         /\ \A q \in Runs \ {r} : pc'[q] = pc[q]
BY DEF Goto

\* A ledger line changes the row of its worker alone.
LEMMA Records ==
  ASSUME row \in [Workers -> Rows], NEW w \in Workers, NEW s \in Statuses, NEW t \in Tiers,
         Record(w, s, t)
  PROVE  /\ row' \in [Workers -> Rows]
         /\ row'[w].status = s /\ row'[w].tier = t
         /\ \A v \in Workers \ {w} : row'[v] = row[v]
<1> DEFINE line == [status |-> s, tier |-> t]
<1>1. line \in Rows /\ line.status = s /\ line.tier = t BY DEF Rows
<1>2. row' = [row EXCEPT ![w] = line] BY DEF Record
<1> HIDE DEF line
<1> QED BY <1>1, <1>2

\* _finalize records a verdict on a worker that exited: the run is approved while
\* no worker is blocked, and a worker is done only by a verdict on its change.
LEMMA Settles ==
  ASSUME LegionInv, NEW r \in Runs, NEW ok \in BOOLEAN, pc[r] \in {"ruling", "validating", "testing"},
         ok => change[<<r, at[r]>>] = "clean" \/ <<r, at[r]>> \in misjudged,
         Settle(r, ok), UNCHANGED <<at, proc, ended, change, used, gate>>
  PROVE  LegionInv'
<1> DEFINE w == <<r, at[r]>>
           status == IF ok THEN "done" ELSE "blocked"
<1>1. w \in Workers /\ w[1] = r BY WorkerIsItsPair DEF LegionInv, WorkersAreAccounted, LegionTypeOK
<1>2. proc[w] = "exited" /\ terminal[w] = "no" BY DEF LegionInv, FinalizedIsIdle, Finalizing
<1>3. status \in {"done", "blocked"} /\ (ok <=> status = "done") OBVIOUS
<1>4. /\ terminal' \in [Workers -> {"no", "done", "blocked"}] /\ terminal'[w] = status
      /\ \A v \in Workers \ {w} : terminal'[v] = terminal[v]
  BY <1>1, <1>3 DEF Settle, LegionInv, WorkersAreAccounted, LegionTypeOK
<1>5. /\ row' \in [Workers -> Rows] /\ row'[w].status = status /\ row'[w].tier = tier[w]
      /\ \A v \in Workers \ {w} : row'[v] = row[v]
  <2>1. Record(w, status, tier[w]) BY DEF Settle
  <2>2. row \in [Workers -> Rows] /\ tier[w] \in Tiers
    BY <1>1 DEF LegionInv, WorkersAreAccounted, LegionTypeOK, Rows, Statuses
  <2> HIDE DEF w, status
  <2> QED BY <1>1, <1>3, <2>1, <2>2, Records DEF Statuses
<1>6. /\ pc' \in [Runs -> Stations] /\ pc'[r] = "polling" /\ \A q \in Runs \ {r} : pc'[q] = pc[q]
  BY Goes DEF Settle, LegionInv, WorkersAreAccounted, LegionTypeOK, Stations
<1>7. /\ allOk' \in [Runs -> BOOLEAN] /\ (allOk'[r] <=> allOk[r] /\ ok)
      /\ \A q \in Runs \ {r} : allOk'[q] = allOk[q]
  BY DEF Settle, LegionInv, WorkersAreAccounted, LegionTypeOK
<1>8. UNCHANGED <<at, proc, ended, change, used, tier, gate>> BY DEF Settle
<1>9. /\ \A q \in Runs \ {r}, n \in Slots : <<q, n>> \in Workers \ {w}
      /\ \A n \in Slots \ {at[r]} : <<r, n>> \in Workers \ {w}
      /\ at \in [Runs -> Slots] /\ w = <<r, at[r]>>
      /\ ok => change[w] = "clean" \/ w \in misjudged
  BY WorkerIsItsPair DEF LegionInv, WorkersAreAccounted, LegionTypeOK
<1> HIDE DEF w, status
<1>10. LegionTypeOK'
  BY <1>4, <1>5, <1>6, <1>7, <1>8
     DEF LegionInv, WorkersAreAccounted, LegionTypeOK, Rows, Statuses, Stations, gate
<1>11. TableFollowsRun'
  BY <1>1, <1>2, <1>3, <1>4, <1>5, <1>6, <1>8, WorkerIsItsPair
     DEF LegionInv, WorkersAreAccounted, TableFollowsRun, Alive, Unrecorded
<1>12. VerdictsAreLate'
  BY <1>2, <1>4, <1>6, <1>8 DEF LegionInv, VerdictsAreLate
<1>13. FinalizedIsIdle'
  BY <1>4, <1>6, <1>8, <1>9 DEF LegionInv, FinalizedIsIdle, Finalizing
<1>14. ApprovalFollows'
  <2>1. ASSUME NEW q \in Runs \ {r}, pc'[q] # "returned"
        PROVE  allOk'[q] <=> \A n \in Slots : terminal'[<<q, n>>] # "blocked"
    BY <1>4, <1>6, <1>7, <1>9, <2>1 DEF LegionInv, ApprovalFollows
  <2>2. allOk'[r] <=> \A n \in Slots : terminal'[<<r, n>>] # "blocked"
    <3>1. allOk[r] <=> \A n \in Slots : terminal[<<r, n>>] # "blocked"
      BY DEF LegionInv, ApprovalFollows
    <3>2. terminal'[<<r, at[r]>>] = status /\ terminal[<<r, at[r]>>] = "no"
      BY <1>2, <1>4, <1>9
    <3>3. \A n \in Slots \ {at[r]} : terminal'[<<r, n>>] = terminal[<<r, n>>]
      BY <1>4, <1>9
    <3>4. at[r] \in Slots BY <1>9
    <3> QED BY ONLY <1>3, <1>7, <3>1, <3>2, <3>3, <3>4
  <2> QED BY <2>1, <2>2 DEF ApprovalFollows
<1>15. GateSeesChange'
  BY <1>6, <1>8 DEF LegionInv, GateSeesChange, gate
<1>16. ReturnedRunIsSettled'
  BY <1>1, <1>4, <1>6, <1>7, <1>8, WorkerIsItsPair DEF LegionInv, ReturnedRunIsSettled
<1>17. DoneIsClean'
  BY <1>1, <1>3, <1>4, <1>8, <1>9 DEF LegionInv, DoneIsClean, gate
<1> QED
  BY <1>10, <1>11, <1>12, <1>13, <1>14, <1>15, <1>16, <1>17 DEF LegionInv, WorkersAreAccounted

\* No step of a supervisor, a worker or another run breaks the invariant.
LEMMA LegionStepKeeps == LegionInv /\ [LegionNext]_legionVars => LegionInv'
<1> SUFFICES ASSUME LegionInv, [LegionNext]_legionVars PROVE LegionInv' OBVIOUS
<1> USE DEF LegionInv, WorkersAreAccounted
<1>a. /\ \A t \in Tiers : NextTier[t] \in Tiers
      /\ Tiers = {"cheap", "standard", "strong-planning", "ultracode"}
      /\ Verdicts = {"clean", "decayed", "vetoed"}
      /\ 1 \in Slots
  BY LegionAssumption DEF Tiers, NextTier, Verdicts, Slots
<1> USE <1>a, WorkerIsItsPair DEF Finalizing, Alive, Unrecorded, MaxEscalations, legionVars, runVars, specVars, gate
\* A plan that is refused leaves the workers unstarted.
<1>1. ASSUME NEW r \in Runs, Plan(r) PROVE LegionInv'
  <2> USE <1>1 DEF Plan, Goto, LegionTypeOK
  <2>1. LegionTypeOK'
    <3>1. pc' \in [Runs -> Stations] BY Goes DEF Stations
    <3>2. allOk' \in [Runs -> BOOLEAN] BY ZenonT(40)
    <3> QED BY <3>1, <3>2 DEF Stations
  <2>2. ReturnedRunIsSettled'
    <3>1. \A n \in Slots : proc[<<r, n>>] = "none" /\ terminal[<<r, n>>] = "no"
      BY DEF VerdictsAreLate
    <3>2. pc'[r] = "returned" => ~allOk'[r] OBVIOUS
    <3>3. \A q \in Runs \ {r} : pc'[q] = pc[q] /\ allOk'[q] = allOk[q] OBVIOUS
    <3>4. <<r, 1>> \in Workers /\ terminal'[<<r, 1>>] # "done" BY <3>1
    <3> QED BY ONLY <1>a, <3>1, <3>2, <3>3, <3>4, <1>1, ReturnedRunIsSettled
               DEF Plan, ReturnedRunIsSettled
  <2>3. TableFollowsRun' BY DEF TableFollowsRun
  <2>4. VerdictsAreLate' BY DEF VerdictsAreLate
  <2>5. FinalizedIsIdle' BY DEF FinalizedIsIdle
  <2>6. ApprovalFollows' BY DEF ApprovalFollows
  <2>7. GateSeesChange' BY DEF GateSeesChange
  <2>8. DoneIsClean' BY DEF DoneIsClean
  <2> QED BY <2>1, <2>2, <2>3, <2>4, <2>5, <2>6, <2>7, <2>8
\* The worker runs before its row is written; a spawn that raises ends the supervisor.
<1>2. ASSUME NEW r \in Runs, NEW n \in Slots, Spawn(r, n) PROVE LegionInv'
  <2>a. PICK w \in Workers : w = <<r, n>> OBVIOUS
  <2>o. \A q \in Runs \ {r}, m \in Slots : <<q, m>> \in Workers \ {w} BY <2>a
  <2>b. /\ pc[r] = "spawning" /\ proc[w] = "none" /\ terminal[w] = "no" /\ w[1] = r /\ w[2] = n
        /\ UNCHANGED <<allOk, ended, change, tier, used, terminal, row, gate>>
    BY <1>2, <2>a DEF Spawn, VerdictsAreLate, LegionTypeOK
  <2>c. /\ at' \in [Runs -> Slots] /\ at'[r] = n /\ \A q \in Runs \ {r} : at'[q] = at[q]
    BY ONLY <1>2, LegionTypeOK, r \in Runs, n \in Slots DEF Spawn, LegionTypeOK
  <2>d. /\ pc' \in [Runs -> Stations] /\ pc'[r] \in {"starting", "dead"}
        /\ \A q \in Runs \ {r} : pc'[q] = pc[q]
    <3>1. Goto(r, "starting") \/ Goto(r, "dead") BY <1>2 DEF Spawn, Popen
    <3>2. pc \in [Runs -> Stations] BY DEF LegionTypeOK, Stations
    <3> QED BY <3>1, <3>2, Goes DEF Stations
  <2>e. /\ proc' \in [Workers -> {"none", "running", "exited"}]
        /\ \A v \in Workers \ {w} : proc'[v] = proc[v]
        /\ pc'[r] = "starting" => proc'[w] = "running"
    <3>1. CASE proc' = [proc EXCEPT ![w] = "running"] BY <3>1, LegionTypeOK DEF LegionTypeOK
    <3>2. CASE Goto(r, "dead") /\ UNCHANGED proc
      BY <3>2, LegionTypeOK DEF Goto, LegionTypeOK
    <3> QED BY <1>2, <2>a, <3>1, <3>2 DEF Spawn, Popen
  <2>1. TableFollowsRun'
    <3>1. ASSUME NEW v \in Workers \ {w}, Alive(v[1])', proc'[v] # "none", ~Unrecorded(v)'
          PROVE  row'[v].tier = tier'[v] /\ (terminal'[v] # "no" => row'[v].status = terminal'[v])
      <4>1. proc[v] # "none" /\ Alive(v[1]) BY <2>b, <2>d, <2>e, <3>1
      <4>2. ~Unrecorded(v) BY <2>b, <2>c, <2>d, <3>1
      <4> QED BY ONLY <2>b, <4>1, <4>2, v \in Workers, TableFollowsRun DEF TableFollowsRun
    <3>2. pc'[r] = "dead" \/ (pc'[r] = "starting" /\ at'[r] = w[2])
      BY <2>b, <2>c, <2>d
    <3> QED BY ONLY <2>b, <3>1, <3>2 DEF TableFollowsRun, Alive, Unrecorded
  <2>2. VerdictsAreLate'
    <3>1. \A v \in Workers : terminal'[v] # "no" => proc'[v] = "exited"
      BY ONLY <2>b, <2>e, VerdictsAreLate DEF VerdictsAreLate, gate
    <3>2. \A q \in Runs, m \in Slots : pc'[q] = "planning" => proc'[<<q, m>>] = "none"
      BY ONLY <2>b, <2>d, <2>e, <2>o, VerdictsAreLate DEF VerdictsAreLate
    <3> QED BY ONLY <3>1, <3>2 DEF VerdictsAreLate
  <2>4. FinalizedIsIdle'
    <3>1. ASSUME NEW q \in Runs \ {r}
          PROVE  /\ pc'[q] = pc[q] /\ at'[q] = at[q] /\ <<q, at[q]>> \in Workers \ {w}
      BY <2>c, <2>d, <2>o, LegionTypeOK DEF LegionTypeOK
    <3>2. \A q \in Runs \ {r} : proc'[<<q, at[q]>>] = proc[<<q, at[q]>>] BY <2>e, <3>1
    <3>3. pc'[r] \notin Finalizing /\ terminal[<<r, at'[r]>>] = "no" BY <2>a, <2>b, <2>c, <2>d
    <3>4. terminal' = terminal BY <2>b
    <3> QED BY ONLY <3>1, <3>2, <3>3, <3>4, FinalizedIsIdle DEF FinalizedIsIdle
  <2>6. GateSeesChange'
    <3>1. \A q \in Runs \ {r} : pc'[q] = pc[q] /\ at'[q] = at[q] BY <2>c, <2>d
    <3>2. pc'[r] \notin {"ruling", "validating", "testing"} /\ UNCHANGED <<change, scorecard, misjudged>>
      BY <2>b, <2>d
    <3> QED BY ONLY <3>1, <3>2, GateSeesChange DEF GateSeesChange
  <2> USE <2>a, <2>b, <2>c, <2>d, <2>e, <2>o DEF LegionTypeOK
  <2>3. LegionTypeOK' BY DEF Stations
  <2>5. ApprovalFollows' BY DEF ApprovalFollows
  <2>7. ReturnedRunIsSettled' BY DEF ReturnedRunIsSettled
  <2>8. DoneIsClean' BY DEF DoneIsClean
  <2> QED BY <2>1, <2>2, <2>3, <2>4, <2>5, <2>6, <2>7, <2>8
\* The row is that of the worker just started, which has no verdict.
<1>13. ASSUME NEW r \in Runs, RecordStart(r) PROVE LegionInv'
  <2>a. PICK w \in Workers : w = <<r, at[r]>> BY DEF LegionTypeOK
  <2>o. \A q \in Runs \ {r}, m \in Slots : <<q, m>> \in Workers \ {w} BY <2>a
  <2>b. /\ pc[r] = "starting" /\ terminal[w] = "no" /\ w[1] = r
        /\ UNCHANGED <<at, allOk, proc, ended, change, tier, used, terminal, gate>>
    BY <1>13, <2>a DEF RecordStart, FinalizedIsIdle
  <2>d. /\ pc' \in [Runs -> Stations] /\ pc'[r] \in {"polling", "spawning"}
        /\ \A q \in Runs \ {r} : pc'[q] = pc[q]
    <3>1. Goto(r, "polling") \/ Goto(r, "spawning") BY <1>13 DEF RecordStart
    <3>2. pc \in [Runs -> Stations] BY DEF LegionTypeOK, Stations
    <3> QED BY <3>1, <3>2, Goes DEF Stations
  <2>e. /\ row' \in [Workers -> Rows] /\ row'[w].tier = tier[w]
        /\ \A v \in Workers \ {w} : row'[v] = row[v]
    <3>1. Record(w, "working", tier[w]) BY <1>13, <2>a DEF RecordStart
    <3>2. row \in [Workers -> Rows] /\ tier[w] \in Tiers BY DEF LegionTypeOK, Rows, Statuses
    <3> QED BY <3>1, <3>2, Records DEF Statuses
  <2>1. TableFollowsRun'
    <3>1. ASSUME NEW v \in Workers \ {w}, Alive(v[1])', proc'[v] # "none", ~Unrecorded(v)'
          PROVE  row'[v].tier = tier'[v] /\ (terminal'[v] # "no" => row'[v].status = terminal'[v])
      <4>1. proc[v] # "none" /\ Alive(v[1]) /\ v[1] \in Runs /\ v = <<v[1], v[2]>>
        BY <2>b, <2>d, <3>1
      <4>2. ~Unrecorded(v)
        <5>1. CASE v[1] = r BY <2>a, <4>1, <5>1
        <5>2. CASE v[1] # r BY <2>b, <2>d, <3>1, <4>1, <5>2
        <5> QED BY <5>1, <5>2
      <4> QED BY ONLY <2>b, <2>e, <4>1, <4>2, v \in Workers \ {w}, TableFollowsRun DEF TableFollowsRun
    <3> QED BY ONLY <2>b, <2>e, <3>1 DEF TableFollowsRun
  <2> USE <2>a, <2>b, <2>d, <2>e, <2>o DEF LegionTypeOK
  <2>2. VerdictsAreLate' BY DEF VerdictsAreLate
  <2>3. LegionTypeOK' BY DEF Stations, Rows, Statuses
  <2>4. FinalizedIsIdle' BY DEF FinalizedIsIdle
  <2>5. ApprovalFollows' BY DEF ApprovalFollows
  <2>6. GateSeesChange' BY DEF GateSeesChange
  <2>7. ReturnedRunIsSettled' BY DEF ReturnedRunIsSettled
  <2>8. DoneIsClean' BY DEF DoneIsClean
  <2> QED BY <2>1, <2>2, <2>3, <2>4, <2>5, <2>6, <2>7, <2>8
\* A process that runs has no verdict, so its change is not judged yet.
<1>3. ASSUME NEW w \in Workers, Exit(w) PROVE LegionInv'
  BY <1>3
     DEF Exit, LegionTypeOK, TableFollowsRun, VerdictsAreLate, FinalizedIsIdle, ApprovalFollows,
         GateSeesChange, ReturnedRunIsSettled, DoneIsClean
\* The ledger has the tier of the respawn before the worker runs at it.
<1>4. ASSUME NEW r \in Runs, NEW n \in Slots, Respawn(r, <<r, n>>) PROVE LegionInv'
  <2>a. PICK w \in Workers : w = <<r, n>> OBVIOUS
  <2>o. \A q \in Runs \ {r}, m \in Slots : <<q, m>> \in Workers \ {w} BY <2>a
  <2>b. /\ pc[r] = "polling" /\ proc[w] = "exited" /\ terminal[w] = "no" /\ w[1] = r
        /\ NextTier[tier[w]] \in Tiers /\ used[w] < MaxEscalations
        /\ UNCHANGED <<at, allOk, ended, change, terminal, gate>>
    BY <1>4, <2>a DEF Respawn, Polled, ShouldRespawn, LegionTypeOK
  <2>c. /\ tier' \in [Workers -> Tiers] /\ used' \in [Workers -> 0..MaxEscalations]
        /\ tier'[w] = NextTier[tier[w]] /\ \A v \in Workers \ {w} : tier'[v] = tier[v]
    <3> DEFINE t == NextTier[tier[w]]
    <3>1. tier' = [tier EXCEPT ![w] = t] /\ used' = [used EXCEPT ![w] = used[w] + 1]
      BY ONLY <1>4, <2>a DEF Respawn
    <3>2. t \in Tiers /\ used[w] + 1 \in 0..MaxEscalations
      BY ONLY <2>b, w \in Workers, LegionTypeOK DEF LegionTypeOK, MaxEscalations
    <3> HIDE DEF t
    <3>3. /\ tier' \in [Workers -> Tiers] /\ used' \in [Workers -> 0..MaxEscalations]
          /\ tier'[w] = t /\ \A v \in Workers \ {w} : tier'[v] = tier[v]
      BY ONLY <3>1, <3>2, w \in Workers, LegionTypeOK DEF LegionTypeOK
    <3> QED BY <3>3 DEF t
  <2>d. /\ row' \in [Workers -> Rows] /\ row'[w].tier = NextTier[tier[w]]
        /\ \A v \in Workers \ {w} : row'[v] = row[v]
    <3>1. Record(w, "respawning", NextTier[tier[w]]) BY <1>4, <2>a DEF Respawn
    <3>2. row \in [Workers -> Rows] BY DEF LegionTypeOK, Rows, Statuses
    <3> QED BY <2>b, <3>1, <3>2, Records DEF Statuses
  <2>e. /\ pc' \in [Runs -> Stations] /\ pc'[r] \in {"polling", "dead"}
        /\ \A q \in Runs \ {r} : pc'[q] = pc[q]
    BY <1>4, <2>b, Goes DEF Respawn, Popen, LegionTypeOK, Stations
  <2>f. /\ proc' \in [Workers -> {"none", "running", "exited"}]
        /\ \A v \in Workers \ {w} : proc'[v] = proc[v]
    BY ONLY <1>4, <2>a, LegionTypeOK DEF Respawn, Popen, LegionTypeOK
  <2>1. VerdictsAreLate'
    <3>1. \A v \in Workers : terminal'[v] # "no" => proc'[v] = "exited"
      BY ONLY <2>b, <2>f, VerdictsAreLate DEF VerdictsAreLate, gate
    <3>2. \A q \in Runs, m \in Slots : pc'[q] = "planning" => proc'[<<q, m>>] = "none"
      BY ONLY <2>b, <2>e, <2>f, <2>o, VerdictsAreLate DEF VerdictsAreLate
    <3> QED BY ONLY <3>1, <3>2 DEF VerdictsAreLate
  <2>2. ApprovalFollows'
    BY ONLY <2>b, <2>e, ApprovalFollows DEF ApprovalFollows
  <2> USE <2>b, <2>c, <2>d, <2>e, <2>f, <2>o DEF LegionTypeOK
  <2>3. LegionTypeOK' BY DEF Rows, Statuses, Stations
  <2>4. TableFollowsRun' BY SMTT(30) DEF TableFollowsRun, VerdictsAreLate, FinalizedIsIdle
  <2>5. FinalizedIsIdle' BY DEF FinalizedIsIdle
  <2>6. GateSeesChange' BY DEF GateSeesChange
  <2>7. ReturnedRunIsSettled' BY DEF ReturnedRunIsSettled
  <2>8. DoneIsClean' BY DEF DoneIsClean
  <2> QED BY <2>1, <2>2, <2>3, <2>4, <2>5, <2>6, <2>7, <2>8
\* The worker at hand is the one that was polled; those at the gate are misjudged.
<1>5. ASSUME NEW r \in Runs, NEW n \in Slots, Finalize(r, <<r, n>>) PROVE LegionInv'
  <2> USE <1>5 DEF Finalize, Polled, Goto, AtGate, LegionTypeOK
  <2>1. FinalizedIsIdle'
    <3>1. /\ at'[r] = n /\ proc[<<r, n>>] = "exited" /\ terminal[<<r, n>>] = "no"
          /\ \A q \in Runs \ {r} : at'[q] = at[q] /\ pc'[q] = pc[q]
          /\ UNCHANGED <<proc, terminal>>
      OBVIOUS
    <3> QED BY ONLY <3>1, FinalizedIsIdle DEF FinalizedIsIdle
  <2>2. LegionTypeOK' OBVIOUS
  <2>3. TableFollowsRun' BY DEF TableFollowsRun
  <2>4. VerdictsAreLate' BY DEF VerdictsAreLate
  <2>5. ApprovalFollows' BY DEF ApprovalFollows
  <2>6. GateSeesChange' BY DEF GateSeesChange
  <2>7. ReturnedRunIsSettled' BY DEF ReturnedRunIsSettled
  <2>8. DoneIsClean' BY DEF DoneIsClean
  <2> QED BY <2>1, <2>2, <2>3, <2>4, <2>5, <2>6, <2>7, <2>8
\* The scorecard at the gate is that of the worker, or git did not show the change.
<1>6. ASSUME NEW r \in Runs, Score(r) PROVE LegionInv'
  <2> USE <1>6 DEF Score, Goto, AtGate, LegionTypeOK
  <2>1. GateSeesChange'
    <3>1. /\ scorecard' = change[<<r, at[r]>>] \/ <<r, at[r]>> \in misjudged'
          /\ pc'[r] = "ruling"
      OBVIOUS
    <3>2. ASSUME NEW q \in Runs \ {r}, pc'[q] \in {"ruling", "validating"}
          PROVE  <<q, at[q]>> \in misjudged'
      <4>1. pc[q] \in {"ruling", "validating"} BY <3>2
      <4>2. <<q, at[q]>> \in AtGate BY <4>1
      <4> QED BY <4>2
    <3>3. UNCHANGED <<at, change>> OBVIOUS
    <3>4. ASSUME NEW q \in Runs, pc'[q] = "testing"
          PROVE  change[<<q, at[q]>>] = "clean" \/ <<q, at[q]>> \in misjudged'
      <4>1. misjudged \subseteq misjudged' BY ONLY <1>6 DEF Score
      <4>2. q # r BY <3>1, <3>4
      <4>3. pc[q] = "testing" BY ONLY <1>6, <3>4, <4>2 DEF Score, Goto
      <4> QED BY ONLY <4>1, <4>3, q \in Runs, GateSeesChange DEF GateSeesChange
    <3> QED BY ONLY <3>1, <3>2, <3>3, <3>4 DEF GateSeesChange
  <2>2. LegionTypeOK'
    <3>1. pc' \in [Runs -> Stations] BY Goes DEF Stations
    <3>2. scorecard' \in Verdicts \cup {"torn"}
      BY ONLY <1>a, <1>6, LegionTypeOK, WorkerIsItsPair DEF Score, LegionTypeOK
    <3>3. misjudged' \subseteq Workers
      BY ONLY <1>6, LegionTypeOK, WorkerIsItsPair DEF Score, AtGate, LegionTypeOK
    <3> QED BY ONLY <1>6, <3>1, <3>2, <3>3, LegionTypeOK
               DEF Score, LegionTypeOK, Stations, specVars
  <2>3. TableFollowsRun' BY DEF TableFollowsRun
  <2>4. VerdictsAreLate' BY DEF VerdictsAreLate
  <2>5. FinalizedIsIdle' BY DEF FinalizedIsIdle
  <2>6. ApprovalFollows' BY DEF ApprovalFollows
  <2>7. ReturnedRunIsSettled' BY DEF ReturnedRunIsSettled
  <2>8. DoneIsClean' BY DEF DoneIsClean
  <2> QED BY <2>1, <2>2, <2>3, <2>4, <2>5, <2>6, <2>7, <2>8
\* The board blocks the worker, raises, or lets it go on to L5 and L6.
<1>7. ASSUME NEW r \in Runs, Rule(r) PROVE LegionInv'
  <2>1. CASE Settle(r, FALSE) /\ UNCHANGED used
    BY <1>7, <2>1, Settles DEF Rule
  <2>2. CASE /\ Goto(r, "dead") \/ Goto(r, "validating")
             /\ UNCHANGED <<allOk, specVars>>
    <3> USE <1>7, <2>2 DEF Rule, Goto, LegionTypeOK
    <3>1. LegionTypeOK' OBVIOUS
    <3>2. TableFollowsRun' BY DEF TableFollowsRun
    <3>3. VerdictsAreLate' BY SMTT(30) DEF VerdictsAreLate, FinalizedIsIdle
    <3>4. FinalizedIsIdle' BY DEF FinalizedIsIdle
    <3>5. ApprovalFollows' BY SMTT(30) DEF ApprovalFollows
    <3>6. GateSeesChange' BY DEF GateSeesChange
    <3>7. ReturnedRunIsSettled' BY SMTT(30) DEF ReturnedRunIsSettled
    <3>8. DoneIsClean' BY DEF DoneIsClean
    <3> QED BY <3>1, <3>2, <3>3, <3>4, <3>5, <3>6, <3>7, <3>8
  <2> QED BY <1>7, <2>1, <2>2 DEF Rule
\* L5 reads the scorecard of the worker's change, or a misjudged one; what it passes may
\* go on to the tests.
<1>8. ASSUME NEW r \in Runs, Validate(r) PROVE LegionInv'
  <2>1. CASE Settle(r, FALSE) /\ UNCHANGED used
    BY <1>8, <2>1, Settles DEF Validate
  <2>2. CASE scorecard = "clean" /\ Settle(r, TRUE) /\ UNCHANGED used
    <3>1. change[<<r, at[r]>>] = "clean" \/ <<r, at[r]>> \in misjudged
      BY <1>8, <2>2 DEF Validate, GateSeesChange
    <3> QED BY <1>8, <2>2, <3>1, Settles DEF Validate
  <2>3. CASE scorecard = "clean" /\ Goto(r, "testing") /\ UNCHANGED <<allOk, specVars>>
    <3> USE <1>8, <2>3 DEF Validate, Goto, LegionTypeOK
    <3>1. LegionTypeOK' OBVIOUS
    <3>2. TableFollowsRun' BY DEF TableFollowsRun
    <3>3. VerdictsAreLate' BY SMTT(30) DEF VerdictsAreLate, FinalizedIsIdle
    <3>4. FinalizedIsIdle' BY DEF FinalizedIsIdle
    <3>5. ApprovalFollows' BY SMTT(30) DEF ApprovalFollows
    <3>6. GateSeesChange' BY DEF GateSeesChange
    <3>7. ReturnedRunIsSettled' BY SMTT(30) DEF ReturnedRunIsSettled
    <3>8. DoneIsClean' BY DEF DoneIsClean
    <3> QED BY <3>1, <3>2, <3>3, <3>4, <3>5, <3>6, <3>7, <3>8
  <2> QED BY <1>8, <2>1, <2>2, <2>3 DEF Validate
\* Whatever the tests say, L5 has passed the change.
<1>14. ASSUME NEW r \in Runs, TestsEnd(r) PROVE LegionInv'
  <2>1. PICK l6 \in BOOLEAN : Settle(r, l6) BY <1>14 DEF TestsEnd
  <2>2. change[<<r, at[r]>>] = "clean" \/ <<r, at[r]>> \in misjudged
    BY <1>14 DEF TestsEnd, GateSeesChange
  <2> QED BY <1>14, <2>1, <2>2, Settles DEF TestsEnd
\* Every verdict is on a process that has exited.
<1>9. ASSUME NEW r \in Runs, Return(r) PROVE LegionInv'
  BY <1>9
     DEF Return, Goto, LegionTypeOK, TableFollowsRun, VerdictsAreLate, FinalizedIsIdle, ApprovalFollows,
         GateSeesChange, ReturnedRunIsSettled, DoneIsClean
<1>10. ASSUME NEW r \in Runs, Die(r) PROVE LegionInv'
  BY <1>10
     DEF Die, Goto, LegionTypeOK, TableFollowsRun, VerdictsAreLate, FinalizedIsIdle, ApprovalFollows,
         GateSeesChange, ReturnedRunIsSettled, DoneIsClean
<1>11. CASE Intrude
  BY <1>11
     DEF Intrude, AtGate, LegionTypeOK, TableFollowsRun, VerdictsAreLate, FinalizedIsIdle,
         ApprovalFollows, GateSeesChange, ReturnedRunIsSettled, DoneIsClean
<1>12. CASE UNCHANGED legionVars
  BY <1>12
     DEF legionVars, LegionTypeOK, TableFollowsRun, VerdictsAreLate, FinalizedIsIdle, ApprovalFollows,
         GateSeesChange, ReturnedRunIsSettled, DoneIsClean
<1> QED BY <1>1, <1>2, <1>3, <1>4, <1>5, <1>6, <1>7, <1>8, <1>9, <1>10, <1>11, <1>12, <1>13, <1>14
           DEF LegionNext, SupervisorStep, Handle

\* The invariant is one.
LEMMA LegionInductive == LegionSpec => []LegionInv
<1>1. LegionInit => LegionInv
  <2> USE LegionAssumption, WorkerIsItsPair
  <2> SUFFICES ASSUME LegionInit PROVE LegionInv OBVIOUS
  <2>1. LegionTypeOK
    <3>1. tier \in [Workers -> Tiers]
      <4>1. PICK lead \in [Runs -> Tiers \ {"ultracode"}] :
              tier = [w \in Workers |-> IF w[2] = 1 THEN lead[w[1]] ELSE "cheap"]
        BY DEF LegionInit
      <4>2. "cheap" \in Tiers BY DEF Tiers
      <4> QED BY <4>1, <4>2
    <3>2. 1 \in Slots BY DEF Slots
    <3> QED BY <3>1, <3>2 DEF LegionInit, LegionTypeOK, Tiers, Verdicts, MaxEscalations
  <2>2. WorkersAreAccounted BY <2>1 DEF LegionInit, WorkersAreAccounted, TableFollowsRun
  <2>3. VerdictsAreLate /\ FinalizedIsIdle /\ ApprovalFollows /\ GateSeesChange
    BY DEF LegionInit, VerdictsAreLate, FinalizedIsIdle, Finalizing, ApprovalFollows, GateSeesChange
  <2>4. ReturnedRunIsSettled /\ DoneIsClean BY DEF LegionInit, ReturnedRunIsSettled, DoneIsClean
  <2> QED BY <2>2, <2>3, <2>4 DEF LegionInv
<1> QED BY <1>1, LegionStepKeeps, PTL DEF LegionSpec

\* Escalations keep to their budget, and legion_status shows the tier and the
\* verdict of every worker whose supervisor lives.
THEOREM WorkersAreAlwaysAccounted == LegionSpec => []WorkersAreAccounted
BY LegionInductive, PTL DEF LegionInv

\* A run that returns left no process and no worker without a verdict, and its exit
\* code is the conjunction of the verdicts.
THEOREM ReturnedRunsAreSettled == LegionSpec => []ReturnedRunIsSettled
BY LegionInductive, PTL DEF LegionInv

\* A worker is done only by a verdict on its own change, or misjudged says that the
\* scorecard was not its own.
THEOREM DoneMeansClean == LegionSpec => []DoneIsClean
BY LegionInductive, PTL DEF LegionInv
=============================================================================
