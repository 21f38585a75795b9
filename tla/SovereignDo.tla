----------------------------- MODULE SovereignDo -----------------------------
(***************************************************************************)
(* `citadel do --file` and `citadel optimize --apply`:                      *)
(* services/execute/coding.py (generate, verify in a copy, write back),     *)
(* verdict.py (condemned set, pre-images) and the ladder of executor.py     *)
(* (local first, cloud after a failure; which commands the confidence lets  *)
(* try the local tier is SovereignRun's subject, here any may).             *)
(*                                                                          *)
(* Each command is a process of its own; several share the workspace and    *)
(* the ledger.  A process may die at any step.                              *)
(*                                                                          *)
(* Abstracted: a file holds one of Contents, or is torn while write_text    *)
(* has truncated it.  Each command has a verifier of its own (--verify, or  *)
(* ast.parse of its Python files), which accepts the copy or not, or none   *)
(* at all.  copytree is one step.  The ledger is what a load makes of it:   *)
(* after a torn line, nothing that is appended is loaded.                   *)
(***************************************************************************)
EXTENDS Naturals, FiniteSets

CONSTANTS Procs,        \* command processes alive at once
          Files,        \* the files of the workspace that commands edit
          Contents,     \* what they may hold
          PyFiles,      \* those with the suffix .py
          MaxTasks      \* bound on the commands given

ASSUME SovereignAssumption == /\ PyFiles \subseteq Files /\ MaxTasks \in Nat
                              /\ Contents \cap {"torn", "none"} = {}
                              /\ "none" \notin Files

VARIABLES ws,         \* file -> content
          condemned,  \* contents whose CAPITAL verdict a load of the ledger finds
          ledgerTorn, \* the ledger has a torn line
          blobs,      \* contents with a whole pre-image
          badBlobs,   \* contents whose pre-image was cut short
          place,      \* process -> where it stands
          kind,       \* process -> "do" or "optimize"
          shunned,    \* process -> the condemned set it loaded
          verifier,   \* process -> it has a verifier
          proposal,   \* process -> file -> what to write there, or "none"
          left,       \* process -> the files it has still to write back
          file,       \* process -> the file it is writing
          reported,   \* process -> the status it ends with
          copy,       \* process -> the copy that its verifier, if any, accepted
          tasks,      \* commands given so far
          ever, barred, \* contents condemned so far; by process, before it began (history)
          overtaken,  \* processes whose copy others have written behind (history)
          vouched,    \* the copy of the command that last finished (history)
          spoiled     \* a write left the workspace unverified (history)

disk == <<ws, condemned, ledgerTorn, blobs, badBlobs>>
started == <<kind, shunned, verifier, barred>>
working == <<proposal, left, file, reported, copy>>
fate == <<overtaken, vouched, spoiled>>
vars == <<disk, place, started, working, tasks, ever, fate>>

Nothing == [f \in Files |-> "none"]
Targets(p) == {f \in Files : proposal[p][f] # "none"}

----------------------------------------------------------------------------
Init ==
  /\ ws \in [Files -> Contents]
  /\ condemned = {} /\ ledgerTorn = FALSE /\ blobs = {} /\ badBlobs = {}
  /\ place = [p \in Procs |-> "off"] /\ kind = [p \in Procs |-> "do"]
  /\ shunned = [p \in Procs |-> {}] /\ verifier = [p \in Procs |-> TRUE]
  /\ proposal = [p \in Procs |-> Nothing] /\ left = [p \in Procs |-> {}]
  /\ file = [p \in Procs |-> "none"] /\ reported = [p \in Procs |-> "none"]
  /\ copy = [p \in Procs |-> Nothing]
  /\ tasks = 0 /\ ever = {} /\ barred = [p \in Procs |-> {}]
  /\ overtaken = {} /\ vouched = ws /\ spoiled = FALSE

At(p, where) == place[p] = where
Goto(p, where) == place' = [place EXCEPT ![p] = where]

\* The command loads the ledger, if it is optimize, and may have a verifier.
Begin(p, k) ==
  /\ At(p, "off") /\ tasks < MaxTasks /\ tasks' = tasks + 1
  /\ kind' = [kind EXCEPT ![p] = k]
  /\ \E has \in BOOLEAN : verifier' = [verifier EXCEPT ![p] = has]
  /\ shunned' = [shunned EXCEPT ![p] = IF k = "do" THEN {} ELSE condemned]
  /\ barred' = [barred EXCEPT ![p] = ever]
  /\ \/ Goto(p, "local")
     \/ k = "do" /\ Goto(p, "cloud")
  /\ UNCHANGED <<disk, working, ever, fate>>

\* The model is asked: no engine, an exception, a file missing in the answer or
\* a condemned content end the attempt.  optimize edits one file; a command whose
\* targets have a Python file always has a verifier.
Generate(p) ==
  /\ At(p, "local")
  /\ \/ Goto(p, "failed") /\ UNCHANGED proposal
     \/ \E c \in [Files -> Contents \cup {"none"}] :
          /\ c # Nothing /\ \A f \in Files : c[f] \notin shunned[p]
          /\ kind[p] = "optimize" => \E f \in Files : \A g \in Files \ {f} : c[g] = "none"
          /\ ~verifier[p] => \A f \in PyFiles : c[f] = "none"
          /\ proposal' = [proposal EXCEPT ![p] = c]
          /\ Goto(p, "copying")
  /\ UNCHANGED <<disk, started, left, file, reported, copy, tasks, ever, fate>>

Applied(p) == [f \in Files |-> IF proposal[p][f] = "none" THEN ws[f] ELSE proposal[p][f]]

\* The verifier accepts the copy c, and the command goes on; or rejects it.
Accept(p, c) ==
  /\ Goto(p, "applying") /\ left' = [left EXCEPT ![p] = Targets(p)]
  /\ copy' = [copy EXCEPT ![p] = c] /\ UNCHANGED proposal
Reject(p) ==
  /\ verifier[p] /\ Goto(p, "failed")
  /\ proposal' = [proposal EXCEPT ![p] = Nothing] /\ UNCHANGED <<left, copy>>

\* A mutant of Verify: the workspace is copied before the proposal is put in.
VerifyBare(p) ==
  /\ At(p, "copying")
  /\ Accept(p, ws) \/ Reject(p)
  /\ overtaken' = overtaken \ {p}
  /\ UNCHANGED <<disk, started, file, reported, tasks, ever, vouched, spoiled>>

\* _apply_and_verify: the copy with the proposal is put to the verifier; a failure
\* is recorded as FAIL, which bars nothing.
Verify(p) ==
  /\ At(p, "copying")
  /\ Accept(p, Applied(p)) \/ Reject(p)
  /\ overtaken' = overtaken \ {p}
  /\ UNCHANGED <<disk, started, file, reported, tasks, ever, vouched, spoiled>>

\* A mutant of Backup: one blob in the store is enough.
BackupOnce(p, f) ==
  /\ At(p, "applying") /\ f \in left[p]
  /\ Goto(p, "writing") /\ file' = [file EXCEPT ![p] = f]
  /\ blobs' = IF kind[p] = "do" \/ blobs # {} THEN blobs ELSE {ws[f]}
  /\ UNCHANGED <<ws, condemned, ledgerTorn, badBlobs, started, proposal, left, reported, copy,
                 tasks, ever, fate>>

\* The next file: its pre-image is backed up, unless there is a blob of that
\* name; do has no ledger.  When the file cannot be read, backup returns None, and
\* the file is overwritten bare of one.
Backup(p, f) ==
  /\ At(p, "applying") /\ f \in left[p]
  /\ file' = [file EXCEPT ![p] = f]
  /\ \/ /\ Goto(p, "writing")
        /\ blobs' = IF kind[p] = "do" \/ ws[f] \in badBlobs THEN blobs ELSE blobs \cup {ws[f]}
     \/ kind[p] = "optimize" /\ Goto(p, "bare") /\ UNCHANGED blobs
  /\ UNCHANGED <<ws, condemned, ledgerTorn, badBlobs, started, proposal, left, reported, copy,
                 tasks, ever, fate>>

\* write_text truncates the file and writes it: whoever has a copy is overtaken.
Truncate(p) ==
  /\ place[p] \in {"writing", "bare"} /\ Goto(p, "truncated")
  /\ ws' = [ws EXCEPT ![file[p]] = "torn"]
  /\ overtaken' = overtaken \cup (Procs \ {p})
  /\ spoiled' = (spoiled \/ p \in overtaken)
  /\ UNCHANGED <<condemned, ledgerTorn, blobs, badBlobs, started, working, tasks, ever, vouched>>

\* When another process has written the file since, its longer text may survive
\* behind this one.
Write(p) ==
  /\ At(p, "truncated") /\ Goto(p, "written")
  /\ left' = [left EXCEPT ![p] = @ \ {file[p]}]
  /\ \E c \in {proposal[p][file[p]]} \cup IF ws[file[p]] = "torn" THEN {} ELSE {"torn"} :
       ws' = [ws EXCEPT ![file[p]] = c]
  /\ overtaken' = overtaken \cup (Procs \ {p})
  /\ spoiled' = IF p \in overtaken THEN TRUE ELSE IF left'[p] = {} THEN FALSE ELSE spoiled
  /\ vouched' = IF left'[p] = {} THEN copy[p] ELSE vouched
  /\ UNCHANGED <<condemned, ledgerTorn, blobs, badBlobs, started, proposal, file, reported, copy,
                 tasks, ever>>

\* A mutant of RecordPass: the last verdict on a content is the one that counts.
RecordPassLast(p) ==
  /\ At(p, "written")
  /\ Goto(p, IF left[p] = {} THEN "passed" ELSE "applying")
  /\ condemned' = IF kind[p] = "optimize" THEN condemned \ {proposal[p][file[p]]} ELSE condemned
  /\ file' = [file EXCEPT ![p] = "none"]
  /\ UNCHANGED <<ws, ledgerTorn, blobs, badBlobs, started, proposal, left, reported, copy,
                 tasks, ever, fate>>

\* record(PASS): a content once condemned stays in the set.
RecordPass(p) ==
  /\ At(p, "written")
  /\ Goto(p, IF left[p] = {} THEN "passed" ELSE "applying")
  /\ file' = [file EXCEPT ![p] = "none"]
  /\ UNCHANGED <<disk, started, proposal, left, reported, copy, tasks, ever, fate>>

Report(p, status) == reported' = [reported EXCEPT ![p] = status]
Ends(p, status) == Goto(p, "done") /\ Report(p, status)

\* sovereign_run takes a local pass; optimize takes what the executor returns.
Passed(p) ==
  /\ At(p, "passed") /\ Ends(p, "pass")
  /\ UNCHANGED <<disk, started, proposal, left, file, copy, tasks, ever, fate>>

Failed(p) ==
  /\ At(p, "failed")
  /\ \/ kind[p] = "do" /\ Goto(p, "cloud") /\ UNCHANGED reported
     \/ kind[p] = "optimize" /\ Ends(p, "fail")
  /\ UNCHANGED <<disk, started, proposal, left, file, copy, tasks, ever, fate>>

\* The cloud executor passes when the claude process exits 0.
Cloud(p) ==
  /\ At(p, "cloud") /\ \E status \in {"pass", "fail"} : Ends(p, status)
  /\ UNCHANGED <<disk, started, proposal, left, file, copy, tasks, ever, fate>>

\* What is left of a process: nothing.
Gone(p) ==
  /\ Goto(p, "off") /\ file' = [file EXCEPT ![p] = "none"]
  /\ proposal' = [proposal EXCEPT ![p] = Nothing] /\ left' = [left EXCEPT ![p] = {}]
  /\ reported' = [reported EXCEPT ![p] = "none"]
  /\ shunned' = [shunned EXCEPT ![p] = {}] /\ barred' = [barred EXCEPT ![p] = {}]
  /\ copy' = [copy EXCEPT ![p] = Nothing] /\ verifier' = [verifier EXCEPT ![p] = TRUE]
  /\ UNCHANGED kind

Exit(p) == /\ At(p, "done") /\ Gone(p)
           /\ UNCHANGED <<disk, tasks, ever, fate>>

\* p is between two files, or in the middle of one.
Midway(p) == At(p, "truncated") \/ (left[p] # {} /\ left[p] # Targets(p))

\* The process dies: within a write_bytes the blob stays cut short, within an
\* append the line stays torn.
Die(p) ==
  /\ place[p] \notin {"off", "done"} /\ Gone(p)
  /\ spoiled' = (spoiled \/ Midway(p))
  /\ \/ /\ At(p, "applying") /\ kind[p] = "optimize"
        /\ \E f \in left[p] : ws[f] \notin blobs /\ badBlobs' = badBlobs \cup {ws[f]}
        /\ UNCHANGED ledgerTorn
     \/ /\ place[p] \in {"written", "failed"} /\ kind[p] = "optimize" /\ ledgerTorn' = TRUE
        /\ UNCHANGED badBlobs
     \/ UNCHANGED <<badBlobs, ledgerTorn>>
  /\ UNCHANGED <<ws, condemned, blobs, tasks, ever, overtaken, vouched>>

\* Someone condemns a content: the verdict is appended to the ledger.
Condemn(c) == /\ c \notin ever /\ ever' = ever \cup {c}
              /\ condemned' = IF ledgerTorn THEN condemned ELSE condemned \cup {c}
              /\ UNCHANGED <<ws, ledgerTorn, blobs, badBlobs, place, started, working, tasks, fate>>

Step(p) == \/ (\E k \in {"do", "optimize"} : Begin(p, k))
           \/ Generate(p) \/ Verify(p) \/ (\E f \in Files : Backup(p, f))
           \/ Truncate(p) \/ Write(p) \/ RecordPass(p)
           \/ Passed(p) \/ Failed(p) \/ Cloud(p) \/ Exit(p) \/ Die(p)

Next == (\E p \in Procs : Step(p)) \/ (\E c \in Contents : Condemn(c))

Spec == Init /\ [][Next]_vars

----------------------------------------------------------------------------
Places == {"off", "local", "copying", "applying", "writing", "bare", "truncated", "written",
           "passed", "failed", "cloud", "done"}

TypeOK ==
  /\ ws \in [Files -> Contents \cup {"torn"}]
  /\ condemned \subseteq Contents /\ ever \subseteq Contents
  /\ ledgerTorn \in BOOLEAN
  /\ blobs \subseteq Contents \cup {"torn"} /\ badBlobs \subseteq Contents \cup {"torn"}
  /\ place \in [Procs -> Places]
  /\ kind \in [Procs -> {"do", "optimize"}] /\ verifier \in [Procs -> BOOLEAN]
  /\ shunned \in [Procs -> SUBSET Contents] /\ barred \in [Procs -> SUBSET Contents]
  /\ proposal \in [Procs -> [Files -> Contents \cup {"none"}]]
  /\ left \in [Procs -> SUBSET Files] /\ file \in [Procs -> Files \cup {"none"}]
  /\ reported \in [Procs -> {"none", "pass", "fail"}]
  /\ copy \in [Procs -> [Files -> Contents \cup {"torn", "none"}]]
  /\ vouched \in [Files -> Contents \cup {"torn", "none"}]
  /\ tasks \in 0..MaxTasks /\ overtaken \subseteq Procs /\ spoiled \in BOOLEAN

\* Whatever commands ran, and died: the workspace is, file for file, the copy that the
\* verifier of the last command accepted (or would have seen, had it one), unless a
\* process wrote back behind another one's write, or died between two writes, and no
\* other change was written back whole after that.
WorkspaceIsVerified == spoiled \/ ws = vouched \/ \E p \in Procs : Midway(p)

\* With the types of the workspace, the ledger and the commands.
WorkspaceIsSound == TypeOK /\ WorkspaceIsVerified

\* A content that was condemned before a command began is never written by it,
\* as long as the ledger has no torn line; do has no ledger at all.
CondemnedStaysOut ==
  [][\A p \in Procs : At(p, "truncated") /\ place'[p] = "written" /\ kind[p] = "optimize"
       => ws'[file[p]] \notin barred[p] \/ ledgerTorn]_vars

\* What optimize overwrites, and could read, has a pre-image, whole unless a crash cut
\* it short, and unless another process wrote the file since the copy was verified.
PreImageIsKept ==
  [][\A p \in Procs : At(p, "writing") /\ place'[p] = "truncated" /\ kind[p] = "optimize"
       => ws[file[p]] \in blobs \cup badBlobs \/ p \in overtaken]_vars

----------------------------------------------------------------------------
(* What the comments of the code promise and the code does not keep.        *)

\* "An unverified change never reaches the repo" (coding.py): every write is of a
\* command whose verifier accepted its copy.  Without --verify and without a Python
\* file among its targets, a command has no verifier.
ChangesAreVerified ==
  [][\A p \in Procs : place[p] # "truncated" /\ place'[p] = "truncated" => verifier[p]]_vars
=============================================================================
