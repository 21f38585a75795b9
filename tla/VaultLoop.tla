----------------------------- MODULE VaultLoop -----------------------------
(***************************************************************************)
(* tools/megacorp_orchestrator.py: one run takes an active task note from   *)
(* the Obsidian vault, has a model answer it, audits the answer, writes the *)
(* knowledge node, marks the note and leaves a record for human review.     *)
(* With it the tools it calls: obsidian_task_bridge (capsule),              *)
(* intent_classifier (track), spec_generator, department_router,            *)
(* l5_structural_decay, l6_shadow_compiler and obsidian_writer.             *)
(*                                                                          *)
(* Runs of several terminals share the vault, the capsule file and the spec *)
(* file, and the user edits the notes meanwhile.  No file is locked.        *)
(*                                                                          *)
(* Abstracted: a note is its tag, the number of the text the user gave it,  *)
(* whether that text begins with a verb of action and whether its links     *)
(* lead to code symbols.  The spine, the dispatch file and the task history *)
(* are written and never read back by a run (the rows of the history are    *)
(* empty: its columns are not the keys the run passes).  L5 compares scores *)
(* under names it does not know and never vetoes.                           *)
(***************************************************************************)
EXTENDS Naturals

CONSTANTS Notes,    \* the user's notes
          Node,     \* the knowledge node: its title is the same for every task
          Loops,    \* terminals that run the loop
          Nothing,  \* no capsule, no spec
          MaxTexts, \* texts the user writes: bounds the behaviours
          MaxRuns   \* runs of the loop: bounds the behaviours

VARIABLES note,     \* note -> what its file holds
          capsule,  \* context-capsule.json
          spec,     \* the task active-spec.json is for
          records,  \* human-intervention/*-delta.json
          loop,     \* loop -> where it stands, its capsule, what it read of the note
          texts, runs,
          answered, \* the tasks the model answered (history)
          raced,    \* notes the user edited while a run was at work on them (history)
          cut,      \* notes whose run died before it left its record (history)
          mixed     \* runs overlapped, or a spec could not be generated (history)

files == <<note, capsule, spec, records>>
history == <<answered, raced, cut, mixed>>
vars == <<files, loop, texts, runs, history>>

AllNotes == Notes \cup {Node}
Tags == {"plain", "active", "complete", "failed"}
Content == [tag : Tags, text : 0..MaxTexts, verb : BOOLEAN, linked : BOOLEAN]
Blank == [tag |-> "plain", text |-> 0, verb |-> FALSE, linked |-> FALSE]
Capsules == [note : AllNotes, text : 0..MaxTexts, linked : BOOLEAN]

ASSUME VaultAssumption == /\ Node \notin Notes /\ Nothing \notin Capsules
                          /\ MaxTexts \in Nat /\ MaxRuns \in Nat

Task(c) == <<c.note, c.text>>
Busy(l) == loop[l].at # "idle"
Idle == [at |-> "idle", prompt |-> "none", own |-> Nothing, echo |-> FALSE, copy |-> Blank]
Goto(l, place) == loop' = [loop EXCEPT ![l].at = place]
Quit(l) == loop' = [loop EXCEPT ![l] = Idle]

----------------------------------------------------------------------------
Init ==
  /\ note = [n \in AllNotes |-> Blank]
  /\ capsule = Nothing /\ spec = Nothing /\ records = {}
  /\ loop = [l \in Loops |-> Idle]
  /\ texts = 0 /\ runs = 0
  /\ answered = {} /\ raced = {} /\ cut = {} /\ mixed = FALSE

\* The user writes a task into a note, or rewrites it.
Edit(n) ==
  /\ texts < MaxTexts /\ texts' = texts + 1
  /\ \E verb, linked \in BOOLEAN :
       note' = [note EXCEPT ![n] = [tag |-> "active", text |-> texts', verb |-> verb,
                                    linked |-> linked]]
  /\ raced' = IF \E l \in Loops : Busy(l) /\ loop[l].own # Nothing /\ loop[l].own.note = n
              THEN raced \cup {n} ELSE raced
  /\ UNCHANGED <<capsule, spec, records, loop, runs, answered, cut, mixed>>

\* megacorp_orchestrator --run, with a prompt or without.
Begin(l) ==
  /\ ~Busy(l) /\ runs < MaxRuns /\ runs' = runs + 1
  /\ \E prompt \in {"none", "action", "question"} :
       loop' = [loop EXCEPT ![l] = [Idle EXCEPT !.at = "scan", !.prompt = prompt]]
  /\ mixed' = (mixed \/ \E k \in Loops : Busy(k))
  /\ UNCHANGED <<files, texts, answered, raced, cut>>

\* IntentClassifier: the prompt decides, or the note's text, which is a question
\* unless it begins with a verb of action.
IsAction(l, n) == \/ loop[l].prompt = "action"
                  \/ loop[l].prompt = "none" /\ note[n].verb

\* scan_active_tasks and build_capsule: the tasks of the vault, and the capsule of one.
ActiveNotes == {n \in AllNotes : note[n].tag = "active"}
CapsuleOf(n) == [note |-> n, text |-> note[n].text, linked |-> note[n].linked]

\* Step A: one active note of the vault becomes the capsule.  On the track of
\* questions, and when there is no task, the run changes nothing more.
TakeTask(l) ==
  /\ loop[l].at = "scan"
  /\ \/ ActiveNotes = {} /\ Quit(l) /\ UNCHANGED capsule
     \/ \E n \in ActiveNotes :
          /\ capsule' = CapsuleOf(n)
          /\ IF IsAction(l, n)
             THEN loop' = [loop EXCEPT ![l].own = capsule', ![l].at = "spec"] ELSE Quit(l)
  /\ UNCHANGED <<note, spec, records, texts, runs, history>>

\* A mutant of LockSpec: a spec that is there is kept.
LockSpecOnce(l) ==
  /\ loop[l].at = "spec" /\ Goto(l, "route")
  /\ spec' = IF spec = Nothing THEN Task(capsule) ELSE spec
  /\ UNCHANGED <<note, capsule, records, texts, runs, history>>

\* Step C generates the spec from the capsule file; an error is only printed.
LockSpec(l) ==
  /\ loop[l].at = "spec" /\ Goto(l, "route")
  /\ \/ spec' = Task(capsule) /\ UNCHANGED mixed
     \/ mixed' = TRUE /\ UNCHANGED spec
  /\ UNCHANGED <<note, capsule, records, texts, runs, answered, raced, cut>>

\* Step D routes by the capsule file.  The router joins the resolved files as if they
\* were strings: a capsule that has some raises, and the run ends.
Route(l) == /\ loop[l].at = "route" /\ IF capsule.linked THEN Quit(l) ELSE Goto(l, "ask")
            /\ UNCHANGED <<files, texts, runs, history>>

\* A mutant of Ask: the model is asked what the capsule file says.
AskFile(l) ==
  /\ loop[l].at = "ask"
  /\ \/ Quit(l) /\ UNCHANGED answered
     \/ \E echo \in BOOLEAN :
          /\ loop' = [loop EXCEPT ![l].at = "audit", ![l].echo = echo]
          /\ answered' = answered \cup {Task(capsule)}
  /\ UNCHANGED <<files, texts, runs, raced, cut, mixed>>

\* The model answers the run's own capsule, perhaps repeating the task with its tag,
\* or fails, which ends the run.
Ask(l) ==
  /\ loop[l].at = "ask"
  /\ \/ Quit(l) /\ UNCHANGED answered
     \/ \E echo \in BOOLEAN :
          /\ loop' = [loop EXCEPT ![l].at = "audit", ![l].echo = echo]
          /\ answered' = answered \cup {Task(loop[l].own)}
  /\ UNCHANGED <<files, texts, runs, raced, cut, mixed>>

\* Step E: only L6 can veto.
Audit(l) == /\ loop[l].at = "audit" /\ \E place \in {"node", "fail"} : Goto(l, place)
            /\ UNCHANGED <<files, texts, runs, history>>

\* generate_semantic_node: the answer stands in the node, with the tag it may repeat.
KnowledgeNode(l) == [tag |-> IF loop[l].echo THEN "active" ELSE "plain",
                     text |-> loop[l].own.text, verb |-> FALSE, linked |-> FALSE]

\* Step F on a pass: the knowledge node is written over the one there is.
WriteNode(l) ==
  /\ loop[l].at = "node" /\ Goto(l, "read")
  /\ note' = [note EXCEPT ![Node] = KnowledgeNode(l)]
  /\ UNCHANGED <<capsule, spec, records, texts, runs, history>>

\* mark_task_complete reads the note; one that is not active is left alone.
ReadNote(l) ==
  LET content == note[loop[l].own.note] IN
  /\ loop[l].at = "read"
  /\ loop' = [loop EXCEPT ![l].at = IF content.tag = "active" THEN "mark" ELSE "record",
                          ![l].copy = content]
  /\ UNCHANGED <<files, texts, runs, history>>

\* It writes back what it read, with the tag flipped.
MarkComplete(l) ==
  /\ loop[l].at = "mark" /\ Goto(l, "record")
  /\ note' = [note EXCEPT ![loop[l].own.note] = [loop[l].copy EXCEPT !.tag = "complete"]]
  /\ UNCHANGED <<capsule, spec, records, texts, runs, history>>

\* A mutant of Record: there is one file for the record.
RecordOver(l) ==
  /\ loop[l].at = "record" /\ Quit(l)
  /\ records' = {[task |-> Task(loop[l].own), spec |-> spec]}
  /\ UNCHANGED <<note, capsule, spec, texts, runs, history>>

\* _write_intervention_record, with the spec id the file holds by now.
Record(l) ==
  /\ loop[l].at = "record" /\ Quit(l)
  /\ records' = records \cup {[task |-> Task(loop[l].own), spec |-> spec]}
  /\ UNCHANGED <<note, capsule, spec, texts, runs, history>>

\* Step F on a veto: the note is read, its tag flipped if it is active, and written.
ReadFailed(l) ==
  /\ loop[l].at = "fail"
  /\ loop' = [loop EXCEPT ![l].at = "flag", ![l].copy = note[loop[l].own.note]]
  /\ UNCHANGED <<files, texts, runs, history>>

MarkFailed(l) ==
  /\ loop[l].at = "flag" /\ Quit(l)
  /\ note' = [note EXCEPT ![loop[l].own.note] =
                [loop[l].copy EXCEPT !.tag = IF @ = "active" THEN "failed" ELSE @]]
  /\ UNCHANGED <<capsule, spec, records, texts, runs, history>>

\* A run is killed.
Die(l) ==
  /\ Busy(l) /\ Quit(l)
  /\ cut' = IF loop[l].at = "record" THEN cut \cup {loop[l].own.note} ELSE cut
  /\ UNCHANGED <<files, texts, runs, answered, raced, mixed>>

LoopStep(l) == \/ TakeTask(l) \/ LockSpec(l) \/ Route(l) \/ Ask(l) \/ Audit(l) \/ WriteNode(l)
               \/ ReadNote(l) \/ MarkComplete(l) \/ Record(l) \/ ReadFailed(l) \/ MarkFailed(l)

Next == \/ \E n \in Notes : Edit(n)
        \/ \E l \in Loops : Begin(l) \/ LoopStep(l) \/ Die(l)

Spec == Init /\ [][Next]_vars

----------------------------------------------------------------------------
Places == {"idle", "scan", "spec", "route", "ask", "audit", "node", "read", "mark", "record",
           "fail", "flag"}
Run == [at : Places, prompt : {"none", "action", "question"}, own : Capsules \cup {Nothing},
        echo : BOOLEAN, copy : Content]

TypeOK ==
  /\ note \in [AllNotes -> Content]
  /\ capsule \in Capsules \cup {Nothing}
  /\ spec \in (AllNotes \X (0..MaxTexts)) \cup {Nothing}
  /\ \A r \in records : /\ r.task \in AllNotes \X (0..MaxTexts)
                        /\ r.spec \in (AllNotes \X (0..MaxTexts)) \cup {Nothing}
  /\ loop \in [Loops -> Run]
  /\ texts \in 0..MaxTexts /\ runs \in 0..MaxRuns
  /\ answered \subseteq AllNotes \X (0..MaxTexts) /\ raced \subseteq Notes /\ cut \subseteq AllNotes

\* A note of the user that is complete says what the model answered, however many runs
\* took it and whichever capsule lies in the shared file, unless the user rewrote it
\* under a run.
CompletedWasAnswered ==
  \A n \in Notes : note[n].tag = "complete" => <<n, note[n].text>> \in answered \/ n \in raced

\* The text t of the note n is on record, is about to be, or its run died.
OnRecord(n, t) ==
  \/ \E r \in records : r.task = <<n, t>>
  \/ \E l \in Loops : loop[l].at = "record" /\ loop[l].own.note = n
  \/ n \in raced \cup cut

\* And it has a record that awaits review, or its run is about to leave one, or died.
CompletedIsOnRecord == \A n \in Notes : note[n].tag = "complete" => OnRecord(n, note[n].text)

\* The record of a run names the spec that was locked for its own task, as long as runs
\* do not overlap and every spec could be generated: what an earlier run or one that
\* died left in the capsule and the spec file does not show.
RecordNamesItsSpec == mixed \/ \A r \in records : r.spec = r.task

\* With the types of notes, shared files, records and runs.
RecordsAreSound == TypeOK /\ RecordNamesItsSpec
=============================================================================
