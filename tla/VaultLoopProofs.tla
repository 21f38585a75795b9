-------------------------- MODULE VaultLoopProofs --------------------------
(***************************************************************************)
(* Theorems about VaultLoop, for any notes, any number of overlapping runs  *)
(* and any edits.  The argument: a run's own capsule never changes, and the *)
(* note it was made from says the same as long as the user leaves it alone, *)
(* whatever lies in the shared files; so a run marks what it had answered.  *)
(***************************************************************************)
EXTENDS VaultLoop, TLAPS

BeforeCapsule == {"idle", "scan"}
BeforeAnswer == {"idle", "scan", "spec", "route", "ask"}

\* A run that is past step A has its capsule, and has left it in the file.
CapsuleIsTaken ==
  \A l \in Loops : loop[l].at \notin BeforeCapsule => loop[l].own \in Capsules /\ capsule \in Capsules

Typed == TypeOK /\ CapsuleIsTaken

\* The note n of the user is as the run l found it, or was edited under a run.
Untouched(l, n) ==
  \/ n \in raced
  \/ /\ note[n].text = loop[l].own.text
     /\ loop[l].at \in {"mark", "flag"} => loop[l].copy.text = loop[l].own.text

NotesAreFollowed ==
  \A l \in Loops, n \in Notes :
    loop[l].at \notin BeforeCapsule /\ loop[l].own.note = n => Untouched(l, n)

\* A run past step D has the answer to its own task.
TasksAreAnswered == \A l \in Loops : loop[l].at \notin BeforeAnswer => Task(loop[l].own) \in answered

\* A note read for the failed tag may be complete by then: that was on record.
FlagsAreOnRecord ==
  \A l \in Loops, n \in Notes :
    loop[l].at = "flag" /\ loop[l].own.note = n /\ loop[l].copy.tag = "complete"
      => OnRecord(n, loop[l].copy.text)

\* While runs do not overlap, the files are those of the run that is at work.
FilesAreOwn ==
  mixed \/ /\ \A k, l \in Loops : Busy(k) /\ Busy(l) => k = l
           /\ \A l \in Loops : loop[l].at = "spec" => capsule = loop[l].own
           /\ \A l \in Loops : loop[l].at \notin {"idle", "scan", "spec"} => spec = Task(loop[l].own)

Answers == NotesAreFollowed /\ TasksAreAnswered /\ CompletedWasAnswered
Recorded == FlagsAreOnRecord /\ CompletedIsOnRecord
Specs == FilesAreOwn /\ RecordNamesItsSpec

\* The inductive invariant.
IInv == Typed /\ Answers /\ Recorded /\ Specs

----------------------------------------------------------------------------
\* The run l is at p by now, the others are where they were, and what the runs hold is
\* what they held.
Moved(l, p) ==
  /\ loop' \in [Loops -> Run]
  /\ loop'[l].at = p /\ \A k \in Loops \ {l} : loop'[k] = loop[k]
  /\ loop'[l].own = loop[l].own /\ loop'[l].copy = loop[l].copy /\ loop'[l].echo = loop[l].echo

\* A step to another place changes nothing else of the runs.
LEMMA Moves ==
  ASSUME loop \in [Loops -> Run], NEW l \in Loops, NEW p \in Places, Goto(l, p) PROVE Moved(l, p)
  BY DEF Goto, Moved, Run

\* Also an idle one is a run.
LEMMA IdleIsRun == Idle \in Run /\ Idle.at = "idle" /\ Idle.own = Nothing
  BY VaultAssumption DEF Idle, Run, Places, Blank, Content, Tags

\* A run that ends is idle again.
LEMMA Quits ==
  ASSUME loop \in [Loops -> Run], NEW l \in Loops, Quit(l)
  PROVE  /\ loop' \in [Loops -> Run]
         /\ loop'[l].at = "idle" /\ \A k \in Loops \ {l} : loop'[k] = loop[k]
  BY IdleIsRun DEF Quit

\* What a step leaves of the run l, by name: a place and a copy, or a task.
ReadTo(l, p, c) == loop' = [loop EXCEPT ![l].at = p, ![l].copy = c]
TakeUp(l, c) == loop' = [loop EXCEPT ![l].own = c, ![l].at = "spec"]

\* A run that read a note moves on with the copy.
LEMMA Reads ==
  ASSUME loop \in [Loops -> Run], NEW l \in Loops, NEW p \in Places, NEW c \in Content,
         ReadTo(l, p, c)
  PROVE  /\ loop' \in [Loops -> Run]
         /\ loop'[l].at = p /\ loop'[l].copy = c /\ loop'[l].own = loop[l].own
         /\ \A k \in Loops \ {l} : loop'[k] = loop[k]
<1> DEFINE r == [loop[l] EXCEPT !.at = p, !.copy = c]
<1>1. r \in Run /\ r.at = p /\ r.copy = c /\ r.own = loop[l].own
  BY DEF Run
<1>2. loop' = [loop EXCEPT ![l] = r]
  BY DEF ReadTo
<1>3. QED BY <1>1, <1>2

\* A run that took a task has its capsule.
LEMMA Takes ==
  ASSUME loop \in [Loops -> Run], NEW l \in Loops, NEW c \in Capsules,
         TakeUp(l, c)
  PROVE  /\ loop' \in [Loops -> Run]
         /\ loop'[l].at = "spec" /\ loop'[l].own = c
         /\ \A k \in Loops \ {l} : loop'[k] = loop[k]
<1> DEFINE r == [loop[l] EXCEPT !.own = c, !.at = "spec"]
<1>1. r \in Run /\ r.at = "spec" /\ r.own = c
  BY DEF Run, Places
<1>2. loop' = [loop EXCEPT ![l] = r]
  BY DEF TakeUp
<1>3. QED BY <1>1, <1>2

\* A run that has its answer goes on to the audit.
LEMMA Hears ==
  ASSUME loop \in [Loops -> Run], NEW l \in Loops, NEW echo \in BOOLEAN,
         loop' = [loop EXCEPT ![l].at = "audit", ![l].echo = echo]
  PROVE  /\ loop' \in [Loops -> Run]
         /\ loop'[l].at = "audit" /\ loop'[l].own = loop[l].own
         /\ \A k \in Loops \ {l} : loop'[k] = loop[k]
<1> DEFINE r == [loop[l] EXCEPT !.at = "audit", !.echo = echo]
<1>1. r \in Run /\ r.at = "audit" /\ r.own = loop[l].own
  BY DEF Run, Places
<1>2. loop' = [loop EXCEPT ![l] = r]
  OBVIOUS
<1>3. QED BY <1>1, <1>2

\* A run that begins knows no more than its prompt.
LEMMA Begins ==
  ASSUME loop \in [Loops -> Run], NEW l \in Loops, Begin(l)
  PROVE  /\ loop' \in [Loops -> Run]
         /\ loop'[l].at = "scan" /\ loop'[l].own = Nothing
         /\ \A k \in Loops \ {l} : loop'[k] = loop[k]
<1>1. PICK prompt \in {"none", "action", "question"} :
        loop' = [loop EXCEPT ![l] = [Idle EXCEPT !.at = "scan", !.prompt = prompt]]
  BY DEF Begin
<1> DEFINE r == [Idle EXCEPT !.at = "scan", !.prompt = prompt]
<1>2. r \in Run /\ r.at = "scan" /\ r.own = Nothing
  BY IdleIsRun DEF Run, Places
<1>3. QED BY <1>1, <1>2

\* A note whose tag is changed is a note.
LEMMA Tagged == ASSUME NEW c \in Content, NEW t \in Tags
                PROVE  [c EXCEPT !.tag = t] \in Content /\ [c EXCEPT !.tag = t].text = c.text
                       /\ [c EXCEPT !.tag = t].tag = t
  BY DEF Content

\* Every reachable state is well-typed, and a run past step A has its capsule.
LEMMA TypeInvariant == Spec => []Typed
<1>1. Init => Typed
  BY VaultAssumption, IdleIsRun
     DEF Init, Typed, TypeOK, CapsuleIsTaken, Blank, Content, Tags, BeforeCapsule
<1>2. Typed /\ [Next]_vars => Typed'
  <2> SUFFICES ASSUME Typed, [Next]_vars PROVE Typed'
    OBVIOUS
  <2> USE VaultAssumption DEF Typed, TypeOK, CapsuleIsTaken, BeforeCapsule, files, history
  <2>0. loop \in [Loops -> Run]
    OBVIOUS
  <2>1. ASSUME NEW n \in Notes, Edit(n) PROVE Typed'
    BY <2>1 DEF Edit, AllNotes, Content, Tags
  <2>2. ASSUME NEW l \in Loops, Begin(l) PROVE Typed'
    <3>1. /\ loop' \in [Loops -> Run] /\ loop'[l].at = "scan"
          /\ \A k \in Loops \ {l} : loop'[k] = loop[k]
      BY <2>2, <2>0, Begins
    <3>2. QED BY <2>2, <3>1 DEF Begin
  <2>3. ASSUME NEW l \in Loops, TakeTask(l) PROVE Typed'
    <3>1. CASE Quit(l) /\ UNCHANGED capsule
      BY <2>3, <3>1, <2>0, Quits DEF TakeTask
    <3>2. ASSUME NEW n \in ActiveNotes, capsule' = CapsuleOf(n), Quit(l)  PROVE Typed'
      <4>1. CapsuleOf(n) \in Capsules
        BY DEF CapsuleOf, Capsules, ActiveNotes, Content
      <4>2. QED BY <2>3, <3>2, <4>1, <2>0, Quits DEF TakeTask
    <3>3. ASSUME NEW n \in ActiveNotes, capsule' = CapsuleOf(n),
                 loop' = [loop EXCEPT ![l].own = capsule', ![l].at = "spec"] PROVE Typed'
      <4>1. CapsuleOf(n) \in Capsules
        BY DEF CapsuleOf, Capsules, ActiveNotes, Content
      <4>a. TakeUp(l, CapsuleOf(n))
        BY <3>3 DEF TakeUp
      <4>2. loop' \in [Loops -> Run] /\ loop'[l].own \in Capsules /\ \A k \in Loops \ {l} : loop'[k] = loop[k]
        BY <4>a, <4>1, <2>0, Takes
      <4>3. QED BY <2>3, <3>3, <4>1, <4>2 DEF TakeTask
    <3>4. QED BY <2>3, <3>1, <3>2, <3>3 DEF TakeTask
  <2>4. ASSUME NEW l \in Loops, LockSpec(l) PROVE Typed'
    <3>1. Moved(l, "route")
      BY <2>4, <2>0, Moves DEF LockSpec, Places
    <3>2. Task(capsule) \in AllNotes \X (0..MaxTexts)
      BY <2>4 DEF LockSpec, Task, Capsules
    <3>3. QED BY <2>4, <3>1, <3>2 DEF LockSpec, Moved
  <2>5. ASSUME NEW l \in Loops, Route(l) PROVE Typed'
    BY <2>5, <2>0, Moves, Quits DEF Route, Moved, Places
  <2>6. ASSUME NEW l \in Loops, Ask(l) PROVE Typed'
    <3>1. Task(loop[l].own) \in AllNotes \X (0..MaxTexts)
      BY <2>6 DEF Ask, Capsules, Task
    <3>2. ASSUME NEW echo \in BOOLEAN, loop' = [loop EXCEPT ![l].at = "audit", ![l].echo = echo]
          PROVE loop' \in [Loops -> Run] /\ loop'[l].own = loop[l].own /\ \A k \in Loops \ {l} : loop'[k] = loop[k]
      BY <3>2, <2>0, Hears
    <3>3. QED BY <2>6, <2>0, <3>1, <3>2, Quits DEF Ask
  <2>7. ASSUME NEW l \in Loops, Audit(l) PROVE Typed'
    BY <2>7, <2>0, Moves DEF Audit, Moved, Places
  <2>8. ASSUME NEW l \in Loops, WriteNode(l) PROVE Typed'
    <3>1. KnowledgeNode(l) \in Content
      BY <2>8 DEF WriteNode, KnowledgeNode, Capsules, Content, Tags
    <3>2. Moved(l, "read")
      BY <2>8, <2>0, Moves DEF WriteNode, Places
    <3>3. QED BY <2>8, <3>1, <3>2 DEF WriteNode, Moved, AllNotes
  <2>9. ASSUME NEW l \in Loops, ReadNote(l) PROVE Typed'
    <3> DEFINE place == IF note[loop[l].own.note].tag = "active" THEN "mark" ELSE "record"
    <3>1. note[loop[l].own.note] \in Content /\ place \in Places
      BY <2>9 DEF ReadNote, Capsules, Places
    <3>a. ReadTo(l, place, note[loop[l].own.note])
      BY <2>9 DEF ReadNote, ReadTo
    <3>2. loop' \in [Loops -> Run] /\ loop'[l].own = loop[l].own /\ \A k \in Loops \ {l} : loop'[k] = loop[k]
      <4> HIDE DEF place
      <4>1. QED BY <3>1, <3>a, <2>0, Reads
    <3>3. QED BY <2>9, <3>2 DEF ReadNote
  <2>10. ASSUME NEW l \in Loops, MarkComplete(l) PROVE Typed'
    <3>1. Moved(l, "record")
      BY <2>10, <2>0, Moves DEF MarkComplete, Places
    <3>a. loop[l].copy \in Content
      BY <2>0 DEF Run
    <3>2. note' \in [AllNotes -> Content]
      BY <2>10, <3>a, Tagged DEF MarkComplete, Tags
    <3>3. QED BY <2>10, <3>1, <3>2 DEF MarkComplete, Moved
  <2>11. ASSUME NEW l \in Loops, Record(l) PROVE Typed'
    <3>1. Task(loop[l].own) \in AllNotes \X (0..MaxTexts)
      BY <2>11 DEF Record, Capsules, Task
    <3>2. QED BY <2>11, <3>1, <2>0, Quits DEF Record
  <2>12. ASSUME NEW l \in Loops, ReadFailed(l) PROVE Typed'
    <3>1. note[loop[l].own.note] \in Content
      BY <2>12 DEF ReadFailed, Capsules
    <3>a. ReadTo(l, "flag", note[loop[l].own.note])
      BY <2>12 DEF ReadFailed, ReadTo
    <3>b. "flag" \in Places
      BY DEF Places
    <3>2. loop' \in [Loops -> Run] /\ loop'[l].own = loop[l].own /\ \A k \in Loops \ {l} : loop'[k] = loop[k]
      BY <3>1, <3>a, <3>b, <2>0, Reads
    <3>3. QED BY <2>12, <3>2 DEF ReadFailed
  <2>13. ASSUME NEW l \in Loops, MarkFailed(l) PROVE Typed'
    <3>1. [loop[l].copy EXCEPT !.tag = IF @ = "active" THEN "failed" ELSE @] \in Content
      BY <2>0, Tagged DEF Run, Tags, Content
    <3>2. QED BY <2>13, <3>1, <2>0, Quits DEF MarkFailed
  <2>14. ASSUME NEW l \in Loops, Die(l) PROVE Typed'
    <3>1. loop[l].at = "record" => loop[l].own.note \in AllNotes
      BY DEF Capsules
    <3>2. QED BY <2>14, <3>1, <2>0, Quits DEF Die
  <2>15. CASE UNCHANGED vars
    BY <2>15 DEF vars
  <2>16. QED
    BY <2>1, <2>2, <2>3, <2>4, <2>5, <2>6, <2>7, <2>8, <2>9, <2>10, <2>11, <2>12, <2>13, <2>14,
       <2>15
       DEF Next, LoopStep
<1>3. QED BY <1>1, <1>2, PTL DEF Spec

\* What is on record stays so, as long as no run gives up its place before the record.
LEMMA RecordStays ==
  ASSUME NEW l \in Loops, loop[l].at # "record", \A k \in Loops \ {l} : loop'[k] = loop[k],
         records \subseteq records', raced \subseteq raced', cut \subseteq cut',
         NEW n, NEW t, OnRecord(n, t)
  PROVE  OnRecord(n, t)'
  BY DEF OnRecord

\* A step of a run that leaves the notes and the records alone leaves them in order.
LEMMA QuietStep ==
  ASSUME Recorded, NEW l \in Loops, loop[l].at # "record", loop'[l].at # "flag",
         \A k \in Loops \ {l} : loop'[k] = loop[k],
         \A n \in Notes : note'[n] = note[n],
         UNCHANGED <<records, raced, cut>>
  PROVE  Recorded'
<1>1. \A n, t : OnRecord(n, t) => OnRecord(n, t)'
  BY RecordStays
<1>2. QED BY <1>1 DEF Recorded, FlagsAreOnRecord, CompletedIsOnRecord

\* What a run marks was answered and is recorded, with the spec locked for it.
LEMMA InductiveInvariant == Spec => []IInv
<1>1. Init => Answers /\ Recorded /\ Specs
  BY DEF Init, Answers, Recorded, Specs, NotesAreFollowed, TasksAreAnswered, CompletedWasAnswered,
         FlagsAreOnRecord, CompletedIsOnRecord, FilesAreOwn, RecordNamesItsSpec, Blank, Idle,
         BeforeCapsule, BeforeAnswer, Busy, AllNotes
<1>2. Typed /\ Typed' /\ Answers /\ Recorded /\ Specs /\ [Next]_vars => Answers' /\ Recorded' /\ Specs'
  <2> SUFFICES ASSUME Typed, Typed', Answers, Recorded, Specs, [Next]_vars
               PROVE  Answers' /\ Recorded' /\ Specs'
    OBVIOUS
  <2> USE VaultAssumption
      DEF Answers, Specs, NotesAreFollowed, TasksAreAnswered, CompletedWasAnswered,
          FilesAreOwn, RecordNamesItsSpec, Untouched,
          BeforeCapsule, BeforeAnswer, Busy, files, history, Moved
  <2>0. loop \in [Loops -> Run] /\ note \in [AllNotes -> Content] /\ CapsuleIsTaken
    BY DEF Typed, TypeOK
  <2>1. ASSUME NEW n \in Notes, Edit(n) PROVE Answers' /\ Recorded' /\ Specs'
    <3>1. \A l \in Loops : loop[l].at \notin BeforeCapsule => loop[l].own # Nothing
      BY <2>0 DEF CapsuleIsTaken
    <3>2. Answers'
      BY <2>0, <2>1, <3>1 DEF Edit, AllNotes
    <3>3. Recorded'
      <4>1. \A m, t : OnRecord(m, t) => OnRecord(m, t)'
        BY <2>1 DEF Edit, OnRecord, history
      <4>2. \A m \in Notes : note'[m].tag = "complete" => note'[m] = note[m]
        BY <2>0, <2>1 DEF Edit, AllNotes
      <4>3. QED BY <2>1, <4>1, <4>2 DEF Edit, Recorded, FlagsAreOnRecord, CompletedIsOnRecord
    <3>4. Specs'
      BY <2>1 DEF Edit
    <3>5. QED BY <3>2, <3>3, <3>4
  <2>2. ASSUME NEW l \in Loops, Begin(l) PROVE Answers' /\ Recorded' /\ Specs'
    <3>1. /\ loop'[l].at = "scan"
          /\ \A k \in Loops \ {l} : loop'[k] = loop[k]
      BY <2>2, <2>0, Begins
    <3>2. Answers'
      BY <2>2, <3>1 DEF Begin
    <3>3. Recorded'
      BY <2>2, <3>1, <2>0, QuietStep DEF Begin
    <3>4. Specs'
      <4>1. ~mixed' => ~mixed /\ \A k \in Loops : loop[k].at = "idle"
        BY <2>2 DEF Begin
      <4>2. QED BY <2>2, <3>1, <4>1 DEF Begin
    <3>5. QED BY <3>2, <3>3, <3>4
  <2>3. ASSUME NEW l \in Loops, TakeTask(l) PROVE Answers' /\ Recorded' /\ Specs'
    <3>1. CASE Quit(l)
      <4>1. loop'[l].at = "idle" /\ \A k \in Loops \ {l} : loop'[k] = loop[k]
        BY <3>1, <2>0, Quits
      <4>2. Answers'
        BY <2>3, <4>1 DEF TakeTask
      <4>3. Recorded'
        BY <2>3, <4>1, QuietStep DEF TakeTask
      <4>4. Specs'
        BY <2>3, <4>1 DEF TakeTask
      <4>5. QED BY <4>2, <4>3, <4>4
    <3>2. ASSUME NEW n \in ActiveNotes, capsule' = CapsuleOf(n),
                 loop' = [loop EXCEPT ![l].own = capsule', ![l].at = "spec"]
          PROVE  Answers' /\ Recorded' /\ Specs'
      <4>a. CapsuleOf(n) \in Capsules /\ CapsuleOf(n).note = n /\ CapsuleOf(n).text = note[n].text
        BY <2>0 DEF CapsuleOf, Capsules, ActiveNotes, Content
      <4>b. TakeUp(l, CapsuleOf(n))
        BY <3>2 DEF TakeUp
      <4>1. /\ loop'[l].at = "spec" /\ loop'[l].own = CapsuleOf(n)
            /\ \A k \in Loops \ {l} : loop'[k] = loop[k]
        BY <4>a, <4>b, <2>0, Takes
      <4>2. Answers'
        BY <2>3, <4>a, <4>1 DEF TakeTask
      <4>3. Recorded'
        BY <2>3, <4>1, QuietStep DEF TakeTask
      <4>4. Specs'
        BY <2>3, <3>2, <4>1 DEF TakeTask
      <4>5. QED BY <4>2, <4>3, <4>4
    <3>3. QED BY <2>3, <3>1, <3>2 DEF TakeTask
  <2>4. ASSUME NEW l \in Loops, LockSpec(l) PROVE Answers' /\ Recorded' /\ Specs'
    <3>1. Moved(l, "route")
      BY <2>4, <2>0, Moves DEF LockSpec, Places
    <3>2. Answers'
      BY <2>4, <3>1 DEF LockSpec
    <3>3. Recorded'
      BY <2>4, <3>1, <2>0, QuietStep DEF LockSpec
    <3>4. Specs'
      BY <2>4, <3>1 DEF LockSpec
    <3>5. QED BY <3>2, <3>3, <3>4
  <2>5. ASSUME NEW l \in Loops, Route(l) PROVE Answers' /\ Recorded' /\ Specs'
    <3>1. /\ loop'[l].at \in {"idle", "ask"}
          /\ loop'[l].at = "ask" => loop'[l].own = loop[l].own
          /\ \A k \in Loops \ {l} : loop'[k] = loop[k]
      BY <2>5, <2>0, Moves, Quits DEF Route, Places
    <3>2. Answers'
      BY <2>5, <3>1 DEF Route
    <3>3. Recorded'
      BY <2>5, <3>1, <2>0, QuietStep DEF Route
    <3>4. Specs'
      BY <2>5, <3>1 DEF Route
    <3>5. QED BY <3>2, <3>3, <3>4
  <2>6. ASSUME NEW l \in Loops, Ask(l) PROVE Answers' /\ Recorded' /\ Specs'
    <3>1. /\ loop'[l].at \in {"idle", "audit"}
          /\ loop'[l].at = "audit" => loop'[l].own = loop[l].own /\ answered' = answered \cup {Task(loop[l].own)}
          /\ \A k \in Loops \ {l} : loop'[k] = loop[k]
      BY <2>6, <2>0, Quits, Hears DEF Ask
    <3>2. Answers'
      BY <2>6, <3>1 DEF Ask
    <3>3. Recorded'
      BY <2>6, <3>1, <2>0, QuietStep DEF Ask
    <3>4. Specs'
      BY <2>6, <3>1 DEF Ask
    <3>5. QED BY <3>2, <3>3, <3>4
  <2>7. ASSUME NEW l \in Loops, Audit(l) PROVE Answers' /\ Recorded' /\ Specs'
    <3>1. /\ loop'[l].at \in {"node", "fail"} /\ loop'[l].own = loop[l].own
          /\ \A k \in Loops \ {l} : loop'[k] = loop[k]
      BY <2>7, <2>0, Moves DEF Audit, Places
    <3>2. Answers'
      BY <2>7, <3>1 DEF Audit
    <3>3. Recorded'
      BY <2>7, <3>1, <2>0, QuietStep DEF Audit
    <3>4. Specs'
      BY <2>7, <3>1 DEF Audit
    <3>5. QED BY <3>2, <3>3, <3>4
  <2>8. ASSUME NEW l \in Loops, WriteNode(l) PROVE Answers' /\ Recorded' /\ Specs'
    <3>1. Moved(l, "read")
      BY <2>8, <2>0, Moves DEF WriteNode, Places
    <3>2. Answers'
      BY <2>8, <3>1 DEF WriteNode
    <3>3. Recorded'
      BY <2>8, <3>1, <2>0, QuietStep DEF WriteNode, AllNotes
    <3>4. Specs'
      BY <2>8, <3>1 DEF WriteNode
    <3>5. QED BY <3>2, <3>3, <3>4
  <2>9. ASSUME NEW l \in Loops, ReadNote(l) PROVE Answers' /\ Recorded' /\ Specs'
    <3>1. /\ loop'[l].at \in {"mark", "record"} /\ loop'[l].own = loop[l].own
          /\ loop'[l].copy = note[loop[l].own.note]
          /\ \A k \in Loops \ {l} : loop'[k] = loop[k]
      <4> DEFINE content == note[loop[l].own.note]
                 place == IF content.tag = "active" THEN "mark" ELSE "record"
      <4>1. content \in Content /\ place \in Places /\ place \in {"mark", "record"}
        BY <2>9, <2>0 DEF ReadNote, CapsuleIsTaken, Capsules, Places
      <4>2. ReadTo(l, place, content)
        BY <2>9 DEF ReadNote, ReadTo
      <4>3. /\ loop'[l].at = place /\ loop'[l].own = loop[l].own /\ loop'[l].copy = content
            /\ \A k \in Loops \ {l} : loop'[k] = loop[k]
        <5> HIDE DEF place, content
        <5>1. QED BY <2>0, <4>1, <4>2, Reads
      <4>4. QED BY <4>1, <4>3
    <3>a. loop[l].at = "read" /\ UNCHANGED <<files, texts, runs, history>>
      BY <2>9 DEF ReadNote
    <3>2. Answers'
      BY <3>1, <3>a DEF Task
    <3>3. Recorded'
      BY <2>9, <3>1, <2>0, QuietStep DEF ReadNote
    <3>4. Specs'
      BY <3>1, <3>a
    <3>5. QED BY <3>2, <3>3, <3>4
  <2>10. ASSUME NEW l \in Loops, MarkComplete(l) PROVE Answers' /\ Recorded' /\ Specs'
    <3>1. Moved(l, "record")
      BY <2>10, <2>0, Moves DEF MarkComplete, Places
    <3>a. loop[l].own.note \in AllNotes /\ loop[l].copy \in Content
      BY <2>0, <2>10 DEF MarkComplete, CapsuleIsTaken, Capsules, Run
    <3>b. /\ note'[loop[l].own.note].text = loop[l].copy.text
          /\ \A n \in Notes : n # loop[l].own.note => note'[n] = note[n]
      BY <2>0, <2>10, <3>a, Tagged DEF MarkComplete, AllNotes, Tags
    <3>2. Answers'
      BY <2>10, <3>1, <3>b DEF MarkComplete, Task
    <3>3. Recorded'
      <4>1. \A n, t : OnRecord(n, t) => OnRecord(n, t)'
        BY <2>10, <3>1, RecordStays DEF MarkComplete
      <4>3. \A n, t : n = loop[l].own.note => OnRecord(n, t)'
        BY <3>1 DEF OnRecord
      <4>4. CompletedIsOnRecord'
        <5>1. ASSUME NEW n \in Notes, NEW t, n # loop[l].own.note, t = note[n].text, note[n].tag = "complete"
              PROVE  OnRecord(n, t)'
          BY <4>1, <5>1 DEF Recorded, CompletedIsOnRecord
        <5>2. ASSUME NEW n \in Notes, NEW t, note'[n].tag = "complete", t = note'[n].text
              PROVE  OnRecord(n, t)'
          BY <3>b, <4>3, <5>1, <5>2
        <5>3. QED BY <5>2 DEF CompletedIsOnRecord
      <4>5. FlagsAreOnRecord'
        BY <3>1, <4>1 DEF Recorded, FlagsAreOnRecord
      <4>6. QED BY <4>4, <4>5 DEF Recorded
    <3>4. Specs'
      BY <2>10, <3>1 DEF MarkComplete
    <3>5. QED BY <3>2, <3>3, <3>4
  <2>11. ASSUME NEW l \in Loops, Record(l) PROVE Answers' /\ Recorded' /\ Specs'
    <3>1. /\ loop'[l].at = "idle"
          /\ \A k \in Loops \ {l} : loop'[k] = loop[k]
      BY <2>11, <2>0, Quits DEF Record
    <3>2. Answers'
      BY <2>11, <3>1 DEF Record
    <3>3. Recorded'
      <4>1. ASSUME NEW n \in Notes, NEW t, OnRecord(n, t), loop[l].own.note # n \/ loop[l].own.text = t
            PROVE  OnRecord(n, t)'
        <5>1. CASE \E r \in records : r.task = <<n, t>>
          BY <2>11, <5>1 DEF Record, OnRecord
        <5>2. ASSUME NEW k \in Loops, loop[k].at = "record", loop[k].own.note = n, k # l
              PROVE  OnRecord(n, t)'
          BY <3>1, <5>2 DEF OnRecord
        <5>3. CASE loop[l].own.note = n
          <6> DEFINE new == [task |-> Task(loop[l].own), spec |-> spec]
          <6>1. new \in records' /\ new.task = <<n, t>>
            BY <2>11, <4>1, <5>3 DEF Record, Task
          <6>2. QED BY <6>1 DEF OnRecord
        <5>4. CASE n \in raced \cup cut
          BY <2>11, <5>4 DEF Record, OnRecord
        <5>5. QED BY <4>1, <5>1, <5>2, <5>3, <5>4 DEF OnRecord
      <4>2. \A n \in Notes : loop[l].own.note = n => n \in raced \/ note[n].text = loop[l].own.text
        BY <2>11 DEF Record
      <4>3. \A n, t : n \in raced => OnRecord(n, t)'
        BY <2>11 DEF Record, OnRecord
      <4>4. CompletedIsOnRecord'
        <5>1. ASSUME NEW n \in Notes, NEW t, t = note[n].text, note[n].tag = "complete" PROVE OnRecord(n, t)'
          <6>1. OnRecord(n, t)
            BY <5>1 DEF Recorded, CompletedIsOnRecord
          <6>2. n \in raced \/ loop[l].own.note # n \/ loop[l].own.text = t
            BY <4>2, <5>1
          <6>3. QED BY <4>1, <4>3, <6>1, <6>2
        <5>2. QED BY <2>11, <5>1 DEF Record, CompletedIsOnRecord
      <4>5. ASSUME NEW k \in Loops, NEW n \in Notes, NEW t, loop'[k].at = "flag",
                   loop'[k].own.note = n, loop'[k].copy.tag = "complete", loop'[k].copy.text = t
            PROVE  OnRecord(n, t)'
        <5>1. k # l /\ loop'[k] = loop[k]
          BY <3>1, <4>5
        <5>2. n \in raced \/ (note[n].text = loop[k].own.text /\ loop[k].copy.text = loop[k].own.text)
          BY <4>5, <5>1
        <5>3. OnRecord(n, t)
          BY <4>5, <5>1 DEF Recorded, FlagsAreOnRecord
        <5>4. n \in raced \/ loop[l].own.note # n \/ loop[l].own.text = t
          BY <4>2, <4>5, <5>1, <5>2
        <5>5. QED BY <4>1, <4>3, <5>3, <5>4
      <4>6. FlagsAreOnRecord'
        BY <4>5 DEF FlagsAreOnRecord
      <4>7. QED BY <4>4, <4>6 DEF Recorded
    <3>4. Specs'
      BY <2>11, <3>1 DEF Record
    <3>5. QED BY <3>2, <3>3, <3>4
  <2>12. ASSUME NEW l \in Loops, ReadFailed(l) PROVE Answers' /\ Recorded' /\ Specs'
    <3>1. /\ loop'[l].at = "flag" /\ loop'[l].own = loop[l].own
          /\ loop'[l].copy = note[loop[l].own.note]
          /\ \A k \in Loops \ {l} : loop'[k] = loop[k]
      <4>1. note[loop[l].own.note] \in Content /\ "flag" \in Places
        BY <2>12, <2>0 DEF ReadFailed, CapsuleIsTaken, Capsules, Places
      <4>2. ReadTo(l, "flag", note[loop[l].own.note])
        BY <2>12 DEF ReadFailed, ReadTo
      <4>3. QED BY <2>0, <4>1, <4>2, Reads
    <3>a. loop[l].at = "fail" /\ UNCHANGED <<files, texts, runs, history>>
      BY <2>12 DEF ReadFailed
    <3>2. Answers'
      BY <3>1, <3>a DEF Task
    <3>3. Recorded'
      <4>1. \A n, t : OnRecord(n, t) => OnRecord(n, t)'
        BY <2>12, <3>1, RecordStays DEF ReadFailed
      <4>2. CompletedIsOnRecord'
        BY <2>12, <4>1 DEF ReadFailed, Recorded, CompletedIsOnRecord
      <4>3. FlagsAreOnRecord'
        BY <3>1, <4>1 DEF Recorded, FlagsAreOnRecord, CompletedIsOnRecord
      <4>4. QED BY <4>2, <4>3 DEF Recorded
    <3>4. Specs'
      BY <3>1, <3>a
    <3>5. QED BY <3>2, <3>3, <3>4
  <2>13. ASSUME NEW l \in Loops, MarkFailed(l) PROVE Answers' /\ Recorded' /\ Specs'
    <3>1. /\ loop'[l].at = "idle"
          /\ \A k \in Loops \ {l} : loop'[k] = loop[k]
      BY <2>13, <2>0, Quits DEF MarkFailed
    <3>a. loop[l].own.note \in AllNotes /\ loop[l].copy \in Content
      BY <2>0, <2>13 DEF MarkFailed, CapsuleIsTaken, Capsules, Run
    <3>b. /\ note'[loop[l].own.note].text = loop[l].copy.text
          /\ note'[loop[l].own.note].tag = "complete" => loop[l].copy.tag = "complete"
          /\ \A n \in Notes : n # loop[l].own.note => note'[n] = note[n]
      BY <2>0, <2>13, <3>a DEF MarkFailed, AllNotes, Tags, Content
    <3>2. Answers'
      BY <2>13, <3>1, <3>b DEF MarkFailed, Task
    <3>3. Recorded'
      <4>1. \A n, t : OnRecord(n, t) => OnRecord(n, t)'
        BY <2>13, <3>1, RecordStays DEF MarkFailed
      <4>2. ASSUME NEW n \in Notes, NEW t, note'[n].tag = "complete", note'[n].text = t PROVE OnRecord(n, t)'
        <5>1. OnRecord(n, t)
          BY <2>13, <3>b, <4>2 DEF MarkFailed, Recorded, FlagsAreOnRecord, CompletedIsOnRecord
        <5>2. QED BY <4>1, <5>1
      <4>3. CompletedIsOnRecord'
        BY <4>2 DEF CompletedIsOnRecord
      <4>4. FlagsAreOnRecord'
        BY <3>1, <4>1 DEF Recorded, FlagsAreOnRecord
      <4>5. QED BY <4>3, <4>4 DEF Recorded
    <3>4. Specs'
      BY <2>13, <3>1 DEF MarkFailed
    <3>5. QED BY <3>2, <3>3, <3>4
  <2>14. ASSUME NEW l \in Loops, Die(l) PROVE Answers' /\ Recorded' /\ Specs'
    <3>1. /\ loop'[l].at = "idle"
          /\ \A k \in Loops \ {l} : loop'[k] = loop[k]
      BY <2>14, <2>0, Quits DEF Die
    <3>2. Answers'
      BY <2>14, <3>1 DEF Die
    <3>3. Recorded'
      <4>1. \A n, t : OnRecord(n, t) => OnRecord(n, t)'
        BY <2>14, <3>1 DEF Die, OnRecord
      <4>2. QED BY <2>14, <3>1, <4>1 DEF Die, Recorded, FlagsAreOnRecord, CompletedIsOnRecord
    <3>4. Specs'
      BY <2>14, <3>1 DEF Die
    <3>5. QED BY <3>2, <3>3, <3>4
  <2>15. CASE UNCHANGED vars
    BY <2>15 DEF vars, Recorded, FlagsAreOnRecord, CompletedIsOnRecord, OnRecord
  <2>16. QED
    BY <2>1, <2>2, <2>3, <2>4, <2>5, <2>6, <2>7, <2>8, <2>9, <2>10, <2>11, <2>12, <2>13, <2>14,
       <2>15
       DEF Next, LoopStep
<1>3. QED BY <1>1, <1>2, TypeInvariant, PTL DEF Spec, IInv

\* RecordsAreSound: notes, shared files and runs keep their types, and a record names the
\* spec locked for its own task as long as runs do not overlap.
THEOREM RecordsSound == Spec => []RecordsAreSound
  BY InductiveInvariant, PTL DEF IInv, Typed, Specs, RecordsAreSound

\* CompletedWasAnswered: a note marked complete says what the model was asked, however
\* many runs share the capsule and the spec file.
THEOREM CompleteMeansAnswered == Spec => []CompletedWasAnswered
  BY InductiveInvariant, PTL DEF IInv, Answers

\* CompletedIsOnRecord: a note marked complete has a record for review, or its run is
\* about to leave one, or died.
THEOREM CompleteMeansOnRecord == Spec => []CompletedIsOnRecord
  BY InductiveInvariant, PTL DEF IInv, Recorded
=============================================================================
