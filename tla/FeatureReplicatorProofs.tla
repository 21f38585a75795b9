----------------------- MODULE FeatureReplicatorProofs -----------------------
(***************************************************************************)
(* Theorems about FeatureReplicator, for any files, templates, commands and  *)
(* limits.  The argument for the rollback: a file of a target that is not    *)
(* excused is as the target found it, or its backup is.  The argument for    *)
(* the backups: each has a command with a place before it among its own.     *)
(* The argument for the count: as long as commands run one at a time, the    *)
(* failures are those of the entry, of the command, and the lost ones.       *)
(***************************************************************************)
EXTENDS FeatureReplicator, TLAPS

\* Where a command is in its targets, hunks and backups.
StandIsSound(c) ==
  /\ At(c, "idle") => cmd[c] = Idle
  /\ cmd[c].target <= cmd[c].targets
  /\ cmd[c].succeeded + (IF Trying(c) THEN 1 ELSE 0) <= cmd[c].target
  /\ At(c, "next") \/ InTarget(c) => cmd[c].targets > 0
  /\ cmd[c].at \in {"hunk", "write"} => cmd[c].pos \in 1..Len(hunks) + 1
  /\ At(c, "write") => cmd[c].pos <= Len(hunks) /\ File(c) \in Listed(c)
  /\ cmd[c].at \in {"clean", "look"} => cmd[c].pos \in 1..Len(cmd[c].backups) + 1
  /\ cmd[c].at \in {"copy", "unlink"} => cmd[c].pos \in 1..Len(cmd[c].backups)
  /\ ~Trying(c) => cmd[c].backups = <<>>
  /\ cmd[c].at \in {"open", "save"} => cmd[c].entry \in Entry /\ cmd[c].target = cmd[c].targets

\* The backups that are removed already, and those that are still to be.
Done(c) == {cmd[c].backups[i] : i \in 1..cmd[c].pos - 1}
Ahead(c) == IF cmd[c].at \in {"hunk", "write"} THEN Listed(c)
            ELSE {cmd[c].backups[i] : i \in cmd[c].pos..Len(cmd[c].backups)}

Restoring(c) == cmd[c].at \in {"look", "copy", "unlink"}

Kept(c, f) == backup[f] = before[c][f]
Restored(c, f) == backup[f] = NoFile /\ text[f] = before[c][f]

\* A file with a backup of c.
IsKept(c, f) ==
  /\ before[c][f] # NoFile
  /\ cmd[c].at \in {"hunk", "write"} => Kept(c, f)
  /\ At(c, "clean") => Kept(c, f) \/ f \in Done(c)
  /\ Restoring(c) => /\ Kept(c, f) \/ Restored(c, f)
                     /\ f \in Done(c) => Restored(c, f)
  /\ At(c, "unlink") /\ f = Held(c) => text[f] = before[c][f]

\* A file that is not excused is as the target found it, or has its backup.
FilesAreKept(c) ==
  InTarget(c) => \A f \in Files \ excused[c] :
    IF f \in Listed(c) THEN IsKept(c, f) ELSE text[f] = before[c][f]

Holds(c, f) == Trying(c) /\ f \in Ahead(c)

\* Every backup is stray, or has a command that will remove it.
BackupsAreHeld ==
  \A f \in Files \ stray : backup[f] # NoFile => \E c \in Commands : Holds(c, f)

OneRuns == \A c, d \in Commands : ~At(c, "idle") /\ ~At(d, "idle") => c = d

\* An entry is disabled once it has its rollbacks.
EntryIsSound(e) == ~e.disabled => e.rollback < Strikes

\* The failures are those of the entry, of the command at work, and the lost ones.
Tallied(c) ==
  /\ registry.rollback + FailedOf(c) + lost = failures
  /\ At(c, "next") \/ InTarget(c) => registry.rollback < Strikes
  /\ cmd[c].at \in {"open", "save"} =>
       IF cmd[c].targets = 0 THEN cmd[c].entry.rollback = 0
       ELSE cmd[c].entry.rollback + lost + cmd[c].missed = failures

CountsAgree ==
  \A c \in Commands : (\A d \in Commands \ {c} : At(d, "idle")) => Tallied(c)

\* The inductive invariant.
IInv == /\ TypeOK /\ BackupsAreHeld /\ EntryIsSound(registry)
        /\ \A c \in Commands : /\ StandIsSound(c) /\ FilesAreKept(c)
                               /\ cmd[c].at \in {"open", "save"} => EntryIsSound(cmd[c].entry)
        /\ ~shared => OneRuns /\ CountsAgree

----------------------------------------------------------------------------
\* The types depend on the template only.
LEMMA TypesStay ==
  ASSUME hunks' = hunks
  PROVE  Marks' = Marks /\ Texts' = Texts /\ Command' = Command
<1>1. Marks' = Marks
  BY DEF Marks
<1> QED
  BY <1>1 DEF Texts, Command

LEMMA IdleIsCommand == Idle \in Command /\ NewEntry \in Entry
<1>1. <<>> \in Seq(Files) /\ {} \in SUBSET Marks
  OBVIOUS
<1> QED
  BY <1>1, ReplicatorAssumption DEF Idle, Command, Places, Entry, NewEntry

\* A command that is assigned a record has it, and no other command is touched.
LEMMA Assigned ==
  ASSUME cmd \in [Commands -> Command], NEW c \in Commands, NEW r \in Command,
         cmd' = [cmd EXCEPT ![c] = r]
  PROVE  /\ cmd' \in [Commands -> Command] /\ cmd'[c] = r
         /\ \A d \in Commands \ {c} : cmd'[d] = cmd[d]
OBVIOUS

\* What is known of any command.
LEMMA Known ==
  ASSUME IInv, NEW c \in Commands
  PROVE  /\ cmd[c] \in Command /\ StandIsSound(c) /\ FilesAreKept(c)
         /\ hunks \in Seq(Files) /\ Len(hunks) \in Nat
         /\ cmd[c].backups \in Seq(Files) /\ Len(cmd[c].backups) \in Nat /\ cmd[c].pos \in Nat
         /\ \A i \in 1..Len(cmd[c].backups) : cmd[c].backups[i] \in Files
         /\ cmd[c].target \in Nat /\ cmd[c].targets \in Nat /\ cmd[c].succeeded \in Nat
         /\ excused[c] \subseteq Files
         /\ registry \in Entry /\ registry.rollback \in Nat /\ failures \in Nat /\ lost \in Nat
BY ReplicatorAssumption DEF IInv, TypeOK, Command, Entry

----------------------------------------------------------------------------
\* The files of d are left alone, or it has an excuse.
Spared(d) == /\ before'[d] = before[d] /\ excused[d] \subseteq excused'[d]
             /\ InTarget(d) => \A f \in Files \ excused'[d] : text'[f] = text[f] /\ backup'[f] = backup[f]

\* What a step of c has to show of a state that no two commands share.
Counts(c) == ~shared' => /\ ~shared /\ \A d \in Commands \ {c} : At(d, "idle")
                         /\ Tallied(c)'

\* A command that runs, unshared, runs alone, and its counts agree.
LEMMA RunsAlone ==
  ASSUME IInv, NEW c \in Commands, ~At(c, "idle"), ~shared
  PROVE  (\A d \in Commands \ {c} : At(d, "idle")) /\ Tallied(c)
BY DEF IInv, OneRuns, CountsAgree, At

\* The backups keep their holders, if c keeps those that it has.
LEMMA HoldersStay ==
  ASSUME IInv, NEW c \in Commands, stray \subseteq stray',
         \A d \in Commands \ {c} : cmd'[d] = cmd[d],
         \A f \in Files \ stray' : backup'[f] # NoFile =>
           /\ backup[f] # NoFile \/ Holds(c, f)'
           /\ Holds(c, f) => Holds(c, f)'
  PROVE  BackupsAreHeld'
<1> SUFFICES ASSUME NEW f \in Files \ stray', backup'[f] # NoFile
             PROVE  \E d \in Commands : Holds(d, f)'
  BY DEF BackupsAreHeld
<1>1. CASE Holds(c, f)'
  BY <1>1
<1>2. CASE ~Holds(c, f)'
  <2>1. PICK d \in Commands : Holds(d, f)
    BY <1>2 DEF IInv, BackupsAreHeld
  <2>2. d # c
    BY <1>2, <2>1
  <2>3. cmd'[d] = cmd[d]
    BY <2>2
  <2> QED
    BY <2>1, <2>3 DEF Holds, Trying, Ahead, Listed
<1> QED
  BY <1>1, <1>2

\* A step of c keeps the invariant if it does so for c and spares the others.
LEMMA StepOfOne ==
  ASSUME IInv, NEW c \in Commands, TypeOK', hunks' = hunks,
         \A d \in Commands \ {c} : cmd'[d] = cmd[d] /\ Spared(d),
         StandIsSound(c)', FilesAreKept(c)', BackupsAreHeld', EntryIsSound(registry)',
         cmd'[c].at \in {"open", "save"} => EntryIsSound(cmd'[c].entry), Counts(c)
  PROVE  IInv'
<1>1. ASSUME NEW d \in Commands \ {c}
      PROVE  /\ StandIsSound(d)' /\ FilesAreKept(d)'
             /\ cmd'[d].at \in {"open", "save"} => EntryIsSound(cmd'[d].entry)
  <2>1. cmd'[d] = cmd[d] /\ hunks' = hunks /\ Spared(d) /\ StandIsSound(d) /\ FilesAreKept(d)
        /\ (cmd[d].at \in {"open", "save"} => EntryIsSound(cmd[d].entry))
    BY DEF IInv
  <2>2. StandIsSound(d)'
    BY <2>1 DEF StandIsSound, At, File, Listed, Trying, InTarget
  <2>3. FilesAreKept(d)'
    <3> SUFFICES ASSUME InTarget(d)', NEW f \in Files \ excused'[d]
                 PROVE  IF f \in Listed(d)' THEN IsKept(d, f)' ELSE text'[f] = before'[d][f]
      BY DEF FilesAreKept
    <3>1. InTarget(d) /\ f \notin excused[d] /\ Listed(d)' = Listed(d)
      BY <2>1 DEF InTarget, Trying, At, Spared, Listed
    <3>2. text'[f] = text[f] /\ backup'[f] = backup[f] /\ before'[d] = before[d]
      BY <2>1, <3>1 DEF Spared
    <3>3. IF f \in Listed(d) THEN IsKept(d, f) ELSE text[f] = before[d][f]
      BY <2>1, <3>1 DEF FilesAreKept
    <3> QED
      BY <2>1, <3>1, <3>2, <3>3 DEF IsKept, Kept, Restored, Restoring, Done, Held, At
  <2> QED
    BY <2>1, <2>2, <2>3
<1>2. ASSUME ~shared'
      PROVE  OneRuns' /\ CountsAgree'
  <2>1. /\ \A d \in Commands \ {c} : At(d, "idle") /\ At(d, "idle")' /\ cmd'[d] = Idle
        /\ Tallied(c)'
    BY <1>2, Known DEF Counts, At, StandIsSound
  <2>2. ASSUME NEW d \in Commands \ {c}, At(c, "idle")'
        PROVE  Tallied(d)'
    <3>1. cmd'[c] = Idle /\ cmd'[d] = Idle
      BY <2>1, <2>2 DEF StandIsSound
    <3> QED
      BY <2>1, <3>1 DEF Tallied, FailedOf, Trying, InTarget, At, Idle
  <2>3. OneRuns'
    BY <2>1 DEF OneRuns, At
  <2>4. CountsAgree'
    BY <2>1, <2>2 DEF CountsAgree
  <2> QED
    BY <2>3, <2>4
<1> QED
  BY <1>1, <1>2 DEF IInv

\* What Crosses leaves to the others.
LEMMA CrossesSpares ==
  ASSUME TypeOK, NEW c \in Commands, NEW f \in Files
  PROVE  /\ Crosses(c, f) \in [Commands -> SUBSET Files] /\ Crosses(c, f)[c] = excused[c]
         /\ \A d \in Commands : /\ excused[d] \subseteq Crosses(c, f)[d]
                                /\ d # c /\ InTarget(d) => f \in Crosses(c, f)[d]
BY DEF TypeOK, Crosses

----------------------------------------------------------------------------
(* Steps within a target. *)

Tries == {"hunk", "write", "clean", "look", "copy", "unlink"}

\* c goes to another place of its target, with these backups, ...
Moves(c, place, n, list) == \E marks \in SUBSET Marks, raised \in BOOLEAN :
  cmd' = [cmd EXCEPT ![c] = [cmd[c] EXCEPT !.at = place, !.pos = n, !.source = marks,
                                           !.backups = list, !.again = raised]]

\* ... and the place agrees with the hunks and with them, ...
Fits(place, n, list) ==
  /\ place \in {"hunk", "write"} => n \in 1..Len(hunks) + 1
  /\ place = "write" => n <= Len(hunks) /\ hunks[n] \in {list[i] : i \in 1..Len(list)}
  /\ place \in {"clean", "look"} => n \in 1..Len(list) + 1
  /\ place \in {"copy", "unlink"} => n \in 1..Len(list)

\* ... while the registry and the history of the counts stay as they are.
Within == UNCHANGED <<registryVars, hunks, runs, begun, edits, before, shared, tally>>

LEMMA MovedFields ==
  ASSUME IInv, NEW c \in Commands, NEW place \in Tries, NEW n \in Nat,
         NEW list \in Seq(Files), Moves(c, place, n, list)
  PROVE  /\ cmd' \in [Commands -> Command] /\ \A d \in Commands \ {c} : cmd'[d] = cmd[d]
         /\ cmd'[c].at = place /\ cmd'[c].pos = n
         /\ cmd'[c].backups = list /\ cmd'[c].target = cmd[c].target
         /\ cmd'[c].targets = cmd[c].targets /\ cmd'[c].succeeded = cmd[c].succeeded
<1> PICK marks \in SUBSET Marks, raised \in BOOLEAN :
      cmd' = [cmd EXCEPT ![c] = [cmd[c] EXCEPT !.at = place, !.pos = n, !.source = marks,
                                               !.backups = list, !.again = raised]]
  BY DEF Moves
<1> DEFINE r == [cmd[c] EXCEPT !.at = place, !.pos = n, !.source = marks, !.backups = list,
                               !.again = raised]
<1>1. cmd[c] \in Command /\ place \in Places
  BY Known DEF Tries, Places
<1>2. r \in Command
  BY <1>1 DEF Command
<1>3. cmd' \in [Commands -> Command] /\ cmd'[c] = r /\ \A d \in Commands \ {c} : cmd'[d] = cmd[d]
  BY <1>2, Assigned DEF IInv, TypeOK
<1> QED
  BY <1>1, <1>3 DEF Command

\* Such a step has to answer for the files and the backups only.
LEMMA MoveKeeps ==
  ASSUME IInv, NEW c \in Commands, Trying(c), NEW place \in Tries, NEW n \in Nat,
         NEW list \in Seq(Files), Moves(c, place, n, list), Fits(place, n, list), Within,
         text' \in [Files -> Texts], backup' \in [Files -> Texts],
         excused' \in [Commands -> SUBSET Files], stray' \subseteq Files,
         FilesAreKept(c)', BackupsAreHeld', \A d \in Commands \ {c} : Spared(d)
  PROVE  IInv'
<1>1. /\ cmd' \in [Commands -> Command] /\ \A d \in Commands \ {c} : cmd'[d] = cmd[d]
      /\ cmd'[c].at = place /\ cmd'[c].pos = n /\ cmd'[c].backups = list
      /\ cmd'[c].target = cmd[c].target /\ cmd'[c].targets = cmd[c].targets
      /\ cmd'[c].succeeded = cmd[c].succeeded
  BY MovedFields
<1>2. /\ hunks' = hunks /\ registry' = registry /\ torn' = torn /\ before' = before
      /\ runs' = runs /\ begun' = begun /\ edits' = edits
      /\ shared' = shared /\ failures' = failures /\ lost' = lost
  BY DEF Within, registryVars, tally
<1>3. TypeOK'
  BY <1>1, <1>2, TypesStay DEF IInv, TypeOK
<1>4. Trying(c)' /\ InTarget(c) /\ ~At(c, "idle")
  BY <1>1 DEF Trying, Tries, InTarget, At
<1>5. StandIsSound(c)'
  <2>1. StandIsSound(c)
    BY Known
  <2>2. /\ cmd[c].succeeded + 1 <= cmd[c].target /\ cmd[c].target <= cmd[c].targets
        /\ cmd[c].targets > 0
    BY <1>4, <2>1 DEF StandIsSound
  <2>3. /\ Listed(c)' = {list[i] : i \in 1..Len(list)}
        /\ At(c, "write")' => File(c)' = hunks[n]
    BY <1>1, <1>2 DEF Listed, File
  <2> QED
    BY <1>1, <1>2, <1>4, <2>2, <2>3 DEF StandIsSound, Fits, At, Tries
<1>6. Counts(c)
  <2> SUFFICES ASSUME ~shared' PROVE Counts(c)
    BY DEF Counts
  <2>1. ~shared /\ (\A d \in Commands \ {c} : At(d, "idle")) /\ Tallied(c)
    BY <1>2, <1>4, RunsAlone
  <2>2. FailedOf(c)' = FailedOf(c)
    BY <1>1, <1>4 DEF FailedOf
  <2> QED
    BY <1>1, <1>2, <1>4, <2>1, <2>2 DEF Counts, Tallied, InTarget, At, Tries
<1> QED
  BY <1>1, <1>2, <1>3, <1>5, <1>6, StepOfOne DEF IInv, Tries

Recovers(c) == Recover(c, TRUE) \/ Recover(c, FALSE)

\* An exception, or a failed validation: whatever the step did to the files, each has
\* its backup or is as it was.
LEMMA RecoverKeeps ==
  ASSUME IInv, NEW c \in Commands, Trying(c), Recovers(c), Within,
         text' \in [Files -> Texts], backup' \in [Files -> Texts],
         excused' \in [Commands -> SUBSET Files], stray \subseteq stray', stray' \subseteq Files,
         \A d \in Commands \ {c} : Spared(d),
         \A f \in Files \ excused'[c] :
           IF f \in Listed(c)
           THEN /\ before[c][f] # NoFile
                /\ \/ backup'[f] = before[c][f]
                   \/ backup'[f] = NoFile /\ text'[f] = before[c][f]
           ELSE text'[f] = before[c][f],
         \A f \in Files \ stray' : backup'[f] # NoFile => backup[f] # NoFile \/ f \in Listed(c)
  PROVE  IInv'
<1> DEFINE list == cmd[c].backups
<1>1. cmd[c] \in Command /\ list \in Seq(Files) /\ Len(list) \in Nat /\ before' = before
  BY Known DEF Within
<1>2. Moves(c, "look", 1, list)
  <2>1. ASSUME NEW raised \in BOOLEAN, Recover(c, raised)
        PROVE  Moves(c, "look", 1, list)
    <3>1. cmd' = [cmd EXCEPT ![c] = [cmd[c] EXCEPT !.at = "look", !.pos = 1, !.source = {},
                                                   !.backups = list, !.again = raised]]
      BY <1>1, <2>1 DEF Recover, Command, IInv, TypeOK
    <3> QED
      BY <3>1 DEF Moves
  <2> QED
    BY <2>1 DEF Recovers
<1>3. /\ \A d \in Commands \ {c} : cmd'[d] = cmd[d]
      /\ cmd'[c].at = "look" /\ cmd'[c].pos = 1 /\ cmd'[c].backups = list
  BY <1>1, <1>2, MovedFields DEF Tries
<1>4. Listed(c)' = Listed(c) /\ Done(c)' = {} /\ Ahead(c)' = Listed(c)
  BY <1>1, <1>3 DEF Listed, Done, Ahead
<1>5. FilesAreKept(c)'
  BY <1>1, <1>3, <1>4 DEF FilesAreKept, IsKept, Kept, Restored, Restoring, At
<1>6. \A f \in Files : Holds(c, f) => f \in Listed(c)
  BY Known DEF Holds, Ahead, Listed, StandIsSound, Trying
<1>7. BackupsAreHeld'
  <2>1. \A f \in Files : f \in Listed(c) => Holds(c, f)'
    BY <1>3, <1>4 DEF Holds, Trying
  <2> QED
    BY <1>3, <1>6, <2>1, HoldersStay
<1>8. Fits("look", 1, list)
  BY <1>1 DEF Fits
<1> QED
  BY <1>1, <1>2, <1>5, <1>7, <1>8, MoveKeeps DEF Tries

\* A step that only looks has to answer for the backups that it passes.
LEMMA StillKeeps ==
  ASSUME IInv, NEW c \in Commands, Trying(c), NEW place \in Tries, NEW n \in Nat,
         Moves(c, place, n, cmd[c].backups), Fits(place, n, cmd[c].backups),
         UNCHANGED <<fileVars, registryVars, hunks, runs, begun, edits, history>>,
         \A f \in Files \ excused[c] : f \in Listed(c) => IsKept(c, f)',
         \A f \in Files : Holds(c, f) /\ backup[f] # NoFile => Holds(c, f)'
  PROVE  IInv'
<1>1. Within /\ UNCHANGED <<text, backup, before, excused, stray>>
  BY DEF Within, fileVars, history
<1>2. /\ cmd[c].backups \in Seq(Files) /\ FilesAreKept(c)
      /\ \A d \in Commands \ {c} : cmd'[d] = cmd[d]
      /\ cmd'[c].backups = cmd[c].backups
  BY Known, MovedFields
<1>3. FilesAreKept(c)'
  BY <1>1, <1>2 DEF FilesAreKept, Listed, InTarget
<1>4. BackupsAreHeld'
  BY <1>1, <1>2, HoldersStay
<1>5. \A d \in Commands \ {c} : Spared(d)
  BY <1>1 DEF Spared
<1> QED
  BY <1>1, <1>2, <1>3, <1>4, <1>5, MoveKeeps DEF IInv, TypeOK

LEMMA PassOverKeeps == ASSUME IInv, NEW c \in Commands, PassOver(c) PROVE IInv'
<1> DEFINE list == cmd[c].backups
<1>1. cmd[c] \in Command /\ StandIsSound(c) /\ FilesAreKept(c) /\ Len(hunks) \in Nat /\ Len(list) \in Nat
      /\ list \in Seq(Files)
  BY Known
<1>2. At(c, "hunk") /\ cmd[c].pos \in 1..Len(hunks)
  BY <1>1 DEF PassOver, Left, StandIsSound, At
<1>3. Moves(c, "hunk", cmd[c].pos + 1, list)
  <2>1. cmd' = [cmd EXCEPT ![c] = [cmd[c] EXCEPT !.at = "hunk", !.pos = cmd[c].pos + 1,
                 !.source = cmd[c].source, !.backups = list, !.again = cmd[c].again]]
    BY <1>1, <1>2 DEF PassOver, Command, IInv, TypeOK, At
  <2> QED
    BY <1>1, <2>1 DEF Moves, Command
<1>4. cmd'[c].at = "hunk" /\ cmd'[c].backups = list
  BY <1>1, <1>2, <1>3, MovedFields DEF Tries
<1>5. Trying(c) /\ Fits("hunk", cmd[c].pos + 1, list)
  BY <1>2 DEF Trying, Fits, At
<1>6. \A f \in Files \ excused[c] : f \in Listed(c) => IsKept(c, f)'
  BY <1>1, <1>2, <1>4, <1>5 DEF FilesAreKept, InTarget, IsKept, Kept, Restoring, At, PassOver, fileVars, history
<1>7. \A f \in Files : Holds(c, f) => Holds(c, f)'
  BY <1>2, <1>4 DEF Holds, Ahead, Trying, Listed, At
<1> QED
  BY <1>2, <1>3, <1>5, <1>6, <1>7, StillKeeps DEF PassOver, Tries

\* The backup of a file that is not excused is the file as the target found it.
LEMMA BackupKeeps == ASSUME IInv, NEW c \in Commands, Backup(c) PROVE IInv'
<1> DEFINE list == cmd[c].backups
           f == File(c)
<1>1. /\ cmd[c] \in Command /\ StandIsSound(c) /\ FilesAreKept(c) /\ TypeOK
      /\ Len(hunks) \in Nat /\ hunks \in Seq(Files) /\ list \in Seq(Files) /\ Len(list) \in Nat
  BY Known DEF IInv
<1>2. At(c, "hunk") /\ cmd[c].pos \in 1..Len(hunks) /\ text[f] # NoFile
  BY <1>1 DEF Backup, Left, StandIsSound, At
<1>3. f \in Files /\ f = hunks[cmd[c].pos]
  BY <1>1, <1>2 DEF File
<1>4. PICK copied \in {text[f], {}} :
        /\ backup' = [backup EXCEPT ![f] = copied]
        /\ excused' = [Crosses(c, f) EXCEPT ![c] = IF copied # before[c][f] THEN @ \cup {f} ELSE @]
        /\ \/ /\ copied = text[f] /\ UNCHANGED stray
              /\ cmd' = [cmd EXCEPT ![c].at = "write", ![c].backups = Append(@, f),
                                    ![c].source = text[f]]
           \/ Recover(c, TRUE) /\ stray' = stray \cup {f}
  BY DEF Backup
<1>5. copied \in SUBSET Marks /\ copied \in Texts /\ text[f] \in SUBSET Marks /\ text[f] \in Texts
  BY <1>1, <1>2, <1>3 DEF TypeOK, Texts
<1> HIDE DEF f
<1>6. /\ backup' \in [Files -> Texts] /\ backup'[f] = copied
      /\ \A g \in Files \ {f} : backup'[g] = backup[g]
  BY <1>1, <1>3, <1>4, <1>5 DEF TypeOK
<1>7. /\ excused' \in [Commands -> SUBSET Files] /\ excused[c] \subseteq excused'[c]
      /\ f \notin excused'[c] => copied = before[c][f]
      /\ \A d \in Commands \ {c} : /\ excused[d] \subseteq excused'[d]
                                   /\ InTarget(d) => f \in excused'[d]
  <2> DEFINE K == Crosses(c, f)
  <2>1. /\ K \in [Commands -> SUBSET Files] /\ K[c] = excused[c]
        /\ \A d \in Commands : excused[d] \subseteq K[d] /\ (d # c /\ InTarget(d) => f \in K[d])
    BY <1>1, <1>3, CrossesSpares
  <2>2. excused' = [K EXCEPT ![c] = IF copied # before[c][f] THEN @ \cup {f} ELSE @]
    BY <1>4
  <2> HIDE DEF K
  <2> QED
    BY <1>3, <2>1, <2>2
<1>8. /\ Within /\ text' = text /\ text' \in [Files -> Texts] /\ before' = before
      /\ Trying(c) /\ InTarget(c)
  BY <1>1, <1>2 DEF Backup, Within, TypeOK, Trying, InTarget, At
<1>9. \A d \in Commands \ {c} : Spared(d)
  BY <1>6, <1>7, <1>8 DEF Spared
<1>10. CASE Recover(c, TRUE) /\ stray' = stray \cup {f}
  <2>1. \A g \in Files \ excused'[c] :
           IF g \in Listed(c)
           THEN /\ before[c][g] # NoFile
                /\ \/ backup'[g] = before[c][g]
                   \/ backup'[g] = NoFile /\ text'[g] = before[c][g]
           ELSE text'[g] = before[c][g]
    BY <1>1, <1>2, <1>6, <1>7, <1>8 DEF FilesAreKept, IsKept, Kept, At
  <2>2. \A g \in Files \ stray' : backup'[g] # NoFile => backup[g] # NoFile
    BY <1>6, <1>10
  <2>3. stray \subseteq stray' /\ stray' \subseteq Files
    BY <1>1, <1>3, <1>10 DEF TypeOK
  <2> QED
    BY <1>6, <1>7, <1>8, <1>9, <1>10, <2>1, <2>2, <2>3, RecoverKeeps DEF Recovers
<1>11. CASE /\ copied = text[f] /\ UNCHANGED stray
            /\ cmd' = [cmd EXCEPT ![c].at = "write", ![c].backups = Append(@, f), ![c].source = text[f]]
  <2> DEFINE l2 == Append(list, f)
  <2>1. l2 \in Seq(Files) /\ Len(l2) \in Nat /\ {l2[i] : i \in 1..Len(l2)} = Listed(c) \cup {f}
    BY <1>1, <1>3 DEF Listed
  <2>2. Moves(c, "write", cmd[c].pos, l2)
    <3>1. cmd' = [cmd EXCEPT ![c] = [cmd[c] EXCEPT !.at = "write", !.pos = cmd[c].pos,
                   !.source = text[f], !.backups = l2, !.again = cmd[c].again]]
      BY <1>1, <1>11 DEF Command, TypeOK
    <3> QED
      BY <1>1, <1>5, <3>1 DEF Moves, Command
  <2> HIDE DEF l2
  <2>3. /\ \A d \in Commands \ {c} : cmd'[d] = cmd[d]
        /\ cmd'[c].at = "write" /\ cmd'[c].pos = cmd[c].pos /\ cmd'[c].backups = l2
    BY <1>1, <1>2, <2>1, <2>2, MovedFields DEF Tries
  <2>4. Fits("write", cmd[c].pos, l2)
    <3>1. hunks[cmd[c].pos] \in {l2[i] : i \in 1..Len(l2)}
      BY <1>3, <2>1
    <3>2. cmd[c].pos \in 1..Len(hunks) + 1 /\ cmd[c].pos <= Len(hunks)
      BY <1>1, <1>2
    <3> QED
      BY <3>1, <3>2 DEF Fits
  <2>5. Listed(c)' = Listed(c) \cup {f}
    BY <2>1, <2>3 DEF Listed
  <2>6. FilesAreKept(c)'
    <3> SUFFICES ASSUME NEW g \in Files \ excused'[c]
                 PROVE  IF g \in Listed(c) \cup {f}
                        THEN before[c][g] # NoFile /\ backup'[g] = before[c][g]
                        ELSE text[g] = before[c][g]
      BY <1>8, <2>3, <2>5 DEF FilesAreKept, IsKept, Kept, Restoring, At
    <3>1. CASE g = f
      BY <1>2, <1>6, <1>7, <1>11, <3>1
    <3>2. CASE g # f
      BY <1>1, <1>2, <1>6, <1>7, <1>8, <3>2 DEF FilesAreKept, IsKept, Kept, At
    <3> QED
      BY <3>1, <3>2
  <2>7. BackupsAreHeld'
    <3>1. \A g \in Files : Holds(c, g) => g \in Listed(c)
      BY <1>2 DEF Holds, Ahead, At
    <3>2. \A g \in Files : g \in Listed(c) \cup {f} => Holds(c, g)'
      BY <2>3, <2>5 DEF Holds, Ahead, Trying
    <3>3. \A g \in Files : backup'[g] # NoFile => backup[g] # NoFile \/ g = f
      BY <1>6
    <3> QED
      BY <1>11, <2>3, <3>1, <3>2, <3>3, HoldersStay
  <2>8. stray' \subseteq Files
    BY <1>1, <1>11 DEF TypeOK
  <2> QED
    <3>1. "write" \in Tries /\ cmd[c].pos \in Nat
      BY <1>1, <1>2 DEF Tries
    <3> QED
      BY <1>6, <1>7, <1>8, <1>9, <2>1, <2>2, <2>4, <2>6, <2>7, <2>8, <3>1, MoveKeeps
<1> QED
  BY <1>4, <1>10, <1>11 DEF f

\* What is written is a file with a backup.
LEMMA WriteKeeps == ASSUME IInv, NEW c \in Commands, Write(c) PROVE IInv'
<1> DEFINE list == cmd[c].backups
           f == File(c)
           mark == <<cmd[c].target, cmd[c].pos>>
<1>1. /\ cmd[c] \in Command /\ StandIsSound(c) /\ FilesAreKept(c) /\ TypeOK
      /\ Len(hunks) \in Nat /\ list \in Seq(Files) /\ Len(list) \in Nat
      /\ \A i \in 1..Len(list) : list[i] \in Files
  BY Known DEF IInv
<1>2. /\ At(c, "write") /\ cmd[c].pos \in 1..Len(hunks) /\ f \in Listed(c) /\ f \in Files
      /\ cmd[c].target \in 1..MaxTargets
  BY <1>1, ReplicatorAssumption DEF Write, StandIsSound, At, Listed, Trying, Command
<1>3. cmd[c].source \cup {mark} \in Texts /\ {} \in Texts /\ cmd[c].source \in SUBSET Marks
  BY <1>1, <1>2 DEF Texts, Marks, Command
<1> HIDE DEF f, mark
<1>4. Trying(c) /\ InTarget(c) /\ Within /\ backup' = backup /\ before' = before /\ stray' = stray
  BY <1>2 DEF Trying, InTarget, At, Write, Within
<1>5. /\ Crosses(c, f) \in [Commands -> SUBSET Files] /\ Crosses(c, f)[c] = excused[c]
      /\ \A d \in Commands : /\ excused[d] \subseteq Crosses(c, f)[d]
                             /\ d # c /\ InTarget(d) => f \in Crosses(c, f)[d]
  BY <1>1, <1>2, CrossesSpares
<1>6. /\ excused' \in [Commands -> SUBSET Files] /\ excused'[c] = excused[c]
      /\ text' \in [Files -> Texts] /\ \A g \in Files \ {f} : text'[g] = text[g]
      /\ \A d \in Commands \ {c} : excused[d] \subseteq excused'[d]
      /\ \A d \in Commands \ {c} : InTarget(d) => f \in excused'[d] \/ text' = text
  <2>1. CASE UNCHANGED <<text, excused>>
    BY <1>1, <2>1 DEF TypeOK
  <2>2. ASSUME NEW marks \in Texts, text' = [text EXCEPT ![f] = marks], excused' = Crosses(c, f)
        PROVE  /\ text' \in [Files -> Texts] /\ \A g \in Files \ {f} : text'[g] = text[g]
               /\ excused' \in [Commands -> SUBSET Files] /\ excused'[c] = excused[c]
               /\ \A d \in Commands \ {c} : excused[d] \subseteq excused'[d]
               /\ \A d \in Commands \ {c} : InTarget(d) => f \in excused'[d]
    <3>1. text' \in [Files -> Texts] /\ \A g \in Files \ {f} : text'[g] = text[g]
      BY <1>1, <2>2 DEF TypeOK
    <3> QED
      BY <1>5, <2>2, <3>1
  <2>3. \/ UNCHANGED <<text, excused>>
        \/ excused' = Crosses(c, f) /\ text' = [text EXCEPT ![f] = cmd[c].source \cup {mark}]
        \/ excused' = Crosses(c, f) /\ text' = [text EXCEPT ![f] = {}]
    BY DEF Write, f, mark
  <2> QED
    BY <1>3, <2>1, <2>2, <2>3
<1>7. \A d \in Commands \ {c} : Spared(d)
  BY <1>4, <1>6 DEF Spared
<1>8. \A g \in Files \ excused[c] :
        IF g \in Listed(c) THEN before[c][g] # NoFile /\ backup[g] = before[c][g]
        ELSE text'[g] = before[c][g]
  BY <1>1, <1>2, <1>4, <1>6 DEF FilesAreKept, IsKept, Kept, At
<1>9. CASE cmd' = [cmd EXCEPT ![c].at = "hunk", ![c].pos = @ + 1, ![c].source = {}]
  <2>1. Moves(c, "hunk", cmd[c].pos + 1, list)
    <3>1. cmd' = [cmd EXCEPT ![c] = [cmd[c] EXCEPT !.at = "hunk", !.pos = cmd[c].pos + 1,
                   !.source = {}, !.backups = list, !.again = cmd[c].again]]
      BY <1>1, <1>9 DEF Command, TypeOK
    <3> QED
      BY <1>1, <3>1 DEF Moves, Command
  <2>2. "hunk" \in Tries /\ cmd[c].pos + 1 \in Nat /\ Fits("hunk", cmd[c].pos + 1, list)
    BY <1>1, <1>2 DEF Tries, Fits
  <2>3. /\ \A d \in Commands \ {c} : cmd'[d] = cmd[d]
        /\ cmd'[c].at = "hunk" /\ cmd'[c].backups = list
    BY <1>1, <2>1, <2>2, MovedFields
  <2>4. Listed(c)' = Listed(c)
    BY <2>3 DEF Listed
  <2>5. FilesAreKept(c)'
    BY <1>4, <1>6, <1>8, <2>3, <2>4 DEF FilesAreKept, IsKept, Kept, Restoring, At
  <2>6. \A g \in Files : Holds(c, g) => Holds(c, g)'
    BY <1>2, <2>3, <2>4 DEF Holds, Ahead, Trying, At
  <2>7. BackupsAreHeld'
    BY <1>4, <2>3, <2>6, HoldersStay
  <2> QED
    BY <1>1, <1>4, <1>6, <1>7, <2>1, <2>2, <2>5, <2>7, MoveKeeps DEF TypeOK
<1>10. CASE Recover(c, TRUE)
  BY <1>1, <1>4, <1>6, <1>7, <1>8, <1>10, RecoverKeeps DEF TypeOK, Recovers
<1> QED
  BY <1>9, <1>10 DEF Write

\* A recovery that starts with all files and backups as they are.
LEMMA RecoverStill ==
  ASSUME IInv, NEW c \in Commands, Trying(c), Recovers(c),
         UNCHANGED <<fileVars, registryVars, hunks, runs, begun, edits, before, stray, shared, tally>>,
         excused' \in [Commands -> SUBSET Files], \A d \in Commands \ {c} : excused'[d] = excused[d],
         excused[c] \subseteq excused'[c], At(c, "clean") => Done(c) \subseteq excused'[c]
  PROVE  IInv'
<1>1. Within /\ text' = text /\ backup' = backup /\ before' = before /\ stray' = stray
  BY DEF Within, fileVars
<1>2. \A d \in Commands \ {c} : Spared(d)
  BY <1>1 DEF Spared
<1>3. FilesAreKept(c) /\ InTarget(c)
  BY Known DEF InTarget
<1>4. ASSUME NEW f \in Files \ excused'[c]
      PROVE  IF f \in Listed(c) THEN /\ before[c][f] # NoFile
                                     /\ Kept(c, f) \/ Restored(c, f)
             ELSE text[f] = before[c][f]
  <2>1. f \notin excused[c]
    OBVIOUS
  <2> QED
    BY <1>3, <2>1 DEF FilesAreKept, IsKept, Trying, Restoring, At
<1> QED
  BY <1>1, <1>2, <1>4, RecoverKeeps DEF IInv, TypeOK, Kept, Restored

LEMMA RaiseKeeps == ASSUME IInv, NEW c \in Commands, Raise(c) PROVE IInv'
<1>1. Trying(c) /\ ~At(c, "clean") /\ Recovers(c)
  BY DEF Raise, Trying, At, Recovers
<1> QED
  BY <1>1, RecoverStill DEF Raise, history, IInv, TypeOK

LEMMA CleanRaisesKeeps == ASSUME IInv, NEW c \in Commands, CleanRaises(c) PROVE IInv'
<1>1. /\ Trying(c) /\ Recovers(c)
      /\ excused' = [excused EXCEPT ![c] = @ \cup Done(c)]
  BY DEF CleanRaises, Trying, At, Recovers, Done
<1>2. Done(c) \subseteq Files
  BY Known DEF Done, CleanRaises, At, StandIsSound
<1> QED
  BY <1>1, <1>2, RecoverStill DEF CleanRaises, IInv, TypeOK

\* A target that passed has all its backups still to be removed.
LEMMA ValidateKeeps == ASSUME IInv, NEW c \in Commands, Validate(c) PROVE IInv'
<1> DEFINE list == cmd[c].backups
<1>1. /\ cmd[c] \in Command /\ FilesAreKept(c) /\ TypeOK /\ list \in Seq(Files) /\ Len(list) \in Nat
  BY Known DEF IInv
<1>2. At(c, "hunk") /\ Trying(c) /\ InTarget(c)
  BY DEF Validate, Trying, InTarget, At
<1>3. CASE cmd' = [cmd EXCEPT ![c].at = "clean", ![c].pos = 1]
  <2>1. Moves(c, "clean", 1, list)
    <3>1. cmd' = [cmd EXCEPT ![c] = [cmd[c] EXCEPT !.at = "clean", !.pos = 1,
                   !.source = cmd[c].source, !.backups = list, !.again = cmd[c].again]]
      BY <1>1, <1>3 DEF Command, TypeOK
    <3> QED
      BY <1>1, <3>1 DEF Moves, Command
  <2>2. cmd'[c].at = "clean" /\ cmd'[c].backups = list /\ cmd'[c].pos = 1
    BY <1>1, <2>1, MovedFields DEF Tries
  <2>3. Fits("clean", 1, list)
    BY <1>1 DEF Fits
  <2>4. UNCHANGED <<text, backup, before, excused>>
    BY DEF Validate, fileVars, history
  <2>5. \A f \in Files \ excused[c] : f \in Listed(c) => IsKept(c, f)'
    BY <1>1, <1>2, <2>2, <2>4 DEF FilesAreKept, IsKept, Kept, Restoring, At
  <2>6. \A f \in Files : Holds(c, f) => Holds(c, f)'
    BY <1>2, <2>2 DEF Holds, Ahead, Trying, Listed, At
  <2> QED
    BY <1>2, <2>1, <2>3, <2>5, <2>6, StillKeeps DEF Validate, Tries
<1>4. CASE Recover(c, FALSE)
  <2>1. Recovers(c) /\ ~At(c, "clean")
    BY <1>2, <1>4 DEF Recovers, At
  <2> QED
    BY <1>1, <1>2, <2>1, RecoverStill DEF Validate, history, TypeOK
<1> QED
  BY <1>3, <1>4 DEF Validate

\* What a step over the backups knows of the one that it stands at.
LEMMA AtBackup ==
  ASSUME IInv, NEW c \in Commands, cmd[c].at \in {"clean", "look", "copy", "unlink"},
         cmd[c].pos <= Len(cmd[c].backups)
  PROVE  /\ Trying(c) /\ InTarget(c) /\ cmd[c].pos \in 1..Len(cmd[c].backups)
         /\ Held(c) \in Files /\ Held(c) \in Listed(c) /\ Held(c) \in Ahead(c)
         /\ {cmd[c].backups[i] : i \in 1..(cmd[c].pos + 1) - 1} = Done(c) \cup {Held(c)}
         /\ Ahead(c) = {cmd[c].backups[i] : i \in cmd[c].pos + 1..Len(cmd[c].backups)} \cup {Held(c)}
<1>1. /\ cmd[c].pos \in 1..Len(cmd[c].backups) /\ Len(cmd[c].backups) \in Nat
      /\ \A i \in 1..Len(cmd[c].backups) : cmd[c].backups[i] \in Files
  BY Known DEF StandIsSound
<1>2. Ahead(c) = {cmd[c].backups[i] : i \in cmd[c].pos..Len(cmd[c].backups)}
  BY DEF Ahead
<1> QED
  BY <1>1, <1>2 DEF Trying, InTarget, Held, Listed, Done

\* c passes the backup that it stands at, which is gone then.
LEMMA PassesKeeps ==
  ASSUME IInv, NEW c \in Commands, cmd[c].at \in {"clean", "look", "unlink"},
         cmd[c].pos <= Len(cmd[c].backups),
         cmd' = [cmd EXCEPT ![c].at = IF At(c, "clean") THEN "clean" ELSE "look", ![c].pos = @ + 1],
         Within, UNCHANGED <<text, stray>>,
         \/ backup[Held(c)] = NoFile /\ UNCHANGED <<backup, excused>>
         \/ /\ backup' = [backup EXCEPT ![Held(c)] = NoFile] /\ excused' = Crosses(c, Held(c))
            /\ ~At(c, "look")
  PROVE  IInv'
<1> DEFINE list == cmd[c].backups
           place == IF At(c, "clean") THEN "clean" ELSE "look"
           f == Held(c)
<1>1. /\ cmd[c] \in Command /\ FilesAreKept(c) /\ TypeOK /\ list \in Seq(Files) /\ Len(list) \in Nat
  BY Known DEF IInv
<1>2. /\ Trying(c) /\ InTarget(c) /\ cmd[c].pos \in 1..Len(list)
      /\ f \in Files /\ f \in Listed(c)
      /\ {list[i] : i \in 1..(cmd[c].pos + 1) - 1} = Done(c) \cup {f}
      /\ Ahead(c) = {list[i] : i \in cmd[c].pos + 1..Len(list)} \cup {f}
  BY AtBackup
<1>3. Moves(c, place, cmd[c].pos + 1, list)
  <2>1. cmd' = [cmd EXCEPT ![c] = [cmd[c] EXCEPT !.at = place, !.pos = cmd[c].pos + 1,
                 !.source = cmd[c].source, !.backups = list, !.again = cmd[c].again]]
    BY <1>1 DEF Command, TypeOK
  <2> QED
    BY <1>1, <2>1 DEF Moves, Command
<1>4. place \in Tries /\ cmd[c].pos + 1 \in Nat /\ Fits(place, cmd[c].pos + 1, list)
  BY <1>1, <1>2 DEF Tries, Fits
<1>5. /\ \A d \in Commands \ {c} : cmd'[d] = cmd[d]
      /\ cmd'[c].at = place /\ cmd'[c].backups = list /\ cmd'[c].pos = cmd[c].pos + 1
  BY <1>1, <1>3, <1>4, MovedFields
<1>6. /\ Listed(c)' = Listed(c) /\ Done(c)' = Done(c) \cup {f} /\ Trying(c)' /\ InTarget(c)'
      /\ Ahead(c)' = {list[i] : i \in cmd[c].pos + 1..Len(list)}
  <2>1. cmd'[c].at \in {"clean", "look"}
    BY <1>5
  <2>2. Listed(c)' = Listed(c) /\ Done(c)' = Done(c) \cup {f}
    <3>1. cmd'[c].backups = cmd[c].backups /\ cmd'[c].pos = cmd[c].pos + 1
      BY <1>5
    <3>2. Listed(c)' = Listed(c)
      BY <3>1 DEF Listed
    <3>3. Done(c)' = {cmd[c].backups[i] : i \in 1..(cmd[c].pos + 1) - 1}
      BY <3>1 DEF Done
    <3> QED
      BY <1>2, <3>2, <3>3
  <2>3. Trying(c)' /\ InTarget(c)'
    BY <2>1 DEF Trying, InTarget
  <2>4. Ahead(c)' = {list[i] : i \in cmd[c].pos + 1..Len(list)}
    <3>1. cmd'[c].at \notin {"hunk", "write"}
      BY <2>1
    <3>2. Ahead(c)' = {cmd'[c].backups[i] : i \in cmd'[c].pos..Len(cmd'[c].backups)}
      BY <3>1 DEF Ahead
    <3>3. cmd'[c].backups = cmd[c].backups /\ cmd'[c].pos = cmd[c].pos + 1
      BY <1>5
    <3> QED
      BY <3>2, <3>3
  <2> QED
    BY <2>2, <2>3, <2>4
<1>7. /\ Crosses(c, f) \in [Commands -> SUBSET Files] /\ Crosses(c, f)[c] = excused[c]
      /\ \A d \in Commands : /\ excused[d] \subseteq Crosses(c, f)[d]
                             /\ d # c /\ InTarget(d) => f \in Crosses(c, f)[d]
  BY <1>1, <1>2, CrossesSpares
<1> HIDE DEF f
<1>8. /\ excused' \in [Commands -> SUBSET Files] /\ excused'[c] = excused[c]
      /\ backup' \in [Files -> Texts] /\ backup'[f] = NoFile
      /\ \A g \in Files \ {f} : backup'[g] = backup[g]
      /\ \A d \in Commands \ {c} : excused[d] \subseteq excused'[d]
      /\ \A d \in Commands \ {c} : InTarget(d) => f \in excused'[d] \/ backup' = backup
  <2>1. CASE backup[f] = NoFile /\ UNCHANGED <<backup, excused>>
    BY <1>1, <2>1 DEF TypeOK
  <2>2. CASE backup' = [backup EXCEPT ![f] = NoFile] /\ excused' = Crosses(c, f)
    BY <1>1, <1>2, <1>7, <2>2 DEF TypeOK, Texts
  <2> QED
    BY <2>1, <2>2 DEF f
<1>9. text' = text /\ before' = before
  BY DEF Within
<1>10. \A d \in Commands \ {c} : Spared(d)
  BY <1>8, <1>9 DEF Spared
<1>11. FilesAreKept(c)'
  <2> SUFFICES ASSUME NEW g \in Files \ excused[c]
               PROVE  IF g \in Listed(c) THEN IsKept(c, g)' ELSE text[g] = before[c][g]
    BY <1>6, <1>8, <1>9 DEF FilesAreKept
  <2>1. IF g \in Listed(c) THEN IsKept(c, g) ELSE text[g] = before[c][g]
    BY <1>1, <1>2 DEF FilesAreKept
  <2>2. CASE g = f
    <3>1. g \in Listed(c) /\ before[c][g] # NoFile
      BY <1>2, <2>1, <2>2 DEF IsKept
    <3>2. CASE place = "clean"
      BY <1>5, <1>6, <1>9, <2>2, <3>1, <3>2 DEF IsKept, Restoring, At
    <3>3. CASE place = "look"
      <4>1. text[g] = before[c][g]
        <5>1. CASE At(c, "unlink")
          BY <2>1, <2>2, <3>1, <5>1 DEF IsKept, f
        <5>2. CASE At(c, "look")
          <6>1. backup[g] = NoFile
            BY <2>2, <5>2 DEF f
          <6> QED
            BY <2>1, <3>1, <5>2, <6>1 DEF IsKept, Restoring, Kept, Restored, At
        <5> QED
          BY <3>3, <5>1, <5>2 DEF At
      <4> QED
        BY <1>5, <1>8, <1>9, <2>2, <3>1, <3>3, <4>1 DEF IsKept, Restored, Restoring, At
    <3> QED
      BY <3>2, <3>3
  <2>3. CASE g # f
    <3>1. backup'[g] = backup[g] /\ (g \in Done(c)' <=> g \in Done(c))
      BY <1>6, <1>8, <2>3
    <3>2. Restoring(c)' => Restoring(c)
      BY <1>5 DEF Restoring, At
    <3> QED
      BY <1>5, <1>9, <2>1, <3>1, <3>2 DEF IsKept, Kept, Restored, Restoring, At
  <2> QED
    BY <2>2, <2>3
<1>12. BackupsAreHeld'
  <2>1. ASSUME NEW g \in Files, backup'[g] # NoFile
        PROVE  backup[g] # NoFile /\ (Holds(c, g) => Holds(c, g)')
    <3>1. g # f /\ backup'[g] = backup[g]
      BY <1>8, <2>1
    <3> QED
      BY <1>2, <1>6, <2>1, <3>1 DEF Holds
  <2> QED
    BY <1>5, <2>1, HoldersStay
<1> QED
  BY <1>1, <1>2, <1>3, <1>4, <1>8, <1>9, <1>10, <1>11, <1>12, MoveKeeps DEF TypeOK

LEMMA CleanKeeps == ASSUME IInv, NEW c \in Commands, Clean(c) PROVE IInv'
<1>1. cmd' = [cmd EXCEPT ![c].at = IF At(c, "clean") THEN "clean" ELSE "look", ![c].pos = @ + 1]
  BY Known DEF Clean, At, Command, IInv, TypeOK
<1>2. Within /\ ~At(c, "look") /\ cmd[c].at = "clean"
  BY DEF Within, Clean, At
<1> QED
  BY <1>1, <1>2, PassesKeeps DEF Clean

LEMMA UnlinkKeeps == ASSUME IInv, NEW c \in Commands, Unlink(c) PROVE IInv'
<1>1. Within /\ ~At(c, "look") /\ ~At(c, "clean") /\ cmd[c].at = "unlink"
  BY DEF Within, Unlink, At
<1>2. cmd[c].pos <= Len(cmd[c].backups)
  BY <1>1, Known DEF StandIsSound
<1>3. cmd' = [cmd EXCEPT ![c].at = IF At(c, "clean") THEN "clean" ELSE "look", ![c].pos = @ + 1]
  BY <1>1 DEF Unlink
<1> QED
  BY <1>1, <1>2, <1>3, PassesKeeps DEF Unlink

\* A file whose backup is gone is restored, unless it is excused.
LEMMA LookKeeps == ASSUME IInv, NEW c \in Commands, Look(c) PROVE IInv'
<1> DEFINE list == cmd[c].backups
<1>1. /\ cmd[c] \in Command /\ FilesAreKept(c) /\ TypeOK /\ list \in Seq(Files) /\ Len(list) \in Nat
      /\ cmd[c].pos \in Nat
  BY Known DEF IInv
<1>2. At(c, "look") /\ cmd[c].at = "look" /\ Trying(c) /\ cmd[c].pos \in 1..Len(list) /\ InTarget(c)
  BY AtBackup DEF Look, At
<1>3. CASE backup[Held(c)] = NoFile
  <2>1. cmd' = [cmd EXCEPT ![c].at = IF At(c, "clean") THEN "clean" ELSE "look", ![c].pos = @ + 1]
    BY <1>1, <1>2, <1>3 DEF Look, At, Command, TypeOK
  <2>2. Within /\ UNCHANGED <<text, stray, backup, excused>>
    BY DEF Look, Within, fileVars, history
  <2>3. cmd[c].pos <= Len(cmd[c].backups) /\ cmd[c].at \in {"clean", "look", "unlink"}
    BY <1>2 DEF Look
  <2>4. backup[Held(c)] = NoFile /\ UNCHANGED <<backup, excused>>
    BY <1>3, <2>2
  <2> QED
    BY <2>1, <2>2, <2>3, <2>4, PassesKeeps
<1>4. CASE backup[Held(c)] # NoFile
  <2>1. Moves(c, "copy", cmd[c].pos, list)
    <3>1. cmd' = [cmd EXCEPT ![c] = [cmd[c] EXCEPT !.at = "copy", !.pos = cmd[c].pos,
                   !.source = cmd[c].source, !.backups = list, !.again = cmd[c].again]]
      BY <1>1, <1>4 DEF Look, Command, TypeOK
    <3> QED
      BY <1>1, <3>1 DEF Moves, Command
  <2>2. cmd'[c].at = "copy" /\ cmd'[c].backups = list /\ cmd'[c].pos = cmd[c].pos
    BY <1>1, <2>1, MovedFields DEF Tries
  <2>3. Fits("copy", cmd[c].pos, list)
    BY <1>2 DEF Fits
  <2>4. UNCHANGED <<text, backup, before, excused>>
    BY DEF Look, fileVars, history
  <2>5. \A f \in Files \ excused[c] : f \in Listed(c) => IsKept(c, f)'
    BY <1>1, <1>2, <2>2, <2>4 DEF FilesAreKept, IsKept, Kept, Restored, Restoring, Done, At
  <2>6. \A f \in Files : Holds(c, f) => Holds(c, f)'
    BY <1>2, <2>2 DEF Holds, Ahead, Trying, At
  <2> QED
    BY <1>1, <1>2, <2>1, <2>3, <2>5, <2>6, StillKeeps DEF Look, Tries
<1> QED
  BY <1>3, <1>4

LEMMA PutBackKeeps == ASSUME IInv, NEW c \in Commands, PutBack(c) PROVE IInv'
<1> DEFINE list == cmd[c].backups
           f == Held(c)
<1>1. /\ cmd[c] \in Command /\ FilesAreKept(c) /\ TypeOK /\ list \in Seq(Files) /\ Len(list) \in Nat
      /\ StandIsSound(c)
  BY Known DEF IInv
<1>2. At(c, "copy") /\ cmd[c].at = "copy" /\ cmd[c].pos \in 1..Len(list) /\ backup[f] # NoFile
  BY <1>1 DEF PutBack, At, StandIsSound
<1>3. /\ Trying(c) /\ InTarget(c) /\ f \in Files /\ f \in Listed(c) /\ f = list[cmd[c].pos]
  BY <1>2, AtBackup DEF Held
<1>4. Moves(c, "unlink", cmd[c].pos, list)
  <2>1. cmd' = [cmd EXCEPT ![c] = [cmd[c] EXCEPT !.at = "unlink", !.pos = cmd[c].pos,
                 !.source = cmd[c].source, !.backups = list, !.again = cmd[c].again]]
    BY <1>1 DEF PutBack, Command, TypeOK
  <2> QED
    BY <1>1, <2>1 DEF Moves, Command
<1>5. /\ \A d \in Commands \ {c} : cmd'[d] = cmd[d]
      /\ cmd'[c].at = "unlink" /\ cmd'[c].backups = list /\ cmd'[c].pos = cmd[c].pos
  BY <1>1, <1>2, <1>4, MovedFields DEF Tries
<1>6. /\ Crosses(c, f) \in [Commands -> SUBSET Files] /\ Crosses(c, f)[c] = excused[c]
      /\ \A d \in Commands : /\ excused[d] \subseteq Crosses(c, f)[d]
                             /\ d # c /\ InTarget(d) => f \in Crosses(c, f)[d]
  BY <1>1, <1>3, CrossesSpares
<1>7. /\ text' = [text EXCEPT ![f] = backup[f]] /\ excused' = Crosses(c, f)
      /\ Within /\ UNCHANGED <<backup, before, stray>>
  BY DEF PutBack, Within
<1> HIDE DEF f
<1>8. text' \in [Files -> Texts] /\ text'[f] = backup[f] /\ \A g \in Files \ {f} : text'[g] = text[g]
  BY <1>1, <1>3, <1>7 DEF TypeOK
<1>9. \A d \in Commands \ {c} : Spared(d)
  BY <1>6, <1>7, <1>8 DEF Spared
<1>10. /\ Listed(c)' = Listed(c) /\ Done(c)' = Done(c) /\ InTarget(c)' /\ Trying(c)'
       /\ Held(c)' = f /\ Ahead(c)' = Ahead(c)
  BY <1>2, <1>3, <1>5 DEF Listed, Done, InTarget, Trying, Held, Ahead
<1>11. FilesAreKept(c)'
  <2> SUFFICES ASSUME NEW g \in Files \ excused[c]
               PROVE  IF g \in Listed(c) THEN IsKept(c, g)' ELSE text'[g] = before[c][g]
    BY <1>6, <1>7, <1>10 DEF FilesAreKept
  <2>1. IF g \in Listed(c) THEN IsKept(c, g) ELSE text[g] = before[c][g]
    BY <1>1, <1>3 DEF FilesAreKept
  <2>2. CASE g = f
    <3>1. g \in Listed(c) /\ before[c][g] # NoFile /\ Kept(c, g) /\ g \notin Done(c)
      BY <1>2, <1>3, <2>1, <2>2 DEF IsKept, Restoring, Restored, Kept, At
    <3>2. text'[g] = before[c][g] /\ backup'[g] = before[c][g]
      BY <1>7, <1>8, <2>2, <3>1 DEF Kept
    <3> QED
      BY <1>5, <1>7, <1>10, <3>1, <3>2 DEF IsKept, Restoring, Kept, At
  <2>3. CASE g # f
    <3>1. text'[g] = text[g]
      BY <1>8, <2>3
    <3> QED
      BY <1>2, <1>5, <1>7, <1>10, <2>1, <2>3, <3>1 DEF IsKept, Restoring, Kept, Restored, At
  <2> QED
    BY <2>2, <2>3
<1>12. BackupsAreHeld'
  BY <1>5, <1>7, <1>10, HoldersStay DEF Holds
<1>13. Fits("unlink", cmd[c].pos, list)
  BY <1>2 DEF Fits
<1> QED
  <2>1. /\ "unlink" \in Tries /\ cmd[c].pos \in Nat
        /\ backup' \in [Files -> Texts] /\ excused' \in [Commands -> SUBSET Files]
        /\ stray' \subseteq Files
    BY <1>1, <1>2, <1>6, <1>7 DEF TypeOK, Tries
  <2> QED
    BY <1>1, <1>3, <1>4, <1>7, <1>8, <1>9, <1>11, <1>12, <1>13, <2>1, MoveKeeps

----------------------------------------------------------------------------
(* The ends of a target, and of a command. *)

\* The failures of a command are not negative.
LEMMA FailedIsNat ==
  ASSUME IInv, NEW c \in Commands
  PROVE  FailedOf(c) \in Nat /\ (At(c, "idle") => FailedOf(c) = 0)
BY Known DEF FailedOf, StandIsSound, Idle, Trying, At

\* A command that ends early leaves its backups stray and its failures lost.
LEMMA EndsKeeps ==
  ASSUME IInv, NEW c \in Commands, ~At(c, "idle"), Ends(c),
         UNCHANGED <<backup, registryVars, hunks, runs, begun, edits, shared, failures>>,
         text' \in [Files -> Texts], excused' \in [Commands -> SUBSET Files],
         \A d \in Commands \ {c} : Spared(d)
  PROVE  IInv'
<1>1. cmd' \in [Commands -> Command] /\ cmd'[c] = Idle /\ \A d \in Commands \ {c} : cmd'[d] = cmd[d]
  BY IdleIsCommand, Assigned DEF Ends, IInv, TypeOK
<1>2. Listed(c) \subseteq Files
  BY Known DEF Listed
<1>3. before' \in [Commands -> [Files -> Texts]]
  BY DEF Ends, Unknown, Texts, IInv, TypeOK
<1>4. TypeOK'
  BY <1>1, <1>2, <1>3, TypesStay, FailedIsNat DEF Ends, IInv, TypeOK, registryVars
<1>5. StandIsSound(c)' /\ FilesAreKept(c)' /\ cmd'[c].at = "idle"
  BY <1>1, ReplicatorAssumption DEF StandIsSound, FilesAreKept, At, Trying, InTarget, Idle
<1>6. BackupsAreHeld'
  <2>1. \A f \in Files : Holds(c, f) => f \in Listed(c)
    BY Known DEF Holds, Ahead, Listed, StandIsSound, Trying
  <2> QED
    BY <1>1, <2>1, HoldersStay DEF Ends
<1>7. Counts(c)
  <2> SUFFICES ASSUME ~shared' PROVE Counts(c)
    BY DEF Counts
  <2>1. ~shared /\ (\A d \in Commands \ {c} : At(d, "idle")) /\ Tallied(c)
    BY RunsAlone
  <2>2. FailedOf(c)' = 0
    BY <1>1 DEF FailedOf, Idle, Trying
  <2>3. registry' = registry /\ failures' = failures /\ lost' = lost + FailedOf(c)
    BY DEF Ends, registryVars
  <2>4. registry'.rollback + FailedOf(c)' + lost' = failures'
    BY <2>1, <2>2, <2>3, Known, FailedIsNat DEF Tallied
  <2> QED
    BY <1>5, <2>1, <2>4 DEF Counts, Tallied, InTarget, Trying, At
<1> QED
  BY <1>1, <1>4, <1>5, <1>6, <1>7, StepOfOne DEF IInv, registryVars

LEMMA DieKeeps == ASSUME IInv, NEW c \in Commands, Die(c) PROVE IInv'
<1>1. excused' \in [Commands -> SUBSET Files] /\ text' \in [Files -> Texts] /\ backup' = backup
      /\ Ends(c) /\ ~At(c, "idle")
  BY DEF Die, fileVars, IInv, TypeOK
<1>2. \A d \in Commands \ {c} : Spared(d)
  BY DEF Die, Ends, Spared, fileVars, IInv, TypeOK
<1> QED
  BY <1>1, <1>2, EndsKeeps DEF Die, fileVars

\* The backup is still there for the next pass, and when there is none the command ends.
LEMMA RollbackRaisesKeeps == ASSUME IInv, NEW c \in Commands, RollbackRaises(c) PROVE IInv'
<1> DEFINE f == Held(c)
           own == IF cmd[c].again THEN {} ELSE excused[c]
<1>1. /\ cmd[c] \in Command /\ FilesAreKept(c) /\ TypeOK /\ StandIsSound(c) /\ excused[c] \subseteq Files
  BY Known DEF IInv
<1>2. /\ cmd[c].at \in {"copy", "unlink"} /\ cmd[c].pos <= Len(cmd[c].backups)
      /\ ~At(c, "clean") /\ ~At(c, "idle")
  BY <1>1 DEF RollbackRaises, StandIsSound, At
<1>3. Trying(c) /\ InTarget(c) /\ f \in Files /\ f \in Listed(c)
  BY <1>2, AtBackup
<1>4. /\ Crosses(c, f) \in [Commands -> SUBSET Files] /\ Crosses(c, f)[c] = excused[c]
      /\ \A d \in Commands : /\ excused[d] \subseteq Crosses(c, f)[d]
                             /\ d # c /\ InTarget(d) => f \in Crosses(c, f)[d]
  BY <1>1, <1>3, CrossesSpares
<1>5. \/ /\ text' = text
         /\ excused' = [excused EXCEPT ![c] = own]
      \/ /\ At(c, "copy") /\ backup[f] # NoFile /\ text' = [text EXCEPT ![f] = {}]
         /\ excused' = [Crosses(c, f) EXCEPT ![c] = own]
  <2> DEFINE K == Crosses(c, f)
  <2>1. K \in [Commands -> SUBSET Files] /\ K[c] = excused[c] /\ excused \in [Commands -> SUBSET Files]
    BY <1>1, <1>4 DEF TypeOK
  <2>2. \/ UNCHANGED text /\ excused' = [excused EXCEPT ![c] = IF cmd[c].again THEN {} ELSE @]
        \/ /\ At(c, "copy") /\ backup[f] # NoFile /\ text' = [text EXCEPT ![f] = {}]
           /\ excused' = [K EXCEPT ![c] = IF cmd[c].again THEN {} ELSE @]
    BY DEF RollbackRaises
  <2> HIDE DEF K, f
  <2>3. [K EXCEPT ![c] = IF cmd[c].again THEN {} ELSE @] = [K EXCEPT ![c] = own]
    BY <2>1
  <2>4. [excused EXCEPT ![c] = IF cmd[c].again THEN {} ELSE @] = [excused EXCEPT ![c] = own]
    BY <2>1
  <2> QED
    BY <2>2, <2>3, <2>4 DEF K
<1> HIDE DEF f
<1>6. /\ excused' \in [Commands -> SUBSET Files] /\ excused'[c] = own
      /\ text' \in [Files -> Texts] /\ \A g \in Files \ {f} : text'[g] = text[g]
      /\ text'[f] = text[f] \/ (At(c, "copy") /\ backup[f] # NoFile)
      /\ \A d \in Commands \ {c} : excused[d] \subseteq excused'[d]
      /\ \A d \in Commands \ {c} : InTarget(d) => f \in excused'[d] \/ text' = text
  <2>0. own \subseteq Files
    BY <1>1
  <2> HIDE DEF own
  <2>1. CASE text' = text /\ excused' = [excused EXCEPT ![c] = own]
    BY <1>1, <2>0, <2>1 DEF TypeOK
  <2>2. CASE /\ At(c, "copy") /\ backup[f] # NoFile /\ text' = [text EXCEPT ![f] = {}]
             /\ excused' = [Crosses(c, f) EXCEPT ![c] = own]
    <3>1. text' \in [Files -> Texts] /\ \A g \in Files \ {f} : text'[g] = text[g]
      BY <1>1, <2>2 DEF TypeOK, Texts
    <3> DEFINE K == Crosses(c, f)
    <3>2. /\ K \in [Commands -> SUBSET Files]
          /\ \A d \in Commands : excused[d] \subseteq K[d] /\ (d # c /\ InTarget(d) => f \in K[d])
      BY <1>4
    <3>3. excused' = [K EXCEPT ![c] = own]
      BY <2>2
    <3> HIDE DEF K
    <3>4. /\ excused' \in [Commands -> SUBSET Files] /\ excused'[c] = own
          /\ \A d \in Commands \ {c} : excused'[d] = K[d]
      BY <2>0, <3>2, <3>3
    <3> QED
      BY <2>2, <3>1, <3>2, <3>4
  <2> QED
    BY <1>5, <2>1, <2>2
<1>7. backup' = backup /\ UNCHANGED <<registryVars, hunks, runs, begun, edits, shared, failures>>
  BY DEF RollbackRaises
<1>8. CASE cmd[c].again
  <2>1. Ends(c)
    BY <1>8 DEF RollbackRaises
  <2>2. \A d \in Commands \ {c} : before'[d] = before[d]
    BY <1>1, <2>1 DEF Ends, TypeOK
  <2>3. \A d \in Commands \ {c} : Spared(d)
    BY <1>6, <1>7, <2>2 DEF Spared
  <2> QED
    BY <1>2, <1>6, <1>7, <2>1, <2>3, EndsKeeps
<1>9. CASE ~cmd[c].again
  <2>1. Recover(c, TRUE) /\ before' = before /\ stray' = stray /\ lost' = lost /\ excused'[c] = excused[c]
    BY <1>6, <1>9 DEF RollbackRaises
  <2>2. Within
    BY <1>7, <2>1 DEF Within, tally
  <2>3. \A d \in Commands \ {c} : Spared(d)
    BY <1>6, <1>7, <2>1 DEF Spared
  <2>4. \A g \in Files \ excused'[c] :
           IF g \in Listed(c)
           THEN /\ before[c][g] # NoFile
                /\ \/ backup'[g] = before[c][g]
                   \/ backup'[g] = NoFile /\ text'[g] = before[c][g]
           ELSE text'[g] = before[c][g]
    <3> SUFFICES ASSUME NEW g \in Files \ excused[c]
                 PROVE  IF g \in Listed(c)
                        THEN /\ before[c][g] # NoFile
                             /\ \/ backup[g] = before[c][g]
                                \/ backup[g] = NoFile /\ text'[g] = before[c][g]
                        ELSE text'[g] = before[c][g]
      BY <1>7, <2>1
    <3>1. IF g \in Listed(c) THEN /\ before[c][g] # NoFile
                                  /\ Kept(c, g) \/ Restored(c, g)
          ELSE text[g] = before[c][g]
      BY <1>1, <1>2, <1>3 DEF FilesAreKept, IsKept, Restoring
    <3> QED
      BY <1>3, <1>6, <3>1 DEF Kept, Restored
  <2> QED
    BY <1>1, <1>3, <1>6, <1>7, <2>1, <2>2, <2>3, <2>4, RecoverKeeps DEF Recovers, TypeOK
<1> QED
  BY <1>8, <1>9

\* All backups of c are gone, and it holds none.
LEMMA HoldsNothing ==
  ASSUME IInv, NEW c \in Commands,
         ~Trying(c) \/ (cmd[c].at \in {"clean", "look"} /\ cmd[c].pos > Len(cmd[c].backups))
  PROVE  \A f \in Files : ~Holds(c, f)
BY Known DEF Holds, Trying, Ahead

LEMMA SucceedKeeps == ASSUME IInv, NEW c \in Commands, Succeed(c) PROVE IInv'
<1> DEFINE r == [cmd[c] EXCEPT !.at = "next", !.succeeded = @ + 1, !.backups = <<>>]
<1>1. /\ cmd[c] \in Command /\ StandIsSound(c) /\ At(c, "clean") /\ Trying(c) /\ ~At(c, "idle")
  BY Known DEF Succeed, At, Trying
<1>2. /\ cmd[c].succeeded + 1 <= cmd[c].target /\ cmd[c].target <= cmd[c].targets /\ cmd[c].targets > 0
      /\ cmd[c].targets <= MaxTargets /\ cmd[c].succeeded + 1 \in 0..MaxTargets
  BY <1>1, Known, ReplicatorAssumption DEF StandIsSound, InTarget, Command
<1>3. r \in Command
  <2>1. <<>> \in Seq(Files)
    OBVIOUS
  <2> QED
    BY <1>1, <1>2, <2>1 DEF Command, Places
<1>4. cmd' = [cmd EXCEPT ![c] = r]
  BY <1>1 DEF Succeed, IInv, TypeOK, Command
<1>5. cmd' \in [Commands -> Command] /\ cmd'[c] = r /\ \A d \in Commands \ {c} : cmd'[d] = cmd[d]
  BY <1>3, <1>4, Assigned DEF IInv, TypeOK
<1>6. /\ cmd'[c].at = "next" /\ cmd'[c].succeeded = cmd[c].succeeded + 1 /\ cmd'[c].backups = <<>>
      /\ cmd'[c].target = cmd[c].target /\ cmd'[c].targets = cmd[c].targets
  BY <1>1, <1>5 DEF Command
<1>7. /\ before' \in [Commands -> [Files -> Texts]] /\ excused' \in [Commands -> SUBSET Files]
      /\ \A d \in Commands \ {c} : before'[d] = before[d] /\ excused'[d] = excused[d]
  BY DEF Succeed, Over, Unknown, Texts, IInv, TypeOK
<1>8. TypeOK'
  BY <1>5, <1>7, TypesStay DEF Succeed, IInv, TypeOK, fileVars, registryVars, tally
<1>9. StandIsSound(c)' /\ FilesAreKept(c)'
  BY <1>2, <1>6 DEF StandIsSound, FilesAreKept, At, Trying, InTarget
<1>10. BackupsAreHeld'
  BY <1>1, <1>5, HoldsNothing, HoldersStay DEF Succeed, fileVars, At
<1>11. Counts(c)
  <2> SUFFICES ASSUME ~shared' PROVE Counts(c)
    BY DEF Counts
  <2>1. ~shared /\ registry' = registry /\ failures' = failures /\ lost' = lost
    BY DEF Succeed, registryVars, tally
  <2>2. (\A d \in Commands \ {c} : At(d, "idle")) /\ Tallied(c)
    BY <1>1, <2>1, RunsAlone
  <2>3. FailedOf(c)' = FailedOf(c)
    <3>1. cmd[c].target \in Nat /\ cmd[c].succeeded \in Nat
      BY Known
    <3>2. FailedOf(c) = cmd[c].target - cmd[c].succeeded - 1
      BY <1>1 DEF FailedOf
    <3>3. FailedOf(c)' = cmd[c].target - (cmd[c].succeeded + 1) - 0
      BY <1>6 DEF FailedOf, Trying
    <3> QED
      BY <3>1, <3>2, <3>3
  <2> QED
    BY <1>1, <1>6, <2>1, <2>2, <2>3 DEF Counts, Tallied, InTarget, At
<1>12. \A d \in Commands \ {c} : Spared(d)
  BY <1>7 DEF Spared, Succeed, fileVars
<1> QED
  BY <1>5, <1>6, <1>8, <1>9, <1>10, <1>11, <1>12, StepOfOne DEF Succeed, IInv, registryVars

\* When all backups are passed, every file that is not excused is as it was.
LEMMA RolledBackKeeps == ASSUME IInv, NEW c \in Commands, RolledBack(c) PROVE IInv'
<1> DEFINE r == [cmd[c] EXCEPT !.at = "failed", !.backups = <<>>]
<1>1. /\ cmd[c] \in Command /\ StandIsSound(c) /\ At(c, "look") /\ Trying(c) /\ ~At(c, "idle")
      /\ InTarget(c) /\ FilesAreKept(c)
  BY Known DEF RolledBack, At, Trying, InTarget
<1>2. /\ cmd[c].succeeded + 1 <= cmd[c].target /\ cmd[c].target <= cmd[c].targets /\ cmd[c].targets > 0
  BY <1>1 DEF StandIsSound
<1>3. r \in Command
  <2>1. <<>> \in Seq(Files)
    OBVIOUS
  <2> QED
    BY <1>1, <2>1 DEF Command, Places
<1>4. cmd' = [cmd EXCEPT ![c] = r]
  BY <1>1 DEF RolledBack, IInv, TypeOK, Command
<1>5. cmd' \in [Commands -> Command] /\ cmd'[c] = r /\ \A d \in Commands \ {c} : cmd'[d] = cmd[d]
  BY <1>3, <1>4, Assigned DEF IInv, TypeOK
<1>6. /\ cmd'[c].at = "failed" /\ cmd'[c].succeeded = cmd[c].succeeded /\ cmd'[c].backups = <<>>
      /\ cmd'[c].target = cmd[c].target /\ cmd'[c].targets = cmd[c].targets
  BY <1>1, <1>5 DEF Command
<1>7. UNCHANGED <<text, backup, registry, torn, hunks, runs, begun, edits, before, excused, stray, shared, lost>>
  BY DEF RolledBack, fileVars, registryVars
<1>8. TypeOK' /\ failures' = failures + 1
  BY <1>5, <1>7, TypesStay DEF RolledBack, IInv, TypeOK
<1>9. StandIsSound(c)'
  BY <1>2, <1>6, Known DEF StandIsSound, At, Trying, InTarget
<1>10. FilesAreKept(c)'
  <2>1. Listed(c)' = {} /\ Done(c) = Listed(c)
    <3>1. cmd[c].pos = Len(cmd[c].backups) + 1
      <4>1. cmd[c].pos \in 1..Len(cmd[c].backups) + 1 /\ Len(cmd[c].backups) \in Nat
        BY <1>1, Known DEF StandIsSound, At
      <4> QED
        BY <4>1 DEF RolledBack
    <3> QED
      BY <1>6, <3>1, Known DEF Listed, Done
  <2>2. \A f \in Files \ excused[c] : text[f] = before[c][f]
    BY <1>1, <2>1 DEF FilesAreKept, IsKept, Restoring, Restored, At
  <2> QED
    BY <1>7, <2>1, <2>2 DEF FilesAreKept
<1>11. BackupsAreHeld'
  BY <1>1, <1>5, <1>7, HoldsNothing, HoldersStay DEF RolledBack, At
<1>12. Counts(c)
  <2> SUFFICES ASSUME ~shared' PROVE Counts(c)
    BY DEF Counts
  <2>1. (\A d \in Commands \ {c} : At(d, "idle")) /\ Tallied(c)
    BY <1>1, <1>7, RunsAlone
  <2>2. FailedOf(c)' = FailedOf(c) + 1
    BY <1>1, <1>6, Known DEF FailedOf, Trying
  <2>3. registry'.rollback + FailedOf(c)' + lost' = failures'
    BY <1>7, <1>8, <2>1, <2>2, Known, FailedIsNat DEF Tallied
  <2> QED
    BY <1>1, <1>6, <1>7, <2>1, <2>3 DEF Counts, Tallied, InTarget, At
<1>13. \A d \in Commands \ {c} : Spared(d)
  BY <1>7 DEF Spared
<1> QED
  BY <1>5, <1>6, <1>7, <1>8, <1>9, <1>10, <1>11, <1>12, <1>13, StepOfOne DEF IInv

----------------------------------------------------------------------------
(* Steps between targets: no backup is held. *)

\* Such a step has to answer for its place and its counts only.
LEMMA BetweenKeeps ==
  ASSUME IInv, NEW c \in Commands, ~Trying(c), UNCHANGED <<backup, text, hunks, edits, stray>>,
         NEW r \in Command, cmd' = [cmd EXCEPT ![c] = r], r.backups = <<>>,
         before' \in [Commands -> [Files -> Texts]], excused' \in [Commands -> SUBSET Files],
         \A d \in Commands \ {c} : before'[d] = before[d] /\ excused'[d] = excused[d],
         registry' \in Entry, EntryIsSound(registry'), torn' \in BOOLEAN, runs' \in 0..MaxRuns,
         begun' \in 0..MaxTargets, shared' \in BOOLEAN, failures' \in Nat, lost' \in Nat,
         StandIsSound(c)', FilesAreKept(c)', Counts(c),
         r.at \in {"open", "save"} => EntryIsSound(r.entry)
  PROVE  IInv'
<1>1. cmd' \in [Commands -> Command] /\ cmd'[c] = r /\ \A d \in Commands \ {c} : cmd'[d] = cmd[d]
  BY Assigned DEF IInv, TypeOK
<1>2. TypeOK'
  BY <1>1, TypesStay DEF IInv, TypeOK
<1>3. BackupsAreHeld'
  BY <1>1, HoldsNothing, HoldersStay
<1>4. \A d \in Commands \ {c} : Spared(d)
  BY DEF Spared
<1> QED
  BY <1>1, <1>2, <1>3, <1>4, StepOfOne

\* A command starts; unshared, it starts alone.
LEMMA BeginKeeps == ASSUME IInv, NEW c \in Commands, Begin(c) PROVE IInv'
<1>1. PICK n \in 1..MaxTargets - begun :
        /\ cmd' = [cmd EXCEPT ![c].at = "next", ![c].targets = n, ![c].whole = Loaded.whole]
        /\ begun' = begun + n
  BY DEF Begin
<1>2. Loaded = registry /\ registry \in Entry /\ ~registry.disabled /\ cmd[c] = Idle /\ ~Trying(c)
  BY Known DEF Begin, Active, Loaded, StandIsSound, Trying, At
<1> DEFINE r == [Idle EXCEPT !.at = "next", !.targets = n, !.whole = registry.whole]
<1>3. n \in 1..MaxTargets /\ n > 0 /\ begun + n \in 0..MaxTargets /\ runs' \in 0..MaxRuns
  BY <1>1, ReplicatorAssumption DEF Begin, IInv, TypeOK
<1>4. r \in Command
  <2>1. registry.whole \in BOOLEAN /\ n \in 0..MaxTargets
    BY <1>2, <1>3 DEF Entry
  <2> QED
    BY <2>1, IdleIsCommand DEF Command, Places
<1>5. cmd' = [cmd EXCEPT ![c] = r]
  BY <1>1, <1>2 DEF IInv, TypeOK, Command
<1>6. r.at = "next" /\ r.target = 0 /\ r.succeeded = 0 /\ r.targets = n /\ r.backups = <<>>
  BY DEF Idle
<1> HIDE DEF r
<1>7. cmd'[c] = r
  BY <1>4, <1>5, Assigned DEF IInv, TypeOK
<1>8. StandIsSound(c)' /\ FilesAreKept(c)' /\ FailedOf(c)' = 0
  BY <1>3, <1>6, <1>7 DEF StandIsSound, FilesAreKept, FailedOf, At, Trying, InTarget
<1>9. UNCHANGED <<text, backup, registry, torn, hunks, edits, before, excused, stray, failures, lost>>
  BY DEF Begin, fileVars, registryVars, tally
<1>10. Counts(c)
  <2> SUFFICES ASSUME ~shared' PROVE Counts(c)
    BY DEF Counts
  <2>1. ~shared /\ \A d \in Commands : At(d, "idle")
    BY DEF Begin
  <2>2. Tallied(c) /\ FailedOf(c) = 0
    BY <2>1, FailedIsNat DEF IInv, CountsAgree
  <2>3. registry.rollback < Strikes
    BY <1>2 DEF IInv, EntryIsSound
  <2> QED
    BY <1>6, <1>7, <1>8, <1>9, <2>1, <2>2, <2>3 DEF Counts, Tallied
<1>11. shared' \in BOOLEAN /\ begun' \in 0..MaxTargets
  BY <1>1, <1>3 DEF Begin, IInv, TypeOK
<1>12. TypeOK /\ EntryIsSound(registry)
  BY DEF IInv
<1> QED
  BY <1>2, <1>3, <1>4, <1>5, <1>6, <1>8, <1>9, <1>10, <1>11, <1>12, BetweenKeeps DEF TypeOK

\* A capture brings an entry without rollbacks.
LEMMA CaptureKeeps == ASSUME IInv, NEW c \in Commands, Capture(c) PROVE IInv'
<1>1. cmd[c] = Idle /\ ~Trying(c)
  BY Known DEF Capture, StandIsSound, Trying, At
<1> DEFINE r == [Idle EXCEPT !.at = "open", !.entry = NewEntry]
<1>2. r \in Command /\ NewEntry \in Entry
  BY IdleIsCommand DEF Command, Places
<1>3. cmd' = [cmd EXCEPT ![c] = r]
  BY <1>1 DEF IInv, TypeOK, Command, Capture
<1>4. /\ r.at = "open" /\ r.entry = NewEntry /\ r.target = 0 /\ r.succeeded = 0 /\ r.targets = 0
      /\ r.backups = <<>> /\ EntryIsSound(NewEntry) /\ NewEntry.rollback = 0
  BY ReplicatorAssumption DEF Idle, EntryIsSound, NewEntry
<1> HIDE DEF r
<1>5. cmd'[c] = r
  BY <1>2, <1>3, Assigned DEF IInv, TypeOK
<1>6. StandIsSound(c)' /\ FilesAreKept(c)' /\ FailedOf(c)' = 0
  BY <1>2, <1>4, <1>5 DEF StandIsSound, FilesAreKept, FailedOf, At, Trying, InTarget
<1>7. UNCHANGED <<text, backup, registry, torn, hunks, begun, edits, before, excused, stray, failures, lost>>
  BY DEF Capture, fileVars, registryVars, tally
<1>8. Counts(c)
  <2> SUFFICES ASSUME ~shared' PROVE Counts(c)
    BY DEF Counts
  <2>1. ~shared /\ \A d \in Commands : At(d, "idle")
    BY DEF Capture
  <2>2. Tallied(c) /\ FailedOf(c) = 0
    BY <2>1, FailedIsNat DEF IInv, CountsAgree
  <2> QED
    BY <1>4, <1>5, <1>6, <1>7, <2>1, <2>2 DEF Counts, Tallied, InTarget, Trying, At
<1>9. shared' \in BOOLEAN /\ runs' \in 0..MaxRuns
  BY ReplicatorAssumption DEF Capture, IInv, TypeOK
<1>10. TypeOK /\ EntryIsSound(registry)
  BY DEF IInv
<1> QED
  BY <1>1, <1>2, <1>3, <1>4, <1>6, <1>7, <1>8, <1>9, <1>10, BetweenKeeps DEF TypeOK

\* At the start of a target its files are as it finds them.
LEMMA StartTargetKeeps == ASSUME IInv, NEW c \in Commands, StartTarget(c) PROVE IInv'
<1> DEFINE r == [cmd[c] EXCEPT !.at = "hunk", !.target = @ + 1, !.pos = 1]
<1>1. /\ cmd[c] \in Command /\ StandIsSound(c) /\ At(c, "next") /\ ~Trying(c) /\ ~At(c, "idle") /\ TypeOK
      /\ Len(hunks) \in Nat
  BY Known DEF StartTarget, At, Trying, IInv
<1>2. /\ cmd[c].succeeded <= cmd[c].target /\ cmd[c].target + 1 <= cmd[c].targets
      /\ cmd[c].targets > 0 /\ cmd[c].target + 1 \in 0..MaxTargets /\ cmd[c].backups = <<>>
  BY <1>1, Known, ReplicatorAssumption DEF StartTarget, StandIsSound, Command
<1>3. r \in Command
  BY <1>1, <1>2 DEF Command, Places
<1>4. cmd' = [cmd EXCEPT ![c] = r]
  BY <1>1 DEF StartTarget, TypeOK, Command
<1>5. /\ r.at = "hunk" /\ r.target = cmd[c].target + 1 /\ r.pos = 1 /\ r.backups = <<>>
      /\ r.succeeded = cmd[c].succeeded /\ r.targets = cmd[c].targets
  BY <1>1, <1>2 DEF Command
<1> HIDE DEF r
<1>6. cmd'[c] = r
  BY <1>1, <1>3, <1>4, Assigned DEF TypeOK
<1>7. /\ before' \in [Commands -> [Files -> Texts]] /\ excused' \in [Commands -> SUBSET Files]
      /\ before'[c] = text /\ \A d \in Commands \ {c} : before'[d] = before[d] /\ excused'[d] = excused[d]
  BY <1>1 DEF StartTarget, TypeOK
<1>8. /\ UNCHANGED <<text, backup, registry, torn, hunks, runs, begun, edits, stray, shared, failures, lost>>
      /\ EntryIsSound(registry)
  BY DEF StartTarget, fileVars, registryVars, tally, IInv
<1>9. StandIsSound(c)'
  BY <1>1, <1>2, <1>5, <1>6, <1>8, Known DEF StandIsSound, At, Trying, InTarget
<1>10. FilesAreKept(c)'
  <2>1. Listed(c)' = {}
    BY <1>5, <1>6 DEF Listed
  <2> QED
    BY <1>7, <1>8, <2>1 DEF FilesAreKept
<1>11. Counts(c)
  <2> SUFFICES ASSUME ~shared' PROVE Counts(c)
    BY DEF Counts
  <2>1. (\A d \in Commands \ {c} : At(d, "idle")) /\ Tallied(c)
    BY <1>1, <1>8, RunsAlone
  <2>2. FailedOf(c)' = FailedOf(c)
    <3>1. cmd[c].target \in Nat /\ cmd[c].succeeded \in Nat
      BY Known
    <3>2. FailedOf(c) = cmd[c].target - cmd[c].succeeded - 0
      BY <1>1 DEF FailedOf
    <3>3. FailedOf(c)' = (cmd[c].target + 1) - cmd[c].succeeded - 1
      <4>1. /\ cmd'[c].at = "hunk" /\ cmd'[c].target = cmd[c].target + 1
            /\ cmd'[c].succeeded = cmd[c].succeeded
        BY <1>5, <1>6
      <4>2. Trying(c)'
        BY <4>1 DEF Trying
      <4> QED
        BY <4>1, <4>2 DEF FailedOf
    <3> QED
      BY <3>1, <3>2, <3>3
  <2> QED
    BY <1>1, <1>5, <1>6, <1>8, <2>1, <2>2 DEF Counts, Tallied, At
<1> QED
  BY <1>1, <1>3, <1>4, <1>5, <1>7, <1>8, <1>9, <1>10, <1>11, BetweenKeeps DEF TypeOK

LEMMA FailedKeeps == ASSUME IInv, NEW c \in Commands, Failed(c) PROVE IInv'
<1> DEFINE r == [cmd[c] EXCEPT !.at = "next"]
<1>1. /\ cmd[c] \in Command /\ StandIsSound(c) /\ At(c, "failed") /\ ~Trying(c) /\ ~At(c, "idle")
      /\ InTarget(c) /\ TypeOK
  BY Known DEF Failed, At, Trying, InTarget, IInv
<1>2. r \in Command
  BY <1>1 DEF Command, Places
<1>3. cmd' = [cmd EXCEPT ![c] = r]
  BY <1>1 DEF Failed, TypeOK, Command
<1>4. /\ r.at = "next" /\ r.target = cmd[c].target /\ r.backups = <<>>
      /\ r.succeeded = cmd[c].succeeded /\ r.targets = cmd[c].targets
  BY <1>1 DEF Command, StandIsSound
<1> HIDE DEF r
<1>5. cmd'[c] = r
  BY <1>1, <1>2, <1>3, Assigned DEF TypeOK
<1>6. /\ before' \in [Commands -> [Files -> Texts]] /\ excused' \in [Commands -> SUBSET Files]
      /\ \A d \in Commands \ {c} : before'[d] = before[d] /\ excused'[d] = excused[d]
  BY <1>1 DEF Failed, Over, Unknown, Texts, TypeOK
<1>7. /\ UNCHANGED <<text, backup, registry, torn, hunks, runs, begun, edits, stray, shared, failures, lost>>
      /\ EntryIsSound(registry)
  BY DEF Failed, fileVars, registryVars, tally, IInv
<1>8. StandIsSound(c)' /\ FilesAreKept(c)'
  BY <1>1, <1>4, <1>5 DEF StandIsSound, FilesAreKept, At, Trying, InTarget
<1>9. Counts(c)
  <2> SUFFICES ASSUME ~shared' PROVE Counts(c)
    BY DEF Counts
  <2>1. (\A d \in Commands \ {c} : At(d, "idle")) /\ Tallied(c)
    BY <1>1, <1>7, RunsAlone
  <2>2. FailedOf(c)' = FailedOf(c)
    BY <1>1, <1>4, <1>5 DEF FailedOf, Trying
  <2> QED
    BY <1>1, <1>4, <1>5, <1>7, <2>1, <2>2 DEF Counts, Tallied, At
<1> QED
  BY <1>1, <1>2, <1>3, <1>4, <1>6, <1>7, <1>8, <1>9, BetweenKeeps DEF TypeOK

\* The entry has the rollbacks of the one that was loaded, and those of the command.
LEMMA CountedIsSound ==
  ASSUME IInv, NEW c \in Commands, NEW loaded \in Entry \cup {NoEntry}
  PROVE  /\ Counted(c, loaded) \in Entry /\ EntryIsSound(Counted(c, loaded))
         /\ loaded = registry => Counted(c, loaded).rollback = registry.rollback + FailedOf(c)
         /\ loaded = NoEntry => Counted(c, loaded).rollback = FailedOf(c)
<1> DEFINE old == IF loaded = NoEntry THEN [NewEntry EXCEPT !.whole = FALSE] ELSE loaded
           rolled == old.rollback + FailedOf(c)
           e == Counted(c, loaded)
<1>1. old \in Entry /\ FailedOf(c) \in Nat /\ (loaded = NoEntry => old.rollback = 0)
  <2>1. [NewEntry EXCEPT !.whole = FALSE] \in Entry /\ [NewEntry EXCEPT !.whole = FALSE].rollback = 0
    BY DEF NewEntry, Entry
  <2> QED
    BY <2>1, FailedIsNat
<1>2. e = [old EXCEPT !.rollback = rolled, !.disabled = @ \/ rolled >= Strikes]
  BY DEF Counted
<1>3. registry \in Entry /\ registry # NoEntry
  BY Known, ReplicatorAssumption
<1>4. loaded = registry => old = registry
  BY <1>3
<1> HIDE DEF old, e, rolled
<1>5. rolled \in Nat /\ (old.disabled \/ rolled >= Strikes) \in BOOLEAN
  BY <1>1 DEF Entry, rolled
<1>6. e \in Entry /\ e.rollback = rolled /\ (~e.disabled => rolled < Strikes)
  <2>1. CASE old.disabled \/ rolled >= Strikes
    <3>1. e = [old EXCEPT !.rollback = rolled, !.disabled = TRUE]
      BY <1>1, <1>2, <2>1 DEF Entry
    <3> QED
      BY <1>1, <1>5, <3>1 DEF Entry
  <2>2. CASE ~old.disabled /\ ~(rolled >= Strikes)
    <3>1. e = [old EXCEPT !.rollback = rolled, !.disabled = FALSE]
      BY <1>1, <1>2, <2>2 DEF Entry
    <3>2. rolled < Strikes
      BY <1>5, <2>2, ReplicatorAssumption
    <3> QED
      BY <1>1, <1>5, <3>1, <3>2 DEF Entry
  <2> QED
    BY <2>1, <2>2
<1>7. EntryIsSound(e)
  BY <1>6 DEF EntryIsSound
<1> QED
  BY <1>1, <1>4, <1>6, <1>7 DEF e, rolled

LEMMA CountKeeps == ASSUME IInv, NEW c \in Commands, Count(c) PROVE IInv'
<1>1. PICK loaded \in {Loaded, NoEntry} :
        cmd' = [cmd EXCEPT ![c].at = "open", ![c].entry = Counted(c, loaded),
                           ![c].missed = IF loaded = NoEntry THEN registry.rollback ELSE 0]
  BY DEF Count
<1> DEFINE e == Counted(c, loaded)
           m == IF loaded = NoEntry THEN registry.rollback ELSE 0
           r == [cmd[c] EXCEPT !.at = "open", !.entry = e, !.missed = m]
<1>2. /\ cmd[c] \in Command /\ StandIsSound(c) /\ At(c, "next") /\ ~Trying(c) /\ ~At(c, "idle") /\ TypeOK
      /\ cmd[c].target = cmd[c].targets /\ registry \in Entry /\ registry.rollback \in Nat
      /\ failures \in Nat /\ lost \in Nat /\ FailedOf(c) \in Nat
  BY Known, FailedIsNat DEF Count, At, Trying, IInv
<1>3. loaded \in {registry, NoEntry} /\ registry # NoEntry
  BY <1>2, ReplicatorAssumption DEF Loaded
<1>4. e \in Entry /\ EntryIsSound(e) /\ m \in Nat /\ e.rollback + m = registry.rollback + FailedOf(c)
  BY <1>2, <1>3, CountedIsSound
<1> HIDE DEF e, m
<1>5. r \in Command
  BY <1>2, <1>4 DEF Command, Places
<1>6. cmd' = [cmd EXCEPT ![c] = r]
  BY <1>1, <1>2 DEF TypeOK, Command, e, m
<1>7. /\ r.at = "open" /\ r.target = cmd[c].target /\ r.backups = <<>> /\ r.entry = e /\ r.missed = m
      /\ r.succeeded = cmd[c].succeeded /\ r.targets = cmd[c].targets
  BY <1>2 DEF Command, StandIsSound
<1> HIDE DEF r
<1>8. cmd'[c] = r
  BY <1>2, <1>5, <1>6, Assigned DEF TypeOK
<1>9. /\ UNCHANGED <<text, backup, registry, torn, hunks, runs, begun, edits, before, excused, stray, shared,
                     failures, lost>>
      /\ EntryIsSound(registry)
  BY DEF Count, fileVars, registryVars, history, tally, IInv
<1>10. StandIsSound(c)' /\ FilesAreKept(c)'
  BY <1>2, <1>4, <1>7, <1>8 DEF StandIsSound, FilesAreKept, At, Trying, InTarget
<1>11. Counts(c)
  <2> SUFFICES ASSUME ~shared' PROVE Counts(c)
    BY DEF Counts
  <2>1. (\A d \in Commands \ {c} : At(d, "idle")) /\ Tallied(c)
    BY <1>2, <1>9, RunsAlone
  <2>2. FailedOf(c)' = FailedOf(c) /\ cmd[c].targets > 0
    BY <1>2, <1>7, <1>8 DEF FailedOf, Trying, StandIsSound
  <2>3. e.rollback + lost + m = failures
    BY <1>2, <1>4, <2>1 DEF Tallied, Entry
  <2> QED
    BY <1>7, <1>8, <1>9, <2>1, <2>2, <2>3 DEF Counts, Tallied, InTarget, Trying, At
<1> QED
  BY <1>2, <1>4, <1>5, <1>6, <1>7, <1>9, <1>10, <1>11, BetweenKeeps DEF TypeOK

LEMMA OpenKeeps == ASSUME IInv, NEW c \in Commands, Open(c) PROVE IInv'
<1> DEFINE r == [cmd[c] EXCEPT !.at = "save"]
<1>1. /\ cmd[c] \in Command /\ StandIsSound(c) /\ At(c, "open") /\ ~Trying(c) /\ ~At(c, "idle") /\ TypeOK
      /\ EntryIsSound(cmd[c].entry)
  BY Known DEF Open, At, Trying, IInv
<1>2. r \in Command
  BY <1>1 DEF Command, Places
<1>3. cmd' = [cmd EXCEPT ![c] = r]
  BY <1>1 DEF Open, TypeOK, Command
<1>4. /\ r.at = "save" /\ r.target = cmd[c].target /\ r.backups = <<>> /\ r.entry = cmd[c].entry
      /\ r.succeeded = cmd[c].succeeded /\ r.targets = cmd[c].targets /\ r.missed = cmd[c].missed
  BY <1>1 DEF Command, StandIsSound
<1> HIDE DEF r
<1>5. cmd'[c] = r
  BY <1>1, <1>2, <1>3, Assigned DEF TypeOK
<1>6. /\ UNCHANGED <<text, backup, registry, hunks, runs, begun, edits, before, excused, stray, shared,
                     failures, lost>>
      /\ torn' = TRUE /\ EntryIsSound(registry)
  BY DEF Open, fileVars, history, tally, IInv
<1>7. StandIsSound(c)' /\ FilesAreKept(c)'
  BY <1>1, <1>4, <1>5 DEF StandIsSound, FilesAreKept, At, Trying, InTarget
<1>8. Counts(c)
  <2> SUFFICES ASSUME ~shared' PROVE Counts(c)
    BY DEF Counts
  <2>1. (\A d \in Commands \ {c} : At(d, "idle")) /\ Tallied(c)
    BY <1>1, <1>6, RunsAlone
  <2>2. FailedOf(c)' = FailedOf(c)
    BY <1>1, <1>4, <1>5 DEF FailedOf, Trying
  <2> QED
    BY <1>1, <1>4, <1>5, <1>6, <2>1, <2>2 DEF Counts, Tallied, InTarget, Trying, At
<1> QED
  BY <1>1, <1>2, <1>3, <1>4, <1>6, <1>7, <1>8, BetweenKeeps DEF TypeOK

\* What is saved has all failures but the lost ones, and a captured template has none.
LEMMA SaveKeeps == ASSUME IInv, NEW c \in Commands, Save(c) PROVE IInv'
<1>1. /\ cmd[c] \in Command /\ StandIsSound(c) /\ At(c, "save") /\ ~Trying(c) /\ ~At(c, "idle") /\ TypeOK
      /\ cmd[c].entry \in Entry /\ EntryIsSound(cmd[c].entry) /\ cmd[c].missed \in Nat
      /\ cmd[c].entry.rollback \in Nat /\ lost \in Nat /\ failures \in Nat
  BY Known DEF Save, At, Trying, IInv, StandIsSound, Command, Entry
<1>2. /\ Idle \in Command /\ Idle.at = "idle" /\ Idle.backups = <<>>
      /\ Idle.target = 0 /\ Idle.succeeded = 0 /\ Idle.targets = 0
  BY IdleIsCommand DEF Idle
<1>3. cmd' = [cmd EXCEPT ![c] = Idle] /\ cmd'[c] = Idle
  BY <1>1, <1>2, Assigned DEF Save, TypeOK
<1>4. /\ UNCHANGED <<text, backup, hunks, runs, begun, edits, before, excused, stray, shared>>
      /\ torn' = FALSE /\ registry' = cmd[c].entry
  BY DEF Save, fileVars
<1>5. IF cmd[c].targets = 0 THEN failures' = 0 /\ lost' = 0
      ELSE failures' = failures /\ lost' = lost + cmd[c].missed
  BY DEF Save, tally
<1>6. failures' \in Nat /\ lost' \in Nat
  BY <1>1, <1>5
<1>7. StandIsSound(c)' /\ FilesAreKept(c)' /\ FailedOf(c)' = 0
  BY <1>2, <1>3, ReplicatorAssumption DEF StandIsSound, FilesAreKept, FailedOf, At, Trying, InTarget
<1>8. Counts(c)
  <2> SUFFICES ASSUME ~shared' PROVE Counts(c)
    BY DEF Counts
  <2>1. (\A d \in Commands \ {c} : At(d, "idle")) /\ Tallied(c)
    BY <1>1, <1>4, RunsAlone
  <2>2. registry'.rollback + FailedOf(c)' + lost' = failures'
    <3>1. IF cmd[c].targets = 0 THEN cmd[c].entry.rollback = 0
          ELSE cmd[c].entry.rollback + lost + cmd[c].missed = failures
      BY <1>1, <2>1 DEF Tallied, At
    <3> QED
      BY <1>1, <1>4, <1>5, <1>7, <3>1
  <2> QED
    BY <1>2, <1>3, <1>4, <2>1, <2>2 DEF Counts, Tallied, InTarget, Trying, At
<1> QED
  BY <1>1, <1>2, <1>3, <1>4, <1>6, <1>7, <1>8, BetweenKeeps DEF TypeOK

\* What the user writes is an excuse for every target at work.
LEMMA EditKeeps == ASSUME IInv, NEW f \in Files, Edit(f) PROVE IInv'
<1>1. /\ text' \in [Files -> Texts] /\ \A g \in Files \ {f} : text'[g] = text[g]
  <2> DEFINE new == (IF text[f] = NoFile THEN {} ELSE text[f]) \cup {<<0, edits'>>}
  <2>1. edits' \in 1..MaxEdits
    BY ReplicatorAssumption DEF Edit, IInv, TypeOK
  <2>2. <<0, edits'>> \in Marks
    BY <2>1 DEF Marks
  <2>3. new \in Texts
    BY <2>2 DEF IInv, TypeOK, Texts
  <2>4. text' = [text EXCEPT ![f] = new]
    BY DEF Edit, IInv, TypeOK
  <2> HIDE DEF new
  <2> QED
    BY <2>3, <2>4 DEF IInv, TypeOK
<1>2. /\ excused' \in [Commands -> SUBSET Files]
      /\ \A d \in Commands : /\ excused[d] \subseteq excused'[d]
                             /\ InTarget(d) => f \in excused'[d]
  BY DEF Edit, IInv, TypeOK
<1>3. UNCHANGED <<backup, registry, torn, hunks, cmd, runs, begun, before, stray, shared, failures, lost>>
  BY DEF Edit, registryVars, tally
<1>4. TypeOK'
  BY <1>1, <1>2, <1>3, TypesStay, ReplicatorAssumption DEF IInv, TypeOK, Edit
<1>5. ASSUME NEW d \in Commands PROVE StandIsSound(d)' /\ FilesAreKept(d)'
  <2>1. StandIsSound(d)'
    BY <1>3, Known DEF StandIsSound, At, File, Listed, Trying, InTarget
  <2>2. FilesAreKept(d)'
    <3> SUFFICES ASSUME InTarget(d), NEW g \in Files \ excused'[d]
                 PROVE  IF g \in Listed(d) THEN IsKept(d, g)' ELSE text'[g] = before[d][g]
      BY <1>3 DEF FilesAreKept, InTarget, Trying, At, Listed
    <3>1. g \notin excused[d] /\ text'[g] = text[g]
      BY <1>1, <1>2
    <3>2. IF g \in Listed(d) THEN IsKept(d, g) ELSE text[g] = before[d][g]
      BY <3>1, Known DEF FilesAreKept
    <3> QED
      BY <1>3, <3>1, <3>2 DEF IsKept, Kept, Restored, Restoring, Done, Held, At
  <2> QED
    BY <2>1, <2>2
<1>6. BackupsAreHeld' /\ EntryIsSound(registry)'
  BY <1>3 DEF IInv, BackupsAreHeld, EntryIsSound, Holds, Trying, Ahead, Listed
<1>7. ~shared' => OneRuns' /\ CountsAgree'
  BY <1>3 DEF IInv, OneRuns, CountsAgree, At, Tallied, FailedOf, Trying, InTarget
<1> QED
  BY <1>3, <1>4, <1>5, <1>6, <1>7 DEF IInv, EntryIsSound

----------------------------------------------------------------------------
LEMMA InitHolds == Init => IInv
<1> SUFFICES ASSUME Init PROVE IInv
  OBVIOUS
<1>1. cmd \in [Commands -> Command] /\ \A c \in Commands : cmd[c] = Idle
  BY IdleIsCommand DEF Init
<1>2. TypeOK
  <2>1. Unknown \in [Files -> Texts] /\ {{}, NoFile} \subseteq Texts
    BY DEF Unknown, Texts
  <2>2. text \in [Files -> Texts] /\ backup \in [Files -> Texts]
    BY <2>1 DEF Init
  <2>3. before \in [Commands -> [Files -> Texts]] /\ excused \in [Commands -> SUBSET Files]
    BY <2>1 DEF Init
  <2>4. runs \in 0..MaxRuns /\ begun \in 0..MaxTargets /\ edits \in 0..MaxEdits
    BY ReplicatorAssumption DEF Init
  <2>5. /\ registry \in Entry /\ torn \in BOOLEAN /\ hunks \in Templates
        /\ stray \subseteq Files /\ shared \in BOOLEAN /\ {failures, lost} \subseteq Nat
    <3>1. registry = NewEntry /\ torn = FALSE /\ hunks \in Templates /\ stray = {} /\ shared = FALSE
          /\ failures = 0 /\ lost = 0
      BY Zenon DEF Init
    <3>2. {failures, lost} \subseteq Nat
      BY <3>1
    <3> QED
      BY <3>1, <3>2, IdleIsCommand
  <2> QED
    BY <1>1, <2>2, <2>3, <2>4, <2>5, Zenon DEF TypeOK
<1>3. BackupsAreHeld
  BY DEF Init, BackupsAreHeld
<1>4. EntryIsSound(registry) /\ registry.rollback = 0 /\ lost = 0 /\ failures = 0
  BY ReplicatorAssumption DEF Init, EntryIsSound, NewEntry
<1>5. \A c \in Commands : StandIsSound(c) /\ FilesAreKept(c) /\ At(c, "idle") /\ Tallied(c)
  BY <1>1, <1>4 DEF StandIsSound, FilesAreKept, At, Tallied, FailedOf, InTarget, Trying, Idle
<1> QED
  BY <1>1, <1>2, <1>3, <1>4, <1>5 DEF IInv, OneRuns, CountsAgree, At

LEMMA StutterKeeps == ASSUME IInv, UNCHANGED vars PROVE IInv'
<1>1. UNCHANGED <<text, backup, registry, torn, hunks, cmd, runs, begun, edits, before, excused, stray,
                  shared, failures, lost>>
  BY DEF vars, fileVars, registryVars, history, tally
<1>2. TypeOK'
  BY <1>1, TypesStay DEF IInv, TypeOK
<1>3. BackupsAreHeld' /\ EntryIsSound(registry)'
  BY <1>1 DEF IInv, BackupsAreHeld, EntryIsSound, Holds, Trying, Ahead, Listed
<1>4. ASSUME NEW c \in Commands PROVE StandIsSound(c)' /\ FilesAreKept(c)'
  <2>1. StandIsSound(c)'
    BY <1>1, Known DEF StandIsSound, At, File, Listed, Trying, InTarget
  <2>2. FilesAreKept(c)'
    <3>1. \A f \in Files : IsKept(c, f)' <=> IsKept(c, f)
      BY <1>1 DEF IsKept, Kept, Restored, Restoring, Done, Held, At
    <3>2. FilesAreKept(c)
      BY Known
    <3> QED
      BY <1>1, <3>1, <3>2 DEF FilesAreKept, Listed, InTarget, Trying, At
  <2> QED
    BY <2>1, <2>2
<1>5. ~shared' => OneRuns' /\ CountsAgree'
  BY <1>1 DEF IInv, OneRuns, CountsAgree, At, Tallied, FailedOf, Trying, InTarget
<1> QED
  BY <1>1, <1>2, <1>3, <1>4, <1>5 DEF IInv, EntryIsSound

LEMMA InductiveInvariant == Spec => []IInv
<1>1. IInv /\ [Next]_vars => IInv'
  <2> SUFFICES ASSUME IInv, [Next]_vars PROVE IInv'
    OBVIOUS
  <2>1. ASSUME NEW c \in Commands, Step(c) PROVE IInv'
    BY <2>1, BeginKeeps, StartTargetKeeps, PassOverKeeps, BackupKeeps, WriteKeeps, RaiseKeeps,
       ValidateKeeps, CleanKeeps, CleanRaisesKeeps, SucceedKeeps, LookKeeps, PutBackKeeps, UnlinkKeeps,
       RollbackRaisesKeeps, RolledBackKeeps, FailedKeeps, CountKeeps, OpenKeeps, SaveKeeps, CaptureKeeps,
       DieKeeps DEF Step
  <2> QED
    BY <2>1, EditKeeps, StutterKeeps DEF Next
<1> QED
  BY <1>1, InitHolds, PTL DEF Spec

\* FailuresLeaveNothing: a target that is reported as failed has every file back as it
\* found it, whatever raised on the way, the rollback included; but for files that
\* somebody else wrote or backed up meanwhile, that it backed up with a hunk already in
\* them, or whose backup it had cleaned up when that raised.
THEOREM FailuresNeverLeaveAnything == Spec => []FailuresLeaveNothing
<1>1. IInv => FailuresLeaveNothing
  <2> SUFFICES ASSUME IInv, NEW c \in Commands, At(c, "failed"), NEW f \in Files \ excused[c]
               PROVE  text[f] = before[c][f]
    BY DEF FailuresLeaveNothing, RollbackRestores, IInv
  <2>1. StandIsSound(c) /\ FilesAreKept(c) /\ InTarget(c) /\ ~Trying(c)
    BY Known DEF InTarget, Trying, At
  <2>2. Listed(c) = {}
    BY <2>1 DEF StandIsSound, Listed
  <2> QED
    BY <2>1, <2>2 DEF FilesAreKept
<1> QED
  BY <1>1, InductiveInvariant, PTL

\* BackupsAreRemoved: when all commands have ended, no backup is left but those of a
\* command that was killed or whose copy or rollback raised.
THEOREM BackupsAreAlwaysRemoved == Spec => []BackupsAreRemoved
<1>1. IInv => BackupsAreRemoved
  BY DEF IInv, BackupsAreHeld, BackupsAreRemoved, Holds, Trying, At
<1> QED
  BY <1>1, InductiveInvariant, PTL

\* FailingIsGivenUp: commands that run one at a time never begin with a template that
\* has failed as often as the limit, but for failures that were lost with a command that
\* ended early or could not read the registry.
THEOREM FailingIsAlwaysGivenUp == Spec => []FailingIsGivenUp
<1>1. IInv => FailingIsGivenUp
  <2> SUFFICES ASSUME IInv, ~shared, NEW c \in Commands, At(c, "next"), cmd[c].target = 0
               PROVE  failures < Strikes + lost
    BY DEF FailingIsGivenUp
  <2>1. Tallied(c) /\ StandIsSound(c) /\ ~Trying(c) /\ cmd[c].succeeded \in Nat
    BY RunsAlone, Known DEF At, Trying
  <2>2. FailedOf(c) = 0
    BY <2>1 DEF StandIsSound, FailedOf
  <2> QED
    BY <2>1, <2>2, Known, ReplicatorAssumption DEF Tallied
<1> QED
  BY <1>1, InductiveInvariant, PTL
=============================================================================
