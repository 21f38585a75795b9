------------------------- MODULE FeatureReplicator -------------------------
(***************************************************************************)
(* `citadel replicate`: tools/feature_replicator.py (the template registry, *)
(* replicate, _apply_to_target, _rollback, capture) behind the decider and  *)
(* the executor of services/reuse.                                          *)
(*                                                                          *)
(* A command patches the files of each target in place, hunk by hunk, with  *)
(* a backup before each hunk, runs the validation command and rolls back    *)
(* when it fails.  The template counts its rollbacks and is disabled after  *)
(* the third.  Two commands may run at once: the lock of the registry is    *)
(* one of threads.  The user edits files meanwhile, a command may be        *)
(* killed, and any call on a file may raise, having done some of its work.  *)
(*                                                                          *)
(* Abstracted: one template; the text of a file is the set of marks left in *)
(* it by hunks, <<target, hunk>>, and by edits, <<0, n>>; no placeholder is *)
(* in a path, so all targets patch the same files; of the counts of the     *)
(* template only the rollbacks, the one that is acted on, are kept.         *)
(***************************************************************************)
EXTENDS Naturals, Sequences, FiniteSets

CONSTANTS Files, Commands,
          NoFile,     \* the file does not exist
          NoEntry,    \* the registry is not read, or has no template
          Templates,  \* the files of the hunks, in order: one template of these
          Absent,     \* bounds the files that may be missing at first
          Strikes,    \* rollbacks that disable a template (3)
          MaxTargets, \* bounds the targets of all commands
          MaxRuns,    \* bounds the commands begun
          MaxEdits    \* bounds the user's edits

Entry == [whole : BOOLEAN, disabled : BOOLEAN, rollback : Nat]

ASSUME ReplicatorAssumption == /\ Templates \subseteq Seq(Files) /\ Strikes \in Nat \ {0}
                               /\ {MaxTargets, MaxRuns, MaxEdits} \subseteq Nat
                               /\ NoEntry \notin Entry

VARIABLES text,      \* file -> its marks, or NoFile
          backup,    \* file -> what its .rep_bak has, or NoFile
          registry,  \* the entry of the template that was last written
          torn,      \* the registry does not parse
          hunks,     \* the files of the hunks of the template
          cmd,       \* command -> where it stands and what it holds
          runs, begun, edits, \* commands, targets and edits so far
          before,    \* command -> the files when its target began (history)
          excused,   \* command -> files that others wrote or backed up since, that it
                     \* backed up again after a hunk was in, or whose backup it had
                     \* cleaned up when that raised (history)
          stray,     \* files with a backup that a command left as it was killed, or
                     \* as the copy or a rollback raised (history)
          shared,    \* two commands ran at once (history)
          failures,  \* targets that failed since the template was captured (history)
          lost       \* those of them that the entry does not count, because the command
                     \* ended without saving or could not read the registry (history)

fileVars == <<text, backup>>
registryVars == <<registry, torn>>
tally == <<failures, lost>>
history == <<before, excused, stray, shared, tally>>
vars == <<fileVars, registryVars, hunks, cmd, runs, begun, edits, history>>

Marks == {<<0, n>> : n \in 1..MaxEdits} \cup {<<t, h>> : t \in 1..MaxTargets, h \in 1..Len(hunks)}

NewEntry == [whole |-> TRUE, disabled |-> FALSE, rollback |-> 0]

\* `pos` is the place in the hunks, then in the backups; `again` says that an exception
\* is being handled; `missed` are the counts that the entry in hand was made without.
Idle == [at |-> "idle", targets |-> 0, target |-> 0, pos |-> 0, source |-> {},
         backups |-> <<>>, again |-> FALSE, succeeded |-> 0, entry |-> NoEntry,
         missed |-> 0, whole |-> TRUE]

At(c, place) == cmd[c].at = place

Named == {hunks[i] : i \in 1..Len(hunks)}
Trying(c) == cmd[c].at \in {"hunk", "write", "clean", "look", "copy", "unlink"}
InTarget(c) == Trying(c) \/ At(c, "failed")
Listed(c) == {cmd[c].backups[i] : i \in 1..Len(cmd[c].backups)}
Unknown == [f \in Files |-> NoFile]

\* _load_registry: nothing, when the file does not parse.
Loaded == IF torn THEN NoEntry ELSE registry

Init == /\ hunks \in Templates
        /\ text \in {t \in [Files -> {{}, NoFile}] :
                     \A f \in Files : IF f \in Named THEN t[f] = NoFile => f \in Absent ELSE t[f] = NoFile}
        /\ backup = [f \in Files |-> NoFile]
        /\ registry = NewEntry /\ torn = FALSE
        /\ cmd = [c \in Commands |-> Idle] /\ runs = 0 /\ begun = 0 /\ edits = 0
        /\ before = [c \in Commands |-> Unknown] /\ excused = [c \in Commands |-> {}]
        /\ stray = {} /\ shared = FALSE /\ failures = 0 /\ lost = 0

\* Whoever writes f, or takes its backup, spoils the comparison of the others.
Crosses(c, f) ==
  [d \in Commands |-> IF d = c \/ ~InTarget(d) THEN excused[d] ELSE excused[d] \cup {f}]

\* A target is over.
Over(c) == before' = [before EXCEPT ![c] = Unknown] /\ excused' = [excused EXCEPT ![c] = {}]

\* The user writes a file, perhaps a new one.  Files that no hunk names are not followed.
Edit(f) ==
  /\ f \in Named /\ edits < MaxEdits /\ edits' = edits + 1
  /\ text' = [text EXCEPT ![f] = (IF @ = NoFile THEN {} ELSE @) \cup {<<0, edits'>>}]
  /\ excused' = [d \in Commands |-> IF InTarget(d) THEN excused[d] \cup {f} ELSE excused[d]]
  /\ UNCHANGED <<backup, registryVars, hunks, cmd, runs, begun, before, stray, shared, tally>>

\* register_template, at the end of capture: the template starts afresh.
Capture(c) ==
  /\ At(c, "idle") /\ runs < MaxRuns /\ runs' = runs + 1
  /\ cmd' = [cmd EXCEPT ![c].at = "open", ![c].entry = NewEntry]
  /\ shared' = (shared \/ \E d \in Commands : ~At(d, "idle"))
  /\ UNCHANGED <<fileVars, registryVars, hunks, begun, edits, before, excused, stray, tally>>

\* The template can be used.
Active == IF Loaded = NoEntry THEN FALSE ELSE ~Loaded.disabled

\* ReuseDecider.decide finds the template active, and so does replicate, which loads it
\* once more and else raises: only the second look counts.
Begin(c) ==
  /\ At(c, "idle") /\ runs < MaxRuns /\ runs' = runs + 1
  /\ Active
  /\ \E n \in 1..MaxTargets - begun :
       /\ cmd' = [cmd EXCEPT ![c].at = "next", ![c].targets = n, ![c].whole = Loaded.whole]
       /\ begun' = begun + n
  /\ shared' = (shared \/ \E d \in Commands : ~At(d, "idle"))
  /\ UNCHANGED <<fileVars, registryVars, hunks, edits, before, excused, stray, tally>>

\* _apply_to_target begins, ...
StartTarget(c) ==
  /\ At(c, "next") /\ cmd[c].target < cmd[c].targets
  /\ cmd' = [cmd EXCEPT ![c].at = "hunk", ![c].target = @ + 1, ![c].pos = 1]
  /\ before' = [before EXCEPT ![c] = text] /\ excused' = [excused EXCEPT ![c] = {}]
  /\ UNCHANGED <<fileVars, registryVars, hunks, runs, begun, edits, stray, shared, tally>>

\* The hunks of the entry that c works from; an entry that was written over an
\* unreadable registry has none.
Left(c) == IF cmd[c].whole THEN Len(hunks) + 1 - cmd[c].pos ELSE 0
File(c) == hunks[cmd[c].pos]
Held(c) == cmd[c].backups[cmd[c].pos]

\* ... passes over a file that is not there, ...
PassOver(c) ==
  /\ At(c, "hunk") /\ Left(c) > 0 /\ text[File(c)] = NoFile
  /\ cmd' = [cmd EXCEPT ![c].pos = @ + 1]
  /\ UNCHANGED <<fileVars, registryVars, hunks, runs, begun, edits, history>>

\* A mutant of Recover: only the last backup is put back, if there is one.
RecoverLast(c, raised) ==
  cmd' = [cmd EXCEPT ![c].at = "look", ![c].source = {}, ![c].again = raised,
                     ![c].pos = IF cmd[c].backups = <<>> THEN 1 ELSE Len(cmd[c].backups)]

\* _rollback is called, for an exception or for the verdict of the validation.
Recover(c, raised) ==
  cmd' = [cmd EXCEPT ![c].at = "look", ![c].pos = 1, ![c].source = {}, ![c].again = raised]

\* ... copies one that is, over the backup of an earlier hunk perhaps, and reads it; when
\* the copy raises, what there is of it is not among the backups, ...
Backup(c) ==
  /\ At(c, "hunk") /\ Left(c) > 0 /\ text[File(c)] # NoFile
  /\ \E copied \in {text[File(c)], {}} :
       /\ backup' = [backup EXCEPT ![File(c)] = copied]
       /\ excused' = [Crosses(c, File(c)) EXCEPT
                       ![c] = IF copied # before[c][File(c)] THEN @ \cup {File(c)} ELSE @]
       /\ \/ /\ copied = text[File(c)] /\ UNCHANGED stray
             /\ cmd' = [cmd EXCEPT ![c].at = "write", ![c].backups = Append(@, File(c)),
                                   ![c].source = text[File(c)]]
          \/ Recover(c, TRUE) /\ stray' = stray \cup {File(c)}
  /\ UNCHANGED <<text, registryVars, hunks, runs, begun, edits, before, shared, tally>>

\* ... and writes it, if the text to be found is in it; a write that raises may leave it
\* truncated.
Write(c) ==
  /\ At(c, "write")
  /\ LET mark == <<cmd[c].target, cmd[c].pos>> IN
     \/ /\ UNCHANGED <<text, excused>>
        /\ cmd' = [cmd EXCEPT ![c].at = "hunk", ![c].pos = @ + 1, ![c].source = {}]
     \/ /\ mark \notin cmd[c].source /\ excused' = Crosses(c, File(c))
        /\ \/ /\ text' = [text EXCEPT ![File(c)] = cmd[c].source \cup {mark}]
              /\ cmd' = [cmd EXCEPT ![c].at = "hunk", ![c].pos = @ + 1, ![c].source = {}]
           \/ text' = [text EXCEPT ![File(c)] = {}] /\ Recover(c, TRUE)
  /\ UNCHANGED <<backup, registryVars, hunks, runs, begun, edits, before, stray, shared, tally>>

\* Another exception on the way, before anything is written.
Raise(c) ==
  /\ cmd[c].at \in {"hunk", "write"} /\ Recover(c, TRUE)
  /\ UNCHANGED <<fileVars, registryVars, hunks, runs, begun, edits, history>>

\* The validation command; its verdict is anyone's guess, but an entry without hunks
\* has no command either and passes.
Validate(c) ==
  /\ At(c, "hunk") /\ Left(c) = 0
  /\ \/ cmd' = [cmd EXCEPT ![c].at = "clean", ![c].pos = 1]
     \/ cmd[c].whole /\ Recover(c, FALSE)
  /\ UNCHANGED <<fileVars, registryVars, hunks, runs, begun, edits, history>>

\* The backups are unlinked after a success, one by one, ...
Clean(c) ==
  /\ At(c, "clean") /\ cmd[c].pos <= Len(cmd[c].backups)
  /\ backup' = [backup EXCEPT ![Held(c)] = NoFile] /\ excused' = Crosses(c, Held(c))
  /\ cmd' = [cmd EXCEPT ![c].pos = @ + 1]
  /\ UNCHANGED <<text, registryVars, hunks, runs, begun, edits, before, stray, shared, tally>>

\* ... and when that raises, the target is rolled back without those that are gone.
CleanRaises(c) ==
  /\ At(c, "clean") /\ cmd[c].pos <= Len(cmd[c].backups) /\ Recover(c, TRUE)
  /\ excused' = [excused EXCEPT ![c] = @ \cup {cmd[c].backups[i] : i \in 1..cmd[c].pos - 1}]
  /\ UNCHANGED <<fileVars, registryVars, hunks, runs, begun, edits, before, stray, shared, tally>>

Succeed(c) ==
  /\ At(c, "clean") /\ cmd[c].pos > Len(cmd[c].backups) /\ Over(c)
  /\ cmd' = [cmd EXCEPT ![c].at = "next", ![c].succeeded = @ + 1, ![c].backups = <<>>]
  /\ UNCHANGED <<fileVars, registryVars, hunks, runs, begun, edits, stray, shared, tally>>

\* A mutant of Look: the rollback ends at a backup that is not there.
LookOnce(c) ==
  /\ At(c, "look") /\ cmd[c].pos <= Len(cmd[c].backups)
  /\ cmd' = [cmd EXCEPT ![c].at = IF backup[Held(c)] = NoFile THEN @ ELSE "copy",
                        ![c].pos = IF backup[Held(c)] = NoFile THEN Len(cmd[c].backups) + 1 ELSE @]
  /\ UNCHANGED <<fileVars, registryVars, hunks, runs, begun, edits, history>>

\* _rollback looks whether the next backup is there, in the order they were made, ...
Look(c) ==
  /\ At(c, "look") /\ cmd[c].pos <= Len(cmd[c].backups)
  /\ cmd' = [cmd EXCEPT ![c].at = IF backup[Held(c)] = NoFile THEN @ ELSE "copy",
                        ![c].pos = IF backup[Held(c)] = NoFile THEN @ + 1 ELSE @]
  /\ UNCHANGED <<fileVars, registryVars, hunks, runs, begun, edits, history>>

\* ... copies it back, ...
PutBack(c) ==
  /\ At(c, "copy") /\ backup[Held(c)] # NoFile
  /\ text' = [text EXCEPT ![Held(c)] = backup[Held(c)]] /\ excused' = Crosses(c, Held(c))
  /\ cmd' = [cmd EXCEPT ![c].at = "unlink"]
  /\ UNCHANGED <<backup, registryVars, hunks, runs, begun, edits, before, stray, shared, tally>>

\* ... and unlinks it.
Unlink(c) ==
  /\ At(c, "unlink")
  /\ backup' = [backup EXCEPT ![Held(c)] = NoFile] /\ excused' = Crosses(c, Held(c))
  /\ cmd' = [cmd EXCEPT ![c].at = "look", ![c].pos = @ + 1]
  /\ UNCHANGED <<text, registryVars, hunks, runs, begun, edits, before, stray, shared, tally>>

\* The targets of c that failed.
FailedOf(c) == cmd[c].target - cmd[c].succeeded - (IF Trying(c) THEN 1 ELSE 0)

\* The command ends before its counts are saved, and with its backups where they are.
Ends(c) == /\ cmd' = [cmd EXCEPT ![c] = Idle] /\ before' = [before EXCEPT ![c] = Unknown]
           /\ stray' = stray \cup Listed(c) /\ lost' = lost + FailedOf(c)

\* A call of the rollback raises, for a backup that another command has unlinked among
\* others; the copy may have truncated the file.  In the handling of an exception, that
\* is the end of the command; else it is the exception to be handled.
RollbackRaises(c) ==
  /\ cmd[c].at \in {"copy", "unlink"}
  /\ \/ UNCHANGED text /\ excused' = [excused EXCEPT ![c] = IF cmd[c].again THEN {} ELSE @]
     \/ /\ At(c, "copy") /\ backup[Held(c)] # NoFile
        /\ text' = [text EXCEPT ![Held(c)] = {}]
        /\ excused' = [Crosses(c, Held(c)) EXCEPT ![c] = IF cmd[c].again THEN {} ELSE @]
  /\ IF cmd[c].again THEN Ends(c) ELSE Recover(c, TRUE) /\ UNCHANGED <<before, stray, lost>>
  /\ UNCHANGED <<backup, registryVars, hunks, runs, begun, edits, shared, failures>>

RolledBack(c) ==
  /\ At(c, "look") /\ cmd[c].pos > Len(cmd[c].backups)
  /\ cmd' = [cmd EXCEPT ![c].at = "failed", ![c].backups = <<>>] /\ failures' = failures + 1
  /\ UNCHANGED <<fileVars, registryVars, hunks, runs, begun, edits, before, excused, stray, shared, lost>>

Failed(c) ==
  /\ At(c, "failed") /\ cmd' = [cmd EXCEPT ![c].at = "next"] /\ Over(c)
  /\ UNCHANGED <<fileVars, registryVars, hunks, runs, begun, edits, stray, shared, tally>>

\* A mutant of Counted: one rollback more is allowed.
CountedPast(c, loaded) ==
  LET old == IF loaded = NoEntry THEN [NewEntry EXCEPT !.whole = FALSE] ELSE loaded
      rolled == old.rollback + FailedOf(c)
  IN [old EXCEPT !.rollback = rolled, !.disabled = @ \/ rolled > Strikes]

\* The entry with the results of c; without an entry, one that has only counts.
Counted(c, loaded) ==
  LET old == IF loaded = NoEntry THEN [NewEntry EXCEPT !.whole = FALSE] ELSE loaded
      rolled == old.rollback + FailedOf(c)
  IN [old EXCEPT !.rollback = rolled, !.disabled = @ \/ rolled >= Strikes]

\* When all targets are done the registry is loaded again; that it cannot be read is
\* taken for an empty one, ...
Count(c) ==
  /\ At(c, "next") /\ cmd[c].target = cmd[c].targets
  /\ \E loaded \in {Loaded, NoEntry} :
       cmd' = [cmd EXCEPT ![c].at = "open", ![c].entry = Counted(c, loaded),
                          ![c].missed = IF loaded = NoEntry THEN registry.rollback ELSE 0]
  /\ UNCHANGED <<fileVars, registryVars, hunks, runs, begun, edits, history>>

\* ... truncated, and written.
Open(c) == /\ At(c, "open") /\ torn' = TRUE /\ cmd' = [cmd EXCEPT ![c].at = "save"]
           /\ UNCHANGED <<fileVars, registry, hunks, runs, begun, edits, history>>

\* A captured template has not failed yet.
Save(c) == /\ At(c, "save") /\ torn' = FALSE /\ registry' = cmd[c].entry
           /\ cmd' = [cmd EXCEPT ![c] = Idle]
           /\ IF cmd[c].targets = 0 THEN failures' = 0 /\ lost' = 0
              ELSE UNCHANGED failures /\ lost' = lost + cmd[c].missed
           /\ UNCHANGED <<fileVars, hunks, runs, begun, edits, before, excused, stray, shared>>

\* The command is killed, or the opening or the writing of the registry raises.  What it
\* was writing may be left truncated, as after the step that raises.
Die(c) ==
  /\ ~At(c, "idle") /\ Ends(c) /\ excused' = [excused EXCEPT ![c] = {}]
  /\ UNCHANGED <<fileVars, registryVars, hunks, runs, begun, edits, shared, failures>>

Step(c) == \/ Begin(c) \/ StartTarget(c) \/ PassOver(c) \/ Backup(c) \/ Write(c)
           \/ Raise(c) \/ Validate(c) \/ Clean(c) \/ CleanRaises(c) \/ Succeed(c)
           \/ Look(c) \/ PutBack(c) \/ Unlink(c) \/ RollbackRaises(c) \/ RolledBack(c) \/ Failed(c)
           \/ Count(c) \/ Open(c) \/ Save(c) \/ Capture(c) \/ Die(c)

Next == (\E f \in Files : Edit(f)) \/ (\E c \in Commands : Step(c))

Spec == Init /\ [][Next]_vars

----------------------------------------------------------------------------
Texts == (SUBSET Marks) \cup {NoFile}
Places == {"idle", "next", "hunk", "write", "clean", "look", "copy", "unlink", "failed", "open", "save"}
Command == [at : Places, targets : 0..MaxTargets, target : 0..MaxTargets, pos : Nat,
            source : SUBSET Marks, backups : Seq(Files), again : BOOLEAN,
            succeeded : 0..MaxTargets, entry : Entry \cup {NoEntry}, missed : Nat, whole : BOOLEAN]

TypeOK ==
  /\ text \in [Files -> Texts] /\ backup \in [Files -> Texts]
  /\ registry \in Entry /\ torn \in BOOLEAN /\ hunks \in Templates
  /\ cmd \in [Commands -> Command]
  /\ runs \in 0..MaxRuns /\ begun \in 0..MaxTargets /\ edits \in 0..MaxEdits
  /\ before \in [Commands -> [Files -> Texts]] /\ excused \in [Commands -> SUBSET Files]
  /\ stray \subseteq Files /\ shared \in BOOLEAN /\ {failures, lost} \subseteq Nat

\* A target that is reported as failed has every file as it was when the target began,
\* wherever it failed or raised, the rollback itself included; except a file that
\* somebody else wrote or backed up meanwhile, one with a hunk in it already when it was
\* backed up for the next, and one whose backup had been cleaned up.
RollbackRestores ==
  \A c \in Commands : At(c, "failed") =>
    \A f \in Files : text[f] = before[c][f] \/ f \in excused[c]

\* With the types of files, registry and commands.
FailuresLeaveNothing == TypeOK /\ RollbackRestores

\* No backup outlives the commands, however they take each other's backups for their
\* own, but for those of a command that was killed or whose copy or rollback raised.
BackupsAreRemoved ==
  (\A c \in Commands : At(c, "idle")) => \A f \in Files : backup[f] = NoFile \/ f \in stray

\* A template that fails is given up: as long as commands run one at a time, none begins
\* once the failures since the capture have reached the limit, but for those that were
\* lost with a command that ended early or could not read the registry.
FailingIsGivenUp ==
  ~shared => \A c \in Commands : At(c, "next") /\ cmd[c].target = 0 => failures < Strikes + lost

----------------------------------------------------------------------------
(* What the comments promise without the exceptions, and the code does not keep. *)

\* "Backup + validate + rollback on fail": a failed target leaves its files as they were.
RollbackIsComplete ==
  \A c \in Commands : At(c, "failed") => text = before[c]
=============================================================================
