-------------------------- MODULE IndexWatchProofs --------------------------
(***************************************************************************)
(* Theorems about IndexBuild and IndexWatch, for any files, builders and     *)
(* bounds, as long as no two builders were at work at once.                  *)
(* The argument for the records: a version of a file that is neither absent  *)
(* nor the one on disk is past, and never comes back; the fingerprint of a   *)
(* file is that of its record, or past, so what it vouches for is recorded.  *)
(* A file that a scan did not find has no record: its old fingerprint does   *)
(* not vouch for it.                                                         *)
(* The argument for the daemon: a file that changed is in the events, ahead  *)
(* of the next round, in the scan of the daemon's builder, or missed.        *)
(***************************************************************************)
EXTENDS IndexWatch, TLAPS

Scanned == {"parse", "index", "prints"}

\* A version that f had and will not have again.
Past(v, f) == v # 0 /\ v # disk[f]

\* No version is newer than the last edit.
VersionsAreMade ==
  /\ \A f \in Files : disk[f] <= edits
  /\ prints # Unreadable => \A f \in Files : prints[f] <= edits
  /\ \A b \in Builders, f \in Files : bld[b].scan[f] <= edits

\* Documents are still to be told only while a builder tells them.
LeftIsInSync == \A b \in Builders : bld[b].at # "sync" => bld[b].left = {}

OneWorks == \A b, c \in Builders : bld[b].at \in Working /\ bld[c].at \in Working => b = c

\* A record is made from the version of its fingerprint, unless the fingerprint is past,
\* or the builder ended in between, over a file that has lost its record, or had no
\* fingerprint.
RecordsFollowPrints ==
  prints # Unreadable =>
    /\ fileIndex # Unreadable
    /\ \A f \in Files : \/ Made(fileIndex[f], prints[f]) \/ Past(prints[f], f) \/ f \in cut
                       \/ (fileIndex[f] = 0 /\ prints[f] # 0)
    /\ \A f \in cut : prints[f] = 0

\* So is a document, unless it is still to be told or was not told.
CorpusFollowsPrints ==
  prints # Unreadable =>
    \A f \in Files : \/ Made(corpus[f], prints[f]) \/ Past(prints[f], f) \/ f \in unsynced
                     \/ \E b \in Builders : f \in bld[b].left

\* What b loaded is what the last build left.
LoadIsCurrent(b) ==
  bld[b].at \in {"scan"} \cup Scanned =>
    IF bld[b].incremental
    THEN /\ prints # Unreadable /\ bld[b].prints = prints
         /\ bld[b].at # "prints" => bld[b].index = fileIndex
    ELSE bld[b].prints = None /\ bld[b].index = None

\* The difference is that of b's scan and of what it loaded; the fingerprint of a file
\* that the scan found, but in another version, is past.
DiffIsOfScan(b) ==
  bld[b].at \in Scanned =>
    /\ \A f \in Files \ bld[b].changed :
         bld[b].scan[f] = 0 \/ (bld[b].prints[f] = bld[b].scan[f] /\ bld[b].index[f] # 0)
    /\ \A f \in bld[b].changed : bld[b].scan[f] # 0
    /\ \A f \in Files : f \in bld[b].deleted <=> bld[b].scan[f] = 0 /\ bld[b].prints[f] # 0
    /\ prints # Unreadable =>
         \A f \in Files : \/ 0 \in {prints[f], bld[b].scan[f]} \/ prints[f] = bld[b].scan[f]
                          \/ Past(prints[f], f)

\* What b parsed is what it scanned, or the scan is past.
ParseIsOfScan(b) ==
  bld[b].at \in {"index", "prints", "sync"} =>
    \A f \in Files : Made(bld[b].meta[f], bld[b].scan[f]) \/ Past(bld[b].scan[f], f)

\* What b wrote is there.
WrittenIsThere(b) ==
  /\ bld[b].at = "prints" => fileIndex = bld[b].meta
  /\ bld[b].at = "sync" => /\ prints = bld[b].scan
                           /\ \A f \in bld[b].left \ bld[b].changed : bld[b].scan[f] = 0

BuilderInv(b) == LoadIsCurrent(b) /\ DiffIsOfScan(b) /\ ParseIsOfScan(b) /\ WrittenIsThere(b)

BuildInv == /\ BuildTypeOK /\ VersionsAreMade /\ LeftIsInSync
            /\ ~mixed => /\ OneWorks /\ RecordsFollowPrints /\ CorpusFollowsPrints
                         /\ \A b \in Builders : BuilderInv(b)

\* A change of f is still before the daemon.
Noticed(f) ==
  \/ mode = "watchdog" /\ f \in events
  \/ mode = "poll" /\ (pending \/ seen[f] # disk[f])
  \/ bld[Daemon].at \in {"lock", "unlink", "take", "rename", "load", "scan"}
  \/ bld[Daemon].at \in Scanned /\ bld[Daemon].scan[f] = disk[f]

NothingIsOverlooked ==
  mode # "off" /\ ~mixed => \A f \in Files : Caught(f) \/ f \in missed \/ Noticed(f)

\* The inductive invariant.
IInv == TypeOK /\ BuildInv /\ NothingIsOverlooked

----------------------------------------------------------------------------
\* Where a builder has nothing in its hands that the invariant speaks of.
Outside == {"idle", "lock", "unlink", "take", "rename", "load", "release"}

\* What a scan may see of the files as they are.
Seen(scan) == scan \in [Files -> Stamps] /\ \A f \in Files : scan[f] \in {0, disk[f]}

\* The effect of a step that only moves b about outside.
Drifts(b) ==
  /\ \A c \in Builders \ {b} : bld'[c] = bld[c]
  /\ bld'[b].at \in Outside /\ bld'[b].left = {}
  /\ bld'[b].scan \in {bld[b].scan, None} \/ Seen(bld'[b].scan)
  /\ bld'[b].at = "load" => mixed' \/ \A c \in Builders \ {b} : bld[c].at \notin Working
  /\ bld'[b].at = "release" => bld[b].at \in Working
  /\ mixed => mixed'
  /\ unsynced \cup bld[b].left \subseteq unsynced'
  /\ UNCHANGED <<diskVars, indexVars, cut>>

\* A builder that goes to a place keeps all that it holds.
LEMMA Moved ==
  ASSUME bld \in [Builders -> Builder], NEW b \in Builders, NEW place \in Places, Goto(b, place)
  PROVE  /\ bld' \in [Builders -> Builder] /\ bld'[b] = [bld[b] EXCEPT !.at = place]
         /\ bld'[b].at = place /\ bld'[b].incremental = bld[b].incremental
         /\ bld'[b].prints = bld[b].prints /\ bld'[b].index = bld[b].index
         /\ bld'[b].scan = bld[b].scan /\ bld'[b].changed = bld[b].changed
         /\ bld'[b].deleted = bld[b].deleted /\ bld'[b].meta = bld[b].meta
         /\ bld'[b].left = bld[b].left
         /\ \A c \in Builders \ {b} : bld'[c] = bld[c]
<1> DEFINE r == [bld[b] EXCEPT !.at = place]
<1>1. r \in Builder
  BY DEF Builder
<1>2. bld' = [bld EXCEPT ![b] = r]
  BY DEF Goto
<1>3. bld'[b] = r /\ bld' \in [Builders -> Builder] /\ \A c \in Builders \ {b} : bld'[c] = bld[c]
  BY <1>1, <1>2
<1>4. bld[b] \in Builder
  OBVIOUS
<1> QED
  BY <1>3, <1>4 DEF Builder

\* A builder that loads has the two files, or none.
LEMMA Loaded ==
  ASSUME bld \in [Builders -> Builder], NEW b \in Builders,
         NEW inc \in BOOLEAN, NEW pr \in [Files -> Stamps], NEW ix \in [Files -> Records],
         bld' = [bld EXCEPT ![b].at = "scan", ![b].incremental = inc,
                            ![b].prints = pr, ![b].index = ix]
  PROVE  /\ bld' \in [Builders -> Builder]
         /\ \A c \in Builders \ {b} : bld'[c] = bld[c]
         /\ bld'[b].at = "scan"
         /\ bld'[b].incremental = inc
         /\ bld'[b].prints = pr
         /\ bld'[b].index = ix
         /\ bld'[b].scan = bld[b].scan
         /\ bld'[b].changed = bld[b].changed
         /\ bld'[b].deleted = bld[b].deleted
         /\ bld'[b].meta = bld[b].meta
         /\ bld'[b].left = bld[b].left
<1> DEFINE r == [bld[b] EXCEPT !.at = "scan", !.incremental = inc, !.prints = pr, !.index = ix]
<1>1. bld[b] \in Builder
  OBVIOUS
<1>2. r \in Builder
  BY <1>1 DEF Builder, Places, Working
<1>3. bld' = [bld EXCEPT ![b] = r]
  OBVIOUS
<1>4. bld'[b] = r /\ bld' \in [Builders -> Builder] /\ \A c \in Builders \ {b} : bld'[c] = bld[c]
  BY <1>2, <1>3
<1> QED
  BY <1>1, <1>4 DEF Builder

\* A builder that scans has the scan and the difference.
LEMMA Scans ==
  ASSUME bld \in [Builders -> Builder], NEW b \in Builders,
         NEW sc \in [Files -> Stamps], NEW ch \in SUBSET Files, NEW de \in SUBSET Files,
         NEW place \in Places,
         bld' = [bld EXCEPT ![b].scan = sc, ![b].changed = ch, ![b].deleted = de,
                            ![b].at = place]
  PROVE  /\ bld' \in [Builders -> Builder]
         /\ \A c \in Builders \ {b} : bld'[c] = bld[c]
         /\ bld'[b].at = place
         /\ bld'[b].incremental = bld[b].incremental
         /\ bld'[b].prints = bld[b].prints
         /\ bld'[b].index = bld[b].index
         /\ bld'[b].scan = sc
         /\ bld'[b].changed = ch
         /\ bld'[b].deleted = de
         /\ bld'[b].meta = bld[b].meta
         /\ bld'[b].left = bld[b].left
<1> DEFINE r == [bld[b] EXCEPT !.scan = sc, !.changed = ch, !.deleted = de, !.at = place]
<1>1. bld[b] \in Builder
  OBVIOUS
<1>2. r \in Builder
  BY <1>1 DEF Builder
<1>3. bld' = [bld EXCEPT ![b] = r]
  OBVIOUS
<1>4. bld'[b] = r /\ bld' \in [Builders -> Builder] /\ \A c \in Builders \ {b} : bld'[c] = bld[c]
  BY <1>2, <1>3
<1> QED
  BY <1>1, <1>4 DEF Builder

\* What a scan is: some of the files as they are, and their difference.
LEMMA ScanIs ==
  ASSUME BuildTypeOK, NEW b \in Builders, Scan(b)
  PROVE  \E scan \in [Files -> Stamps] :
           /\ Seen(scan)
           /\ bld' \in [Builders -> Builder]
           /\ \A c \in Builders \ {b} : bld'[c] = bld[c]
           /\ bld'[b].at = IF bld[b].incremental /\ Changed(b, scan) \cup Deleted(b, scan) = {}
                           THEN "release" ELSE "parse"
           /\ bld'[b].incremental = bld[b].incremental
           /\ bld'[b].prints = bld[b].prints /\ bld'[b].index = bld[b].index
           /\ bld'[b].scan = scan
           /\ bld'[b].changed = Changed(b, scan) /\ bld'[b].deleted = Deleted(b, scan)
           /\ bld'[b].meta = bld[b].meta /\ bld'[b].left = bld[b].left
<1>1. PICK skipped \in SUBSET Files :
        LET scan == [f \in Files |-> IF f \in skipped THEN 0 ELSE disk[f]]
            changed == Changed(b, scan)
            deleted == Deleted(b, scan) IN
        bld' = [bld EXCEPT ![b].scan = scan, ![b].changed = changed, ![b].deleted = deleted,
                           ![b].at = IF bld[b].incremental /\ changed \cup deleted = {}
                                     THEN "release" ELSE "parse"]
  BY DEF Scan
<1> DEFINE scan == [f \in Files |-> IF f \in skipped THEN 0 ELSE disk[f]]
           changed == Changed(b, scan)
           deleted == Deleted(b, scan)
           place == IF bld[b].incremental /\ changed \cup deleted = {} THEN "release" ELSE "parse"
<1>2. scan \in [Files -> Stamps] /\ Seen(scan)
  BY IndexAssumption DEF BuildTypeOK, Seen, Stamps
<1>3. /\ bld \in [Builders -> Builder] /\ place \in Places
      /\ changed \in SUBSET Files /\ deleted \in SUBSET Files
  BY DEF BuildTypeOK, Changed, Deleted, Places, Working
<1>4. bld' = [bld EXCEPT ![b].scan = scan, ![b].changed = changed, ![b].deleted = deleted,
                         ![b].at = place]
  BY <1>1
<1> HIDE DEF scan, changed, deleted, place
<1>5. /\ bld' \in [Builders -> Builder]
      /\ \A c \in Builders \ {b} : bld'[c] = bld[c]
      /\ bld'[b].at = place /\ bld'[b].incremental = bld[b].incremental
      /\ bld'[b].prints = bld[b].prints /\ bld'[b].index = bld[b].index
      /\ bld'[b].scan = scan /\ bld'[b].changed = changed /\ bld'[b].deleted = deleted
      /\ bld'[b].meta = bld[b].meta /\ bld'[b].left = bld[b].left
  <2>1. /\ bld \in [Builders -> Builder] /\ scan \in [Files -> Stamps] /\ place \in Places
        /\ changed \in SUBSET Files /\ deleted \in SUBSET Files
    BY <1>2, <1>3
  <2> DEFINE r == [bld[b] EXCEPT !.scan = scan, !.changed = changed, !.deleted = deleted,
                                 !.at = place]
  <2>a. bld[b] \in Builder
    BY ONLY <2>1, b \in Builders
  <2>b. \A w \in Builder : [w EXCEPT !.scan = scan] \in Builder
    BY ONLY <2>1 DEF Builder
  <2>c. \A w \in Builder : [w EXCEPT !.changed = changed] \in Builder
    BY ONLY <2>1 DEF Builder
  <2>d. \A w \in Builder : [w EXCEPT !.deleted = deleted] \in Builder
    BY ONLY <2>1 DEF Builder
  <2>e. \A w \in Builder : [w EXCEPT !.at = place] \in Builder
    BY ONLY <2>1 DEF Builder
  <2>2. bld[b] \in Builder /\ r \in Builder
    BY <2>a, <2>b, <2>c, <2>d, <2>e
  <2>3. bld' = [bld EXCEPT ![b] = r]
    BY ONLY <2>1, <1>4, b \in Builders
  <2>4. bld'[b] = r /\ bld' \in [Builders -> Builder] /\ \A c \in Builders \ {b} : bld'[c] = bld[c]
    BY <2>1, <2>2, <2>3
  <2> QED
    BY <2>2, <2>4 DEF Builder
<1>6. /\ changed = Changed(b, scan) /\ deleted = Deleted(b, scan)
      /\ place = IF bld[b].incremental /\ Changed(b, scan) \cup Deleted(b, scan) = {}
                 THEN "release" ELSE "parse"
  BY DEF place, changed, deleted
<1> HIDE DEF Changed, Deleted, Seen
<1>7. /\ bld'[b].at = IF bld[b].incremental /\ Changed(b, scan) \cup Deleted(b, scan) = {}
                      THEN "release" ELSE "parse"
      /\ bld'[b].changed = Changed(b, scan) /\ bld'[b].deleted = Deleted(b, scan)
  BY <1>5, <1>6
<1> QED
  BY <1>2, <1>5, <1>7

\* A builder that parses has the records.
LEMMA Parsed ==
  ASSUME bld \in [Builders -> Builder], NEW b \in Builders,
         NEW me \in [Files -> Records],
         bld' = [bld EXCEPT ![b].at = "index", ![b].meta = me]
  PROVE  /\ bld' \in [Builders -> Builder]
         /\ \A c \in Builders \ {b} : bld'[c] = bld[c]
         /\ bld'[b].at = "index"
         /\ bld'[b].incremental = bld[b].incremental
         /\ bld'[b].prints = bld[b].prints
         /\ bld'[b].index = bld[b].index
         /\ bld'[b].scan = bld[b].scan
         /\ bld'[b].changed = bld[b].changed
         /\ bld'[b].deleted = bld[b].deleted
         /\ bld'[b].meta = me
         /\ bld'[b].left = bld[b].left
<1> DEFINE r == [bld[b] EXCEPT !.at = "index", !.meta = me]
<1>1. bld[b] \in Builder
  OBVIOUS
<1>2. r \in Builder
  BY <1>1 DEF Builder, Places, Working
<1>3. bld' = [bld EXCEPT ![b] = r]
  OBVIOUS
<1>4. bld'[b] = r /\ bld' \in [Builders -> Builder] /\ \A c \in Builders \ {b} : bld'[c] = bld[c]
  BY <1>2, <1>3
<1> QED
  BY <1>1, <1>4 DEF Builder

\* A builder that has the documents left to tell of goes to a place.
LEMMA ToldOf ==
  ASSUME bld \in [Builders -> Builder], NEW b \in Builders,
         NEW place \in Places, NEW le \in SUBSET Files,
         bld' = [bld EXCEPT ![b].at = place, ![b].left = le]
  PROVE  /\ bld' \in [Builders -> Builder]
         /\ \A c \in Builders \ {b} : bld'[c] = bld[c]
         /\ bld'[b].at = place
         /\ bld'[b].incremental = bld[b].incremental
         /\ bld'[b].prints = bld[b].prints
         /\ bld'[b].index = bld[b].index
         /\ bld'[b].scan = bld[b].scan
         /\ bld'[b].changed = bld[b].changed
         /\ bld'[b].deleted = bld[b].deleted
         /\ bld'[b].meta = bld[b].meta
         /\ bld'[b].left = le
<1> DEFINE r == [bld[b] EXCEPT !.at = place, !.left = le]
<1>1. bld[b] \in Builder
  OBVIOUS
<1>2. r \in Builder
  BY <1>1 DEF Builder
<1>3. bld' = [bld EXCEPT ![b] = r]
  OBVIOUS
<1>4. bld'[b] = r /\ bld' \in [Builders -> Builder] /\ \A c \in Builders \ {b} : bld'[c] = bld[c]
  BY <1>2, <1>3
<1> QED
  BY <1>1, <1>4 DEF Builder

\* A builder that tells of a document has the others left.
LEMMA TellsOf ==
  ASSUME bld \in [Builders -> Builder], NEW b \in Builders,
         NEW le \in SUBSET Files, bld' = [bld EXCEPT ![b].left = le]
  PROVE  /\ bld' \in [Builders -> Builder]
         /\ \A c \in Builders \ {b} : bld'[c] = bld[c]
         /\ bld'[b].at = bld[b].at
         /\ bld'[b].incremental = bld[b].incremental
         /\ bld'[b].prints = bld[b].prints
         /\ bld'[b].index = bld[b].index
         /\ bld'[b].scan = bld[b].scan
         /\ bld'[b].changed = bld[b].changed
         /\ bld'[b].deleted = bld[b].deleted
         /\ bld'[b].meta = bld[b].meta
         /\ bld'[b].left = le
<1> DEFINE r == [bld[b] EXCEPT !.left = le]
<1>1. bld[b] \in Builder
  OBVIOUS
<1>2. r \in Builder
  BY <1>1 DEF Builder
<1>3. bld' = [bld EXCEPT ![b] = r]
  OBVIOUS
<1>4. bld'[b] = r /\ bld' \in [Builders -> Builder] /\ \A c \in Builders \ {b} : bld'[c] = bld[c]
  BY <1>2, <1>3
<1> QED
  BY <1>1, <1>4 DEF Builder

\* A builder begins at the lock.
LEMMA Begun ==
  ASSUME bld \in [Builders -> Builder], NEW b \in Builders,
         NEW inc \in BOOLEAN,
         bld' = [bld EXCEPT ![b].at = "lock", ![b].incremental = inc]
  PROVE  /\ bld' \in [Builders -> Builder]
         /\ \A c \in Builders \ {b} : bld'[c] = bld[c]
         /\ bld'[b].at = "lock"
         /\ bld'[b].incremental = inc
         /\ bld'[b].prints = bld[b].prints
         /\ bld'[b].index = bld[b].index
         /\ bld'[b].scan = bld[b].scan
         /\ bld'[b].changed = bld[b].changed
         /\ bld'[b].deleted = bld[b].deleted
         /\ bld'[b].meta = bld[b].meta
         /\ bld'[b].left = bld[b].left
<1> DEFINE r == [bld[b] EXCEPT !.at = "lock", !.incremental = inc]
<1>1. bld[b] \in Builder
  OBVIOUS
<1>2. r \in Builder
  BY <1>1 DEF Builder, Places
<1>3. bld' = [bld EXCEPT ![b] = r]
  OBVIOUS
<1>4. bld'[b] = r /\ bld' \in [Builders -> Builder] /\ \A c \in Builders \ {b} : bld'[c] = bld[c]
  BY <1>2, <1>3
<1> QED
  BY <1>1, <1>4 DEF Builder

\* A file that changes gets a version that no file had, or is gone; what is past for it
\* stays past, and the version it had is past or was none.
LEMMA ChangeGoesOn ==
  ASSUME BuildTypeOK, VersionsAreMade, NEW f \in Files, Change(f)
  PROVE  /\ disk' \in [Files -> Stamps] /\ edits' \in Stamps /\ edits' = edits + 1
         /\ \A g \in Files \ {f} : disk'[g] = disk[g]
         /\ disk'[f] \in {0, edits + 1} /\ disk'[f] # disk[f]
         /\ \A g \in Files : disk'[g] <= edits'
BY IndexAssumption DEF BuildTypeOK, VersionsAreMade, Change, Stamps, diskVars

----------------------------------------------------------------------------
\* The types of the builders.

\* An idle builder is a builder.
LEMMA IdleIsTyped == Idle \in Builder /\ None \in [Files -> Stamps] /\ None \in [Files -> Records]
<1>1. None \in [Files -> Stamps] /\ None \in [Files -> Records]
  BY IndexAssumption DEF None, Stamps, Records, Unread
<1> QED
  BY <1>1, Zenon DEF Idle, Builder, Places

\* A builder's step keeps the types of the index.
LEMMA StepIsTyped ==
  ASSUME BuildTypeOK, NEW b \in Builders, BuildStep(b) \/ Begin(b)
  PROVE  BuildTypeOK'
<1> USE IndexAssumption, IdleIsTyped DEF BuildTypeOK
<1>0. bld[b] \in Builder
  OBVIOUS
<1>a. /\ bld[b].incremental \in BOOLEAN /\ bld[b].index \in [Files -> Records]
      /\ bld[b].scan \in [Files -> Stamps] /\ bld[b].changed \in SUBSET Files
      /\ bld[b].deleted \in SUBSET Files /\ bld[b].meta \in [Files -> Records]
      /\ bld[b].left \in SUBSET Files
  BY <1>0 DEF Builder
<1> USE DEF history, diskVars, lockVars, indexVars
<1>b. ASSUME NEW place \in Places, Goto(b, place)
      PROVE  bld' \in [Builders -> Builder]
  BY <1>b, Moved
<1>c. /\ {"lock", "unlink", "take", "rename"} \cup Working \subseteq Places
      /\ Working = {"load", "scan", "parse", "index", "prints", "sync", "release"}
  BY DEF Places, Working
<1>2. CASE Begin(b)
  <2>1. PICK inc \in BOOLEAN : bld' = [bld EXCEPT ![b].at = "lock", ![b].incremental = inc]
    BY <1>2 DEF Begin
  <2>2. bld' \in [Builders -> Builder]
    BY <2>1, Begun
  <2>3. builds' \in 0..MaxBuilds
    <3>1. builds \in 0..MaxBuilds
      OBVIOUS
    <3> QED
      BY ONLY <1>2, <3>1, IndexAssumption DEF Begin
  <2> QED
    BY <1>2, <2>2, <2>3 DEF Begin
<1>3. CASE LookAtLock(b)
  BY <1>3, <1>b, <1>c DEF LookAtLock
<1>4. CASE UnlinkLock(b)
  BY <1>4, <1>b, <1>c DEF UnlinkLock
<1>5. CASE WriteLock(b)
  BY <1>5, <1>b, <1>c DEF WriteLock
<1>6. CASE RenameLock(b)
  BY <1>6, <1>b, <1>c DEF RenameLock
<1>7. CASE GiveUp(b)
  BY <1>7 DEF GiveUp, Gone
<1>8. CASE Load(b)
  <2>1. prints # Unreadable => prints \in [Files -> Stamps]
    OBVIOUS
  <2>2. fileIndex # Unreadable => fileIndex \in [Files -> Records]
    OBVIOUS
  <2>3. bld' \in [Builders -> Builder]
    BY <1>8, <1>a, <2>1, <2>2, Loaded DEF Load
  <2> QED
    BY <1>8, <2>3 DEF Load
<1>9. CASE Scan(b)
  BY <1>9, ScanIs DEF Scan
<1>10. CASE Parse(b)
  <2>0. PICK raising \in SUBSET bld[b].changed :
          bld' = [bld EXCEPT ![b].at = "index",
                             ![b].meta = [f \in Files |->
                               IF f \notin bld[b].changed THEN IF bld[b].scan[f] = 0 THEN 0 ELSE bld[b].index[f]
                               ELSE IF disk[f] = 0 \/ f \in raising THEN Unread ELSE disk[f]]]
    BY <1>10 DEF Parse
  <2> DEFINE m == [f \in Files |->
               IF f \notin bld[b].changed THEN IF bld[b].scan[f] = 0 THEN 0 ELSE bld[b].index[f]
               ELSE IF disk[f] = 0 \/ f \in raising THEN Unread ELSE disk[f]]
  <2>1. m \in [Files -> Records]
    BY <1>a DEF Stamps, Records, Unread
  <2>2. bld' \in [Builders -> Builder]
    <3> HIDE DEF m
    <3>1. bld' = [bld EXCEPT ![b].at = "index", ![b].meta = m]
      BY <2>0 DEF m
    <3> QED
      BY <2>1, <3>1, Parsed
  <2> QED
    BY <1>10, <2>2 DEF Parse
<1>11. CASE WriteIndex(b)
  <2>1. PICK w \in Written(b, bld[b].meta, fileIndex, "prints") :
          fileIndex' = w.value /\ Goto(b, w.then)
    BY <1>11 DEF WriteIndex
  <2>2. w.value \in {bld[b].meta, fileIndex, Unreadable} /\ w.then \in {"prints", "release"}
    BY <2>1 DEF Written
  <2>3. bld' \in [Builders -> Builder]
    BY <1>b, <1>c, <2>1, <2>2
  <2> QED
    BY <1>11, <1>a, <2>1, <2>2, <2>3 DEF WriteIndex
<1>12. CASE WritePrints(b)
  <2>1. PICK w \in Written(b, bld[b].scan, prints, "sync") :
          /\ prints' = w.value
          /\ bld' = [bld EXCEPT ![b].at = w.then,
                                ![b].left = IF w.then = "sync" THEN ToSync(b) ELSE {}]
    BY <1>12 DEF WritePrints
  <2>2. w.value \in {bld[b].scan, prints, Unreadable} /\ w.then \in {"sync", "release"}
    BY <2>1 DEF Written
  <2>3. ToSync(b) \in SUBSET Files
    BY <1>a DEF ToSync
  <2>4. bld' \in [Builders -> Builder]
    BY <1>c, <2>1, <2>2, <2>3, ToldOf
  <2> QED
    BY <1>12, <1>a, <2>1, <2>2, <2>4 DEF WritePrints
<1>13. CASE \E f \in Files : SyncDocument(b, f)
  <2>1. PICK f \in Files : SyncDocument(b, f)
    BY <1>13
  <2> DEFINE le == bld[b].left \ {f}
             d == IF f \in bld[b].changed THEN bld[b].meta[f] ELSE 0
  <2>2. le \in SUBSET Files /\ bld' = [bld EXCEPT ![b].left = le]
    BY <1>a, <2>1 DEF SyncDocument
  <2>3. bld' \in [Builders -> Builder]
    BY <2>2, TellsOf, ZenonT(40)
  <2>4. d \in Records
    BY <1>a DEF Records, Unread
  <2>5. corpus' \in [Files -> Records]
    BY <2>1, <2>4 DEF SyncDocument
  <2>6. unsynced' \subseteq Files
    BY <2>1 DEF SyncDocument
  <2> QED
    BY <2>1, <2>3, <2>5, <2>6 DEF SyncDocument
<1>14. CASE Synced(b)
  BY <1>14, <1>b, <1>c DEF Synced
<1>15. CASE Release(b)
  BY <1>15 DEF Release
<1>16. CASE Die(b)
  BY <1>16, <1>a DEF Die, Gone
<1>17. CASE Fail(b)
  BY <1>17, <1>b, <1>c DEF Fail
<1>18. CASE NoRepos(b)
  <2>1. [Idle EXCEPT !.at = "index"] \in Builder
    BY <1>c DEF Builder
  <2> QED
    BY <1>18, <2>1 DEF NoRepos
<1> QED
  BY <1>2, <1>3, <1>4, <1>5, <1>6, <1>7, <1>8, <1>9, <1>10, <1>11, <1>12, <1>13,
     <1>14, <1>15, <1>16, <1>17, <1>18 DEF BuildStep

----------------------------------------------------------------------------
\* The steps that take a builder about outside.

\* Most steps only move their builder about outside.
LEMMA MostStepsDrift ==
  ASSUME BuildTypeOK, LeftIsInSync, NEW b \in Builders,
         \/ Begin(b) \/ LookAtLock(b) \/ UnlinkLock(b) \/ WriteLock(b) \/ RenameLock(b)
         \/ GiveUp(b) \/ Synced(b) \/ Fail(b) \/ Release(b) \/ Die(b)
  PROVE  Drifts(b)
<1> USE DEF At
<1>0. bld \in [Builders -> Builder] /\ (bld[b].at # "sync" => bld[b].left = {})
  BY DEF BuildTypeOK, LeftIsInSync
<1>a. ASSUME NEW place \in {"lock", "unlink", "take", "rename", "load", "release"},
             bld[b].left = {}, Goto(b, place)
      PROVE  /\ \A c \in Builders \ {b} : bld'[c] = bld[c]
             /\ bld'[b].at = place /\ bld'[b].left = {} /\ bld'[b].scan = bld[b].scan
  <2>1. place \in Places
    BY DEF Places, Working
  <2> QED
    BY <1>0, <1>a, <2>1, Moved
<1>b. ASSUME bld' = [bld EXCEPT ![b] = Idle]
      PROVE  /\ \A c \in Builders \ {b} : bld'[c] = bld[c]
             /\ bld'[b].at = "idle" /\ bld'[b].left = {} /\ bld'[b].scan = None
  <2>1. bld'[b] = Idle /\ \A c \in Builders \ {b} : bld'[c] = bld[c]
    BY <1>0, <1>b
  <2> QED
    BY <2>1 DEF Idle
<1> USE DEF Drifts, Outside, history, diskVars, indexVars
<1>1. CASE Begin(b)
  <2>1. PICK inc \in BOOLEAN : bld' = [bld EXCEPT ![b].at = "lock", ![b].incremental = inc]
    BY <1>1 DEF Begin
  <2>2. /\ \A c \in Builders \ {b} : bld'[c] = bld[c]
        /\ bld'[b].at = "lock" /\ bld'[b].left = bld[b].left /\ bld'[b].scan = bld[b].scan
    BY <1>0, <2>1, Begun
  <2> QED
    BY <1>0, <1>1, <2>2 DEF Begin
<1>2. CASE LookAtLock(b)
  BY <1>0, <1>2, <1>a DEF LookAtLock
<1>3. CASE UnlinkLock(b)
  BY <1>0, <1>3, <1>a DEF UnlinkLock
<1>4. CASE WriteLock(b)
  BY <1>0, <1>4, <1>a DEF WriteLock
<1>5. CASE RenameLock(b)
  BY <1>0, <1>5, <1>a DEF RenameLock
<1>6. CASE GiveUp(b)
  BY <1>0, <1>6, <1>b DEF GiveUp, Gone
<1>7. CASE Synced(b)
  BY <1>0, <1>7, <1>a DEF Synced, Working
<1>8. CASE Release(b)
  BY <1>0, <1>8, <1>b DEF Release
<1>9. CASE Die(b)
  BY <1>0, <1>9, <1>b DEF Die, Gone
<1>10. CASE Fail(b)
  BY <1>0, <1>10, <1>a DEF Fail, Working
<1> QED
  BY <1>1, <1>2, <1>3, <1>4, <1>5, <1>6, <1>7, <1>8, <1>9, <1>10

\* So does a scan that finds no difference.
LEMMA IdleScanDrifts ==
  ASSUME BuildTypeOK, LeftIsInSync, NEW b \in Builders, Scan(b), bld'[b].at = "release"
  PROVE  Drifts(b)
<1>1. bld[b].left = {} /\ bld[b].at = "scan"
  BY DEF LeftIsInSync, Scan, At
<1>2. /\ \A c \in Builders \ {b} : bld'[c] = bld[c]
      /\ Seen(bld'[b].scan) /\ bld'[b].left = bld[b].left
  BY ScanIs
<1> QED
  BY <1>1, <1>2 DEF Scan, Drifts, Outside, Working, diskVars, indexVars, history

\* The invariant holds on after such a step.
LEMMA DriftKeepsInv ==
  ASSUME BuildInv, BuildTypeOK', NEW b \in Builders, Drifts(b)
  PROVE  BuildInv'
<1> USE DEF Drifts, diskVars, indexVars
<1>0. BuildTypeOK /\ VersionsAreMade /\ LeftIsInSync
  BY DEF BuildInv
<1>1. VersionsAreMade'
  <2>1. \A f \in Files : 0 <= edits /\ disk[f] <= edits /\ None[f] = 0
    BY <1>0, IndexAssumption DEF VersionsAreMade, None, BuildTypeOK, Stamps
  <2>2. \A f \in Files : bld'[b].scan[f] <= edits
    BY <1>0, <2>1 DEF VersionsAreMade, Seen
  <2> QED
    BY <1>0, <2>2 DEF VersionsAreMade
<1>2. LeftIsInSync'
  BY <1>0 DEF LeftIsInSync
<1>3. ASSUME ~mixed'
      PROVE  (OneWorks /\ RecordsFollowPrints /\ CorpusFollowsPrints
               /\ \A c \in Builders : BuilderInv(c))'
  <2>0. OneWorks /\ RecordsFollowPrints /\ CorpusFollowsPrints /\ \A c \in Builders : BuilderInv(c)
    BY <1>3 DEF BuildInv
  <2>1. OneWorks'
    BY <1>3, <2>0 DEF OneWorks, Working, Outside
  <2>2. RecordsFollowPrints'
    BY <2>0 DEF RecordsFollowPrints, Past
  <2>3. CorpusFollowsPrints'
    BY <2>0 DEF CorpusFollowsPrints, Past
  <2>4. BuilderInv(b)'
    BY DEF BuilderInv, LoadIsCurrent, DiffIsOfScan, ParseIsOfScan, WrittenIsThere, Outside, Scanned
  <2>5. ASSUME NEW c \in Builders \ {b}
        PROVE  BuilderInv(c)'
    BY <2>0 DEF BuilderInv, LoadIsCurrent, DiffIsOfScan, ParseIsOfScan, WrittenIsThere, Past
  <2> QED
    BY <2>1, <2>2, <2>3, <2>4, <2>5
<1> QED
  BY <1>1, <1>2, <1>3 DEF BuildInv

----------------------------------------------------------------------------
\* The steps of a builder at work, and of the files.

\* While builders do not mix, nobody else is at work beside one that is: what the
\* invariant says of the others, it says of no place where they are.
LEMMA OthersRest ==
  ASSUME OneWorks, LeftIsInSync, NEW b \in Builders, bld[b].at \in Working,
         \A c \in Builders \ {b} : bld'[c] = bld[c]
  PROVE  /\ \A c \in Builders \ {b} : /\ bld[c].at \notin Working /\ bld[c].left = {}
                                      /\ BuilderInv(c)'
         /\ OneWorks'
<1>1. \A c \in Builders \ {b} : bld[c].at \notin Working
  BY DEF OneWorks
<1>2. \A c \in Builders \ {b} : bld[c].left = {}
  BY <1>1 DEF LeftIsInSync, Working
<1>3. \A c \in Builders \ {b} : BuilderInv(c)'
  BY <1>1
     DEF BuilderInv, LoadIsCurrent, DiffIsOfScan, ParseIsOfScan, WrittenIsThere, Working, Scanned
<1>4. OneWorks'
  BY <1>1 DEF OneWorks
<1> QED
  BY <1>1, <1>2, <1>3, <1>4

\* A builder loads what the last build left.
LEMMA LoadKeepsInv ==
  ASSUME BuildInv, BuildTypeOK', NEW b \in Builders, Load(b)
  PROVE  BuildInv'
<1> USE DEF diskVars, indexVars, history
<1>0. BuildTypeOK /\ VersionsAreMade /\ LeftIsInSync /\ bld[b].at = "load" /\ bld[b].left = {}
  BY DEF BuildInv, LeftIsInSync, Load, At
<1> DEFINE inc == bld[b].incremental /\ prints # Unreadable
           pr == IF bld[b].incremental /\ prints # Unreadable THEN prints ELSE None
           ix == IF bld[b].incremental /\ prints # Unreadable /\ fileIndex # Unreadable
                 THEN fileIndex ELSE None
<1>1. /\ bld \in [Builders -> Builder] /\ inc \in BOOLEAN
      /\ pr \in [Files -> Stamps] /\ ix \in [Files -> Records]
  <2>1. bld[b] \in Builder
    BY <1>0 DEF BuildTypeOK
  <2> QED
    BY <1>0, <2>1, IdleIsTyped DEF BuildTypeOK, Builder
<1>2. /\ \A c \in Builders \ {b} : bld'[c] = bld[c]
      /\ bld'[b].at = "scan" /\ bld'[b].incremental = inc
      /\ bld'[b].prints = pr /\ bld'[b].index = ix
      /\ bld'[b].scan = bld[b].scan /\ bld'[b].left = bld[b].left
  <2> HIDE DEF inc, pr, ix
  <2>1. bld' = [bld EXCEPT ![b].at = "scan", ![b].incremental = inc,
                           ![b].prints = pr, ![b].index = ix]
    BY DEF Load, inc, pr, ix
  <2> QED
    <3>1. bld \in [Builders -> Builder] /\ inc \in BOOLEAN
      BY <1>1
    <3>2. pr \in [Files -> Stamps] /\ ix \in [Files -> Records]
      BY <1>1
    <3> QED
      BY <2>1, <3>1, <3>2 DEF Builder
<1>3. VersionsAreMade'
  BY <1>0, <1>2 DEF VersionsAreMade, Load
<1>4. LeftIsInSync'
  BY <1>0, <1>2 DEF LeftIsInSync
<1>5. ASSUME ~mixed'
      PROVE  (OneWorks /\ RecordsFollowPrints /\ CorpusFollowsPrints
               /\ \A c \in Builders : BuilderInv(c))'
  <2>0. OneWorks /\ RecordsFollowPrints /\ CorpusFollowsPrints
    BY <1>5 DEF BuildInv, Load
  <2>1. OneWorks' /\ \A c \in Builders \ {b} : BuilderInv(c)'
    BY <1>0, <1>2, <2>0, OthersRest DEF Working
  <2>2. RecordsFollowPrints'
    BY <2>0 DEF RecordsFollowPrints, Past, Load
  <2>3. CorpusFollowsPrints'
    BY <1>0, <1>2, <2>0 DEF CorpusFollowsPrints, Past, Load
  <2>4. BuilderInv(b)'
    BY <1>2, <2>0
    DEF BuilderInv, LoadIsCurrent, DiffIsOfScan, ParseIsOfScan, WrittenIsThere, Scanned,
        RecordsFollowPrints, Load
  <2> QED
    BY <2>1, <2>2, <2>3, <2>4
<1> QED
  BY <1>3, <1>4, <1>5 DEF BuildInv

\* A builder that found no repository has nothing to record.
LEMMA NoReposKeepsInv ==
  ASSUME BuildInv, BuildTypeOK', NEW b \in Builders, NoRepos(b)
  PROVE  BuildInv'
<1> USE DEF diskVars, indexVars, history
<1>0. BuildTypeOK /\ VersionsAreMade /\ LeftIsInSync /\ bld[b].at = "load" /\ bld[b].left = {}
  BY DEF BuildInv, LeftIsInSync, NoRepos, At
<1>1. bld' = [bld EXCEPT ![b] = [Idle EXCEPT !.at = "index"]] /\ bld \in [Builders -> Builder]
  BY <1>0 DEF NoRepos, BuildTypeOK
<1>2. /\ \A c \in Builders \ {b} : bld'[c] = bld[c]
      /\ bld'[b].at = "index" /\ bld'[b].incremental = FALSE
      /\ bld'[b].prints = None /\ bld'[b].index = None /\ bld'[b].scan = None
      /\ bld'[b].changed = {} /\ bld'[b].deleted = {} /\ bld'[b].meta = None
      /\ bld'[b].left = {}
  BY <1>1 DEF Idle
<1>a. \A f \in Files : None[f] = 0
  BY DEF None
<1>3. VersionsAreMade'
  BY <1>0, <1>2, <1>a, IndexAssumption DEF VersionsAreMade, NoRepos, BuildTypeOK, Stamps
<1>4. LeftIsInSync'
  BY <1>0, <1>2 DEF LeftIsInSync
<1>5. ASSUME ~mixed'
      PROVE  (OneWorks /\ RecordsFollowPrints /\ CorpusFollowsPrints
               /\ \A c \in Builders : BuilderInv(c))'
  <2>0. OneWorks /\ RecordsFollowPrints /\ CorpusFollowsPrints
    BY <1>5 DEF BuildInv, NoRepos
  <2>1. OneWorks' /\ \A c \in Builders \ {b} : BuilderInv(c)'
    BY <1>0, <1>2, <2>0, OthersRest DEF Working
  <2>2. RecordsFollowPrints'
    BY <2>0 DEF RecordsFollowPrints, Past, NoRepos
  <2>3. CorpusFollowsPrints'
    BY <1>0, <1>2, <2>0 DEF CorpusFollowsPrints, Past, NoRepos
  <2>4. BuilderInv(b)'
    BY <1>2, <1>a
    DEF BuilderInv, LoadIsCurrent, DiffIsOfScan, ParseIsOfScan, WrittenIsThere, Scanned, Made
  <2> QED
    BY <2>1, <2>2, <2>3, <2>4
<1> QED
  BY <1>3, <1>4, <1>5 DEF BuildInv

\* A builder that found a difference has it from the fingerprints of the last build.
LEMMA ScanKeepsInv ==
  ASSUME BuildInv, BuildTypeOK', NEW b \in Builders, Scan(b), bld'[b].at # "release"
  PROVE  BuildInv'
<1> USE DEF diskVars, indexVars, history
<1>0. BuildTypeOK /\ VersionsAreMade /\ LeftIsInSync /\ bld[b].at = "scan" /\ bld[b].left = {}
  BY DEF BuildInv, LeftIsInSync, Scan, At
<1>1. PICK scan \in [Files -> Stamps] :
        /\ Seen(scan)
        /\ \A c \in Builders \ {b} : bld'[c] = bld[c]
        /\ bld'[b].at \in {"release", "parse"} /\ bld'[b].incremental = bld[b].incremental
        /\ bld'[b].prints = bld[b].prints /\ bld'[b].index = bld[b].index
        /\ bld'[b].scan = scan
        /\ bld'[b].changed = Changed(b, scan) /\ bld'[b].deleted = Deleted(b, scan)
        /\ bld'[b].left = bld[b].left
  BY <1>0, ScanIs
<1>2. bld'[b].at = "parse"
  BY <1>1
<1>3. VersionsAreMade'
  <2>1. \A f \in Files : scan[f] <= edits
    BY <1>0, <1>1, IndexAssumption DEF VersionsAreMade, Seen, BuildTypeOK, Stamps
  <2> QED
    BY <1>0, <1>1, <2>1 DEF VersionsAreMade, Scan
<1>4. LeftIsInSync'
  BY <1>0, <1>1 DEF LeftIsInSync
<1>5. ASSUME ~mixed'
      PROVE  (OneWorks /\ RecordsFollowPrints /\ CorpusFollowsPrints
               /\ \A c \in Builders : BuilderInv(c))'
  <2>0. OneWorks /\ RecordsFollowPrints /\ CorpusFollowsPrints /\ LoadIsCurrent(b)
    BY <1>5 DEF BuildInv, BuilderInv, Scan
  <2>1. OneWorks' /\ \A c \in Builders \ {b} : BuilderInv(c)'
    BY <1>0, <1>1, <2>0, OthersRest DEF Working
  <2>2. RecordsFollowPrints'
    BY <2>0 DEF RecordsFollowPrints, Past, Scan
  <2>3. CorpusFollowsPrints'
    BY <1>0, <1>1, <2>0 DEF CorpusFollowsPrints, Past, Scan
  <2>4. LoadIsCurrent(b)'
    BY <1>0, <1>1, <1>2, <2>0 DEF LoadIsCurrent, Scan, Scanned
  <2>5. DiffIsOfScan(b)'
    <3>1. UNCHANGED <<disk, prints>>
      BY DEF Scan
    <3> QED
      BY <1>1, <3>1 DEF DiffIsOfScan, Changed, Deleted, Past, Seen
  <2>6. ParseIsOfScan(b)' /\ WrittenIsThere(b)'
    BY <1>2 DEF ParseIsOfScan, WrittenIsThere
  <2> QED
    BY <2>1, <2>2, <2>3, <2>4, <2>5, <2>6 DEF BuilderInv
<1> QED
  BY <1>3, <1>4, <1>5 DEF BuildInv

\* A builder parses what it scanned, or what came after.
LEMMA ParseKeepsInv ==
  ASSUME BuildInv, BuildTypeOK', NEW b \in Builders, Parse(b)
  PROVE  BuildInv'
<1> USE DEF diskVars, indexVars, history
<1>0. BuildTypeOK /\ VersionsAreMade /\ LeftIsInSync /\ bld[b].at = "parse" /\ bld[b].left = {}
  BY DEF BuildInv, LeftIsInSync, Parse, At
<1>1. PICK raising \in SUBSET bld[b].changed :
        bld' = [bld EXCEPT ![b].at = "index",
                           ![b].meta = [f \in Files |->
                             IF f \notin bld[b].changed THEN IF bld[b].scan[f] = 0 THEN 0 ELSE bld[b].index[f]
                             ELSE IF disk[f] = 0 \/ f \in raising THEN Unread ELSE disk[f]]]
  BY DEF Parse
<1> DEFINE m == [f \in Files |->
             IF f \notin bld[b].changed THEN IF bld[b].scan[f] = 0 THEN 0 ELSE bld[b].index[f]
             ELSE IF disk[f] = 0 \/ f \in raising THEN Unread ELSE disk[f]]
<1>2. /\ \A c \in Builders \ {b} : bld'[c] = bld[c]
      /\ bld'[b].at = "index" /\ bld'[b].incremental = bld[b].incremental
      /\ bld'[b].prints = bld[b].prints /\ bld'[b].index = bld[b].index
      /\ bld'[b].scan = bld[b].scan /\ bld'[b].changed = bld[b].changed
      /\ bld'[b].deleted = bld[b].deleted /\ bld'[b].left = bld[b].left
      /\ bld'[b].meta = m
  <2> HIDE DEF m
  <2>1. bld' = [bld EXCEPT ![b].at = "index", ![b].meta = m]
    BY <1>1 DEF m
  <2>2. bld \in [Builders -> Builder]
    BY <1>0 DEF BuildTypeOK
  <2> QED
    BY <2>1, <2>2 DEF Builder
<1> HIDE DEF m
<1>3. VersionsAreMade'
  BY <1>0, <1>2 DEF VersionsAreMade, Parse
<1>4. LeftIsInSync'
  BY <1>0, <1>2 DEF LeftIsInSync
<1>5. ASSUME ~mixed'
      PROVE  (OneWorks /\ RecordsFollowPrints /\ CorpusFollowsPrints
               /\ \A c \in Builders : BuilderInv(c))'
  <2>0. /\ OneWorks /\ RecordsFollowPrints /\ CorpusFollowsPrints
        /\ LoadIsCurrent(b) /\ DiffIsOfScan(b)
    BY <1>5 DEF BuildInv, BuilderInv, Parse
  <2>1. OneWorks' /\ \A c \in Builders \ {b} : BuilderInv(c)'
    BY <1>0, <1>2, <2>0, OthersRest DEF Working
  <2>2. RecordsFollowPrints'
    BY <2>0 DEF RecordsFollowPrints, Past, Parse
  <2>3. CorpusFollowsPrints'
    BY <1>0, <1>2, <2>0 DEF CorpusFollowsPrints, Past, Parse
  <2>4. LoadIsCurrent(b)'
    BY <1>0, <1>2, <2>0 DEF LoadIsCurrent, Parse, Scanned
  <2>5. DiffIsOfScan(b)'
    <3>1. /\ bld'[b].prints = bld[b].prints /\ bld'[b].index = bld[b].index
          /\ bld'[b].scan = bld[b].scan /\ bld'[b].changed = bld[b].changed
          /\ bld'[b].deleted = bld[b].deleted /\ UNCHANGED <<disk, prints>>
      BY <1>2 DEF Parse
    <3> QED
      BY <1>0, <2>0, <3>1 DEF DiffIsOfScan, Past, Scanned
  <2>6. ParseIsOfScan(b)'
    <3> USE DEF m
    <3>1. SUFFICES ASSUME NEW f \in Files
                   PROVE  \/ Made(m[f], bld[b].scan[f])
                          \/ bld[b].scan[f] # 0 /\ bld[b].scan[f] # disk[f]
      BY <1>2 DEF ParseIsOfScan, Past, Parse
    <3>2. CASE f \in bld[b].changed
      BY <1>0, <2>0, <3>2 DEF DiffIsOfScan, Scanned, Made
    <3>3. CASE f \notin bld[b].changed /\ bld[b].scan[f] = 0
      BY <3>3 DEF Made
    <3>4. CASE f \notin bld[b].changed /\ bld[b].scan[f] # 0
      <4>1. bld[b].prints[f] = bld[b].scan[f]
        BY <1>0, <2>0, <3>4 DEF DiffIsOfScan, Scanned
      <4>2. bld[b].incremental
        BY <1>0, <2>0, <3>4, <4>1 DEF LoadIsCurrent, Scanned, None
      <4>3. prints # Unreadable /\ bld[b].prints = prints /\ bld[b].index = fileIndex
        BY <1>0, <2>0, <4>2 DEF LoadIsCurrent, Scanned
      <4>4. fileIndex[f] # 0
        BY <1>0, <2>0, <3>4, <4>3 DEF DiffIsOfScan, Scanned
      <4>5. Made(fileIndex[f], prints[f]) \/ Past(prints[f], f)
        BY <2>0, <3>4, <4>1, <4>3, <4>4 DEF RecordsFollowPrints
      <4> QED
        BY <3>4, <4>1, <4>3, <4>5 DEF Past
    <3> QED
      BY <3>2, <3>3, <3>4
  <2>7. WrittenIsThere(b)'
    BY <1>2 DEF WrittenIsThere
  <2> QED
    BY <2>1, <2>2, <2>3, <2>4, <2>5, <2>6, <2>7 DEF BuilderInv
<1> QED
  BY <1>3, <1>4, <1>5 DEF BuildInv

\* The records a builder writes are those of the last fingerprints, or of later versions,
\* or of files without a fingerprint.
LEMMA WriteIndexKeepsInv ==
  ASSUME BuildInv, BuildTypeOK', NEW b \in Builders, WriteIndex(b)
  PROVE  BuildInv'
<1> USE DEF diskVars, indexVars, history
<1>0. BuildTypeOK /\ VersionsAreMade /\ LeftIsInSync /\ bld[b].at = "index" /\ bld[b].left = {}
  BY DEF BuildInv, LeftIsInSync, WriteIndex, At
<1>1. PICK w \in Written(b, bld[b].meta, fileIndex, "prints") :
        fileIndex' = w.value /\ Goto(b, w.then)
  BY DEF WriteIndex
<1>2. w.value \in {bld[b].meta, fileIndex, Unreadable} /\ w.then \in {"prints", "release"}
  BY <1>1 DEF Written
<1>3. /\ \A c \in Builders \ {b} : bld'[c] = bld[c]
      /\ bld'[b].at = w.then /\ bld'[b].incremental = bld[b].incremental
      /\ bld'[b].prints = bld[b].prints /\ bld'[b].index = bld[b].index
      /\ bld'[b].scan = bld[b].scan /\ bld'[b].changed = bld[b].changed
      /\ bld'[b].deleted = bld[b].deleted /\ bld'[b].left = bld[b].left
      /\ bld'[b].meta = bld[b].meta
  <2>1. w.then \in Places
    BY <1>2 DEF Places, Working
  <2> QED
    BY <1>0, <1>1, <2>1, Moved DEF BuildTypeOK
<1>4. VersionsAreMade'
  BY <1>0, <1>3 DEF VersionsAreMade, WriteIndex
<1>5. LeftIsInSync'
  BY <1>0, <1>3 DEF LeftIsInSync
<1>6. ASSUME ~mixed'
      PROVE  (OneWorks /\ RecordsFollowPrints /\ CorpusFollowsPrints
               /\ \A c \in Builders : BuilderInv(c))'
  <2>0. /\ OneWorks /\ RecordsFollowPrints /\ CorpusFollowsPrints
        /\ LoadIsCurrent(b) /\ DiffIsOfScan(b) /\ ParseIsOfScan(b)
    BY <1>6 DEF BuildInv, BuilderInv, WriteIndex
  <2>1. OneWorks' /\ \A c \in Builders \ {b} : bld[c].at \notin Working /\ BuilderInv(c)'
    BY <1>0, <1>3, <2>0, OthersRest DEF Working
  <2>2. w.value = bld[b].meta /\ w.then = "prints"
    <3>1. \A c \in Builders \ {b} : bld[c].at # bld[b].at
      BY <1>0, <2>1 DEF Working
    <3> QED
      BY <1>1, <3>1 DEF Written
  <2>3. RecordsFollowPrints'
    <3>1. SUFFICES ASSUME prints # Unreadable
                   PROVE  /\ bld[b].meta # Unreadable
                          /\ \A f \in Files : \/ Made(bld[b].meta[f], prints[f]) \/ Past(prints[f], f)
                                              \/ f \in cut' \/ (bld[b].meta[f] = 0 /\ prints[f] # 0)
                          /\ \A f \in cut' : prints[f] = 0
      <4>1. fileIndex' = bld[b].meta /\ prints' = prints /\ disk' = disk
        BY <1>1, <2>2 DEF WriteIndex
      <4> QED
        BY <4>1 DEF RecordsFollowPrints, Past, Made
    <3>2. bld[b].meta # Unreadable
      <4>1. bld[b].meta \in [Files -> Nat]
        <5>1. bld[b] \in Builder /\ Records \subseteq Nat
          BY <1>0, IndexAssumption DEF BuildTypeOK, Records, Unread
        <5> QED
          BY <5>1 DEF Builder
      <4> QED
        BY <4>1, IndexAssumption
    <3>3. \A f \in cut' : prints[f] = 0
      BY <3>1 DEF WriteIndex
    <3>4. ASSUME NEW f \in Files, f \notin cut'
          PROVE  \/ Made(bld[b].meta[f], prints[f]) \/ Past(prints[f], f)
                 \/ (bld[b].meta[f] = 0 /\ prints[f] # 0)
      <4>1. 0 \in {prints[f], bld[b].scan[f]} \/ prints[f] = bld[b].scan[f] \/ Past(prints[f], f)
        BY <1>0, <2>0, <3>1 DEF DiffIsOfScan, Scanned
      <4>2. Made(bld[b].meta[f], bld[b].scan[f]) \/ Past(bld[b].scan[f], f)
        BY <1>0, <2>0 DEF ParseIsOfScan
      <4>3. prints[f] = 0 => bld[b].scan[f] = 0
        BY <3>1, <3>4 DEF WriteIndex
      <4> QED
        BY <4>1, <4>2, <4>3 DEF Past, Made
    <3>5. \A f \in Files : \/ Made(bld[b].meta[f], prints[f]) \/ Past(prints[f], f)
                         \/ f \in cut' \/ (bld[b].meta[f] = 0 /\ prints[f] # 0)
      BY <3>4
    <3> QED
      BY ONLY <3>2, <3>3, <3>5
  <2>4. CorpusFollowsPrints'
    BY <1>0, <1>3, <2>0 DEF CorpusFollowsPrints, Past, WriteIndex
  <2>5. LoadIsCurrent(b)'
    BY <1>0, <1>3, <2>0, <2>2 DEF LoadIsCurrent, WriteIndex, Scanned
  <2>6. DiffIsOfScan(b)'
    BY <1>0, <1>3, <2>0 DEF DiffIsOfScan, WriteIndex, Past, Scanned
  <2>7. ParseIsOfScan(b)'
    BY <1>0, <1>3, <2>0 DEF ParseIsOfScan, WriteIndex, Past
  <2>8. WrittenIsThere(b)'
    BY <1>1, <1>3, <2>2 DEF WrittenIsThere
  <2> QED
    BY <2>1, <2>3, <2>4, <2>5, <2>6, <2>7, <2>8 DEF BuilderInv
<1> QED
  BY <1>4, <1>5, <1>6 DEF BuildInv

\* The fingerprints a builder writes are those of its records, or past; a document that
\* is not of the same version is to be told of.
LEMMA WritePrintsKeepsInv ==
  ASSUME BuildInv, BuildTypeOK', NEW b \in Builders, WritePrints(b)
  PROVE  BuildInv'
<1> USE DEF diskVars, indexVars, history
<1>0. BuildTypeOK /\ VersionsAreMade /\ LeftIsInSync /\ bld[b].at = "prints" /\ bld[b].left = {}
  BY DEF BuildInv, LeftIsInSync, WritePrints, At
<1>1. PICK w \in Written(b, bld[b].scan, prints, "sync") :
        /\ prints' = w.value
        /\ bld' = [bld EXCEPT ![b].at = w.then,
                              ![b].left = IF w.then = "sync" THEN ToSync(b) ELSE {}]
  BY DEF WritePrints
<1>2. w.value \in {bld[b].scan, prints, Unreadable} /\ w.then \in {"sync", "release"}
  BY <1>1 DEF Written
<1> DEFINE le == IF w.then = "sync" THEN ToSync(b) ELSE {}
<1>3. /\ \A c \in Builders \ {b} : bld'[c] = bld[c]
      /\ bld'[b].at = w.then /\ bld'[b].left = le /\ bld'[b].scan = bld[b].scan
      /\ bld'[b].changed = bld[b].changed /\ bld'[b].meta = bld[b].meta
  <2>1. bld \in [Builders -> Builder]
    BY <1>0 DEF BuildTypeOK
  <2> HIDE DEF le
  <2>2. bld' = [bld EXCEPT ![b].at = w.then, ![b].left = le]
    BY <1>1 DEF le
  <2> QED
    BY <2>1, <2>2 DEF Builder
<1>4. VersionsAreMade'
  <2>1. UNCHANGED <<disk, edits>> /\ prints' \in {bld[b].scan, prints, Unreadable}
    BY <1>1, <1>2 DEF WritePrints
  <2>2. \A c \in Builders : bld'[c].scan = bld[c].scan
    BY <1>3
  <2> QED
    BY <1>0, <2>1, <2>2 DEF VersionsAreMade
<1>5. LeftIsInSync'
  BY <1>0, <1>3 DEF LeftIsInSync
<1>6. ASSUME ~mixed'
      PROVE  (OneWorks /\ RecordsFollowPrints /\ CorpusFollowsPrints
               /\ \A c \in Builders : BuilderInv(c))'
  <2>0. OneWorks /\ RecordsFollowPrints /\ CorpusFollowsPrints /\ BuilderInv(b)
    BY <1>6 DEF BuildInv, WritePrints
  <2>a. /\ bld[b].at \in {"scan"} \cup Scanned /\ bld[b].at \in Scanned
        /\ LoadIsCurrent(b) /\ DiffIsOfScan(b) /\ ParseIsOfScan(b) /\ WrittenIsThere(b)
    BY <1>0, <2>0 DEF BuilderInv, Scanned
  <2>1. /\ OneWorks'
        /\ \A c \in Builders \ {b} : bld[c].at \notin Working /\ bld[c].left = {} /\ BuilderInv(c)'
    BY <1>0, <1>3, <2>0, OthersRest DEF Working
  <2>2. w.value = bld[b].scan /\ w.then = "sync"
    <3>1. \A c \in Builders \ {b} : bld[c].at # bld[b].at
      BY <1>0, <2>1 DEF Working
    <3> QED
      BY <1>1, <3>1 DEF Written
  <2>b. prints' = bld[b].scan /\ bld'[b].left = bld[b].changed \cup bld[b].deleted
    BY <1>1, <1>3, <2>2 DEF ToSync
  <2>c. UNCHANGED <<disk, fileIndex, corpus>> /\ cut' = {}
    BY DEF WritePrints
  <2>d. fileIndex = bld[b].meta
        /\ \A f \in Files : Made(bld[b].meta[f], bld[b].scan[f]) \/ Past(bld[b].scan[f], f)
    BY <1>0, <2>a DEF WrittenIsThere, ParseIsOfScan
  <2>3. RecordsFollowPrints'
    <3>1. fileIndex # Unreadable
      <4>1. bld[b].meta \in [Files -> Nat]
        <5>1. bld[b] \in Builder /\ Records \subseteq Nat
          BY <1>0, IndexAssumption DEF BuildTypeOK, Records, Unread
        <5> QED
          BY <5>1 DEF Builder
      <4> QED
        BY <2>d, <4>1, IndexAssumption
    <3> QED
      BY <2>b, <2>c, <2>d, <3>1 DEF RecordsFollowPrints, Past, Made
  <2>4. CorpusFollowsPrints'
    <3>1. SUFFICES ASSUME NEW f \in Files, f \notin bld'[b].left, f \notin unsynced'
                   PROVE  Made(corpus[f], bld[b].scan[f]) \/ Past(bld[b].scan[f], f)
      BY <2>b, <2>c DEF CorpusFollowsPrints, Past
    <3>2. f \notin bld[b].changed /\ f \notin bld[b].deleted
      BY <2>b, <3>1
    <3>3. bld[b].scan[f] = 0 \/ bld[b].prints[f] = bld[b].scan[f]
      BY <2>a, <3>2 DEF DiffIsOfScan
    <3>4. CASE bld[b].incremental
      <4>1. bld[b].prints = prints /\ prints # Unreadable
        BY <2>a, <3>4 DEF LoadIsCurrent
      <4>2. prints[f] = bld[b].scan[f]
        BY <2>a, <3>2, <3>3, <4>1 DEF DiffIsOfScan
      <4>3. f \notin unsynced
        BY <3>1, <3>4 DEF WritePrints
      <4>4. \A c \in Builders : f \notin bld[c].left
        BY <1>0, <2>1
      <4> QED
        BY <2>0, <4>1, <4>2, <4>3, <4>4 DEF CorpusFollowsPrints
    <3>5. CASE ~bld[b].incremental
      <4>1. bld[b].scan[f] = 0
        BY <2>a, <3>3, <3>5 DEF LoadIsCurrent, None
      <4> QED
        BY <3>1, <3>5, <4>1 DEF WritePrints, Made
    <3> QED
      BY <3>4, <3>5
  <2>5. BuilderInv(b)'
    <3>1. bld'[b].at = "sync"
      BY <1>3, <2>2
    <3>2. ParseIsOfScan(b)'
      BY <1>3, <2>c, <2>d DEF ParseIsOfScan, Past
    <3>3. WrittenIsThere(b)'
      <4>1. bld[b].deleted \subseteq Files
        BY <1>0 DEF BuildTypeOK, Builder
      <4> QED
        BY <1>3, <2>a, <2>b, <3>1, <4>1 DEF WrittenIsThere, DiffIsOfScan
    <3> QED
      BY <3>1, <3>2, <3>3 DEF BuilderInv, LoadIsCurrent, DiffIsOfScan, Scanned
  <2> QED
    BY <2>1, <2>3, <2>4, <2>5
<1> QED
  BY <1>4, <1>5, <1>6 DEF BuildInv

\* A document that the corpus is told of is that of the fingerprint, or it is past.
LEMMA SyncKeepsInv ==
  ASSUME BuildInv, BuildTypeOK', NEW b \in Builders, NEW f \in Files, SyncDocument(b, f)
  PROVE  BuildInv'
<1> USE DEF diskVars, indexVars, history
<1>0. /\ BuildTypeOK /\ VersionsAreMade /\ LeftIsInSync /\ bld[b].at = "sync"
      /\ f \in bld[b].left
  BY DEF BuildInv, SyncDocument, At
<1>1. /\ \A c \in Builders \ {b} : bld'[c] = bld[c]
      /\ bld'[b].at = "sync" /\ bld'[b].left = bld[b].left \ {f}
      /\ bld'[b].scan = bld[b].scan /\ bld'[b].changed = bld[b].changed
      /\ bld'[b].meta = bld[b].meta
  <2>1. bld \in [Builders -> Builder] /\ bld' = [bld EXCEPT ![b].left = bld[b].left \ {f}]
    BY <1>0 DEF BuildTypeOK, SyncDocument
  <2> QED
    BY <1>0, <2>1 DEF Builder
<1>2. VersionsAreMade'
  BY <1>0, <1>1 DEF VersionsAreMade, SyncDocument
<1>3. LeftIsInSync'
  BY <1>0, <1>1 DEF LeftIsInSync
<1>4. ASSUME ~mixed'
      PROVE  (OneWorks /\ RecordsFollowPrints /\ CorpusFollowsPrints
               /\ \A c \in Builders : BuilderInv(c))'
  <2>0. /\ OneWorks /\ RecordsFollowPrints /\ CorpusFollowsPrints
        /\ ParseIsOfScan(b) /\ WrittenIsThere(b)
    BY <1>4 DEF BuildInv, BuilderInv, SyncDocument
  <2>1. OneWorks' /\ \A c \in Builders \ {b} : BuilderInv(c)'
    BY <1>0, <1>1, <2>0, OthersRest DEF Working
  <2>2. UNCHANGED <<disk, fileIndex, prints, cut>>
    BY DEF SyncDocument
  <2>3. RecordsFollowPrints'
    BY <2>0, <2>2 DEF RecordsFollowPrints, Past
  <2>4. CorpusFollowsPrints'
    <3>1. CASE f \in unsynced'
      BY <1>1, <2>0, <2>2, <3>1 DEF CorpusFollowsPrints, Past, SyncDocument
    <3>2. CASE f \notin unsynced'
      <4>1. /\ corpus' = [corpus EXCEPT ![f] = IF f \in bld[b].changed THEN bld[b].meta[f] ELSE 0]
            /\ unsynced' = unsynced \ {f}
        BY <3>2 DEF SyncDocument
      <4>2. prints = bld[b].scan
        BY <1>0, <2>0 DEF WrittenIsThere
      <4>3. f \in bld[b].changed => Made(bld[b].meta[f], prints[f]) \/ Past(prints[f], f)
        BY <1>0, <2>0, <4>2 DEF ParseIsOfScan
      <4>4. f \notin bld[b].changed => prints[f] = 0
        BY <1>0, <2>0, <4>2 DEF WrittenIsThere
      <4>5. /\ corpus'[f] = IF f \in bld[b].changed THEN bld[b].meta[f] ELSE 0
            /\ \A g \in Files \ {f} : corpus'[g] = corpus[g]
        BY <1>0, <4>1 DEF BuildTypeOK
      <4>6. \A g \in Files \ {f}, c \in Builders : g \in bld[c].left => g \in bld'[c].left
        BY <1>1
      <4> QED
        BY <2>0, <2>2, <4>1, <4>3, <4>4, <4>5, <4>6 DEF CorpusFollowsPrints, Past, Made
    <3> QED
      BY <3>1, <3>2
  <2>5. BuilderInv(b)'
    BY <1>0, <1>1, <2>0, <2>2
    DEF BuilderInv, LoadIsCurrent, DiffIsOfScan, ParseIsOfScan, WrittenIsThere, Scanned, Past
  <2> QED
    BY <2>1, <2>3, <2>4, <2>5
<1> QED
  BY <1>2, <1>3, <1>4 DEF BuildInv

\* A file that changes leaves the index behind, never ahead.
LEMMA ChangeKeepsInv ==
  ASSUME BuildInv, NEW f \in Files, Change(f)
  PROVE  BuildInv'
<1>0. BuildTypeOK /\ VersionsAreMade /\ LeftIsInSync
  BY DEF BuildInv
<1>1. /\ disk' \in [Files -> Stamps] /\ edits' \in Stamps /\ edits' = edits + 1
      /\ \A g \in Files \ {f} : disk'[g] = disk[g]
      /\ disk'[f] \in {0, edits + 1} /\ disk'[f] # disk[f]
      /\ \A g \in Files : disk'[g] <= edits'
  BY <1>0, ChangeGoesOn
<1>2. UNCHANGED <<lock, lockTmp, fileIndex, prints, corpus, bld, builds, mixed, cut, unsynced>>
  BY DEF Change, lockVars, indexVars, history
<1>3. BuildTypeOK'
  BY <1>0, <1>1, <1>2 DEF BuildTypeOK
<1>4. edits \in Nat
  BY <1>0, IndexAssumption DEF BuildTypeOK, Stamps
<1>a. /\ prints # Unreadable => \A g \in Files : prints[g] \in Nat /\ prints[g] <= edits
      /\ \A c \in Builders, g \in Files : bld[c].scan[g] \in Nat /\ bld[c].scan[g] <= edits
  <2>1. \A c \in Builders : bld[c].scan \in [Files -> Stamps]
    BY <1>0 DEF BuildTypeOK, Builder
  <2> QED
    BY <1>0, <2>1, IndexAssumption DEF BuildTypeOK, VersionsAreMade, Stamps
<1>5. VersionsAreMade'
  BY <1>1, <1>2, <1>4, <1>a DEF VersionsAreMade
<1>6. LeftIsInSync'
  BY <1>0, <1>2 DEF LeftIsInSync
<1>b. ASSUME NEW v \in Nat, v <= edits, NEW g \in Files, Past(v, g)
      PROVE  Past(v, g)'
  BY <1>1, <1>4, <1>b DEF Past
<1>7. ASSUME ~mixed'
      PROVE  (OneWorks /\ RecordsFollowPrints /\ CorpusFollowsPrints
               /\ \A c \in Builders : BuilderInv(c))'
  <2>0. OneWorks /\ RecordsFollowPrints /\ CorpusFollowsPrints /\ \A c \in Builders : BuilderInv(c)
    BY <1>7, <1>2 DEF BuildInv
  <2>1. OneWorks'
    BY <1>2, <2>0 DEF OneWorks
  <2>2. RecordsFollowPrints'
    BY <1>2, <1>a, <1>b, <2>0 DEF RecordsFollowPrints
  <2>3. CorpusFollowsPrints'
    BY <1>2, <1>a, <1>b, <2>0 DEF CorpusFollowsPrints
  <2>4. ASSUME NEW c \in Builders
        PROVE  BuilderInv(c)'
    <3>1. LoadIsCurrent(c) /\ DiffIsOfScan(c) /\ ParseIsOfScan(c) /\ WrittenIsThere(c)
      BY <2>0 DEF BuilderInv
    <3>2. LoadIsCurrent(c)' /\ WrittenIsThere(c)'
      BY <1>2, <3>1 DEF LoadIsCurrent, WrittenIsThere
    <3>3. DiffIsOfScan(c)'
      BY <1>2, <1>a, <1>b, <3>1 DEF DiffIsOfScan
    <3>4. ParseIsOfScan(c)'
      BY <1>2, <1>a, <1>b, <3>1 DEF ParseIsOfScan
    <3> QED
      BY <3>2, <3>3, <3>4 DEF BuilderInv
  <2> QED
    BY <2>1, <2>2, <2>3, <2>4
<1> QED
  BY <1>3, <1>5, <1>6, <1>7 DEF BuildInv

\* Every step of a builder keeps the invariant of the index.
LEMMA StepKeepsInv ==
  ASSUME BuildInv, NEW b \in Builders, BuildStep(b) \/ Begin(b)
  PROVE  BuildInv'
<1>0. BuildTypeOK /\ LeftIsInSync
  BY DEF BuildInv
<1>1. BuildTypeOK'
  BY <1>0, StepIsTyped
<1>2. CASE \/ Begin(b) \/ LookAtLock(b) \/ UnlinkLock(b) \/ WriteLock(b) \/ RenameLock(b)
           \/ GiveUp(b) \/ Synced(b) \/ Fail(b) \/ Release(b) \/ Die(b)
  BY <1>0, <1>1, <1>2, MostStepsDrift, DriftKeepsInv
<1>3. CASE Load(b)
  BY <1>1, <1>3, LoadKeepsInv
<1>4. CASE Scan(b)
  BY <1>0, <1>1, <1>4, IdleScanDrifts, DriftKeepsInv, ScanKeepsInv
<1>5. CASE Parse(b)
  BY <1>1, <1>5, ParseKeepsInv
<1>6. CASE WriteIndex(b)
  BY <1>1, <1>6, WriteIndexKeepsInv
<1>7. CASE WritePrints(b)
  BY <1>1, <1>7, WritePrintsKeepsInv
<1>8. CASE \E f \in Files : SyncDocument(b, f)
  BY <1>1, <1>8, SyncKeepsInv
<1>9. CASE NoRepos(b)
  BY <1>1, <1>9, NoReposKeepsInv
<1> QED
  BY <1>2, <1>3, <1>4, <1>5, <1>6, <1>7, <1>8, <1>9 DEF BuildStep

----------------------------------------------------------------------------
\* The daemon.

\* What was caught stays so while builders go on, and the daemon's builder takes what is
\* noticed into its scan, its fingerprints, or leaves it missed.
LEMMA BuildOverlooksNothing ==
  ASSUME IInv, BuildInv', Build
  PROVE  NothingIsOverlooked'
<1> USE WatchAssumption
<1>1. PICK b \in Builders : BuildStep(b) \/ (b # Daemon /\ Begin(b))
  BY DEF Build
<1>2. UNCHANGED <<mode, seen, pending, events, disk>>
  BY <1>1, ZenonT(40)
  DEF Build, watchVars, BuildStep, Begin, LookAtLock, UnlinkLock, WriteLock, RenameLock, GiveUp,
      NoRepos, Load, Scan, Parse, WriteIndex, WritePrints, SyncDocument, Synced, Fail, Release, Die,
      diskVars
<1>3. SUFFICES ASSUME mode # "off", ~mixed', NEW f \in Files, ~Caught(f)', f \notin missed'
               PROVE  Noticed(f)'
  BY <1>2 DEF NothingIsOverlooked
<1>4. ~mixed
  BY <1>1, <1>3
  DEF BuildStep, Begin, LookAtLock, UnlinkLock, WriteLock, RenameLock, GiveUp,
      NoRepos, Load, Scan, Parse, WriteIndex, WritePrints, SyncDocument, Synced, Fail, Release, Die, history
<1>5. f \in Behind'
  BY <1>3 DEF Behind
<1>6. f \notin missed /\ f \notin Overlooked /\ ~GiveUp(Daemon) /\ ~Fail(Daemon) /\ ~Die(Daemon)
  BY <1>3, <1>5 DEF Build, Lost
<1>7. /\ BuildTypeOK /\ OneWorks /\ LeftIsInSync /\ OneWorks' /\ RecordsFollowPrints
      /\ LoadIsCurrent(b) /\ ParseIsOfScan(b) /\ WrittenIsThere(b)
  BY <1>3, <1>4 DEF IInv, BuildInv, BuilderInv
<1>8. \A c \in Builders \ {b} : bld'[c] = bld[c]
  <2>1. bld \in [Builders -> Builder]
    BY <1>7 DEF BuildTypeOK
  <2> QED
    BY <1>1, <2>1
    DEF BuildStep, Begin, LookAtLock, UnlinkLock, WriteLock, RenameLock, GiveUp, Gone, Goto,
        NoRepos, Load, Scan, Parse, WriteIndex, WritePrints, SyncDocument, Synced, Fail, Release, Die
<1>9. /\ bld \in [Builders -> Builder]
      /\ \A place \in Places : Goto(b, place) => bld'[b].at = place /\ bld'[b].scan = bld[b].scan
      /\ bld' = [bld EXCEPT ![b] = Idle] => bld'[b].at = "idle"
  <2>1. bld \in [Builders -> Builder]
    BY <1>7 DEF BuildTypeOK
  <2>2. bld' = [bld EXCEPT ![b] = Idle] => bld'[b].at = "idle"
    BY <2>1 DEF Idle
  <2> QED
    BY <2>1, <2>2, Moved
\* Where the step leaves b, and what it does to the records and the fingerprints.
<1> DEFINE Early == {"lock", "unlink", "take", "rename", "load", "scan"}
           Same == UNCHANGED <<prints, fileIndex>>
           Goes == bld[b].at \in {"idle"} \cup Early /\ bld'[b].at \in Early /\ Same
           Ends == bld'[b].at = "idle" /\ (bld[b].at = "release" \/ b # Daemon) /\ Same
           Drops == b # Daemon /\ bld'[b].at = "release" /\ Same
           Tells == bld[b].at = "sync" /\ bld'[b].at \in {"sync", "release"} /\ Same
           Looks == bld'[b].at \in Scanned /\ bld'[b].scan[f] = disk[f] /\ Same
           Skips == Scan(b) /\ bld'[b].at = "release" /\ bld'[b].scan[f] = disk[f] /\ Same
           Parses == bld[b].at = "parse" /\ bld'[b].at = "index" /\ bld'[b].scan = bld[b].scan /\ Same
           Keeps == /\ bld[b].at = "index" /\ bld'[b].at = "prints" /\ bld'[b].scan = bld[b].scan
                       /\ fileIndex' = bld[b].meta /\ UNCHANGED prints
           Writes == /\ bld[b].at = "prints" /\ bld'[b].at = "sync" /\ prints' = bld[b].scan
                     /\ UNCHANGED fileIndex
<1>10. \/ Goes \/ Ends \/ Drops \/ Tells \/ Looks \/ Skips \/ Parses \/ Keeps \/ Writes
  <2> USE <1>9 DEF At, indexVars
  <2>a. {"lock", "unlink", "take", "rename", "load", "prints", "release"} \subseteq Places
    BY DEF Places, Working
  <2>1. CASE Begin(b)
    BY <2>1 DEF Begin
  <2>2. CASE LookAtLock(b) \/ UnlinkLock(b) \/ WriteLock(b) \/ RenameLock(b)
    BY <2>2, <2>a DEF LookAtLock, UnlinkLock, WriteLock, RenameLock
  <2>3. CASE GiveUp(b) \/ Release(b) \/ Die(b)
    <3>1. b # Daemon \/ Release(b)
      BY <1>6, <2>3
    <3> QED
      BY <2>3, <3>1 DEF GiveUp, Release, Die, Gone
  <2>4. CASE Load(b)
    BY <2>4 DEF Load
  <2>5. CASE Scan(b)
    <3>1. bld'[b].scan[f] = disk[f]
      BY <1>6, <2>5 DEF Overlooked
    <3>2. bld'[b].at \in {"release", "parse"}
      BY <1>7, <2>5, ScanIs
    <3>3. Same
      BY <2>5 DEF Scan
    <3> QED
      BY <2>5, <3>1, <3>2, <3>3 DEF Scanned
  <2>6. CASE NoRepos(b)
    <3>1. bld'[b].scan[f] = disk[f]
      BY <1>6, <2>6 DEF Overlooked
    <3>2. bld'[b].at = "index"
      BY <2>6 DEF NoRepos, Idle
    <3> QED
      BY <2>6, <3>1, <3>2 DEF NoRepos, Scanned
  <2>7. CASE Parse(b)
    <3>1. bld'[b].at = "index" /\ bld'[b].scan = bld[b].scan
      BY <2>7 DEF Parse
    <3> QED
      BY <2>7, <3>1 DEF Parse
  <2>b. ASSUME bld[b].at \in Working, NEW v, NEW old, NEW place
        PROVE  Written(b, v, old, place) = {[value |-> v, then |-> place]}
    <3>1. \A c \in Builders \ {b} : bld[c].at # bld[b].at
      BY <1>7, <2>b DEF OneWorks
    <3> QED
      BY <3>1 DEF Written
  <2>8. CASE WriteIndex(b)
    <3>1. bld[b].at = "index" /\ bld[b].at \in Working
      BY <2>8 DEF WriteIndex, Working
    <3>2. fileIndex' = bld[b].meta /\ Goto(b, "prints")
      <4>1. PICK w \in Written(b, bld[b].meta, fileIndex, "prints") :
              fileIndex' = w.value /\ Goto(b, w.then)
        BY <2>8 DEF WriteIndex
      <4>2. w = [value |-> bld[b].meta, then |-> "prints"]
        BY <2>b, <3>1, <4>1
      <4> QED
        BY <4>1, <4>2
    <3> QED
      BY <2>8, <2>a, <3>1, <3>2 DEF WriteIndex
  <2>9. CASE WritePrints(b)
    <3>1. bld[b].at = "prints" /\ bld[b].at \in Working
      BY <2>9 DEF WritePrints, Working
    <3>2. PICK w \in Written(b, bld[b].scan, prints, "sync") :
            /\ prints' = w.value
            /\ bld' = [bld EXCEPT ![b].at = w.then,
                                  ![b].left = IF w.then = "sync" THEN ToSync(b) ELSE {}]
      BY <2>9 DEF WritePrints
    <3>3. w = [value |-> bld[b].scan, then |-> "sync"]
      BY <2>b, <3>1, <3>2
    <3>4. prints' = bld[b].scan /\ bld'[b].at = "sync"
      BY <3>2, <3>3
    <3> QED
      BY <2>9, <3>1, <3>4 DEF WritePrints
  <2>10. CASE \E g \in Files : SyncDocument(b, g)
    BY <2>10 DEF SyncDocument
  <2>11. CASE Synced(b)
    BY <2>11, <2>a DEF Synced
  <2>12. CASE Fail(b)
    BY <1>6, <2>12, <2>a DEF Fail
  <2> QED
    BY <1>1, <2>1, <2>2, <2>3, <2>4, <2>5, <2>6, <2>7, <2>8, <2>9, <2>10, <2>11, <2>12 DEF BuildStep
<1>11. ~Caught(f) => Noticed(f)
  BY <1>3, <1>4, <1>6 DEF IInv, NothingIsOverlooked
<1>12. ASSUME Caught(f), Vouched(f)', bld'[b].at \in Scanned => bld'[b].scan[f] = disk[f]
       PROVE  FALSE
  BY <1>2, <1>3, <1>8, <1>12 DEF Caught, Scanned
<1>13. b # Daemon /\ ~Caught(f) => Noticed(f)'
  BY <1>2, <1>8, <1>11 DEF Noticed
<1>14. Same /\ Caught(f) => Vouched(f)'
  BY <1>2 DEF Caught, Vouched
\* What was parsed from the file as it is has a record.
<1>a. /\ bld[b].scan[f] \in Nat
      /\ bld[b].meta # Unreadable
      /\ bld[b].at \in {"index", "prints"} /\ bld[b].scan[f] = disk[f] /\ disk[f] # 0
            => bld[b].meta[f] # 0
  <2>1. bld[b] \in Builder /\ Records \subseteq Nat /\ Stamps \subseteq Nat /\ Unread # 0
    BY <1>7, IndexAssumption DEF BuildTypeOK, Records, Unread, Stamps
  <2>2. bld[b].scan \in [Files -> Nat] /\ bld[b].meta \in [Files -> Nat]
    BY <2>1 DEF Builder
  <2> QED
    BY <1>7, <2>1, <2>2, IndexAssumption DEF ParseIsOfScan, Made, Past
<1>15. CASE Goes
  BY <1>12, <1>13, <1>14, <1>15 DEF Noticed, Scanned
<1>16. CASE Ends
  BY <1>2, <1>6, <1>11, <1>12, <1>13, <1>14, <1>16 DEF Noticed, Scanned
<1>b. CASE Drops
  BY <1>12, <1>13, <1>14, <1>b DEF Scanned
<1>17. CASE Tells
  BY <1>2, <1>11, <1>12, <1>13, <1>14, <1>17 DEF Noticed, Scanned
<1>18. CASE Looks
  BY <1>2, <1>12, <1>13, <1>14, <1>18 DEF Noticed
<1>c. CASE Skips
  <2>1. PICK scan \in [Files -> Stamps] :
          /\ bld'[b].at = IF bld[b].incremental /\ Changed(b, scan) \cup Deleted(b, scan) = {}
                          THEN "release" ELSE "parse"
          /\ bld'[b].scan = scan
    BY <1>7, <1>c, ScanIs
  <2>2. bld[b].incremental /\ f \notin Changed(b, scan) /\ f \notin Deleted(b, scan)
    BY <1>c, <2>1
  <2>3. /\ prints # Unreadable /\ bld[b].prints = prints /\ bld[b].index = fileIndex
        /\ fileIndex # Unreadable
    BY <1>7, <1>c, <2>2 DEF LoadIsCurrent, RecordsFollowPrints, Scan, At
  <2>4. Vouched(f)'
    BY <1>2, <1>c, <2>1, <2>2, <2>3 DEF Changed, Deleted, Vouched
  <2>5. \A c \in Builders : bld'[c].at \notin Scanned
    BY <1>7, <1>8, <1>c DEF OneWorks, Scanned, Working, Scan, At
  <2> QED
    BY <1>3, <2>4, <2>5 DEF Caught, Scanned
<1>19. CASE Parses
  BY <1>2, <1>11, <1>12, <1>13, <1>14, <1>19 DEF Noticed, Scanned, Caught
<1>d. CASE Keeps
  <2>1. Caught(f) => Vouched(f)'
    BY <1>2, <1>a, <1>d DEF Caught, Vouched
  <2> QED
    BY <1>2, <1>11, <1>12, <1>13, <1>d, <2>1 DEF Noticed, Scanned, Caught
<1>20. CASE Writes
  <2>1. bld[b].scan[f] # disk[f]
    <3>1. SUFFICES ASSUME bld[b].scan[f] = disk[f] PROVE FALSE
      OBVIOUS
    <3>2. Vouched(f)'
      <4>1. bld[b].scan # Unreadable
        <5>1. bld[b].scan \in [Files -> Nat]
          BY <1>9, IndexAssumption DEF Builder, Stamps
        <5> QED
          BY <5>1, IndexAssumption
      <4>2. fileIndex = bld[b].meta
        BY <1>7, <1>20 DEF WrittenIsThere
      <4> QED
        BY <1>2, <1>a, <1>20, <3>1, <4>1, <4>2 DEF Vouched
    <3>3. \A c \in Builders : bld'[c].at \notin Scanned
      BY <1>7, <1>8, <1>20 DEF OneWorks, Scanned, Working
    <3> QED
      BY <1>3, <3>2, <3>3 DEF Caught, Scanned
  <2>2. ~Caught(f)
    BY <1>20, <2>1 DEF Caught
  <2> QED
    BY <1>2, <1>11, <1>13, <1>20, <2>1, <2>2 DEF Noticed, Scanned
<1> QED
  BY <1>10, <1>15, <1>16, <1>17, <1>18, <1>19, <1>20, <1>b, <1>c, <1>d

\* Whatever the daemon does by itself, a file that is behind stays noticed or missed.
LEMMA WatchOverlooksNothing ==
  ASSUME IInv, \/ Start \/ Stop \/ Pass \/ Poll \/ Trigger \/ \E f \in Files : Handle(f)
  PROVE  NothingIsOverlooked'
<1> USE WatchAssumption DEF IInv
<1>0. bld \in [Builders -> Builder] /\ seen \in [Files -> Stamps] /\ disk \in [Files -> Stamps]
  BY DEF TypeOK, BuildTypeOK
<1>a. ASSUME Rebuild
      PROVE  bld'[Daemon].at = "lock"
  <2>1. PICK inc \in BOOLEAN :
          bld' = [bld EXCEPT ![Daemon].at = "lock", ![Daemon].incremental = inc]
    BY <1>a DEF Rebuild, Begin
  <2> QED
    BY <1>0, <2>1 DEF Builder
<1>1. CASE Start
  <2>1. UNCHANGED <<disk, prints, fileIndex, bld, mixed>> /\ missed' = missed \cup Behind
    BY <1>1 DEF Start, buildVars, diskVars, indexVars, history
  <2> QED
    BY <2>1 DEF NothingIsOverlooked, Behind, Caught, Vouched
<1>2. CASE Stop
  BY <1>2 DEF Stop, NothingIsOverlooked
<1>b. ASSUME UNCHANGED <<disk, prints, fileIndex, bld>>, NEW f \in Files, Caught(f)
      PROVE  Caught(f)'
  BY <1>b DEF Caught, Vouched
<1>3. CASE Pass
  <2>1. UNCHANGED <<disk, prints, fileIndex, bld, mixed, mode, seen, pending, events, missed>>
    BY <1>3 DEF Pass, buildVars, diskVars, indexVars, history
  <2> QED
    BY <1>b, <2>1 DEF NothingIsOverlooked, Noticed
<1>4. CASE Poll
  BY <1>4 DEF Poll, NothingIsOverlooked, Noticed
<1>5. CASE Trigger
  BY <1>5, <1>a DEF Trigger, NothingIsOverlooked, Noticed
<1>6. ASSUME NEW f \in Files, Handle(f)
      PROVE  NothingIsOverlooked'
  <2>1. CASE Rebuild
    BY <1>a, <2>1 DEF NothingIsOverlooked, Noticed
  <2>2. CASE missed' = missed \cup (Behind \cap {f}) /\ UNCHANGED buildVars
    <3>1. /\ UNCHANGED <<disk, prints, fileIndex, bld, mixed, mode, seen, pending>>
          /\ events' = events \ {f} /\ missed' = missed \cup (Behind \cap {f})
      BY <1>6, <2>2 DEF Handle, buildVars, diskVars, indexVars, history
    <3> QED
      BY <1>b, <3>1 DEF NothingIsOverlooked, Noticed, Behind
  <2> QED
    BY <1>6, <2>1, <2>2 DEF Handle
<1> QED
  BY <1>1, <1>2, <1>3, <1>4, <1>5, <1>6

\* A file that changes is noticed, ahead of the next round, or back to what the last
\* round saw.
LEMMA EditOverlooksNothing ==
  ASSUME IInv, NEW f \in Files, Edit(f)
  PROVE  NothingIsOverlooked'
<1>1. BuildTypeOK /\ VersionsAreMade
  BY DEF IInv, BuildInv
<1>2. /\ disk' \in [Files -> Stamps]
      /\ \A g \in Files \ {f} : disk'[g] = disk[g]
      /\ UNCHANGED <<prints, fileIndex, bld, mixed, mode, seen, pending>>
  BY <1>1, ChangeGoesOn DEF Edit, Change, lockVars, indexVars, history
<1>3. /\ events \subseteq events' /\ missed \subseteq missed'
      /\ \/ mode = "watchdog" /\ f \in events'
         \/ mode = "poll" /\ disk'[f] # seen[f]
         \/ f \in Behind' => f \in missed'
         \/ mode = "off"
  BY DEF Edit
<1>4. ASSUME NEW g \in Files \ {f}, mode # "off", ~mixed
      PROVE  (Caught(g) \/ g \in missed \/ Noticed(g))'
  <2>1. Caught(g) \/ g \in missed \/ Noticed(g)
    BY <1>4 DEF IInv, NothingIsOverlooked
  <2>2. CASE Caught(g)
    BY <1>2, <2>2 DEF Caught, Vouched
  <2>3. CASE g \in missed
    BY <1>3, <2>3
  <2>4. CASE Noticed(g)
    BY <1>2, <1>3, <2>4 DEF Noticed
  <2> QED
    BY <2>1, <2>2, <2>3, <2>4
<1>5. ASSUME mode # "off"
      PROVE  (Caught(f) \/ f \in missed \/ Noticed(f))'
  <2>1. CASE mode = "watchdog" /\ f \in events'
    BY <1>2, <2>1 DEF Noticed
  <2>2. CASE mode = "poll" /\ disk'[f] # seen[f]
    BY <1>2, <2>2 DEF Noticed
  <2>3. CASE f \in Behind' => f \in missed'
    BY <2>3 DEF Behind
  <2> QED
    BY <1>3, <1>5, <2>1, <2>2, <2>3
<1> QED
  BY <1>2, <1>4, <1>5 DEF NothingIsOverlooked

\* The types of the daemon.
LEMMA NextIsTyped ==
  ASSUME TypeOK, BuildTypeOK', Next
  PROVE  TypeOK'
<1> USE DEF TypeOK
<1>0. None \in [Files -> Stamps]
  BY IdleIsTyped
<1>a. disk \in [Files -> Stamps] /\ Behind \subseteq Files /\ Behind' \subseteq Files
  BY DEF BuildTypeOK, Behind
<1>1. CASE Start
  BY <1>1, <1>a DEF Start
<1>2. CASE Stop
  BY <1>0, <1>2 DEF Stop
<1>3. CASE Pass
  BY <1>3 DEF Pass
<1>4. CASE Poll
  BY <1>4, <1>a DEF Poll
<1>5. CASE Trigger
  BY <1>5 DEF Trigger
<1>6. CASE Build
  BY <1>6, <1>a DEF Build, watchVars
<1>7. ASSUME NEW f \in Files, Edit(f) \/ Handle(f)
      PROVE  TypeOK'
  BY <1>7, <1>a DEF Edit, Handle
<1> QED
  BY <1>1, <1>2, <1>3, <1>4, <1>5, <1>6, <1>7 DEF Next

\* So does a step that leaves the index alone.
LEMMA RestKeepsInv ==
  ASSUME BuildInv,
         UNCHANGED <<disk, edits, lock, lockTmp, fileIndex, prints, corpus, bld, builds>>,
         UNCHANGED <<mixed, cut, unsynced>>
  PROVE  BuildInv'
<1>1. BuildTypeOK' /\ VersionsAreMade' /\ LeftIsInSync'
  BY DEF BuildInv, BuildTypeOK, VersionsAreMade, LeftIsInSync
<1>2. ASSUME ~mixed'
      PROVE  (OneWorks /\ RecordsFollowPrints /\ CorpusFollowsPrints
               /\ \A b \in Builders : BuilderInv(b))'
  <2>0. OneWorks /\ RecordsFollowPrints /\ CorpusFollowsPrints /\ \A b \in Builders : BuilderInv(b)
    BY <1>2 DEF BuildInv
  <2>1. OneWorks' /\ RecordsFollowPrints' /\ CorpusFollowsPrints'
    BY <2>0 DEF OneWorks, RecordsFollowPrints, CorpusFollowsPrints, Past
  <2>2. \A b \in Builders : BuilderInv(b)'
    BY <2>0 DEF BuilderInv, LoadIsCurrent, DiffIsOfScan, ParseIsOfScan, WrittenIsThere, Past
  <2> QED
    BY <2>1, <2>2
<1> QED
  BY <1>1, <1>2 DEF BuildInv

\* The inductive invariant holds in every state.
LEMMA InductiveInvariant == Spec => []IInv
<1>1. Init => IInv
  <2> SUFFICES ASSUME Init PROVE IInv
    OBVIOUS
  <2>1. /\ disk \in [Files -> {0, 1}] /\ edits = 1 /\ prints = Unreadable /\ builds = 0
        /\ bld = [b \in Builders |-> Idle] /\ mode = "off"
    BY DEF Init, BuildInit
  <2>2. \A b \in Builders : /\ bld[b] \in Builder /\ bld[b].at = "idle" /\ bld[b].left = {}
                            /\ bld[b].scan = None
    BY <2>1, IdleIsTyped DEF Idle
  <2>3. BuildTypeOK
    <3>1. disk \in [Files -> Stamps] /\ edits \in Stamps /\ builds \in 0..MaxBuilds
      BY <2>1, IndexAssumption DEF Stamps
    <3>2. bld \in [Builders -> Builder]
      BY <2>1, <2>2
    <3> QED
      BY <3>1, <3>2, IdleIsTyped DEF Init, BuildInit, BuildTypeOK
  <2>4. TypeOK
    BY <2>3, IdleIsTyped DEF TypeOK, Init
  <2>5. VersionsAreMade /\ LeftIsInSync
    BY <2>1, <2>2 DEF VersionsAreMade, LeftIsInSync, None
  <2>6. OneWorks /\ RecordsFollowPrints /\ CorpusFollowsPrints
    BY <2>1, <2>2 DEF OneWorks, Working, RecordsFollowPrints, CorpusFollowsPrints
  <2>7. \A b \in Builders : BuilderInv(b)
    BY <2>2 DEF BuilderInv, LoadIsCurrent, DiffIsOfScan, ParseIsOfScan, WrittenIsThere, Scanned
  <2> QED
    BY <2>1, <2>3, <2>4, <2>5, <2>6, <2>7 DEF IInv, BuildInv, NothingIsOverlooked
<1>2. IInv /\ [Next]_vars => IInv'
  <2> SUFFICES ASSUME IInv, [Next]_vars PROVE IInv'
    OBVIOUS
  <2>1. CASE UNCHANGED vars
    <3>1. /\ UNCHANGED <<disk, edits, lock, lockTmp, fileIndex, prints, corpus, bld, builds>>
          /\ UNCHANGED <<mixed, cut, unsynced, mode, seen, pending, events, lately, missed>>
      BY <2>1 DEF vars, buildVars, diskVars, lockVars, indexVars, history, watchVars
    <3>2. BuildInv'
      BY <3>1, RestKeepsInv DEF IInv
    <3>3. BuildTypeOK'
      BY <3>2 DEF BuildInv
    <3>4. TypeOK' /\ NothingIsOverlooked'
      BY <3>1, <3>3 DEF IInv, TypeOK, NothingIsOverlooked, Caught, Vouched, Noticed
    <3> QED
      BY <3>2, <3>4 DEF IInv
  <2>2. CASE Next
    <3>0. BuildInv /\ Daemon \in Builders
      BY WatchAssumption DEF IInv
    <3>1. BuildInv'
      <4>1. CASE Build
        BY <3>0, <4>1, StepKeepsInv DEF Build
      <4>2. CASE Trigger \/ \E f \in Files : Handle(f) /\ Rebuild
        BY <3>0, <4>2, StepKeepsInv DEF Trigger, Rebuild
      <4>3. CASE \E f \in Files : Edit(f)
        BY <3>0, <4>3, ChangeKeepsInv DEF Edit
      <4>4. CASE UNCHANGED buildVars
        <5>1. /\ UNCHANGED <<disk, edits, lock, lockTmp, fileIndex, prints, corpus, bld, builds>>
              /\ UNCHANGED <<mixed, cut, unsynced>>
          BY <4>4 DEF buildVars, diskVars, lockVars, indexVars, history
        <5> QED
          BY <3>0, <5>1, RestKeepsInv
      <4> QED
        BY <2>2, <4>1, <4>2, <4>3, <4>4 DEF Next, Start, Stop, Pass, Poll, Handle
    <3>2. TypeOK'
      BY <2>2, <3>1, NextIsTyped DEF IInv, BuildInv
    <3>3. NothingIsOverlooked'
      BY <2>2, <3>1, BuildOverlooksNothing, WatchOverlooksNothing, EditOverlooksNothing DEF Next
    <3> QED
      BY <3>1, <3>2, <3>3 DEF IInv
  <2> QED
    BY <2>1, <2>2
<1> QED
  BY <1>1, <1>2, PTL DEF Spec

----------------------------------------------------------------------------
\* What is vouched for has a record that is made from it.
LEMMA VouchedIsRecorded ==
  ASSUME IInv, ~mixed, NEW f \in Files, Vouched(f), f \notin cut
  PROVE  Recorded(f)
<1>1. RecordsFollowPrints /\ prints # Unreadable /\ prints[f] = disk[f]
  BY DEF IInv, BuildInv, Vouched
<1>2. fileIndex # Unreadable
  BY <1>1 DEF RecordsFollowPrints
<1>3. Made(fileIndex[f], disk[f]) \/ (fileIndex[f] = 0 /\ disk[f] # 0)
  BY <1>1 DEF RecordsFollowPrints, Past
<1> QED
  BY <1>1, <1>2, <1>3 DEF Vouched, Recorded

\* In every state the index has its types, and a file that compute_diff passes over has
\* the record of the version on disk, or an error record, unless builders ran at once
\* (_try_acquire_lock lets them) or one ended between write_indexes of the record and of
\* its fingerprint.
THEOREM RecordsAreAlwaysSound == Spec => []RecordsAreSound
<1>1. IInv => RecordsAreSound
  BY VouchedIsRecorded DEF IInv, RecordsAreSound, RecordsAreCurrent
<1> QED
  BY <1>1, InductiveInvariant, PTL

\* In every state a file that compute_diff passes over is found by the search as it is,
\* or as what could not be parsed, once its builder has told sync_fts5_code_corpus of it,
\* unless that failed or builders ran at once.
THEOREM SearchIsAlwaysCurrent == Spec => []SearchIsCurrent
<1>1. IInv => SearchIsCurrent
  BY DEF IInv, BuildInv, SearchIsCurrent, CorpusFollowsPrints, Vouched, Past
<1> QED
  BY <1>1, InductiveInvariant, PTL

\* In every state where workspace_intelligence_daemon has come to rest over a file, the
\* record is that of the file, or an error record, unless the daemon missed the change.
THEOREM QuietIndexIsAlwaysCurrent == Spec => []QuietIndexIsCurrent
<1>1. IInv => QuietIndexIsCurrent
  <2> SUFFICES ASSUME IInv, NEW f \in Files, Quiet(f), f \notin missed, f \notin cut, ~mixed
               PROVE  Recorded(f)
    BY DEF QuietIndexIsCurrent
  <2>1. ~Noticed(f) /\ mode # "off"
    BY DEF Quiet, Free, At, Noticed, Scanned
  <2>2. Vouched(f)
    BY <2>1 DEF IInv, NothingIsOverlooked, Caught
  <2> QED
    BY <2>2, VouchedIsRecorded
<1> QED
  BY <1>1, InductiveInvariant, PTL

=============================================================================
