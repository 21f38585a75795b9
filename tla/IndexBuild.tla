----------------------------- MODULE IndexBuild -----------------------------
(***************************************************************************)
(* The workspace intelligence index:                                        *)
(* tools/build_workspace_intelligence_index.py (scan_repo, compute_diff,    *)
(* parse_file, write_indexes, _build) with the lock, the atomic writes and  *)
(* the search corpus of tools/_workspace_intel_common.py.                   *)
(*                                                                          *)
(* Several builders may start at once: `citadel up`, `citadel index`, a     *)
(* query, the watching daemon.  A lock file is to keep them apart; it is    *)
(* looked at, unlinked and renamed into place in separate steps.  The files *)
(* change while a builder works; a step of it may raise, and it may die.    *)
(*                                                                          *)
(* Abstracted: a file is the number of its version, 0 when it is absent,    *)
(* empty, too large or sensitive, and its mtime and size tell versions      *)
(* apart.  The generated summaries (phase 7) are not among the files.  All  *)
(* indexes are made from the same records, so two are followed: the records *)
(* (file-index.json) and the fingerprints that vouch for them.              *)
(***************************************************************************)
EXTENDS Naturals, FiniteSets

CONSTANTS Files,      \* files the scan can find
          Builders,   \* builder processes alive at once
          NoPid,      \* no lock
          DeadPid,    \* the pid of a process that is gone
          Unreadable, \* a JSON file that is missing or does not parse
          MaxEdits,   \* bounds the changes of the files
          MaxBuilds   \* bounds the builds

ASSUME IndexAssumption == /\ MaxEdits \in Nat \ {0} /\ MaxBuilds \in Nat
                          /\ {NoPid, DeadPid} \cap Builders = {} /\ NoPid # DeadPid
                          /\ Unreadable \notin [Files -> Nat]

Unread == MaxEdits + 1          \* the record of a file that could not be parsed
Stamps == 0..MaxEdits
Records == 0..Unread

VARIABLES disk,       \* file -> its version
          edits,      \* versions made so far
          lock,       \* the pid in index.lock
          lockTmp,    \* the pid in index.lock.tmp
          fileIndex,  \* file -> the version its record was made from, or Unreadable
          prints,     \* file -> the version of its fingerprint, or Unreadable
          corpus,     \* file -> the version its search document was made from
          bld,        \* builder -> where it stands and what it holds
          builds,     \* builds begun
          mixed,      \* two builders were at work at once (history)
          cut,        \* files recorded before they were fingerprinted (history)
          unsynced    \* files whose last change the corpus was not told (history)

diskVars == <<disk, edits>>
lockVars == <<lock, lockTmp>>
indexVars == <<fileIndex, prints, corpus>>
history == <<mixed, cut, unsynced>>
buildVars == <<diskVars, lockVars, indexVars, bld, builds, history>>

None == [f \in Files |-> 0]
Idle == [at |-> "idle", incremental |-> FALSE, prints |-> None, index |-> None,
         scan |-> None, changed |-> {}, deleted |-> {}, meta |-> None, left |-> {}]

At(b, place) == bld[b].at = place
Goto(b, place) == bld' = [bld EXCEPT ![b].at = place]
Working == {"load", "scan", "parse", "index", "prints", "sync", "release"}

----------------------------------------------------------------------------
BuildInit ==
  /\ disk \in [Files -> {0, 1}] /\ edits = 1
  /\ lock = NoPid /\ lockTmp = NoPid
  /\ fileIndex = Unreadable /\ prints = Unreadable /\ corpus = None
  /\ bld = [b \in Builders |-> Idle] /\ builds = 0
  /\ mixed = FALSE /\ cut = {} /\ unsynced = {}

\* A file is written or removed.
Change(f) ==
  /\ edits < MaxEdits /\ edits' = edits + 1
  /\ \E v \in {0, edits'} \ {disk[f]} : disk' = [disk EXCEPT ![f] = v]
  /\ UNCHANGED <<lockVars, indexVars, bld, builds, history>>

\* A builder starts, with --rebuild or without.
Begin(b) ==
  /\ At(b, "idle") /\ builds < MaxBuilds /\ builds' = builds + 1
  /\ \E incremental \in BOOLEAN :
       bld' = [bld EXCEPT ![b].at = "lock", ![b].incremental = incremental]
  /\ UNCHANGED <<diskVars, lockVars, indexVars, history>>

\* _try_acquire_lock reads the lock.  The lock of a dead process, and one that is
\* older than LOCK_STALE_SECONDS, whoever works under it, is to be unlinked.
LookAtLock(b) ==
  /\ At(b, "lock")
  /\ \/ lock = NoPid /\ Goto(b, "take")
     \/ lock # NoPid /\ Goto(b, "unlink")
  /\ UNCHANGED <<diskVars, lockVars, indexVars, builds, history>>

UnlinkLock(b) ==
  /\ At(b, "unlink") /\ Goto(b, "take")
  /\ lock' = NoPid
  /\ UNCHANGED <<diskVars, lockTmp, indexVars, builds, history>>

WriteLock(b) ==
  /\ At(b, "take") /\ Goto(b, "rename")
  /\ lockTmp' = b
  /\ UNCHANGED <<diskVars, lock, indexVars, builds, history>>

\* os.replace takes whatever pid is in the temporary file by now; without one it
\* raises, and the builder tries again.
RenameLock(b) ==
  /\ At(b, "rename")
  /\ IF lockTmp = NoPid
     THEN Goto(b, "lock") /\ UNCHANGED <<lockVars, mixed>>
     ELSE /\ Goto(b, "load") /\ lock' = lockTmp /\ lockTmp' = NoPid
          /\ mixed' = (mixed \/ \E c \in Builders \ {b} : bld[c].at \in Working)
  /\ UNCHANGED <<diskVars, indexVars, builds, cut, unsynced>>

\* What is left of a process: a pid that nobody has.
Gone(b) == /\ bld' = [bld EXCEPT ![b] = Idle]
           /\ lock' = IF lock = b THEN DeadPid ELSE lock
           /\ lockTmp' = IF lockTmp = b THEN DeadPid ELSE lockTmp

\* A live holder is waited for, 30 seconds at most; then the builder returns 1.
GiveUp(b) == /\ At(b, "lock") /\ lock \in Builders /\ Gone(b)
             /\ UNCHANGED <<diskVars, indexVars, builds, history>>

\* The fingerprints and the records of the last build: without fingerprints, and
\* with --rebuild, everything is parsed.
Load(b) ==
  /\ At(b, "load")
  /\ bld' = [bld EXCEPT ![b].at = "scan",
                        ![b].incremental = @ /\ prints # Unreadable,
                        ![b].prints = IF bld[b].incremental /\ prints # Unreadable THEN prints ELSE None,
                        ![b].index = IF bld[b].incremental /\ prints # Unreadable
                                        /\ fileIndex # Unreadable THEN fileIndex ELSE None]
  /\ UNCHANGED <<diskVars, lockVars, indexVars, builds, history>>

\* discover_repos finds none: an index of nothing is to be written.
NoRepos(b) ==
  /\ At(b, "load") /\ bld' = [bld EXCEPT ![b] = [Idle EXCEPT !.at = "index"]]
  /\ UNCHANGED <<diskVars, lockVars, indexVars, builds, history>>

\* compute_diff.
Changed(b, scan) == {f \in Files : scan[f] # 0 /\ (bld[b].prints[f] # scan[f] \/ bld[b].index[f] = 0)}
Deleted(b, scan) == {f \in Files : scan[f] = 0 /\ bld[b].prints[f] # 0}

\* scan_repo stats every file, but for those it may not list or stat, and those of a
\* repository that no longer looks like one; an incremental build without a
\* difference only writes its metadata.
Scan(b) ==
  /\ At(b, "scan")
  /\ \E skipped \in SUBSET Files :
       LET scan == [f \in Files |-> IF f \in skipped THEN 0 ELSE disk[f]]
           changed == Changed(b, scan)
           deleted == Deleted(b, scan) IN
       bld' = [bld EXCEPT ![b].scan = scan, ![b].changed = changed, ![b].deleted = deleted,
                          ![b].at = IF bld[b].incremental /\ changed \cup deleted = {}
                                    THEN "release" ELSE "parse"]
  /\ UNCHANGED <<diskVars, lockVars, indexVars, builds, history>>

\* parse_file reads the changed files as they are by now: one that is gone, and any
\* other that raises, gets an error record.  The records of the others are carried over.
Parse(b) ==
  /\ At(b, "parse")
  /\ \E raising \in SUBSET bld[b].changed :
       bld' = [bld EXCEPT ![b].at = "index",
                          ![b].meta = [f \in Files |->
                            IF f \notin bld[b].changed THEN IF bld[b].scan[f] = 0 THEN 0 ELSE bld[b].index[f]
                            ELSE IF disk[f] = 0 \/ f \in raising THEN Unread ELSE disk[f]]]
  /\ UNCHANGED <<diskVars, lockVars, indexVars, builds, history>>

\* atomic_write_json of `content` over `old`, by a temporary name that all builders
\* share: two of them at the same file may rename what the other one has half written,
\* or find nothing to rename, which raises.
Written(b, content, old, next) ==
  IF \E c \in Builders \ {b} : bld[c].at = bld[b].at
  THEN {[value |-> v, then |-> next] : v \in {content, Unreadable}}
         \cup {[value |-> v, then |-> "release"] : v \in {content, old, Unreadable}}
  ELSE {[value |-> content, then |-> next]}

WriteIndex(b) ==
  /\ At(b, "index")
  /\ \E w \in Written(b, bld[b].meta, fileIndex, "prints") : fileIndex' = w.value /\ Goto(b, w.then)
  /\ cut' = {f \in Files : bld[b].scan[f] # 0 /\ (IF prints = Unreadable THEN TRUE ELSE prints[f] = 0)}
  /\ UNCHANGED <<diskVars, lockVars, prints, corpus, builds, mixed, unsynced>>

ToSync(b) == bld[b].changed \cup bld[b].deleted

\* A mutant of WritePrints: the files are looked at once more for their fingerprint.
WritePrintsLate(b) ==
  /\ At(b, "prints") /\ cut' = {}
  /\ prints' = [f \in Files |-> IF bld[b].scan[f] = 0 THEN 0 ELSE disk[f]]
  /\ bld' = [bld EXCEPT ![b].at = "sync", ![b].left = ToSync(b)]
  /\ UNCHANGED <<diskVars, lockVars, fileIndex, corpus, builds, mixed, unsynced>>

\* The fingerprints are those of the scan.  A build that is not incremental does not
\* know what was deleted.
WritePrints(b) ==
  /\ At(b, "prints") /\ cut' = {}
  /\ \E w \in Written(b, bld[b].scan, prints, "sync") :
       /\ prints' = w.value
       /\ bld' = [bld EXCEPT ![b].at = w.then, ![b].left = IF w.then = "sync" THEN ToSync(b) ELSE {}]
  /\ unsynced' = IF bld[b].incremental THEN unsynced
                 ELSE unsynced \cup {f \in Files : bld[b].scan[f] = 0 /\ corpus[f] # 0}
  /\ UNCHANGED <<diskVars, lockVars, fileIndex, corpus, builds, mixed>>

\* A mutant of SyncDocument: what is deleted is left in the corpus.
SyncChanged(b, f) ==
  /\ At(b, "sync") /\ f \in bld[b].left
  /\ bld' = [bld EXCEPT ![b].left = @ \ {f}]
  /\ \/ /\ corpus' = IF f \in bld[b].changed THEN [corpus EXCEPT ![f] = bld[b].meta[f]] ELSE corpus
        /\ unsynced' = unsynced \ {f}
     \/ unsynced' = unsynced \cup {f} /\ UNCHANGED corpus
  /\ UNCHANGED <<diskVars, lockVars, fileIndex, prints, builds, mixed, cut>>

\* sync_fts5_code_corpus: a deleted document goes, a changed one is replaced, in a
\* transaction each; an error is counted and forgotten.
SyncDocument(b, f) ==
  /\ At(b, "sync") /\ f \in bld[b].left
  /\ bld' = [bld EXCEPT ![b].left = @ \ {f}]
  /\ \/ /\ corpus' = [corpus EXCEPT ![f] = IF f \in bld[b].changed THEN bld[b].meta[f] ELSE 0]
        /\ unsynced' = unsynced \ {f}
     \/ unsynced' = unsynced \cup {f} /\ UNCHANGED corpus
  /\ UNCHANGED <<diskVars, lockVars, fileIndex, prints, builds, mixed, cut>>

Synced(b) == /\ At(b, "sync") /\ bld[b].left = {} /\ Goto(b, "release")
             /\ UNCHANGED <<diskVars, lockVars, indexVars, builds, history>>

\* Anything else that fails, a directory that cannot be listed or a write, raises out
\* of the build.
Fail(b) ==
  /\ bld[b].at \in {"scan", "index", "prints"} /\ Goto(b, "release")
  /\ UNCHANGED <<diskVars, lockVars, indexVars, builds, history>>

\* release_lock, if the lock has the builder's pid.
Release(b) ==
  /\ At(b, "release") /\ bld' = [bld EXCEPT ![b] = Idle]
  /\ lock' = IF lock = b THEN NoPid ELSE lock
  /\ lockTmp' = IF lockTmp = b THEN DeadPid ELSE lockTmp
  /\ UNCHANGED <<diskVars, indexVars, builds, history>>

\* The builder is killed, by the timeout of the daemon among others.
Die(b) == /\ ~At(b, "idle") /\ Gone(b)
          /\ unsynced' = unsynced \cup bld[b].left
          /\ UNCHANGED <<diskVars, indexVars, builds, mixed, cut>>

BuildStep(b) == \/ LookAtLock(b) \/ UnlinkLock(b) \/ WriteLock(b) \/ RenameLock(b) \/ GiveUp(b)
                \/ NoRepos(b) \/ Load(b) \/ Scan(b) \/ Parse(b) \/ WriteIndex(b) \/ WritePrints(b)
                \/ (\E f \in Files : SyncDocument(b, f)) \/ Synced(b) \/ Fail(b) \/ Release(b) \/ Die(b)

----------------------------------------------------------------------------
Places == {"idle", "lock", "unlink", "take", "rename"} \cup Working
Builder == [at : Places, incremental : BOOLEAN, prints : [Files -> Stamps],
            index : [Files -> Records], scan : [Files -> Stamps], changed : SUBSET Files,
            deleted : SUBSET Files, meta : [Files -> Records], left : SUBSET Files]

BuildTypeOK ==
  /\ disk \in [Files -> Stamps] /\ edits \in Stamps
  /\ lock \in Builders \cup {NoPid, DeadPid} /\ lockTmp \in Builders \cup {NoPid, DeadPid}
  /\ fileIndex \in [Files -> Records] \cup {Unreadable}
  /\ prints \in [Files -> Stamps] \cup {Unreadable}
  /\ corpus \in [Files -> Records]
  /\ bld \in [Builders -> Builder]
  /\ builds \in 0..MaxBuilds /\ mixed \in BOOLEAN
  /\ cut \subseteq Files /\ unsynced \subseteq Files

\* The next incremental build passes over f: it is neither changed nor deleted.
Vouched(f) == IF prints = Unreadable THEN FALSE
              ELSE /\ prints[f] = disk[f]
                   /\ disk[f] = 0 \/ (IF fileIndex = Unreadable THEN FALSE ELSE fileIndex[f] # 0)

\* A record or a document is made from that version, or says that it could not be parsed.
Made(record, version) == record = version \/ (record = Unread /\ version # 0)

Recorded(f) == IF fileIndex = Unreadable THEN FALSE ELSE Made(fileIndex[f], disk[f])

\* What a build passes over is recorded as it is, or as what could not be parsed: no
\* edit between the scan, the parse and the writes, no failure or death of a builder,
\* no lock left behind makes an old record look fresh for good.  Two exceptions:
\* builders that ran at once, and a file that was gone again before the build that
\* recorded it, and then ended, had written its fingerprint.
RecordsAreCurrent == \A f \in Files : Vouched(f) => Recorded(f) \/ f \in cut \/ mixed

\* Likewise what is found by searching, once the builder that indexed f has told the
\* corpus, unless it died or failed at that, or was told to rebuild from nothing.
SearchIsCurrent ==
  \A f \in Files : Vouched(f) /\ (\A b \in Builders : f \notin bld[b].left)
                     => Made(corpus[f], disk[f]) \/ f \in unsynced \/ mixed
=============================================================================
