--------------------------- MODULE EmbedderDaemon ---------------------------
(***************************************************************************)
(* The dense index and the daemon that keeps it: tools/embedder_daemon.py   *)
(* (fingerprint, diff, watch), services/retrieval/worker.py (sync, sweep),  *)
(* indexer.py (is_stale, index_file) and vector_store.py (upsert,           *)
(* delete_by_path, stored_file_hash), while the files change under them.    *)
(*                                                                          *)
(* index_file reads the file three times: for its chunks, for the staleness *)
(* check, and for the hash it stores.  Each read, and each change of the    *)
(* store, is a step, and a change may fail: sync swallows what index_file   *)
(* raises.  On the local backend the store is changed in memory and the     *)
(* whole of it saved, so after a failed save the file lags behind memory    *)
(* until the next one; on Redis a call may raise before or after the server *)
(* has done it.                                                             *)
(*                                                                          *)
(* Abstracted: a file holds one of Texts, or it is gone, or unfit: it chunks *)
(* to nothing, or it is past _MAX_FILE_BYTES.  A hash is the content it is  *)
(* the hash of, and "gone" is the empty hash of a file that cannot be read. *)
(* The records of a path are stored and deleted together, so they are one   *)
(* record.  Vectors are left out.  An mtime is whether the file was written *)
(* since the last fingerprint.  All processes have the same backend.        *)
(***************************************************************************)
EXTENDS Naturals, FiniteSets

CONSTANTS Files,     \* paths under the watched roots
          Texts,     \* what an indexable file may hold
          MaxEdits   \* bound on the changes of the files

Contents == Texts \cup {"gone", "unfit"}
NoFile == "none"
NoRecord == [text |-> "none", hash |-> "none"]

ASSUME RetrievalAssumption == /\ MaxEdits \in Nat
                              /\ Texts \cap {"gone", "unfit", "none"} = {}
                              /\ NoFile \notin Files

VARIABLES disk,      \* file -> what it holds
          edits,     \* changes so far
          backend,   \* "local" or "redis"
          index,     \* file -> its record in the vector store, or NoRecord
          memory,    \* the daemon's _records; NoStore on Redis, or when it is down
          known,     \* files of the daemon's snapshot
          dirty,     \* files written since that snapshot was taken
          place,     \* where the daemon stands
          gone,      \* deleted files it has still to drop
          work,      \* changed files it has still to index
          file,      \* the file that index_file is at
          text, hash,\* what index_file read of it
          excused    \* files for which the last attempt failed as the code
                     \* lets it fail (history)

diskVars == <<disk, edits>>
storeVars == <<backend, index, memory>>
watchVars == <<known, dirty>>
syncVars == <<gone, work, file, text, hash>>
daemonVars == <<place, syncVars>>
vars == <<diskVars, storeVars, watchVars, daemonVars, excused>>

NoStore == [f \in Files |-> NoRecord]
Local == backend = "local"
Held == IF Local THEN memory ELSE index    \* what the daemon's store answers
Present == {f \in Files : disk[f] # "gone"}

----------------------------------------------------------------------------
Init ==
  /\ disk \in [Files -> Contents] /\ edits = 0
  /\ backend \in {"local", "redis"}
  /\ index = NoStore /\ memory = NoStore
  /\ known = {} /\ dirty = {}
  /\ place = "down" /\ gone = {} /\ work = {}
  /\ file = NoFile /\ text = "none" /\ hash = "none"
  /\ excused = {}

\* A file is written, deleted or created by someone else.
Edit(f) == /\ edits < MaxEdits /\ edits' = edits + 1
           /\ \E c \in Contents \ {disk[f]} : disk' = [disk EXCEPT ![f] = c]
           /\ dirty' = dirty \cup {f}
           /\ UNCHANGED <<storeVars, known, daemonVars, excused>>

\* watch: the store is loaded, or cannot be read and counts as empty (_load); then a
\* first fingerprint replaces the snapshot of the last daemon, so the files deleted
\* since then are not in any later diff.
Start == /\ place = "down" /\ place' = "starting"
         /\ memory' \in {NoStore} \cup {r \in {index} : Local}
         /\ known' = Present /\ dirty' = {}
         /\ excused' = excused \cup {f \in Files \ Present : index[f] # NoRecord}
         /\ UNCHANGED <<diskVars, backend, index, syncVars>>

\* sweep lists every file there is.
Sweep == /\ place = "starting" /\ place' = "dropping"
         /\ work' = Present
         /\ UNCHANGED <<diskVars, storeVars, watchVars, gone, file, text, hash, excused>>

Changed == {f \in Present : f \notin known \/ f \in dirty}
Deleted == known \ Present

\* A mutant of Poll: the diff looks for new names only.
PollForNames == /\ place = "sleeping" /\ place' = "dropping"
                /\ Changed \cup Deleted # {}
                /\ gone' = Deleted /\ work' = Present \ known
                /\ known' = Present /\ dirty' = {}
                /\ UNCHANGED <<diskVars, storeVars, file, text, hash, excused>>

\* One turn of the watch loop with a difference: the new snapshot is taken for
\* the old one before sync.
Poll == /\ place = "sleeping" /\ place' = "dropping"
        /\ Changed \cup Deleted # {}
        /\ gone' = Deleted /\ work' = Changed
        /\ known' = Present /\ dirty' = {}
        /\ UNCHANGED <<diskVars, storeVars, file, text, hash, excused>>

\* One change of the store: upsert, or delete_by_path of a path it has.
Store(f, record) == LET changed == [Held EXCEPT ![f] = record] IN
                    /\ index' = changed
                    /\ memory' = IF Local THEN changed ELSE memory
                    /\ UNCHANGED backend

\* It raises: _save fails after memory was changed, or the round trip does.
StoreFails(f, record) == LET changed == [Held EXCEPT ![f] = record] IN
                         /\ index' \in {index} \cup {r \in {changed} : ~Local}
                         /\ memory' = IF Local THEN changed ELSE memory
                         /\ UNCHANGED backend

\* delete_by_path saves only if it found something to delete.
Delete(f) == IF Local /\ memory[f] = NoRecord THEN UNCHANGED storeVars ELSE Store(f, NoRecord)

\* sync drops the deleted files first, engine or not.  Here nothing is caught: when a
\* delete raises the daemon dies (Die), before or after it.
Drop(f) == /\ place = "dropping" /\ f \in gone
           /\ gone' = gone \ {f}
           /\ Delete(f)
           /\ excused' = IF index'[f] = NoRecord THEN excused \ {f} ELSE excused \cup {f}
           /\ UNCHANGED <<diskVars, watchVars, place, work, file, text, hash>>

\* engine.available() is False or raises: the changed files are passed over, and
\* the snapshot has them already.
Offline == /\ place = "dropping" /\ gone = {} /\ place' = "sleeping"
           /\ work' = {} /\ excused' = excused \cup work
           /\ UNCHANGED <<diskVars, storeVars, watchVars, gone, file, text, hash>>

Online == /\ place = "dropping" /\ gone = {} /\ place' = "indexing"
          /\ UNCHANGED <<diskVars, storeVars, watchVars, syncVars, excused>>

\* The file is not indexable any more, or it has no chunks: then its records are
\* deleted under the absolute path, under which there are none.
PassOver(f) ==
  /\ place = "indexing" /\ f \in work /\ disk[f] \notin Texts
  /\ work' = work \ {f} /\ excused' = excused \cup {f}
  /\ UNCHANGED <<diskVars, storeVars, watchVars, place, gone, file, text, hash>>

\* chunk_file.
ReadChunks(f) ==
  /\ place = "indexing" /\ f \in work /\ disk[f] \in Texts
  /\ work' = work \ {f} /\ file' = f /\ text' = disk[f]
  /\ place' = "read"
  /\ UNCHANGED <<diskVars, storeVars, watchVars, gone, hash, excused>>

Goto(p) == place' = p /\ UNCHANGED <<gone, work>>
DoneWith(f) == /\ Goto("indexing")
               /\ file' = NoFile /\ text' = "none" /\ hash' = "none"

\* is_stale, with is_fresh of the oracle: no hash, or not the hash of the file.
IsStale(f) == Held[f] = NoRecord \/ Held[f].hash = "gone" \/ Held[f].hash # disk[f]

\* Over Redis a hash that cannot be had counts as none.
CheckStale == /\ place = "read"
              /\ \/ /\ IsStale(file) \/ ~Local
                    /\ Goto("embedding") /\ UNCHANGED <<file, text, hash>>
                 \/ ~IsStale(file) /\ DoneWith(file)
              /\ UNCHANGED <<diskVars, storeVars, watchVars, excused>>

\* engine.embed for the chunks not cached; an exception goes on to the next file.
Embed ==
  /\ place = "embedding"
  /\ \/ Goto("embedded") /\ UNCHANGED <<file, text, hash, excused>>
     \/ DoneWith(file) /\ excused' = excused \cup {file}
  /\ UNCHANGED <<diskVars, storeVars, watchVars>>

\* _file_hash reads the file once more.
HashFile == /\ place = "embedded" /\ Goto("hashed")
            /\ hash' = disk[file]
            /\ UNCHANGED <<diskVars, storeVars, watchVars, file, text, excused>>

DeleteByPath == /\ place = "hashed" /\ Goto("deleted")
                /\ Delete(file)
                /\ UNCHANGED <<diskVars, watchVars, file, text, hash, excused>>

\* `except Exception: continue`: the file stays as it is in the store, or without a
\* record, or has the new one in memory only, and the snapshot has it already.
DeleteFails == /\ place = "hashed" /\ DoneWith(file)
               /\ Local => memory[file] # NoRecord
               /\ StoreFails(file, NoRecord)
               /\ excused' = excused \cup {file}
               /\ UNCHANGED <<diskVars, watchVars>>

NewRecord == [text |-> text, hash |-> hash]

Upsert == /\ place = "deleted" /\ DoneWith(file)
          /\ Store(file, NewRecord)
          /\ excused' = IF text = hash /\ file \in known THEN excused \ {file} ELSE excused \cup {file}
          /\ UNCHANGED <<diskVars, watchVars>>

UpsertFails == /\ place = "deleted" /\ DoneWith(file)
               /\ StoreFails(file, NewRecord)
               /\ excused' = excused \cup {file}
               /\ UNCHANGED <<diskVars, watchVars>>

\* The stats are written and the loop goes back to sleep.
Synced == /\ place = "indexing" /\ work = {} /\ place' = "sleeping"
          /\ UNCHANGED <<diskVars, storeVars, watchVars, syncVars, excused>>

\* The daemon dies, is stopped, or is ended by an exception nobody catches.
Die == /\ place # "down" /\ place' = "down" /\ memory' = NoStore
       /\ gone' = {} /\ work' = {}
       /\ file' = NoFile /\ text' = "none" /\ hash' = "none"
       /\ UNCHANGED <<diskVars, backend, index, watchVars, excused>>

DaemonStep == \/ Sweep \/ Poll \/ Offline \/ Online \/ CheckStale \/ Embed \/ HashFile
              \/ DeleteByPath \/ DeleteFails \/ Upsert \/ UpsertFails \/ Synced
              \/ \E f \in Files : Drop(f) \/ PassOver(f) \/ ReadChunks(f)

Next == (\E f \in Files : Edit(f)) \/ Start \/ Die \/ DaemonStep

Spec == Init /\ [][Next]_vars

----------------------------------------------------------------------------
Stores == [Files -> [text : Texts, hash : Contents] \cup {NoRecord}]

TypeOK ==
  /\ disk \in [Files -> Contents] /\ edits \in 0..MaxEdits
  /\ backend \in {"local", "redis"} /\ index \in Stores /\ memory \in Stores
  /\ known \subseteq Files /\ dirty \subseteq Files
  /\ place \in {"down", "starting", "dropping", "sleeping", "indexing", "read", "embedding",
                "embedded", "hashed", "deleted"}
  /\ gone \subseteq Files /\ work \subseteq Files
  /\ file \in Files \cup {NoFile}
  /\ text \in Texts \cup {"none"} /\ hash \in Contents \cup {"none"}
  /\ excused \subseteq Files

\* The daemon has nothing to do for f.
Settled(f) == place = "sleeping" /\ f \notin Changed \cup Deleted

\* The index holds what the file holds; nothing when there is nothing to hold.
Current(f) == index[f].text = IF disk[f] \in Texts THEN disk[f] ELSE "none"

\* Once the daemon has gone back to sleep over a quiet file, the index holds what
\* the file holds, through any interleaving of edits, branch switches, crashes
\* and restarts, unless the last attempt on the file failed in one of the ways
\* `excused` records: engine offline, embedding failed, the store could not be
\* changed or saved, not indexable any more, hash read after a change, deleted while
\* no daemon ran, seen by the sweep only.
SettledIndexIsCurrent == \A f \in Files : Settled(f) => Current(f) \/ f \in excused

\* With the types of index and daemon.
IndexIsSound == TypeOK /\ SettledIndexIsCurrent
=============================================================================
