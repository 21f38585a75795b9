---------------------------- MODULE AskingProofs ----------------------------
(***************************************************************************)
(* Theorems about what is asked of models: the index and the answers of     *)
(* EmbedderDaemon and GroundedAnswers, for any files, texts and edits, and  *)
(* the calls of ProviderCalls, for any threads, tasks, limits and crashes.  *)
(***************************************************************************)
EXTENDS GroundedAnswers, ProviderCalls, FiniteSetTheorems, TLAPS

----------------------------------------------------------------------------
\* The index and the answers from it.  At every step each file is either current
\* or excused, or something will bring it up again: the next diff, the lists of
\* the sync under way, or index_file, which is at it.  On the local backend this is
\* said of memory and file: where they differ, a record is missing in memory, and
\* its file will be brought up too.  The text and the hash of a citation are taken
\* from one record, and crossed says when not.

InIndexFile == {"read", "embedding", "embedded", "hashed", "deleted"}
ToDo == Changed \cup Deleted \cup gone \cup work \cup {file}

\* The lists of the sync are empty outside it.
ListsAreEmptied ==
  /\ place \in {"down", "starting", "sleeping"} => work = {}
  /\ place \notin {"dropping"} => gone = {}
  /\ place \in InIndexFile => file \in Files /\ text \in Texts
  /\ place \notin InIndexFile => file = NoFile
  /\ place \in {"hashed", "deleted"} => hash \in Contents

\* A record whose text and hash differ is excused.
RecordsAgree ==
  \A f \in Files : \/ index[f].text = index[f].hash /\ memory[f].text = memory[f].hash
                   \/ f \in excused

\* The file has what memory has, but for a failed save and a failed load.
MemoryIsSaved ==
  /\ ~Local \/ place = "down" => memory = NoStore
  /\ Local /\ place # "down" =>
       \A f \in Files : \/ memory[f] = index[f] \/ f \in excused
                        \/ memory[f] = NoRecord /\ (place = "starting" \/ f \in ToDo)

\* What index_file has read is what the file holds, unless it was written since.
ReadsAreCurrent ==
  place \in InIndexFile /\ file \notin dirty =>
    text = disk[file] /\ (place \in {"hashed", "deleted"} => hash = disk[file])

\* A file outside the snapshot has no record, or is about to lose it, or is excused.
UnknownHaveNone ==
  /\ gone \cap known = {}
  /\ place # "down" =>
       \A f \in Files \ known : \/ index[f] = NoRecord /\ memory[f] = NoRecord
                                \/ f \in gone \cup excused

\* A file that is neither current nor excused will be brought up.
NothingIsForgotten ==
  place \notin {"down", "starting"} =>
    \A f \in Files : f \in ToDo \/ Current(f) \/ f \in excused

DaemonInv == TypeOK /\ ListsAreEmptied /\ RecordsAgree /\ MemoryIsSaved /\ ReadsAreCurrent
             /\ UnknownHaveNone /\ NothingIsForgotten

----------------------------------------------------------------------------
\* What index and memory are after a change: those of one file change to the new
\* record or stay; on the local backend the others take what memory has of them.
StoresMay(f, record) ==
  /\ index' \in Stores /\ memory' \in Stores /\ backend' = backend
  /\ ~Local => memory' = memory /\ \A g \in Files \ {f} : index'[g] = index[g]
  /\ Local => \A g \in Files \ {f} : memory'[g] = memory[g] /\ index'[g] \in {index[g], memory[g]}

LEMMA Stored ==
  ASSUME TypeOK, NEW f \in Files, NEW record \in [text : Texts, hash : Contents] \cup {NoRecord},
         Store(f, record)
  PROVE  /\ StoresMay(f, record) /\ index'[f] = record
         /\ Local => memory' = index'
<1>1. Held \in Stores
  BY DEF Held, TypeOK
<1>2. [Held EXCEPT ![f] = record] \in Stores
  BY <1>1 DEF Stores
<1> QED
  BY <1>1, <1>2 DEF Store, StoresMay, Held, TypeOK, Stores

LEMMA StoredOrFailed ==
  ASSUME TypeOK, NEW f \in Files, NEW record \in [text : Texts, hash : Contents] \cup {NoRecord},
         StoreFails(f, record)
  PROVE  StoresMay(f, record)
<1>1. Held \in Stores
  BY DEF Held, TypeOK
<1>2. [Held EXCEPT ![f] = record] \in Stores
  BY <1>1 DEF Stores
<1> QED
  BY <1>1, <1>2 DEF StoreFails, StoresMay, Held, TypeOK, Stores

LEMMA Deletes ==
  ASSUME TypeOK, NEW f \in Files, Delete(f)
  PROVE  /\ StoresMay(f, NoRecord)
         /\ \/ index'[f] = NoRecord /\ (Local => memory' = index')
            \/ Local /\ memory[f] = NoRecord /\ UNCHANGED <<index, memory>>
<1>1. CASE Local /\ memory[f] = NoRecord
  BY <1>1 DEF Delete, StoresMay, storeVars, TypeOK
<1>2. CASE ~(Local /\ memory[f] = NoRecord)
  <2>1. Store(f, NoRecord)
    BY <1>2 DEF Delete
  <2> QED
    BY <2>1, Stored
<1> QED
  BY <1>1, <1>2

\* No edit, start, death or step of the daemon breaks the invariant of the index:
\* embedder_daemon.py, worker.py, indexer.py and vector_store.py.
LEMMA DaemonKeepsInv == DaemonInv /\ [Next]_vars => DaemonInv'
<1> USE RetrievalAssumption
    DEF ListsAreEmptied, RecordsAgree, MemoryIsSaved, ReadsAreCurrent, UnknownHaveNone,
        NothingIsForgotten, ToDo, NoRecord, NoStore, Local, Contents, InIndexFile, Present, Changed,
        Deleted, Current, Stores, vars, diskVars, storeVars, watchVars, syncVars, daemonVars
<1> SUFFICES ASSUME DaemonInv, [Next]_vars PROVE DaemonInv' OBVIOUS
<1> USE DEF DaemonInv
\* A file written is in the next diff; one the snapshot lacks and that is gone now
\* has no record (UnknownHaveNone).
<1>1. ASSUME NEW f \in Files, Edit(f) PROVE DaemonInv'
  BY <1>1 DEF Edit, TypeOK
\* A dropped file is absent, so current, or back and unknown, so in the next diff.
<1>2. ASSUME NEW f \in Files, Drop(f) PROVE DaemonInv'
  <2>1. /\ StoresMay(f, NoRecord)
        /\ \/ index'[f] = NoRecord /\ (Local => memory' = index')
           \/ Local /\ memory[f] = NoRecord /\ UNCHANGED <<index, memory>>
    BY <1>2, Deletes DEF Drop
  <2>2. TypeOK'
    BY <1>2, <2>1 DEF Drop, TypeOK, StoresMay
  <2> QED
    BY <1>2, <2>1, <2>2 DEF Drop, TypeOK, StoresMay
<1>3. ASSUME NEW f \in Files, PassOver(f) PROVE DaemonInv'
  BY <1>3 DEF PassOver, TypeOK
<1>4. ASSUME NEW f \in Files, ReadChunks(f) PROVE DaemonInv'
  BY <1>4 DEF ReadChunks, TypeOK
\* The files whose deletion this snapshot forgets are excused.
<1>5. CASE Start
  BY <1>5 DEF Start, TypeOK
\* Every file there is goes on the list; of the others, the known ones are in the
\* next diff and the unknown ones have no record.
<1>6. CASE Sweep
  BY <1>6 DEF Sweep, TypeOK
\* What the diff finds goes on the lists before the snapshot forgets it.
<1>7. CASE Poll
  BY <1>7 DEF Poll, TypeOK
<1>8. CASE Offline
  BY <1>8 DEF Offline, TypeOK
<1>9. CASE Online
  BY <1>9 DEF Online, TypeOK
\* A fresh file has a record with its hash, so with its text (RecordsAgree), in memory
\* and so in the file.
<1>10. CASE CheckStale
  BY <1>10 DEF CheckStale, IsStale, Held, Goto, DoneWith, TypeOK
<1>11. CASE Embed
  BY <1>11 DEF Embed, Goto, DoneWith, TypeOK
<1>12. CASE HashFile
  BY <1>12 DEF HashFile, Goto, TypeOK
<1>13. CASE DeleteByPath
  <2>1. /\ StoresMay(file, NoRecord)
        /\ \/ index'[file] = NoRecord /\ (Local => memory' = index')
           \/ Local /\ memory[file] = NoRecord /\ UNCHANGED <<index, memory>>
    BY <1>13, Deletes DEF DeleteByPath
  <2>2. TypeOK'
    BY <1>13, <2>1 DEF DeleteByPath, Goto, TypeOK, StoresMay
  <2> QED
    BY <1>13, <2>1, <2>2 DEF DeleteByPath, Goto, TypeOK, StoresMay
\* The file that failed is excused; the others have what memory has, or are as they were.
<1>18. CASE DeleteFails
  <2>1. StoresMay(file, NoRecord)
    BY <1>18, StoredOrFailed DEF DeleteFails
  <2>2. TypeOK'
    BY <1>18, <2>1 DEF DeleteFails, DoneWith, Goto, TypeOK, StoresMay
  <2> QED
    BY <1>18, <2>1, <2>2 DEF DeleteFails, DoneWith, Goto, TypeOK, StoresMay
\* A record whose text and hash agree is current, or the file was written since it
\* was read and is in the next diff (ReadsAreCurrent).
<1>14. CASE Upsert
  <2>1. NewRecord \in [text : Texts, hash : Contents]
    BY <1>14 DEF Upsert, NewRecord, TypeOK
  <2>2. /\ StoresMay(file, NewRecord) /\ index'[file] = NewRecord
        /\ Local => memory' = index'
    BY <1>14, <2>1, Stored DEF Upsert
  <2>3. TypeOK'
    BY <1>14, <2>2 DEF Upsert, DoneWith, Goto, TypeOK, StoresMay
  <2> QED
    BY <1>14, <2>2, <2>3 DEF Upsert, NewRecord, DoneWith, Goto, TypeOK, StoresMay
<1>19. CASE UpsertFails
  <2>1. NewRecord \in [text : Texts, hash : Contents]
    BY <1>19 DEF UpsertFails, NewRecord, TypeOK
  <2>2. StoresMay(file, NewRecord)
    BY <1>19, <2>1, StoredOrFailed DEF UpsertFails
  <2>3. TypeOK'
    BY <1>19, <2>2 DEF UpsertFails, DoneWith, Goto, TypeOK, StoresMay
  <2> QED
    BY <1>19, <2>2, <2>3 DEF UpsertFails, DoneWith, Goto, TypeOK, StoresMay
<1>15. CASE Synced
  BY <1>15 DEF Synced, TypeOK
<1>16. CASE Die
  BY <1>16 DEF Die, TypeOK
<1>17. CASE UNCHANGED vars
  BY <1>17 DEF TypeOK
<1> QED BY <1>1, <1>2, <1>3, <1>4, <1>5, <1>6, <1>7, <1>8, <1>9, <1>10, <1>11, <1>12, <1>13, <1>14,
           <1>15, <1>16, <1>17, <1>18, <1>19 DEF Next, DaemonStep

\* The invariant of the index holds at the start.
LEMMA DaemonStartsInv == Init => DaemonInv
BY RetrievalAssumption
   DEF Init, DaemonInv, TypeOK, ListsAreEmptied, RecordsAgree, MemoryIsSaved, ReadsAreCurrent,
       UnknownHaveNone, NothingIsForgotten, NoRecord, NoStore, Stores, Local, Contents, InIndexFile

\* Between two syncs the index holds what the quiet files hold, or the last attempt
\* on the file failed: the store could not be changed or saved, the engine was away,
\* or one of the others (EmbedderDaemon), with the types of index and daemon.
THEOREM IndexIsAlwaysSound == Spec => []IndexIsSound
<1>1. DaemonInv => IndexIsSound
  BY RetrievalAssumption
     DEF DaemonInv, NothingIsForgotten, ToDo, ListsAreEmptied, InIndexFile, IndexIsSound,
         SettledIndexIsCurrent, Settled
<1> QED BY <1>1, DaemonStartsInv, DaemonKeepsInv, PTL DEF Spec

----------------------------------------------------------------------------
\* What text and hash a question has at hand are of one moment, or crossed.

Agrees(record, f) == record.text = record.hash \/ f \in crossed

CitationsAgree ==
  /\ \A f \in Files : Agrees(index[f], f) /\ Agrees(view[f], f)
  /\ asking \notin {"citing", "generating"} => cites = NoFiles
  /\ \A f \in Files : cites[f] \in {"none", "gone"} \/ hits[f] = cites[f] \/ f \in crossed
  /\ \A f \in Cited(answer) : answer.texts[f] = answer.hashes[f] \/ f \in crossed

\* The citations read so far were as cited, and whatever was written since is written.
ChecksAreCurrent ==
  asking = "checking" =>
    \A f \in Cited(answer) \ unread : answer.hashes[f] = disk[f] \/ f \in written

\* The inductive invariant.
AskInv == AskTypeOK /\ CitationsAgree /\ ChecksAreCurrent

\* No step of the daemon, of the files or of the question breaks it: ask.py,
\* answer_cache.py and service.py.
LEMMA AskKeepsInv == AskInv /\ TypeOK' /\ [AskNext]_allVars => AskInv'
<1> SUFFICES ASSUME AskInv, TypeOK', [AskNext]_allVars PROVE AskInv' OBVIOUS
<1>1. AskTypeOK /\ CitationsAgree /\ ChecksAreCurrent BY DEF AskInv
<1>2. SUFFICES AskTypeOK' /\ CitationsAgree' /\ ChecksAreCurrent' BY DEF AskInv
<1> USE RetrievalAssumption, <1>1
    DEF AskTypeOK, CitationsAgree, ChecksAreCurrent, Agrees, Cited, NoStore, NoFiles, NoAnswer,
        NoRecord, Stores, Contents, vars, diskVars, storeVars
<1>3. \A f \in Files : Source[f] # NoRecord => Source[f].text \in Texts /\ Source[f].hash \in Contents
  BY DEF Source, TypeOK
<1>4. \A f \in Files : Agrees(Source[f], f)
  BY DEF Source
\* What is written while it checks is written; a record that crosses is crossed.
<1>5. CASE Around
  BY <1>5 DEF Around
<1>6. CASE Ask
  BY <1>6 DEF Ask, TypeOK
<1>7. CASE Serve
  BY <1>7 DEF Serve
<1>8. ASSUME NEW f \in Files, ReadCited(f) PROVE AskTypeOK' /\ CitationsAgree' /\ ChecksAreCurrent'
  BY <1>8 DEF ReadCited, Fresh
<1>9. ASSUME NEW f \in Files, Invalidate(f) PROVE AskTypeOK' /\ CitationsAgree' /\ ChecksAreCurrent'
  BY <1>9 DEF Invalidate
<1>10. CASE Search
  <2>1. hits' \in [Files -> Texts \cup {"none"}]
    BY <1>3, <1>10 DEF Search
  <2> QED BY <1>10, <2>1 DEF Search
\* The hash of a record read later than the hit is that of its text, or it is crossed.
<1>11. ASSUME NEW f \in Files, Cite(f) PROVE AskTypeOK' /\ CitationsAgree' /\ ChecksAreCurrent'
  BY <1>3, <1>4, <1>11 DEF Cite
<1>12. CASE Prompt
  BY <1>12 DEF Prompt
<1>13. CASE Generate
  BY <1>13 DEF Generate, Over
<1>14. CASE Quit
  BY <1>14 DEF Quit, Over
<1>15. CASE UNCHANGED allVars
  BY <1>15 DEF allVars, askVars
<1> QED BY <1>5, <1>6, <1>7, <1>8, <1>9, <1>10, <1>11, <1>12, <1>13, <1>14, <1>15 DEF AskNext, AskStep

\* Every step of the whole is a step of the daemon or none (for the types of the index).
LEMMA AskInductive == AskSpec => [](AskInv /\ DaemonInv)
<1>1. AskInit => AskInv /\ DaemonInv
  <2> SUFFICES ASSUME AskInit PROVE AskInv
    BY DaemonStartsInv DEF AskInit
  <2>1. TypeOK BY DaemonStartsInv DEF AskInit, DaemonInv
  <2> QED BY <2>1 DEF AskInit, Init, AskInv, AskTypeOK, CitationsAgree, ChecksAreCurrent, Agrees,
                      Cited, NoStore, NoFiles, NoAnswer, NoRecord, Stores
<1>2. [AskNext]_allVars => [Next]_vars
  BY DEF AskNext, Around, AskStep, Ask, Serve, ReadCited, Invalidate, Search, Cite, Prompt, Generate,
         Quit, allVars
<1>3. DaemonInv' => TypeOK'
  BY DEF DaemonInv
<1>4. AskInv /\ DaemonInv /\ [AskNext]_allVars => (AskInv /\ DaemonInv)'
  BY <1>2, <1>3, AskKeepsInv, DaemonKeepsInv
<1> QED BY <1>1, <1>4, PTL DEF AskSpec

\* A cached answer whose citations were found fresh one after the other was made from
\* what its files hold when it is served, but for those written since the first was read.
THEOREM ServedAnswersAreCurrent == AskSpec => ServedAnswerIsCurrent
<1>1. AskInv /\ [AskNext]_allVars =>
        [asking = "checking" /\ asking' = "served" =>
           \A f \in Cited(answer) : answer.texts[f] = disk[f] \/ f \in written \cup crossed]_allVars
  <2> SUFFICES ASSUME AskInv, AskNext, asking = "checking", asking' = "served"
               PROVE \A f \in Cited(answer) : answer.texts[f] = disk[f] \/ f \in written \cup crossed
    OBVIOUS
  <2>1. Serve
    BY DEF AskNext, AskStep, Around, Ask, ReadCited, Invalidate, Search, Cite, Prompt, Generate,
           Quit, Over
  <2> QED BY <2>1 DEF Serve, AskInv, CitationsAgree, ChecksAreCurrent
<1> QED BY <1>1, AskInductive, PTL DEF AskSpec, ServedAnswerIsCurrent
----------------------------------------------------------------------------
\* The calls of the provider.  A content of the usage file is related to the
\* calls made by a map from its entries to them: one to one, so that it never
\* holds more than was called, and, of a caller that nobody disturbs, onto all
\* but those that Keep later entries have pushed out, so that it never holds less.

Calls == [task : Tasks, retry : BOOLEAN, time : Nat]
For(t, calls) == {m \in calls : m.task = t}

\* The entries of a content are in the order of time.
InOrder(u) ==
  \A i \in 1..Len(u.hourly) : /\ u.hourly[i] <= now
                              /\ \A j \in 1..Len(u.hourly) : i <= j => u.hourly[i] <= u.hourly[j]

\* A content has no more than the calls: each of its entries is a call of its own.
Earned(u, calls) ==
  /\ \A t \in Tasks : u.calls[t] <= Cardinality(For(t, calls))
  /\ \E f \in Injection(1..Len(u.hourly), calls) : \A i \in 1..Len(u.hourly) : f[i].time = u.hourly[i]

\* A content has all the calls, but for those that Keep later ones have pushed out.
Covers(f, h, calls) ==
  /\ \A i \in 1..Len(h) : f[i].time = h[i]
  /\ \A m \in calls : \/ \E i \in 1..Len(h) : f[i] = m
                      \/ Keep <= Len(h) /\ \A i \in 1..Len(h) : m.time <= h[i]
Accounts(u, calls) ==
  /\ \A t \in Tasks : Cardinality(For(t, calls)) <= u.calls[t]
  /\ \E f \in [1..Len(u.hourly) -> calls] : Covers(f, u.hourly, calls)

\* The call that a caller has entered in its copy and is about to make.
Pending(c) == [task |-> task[c], retry |-> retry[c], time |-> copy[c].hourly[Len(copy[c].hourly)]]
Entering == {"opening", "saving"}
Allowing == {"recording", "opening", "saving"}

\* Callers have tasks of their own, and the call they are at was not made yet.
CallsAreNew ==
  /\ \A c, d \in Callers : task[c] = task[d] /\ c # d => task[c] = NoTask
  /\ \A c \in Callers : stage[c] # "idle" =>
       \A m \in made : m.task = task[c] =>
         IF stage[c] = "calling" THEN m.retry => retry[c] ELSE ~m.retry /\ retry[c]

\* What the file and the copies hold was called, or is about to be.
UsageIsEarned ==
  /\ InOrder(usage) /\ Earned(usage, made)
  /\ \A c \in Callers : stage[c] \in Entering =>
       /\ Len(copy[c].hourly) > 0 /\ InOrder(copy[c]) /\ Earned(copy[c], made \cup {Pending(c)})

\* Of a caller that nobody disturbs.
OneCalls == \A c, d \in Callers : stage[c] # "idle" /\ stage[d] # "idle" => c = d
UsageIsWhole ==
  /\ torn <=> \E c \in Callers : stage[c] = "saving"
  /\ Accounts(usage, made)
  /\ \A c \in Callers : stage[c] \in Entering => Accounts(copy[c], made \cup {Pending(c)})
RoomIsLeft ==
  \A c \in Callers : stage[c] \in Allowing =>
    Cardinality(RecentCalls) < MaxPerHour /\ Cardinality(For(task[c], made)) < MaxPerTask

\* The inductive invariant.
ProviderInv ==
  /\ ProviderTypeOK /\ made \subseteq Calls /\ IsFiniteSet(made) /\ (\A m \in made : m.time <= now)
  /\ CallsAreNew /\ UsageIsEarned
  /\ \A c \in Callers : stage[c] \in Allowing => MaxPerHour > 0
  /\ ~disturbed => OneCalls /\ UsageIsWhole /\ RoomIsLeft /\ HourLimit /\ TaskLimit

----------------------------------------------------------------------------
\* What _record_call makes of a content.
Entered(u, t, x) == [calls |-> [u.calls EXCEPT ![t] = @ + 1],
                     hourly |-> LastOf(Append(u.hourly, x), Keep)]

\* The last Keep entries: the same ones, moved down by as many as were cut off.
LEMMA LastOfIs ==
  ASSUME NEW h \in Seq(Nat), NEW x \in Nat, Keep > 0
  PROVE  LET s == LastOf(Append(h, x), Keep)
         IN  \E d \in Nat : /\ s \in Seq(Nat) /\ Len(h) \in Nat /\ d <= Len(h)
                            /\ Len(s) = Len(h) + 1 - d
                            /\ d = 0 \/ Len(s) = Keep
                            /\ \A i \in 1..Len(s) : s[i] = IF i + d = Len(h) + 1 THEN x ELSE h[i + d]
<1> DEFINE a == Append(h, x)
           d == IF Len(a) > Keep THEN Len(a) - Keep ELSE 0
           s == SubSeq(a, d + 1, Len(a))
<1>1. /\ Len(h) \in Nat /\ a \in Seq(Nat) /\ Len(a) = Len(h) + 1 /\ a[Len(h) + 1] = x
      /\ \A i \in 1..Len(h) : a[i] = h[i]
  OBVIOUS
<1>2. Keep \in Nat
  BY ProviderAssumption
<1>3. d \in Nat /\ d <= Len(h) /\ (Len(a) > Keep => Len(a) - Keep + 1 = d + 1)
  BY <1>1, <1>2
<1>4. LastOf(Append(h, x), Keep) = s
  BY <1>1, <1>2 DEF LastOf
<1> HIDE DEF a, d
<1>5. /\ s \in Seq(Nat) /\ Len(s) = Len(a) - d
      /\ \A i \in 1..Len(s) : s[i] = a[d + i]
  BY <1>1, <1>3
<1>6. d = 0 \/ Len(a) - d = Keep
  BY <1>1, <1>2 DEF d
<1> HIDE DEF s
<1>7. ASSUME NEW i \in 1..Len(s) PROVE s[i] = IF i + d = Len(h) + 1 THEN x ELSE h[i + d]
  <2>1. i + d \in 1..Len(h) + 1 /\ d + i = i + d
    BY <1>1, <1>3, <1>5
  <2>2. i + d # Len(h) + 1 => i + d \in 1..Len(h)
    BY <1>1, <2>1
  <2> QED
    BY <1>1, <1>5, <2>1, <2>2
<1>8. /\ s \in Seq(Nat) /\ Len(h) \in Nat /\ d \in Nat /\ d <= Len(h) /\ Len(s) = Len(h) + 1 - d
      /\ d = 0 \/ Len(s) = Keep
  BY <1>1, <1>3, <1>5, <1>6
<1> QED
  BY <1>4, <1>7, <1>8

\* Sets of calls are counted.
LEMMA Counted ==
  ASSUME NEW calls, IsFiniteSet(calls), NEW t
  PROVE  /\ IsFiniteSet(For(t, calls)) /\ Cardinality(For(t, calls)) \in Nat
         /\ \A m : m \notin calls =>
              Cardinality(For(t, calls \cup {m})) =
                IF m.task = t THEN Cardinality(For(t, calls)) + 1 ELSE Cardinality(For(t, calls))
<1>1. IsFiniteSet(For(t, calls))
  BY FS_Subset DEF For
<1>2. ASSUME NEW m, m \notin calls
      PROVE  Cardinality(For(t, calls \cup {m})) =
               IF m.task = t THEN Cardinality(For(t, calls)) + 1 ELSE Cardinality(For(t, calls))
  <2>1. CASE m.task = t
    <3>1. For(t, calls \cup {m}) = For(t, calls) \cup {m} /\ m \notin For(t, calls)
      BY <1>2, <2>1 DEF For
    <3>2. Cardinality(For(t, calls) \cup {m}) = Cardinality(For(t, calls)) + 1
      BY <1>1, <3>1, FS_AddElement
    <3> QED
      BY <2>1, <3>1, <3>2
  <2>2. CASE m.task # t
    <3>1. For(t, calls \cup {m}) = For(t, calls)
      BY <2>2 DEF For
    <3> QED
      BY <2>2, <3>1
  <2> QED
    BY <2>1, <2>2
<1> QED
  BY <1>1, <1>2, FS_CardinalityType

\* Of more calls a content has no more than they are.
LEMMA EarnedStays ==
  ASSUME NEW u, u \in Usage, NEW calls, NEW more, calls \subseteq more, IsFiniteSet(more), Earned(u, calls)
  PROVE  Earned(u, more)
<1>1. ASSUME NEW t \in Tasks PROVE u.calls[t] <= Cardinality(For(t, more))
  <2>1. IsFiniteSet(For(t, more)) /\ For(t, calls) \in SUBSET For(t, more)
    BY Counted DEF For
  <2>2. /\ Cardinality(For(t, calls)) <= Cardinality(For(t, more))
        /\ Cardinality(For(t, calls)) \in Nat /\ Cardinality(For(t, more)) \in Nat
    BY <2>1, FS_Subset, FS_CardinalityType
  <2> QED
    BY <2>2 DEF Earned, Usage
<1>2. PICK f \in Injection(1..Len(u.hourly), calls) : \A i \in 1..Len(u.hourly) : f[i].time = u.hourly[i]
  BY DEF Earned
<1>3. f \in Injection(1..Len(u.hourly), more)
  BY <1>2 DEF Injection, IsInjective
<1> QED
  BY <1>1, <1>2, <1>3 DEF Earned

\* A new call that is entered in a content is counted in it.
LEMMA EarnedGrows ==
  ASSUME NEW u \in Usage, NEW calls, IsFiniteSet(calls), Earned(u, calls), Keep > 0,
         NEW m, m \notin calls, m.task \in Tasks, m.time \in Nat
  PROVE  Earned(Entered(u, m.task, m.time), calls \cup {m})
<1> DEFINE v == Entered(u, m.task, m.time)
           h == u.hourly
           s == LastOf(Append(h, m.time), Keep)
<1>1. h \in Seq(Nat) /\ u.calls \in [Tasks -> Nat] /\ v.hourly = s
  BY DEF Usage, Entered
<1>2. ASSUME NEW t \in Tasks PROVE v.calls[t] <= Cardinality(For(t, calls \cup {m}))
  <2>1. u.calls[t] <= Cardinality(For(t, calls)) /\ u.calls[t] \in Nat
    BY <1>1 DEF Earned
  <2>2. v.calls[t] = IF m.task = t THEN u.calls[t] + 1 ELSE u.calls[t]
    BY <1>1 DEF Entered
  <2> QED
    BY <2>1, <2>2, Counted
<1> HIDE DEF v, s
<1>3. PICK f \in Injection(1..Len(h), calls) : \A i \in 1..Len(h) : f[i].time = h[i]
  BY DEF Earned
<1>4. PICK d \in Nat : /\ s \in Seq(Nat) /\ Len(h) \in Nat /\ d <= Len(h)
                       /\ Len(s) = Len(h) + 1 - d
                       /\ \A i \in 1..Len(s) : s[i] = IF i + d = Len(h) + 1 THEN m.time ELSE h[i + d]
  BY <1>1, LastOfIs DEF s
<1>5. Len(h) \in Nat /\ d \in Nat /\ d <= Len(h) /\ Len(s) = Len(h) + 1 - d
  BY <1>4
<1> DEFINE g == [i \in 1..Len(s) |-> IF i + d = Len(h) + 1 THEN m ELSE f[i + d]]
<1>6. ASSUME NEW i \in 1..Len(s), i + d # Len(h) + 1
      PROVE  i + d \in 1..Len(h) /\ f[i + d] \in calls
  <2>1. i + d \in 1..Len(h)
    BY <1>5, <1>6
  <2> QED
    BY <1>3, <2>1 DEF Injection, IsInjective
<1>7. g \in [1..Len(s) -> calls \cup {m}]
  BY <1>6
<1>8. ASSUME NEW i \in 1..Len(s), NEW j \in 1..Len(s), g[i] = g[j]
      PROVE  i = j
  <2>1. CASE i + d = Len(h) + 1 \/ j + d = Len(h) + 1
    <3>1. i + d = Len(h) + 1 /\ j + d = Len(h) + 1
      BY <1>6, <1>8, <2>1
    <3> QED
      BY <1>4, <3>1
  <2>2. CASE i + d # Len(h) + 1 /\ j + d # Len(h) + 1
    <3>1. f[i + d] = f[j + d] /\ i + d \in 1..Len(h) /\ j + d \in 1..Len(h)
      BY <1>6, <1>8, <2>2
    <3>2. i + d = j + d
      BY <1>3, <3>1 DEF Injection, IsInjective
    <3> QED
      BY <1>4, <3>2
  <2> QED
    BY <2>1, <2>2
<1>9. ASSUME NEW i \in 1..Len(s) PROVE g[i].time = s[i]
  <2>1. CASE i + d = Len(h) + 1
    BY <1>4, <2>1
  <2>2. CASE i + d # Len(h) + 1
    <3>1. g[i] = f[i + d] /\ i + d \in 1..Len(h) /\ s[i] = h[i + d]
      BY <1>4, <1>6, <2>2
    <3> QED
      BY <1>3, <3>1
  <2> QED
    BY <2>1, <2>2
<1>10. g \in Injection(1..Len(s), calls \cup {m})
  BY <1>7, <1>8 DEF Injection, IsInjective
<1> HIDE DEF g
<1>11. Earned(v, calls \cup {m})
  BY <1>1, <1>2, <1>9, <1>10 DEF Earned
<1> QED
  BY <1>11 DEF v

\* It is covered, and so is what was, or it is pushed out by Keep later ones.
LEMMA AccountsGrow ==
  ASSUME NEW u \in Usage, NEW calls, IsFiniteSet(calls), calls \subseteq Calls, Accounts(u, calls), Keep > 0,
         NEW m \in Calls, m \notin calls, m.time = now, InOrder(u), \A k \in calls : k.time <= now
  PROVE  Accounts(Entered(u, m.task, m.time), calls \cup {m})
<1> DEFINE v == Entered(u, m.task, m.time)
           h == u.hourly
           s == LastOf(Append(h, m.time), Keep)
<1>1. h \in Seq(Nat) /\ u.calls \in [Tasks -> Nat] /\ v.hourly = s /\ m.time \in Nat /\ now \in Nat
  BY DEF Usage, Entered, Calls
<1>2. ASSUME NEW t \in Tasks PROVE Cardinality(For(t, calls \cup {m})) <= v.calls[t]
  <2>1. Cardinality(For(t, calls)) <= u.calls[t] /\ u.calls[t] \in Nat
    BY <1>1 DEF Accounts
  <2>2. v.calls[t] = IF m.task = t THEN u.calls[t] + 1 ELSE u.calls[t]
    BY <1>1 DEF Entered, Calls
  <2> QED
    BY <2>1, <2>2, Counted
<1> HIDE DEF v, s
<1>3. PICK f \in [1..Len(h) -> calls] : Covers(f, h, calls)
  BY DEF Accounts
<1>4. PICK d \in Nat : /\ s \in Seq(Nat) /\ Len(h) \in Nat /\ d <= Len(h)
                       /\ Len(s) = Len(h) + 1 - d
                       /\ d = 0 \/ Len(s) = Keep
                       /\ \A i \in 1..Len(s) : s[i] = IF i + d = Len(h) + 1 THEN m.time ELSE h[i + d]
  BY <1>1, LastOfIs DEF s
<1>5. Len(h) \in Nat /\ d \in Nat /\ d <= Len(h) /\ Len(s) = Len(h) + 1 - d
  BY <1>4
<1> DEFINE g == [i \in 1..Len(s) |-> IF i + d = Len(h) + 1 THEN m ELSE f[i + d]]
<1>6. ASSUME NEW i \in 1..Len(s), i + d # Len(h) + 1
      PROVE  i + d \in 1..Len(h) /\ f[i + d] \in calls /\ h[i + d] \in Nat
  <2>1. i + d \in 1..Len(h)
    BY <1>5, <1>6
  <2> QED
    BY <1>1, <1>3, <2>1
<1>7. g \in [1..Len(s) -> calls \cup {m}]
  BY <1>6
<1>8. \A i \in 1..Len(s) : g[i].time = s[i]
  BY <1>3, <1>4, <1>6 DEF Covers
<1>9. ASSUME NEW k \in calls
      PROVE  \/ \E i \in 1..Len(s) : g[i] = k
             \/ Keep <= Len(s) /\ \A i \in 1..Len(s) : k.time <= s[i]
  <2>1. k.time \in Nat /\ k.time <= now
    BY DEF Calls
  <2>2. CASE \E j \in 1..Len(h) : f[j] = k
    <3>1. PICK j \in 1..Len(h) : f[j] = k
      BY <2>2
    <3>2. CASE j > d
      <4>1. j - d \in 1..Len(s) /\ (j - d) + d = j /\ j # Len(h) + 1
        BY <1>4, <3>2
      <4>2. g[j - d] = k
        BY <3>1, <4>1
      <4> QED
        BY <4>1, <4>2
    <3>3. CASE j <= d
      <4>1. Keep <= Len(s)
        BY <1>4, <3>3, ProviderAssumption
      <4>2. ASSUME NEW i \in 1..Len(s) PROVE k.time <= s[i]
        <5>1. CASE i + d = Len(h) + 1
          BY <1>1, <1>4, <2>1, <5>1
        <5>2. CASE i + d # Len(h) + 1
          <6>1. j <= i + d /\ k.time = h[j] /\ s[i] = h[i + d]
            BY <1>3, <1>4, <3>1, <3>3, <5>2 DEF Covers
          <6> QED
            BY <1>6, <5>2, <6>1 DEF InOrder
        <5> QED
          BY <5>1, <5>2
      <4> QED
        BY <4>1, <4>2
    <3>4. j \in Nat /\ d \in Nat
      BY <1>5
    <3>5. j > d \/ j <= d
      BY <3>4
    <3> QED
      BY <3>2, <3>3, <3>5
  <2>3. CASE Keep <= Len(h) /\ \A j \in 1..Len(h) : k.time <= h[j]
    <3>1. Keep <= Len(s)
      BY <1>4, <2>3, ProviderAssumption
    <3>2. ASSUME NEW i \in 1..Len(s) PROVE k.time <= s[i]
      BY <1>1, <1>4, <1>6, <2>1, <2>3
    <3> QED
      BY <3>1, <3>2
  <2> QED
    BY <1>3, <2>2, <2>3 DEF Covers
<1>10. \E i \in 1..Len(s) : g[i] = m
  <2>1. Len(s) \in 1..Len(s) /\ Len(s) + d = Len(h) + 1
    BY <1>5
  <2> QED
    BY <2>1
<1>11. Covers(g, s, calls \cup {m})
  BY <1>8, <1>9, <1>10 DEF Covers
<1> QED
  BY <1>1, <1>2, <1>7, <1>11 DEF Accounts, v

\* The entries of the last hour are no more than the calls of that hour, if the
\* content has no more than the calls ...
LEMMA RecentIsFinite ==
  ASSUME NEW u \in Usage
  PROVE  IsFiniteSet(Recent(u.hourly)) /\ Cardinality(Recent(u.hourly)) \in Nat
<1>1. Len(u.hourly) \in Nat
  BY DEF Usage
<1>2. IsFiniteSet(1..Len(u.hourly))
  BY <1>1, FS_Interval
<1>3. Recent(u.hourly) \in SUBSET (1..Len(u.hourly))
  BY DEF Recent
<1> QED
  BY <1>2, <1>3, FS_Subset, FS_CardinalityType

LEMMA RecentIsEarned ==
  ASSUME NEW u \in Usage, Earned(u, made), IsFiniteSet(made)
  PROVE  Cardinality(Recent(u.hourly)) <= Cardinality(RecentCalls)
<1> DEFINE h == u.hourly
<1>1. PICK f \in Injection(1..Len(h), made) : \A i \in 1..Len(h) : f[i].time = h[i]
  BY DEF Earned
<1> DEFINE g == [i \in Recent(h) |-> f[i]]
<1>2. ASSUME NEW i \in Recent(h) PROVE i \in 1..Len(h) /\ f[i] \in RecentCalls
  <2>1. i \in 1..Len(h) /\ h[i] + Hour > now
    BY DEF Recent
  <2>2. f[i] \in made /\ f[i].time = h[i]
    BY <1>1, <2>1 DEF Injection
  <2> QED
    BY <2>1, <2>2 DEF RecentCalls
<1>3. \A i, j \in Recent(h) : g[i] = g[j] => i = j
  BY <1>1, <1>2 DEF Injection, IsInjective
<1>4. g \in Injection(Recent(h), RecentCalls)
  BY <1>2, <1>3 DEF Injection, IsInjective
<1>5. IsFiniteSet(RecentCalls)
  BY FS_Subset DEF RecentCalls
<1> QED
  BY <1>4, <1>5, FS_Injection

\* ... and the calls no more than the limit, if it has all calls: one that it has not
\* is older than Keep others, which are as many as the limit.
LEMMA RecentIsWhole ==
  ASSUME NEW u \in Usage, Accounts(u, made), made \subseteq Calls, now \in Nat,
         Cardinality(Recent(u.hourly)) < MaxPerHour
  PROVE  Cardinality(RecentCalls) < MaxPerHour
<1> DEFINE h == u.hourly
<1>1. PICK f \in [1..Len(h) -> made] : Covers(f, h, made)
  BY DEF Accounts
<1>2. Len(h) \in Nat /\ \A i \in 1..Len(h) : h[i] \in Nat
  BY DEF Usage
<1>3. ASSUME NEW m \in RecentCalls PROVE \E i \in Recent(h) : f[i] = m
  <2>1. m \in made /\ m.time \in Nat /\ m.time + Hour > now
    BY DEF RecentCalls, Calls
  <2>2. CASE \E i \in 1..Len(h) : f[i] = m
    <3>1. PICK i \in 1..Len(h) : f[i] = m
      BY <2>2
    <3>2. h[i] = m.time
      BY <1>1, <3>1 DEF Covers
    <3>3. i \in Recent(h)
      BY <2>1, <3>2 DEF Recent
    <3> QED
      BY <3>1, <3>3
  <2>3. CASE Keep <= Len(h) /\ \A i \in 1..Len(h) : m.time <= h[i]
    <3>1. ASSUME NEW i \in 1..Len(h) PROVE h[i] + Hour > now
      BY <1>2, <2>1, <2>3, ProviderAssumption
    <3>2. Recent(h) = 1..Len(h)
      BY <3>1 DEF Recent
    <3>3. Cardinality(Recent(h)) = Len(h)
      <4>1. Len(h) \in Nat
        BY <1>2
      <4> HIDE DEF h
      <4>2. Cardinality(1..Len(h)) = IF 1 > Len(h) THEN 0 ELSE Len(h) - 1 + 1
        BY <4>1, FS_Interval
      <4>3. Cardinality(1..Len(h)) = Len(h)
        BY <4>1, <4>2
      <4> QED
        BY <3>2, <4>3
    <3>4. MaxPerHour \in Nat /\ Keep \in Nat /\ MaxPerHour <= Keep
      BY ProviderAssumption
    <3>5. Keep <= Len(h)
      BY <2>3
    <3> QED
      BY <1>2, <3>3, <3>4, <3>5
  <2> QED
    BY <1>1, <2>1, <2>2, <2>3 DEF Covers
<1> DEFINE g == [i \in Recent(h) |-> f[i]]
<1>4. ASSUME NEW i \in Recent(h) PROVE f[i] \in RecentCalls
  <2>1. i \in 1..Len(h) /\ h[i] + Hour > now
    BY DEF Recent
  <2>2. f[i] \in made /\ f[i].time = h[i]
    BY <1>1, <2>1 DEF Covers
  <2> QED
    BY <2>1, <2>2 DEF RecentCalls
<1>5. g \in Surjection(Recent(h), RecentCalls)
  BY <1>3, <1>4 DEF Surjection
<1>6. Cardinality(RecentCalls) <= Cardinality(Recent(h)) /\ IsFiniteSet(RecentCalls)
  BY <1>5, RecentIsFinite, FS_Surjection
<1> QED
  BY <1>6, RecentIsFinite, FS_CardinalityType, ProviderAssumption

----------------------------------------------------------------------------
\* What is read of the file is a content, and no more than the calls.
LEMMA LoadedIsEarned ==
  ASSUME ProviderInv
  PROVE  /\ \A loaded \in Loads : loaded \in Usage /\ InOrder(loaded) /\ Earned(loaded, made)
         /\ NoUsage \in Usage
<1>1. <<>> \in Seq(Nat) /\ Len(<<>>) = 0
  OBVIOUS
<1>2. NoUsage \in Usage /\ Len(NoUsage.hourly) = 0
  BY <1>1 DEF NoUsage, Usage
<1>3. InOrder(NoUsage)
  BY <1>2 DEF InOrder
<1>4. Earned(NoUsage, made)
  <2>1. \A t \in Tasks : NoUsage.calls[t] = 0 /\ Cardinality(For(t, made)) \in Nat
    BY Counted DEF ProviderInv, NoUsage
  <2> DEFINE f == [i \in 1..0 |-> now]
  <2>2. f \in Injection(1..0, made)
    BY DEF Injection, IsInjective
  <2> QED
    BY <1>2, <2>1, <2>2 DEF Earned
<1> QED
  BY <1>2, <1>3, <1>4 DEF Loads, ProviderInv, ProviderTypeOK, UsageIsEarned

Stages == {"idle", "checking", "recording", "opening", "saving", "calling"}

\* One caller moves, the others stay.
LEMMA Enters ==
  ASSUME ProviderTypeOK, NEW c \in Callers, NEW p \in Stages, Enter(c, p)
  PROVE  /\ stage' \in [Callers -> Stages] /\ stage'[c] = p
         /\ \A d \in Callers \ {c} : stage'[d] = stage[d]
  BY DEF ProviderTypeOK, Enter, Stages

LEMMA TickKeeps == ASSUME ProviderInv, Tick PROVE ProviderInv'
<1> USE DEF Tick, threadVars
<1>1. now \in Nat /\ now' = now + 1 /\ now' \in 0..MaxTime
  BY ProviderAssumption DEF ProviderInv, ProviderTypeOK
<1>2. ProviderTypeOK' /\ (\A m \in made : m.time <= now')
  BY <1>1 DEF ProviderInv, ProviderTypeOK, Calls
<1>3. ASSUME NEW u \in Usage, InOrder(u) PROVE InOrder(u)'
  <2>1. \A i \in 1..Len(u.hourly) : u.hourly[i] \in Nat
    BY DEF Usage
  <2> QED
    BY <1>1, <1>3, <2>1 DEF InOrder
<1>4. UsageIsEarned'
  <2>1. usage \in Usage /\ \A c \in Callers : copy[c] \in Usage
    BY DEF ProviderInv, ProviderTypeOK
  <2> QED
    BY <1>3, <2>1 DEF ProviderInv, UsageIsEarned, Pending
<1>5. CallsAreNew'
  BY DEF ProviderInv, CallsAreNew
<1>6. Cardinality(RecentCalls') <= Cardinality(RecentCalls) /\ {Cardinality(RecentCalls'), Cardinality(RecentCalls)} \subseteq Nat
  <2>1. \A m \in made : m.time \in Nat
    BY DEF ProviderInv, Calls
  <2>2. RecentCalls' \subseteq RecentCalls /\ RecentCalls \subseteq made
    BY <1>1, <2>1, ProviderAssumption DEF RecentCalls
  <2> QED
    BY <2>2, FS_Subset, FS_CardinalityType DEF ProviderInv
<1>7. ~disturbed' => OneCalls' /\ UsageIsWhole' /\ TaskLimit'
  BY DEF ProviderInv, OneCalls, UsageIsWhole, Pending, TaskLimit
<1>8. ~disturbed' => RoomIsLeft' /\ HourLimit'
  <2> SUFFICES ASSUME ~disturbed PROVE RoomIsLeft' /\ HourLimit'
    OBVIOUS
  <2>1. RoomIsLeft /\ HourLimit
    BY DEF ProviderInv
  <2>2. RoomIsLeft'
    BY <1>6, <2>1, ProviderAssumption DEF RoomIsLeft
  <2>3. HourLimit'
    BY <1>6, <2>1, ProviderAssumption DEF HourLimit
  <2> QED
    BY <2>2, <2>3
<1> QED
  BY <1>2, <1>4, <1>5, <1>7, <1>8 DEF ProviderInv

\* What a step of one caller has to say for itself when no call is made by it.
LEMMA StepKeeps ==
  ASSUME ProviderInv, ProviderTypeOK', UNCHANGED <<now, usage, made>>, NEW c \in Callers,
         \A d \in Callers \ {c} : /\ stage'[d] = stage[d] /\ task'[d] = task[d]
                                  /\ retry'[d] = retry[d] /\ copy'[d] = copy[d],
         \A d \in Callers \ {c} : task'[c] = task[d] => task'[c] = NoTask,
         stage'[c] # "idle" =>
           \A m \in made : m.task = task'[c] =>
             IF stage'[c] = "calling" THEN m.retry => retry'[c] ELSE ~m.retry /\ retry'[c],
         stage'[c] \in Entering =>
           (Len(copy[c].hourly) > 0 /\ InOrder(copy[c]) /\ Earned(copy[c], made \cup {Pending(c)}))',
         stage'[c] \in Allowing => MaxPerHour > 0,
         ~disturbed' =>
           /\ ~disturbed /\ (\A d \in Callers \ {c} : stage[d] = "idle")
           /\ torn' <=> stage'[c] = "saving"
           /\ stage'[c] \in Entering => Accounts(copy[c], made \cup {Pending(c)})'
           /\ stage'[c] \in Allowing =>
                Cardinality(RecentCalls) < MaxPerHour /\ Cardinality(For(task'[c], made)) < MaxPerTask
  PROVE  ProviderInv'
<1>1. \A d \in Callers \ {c} : Pending(d)' = Pending(d)
  BY DEF Pending
<1>2. \A u : InOrder(u)' = InOrder(u)
  BY DEF InOrder
<1>3. CallsAreNew'
  <2>1. ASSUME NEW d \in Callers, NEW e \in Callers, task'[d] = task'[e], d # e
        PROVE  task'[d] = NoTask
    BY <2>1 DEF ProviderInv, CallsAreNew
  <2>2. ASSUME NEW d \in Callers \ {c}, stage'[d] # "idle", NEW m \in made, m.task = task'[d]
        PROVE  IF stage'[d] = "calling" THEN m.retry => retry'[d] ELSE ~m.retry /\ retry'[d]
    BY <2>2 DEF ProviderInv, CallsAreNew
  <2> QED
    BY <2>1, <2>2 DEF CallsAreNew
<1>4. UsageIsEarned'
  <2>1. (InOrder(usage) /\ Earned(usage, made))'
    BY <1>2 DEF ProviderInv, UsageIsEarned
  <2>2. ASSUME NEW d \in Callers \ {c}, stage'[d] \in Entering
        PROVE  (Len(copy[d].hourly) > 0 /\ InOrder(copy[d]) /\ Earned(copy[d], made \cup {Pending(d)}))'
    <3>1. Len(copy[d].hourly) > 0 /\ InOrder(copy[d]) /\ Earned(copy[d], made \cup {Pending(d)})
      BY <2>2 DEF ProviderInv, UsageIsEarned
    <3>2. copy'[d] = copy[d]
      OBVIOUS
    <3> QED
      BY <1>1, <1>2, <3>1, <3>2
  <2> QED
    BY <2>1, <2>2 DEF UsageIsEarned
<1>5. \A d \in Callers : stage'[d] \in Allowing => MaxPerHour > 0
  BY DEF ProviderInv
<1>6. ASSUME ~disturbed' PROVE OneCalls' /\ UsageIsWhole' /\ RoomIsLeft' /\ HourLimit' /\ TaskLimit'
  <2>1. \A d \in Callers \ {c} : stage'[d] = "idle"
    BY <1>6
  <2>2. OneCalls'
    BY <2>1 DEF OneCalls
  <2>3. UsageIsWhole'
    BY <1>6, <2>1 DEF ProviderInv, UsageIsWhole, Entering
  <2>4. RoomIsLeft'
    BY <1>6, <2>1 DEF RoomIsLeft, Allowing, RecentCalls
  <2>5. HourLimit' /\ TaskLimit'
    BY <1>6 DEF ProviderInv, HourLimit, TaskLimit, RecentCalls
  <2> QED
    BY <2>2, <2>3, <2>4, <2>5
<1> QED
  BY <1>3, <1>4, <1>5, <1>6 DEF ProviderInv

LEMMA BeginKeeps ==
  ASSUME ProviderInv, NEW c \in Callers, NEW t \in Tasks, Begin(c, t) PROVE ProviderInv'
<1> USE DEF Begin
<1>1. /\ stage' \in [Callers -> Stages] /\ stage'[c] = "checking"
      /\ \A d \in Callers \ {c} : stage'[d] = stage[d]
  BY Enters DEF Stages, ProviderInv
<1>2. /\ task' \in [Callers -> Tasks \cup {NoTask}] /\ task'[c] = t /\ retry' \in [Callers -> BOOLEAN]
      /\ \A d \in Callers \ {c} : task'[d] = task[d] /\ retry'[d] = retry[d] /\ task[d] # t
  BY DEF ProviderInv, ProviderTypeOK
<1>3. ProviderTypeOK'
  BY <1>1, <1>2, ProviderAssumption DEF ProviderInv, ProviderTypeOK, Stages
<1>4. ~disturbed' => ~disturbed /\ \A d \in Callers : stage[d] = "idle"
  BY DEF ProviderInv, ProviderTypeOK
<1>5. ~disturbed' => (torn' <=> stage'[c] = "saving")
  BY <1>1, <1>4 DEF ProviderInv, UsageIsWhole
<1>6. (\A m \in made : m.task # t) /\ UNCHANGED <<now, usage, torn, copy, made>>
  OBVIOUS
<1> HIDE DEF Begin
<1> QED
  BY <1>1, <1>2, <1>3, <1>4, <1>5, <1>6, StepKeeps DEF Entering, Allowing

\* Nobody else is at work beside a caller that is not disturbed.
LEMMA Alone ==
  ASSUME ProviderInv, ~disturbed, NEW c \in Callers, stage[c] # "idle"
  PROVE  /\ \A d \in Callers \ {c} : stage[d] = "idle"
         /\ torn <=> stage[c] = "saving"
  BY DEF ProviderInv, OneCalls, UsageIsWhole

LEMMA FinishKeeps ==
  ASSUME ProviderInv, NEW c \in Callers, stage[c] \in {"checking", "calling"},
         Finish(c), UNCHANGED <<now, usage, torn, made>>,
         disturbed' \in BOOLEAN, disturbed => disturbed'
  PROVE  ProviderInv'
<1> USE DEF Finish
<1>1. /\ stage' \in [Callers -> Stages] /\ stage'[c] = "idle"
      /\ \A d \in Callers \ {c} : stage'[d] = stage[d]
  BY Enters DEF Stages, ProviderInv
<1>2. /\ task' \in [Callers -> Tasks \cup {NoTask}] /\ task'[c] = NoTask /\ retry' \in [Callers -> BOOLEAN]
      /\ copy' \in [Callers -> Usage]
      /\ \A d \in Callers \ {c} : task'[d] = task[d] /\ retry'[d] = retry[d] /\ copy'[d] = copy[d]
  BY LoadedIsEarned DEF ProviderInv, ProviderTypeOK
<1>3. ProviderTypeOK'
  BY <1>1, <1>2 DEF ProviderInv, ProviderTypeOK, Stages
<1> QED
  BY <1>1, <1>2, <1>3, Alone, StepKeeps DEF Entering, Allowing

LEMMA CheckKeeps == ASSUME ProviderInv, NEW c \in Callers, Check(c) PROVE ProviderInv'
<1> USE DEF Check
<1>1. /\ stage' \in [Callers -> Stages] /\ stage'[c] = "recording"
      /\ \A d \in Callers \ {c} : stage'[d] = stage[d]
  BY Enters DEF Stages, ProviderInv
<1>2. PICK loaded \in Loads : Allowed(loaded, task[c]) /\ disturbed' = (disturbed \/ Misread(loaded))
  OBVIOUS
<1>9. disturbed' \in BOOLEAN /\ (~disturbed' => ~disturbed /\ ~Misread(loaded))
  BY <1>2
<1>10. ProviderTypeOK'
  BY <1>1, <1>9 DEF ProviderInv, ProviderTypeOK, Stages
<1>3. MaxPerHour > 0
  BY <1>2, LoadedIsEarned, RecentIsFinite, ProviderAssumption DEF Allowed
<1>4. task[c] \in Tasks
  BY DEF ProviderInv, ProviderTypeOK
<1>5. ASSUME ~disturbed'
      PROVE  Cardinality(RecentCalls) < MaxPerHour /\ Cardinality(For(task[c], made)) < MaxPerTask
  <2>1. loaded = usage /\ Accounts(usage, made) /\ usage \in Usage
    BY <1>5, <1>9, Alone DEF Misread, ProviderInv, UsageIsWhole, ProviderTypeOK
  <2>2. Cardinality(RecentCalls) < MaxPerHour
    BY <1>2, <2>1, RecentIsWhole DEF Allowed, ProviderInv, ProviderTypeOK
  <2>3. Cardinality(For(task[c], made)) <= usage.calls[task[c]] /\ usage.calls[task[c]] < MaxPerTask
    BY <1>2, <1>4, <2>1 DEF Allowed, Accounts
  <2>4. Cardinality(For(task[c], made)) \in Nat /\ usage.calls[task[c]] \in Nat
    BY <1>4, <2>1, Counted DEF Usage, ProviderInv
  <2> QED
    BY <2>2, <2>3, <2>4, ProviderAssumption
<1>6. \A m \in made : m.task = task[c] => ~m.retry /\ retry[c]
  BY DEF ProviderInv, CallsAreNew
<1>7. \A d \in Callers \ {c} : task[c] = task[d] => task[c] = NoTask
  BY DEF ProviderInv, CallsAreNew
<1>8. ~disturbed => (\A d \in Callers \ {c} : stage[d] = "idle") /\ ~torn
  BY Alone
<1> QED
  BY <1>1, <1>3, <1>5, <1>6, <1>7, <1>8, <1>9, <1>10, StepKeeps DEF Entering, Allowing

LEMMA RefuseKeeps == ASSUME ProviderInv, NEW c \in Callers, Refuse(c) PROVE ProviderInv'
<1>1. /\ stage[c] = "checking" /\ Finish(c) /\ UNCHANGED <<now, usage, torn, made>>
      /\ disturbed' \in BOOLEAN /\ (disturbed => disturbed')
  BY DEF Refuse
<1> QED
  BY <1>1, FinishKeeps

\* What _record_call makes is a content in order, and its last entry is the new one.
LEMMA EnteredIsInOrder ==
  ASSUME NEW u \in Usage, InOrder(u), NEW t \in Tasks, now \in Nat, Keep > 0
  PROVE  LET v == Entered(u, t, now)
         IN  v \in Usage /\ InOrder(v) /\ Len(v.hourly) > 0 /\ v.hourly[Len(v.hourly)] = now
<1> DEFINE v == Entered(u, t, now)
           h == u.hourly
           s == LastOf(Append(h, now), Keep)
<1>1. h \in Seq(Nat) /\ u.calls \in [Tasks -> Nat] /\ v.hourly = s
  BY DEF Usage, Entered
<1>2. v.calls \in [Tasks -> Nat] /\ v = [calls |-> v.calls, hourly |-> s]
  BY <1>1 DEF Entered
<1> HIDE DEF v, s
<1>3. PICK d \in Nat : /\ s \in Seq(Nat) /\ Len(h) \in Nat /\ d <= Len(h)
                       /\ Len(s) = Len(h) + 1 - d
                       /\ \A i \in 1..Len(s) : s[i] = IF i + d = Len(h) + 1 THEN now ELSE h[i + d]
  BY <1>1, LastOfIs DEF s
<1>4. Len(h) \in Nat /\ d \in Nat /\ d <= Len(h) /\ Len(s) = Len(h) + 1 - d
  BY <1>3
<1>5. Len(s) > 0 /\ s[Len(s)] = now
  <2>1. Len(s) \in 1..Len(s) /\ Len(s) + d = Len(h) + 1
    BY <1>4
  <2> QED
    BY <1>3, <2>1
<1>6. ASSUME NEW k \in 1..Len(s)
      PROVE  \/ s[k] = now
             \/ k + d \in 1..Len(h) /\ s[k] = h[k + d] /\ s[k] <= now
  <2>1. CASE k + d = Len(h) + 1
    BY <1>3, <2>1
  <2>2. CASE k + d # Len(h) + 1
    <3>1. k + d \in 1..Len(h)
      BY <1>4, <2>2
    <3>2. s[k] = h[k + d]
      BY <1>3, <2>2
    <3> QED
      BY <3>1, <3>2 DEF InOrder
  <2> QED
    BY <2>1, <2>2
<1>7. ASSUME NEW i \in 1..Len(s), NEW j \in 1..Len(s), i <= j
      PROVE  s[i] <= s[j]
  <2>1. CASE s[j] = now
    BY <1>6, <2>1
  <2>2. CASE s[j] # now
    <3>1. j + d \in 1..Len(h) /\ s[j] = h[j + d]
      BY <1>6, <2>2
    <3>2. i + d \in 1..Len(h) /\ i + d <= j + d /\ i + d # Len(h) + 1
      BY <1>4, <1>7, <3>1
    <3>3. s[i] = h[i + d]
      BY <1>3, <3>2
    <3> QED
      BY <3>1, <3>2, <3>3 DEF InOrder
  <2> QED
    BY <2>1, <2>2
<1>8. InOrder(v)
  BY <1>1, <1>6, <1>7 DEF InOrder
<1>9. v \in Usage
  BY <1>2, <1>3 DEF Usage
<1> QED
  BY <1>1, <1>5, <1>8, <1>9 DEF v

LEMMA RecordKeeps == ASSUME ProviderInv, NEW c \in Callers, Record(c) PROVE ProviderInv'
<1> USE DEF Record
<1>1. /\ stage' \in [Callers -> Stages] /\ stage'[c] = "opening"
      /\ \A d \in Callers \ {c} : stage'[d] = stage[d]
  BY Enters DEF Stages, ProviderInv
<1>17. PICK u \in Loads : /\ copy' = [copy EXCEPT ![c] = WithCall(u, task[c])]
                          /\ disturbed' = (disturbed \/ Misread(u))
  OBVIOUS
<1>18. disturbed' \in BOOLEAN /\ (~disturbed' => ~disturbed /\ ~Misread(u))
  BY <1>17
<1> DEFINE t == task[c]
           v == Entered(u, t, now)
           m == [task |-> t, retry |-> retry[c], time |-> now]
<1>2. /\ u \in Usage /\ InOrder(u) /\ Earned(u, made) /\ now \in Nat /\ t \in Tasks /\ retry[c] \in BOOLEAN
      /\ Keep > 0 /\ MaxPerHour > 0
  BY LoadedIsEarned, ProviderAssumption DEF ProviderInv, ProviderTypeOK, Allowing
<1>3. \A k \in made : k.task = t => ~k.retry /\ retry[c]
  BY DEF ProviderInv, CallsAreNew
<1>4. m \in Calls /\ m \notin made /\ m.task = t /\ m.time = now
  BY <1>2, <1>3 DEF Calls
<1> HIDE DEF v
<1>5. copy' = [copy EXCEPT ![c] = v]
  BY <1>17 DEF v, Entered, WithCall
<1>6. v \in Usage /\ InOrder(v) /\ Len(v.hourly) > 0 /\ v.hourly[Len(v.hourly)] = now
  BY <1>2, EnteredIsInOrder DEF v
<1>7. UNCHANGED <<now, usage, torn, task, retry, made>>
  OBVIOUS
<1> HIDE DEF Record
<1>8. /\ copy' \in [Callers -> Usage] /\ copy'[c] = v
      /\ \A d \in Callers \ {c} : copy'[d] = copy[d]
  BY <1>5, <1>6 DEF ProviderInv, ProviderTypeOK
<1>9. ProviderTypeOK'
  BY <1>1, <1>7, <1>8, <1>18 DEF ProviderInv, ProviderTypeOK, Stages, Record
<1>10. Pending(c)' = m
  BY <1>6, <1>7, <1>8 DEF Pending
<1>11. Earned(v, made \cup {m})
  BY <1>2, <1>4, EarnedGrows DEF ProviderInv, v
<1>12. ASSUME ~disturbed' PROVE Accounts(v, made \cup {m})
  <2>1. u = usage /\ Accounts(usage, made)
    BY <1>12, <1>18, Alone DEF Misread, ProviderInv, UsageIsWhole, Record
  <2> QED
    BY <1>2, <1>4, <2>1, AccountsGrow DEF ProviderInv, v
<1>13. (Len(copy[c].hourly) > 0 /\ InOrder(copy[c]) /\ Earned(copy[c], made \cup {Pending(c)}))'
  <2>1. InOrder(copy[c])'
    BY <1>6, <1>7, <1>8 DEF InOrder
  <2>2. Earned(copy[c], made \cup {Pending(c)})'
    BY <1>7, <1>8, <1>10, <1>11 DEF Earned
  <2> QED
    BY <1>6, <1>8, <2>1, <2>2
<1>14. ~disturbed' => Accounts(copy[c], made \cup {Pending(c)})'
  BY <1>7, <1>8, <1>10, <1>12 DEF Accounts
<1>15. ~disturbed =>
         /\ (\A d \in Callers \ {c} : stage[d] = "idle") /\ ~torn
         /\ Cardinality(RecentCalls) < MaxPerHour /\ Cardinality(For(t, made)) < MaxPerTask
  BY Alone DEF ProviderInv, RoomIsLeft, Allowing, Record
<1>16. \A d \in Callers \ {c} : task[c] = task[d] => task[c] = NoTask
  BY DEF ProviderInv, CallsAreNew
<1> QED
  BY <1>1, <1>2, <1>3, <1>7, <1>8, <1>9, <1>13, <1>14, <1>15, <1>16, <1>18, StepKeeps

LEMMA OpenKeeps == ASSUME ProviderInv, NEW c \in Callers, Open(c) PROVE ProviderInv'
<1> USE DEF Open
<1>1. /\ stage' \in [Callers -> Stages] /\ stage'[c] = "saving"
      /\ \A d \in Callers \ {c} : stage'[d] = stage[d]
  BY Enters DEF Stages, ProviderInv
<1>2. ProviderTypeOK'
  BY <1>1 DEF ProviderInv, ProviderTypeOK, Stages
<1>3. (Len(copy[c].hourly) > 0 /\ InOrder(copy[c]) /\ Earned(copy[c], made \cup {Pending(c)}))'
  <2>1. Len(copy[c].hourly) > 0 /\ InOrder(copy[c]) /\ Earned(copy[c], made \cup {Pending(c)})
    BY DEF ProviderInv, UsageIsEarned, Entering
  <2> QED
    BY <2>1 DEF InOrder, Earned, Pending
<1>4. ASSUME ~disturbed
      PROVE  /\ \A d \in Callers \ {c} : stage[d] = "idle"
             /\ Accounts(copy[c], made \cup {Pending(c)})'
             /\ Cardinality(RecentCalls) < MaxPerHour /\ Cardinality(For(task[c], made)) < MaxPerTask
  <2>1. Accounts(copy[c], made \cup {Pending(c)})
    BY <1>4 DEF ProviderInv, UsageIsWhole, Entering
  <2>2. Accounts(copy[c], made \cup {Pending(c)})'
    BY <2>1 DEF Accounts, Pending
  <2> QED
    BY <1>4, <2>2, Alone DEF ProviderInv, RoomIsLeft, Allowing
<1>5. /\ \A m \in made : m.task = task[c] => ~m.retry /\ retry[c]
      /\ \A d \in Callers \ {c} : task[c] = task[d] => task[c] = NoTask
      /\ MaxPerHour > 0
  BY DEF ProviderInv, CallsAreNew, Allowing
<1> QED
  BY <1>1, <1>2, <1>3, <1>4, <1>5, StepKeeps

LEMMA ReturnKeeps == ASSUME ProviderInv, NEW c \in Callers, Return(c) PROVE ProviderInv'
<1> USE DEF Return
<1>1. CASE Finish(c)
  BY <1>1, FinishKeeps DEF ProviderInv, ProviderTypeOK
<1>2. CASE ~retry[c] /\ retry' = [retry EXCEPT ![c] = TRUE] /\ Enter(c, "checking") /\ UNCHANGED <<task, copy>>
  <2>1. /\ stage' \in [Callers -> Stages] /\ stage'[c] = "checking"
        /\ \A d \in Callers \ {c} : stage'[d] = stage[d]
    BY <1>2, Enters DEF Stages, ProviderInv
  <2>2. retry' \in [Callers -> BOOLEAN] /\ retry'[c] /\ \A d \in Callers \ {c} : retry'[d] = retry[d]
    BY <1>2 DEF ProviderInv, ProviderTypeOK
  <2>3. ProviderTypeOK'
    BY <1>2, <2>1, <2>2 DEF ProviderInv, ProviderTypeOK, Stages
  <2>4. /\ \A m \in made : m.task = task[c] => ~m.retry
        /\ \A d \in Callers \ {c} : task[c] = task[d] => task[c] = NoTask
    BY <1>2 DEF ProviderInv, CallsAreNew
  <2>5. ~disturbed => (\A d \in Callers \ {c} : stage[d] = "idle") /\ ~torn
    BY Alone
  <2> QED
    BY <1>2, <2>1, <2>2, <2>3, <2>4, <2>5, StepKeeps DEF Entering, Allowing
<1> QED
  BY <1>1, <1>2

\* The call runs, recorded or not.
LEMMA SaveKeeps == ASSUME ProviderInv, NEW c \in Callers, Save(c) \/ SaveFails(c) PROVE ProviderInv'
<1> DEFINE m == Pending(c)
<1>1. /\ stage' \in [Callers -> Stages] /\ stage'[c] = "calling"
      /\ \A d \in Callers \ {c} : stage'[d] = stage[d]
  BY Enters DEF Stages, ProviderInv, Save, SaveFails, Call
<1>2. /\ stage[c] \in Entering /\ UNCHANGED <<now, task, retry, copy>> /\ made' = made \cup {m}
      /\ usage' \in {usage, copy[c]} /\ torn' \in BOOLEAN /\ disturbed' \in BOOLEAN
  BY DEF Save, SaveFails, Call, Pending, Entering, ProviderInv, ProviderTypeOK
<1>14. ~disturbed' => /\ ~disturbed /\ stage[c] = "saving"
                      /\ \/ usage' = copy[c] /\ torn' = FALSE
                         \/ ~torn /\ torn' = TRUE /\ usage' = usage
  BY DEF Save, SaveFails
<1>3. /\ Len(copy[c].hourly) > 0 /\ InOrder(copy[c]) /\ Earned(copy[c], made \cup {m})
      /\ copy[c] \in Usage /\ task[c] \in Tasks /\ retry[c] \in BOOLEAN /\ IsFiniteSet(made) /\ made \subseteq Calls
  BY <1>2 DEF ProviderInv, UsageIsEarned, Entering, ProviderTypeOK
<1>4. m \in Calls /\ m.time <= now /\ m.task = task[c] /\ m.retry = retry[c]
  <2>1. Len(copy[c].hourly) \in 1..Len(copy[c].hourly) /\ copy[c].hourly \in Seq(Nat)
    BY <1>3 DEF Usage
  <2>2. copy[c].hourly[Len(copy[c].hourly)] \in Nat /\ copy[c].hourly[Len(copy[c].hourly)] <= now
    BY <1>3, <2>1 DEF InOrder
  <2> QED
    BY <1>3, <2>2 DEF Pending, Calls
<1>5. (\A k \in made : k.task = task[c] => ~k.retry /\ retry[c]) /\ m \notin made
  BY <1>2, <1>4 DEF ProviderInv, CallsAreNew, Entering
<1> HIDE DEF m
<1>6. ProviderTypeOK' /\ made' \subseteq Calls /\ IsFiniteSet(made') /\ \A k \in made' : k.time <= now'
  <2>1. IsFiniteSet(made')
    BY <1>2, <1>3, FS_AddElement
  <2>2. ProviderTypeOK'
    <3>1. usage' \in Usage
      BY <1>2, <1>3 DEF ProviderInv, ProviderTypeOK
    <3>2. \A d \in Callers : task'[d] = NoTask <=> stage'[d] = "idle"
      BY <1>1, <1>2, <1>3, ProviderAssumption DEF ProviderInv, ProviderTypeOK
    <3> QED
      BY <1>1, <1>2, <3>1, <3>2 DEF ProviderInv, ProviderTypeOK, Stages
  <2> QED
    BY <1>2, <1>3, <1>4, <2>1, <2>2 DEF ProviderInv
<1>7. CallsAreNew'
  <2>1. \A d, e \in Callers : task'[d] = task'[e] /\ d # e => task'[d] = NoTask
    BY <1>2 DEF ProviderInv, CallsAreNew
  <2>2. \A k \in made' : k.task = task'[c] => (k.retry => retry'[c])
    BY <1>2, <1>4, <1>5
  <2>3. ASSUME NEW d \in Callers \ {c}, stage'[d] # "idle", NEW k \in made', k.task = task'[d]
        PROVE  IF stage'[d] = "calling" THEN k.retry => retry'[d] ELSE ~k.retry /\ retry'[d]
    <3>1. stage[d] # "idle" /\ task[d] # task[c]
      BY <1>1, <1>3, <2>3, ProviderAssumption DEF ProviderInv, CallsAreNew
    <3>2. k \in made
      BY <1>2, <1>4, <2>3, <3>1
    <3> QED
      BY <1>1, <1>2, <2>3, <3>1, <3>2 DEF ProviderInv, CallsAreNew
  <2> QED
    BY <1>1, <2>1, <2>2, <2>3 DEF CallsAreNew
<1>8. \A u : InOrder(u)' = InOrder(u)
  BY <1>2 DEF InOrder
<1>9. (InOrder(usage) /\ Earned(usage, made))'
  <2>1. InOrder(usage') /\ Earned(usage', made')
    <3>1. CASE usage' = copy[c]
      BY <1>2, <1>3, <3>1
    <3>2. CASE usage' = usage
      BY <1>2, <1>6, <3>2, EarnedStays DEF ProviderInv, UsageIsEarned, ProviderTypeOK
    <3> QED
      BY <1>2, <3>1, <3>2
  <2> QED
    BY <1>2, <2>1 DEF InOrder, Earned
<1>10. ASSUME NEW d \in Callers \ {c}, stage'[d] \in Entering
       PROVE  (Len(copy[d].hourly) > 0 /\ InOrder(copy[d]) /\ Earned(copy[d], made \cup {Pending(d)}))'
  <2>1. /\ Len(copy[d].hourly) > 0 /\ InOrder(copy[d]) /\ Earned(copy[d], made \cup {Pending(d)})
        /\ copy[d] \in Usage
    BY <1>1, <1>10 DEF ProviderInv, UsageIsEarned, ProviderTypeOK
  <2>2. IsFiniteSet(made' \cup {Pending(d)})
    BY <1>6, FS_AddElement
  <2>3. Earned(copy[d], made' \cup {Pending(d)})
    BY <1>2, <2>1, <2>2, EarnedStays
  <2>4. Pending(d)' = Pending(d) /\ copy'[d] = copy[d]
    BY <1>2 DEF Pending
  <2>5. Earned(copy[d], made \cup {Pending(d)})'
    BY <2>3, <2>4 DEF Earned
  <2> QED
    BY <1>8, <2>1, <2>4, <2>5
<1>11. UsageIsEarned'
  BY <1>1, <1>9, <1>10 DEF UsageIsEarned, Entering
<1>12. \A d \in Callers : stage'[d] \in Allowing => MaxPerHour > 0
  BY <1>1 DEF ProviderInv, Allowing
<1>13. ASSUME ~disturbed' PROVE OneCalls' /\ UsageIsWhole' /\ RoomIsLeft' /\ HourLimit' /\ TaskLimit'
  <2>1. ~disturbed /\ torn /\ stage[c] = "saving" /\ \A d \in Callers \ {c} : stage'[d] = "idle"
    BY <1>1, <1>13, <1>14, Alone
  <2>2. usage' = copy[c] /\ torn' = FALSE
    BY <1>13, <1>14, <2>1
  <2>3. OneCalls' /\ RoomIsLeft'
    BY <1>1, <2>1 DEF OneCalls, RoomIsLeft, Allowing
  <2>4. UsageIsWhole'
    <3>1. Accounts(copy[c], made \cup {m})
      BY <1>2, <2>1 DEF ProviderInv, UsageIsWhole, Entering, m
    <3>2. Accounts(usage, made)'
      BY <1>2, <2>2, <3>1 DEF Accounts
    <3> QED
      BY <1>1, <2>1, <2>2, <3>2 DEF UsageIsWhole, Entering
  <2>5. /\ Cardinality(RecentCalls) < MaxPerHour /\ Cardinality(For(task[c], made)) < MaxPerTask
        /\ \A t \in Tasks : Cardinality(For(t, made)) <= MaxPerTask
    BY <1>2, <2>1 DEF ProviderInv, RoomIsLeft, Allowing, TaskLimit, For
  <2>6. HourLimit'
    <3>1. IsFiniteSet(RecentCalls) /\ RecentCalls' \in SUBSET (RecentCalls \cup {m})
      BY <1>2, <1>3, FS_Subset DEF RecentCalls
    <3>2. /\ IsFiniteSet(RecentCalls \cup {m})
          /\ Cardinality(RecentCalls \cup {m}) <= Cardinality(RecentCalls) + 1
          /\ Cardinality(RecentCalls) \in Nat /\ Cardinality(RecentCalls \cup {m}) \in Nat
      <4>1. Cardinality(RecentCalls) \in Nat
        BY <3>1, FS_CardinalityType
      <4>2. CASE m \in RecentCalls
        <5>1. RecentCalls \cup {m} = RecentCalls
          BY <4>2
        <5>2. Cardinality(RecentCalls \cup {m}) = Cardinality(RecentCalls)
          BY <5>1
        <5>3. IsFiniteSet(RecentCalls \cup {m})
          BY <3>1, <5>1
        <5> HIDE DEF m
        <5> QED
          BY <4>1, <5>2, <5>3
      <4>3. CASE m \notin RecentCalls
        <5>1. /\ IsFiniteSet(RecentCalls \cup {m})
              /\ Cardinality(RecentCalls \cup {m}) = Cardinality(RecentCalls) + 1
          BY <3>1, <4>3, FS_AddElement
        <5> QED
          BY <4>1, <5>1
      <4> QED
        BY <4>2, <4>3
    <3>3. Cardinality(RecentCalls') <= Cardinality(RecentCalls \cup {m}) /\ Cardinality(RecentCalls') \in Nat
      BY <3>1, <3>2, FS_Subset, FS_CardinalityType
    <3> QED
      BY <2>5, <3>2, <3>3, ProviderAssumption DEF HourLimit
  <2>7. TaskLimit'
    <3>1. ASSUME NEW t \in Tasks PROVE Cardinality(For(t, made')) <= MaxPerTask
      <4>1. /\ Cardinality(For(t, made)) \in Nat
            /\ Cardinality(For(t, made')) =
                 IF task[c] = t THEN Cardinality(For(t, made)) + 1 ELSE Cardinality(For(t, made))
        BY <1>2, <1>3, <1>4, <1>5, Counted
      <4> QED
        BY <2>5, <4>1, ProviderAssumption
    <3> QED
      BY <3>1 DEF TaskLimit, For
  <2> QED
    BY <2>3, <2>4, <2>6, <2>7
<1> QED
  BY <1>6, <1>7, <1>11, <1>12, <1>13 DEF ProviderInv

LEMMA CrashKeeps == ASSUME ProviderInv, Crash PROVE ProviderInv'
<1> USE DEF Crash
<1>1. ProviderTypeOK' /\ \A c \in Callers : stage'[c] = "idle" /\ task'[c] = NoTask
  BY LoadedIsEarned DEF ProviderInv, ProviderTypeOK
<1>2. CallsAreNew'
  BY <1>1 DEF CallsAreNew
<1>3. UsageIsEarned'
  BY <1>1 DEF ProviderInv, UsageIsEarned, InOrder, Entering
<1> QED
  BY <1>1, <1>2, <1>3 DEF ProviderInv, Allowing

LEMMA ProviderInitHolds == ProviderInit => ProviderInv
<1> SUFFICES ASSUME ProviderInit PROVE ProviderInv
  OBVIOUS
<1>1. /\ NoUsage \in Usage /\ NoUsage.hourly = <<>> /\ Len(NoUsage.hourly) = 0
      /\ \A t \in Tasks : NoUsage.calls[t] = 0
  BY DEF NoUsage, Usage
<1>2. now = 0 /\ usage = NoUsage /\ torn = FALSE /\ made = {} /\ disturbed = FALSE
  BY DEF ProviderInit
<1>3. \A c \in Callers : stage[c] = "idle" /\ task[c] = NoTask
  BY DEF ProviderInit
<1>4. ProviderTypeOK
  <2>1. MaxTime \in Nat /\ 0 \in 0..MaxTime
    BY ProviderAssumption
  <2>2. /\ stage \in [Callers -> {"idle", "checking", "recording", "opening", "saving", "calling"}]
        /\ task \in [Callers -> Tasks \cup {NoTask}] /\ retry \in [Callers -> BOOLEAN]
        /\ copy \in [Callers -> Usage]
    BY <1>1 DEF ProviderInit
  <2> QED
    BY <1>1, <1>2, <1>3, <2>1, <2>2 DEF ProviderTypeOK
<1>5. IsFiniteSet(made) /\ Cardinality(made) = 0
  BY <1>2, FS_EmptySet
<1>6. RecentCalls = made /\ \A t \in Tasks : For(t, made) = made /\ {m \in made : m.task = t} = made
  BY <1>2 DEF RecentCalls, For
<1>7. 1..Len(usage.hourly) = {}
  BY <1>1, <1>2
<1>8. \A t \in Tasks : /\ usage.calls[t] <= Cardinality(For(t, made))
                       /\ Cardinality(For(t, made)) <= usage.calls[t]
  <2> SUFFICES ASSUME NEW t \in Tasks
               PROVE  usage.calls[t] <= Cardinality(For(t, made)) /\ Cardinality(For(t, made)) <= usage.calls[t]
    OBVIOUS
  <2>1. usage.calls[t] = 0
    BY <1>1, <1>2
  <2>2. Cardinality(For(t, made)) = 0
    <3>1. For(t, made) = made
      BY <1>6
    <3> QED
      BY <1>5, <3>1
  <2> QED
    BY <2>1, <2>2
<1>9. UsageIsEarned
  <2> DEFINE f == [i \in {} |-> now]
  <2>1. f \in Injection(1..Len(usage.hourly), made)
    BY <1>7 DEF Injection, IsInjective
  <2>2. \A i \in 1..Len(usage.hourly) : f[i].time = usage.hourly[i]
    BY <1>7
  <2>3. Earned(usage, made)
    BY <1>8, <2>1, <2>2 DEF Earned
  <2>4. InOrder(usage)
    BY <1>7 DEF InOrder
  <2> QED
    BY <1>3, <2>3, <2>4 DEF UsageIsEarned, Entering
<1>10. UsageIsWhole
  <2> DEFINE f == [i \in {} |-> now]
  <2>1. f \in [1..Len(usage.hourly) -> made]
    BY <1>7
  <2>2. Covers(f, usage.hourly, made)
    BY <1>2, <1>7 DEF Covers
  <2>3. Accounts(usage, made)
    BY <1>8, <2>1, <2>2 DEF Accounts
  <2> QED
    BY <1>2, <1>3, <2>3 DEF UsageIsWhole, Entering
<1>11. HourLimit /\ TaskLimit
  BY <1>5, <1>6, ProviderAssumption DEF HourLimit, TaskLimit
<1> QED
  BY <1>2, <1>3, <1>4, <1>5, <1>9, <1>10, <1>11 DEF ProviderInv, CallsAreNew, OneCalls, RoomIsLeft, Allowing

LEMMA ProviderStutters == ASSUME ProviderInv, UNCHANGED providerVars PROVE ProviderInv'
<1> USE DEF providerVars, threadVars
<1>1. ProviderTypeOK' /\ CallsAreNew'
  BY DEF ProviderInv, ProviderTypeOK, CallsAreNew
<1>2. UsageIsEarned'
  BY DEF ProviderInv, UsageIsEarned, InOrder, Pending
<1>3. ~disturbed => OneCalls' /\ UsageIsWhole' /\ RoomIsLeft' /\ HourLimit' /\ TaskLimit'
  BY DEF ProviderInv, OneCalls, UsageIsWhole, RoomIsLeft, HourLimit, TaskLimit, RecentCalls, Pending
<1> QED
  BY <1>1, <1>2, <1>3 DEF ProviderInv

LEMMA ProviderInductive == ProviderSpec => []ProviderInv
<1>1. ProviderInv /\ [ProviderNext]_providerVars => ProviderInv'
  BY TickKeeps, CrashKeeps, BeginKeeps, CheckKeeps, RefuseKeeps, RecordKeeps, OpenKeeps, SaveKeeps,
     ReturnKeeps, ProviderStutters DEF ProviderNext
<1> QED
  BY <1>1, ProviderInitHolds, PTL DEF ProviderSpec

\* CallsAreLimited: types, and as long as plans do not overlap, the server lives and
\* the usage file can be read and written, neither limit is exceeded, whatever call
\* fails, is asked again or is pushed out of the file.
THEOREM CallsAreAlwaysLimited == ProviderSpec => []CallsAreLimited
<1>1. ProviderInv => CallsAreLimited
  BY DEF ProviderInv, CallsAreLimited, LimitsHoldAlone
<1> QED
  BY <1>1, ProviderInductive, PTL

\* RefusalsAreEarned: however plans overlap, updates are lost and saves fail, a plan is refused
\* only when one of the limits is really reached.
THEOREM RefusalsAreAlwaysEarned == ProviderSpec => RefusalsAreEarned
<1> DEFINE Reached == \A c \in Callers : Refuse(c) =>
                        \/ Cardinality(RecentCalls) >= MaxPerHour
                        \/ Cardinality({m \in made : m.task = task[c]}) >= MaxPerTask
<1>1. ProviderInv => Reached
  <2> SUFFICES ASSUME ProviderInv, NEW c \in Callers, Refuse(c)
               PROVE  \/ Cardinality(RecentCalls) >= MaxPerHour
                      \/ Cardinality(For(task[c], made)) >= MaxPerTask
    BY DEF For
  <2>5. PICK loaded \in Loads : ~Allowed(loaded, task[c])
    BY DEF Refuse
  <2>1. /\ loaded \in Usage /\ Earned(loaded, made) /\ task[c] \in Tasks /\ IsFiniteSet(made)
        /\ stage[c] = "checking"
    BY LoadedIsEarned DEF ProviderInv, ProviderTypeOK, Refuse
  <2>2. /\ IsFiniteSet(RecentCalls) /\ Cardinality(RecentCalls) \in Nat
        /\ Cardinality(For(task[c], made)) \in Nat
    BY <2>1, FS_Subset, FS_CardinalityType, Counted DEF RecentCalls
  <2>3. CASE ~(loaded.calls[task[c]] < MaxPerTask)
    <3>1. loaded.calls[task[c]] <= Cardinality(For(task[c], made)) /\ loaded.calls[task[c]] \in Nat
      BY <2>1 DEF Earned, Usage
    <3> QED
      BY <2>2, <2>3, <3>1, ProviderAssumption
  <2>4. CASE ~(Cardinality(Recent(loaded.hourly)) < MaxPerHour)
    <3>1. Cardinality(Recent(loaded.hourly)) <= Cardinality(RecentCalls)
      BY <2>1, RecentIsEarned
    <3>2. Cardinality(Recent(loaded.hourly)) \in Nat
      BY <2>1, RecentIsFinite
    <3> QED
      BY <2>2, <2>4, <3>1, <3>2, ProviderAssumption
  <2> QED
    BY <2>1, <2>3, <2>4, <2>5 DEF Allowed
<1>2. ProviderInv /\ [ProviderNext]_providerVars => [Reached]_providerVars
  BY <1>1
<1> QED
  BY <1>2, ProviderInductive, PTL DEF ProviderSpec, RefusalsAreEarned
=============================================================================
