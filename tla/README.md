# Verification of the Sovereign Imperia Citadel

TLA+ models of the parts of the Citadel in which several threads, processes or
files have to agree, checked with TLC, with theorems checked by TLAPS.
Paths below are relative to the repository root; the Python package is
`src/citadel/`, the tools are `tools/`.

## 1. The system

The Citadel is a command line, a UI server, a family of daemons and a library
around LLM workers. Nearly every part keeps its state in JSON files that other
processes read and write, mostly without a lock; that is where the hard
behaviour is. The parts with state of their own:

| Component | State | Operations | Talks to | Hard behaviour |
|---|---|---|---|---|
| Lease reaper (`services/authority/lease.py`) | heap, dict of leases, revoked set | grant, revoke, is_valid, next_expiry, reap | worker pool | three structures that are popped separately, renewals |
| Worker pool and job queue (`services/army`) | queue, in-flight set, outcomes, one lease per worker | enqueue, claim, ack, run, reap | reaper, Redis | threads, calls that raise before or after the server has done them, expiry while working |
| RAM cache (`services/cache/ram_cache.py`) | dict of nodes on a linked list, hand, byte total | get, put, delete, clear, evict | cache daemon, memoizer | pointers under long sequences of calls, two limits |
| Task manifests (`tools/citadel_execution_manifest.py`, `citadel_ai_orchestrator.py`, POST `/api/execute/*` of `citadel_ui_server.py`) | one JSON file per task | plan, approve, run, validate, cancel, recovery at start | provider, validation | a thread per request, copies held over calls of minutes, no lock, torn files, crash |
| Provider calls (`tools/citadel_provider_runner.py`) | usage file | check limits, record, call, retry | `claude` process | load-check-load-save without a lock, a file that cannot be written |
| Legion run (`tools/legion_orchestrator.py`, `failure_recovery.py`, `legion_governance.py`) | worker processes, ledger, scorecard and decision files | plan, spawn, poll, respawn, finalize | git, worker processes | failures, escalation, two runs in one workspace, tests without a timeout, death of the supervisor |
| Embedder and vector store (`tools/embedder_daemon.py`, `services/retrieval/worker.py`, `indexer.py`, `vector_store.py`) | fingerprints, records | watch, sweep, sync, index, delete | engine, ask | files that change while they are read, engine offline, crash or failure between delete and upsert |
| Answers (`services/retrieval/ask.py`, `answer_cache.py`, `service.py`) | cached answers with the hashes they cite | search, cite, generate, serve | vector store | a store that moves between search and citation |
| Coding executor and verdict ledger (`services/execute`) | workspace files, ledger of condemned content, pre-images | generate, verify in a copy, back up, write back, record, condemn | local engine, cloud | write-back file by file over what others wrote, torn ledger |
| Routing (`services/execute/policy.py`, `executor.py`) | confidence file | load, route, record | the executors | what is learned by commands that overlap or die |
| Daemon lifecycle (`commands/up.py`, `down.py`, `_runner.py`, `_daemons.py`, the daemons' own signal handling) | pid files, stop sentinel, processes | up, down, restart, --stop | process table | stale and reused pids, daemons that are still leaving |
| Megacorp loop (`tools/megacorp_orchestrator.py` and the tools it calls) | vault notes, capsule, spec, records | take, spec, route, ask, audit, write node, mark, record | model, the user's editor | shared files of overlapping runs, edits between read and write |
| Workspace index (`tools/build_workspace_intelligence_index.py`, `_workspace_intel_common.py`, `workspace_intelligence_daemon.py`) | index, fingerprints, search corpus, lock file | scan, diff, parse, write, sync, lock; watch, poll, trigger | editors, watchdog | files that change during a build or cannot be parsed, lock races, events dropped or never sent, killed builders |
| Feature replicator (`tools/feature_replicator.py`, `services/reuse`) | template registry, backups, patched files | capture, decide, replicate, validate, roll back | validation command | partial failure in place, in the clean-up and in the rollback, two commands, a registry written over |
| Legion store (`services/compile`) | facts, mirror, Bloom filter | get, put | processes sharing the directory | whole-file writes of content-addressed data |

What makes each correct, in one line: leases end and are always found by the
reaper; a task is claimed once and never lost from the books; the cache's list
is the dict and stays within its limits; an approval is complete and follows a
plan; limits bind and refusals are earned; a run that returns is settled, and
done means that the worker's own change passed the gate; a file at rest is
indexed as it is; a cached answer is served only while what it cites is
unchanged; the workspace holds only verified changes; an intent that fails is
escalated and one that recovers is not; there is one daemon of a kind and its
pid file names it; a task marked complete was answered and is on
record; a failed replication leaves nothing behind.

Not all of this holds. Three promises of the repository that the code does not
keep have a run that shows the counterexample, and the others are listed with the
exceptions that the properties name for them (section 3).

`PROJECT.json` lists all components, the ones without state too, and the
hazards at the lines where they bite.

## 2. Modules

| Module | Models | Notes |
|---|---|---|
| `Authority` | what a lease promises | abstract: `held[id]`, granted, withdrawn |
| `LeaseReaper` | `lease.py` | refines `Authority` |
| `WorkerPool` | `queue.py`, `pool.py` | an INSTANCE of `LeaseReaper` over the pool's own variables |
| `TaskManifests` | manifest store, state machine, request handlers, recovery | |
| `RecencyQueue` | what the cache promises | abstract: a sequence of keys, sizes |
| `RamCache` | `ram_cache.py` | refines `RecencyQueue` |
| `ServiceProofs` | theorems on `WorkerPool` and `RamCache` | the job queue and the cache |
| `ProviderCalls` | rate limits of the provider runner | |
| `LegionRun` | supervisor, escalation, governance gate, status table | |
| `ApprovalProofs` | theorems on `TaskManifests` and `LegionRun` | what an approval rests on |
| `EmbedderDaemon` | watch loop, worker, indexer, vector store | |
| `GroundedAnswers` | `citadel ask` | EXTENDS `EmbedderDaemon`: the asking process beside the daemon |
| `AskingProofs` | theorems on `EmbedderDaemon`, `GroundedAnswers` and `ProviderCalls` | what is asked of models |
| `SovereignDo` | `citadel do` and `optimize --apply` | |
| `SovereignRun` | `sovereign_run`, `route` and the confidence file | which commands try the local tier |
| `SovereignDoProofs` | theorems on `SovereignDo` and `SovereignRun` | |
| `Daemons` | `up`, `down`, `restart`, `--stop` and one daemon | |
| `LifetimeProofs` | theorems on `LeaseReaper` and `Daemons` | what ends when it should |
| `VaultLoop` | the megacorp loop over the vault | |
| `VaultLoopProofs` | theorems on `VaultLoop` | |
| `IndexBuild` | builder and lock of the workspace index | |
| `IndexWatch` | the daemon that starts builders | EXTENDS `IndexBuild`: the daemon beside other builders |
| `IndexWatchProofs` | theorems on `IndexBuild` and `IndexWatch` | |
| `FeatureReplicator` | `citadel replicate` and capture | |
| `FeatureReplicatorProofs` | theorems on `FeatureReplicator` | |
| `MCLifetimes` | `LeaseReaper` and `Daemons` | small instances of two modules that share no variable, see section 3 |
| `MCServices` | `WorkerPool` and `RamCache` | likewise |
| `MCEscalation` | `LegionRun` and `SovereignRun` | likewise |
| `MCAsking` | `GroundedAnswers` and `ProviderCalls` | likewise |
| the other `MC*` | EXTENDS the module | symmetry sets, constraints |

Correspondence with the code:

* **LeaseReaper.** `heap`, `leases`, `revoked`, `seq` are `_heap`, `_leases`,
  `_revoked`, `_counter`. One action per method. `Popped(dead)` is the loop
  `while heap and heap[0] in dead: heappop`: it takes exactly the dead entries
  with no live entry before them. The operations take the time as a parameter,
  as the code does, because the pool passes a frozen one.
* **WorkerPool.** `pc[w]` walks through `_worker`; each call on the queue or the
  reaper is a step. `raising`, chosen at the start, says which calls may raise:
  verify on either backend, claim and ack over Redis, and these before or after
  the server has done them. A raise goes to the `finally` (`Exit`), which revokes
  the lease.
* **TaskManifests.** A handler thread is `place`, `copy` and `todo`, the versions
  it has still to write. Each save is two steps, `Truncate` and `Write`, because
  `Path.write_text` is not atomic; when two threads have the file open, the
  longer text may survive behind the shorter one (`torn`). `Restart` is a crash
  followed by `recover_stuck_tasks`.
* **RamCache.** The node is its key; `list` holds the five pointers. Under the
  lock, `put` is one step up to its eviction, then `PickVictim`, `Scan` and
  `Evict` are steps of their own, so that the loop's progress is a liveness
  property and not an assumption. A newcomer is always unvisited.
  `policy` is chosen at the start, as by the constructor.
* **ProviderCalls.** The two loads of the usage file (check, record) and the two
  halves of its save are steps; a load may read nothing of a file that is whole,
  and a save may fail in either half (`SaveFails`), whereupon the call is made all
  the same. `made` is history: the calls really made; `disturbed` remembers whether
  plans have overlapped, the server has died, or the file was not read or written.
* **LegionRun.** The ledger is kept as what `legion_status` reduces it to
  (`row`). Starting a worker and its line in the ledger are two steps (`Spawn`,
  `RecordStart`). The tests of L6 are a step that may never come (`TestsEnd`).
  A change is the verdict it deserves; the scorecard file holds the
  verdict it leads to, `torn` between open and write. Between `Score`, `Rule`
  and `Validate` another run of the workspace may write the file (`Intrude`);
  `misjudged` remembers the workers whose ruling was not made from their own
  change. The token ledger is left out: the supervisor never acts on it.
* **EmbedderDaemon.** `place` walks through `watch`, `sync` and `index_file`.
  `index_file` reads the file three times (chunks, staleness, hash) and changes
  the store twice (delete, upsert); each is a step, and files are edited in
  between. `index` is the store as others read it, `memory` what the daemon holds
  of the local one: a save that fails leaves the two apart until the next one
  succeeds, and over Redis a call may raise before or after it is done
  (`StoreFails`). `backend` is chosen at the start. A hash is the content it is the
  hash of. `known` and `dirty` are the snapshot of mtimes. `excused` is history: the
  files whose last attempt failed in a way the code lets it fail, and that it does
  not try again.
* **GroundedAnswers.** One question is asked again and again, each time by a new
  process. On the local backend the process works on the store as it loaded it
  (`view`), on Redis on the store of the moment. `unread` are the cited files that
  `_citations_fresh` has still to read, one a step; serving the answer is a step of
  its own. `written` is history: files written since that check began; `crossed`:
  files whose text and hash are of different moments.
* **SovereignDo.** A process goes from generate through the condemned check,
  verification in a copy, pre-images and the write-back, where each file is two
  steps (open, write), to the record and the cloud. `verifier[p]` says whether the
  command has one (`--verify`, or a Python file among its targets); with one, the
  copy passes or not, without one it passes. `copy[p]` is the copy that passed,
  `vouched` that of the command that last finished. A file that cannot be read for
  its pre-image is written all the same ("bare"). `overtaken` is history: the
  processes whose copy is no longer the workspace.
* **SovereignRun.** The confidence file is what a load makes of it (`stats`): the
  local lines before the first torn one. Loading, routing, the local attempt with
  its record and the cloud are steps of each command. `trend` says what the attempts
  of the intent can end with: anything, then failures only, then passes only.
* **Daemons.** One kind of daemon at a time, of the four that differ in how
  they are stopped: by sentinel or by signal, in `_DAEMONS` of `down` or not, in
  the sweep of command lines or not. `proc[pid]` is what runs under the pid, a
  stranger included. A command is walked call by call: pid file, signal, grace,
  kill, unlink; scan; look, start, note. A daemon writes its pid, serves,
  notices, leaves and cleans up in steps of its own.
* **VaultLoop.** A note is its tag, the number of its text, whether it begins
  with a verb of action and whether its links lead to code. Steps A to F are
  actions; the read and the write of a note are separate ones. `raced`, `cut`
  and `mixed` are history: edits under a run, runs that died before their
  record, runs that overlapped.
* **IndexBuild.** A build is scan, diff, parse of each file, the index files, the
  fingerprints, and the search corpus document by document. A scan may pass over
  what cannot be listed, a parse may end in an error record for a file that is
  there (`Unread`), any step that writes may raise (`Fail`), and without repositories
  empty indexes are written and the corpus is not told (`NoRepos`). The lock is looked
  at, unlinked, written and renamed in steps. What a build holds in memory is
  `bld[b]`; an mtime with size is a stamp. `cut` and `mixed` are history: a
  recorded file gone before its builder died; two builders inside the lock.
* **IndexWatch.** `events` is what watchdog has still to deliver; for an atomic save,
  or in a repository made after the start, no event comes. The handler
  blocks while the daemon's builder runs, and drops an event within the
  interval (`lately`). In poll mode `seen` is the last round and `pending` the
  debounce. `missed` is history: changes no build will be started for, or whose
  build failed.
* **FeatureReplicator.** One template whose hunks name files; a file is the set
  of marks left in it. A command goes target by target and hunk by hunk: backup
  and read, write, validation, clean-up unlink by unlink, or rollback, where each
  backup is looked for, copied and unlinked in three steps. Any of these may raise,
  a backup or a write having truncated its file; what raises in the clean-up is
  rolled back, what raises in a rollback is rolled back once more or ends the
  command (`again`). At the end the registry is loaded again, or taken for empty,
  the results are counted, and it is saved in two steps. `stray`, `excused` and
  `lost` are history: backups left by a command that ended early, files that the
  comparison leaves out, failures that no entry counts. The look of the decider at
  the registry is part of `Begin`, as only the executor's own look counts.

`map` in `PROJECT.json` gives the source lines of every definition.

## 3. Runs

| Run | Instance | Distinct states | Shows |
|---|---|---|---|
| `lifetimes` | leases: 2 ids, TTL 1 or 2, 4 grants, clock to 4; daemons: 3 pids, 2 terminals, 3 commands, each kind | 1.05 M | `LeaseTypeOK`, `HeapCoversLeases`, `ReapTakesExpired`, refinement of `Authority` (`AuthorityIsGranted`); `OneTrackedDaemon`, `DownLeavesNone` |
| `services` | pool: 2 workers, 2 tasks, 2 runs, with each set of calls that may raise; cache: sieve and lru, 4 keys, 3 entries, 4 bytes, sizes 1, 2, 5 | 0.84 M | `BooksAgree` (types, disjoint claims, one outcome per task), `LeaseEndsWithWorker`, `RejectedOnlyExpired`, `NothingVanishes`, `RunReportsAll` under fairness when nothing raises; `ListIsSound`, `BudgetHolds`, `HotEntriesSurvive`, `EvictionEnds`, refinement of `RecencyQueue` (`IsRecencyQueue`: under lru the oldest key is the victim) |
| `task_manifests` | 1 task, 2 request threads, 2 tokens | 1.74 M | `TypeOK`, `ApprovalIsComplete`, `PlanBeforeApproval` |
| `escalation` | legion: 1 run, 2 workers, diffs may be blind, tests may never end, other runs write the scorecard; routing: 2 commands at once, 3 attempts for a confidence, 3 passes, 2 crashes | 0.49 M | `WorkersAreAccounted` (types, tiers, table), `ReturnedRunIsSettled`, `DoneIsClean`, `ExitIsHandled`; `FailingIsEscalated` |
| `asking` | index and answers: 2 files, 2 texts, 2 edits, local store and Redis; provider: 2 threads, 3 tasks, 1 call per task, 2 per hour, failing loads and saves, crashes | 2.99 M | `IndexIsSound` (types, a settled file is indexed as it is), `ServedAnswerIsCurrent`; `CallsAreLimited`, `RefusalsAreEarned` |
| `sovereign_do` | 2 processes, 2 files, one of them Python, 2 contents, 2 commands | 1.76 M | `WorkspaceIsSound`, `CondemnedStaysOut`, `PreImageIsKept` |
| `vault_loop` | 2 notes and the knowledge node, 2 loops, 2 edits, 3 runs | 3.23 M | `RecordsAreSound`, `CompletedWasAnswered`, `CompletedIsOnRecord` |
| `index_watch` | 2 files, 2 builders, 3 edits, 2 builds | 2.71 M | `RecordsAreSound`, `SearchIsCurrent`, `QuietIndexIsCurrent` |
| `replicate` | hunks in two files or twice in one: 2 commands, 2 targets, 1 edit; one hunk: 4 commands, 3 targets, 2 strikes | 2.39 M | `FailuresLeaveNothing`, `BackupsAreRemoved`, `FailingIsGivenUp` |

Four runs check two modules that share no variable and do not call each other.
`moving`, chosen at the start, says whose behaviour it is; the other rests in its
initial state, where none of its fair steps is enabled (or `moving` guards them).
A property of one module speaks of its variables only, so checking the behaviours
of each with the other at rest is checking each.

Each of the following runs states what the repository says, without exceptions,
and ends in a counterexample.

| Run | Property | What the repository says | What the run shows |
|---|---|---|---|
| `do_unchecked` | `ChangesAreVerified` | `coding.py:6-7`: "An unverified change never reaches the repo" | a command without a verifier writes (`cli.py:280`) |
| `run_recovery` | `RecoveredReturns` | `policy.py:53-54`: "regains confidence and returns to the free local tier" | a low confidence stays (`executor.py:94`) |
| `replicate_hunks` | `RollbackIsComplete` | `feature_replicator.py:190`: "rollback on fail" | two hunks of a file share a backup (`:206`) |

The findings of `PROJECT.json` quote these lines in full. `ChangesAreVerified` asks
for a verifier, `RecoveredReturns` for the return to the local tier, and
`RollbackIsComplete` is `RollbackRestores` without its exceptions.

A property named for a conjunction (`IndexIsSound`, `BooksAgree`, ...) joins the
type invariant to the invariants it belongs with; its parts are definitions with
comments of their own in the module.

Why the bounds are enough. Four grants over two ids give an id three heap
entries with the other between them. Two workers and two tasks give every pair
of claims; two runs let a task survive the run that claimed it. The second run is
followed where every call may raise and the clock has moved since the first (the
CONSTRAINT `SecondRunIsLate`): fewer raises are among those behaviours, and the
leases of the first run can be due in it. With two request
threads each save can be overtaken at every step by a whole other request. Four
keys give three linked nodes (head, middle, tail) and a newcomer; size 5
does not fit the budget at all, size 2 makes the byte limit bind before the
entry limit. Two workers of a run are enough for one to be finalized while the
other fails and comes back, and the four tiers are all present. Three tasks fill
an hourly limit of two and go beyond it, a limit of one call per task makes the
retry the call too many, and an hour of two ticks in a clock of two lets a
recorded call leave the window. Two edits of a file let it change between two
reads of `index_file`, and come back to what it was; once a process has asked one
edit is followed (`SecondEditBeforeAsking`), as it can fall between any two reads of
either. Two processes of
`do`, two files and two contents give every mix of an old and a new file. Three
attempts are those of the code, three passes leave a confidence high that failures
then lower, and two crashes tear a line and end a command elsewhere. Three pids are
two daemons and a stranger, or a daemon, its successor and a third; three
commands are a start, a stop and a start. Three runs of the vault loop are two
that overlap after one that died. Versions up to three and
two builds let a file be changed twice, or be created, recorded and deleted, by
the daemon's builder beside a manual one. `index_watch` checks the states in which
two builders have been at work at once and does not go on from them (the CONSTRAINT
`Apart`), as its properties say nothing of what comes after.
Two targets and two files let the two commands of `replicate` meet at every step of
a rollback; two strikes (three in the code), three targets and four commands let a
template be given up and captured again (`Small` gives each template its bounds).

Named bounds: `MaxTime`, `MaxGrants`, `MaxRuns`, `MaxTokens`, `MaxEdits`,
`MaxTasks`, `MaxJobs`, `MaxTexts`, `MaxBuilds`, `MaxTargets`, `MaxPassed`,
`MaxCrashes`, `Absent` (the files that may be missing at first); `Keep` scales down the 200 entries the code keeps,
`Strikes` the three rollbacks, `MinAttempts` the attempts a confidence needs.
`CHECK_DEADLOCK FALSE` appears where the system really comes to rest: a pool
with no runs left, manifests with no request, a run that returned, commands that
are over, files that change no more. Symmetry is used in runs without liveness
only, over sets whose elements the properties and the model treat alike.

Fairness. `WorkerPool!LiveSpec`: each worker thread is scheduled and `run()`
returns; the work itself returns, which the code assumes as well (no timeout in
`run_fn`). `CacheLiveSpec` of `RamCache`: the thread that holds the lock runs.
`MCServices` and `MCEscalation` assume the same of the module that moves.
`LegionRun!LiveSpec`: the supervisor process is scheduled; worker exits and the end
of the tests of L6 have no fairness, as no timeout makes either stop.
`SovereignRun!LiveRunSpec`: commands of the intent keep coming, and those that do
not die end; it is what "a repeatedly-failing intent" presupposes, and dying is
not made fair. The other modules promise nothing
under fairness, because the code does not: a daemon, a builder or a command may
be killed for good at any step, and a change that was dropped is not tried
again. What "eventually" would say is stated of the states where nothing is left
to be done instead (`Settled`, `Quiet`, every command idle).

### The exceptions in the properties

Several properties name cases in which the code does not keep what it otherwise
keeps. Each is a history variable, so that the property says exactly when, and
each case was reached by TLC before it was named.

* `excused` (embedder): engine offline during a sync, embedding failed, the store
  could not be changed or saved, a file that became unfit, a hash read after a
  change, a file deleted while no daemon ran, or seen by the sweep only. None of
  these is tried again until the file changes.
* `written`, `crossed` (answers): a file written after the check of the citations
  began; text and hash of different moments.
* `spoiled`, `overtaken` (do): a write-back over what another process wrote, a
  death between two files.
* `ledgerTorn` (do), `torn` (run): a line cut short by a death, behind which a load
  finds nothing.
* `raced`, `cut`, `mixed` (vault): an edit under a run, a run dead before its
  record, overlapping runs or a spec that could not be generated.
* `cut`, `mixed`, `unsynced`, `missed` (index): a file gone before the build that
  recorded it had fingerprinted it; builders at once; a search sync that failed or
  did not come; changes that no build was started for, or whose build failed.
* `excused`, `stray`, `shared`, `lost` (replicate): a file that somebody else wrote
  or backed up, that had a hunk in it when it was backed up again, or whose backup
  was cleaned up already; backups of a command that was killed, or whose copy or
  rollback raised; overlapping commands; failures whose count was not saved.
* `misjudged` (legion): a ruling on somebody else's scorecard, or on a diff git
  did not show. Tests that never end (`ExitIsHandled`).
* `alone`, `calm` (daemons): commands that overlapped or were interrupted.
* `disturbed` (provider): plans that overlapped, a server that died, a usage file
  that was not read or written.
* `AckIsUnanswered` (pool): an ack over Redis that the server did and that raised.

### Met while modelling

What the repository says of the program and the code does not keep, beside the
findings above, with the place where the properties take it into account:

| What the repository says | What the code does | In the model |
|---|---|---|
| `lease.py:54`: "Pop and return every lease that has expired or been revoked" | `reap` takes a renewed lease that is still valid, through the heap entry of its first grant (`:59`) | `Reap`; `AuthorityIsGranted` allows an early end |
| `citadel_execution_manifest.py:56`: nothing leaves "cancelled" | an old copy is saved over the cancellation (`citadel_ai_orchestrator.py:170`, `citadel_ui_server.py:2078`) | `PlanReturns` and the handlers; no property says that a status is final |
| `legion_governance.py:7-16`: the companies "mechanically score each worker's changed files" and "gate the merge" | all runs of a workspace share one scorecard file: a worker is judged by that of another run (`:122`) | `misjudged` in `DoneIsClean` |
| `citadel_provider_runner.py:11`: "Enforces rate limits and max retries." | plans that overlap pass the same check (`:141`); a usage file that cannot be written is passed over (`:94-99`) | `disturbed` in `CallsAreLimited` |
| `answer_cache.py:3`: reused only when the files are "UNCHANGED" | the file is hashed after its chunks were read, so old text goes under the new hash (`indexer.py:80`) | `crossed` in `ServedAnswerIsCurrent` |
| `coding.py:6-7`: "An unverified change never reaches the repo" | a death between two files, or another command, leaves a mix (`:111`) | `spoiled`, `overtaken` in `WorkspaceIsSound` |
| `verdict.py:3-5`: "can never be re-proposed" | behind a torn ledger line condemnations are forgotten (`:44`) | `ledgerTorn` in `CondemnedStaysOut` |
| `SYSTEM-DESIGN.md:204`: "100% of mutations carry a pre-image" | a pre-image cut short stands for the whole one for good (`verdict.py:86`) | `badBlobs` in `PreImageIsKept` |
| `_daemons.py:13-15`: "can never signal an unrelated process that merely reused a stale PID" | a pid reused within the grace is killed (`:161`) | `Kill`; no property says that strangers live |
| `megacorp_orchestrator.py:30-31`: the delta is written before any write-back | the note is marked first (`:524`, `:538`) | `cut` in `CompletedIsOnRecord` |
| `workspace-intelligence-index.md:37`: "All writes atomic" | two builders can hold the lock, an old one is unlinked whoever has it, and they share the temporary name (`_workspace_intel_common.py:93`) | `mixed` in `RecordsAreSound`, `SearchIsCurrent` |
| `feature_replicator.py:190`: "rollback on fail" | a clean-up that raises is rolled back by half (`:236`) | `excused` in `FailuresLeaveNothing` |
| `services/reuse/executor.py:4-5`: "auto-disable after 3 rollbacks" | two commands count each in its own copy (`feature_replicator.py:176`) | `shared` in `FailingIsGivenUp` |

And what a reader would not expect:

Leases, pool, manifests, provider, legion:

* `reap` stops at the first heap entry that is neither expired nor revoked, so a
  revoked lease behind it stays. In a second run of a pool a worker's first lease
  can take its second early, hence `RejectedOnlyExpired` is claimed for the first
  run only.
* The workers check their leases at the start time of the run (`pool.py:75`
  against the docstring `:6-7`).
* Manifests are created in plan-only mode, which run refuses
  (`tools/citadel_execution_manifest.py:282`,
  `tools/citadel_ai_orchestrator.py:318-319`): what follows the guard, and
  `TaskLock` with it, is not reached.
* The page offers an approval on a planned task (`docs/brain/tasks.html:353`);
  the handler stores its flags and token and is then refused by the table
  (`tools/citadel_ui_server.py:2011`).
* A crash inside the save of the usage file loses all recorded calls.
* `git diff HEAD` lists no new files, and a git that fails lists none at all: the
  gate then scores no change, perfectly (`tools/legion_orchestrator.py:239-249`).
* A worker that failed with its escalations used up is finalized like one that
  completed and may be recorded done (`tools/legion_orchestrator.py:364`);
  `tools/failure_recovery.py:51-52` says it is "left failed for a human to inspect".
* `tools/efficiency_gate.py:8-10` says respawns are refused once the token budget
  is exhausted; the supervisor never asks (`tools/legion_orchestrator.py:347`).
* A second run of the same task text is refused by the plan gate as a duplicate
  of the first one's approved proposal (`tools/legion_governance.py:70-77`).

Retrieval, do, daemons:

* A file that becomes empty has its records deleted under its absolute path,
  where there are none (`indexer.py:62-66`), and one grown past 1 MB is passed
  over: their old records stay. A file deleted while no daemon ran is in no later
  diff (`tools/embedder_daemon.py:105`), and neither is one created after the
  first fingerprint and deleted after the sweep.
* On Redis the hash of a citation is read by a call of its own (`ask.py:80`).
* The cloud executor's pass is the exit code of a process whose text is printed
  (`cli.py:245-250`). No command calls `condemn()`, and `do` opens no ledger. A
  torn confidence line is where learning ends.
* The embedder is in neither list of `down` (`down.py:39-48`,
  `_daemons.py:26-36`). `down` signals the pid in a pid file whoever has it by
  now. `--stop` followed by `up` keeps a daemon that is about to exit; a `--stop`
  while one starts is lost, as the start removes the sentinel. Overlapping or
  interrupted `up`s leave two embedders, and a dying one unlinks the pid file, or
  the RAM cache's socket (`tools/ram_cache_daemon.py:141`), of its successor.

Vault loop, index, replicator:

* All tasks have the same knowledge node (`tools/megacorp_orchestrator.py:517`),
  which the next one overwrites (`tools/obsidian_writer.py:116`). An answer that
  repeats the tag makes the node an active task. The router joins dictionaries
  and raises when the capsule has resolved files. L5 compares scores under names
  it does not know and vetoes nothing; L6 builds no files; the rows of the task
  history are empty. A note that begins with its tag counts as a question. An edit
  of a note between read and write is lost; a spec error keeps the old spec.
* An error or a kill during the search sync is not made up for by later builds,
  and `--rebuild` leaves deleted documents in the corpus, as does a build that
  finds no repositories. A file that was created, recorded, not yet fingerprinted
  when the builder ended, and deleted, keeps its record (`cut`). A file that could
  not be parsed once is not tried again until it changes. A watchdog event within
  the interval is dropped for good; a rebuild that failed is not tried again;
  polling misses a file that comes and goes between rounds, although a manual
  build may have recorded it.
* A rollback undoes edits made during the validation, and one that raises for its
  own sake keeps the remaining backups. A registry that does not parse, or cannot
  be read, at the end of a command is written as an entry with counts only, and
  the empty template then succeeds always. A target in which the text was not
  found counts as a success.

## 4. Theorems

Proved for every value of the constants that satisfies the named assumptions.
The assumptions ask for natural numbers as bounds and TTLs, and keep the model
values apart that the code keeps apart: `LeaseAssumption`, `ManifestAssumption`,
`PoolAssumption`, `LegionAssumption`, `RetrievalAssumption`, `SovereignAssumption`,
`RunAssumption` (a confidence needs at least one attempt),
`ProviderAssumption` (the hourly limit is at most `Keep`, the 200 entries kept: one above
that would never bind; the default is 20), `VaultAssumption`, `IndexAssumption` (a file's first version counts among the
edits, so `MaxEdits` is not 0; the value that stands for an unreadable file is no
index), `WatchAssumption`, `ReplicatorAssumption` (a template is given up after at
least one failure; None is no entry), `DaemonsAssumption`, `CacheAssumption` (None is
no key; `Keys` and `Sizes` may be infinite).

Each component's proof defines an inductive invariant, `IInv` or one with the
component's name (the types, the property and the parts below), proves it of the initial states and of every action, and
draws the properties from it. Each invariant was model-checked first, on instances
of the run's size.

| Module | Theorem | States |
|---|---|---|
| `LifetimeProofs` | `LeaseTypeCorrect`, `LeasesAreReachable`, `ReapIsComplete` | `LeaseTypeOK`, `HeapCoversLeases`, `ReapTakesExpired` |
| | `ImplementsAuthority` | the refinement of `Authority` |
| | `OneDaemonIsTracked`, `DownAlwaysLeavesNone` | `OneTrackedDaemon`, `DownLeavesNone` |
| `ServiceProofs` | `BooksAlwaysAgree`, `LeasesEndWithWorkers`, `OnlyExpiredAreRejected` | `BooksAgree`, `LeaseEndsWithWorker`, `RejectedOnlyExpired` |
| | `NothingEverVanishes` | `NothingVanishes`, an action property |
| | `RunsLeaveNothingInFlight` | with no call that raises, nothing is in flight between runs |
| | `PoolLeasesAreReachable` | `HeapCoversLeases`, of the pool's reaper |
| | `ListStaysSound`, `BudgetAlwaysHolds` | `ListIsSound`, `BudgetHolds` |
| | `HotEntriesAlwaysSurvive` | `HotEntriesSurvive`, an action property |
| | `ImplementsRecencyQueue` | the refinement of `RecencyQueue` |
| | `EvictionIsBounded` | each step of the eviction loop lowers `StepsLeft` |
| `ApprovalProofs` | `TypeCorrect`, `ApprovalsAreComplete`, `PlansPrecedeApproval` | `TypeOK`, `ApprovalIsComplete`, `PlanBeforeApproval` |
| | `WorkersAreAlwaysAccounted`, `ReturnedRunsAreSettled`, `DoneMeansClean` | `WorkersAreAccounted`, `ReturnedRunIsSettled`, `DoneIsClean` |
| `AskingProofs` | `IndexIsAlwaysSound` | `IndexIsSound` |
| | `ServedAnswersAreCurrent` | `ServedAnswerIsCurrent`, an action property |
| | `CallsAreAlwaysLimited` | `CallsAreLimited` |
| | `RefusalsAreAlwaysEarned` | `RefusalsAreEarned`, an action property |
| `SovereignDoProofs` | `WorkspaceIsAlwaysSound` | `WorkspaceIsSound` |
| | `CondemnedIsNeverWritten`, `PreImagesAreKept` | `CondemnedStaysOut`, `PreImageIsKept`, action properties |
| | `LowConfidenceIsForGood` | `LowConfidenceIsFinal` of `SovereignRun`, an action property: no step raises a confidence that is low and settled, which refutes `RecoveredReturns` for any number of commands |
| `VaultLoopProofs` | `RecordsSound`, `CompleteMeansAnswered`, `CompleteMeansOnRecord` | `RecordsAreSound`, `CompletedWasAnswered`, `CompletedIsOnRecord` |
| `IndexWatchProofs` | `RecordsAreAlwaysSound`, `SearchIsAlwaysCurrent`, `QuietIndexIsAlwaysCurrent` | `RecordsAreSound`, `SearchIsCurrent`, `QuietIndexIsCurrent` |
| `FeatureReplicatorProofs` | `FailuresNeverLeaveAnything`, `BackupsAreAlwaysRemoved`, `FailingIsAlwaysGivenUp` | `FailuresLeaveNothing`, `BackupsAreRemoved`, `FailingIsGivenUp` |

The arguments, and what each invariant needs beside the property:

* **LeaseReaper.** `HeapCoversLeases` needs the types, and that a popped entry of
  an unrevoked id takes the dict's lease with it, so that what is left has its
  own entry still. `ReapIsComplete` uses that an expired entry has only expired
  entries before it, and that an unrevoked lease has its entry. The refinement is
  shown step by step: a grant is a grant, everything else a withdrawal or a
  stutter.
* **WorkerPool.** A task is in the queue, in flight, about to be appended, or has
  its outcome, and in one of these only (`TasksAreOnce`), unless an ack was done
  and raised; the queue holds no task
  twice (`QueueIsSound`), so its head is nobody's, and a worker acks its own
  claim. `LeasesAreTheirs`: a worker that has not left is not revoked, and the
  dict and heap have the lease of its run; so the reaper takes the lease only
  through an expired entry, and in a first run all entries expire with it
  (`FirstRunExpiresAtOnce`). Grant, revoke and reap of the
  INSTANCE have an effect lemma each. `RunsLeaveNothingInFlight` adds that a task in
  flight is in the hands of a worker (`FlightIsHeld`), which only a call that raises
  breaks. `PoolLeasesAreReachable` is not a case of `LeasesAreReachable`: the pool
  grants at the time at which its run was started, which a `LeaseReaper` on its own
  never does, so each operation is shown again to keep `HeapCoversLeases`.
* **RamCache.** The pointers are sound when there is a thread: a sequence of the nodes,
  each once, in which `newer` and `older` lead to the neighbours, and head and tail
  are the ends (`Linked`). Linking pushes a node to its front, unlinking cuts one out
  (`LinkPushes`, `UnlinkCuts`), so every operation keeps one, and the walk from the
  head is it (`WalkIsThread`, by induction on the position). `BudgetHolds` needs that
  the sum of the sizes does not depend on the order in which the fold takes them,
  and follows one that is replaced (`SumWithout`, `SumReplaced`, by induction on
  the set). For the hot entries, `ScanInOrder`: since the scan began it has cleared
  just the nodes between its start and its place, or, once it has come round, all but
  those still ahead (`Behind`). So a node it finds cleared by itself is the one it
  began with, after a whole round, and no unread one was on the way. The thread is also
  the queue of `RecencyQueue`: a push is `<<k>> \o order`, a cut `Without(k)`, and
  under lru the scan stands on the tail, the last of the queue. `EvictionIsBounded` is
  the part of `EvictionEnds` that needs no fairness: at most two steps a node, one a
  set bit, and one; `ListStaysSound` gives that the scan always stands on a node, which
  it can pass or take.
* **TaskManifests.** The files alone do not carry the induction, as any thread may
  write an old copy at any time: the invariant asks the same of the copies and of
  every version in `todo`. A stale write then moves a complete version over
  another complete version.
* **LegionRun.** Only a worker whose exit was seen and that has no verdict is being
  finalized; it stays so until its verdict is recorded (`FinalizedIsIdle`), so
  verdicts are on exited workers (`VerdictsAreLate`). What the gate holds is the
  scorecard of the worker's change, or `misjudged` names the worker
  (`GateSeesChange`); an approval follows that ruling (`ApprovalFollows`).
* **EmbedderDaemon and GroundedAnswers.** At every step each file is current, or
  excused, or something will bring it up again: the next diff, the lists of the
  sync under way, or `index_file`, which is at it (`NothingIsForgotten`); and while
  it is not in `dirty`, what was read of it is what it holds (`ReadsAreCurrent`).
  As a save of the local store writes all records, the invariant must also say
  what memory has of the other files: in either of the two, text and
  hash of a record are of one moment, and the two are the same, outside `excused`
  (`RecordsAgree`, `MemoryIsSaved`; `Stored` has the effect of a change).
  For answers: text and hash of a hit, a citation and the cached answer are of one
  record, outside `crossed` (`CitationsAgree`); a citation that was read is still
  so, or `written` (`ChecksAreCurrent`).
* **ProviderCalls.** Each entry of the file, and of a copy on its way to it, is a call
  of its own (`Earned`: an injection from entries to calls, with the same times), so
  what is counted was called; a lost update or a torn file only takes entries away.
  While nothing disturbs, neither another caller nor a failing load or save, the
  entries are also all calls, but for those
  that `Keep` later ones have pushed out (`Accounts`): if one of those were of the
  last hour, the `Keep` entries kept would be too, and they reach the limit. So a
  check that passes leaves room (`RoomIsLeft`), and only the caller that has it can
  use it.
* **SovereignDo.** As long as a process is not overtaken, the workspace with the
  rest of its proposal in it is its `copy`, which passed its verifier or had none
  to pass (`RestIsVerified`); so the write that leaves no rest leaves that copy,
  and it is `vouched`. A command that writes has its remaining files backed up, or
  could not read them, or is overtaken (`NextIsBackedUp`).
* **SovereignRun.** A confidence that is low routes every later command to the
  cloud, whose outcomes no load counts; only a command that loaded it before could
  record a local pass, and there is none.
* **VaultLoop.** A run's own capsule never changes, and the note it was made from
  says the same unless the user edits it (`raced`), whatever lies in the shared
  files. So a run past the answer has its own task in `answered`, and marks that.
* **IndexBuild.** Versions only grow: one that is neither absent nor on disk is
  past, and never comes back. While builders do not mix, a fingerprint is that of
  the record, or past, or the record was cut off from it (`RecordsFollowPrints`);
  likewise of the search document, or it is still to be told
  (`CorpusFollowsPrints`). "Of" allows for the error record of a version that
  could not be parsed. A builder at work carries that through its steps: what
  it loaded is what the last build left, its difference is of its scan, what it
  parsed is what it scanned or the scan is past, what it wrote is there
  (`BuilderInv`).
* **IndexWatch.** `NothingIsOverlooked`: a file is caught by the last build, or
  missed (an event that never came, or a build that failed, included), or noticed, that is in the events, different from the last round, or
  ahead in the daemon's builder. Each step of a builder moves it along these.
* **Daemons.** Only commands start daemons; so a command that is alone (`OneAtWork`)
  and saw what it scanned has, at each stage of its sweep, all that is alive among
  what it is about to strike (`SweepIsComplete`, where `Staged` says which stages
  there are). From its end on, and as long as commands do not overlap (`Settled`),
  one daemon is alive, but for one that only cleans up (`OneIsAlive`); it is the one
  in the pidfile, or the one that a command is about to note there (`OneIsTracked`,
  `NoteIsRight`), and so the one whose pid the next `down` reads (`ReadIsRight`).
* **FeatureReplicator.** For the rollback, `FilesAreKept`: while a target is at work,
  a file that is not excused and not in its list of backups is as the
  target found it; one in the list has that content in its backup, or was restored
  already, at whichever of the three steps the rollback stands. For the backups,
  `BackupsAreHeld`: each is in the list of a command that will remove it, though it
  may be another's file, or stray. For the count, `CountsAgree`: a command that runs
  alone has the failures that are not lost in its entry, or in the targets it has
  counted and not yet saved (`Tallied`).

Induction over data is done without the induction theorems, which take a predicate
that the provers cannot instantiate: the positions, or the subsets, where the claim
fails are a set, and if it is not empty it has a least element (`LeastPosition`,
`SmallestSet`, from the well-foundedness of `<` and of strict inclusion).

Proving brought changes to the model. `Recent` of `ProviderCalls` is the set
of positions of the recent entries, not a filtered sequence, which the provers
cannot count. `SearchIsCurrent` allowed for files in
`cut`, as `RecordsAreCurrent` must; the invariant does not need that, and the
property is now stated without it. `OnRecord` of `VaultLoop` has a name of its own,
and the record types of processes have one in each module. `CacheAssumption` says that
None is no key, which the pointers need. `Without` and `Over` of `RecencyQueue` are
written with the first position of the key, and with the sum over the keys in the
queue, as the provers know nothing of `SelectSeq` and `Keys` need not be finite.

Model-checked only: liveness (`RunReportsAll`, `EvictionEnds`, `ExitIsHandled`,
`FailingIsEscalated`), which the proof system does not handle. Every other property
of the passing runs is proved.

No module declares a RECURSIVE operator.

## 5. Plan

Every safety property of the runs is proved; of liveness, only what needs no
fairness: the bound on the eviction loop, and that a run ends with nothing in flight.

Where the model could grow: the self-heal and bug-record loop
(`tools/legion_self_heal.py`, `tools/bug_record.py`), the intent daemon of the
vault, the cache client with the memoizer, the store of proposals behind the plan
gate. Of these it was noticed, reading: self-heal reads the settings before it
repairs them, so with settings that do not parse it quarantines a hook that is
wired (`tools/legion_self_heal.py:334-348`); a reopened critical bug asks for no
new restart, and a second one overwrites the request of the first
(`tools/bug_record.py:218-247`); the memoizer's temporary file has a name shared
by all processes (`memoize.py:63-71`); the intent daemon's debounce drops the last
event of a burst.

## 6. Not modelled

* Text: prompts, plans, diffs, chunking, redaction, secret patterns, scoring of
  principles, RICE. They are choices in the models.
* Capability checks of `services/authority` other than the lease: pure
  predicates over immutable values.
* What the parsers, linters, graph and report builders find; setup and MCP
  dispatch: batch work over files that no protocol shares. This is most of the
  code by lines, and the reason why the map covers a small share of it.
* Constructors with fallbacks (Redis or memory) and Redis itself: the queue's
  contract is modelled as the code uses it. `pending()`, which over Redis counts
  the entries not acked only and answers 0 when the call fails, and `purge()`; no
  property is about them. Two processes that each load, change
  and save one local vector store (`vector_store.py:110`): the model has one
  writer, the daemon.
* `orchestrate`, `resilient_orchestrate` and the arbitrator of
  `services/execute`, and the agent state buffer: no command calls them.
* The legion store: content-addressed files, where a lost save of the Bloom
  filter only makes a unit be compiled again (`services/compile/store.py:83`).
* Whether a torn JSON file parses by accident: a torn file never does.
* Two commands of the replicator that save the registry at the same instant write it
  one after the other. Files that the user edits and no hunk names.
* What happens inside one call on the lease reaper while another thread is in one:
  each call is a step.
* In `SovereignDo`, which commands the confidence lets try the local tier (any may);
  in `SovereignRun`, what the executors do.
* The modes of a legion run that start no worker (dry run, smoke, benchmark,
  local first): `Plan` starts the workers or ends the run.

## 7. Running

    tlc -workers 2 -config Lifetimes.cfg MCLifetimes.tla
    tlapm LifetimeProofs.tla

`PROJECT.json` names the module and the configuration of each run. The longest runs,
`services` and `asking`, take about three minutes on two cores, the longest proof,
`IndexWatchProofs`, about two.
