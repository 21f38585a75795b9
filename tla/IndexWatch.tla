----------------------------- MODULE IndexWatch -----------------------------
(***************************************************************************)
(* tools/workspace_intelligence_daemon.py: it watches the files and starts  *)
(* a builder of IndexBuild, by the events of watchdog if it is installed,   *)
(* by polling otherwise.  Others start builders as well.                    *)
(*                                                                          *)
(* A rebuild blocks the daemon, in either mode, until the builder ends or   *)
(* is killed after 120 seconds; events queue up meanwhile.                  *)
(***************************************************************************)
EXTENDS IndexBuild

CONSTANT Daemon     \* the builder that the daemon runs

ASSUME WatchAssumption == Daemon \in Builders

VARIABLES mode,     \* "off", "watchdog" or "poll"
          seen,     \* poll: the mtimes of the last round
          pending,  \* poll: a change waits for the debounce to pass
          events,   \* watchdog: files with an event to be handled
          lately,   \* watchdog: the last trigger is less than the interval ago
          missed    \* files that changed and that no build will be started for:
                    \* before the daemon was, or their event was dropped or never
                    \* came, or the build failed or passed them over, or no round
                    \* saw the change; until some build catches up (history)

watchVars == <<mode, seen, pending, events, lately>>
vars == <<buildVars, watchVars, missed>>

Init == /\ BuildInit
        /\ mode = "off" /\ seen = None /\ pending = FALSE
        /\ events = {} /\ lately = FALSE /\ missed = {}

\* The last build has seen f as it is, and none under way has seen it otherwise.
Caught(f) == /\ Vouched(f)
             /\ \A b \in Builders : bld[b].at \in {"parse", "index", "prints"} => bld[b].scan[f] = disk[f]

Behind == {f \in Files : ~Caught(f)}

Free == At(Daemon, "idle")

Start ==
  /\ mode = "off" /\ Free
  /\ \/ mode' = "watchdog" /\ UNCHANGED seen
     \/ mode' = "poll" /\ seen' = disk
  /\ missed' = missed \cup Behind
  /\ UNCHANGED <<buildVars, pending, events, lately>>

\* The daemon ends, or is killed; its builder goes on.
Stop ==
  /\ mode # "off" /\ mode' = "off"
  /\ seen' = None /\ pending' = FALSE /\ events' = {} /\ lately' = FALSE
  /\ UNCHANGED <<buildVars, missed>>

\* Polling cannot tell a file that came and went between two rounds.  An event counts
\* by its src_path: that of an atomic save is the temporary file, and there is none for
\* a repository made after the observer was.
Edit(f) ==
  /\ Change(f)
  /\ \/ /\ mode = "watchdog" /\ events' = events \cup {f} /\ UNCHANGED missed
     \/ /\ mode = "watchdog" \/ (mode = "poll" /\ disk'[f] = seen[f])
        /\ missed' = missed \cup (Behind' \cap {f}) /\ UNCHANGED events
     \/ /\ mode = "off" \/ (mode = "poll" /\ disk'[f] # seen[f])
        /\ UNCHANGED <<events, missed>>
  /\ UNCHANGED <<mode, seen, pending, lately>>

Rebuild == At(Daemon, "idle") /\ Begin(Daemon)

\* on_any_event: an event within the interval of the last trigger is dropped.
Handle(f) ==
  /\ mode = "watchdog" /\ Free /\ f \in events /\ events' = events \ {f}
  /\ \/ ~lately /\ Rebuild /\ lately' = TRUE /\ UNCHANGED missed
     \/ lately /\ missed' = missed \cup (Behind \cap {f}) /\ UNCHANGED <<buildVars, lately>>
  /\ UNCHANGED <<mode, seen, pending>>

\* The interval passes.
Pass == /\ lately /\ lately' = FALSE
        /\ UNCHANGED <<buildVars, mode, seen, pending, events, missed>>

\* A mutant of Poll: only files that come or go count as a difference.
PollNames ==
  /\ mode = "poll" /\ Free /\ seen # disk
  /\ seen' = disk /\ pending' = (pending \/ \E f \in Files : (disk[f] = 0) # (seen[f] = 0))
  /\ UNCHANGED <<buildVars, mode, events, lately, missed>>

\* A round of _poll_loop with a difference ...
Poll ==
  /\ mode = "poll" /\ Free /\ seen # disk
  /\ seen' = disk /\ pending' = TRUE
  /\ UNCHANGED <<buildVars, mode, events, lately, missed>>

\* ... and one without, half an interval after the last difference.
Trigger ==
  /\ mode = "poll" /\ seen = disk /\ pending /\ pending' = FALSE
  /\ Rebuild
  /\ UNCHANGED <<mode, seen, events, lately, missed>>

\* The files that are there and that a builder has just not found.
Overlooked == {f \in Files : \E b \in Builders : (NoRepos(b) \/ Scan(b)) /\ bld'[b].scan[f] # disk[f]}

\* That the builder of the daemon gave up, failed or was killed is only logged.
Lost == IF GiveUp(Daemon) \/ Fail(Daemon) \/ Die(Daemon) THEN Behind' ELSE {}

\* A builder goes on.
Build ==
  /\ \E b \in Builders : BuildStep(b) \/ (b # Daemon /\ Begin(b))
  /\ missed' = (missed \cup Overlooked \cup Lost) \cap Behind'
  /\ UNCHANGED watchVars

Next == \/ Start \/ Stop \/ Pass \/ Poll \/ Trigger \/ Build
        \/ \E f \in Files : Edit(f) \/ Handle(f)

Spec == Init /\ [][Next]_vars

----------------------------------------------------------------------------
TypeOK == /\ BuildTypeOK
          /\ mode \in {"off", "watchdog", "poll"} /\ seen \in [Files -> Stamps]
          /\ pending \in BOOLEAN /\ events \subseteq Files /\ lately \in BOOLEAN
          /\ missed \subseteq Files

\* The daemon has nothing more to do about f.
Quiet(f) == /\ Free
            /\ \/ mode = "poll" /\ ~pending /\ seen[f] = disk[f]
               \/ mode = "watchdog" /\ f \notin events

\* When the daemon has come to rest over a file, its record is that of the file, or an
\* error, unless the daemon is known to have missed the change: however edits, rounds,
\* events, manual builds, lock waits, failures and kills interleave.
QuietIndexIsCurrent ==
  \A f \in Files : Quiet(f) => Recorded(f) \/ f \in missed \cup cut \/ mixed

\* With the types of index, builders and daemon.
RecordsAreSound == TypeOK /\ RecordsAreCurrent
=============================================================================
