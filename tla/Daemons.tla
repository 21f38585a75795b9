------------------------------ MODULE Daemons ------------------------------
(***************************************************************************)
(* The life of a background daemon: `citadel up` (commands/up.py,           *)
(* commands/_runner.py start_daemon), `citadel down` (commands/down.py,     *)
(* commands/_daemons.py) and the daemon's own `--stop`.  They meet in the   *)
(* process table, the daemon's pidfile and its stop sentinel, and nothing   *)
(* locks any of them: a pid is checked, then used.                          *)
(*                                                                          *)
(* The daemons are independent of each other, so one of them is followed,   *)
(* of a kind chosen at the start: "brain" stands for the daemons that watch *)
(* a sentinel (brain, bug record, zombie worker), "miner" for the one whose *)
(* sentinel `down` touches as well, "cache" for those that stop on SIGTERM  *)
(* (RAM cache, git history, workspace intelligence), "embedder" for the one *)
(* that neither list of `down` names.                                       *)
(*                                                                          *)
(* Abstracted: a process group is its leader; writing a pidfile is one      *)
(* step; every process that is not the daemon is a stranger; the other work *)
(* of `up` (indexes, lint, UI server) touches none of this state.           *)
(***************************************************************************)
EXTENDS FiniteSets, Naturals

CONSTANTS Pids,      \* the process ids the system hands out, again and again
          Commands,  \* terminals and hooks that run commands
          NoPid,     \* no pid
          MaxJobs    \* commands that are run: bounds the behaviours

ASSUME DaemonsAssumption == NoPid \notin Pids /\ MaxJobs \in Nat

Kinds == {"brain", "miner", "cache", "embedder"}
Listed == {"brain", "miner", "cache"}      \* down._DAEMONS
Scanned == {"brain", "miner", "cache"}     \* _daemons.Citadel_DAEMON_STEMS
OnSentinel == {"brain", "miner", "embedder"}
Touched == {"miner"}

VARIABLES kind,     \* the kind of the daemon followed
          proc,     \* pid -> what runs under it: "free", "stranger", or where the
                    \* daemon stands: "spawned", "noted", "running", "leaving", "cleaning"
          pidfile,  \* the pid in the daemon's pidfile
          stop,     \* its stop sentinel exists
          cmd,      \* command -> where it stands, on which pids
          jobs,     \* commands begun
          alone,    \* since the last command began: no other was under way, and what it
                    \* scanned it saw (history)
          calm      \* every command was alone and ran to its end since the start, or
                    \* since one that sweeps the processes of this kind did (history)

system == <<kind, proc, pidfile, stop>>
history == <<alone, calm>>
vars == <<system, cmd, jobs, history>>

Jobs == {"up", "down", "restart", "stop"}
Stages == {"none", "first", "stray"}

Live(p) == proc[p] \notin {"free", "stranger"}
Active(c) == cmd[c].at # "idle"

----------------------------------------------------------------------------
Init ==
  /\ kind \in Kinds
  /\ proc = [p \in Pids |-> "free"] /\ pidfile = NoPid /\ stop = FALSE
  /\ cmd = [c \in Commands |-> [job |-> "stop", at |-> "idle", stage |-> "none", on |-> {},
                                spared |-> {}, got |-> NoPid]]
  /\ jobs = 0
  /\ alone = TRUE /\ calm = TRUE

\* A command starts.  `down` first touches the miner's sentinel, running or not.
Begin(c, job) ==
  /\ ~Active(c) /\ jobs < MaxJobs /\ jobs' = jobs + 1
  /\ cmd' = [cmd EXCEPT ![c] =
       [job |-> job, at |-> CASE job = "up" -> "scan" [] job = "stop" -> "ask" [] OTHER -> "read",
        stage |-> "none", on |-> {}, spared |-> {}, got |-> NoPid]]
  /\ stop' = (stop \/ (job \in {"down", "restart"} /\ kind \in Touched))
  /\ alone' = (\A d \in Commands : ~Active(d)) /\ calm' = (calm /\ alone')
  /\ UNCHANGED <<kind, proc, pidfile>>

Goto(c, place) == cmd' = [cmd EXCEPT ![c].at = place]

\* down.run reads the pidfile of a daemon it lists; it does not ask whose pid it is.
ReadPid(c) ==
  /\ cmd[c].at = "read"
  /\ IF kind \in Listed /\ pidfile # NoPid
     THEN cmd' = [cmd EXCEPT ![c].at = "signal", ![c].stage = "first",
                             ![c].on = {pidfile}, ![c].spared = {pidfile}]
     ELSE Goto(c, "scan")
  /\ UNCHANGED <<system, jobs, history>>

\* What SIGTERM makes of a process: the cache kind catches it once it serves, the
\* others die on the spot, without their `finally`.
Struck(p) == IF kind = "cache" /\ proc[p] \in {"noted", "running", "leaving", "cleaning"}
             THEN IF proc[p] \in {"noted", "running"} THEN "leaving" ELSE proc[p]
             ELSE "free"

\* terminate_many: every pid there is gets its SIGTERM.
Signal(c) ==
  /\ cmd[c].at = "signal"
  /\ cmd' = [cmd EXCEPT ![c].at = "reap", ![c].on = {p \in @ : proc[p] # "free"}]
  /\ proc' = [p \in Pids |-> IF p \in cmd[c].on THEN Struck(p) ELSE proc[p]]
  /\ UNCHANGED <<kind, pidfile, stop, jobs, history>>

\* The scan is over: `down` is done, one that restarts goes on as an `up`.
Swept(m) == [m EXCEPT !.job = IF m.job = "restart" THEN "up" ELSE m.job, !.spared = {},
                      !.at = CASE m.job = "down" -> "end" [] m.job = "restart" -> "scan"
                               [] OTHER -> "start"]

Reaped(m) == IF m.stage = "first" THEN [m EXCEPT !.at = "unlink"] ELSE Swept(m)

\* A mutant of Kill: nobody is killed after the grace.
KillPolitely(c) ==
  /\ cmd[c].at = "reap"
  /\ cmd' = [cmd EXCEPT ![c] = Reaped(@)]
  /\ UNCHANGED <<system, jobs, history>>

\* After the shared grace whoever still holds one of those pids gets SIGKILL.
Kill(c) ==
  /\ cmd[c].at = "reap"
  /\ proc' = [p \in Pids |-> IF p \in cmd[c].on THEN "free" ELSE proc[p]]
  /\ cmd' = [cmd EXCEPT ![c] = Reaped(@)]
  /\ UNCHANGED <<kind, pidfile, stop, jobs, history>>

\* down removes the pidfile, whatever it holds by now; the scan spares the pid it held.
Unlink(c) ==
  /\ cmd[c].at = "unlink" /\ pidfile' = NoPid /\ Goto(c, "scan")
  /\ UNCHANGED <<kind, proc, stop, jobs, history>>

\* find_citadel_daemon_procs: by command line, machine-wide; nothing if `ps` fails.
Scan(c) ==
  /\ cmd[c].at = "scan"
  /\ \E seen \in {{}, {p \in Pids : Live(p) /\ kind \in Scanned} \ cmd[c].spared} :
       /\ cmd' = [cmd EXCEPT ![c] =
            IF seen = {} THEN Swept(@) ELSE [@ EXCEPT !.at = "signal", !.stage = "stray", !.on = seen]]
       /\ alone' = (alone /\ \A p \in Pids : Live(p) /\ kind \in Scanned => p \in seen \cup cmd[c].spared)
       /\ calm' = (calm /\ alone')
  /\ UNCHANGED <<system, jobs>>

\* A mutant of Recognized: a daemon that was asked to stop does not count.
RecognizedUnasked == pidfile # NoPid /\ Live(pidfile) /\ ~stop

\* start_daemon: the pid in the pidfile is alive and its command line is the daemon's.
Recognized == pidfile # NoPid /\ Live(pidfile)

\* start_daemon keeps the daemon it recognizes.
Keep(c) == /\ cmd[c].at = "start" /\ Recognized
           /\ cmd' = [cmd EXCEPT ![c].at = "end", ![c].got = pidfile]
           /\ UNCHANGED <<system, jobs, history>>

\* Otherwise it starts one ...
Spawn(c) == /\ cmd[c].at = "start" /\ ~Recognized
            /\ \E p \in Pids : /\ proc[p] = "free"
                               /\ proc' = [proc EXCEPT ![p] = "spawned"]
                               /\ cmd' = [cmd EXCEPT ![c].at = "note", ![c].got = p]
            /\ UNCHANGED <<kind, pidfile, stop, jobs, history>>

\* ... and notes its pid.
Note(c) == /\ cmd[c].at = "note" /\ pidfile' = cmd[c].got /\ Goto(c, "end")
           /\ UNCHANGED <<kind, proc, stop, jobs, history>>

\* --stop: the sentinel is written, or the pid in the pidfile gets SIGTERM, whose
\* ever it is; a pidfile without a process is removed.
Ask(c) ==
  /\ cmd[c].at = "ask" /\ Goto(c, "end")
  /\ IF kind \in OnSentinel THEN stop' = TRUE /\ UNCHANGED <<proc, pidfile>>
     ELSE /\ IF pidfile = NoPid THEN UNCHANGED <<proc, pidfile>>
             ELSE IF proc[pidfile] = "free" THEN pidfile' = NoPid /\ UNCHANGED proc
             ELSE proc' = [proc EXCEPT ![pidfile] = Struck(pidfile)] /\ UNCHANGED pidfile
          /\ UNCHANGED stop
  /\ UNCHANGED <<kind, jobs, history>>

\* The command returns; one that is interrupted just stops where it is.
End(c) == /\ cmd[c].at = "end" /\ Goto(c, "idle")
          /\ calm' = (alone /\ (calm \/ (kind \in Scanned /\ cmd[c].job # "stop")))
          /\ UNCHANGED <<system, jobs, alone>>
Interrupt(c) == /\ Active(c) /\ cmd[c].at # "end" /\ Goto(c, "idle")
                /\ calm' = FALSE
                /\ UNCHANGED <<system, jobs, alone>>

Step(c) == \/ ReadPid(c) \/ Signal(c) \/ Kill(c) \/ Unlink(c) \/ Scan(c)
           \/ Keep(c) \/ Spawn(c) \/ Note(c) \/ Ask(c) \/ End(c)

----------------------------------------------------------------------------
\* The daemon writes its own pid ...
WritePid(p) ==
  /\ proc[p] = "spawned" /\ pidfile' = p /\ proc' = [proc EXCEPT ![p] = "noted"]
  /\ UNCHANGED <<kind, stop, cmd, jobs, history>>

\* ... removes the sentinel of an earlier stop, and serves.
Serve(p) ==
  /\ proc[p] = "noted" /\ proc' = [proc EXCEPT ![p] = "running"]
  /\ stop' = (stop /\ kind \notin OnSentinel)
  /\ UNCHANGED <<kind, pidfile, cmd, jobs, history>>

\* Its loop sees the sentinel.
NoticeStop(p) ==
  /\ proc[p] = "running" /\ kind \in OnSentinel /\ stop
  /\ proc' = [proc EXCEPT ![p] = "leaving"]
  /\ UNCHANGED <<kind, pidfile, stop, cmd, jobs, history>>

\* On its way out: a sentinel daemon removes the pidfile, whoever wrote it; the cache
\* kind looks first whether it is its own.
Leave(p) ==
  /\ proc[p] = "leaving"
  /\ IF kind \in OnSentinel
     THEN pidfile' = NoPid /\ proc' = [proc EXCEPT ![p] = "cleaning"]
     ELSE proc' = [proc EXCEPT ![p] = IF pidfile = p THEN "cleaning" ELSE "free"] /\ UNCHANGED pidfile
  /\ UNCHANGED <<kind, stop, cmd, jobs, history>>

\* Then it removes the sentinel, or the pidfile that was its own, and is gone.
Exit(p) ==
  /\ proc[p] = "cleaning" /\ proc' = [proc EXCEPT ![p] = "free"]
  /\ IF kind \in OnSentinel THEN stop' = FALSE /\ UNCHANGED pidfile
     ELSE pidfile' = NoPid /\ UNCHANGED stop
  /\ UNCHANGED <<kind, cmd, jobs, history>>

DaemonStep(p) == WritePid(p) \/ Serve(p) \/ NoticeStop(p) \/ Leave(p) \/ Exit(p)

\* A daemon is killed from outside; an unrelated process gets a pid, and gives it back.
Crash(p) == /\ Live(p) /\ proc' = [proc EXCEPT ![p] = "free"]
            /\ UNCHANGED <<kind, pidfile, stop, cmd, jobs, history>>
Reuse(p) == /\ proc[p] = "free" /\ proc' = [proc EXCEPT ![p] = "stranger"]
            /\ UNCHANGED <<kind, pidfile, stop, cmd, jobs, history>>
Release(p) == /\ proc[p] = "stranger" /\ proc' = [proc EXCEPT ![p] = "free"]
              /\ UNCHANGED <<kind, pidfile, stop, cmd, jobs, history>>

Next == \/ \E c \in Commands : Step(c) \/ Interrupt(c) \/ \E job \in Jobs : Begin(c, job)
        \/ \E p \in Pids : DaemonStep(p) \/ Crash(p) \/ Reuse(p) \/ Release(p)

Spec == Init /\ [][Next]_vars

----------------------------------------------------------------------------
Places == {"idle", "read", "signal", "reap", "unlink", "scan", "start", "note", "ask", "end"}
Command == [job : Jobs, at : Places, stage : Stages,
            on : SUBSET Pids, spared : SUBSET Pids, got : Pids \cup {NoPid}]

TypeOK ==
  /\ kind \in Kinds
  /\ proc \in [Pids -> {"free", "stranger", "spawned", "noted", "running", "leaving", "cleaning"}]
  /\ pidfile \in Pids \cup {NoPid} /\ stop \in BOOLEAN
  /\ cmd \in [Commands -> Command] /\ jobs \in 0..MaxJobs
  /\ alone \in BOOLEAN /\ calm \in BOOLEAN

\* As long as commands do not overlap there is one daemon: `up` finds the one there
\* is, whatever crashed, was asked to stop or reused its pid; and after commands did
\* overlap or were interrupted, the sweep of the next one makes it so again.
SingleDaemon ==
  calm => \A p, q \in Pids : /\ Live(p) /\ proc[p] # "cleaning"
                              /\ Live(q) /\ proc[q] # "cleaning" => p = q

\* Likewise the daemon that serves is the one in its pidfile, so that the next
\* command finds it: no dying predecessor has removed it.
RunningIsTracked == calm => \A p \in Pids : proc[p] = "running" => pidfile = p

\* There is at most one daemon, and the pidfile leads to it.
OneTrackedDaemon == TypeOK /\ SingleDaemon /\ RunningIsTracked

\* A `down` that nothing overlapped leaves none of the daemons it knows, caught in
\* whatever state, tracked or not.
DownLeavesNone ==
  \A c \in Commands : alone /\ cmd[c].at = "end" /\ cmd[c].job = "down" /\ kind \in Scanned =>
    \A p \in Pids : ~Live(p)
=============================================================================
