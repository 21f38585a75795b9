--------------------------- MODULE ProviderCalls ---------------------------
(***************************************************************************)
(* tools/citadel_provider_runner.py: the calls of the provider that a plan  *)
(* makes, and the rate limits around them.                                  *)
(*                                                                          *)
(* Each plan request is a thread of the UI server with a task of its own.   *)
(* run_plan calls the provider once, and once more after a timeout or a     *)
(* nonzero exit.  A call reads the usage file to check the limits, reads it *)
(* again to add itself, writes it back with write_text (truncate, then      *)
(* write) and only then runs.  There is no lock; a file that cannot be read *)
(* or does not parse counts as empty, and a write that fails is passed over. *)
(*                                                                          *)
(* Abstracted: time is an integer and an hour a number of ticks; the output *)
(* of a call is whether it is asked for again.                              *)
(***************************************************************************)
EXTENDS Naturals, Sequences, FiniteSets

CONSTANTS Callers,     \* request threads alive at once
          Tasks,       \* tasks planned; one plan each
          MaxPerTask, MaxPerHour,  \* the limits of the provider configuration
          Keep,        \* entries of hourly_calls that are kept (200)
          Hour, MaxTime, \* length of an hour; bound: the clock stops here
          MayCrash     \* the server may die and start again

NoTask == "none"

\* The limit can bind only if as many entries are kept.
ASSUME ProviderAssumption == /\ {MaxPerTask, MaxPerHour, Keep, Hour, MaxTime} \subseteq Nat
                             /\ MaxPerHour <= Keep /\ MayCrash \in BOOLEAN /\ NoTask \notin Tasks

VARIABLES now,     \* the clock
          usage,   \* the last content written: calls per task, times of the last calls
          torn,    \* the file does not parse
          stage,   \* caller -> where its thread stands
          task,    \* caller -> its task
          retry,   \* caller -> it is at its second call
          copy,    \* caller -> the content it is about to write
          disturbed, \* two callers have been active at once, the server died,
                     \* or the file could not be read or written (history)
          made     \* the calls made: [task, retry, time] (history)

threadVars == <<stage, task, retry, copy>>
providerVars == <<now, usage, torn, threadVars, disturbed, made>>

NoUsage == [calls |-> [t \in Tasks |-> 0], hourly |-> <<>>]

\* _load_usage: nothing is made of a torn file, nor of one that cannot be read.
Loads == {IF torn THEN NoUsage ELSE usage, NoUsage}
Misread(loaded) == ~torn /\ loaded # usage

\* The entries of the last hour: `t > now - 3600`.
Recent(times) == {i \in 1..Len(times) : times[i] + Hour > now}

\* A mutant of Allowed: one call too many in an hour.
AllowedPastHour(loaded, t) == /\ loaded.calls[t] < MaxPerTask
                              /\ Cardinality(Recent(loaded.hourly)) <= MaxPerHour

\* _check_rate_limits
Allowed(loaded, t) == /\ loaded.calls[t] < MaxPerTask
                      /\ Cardinality(Recent(loaded.hourly)) < MaxPerHour

ProviderInit == /\ now = 0 /\ usage = NoUsage /\ torn = FALSE /\ made = {} /\ disturbed = FALSE
                /\ stage = [c \in Callers |-> "idle"] /\ task = [c \in Callers |-> NoTask]
                /\ retry = [c \in Callers |-> FALSE] /\ copy = [c \in Callers |-> NoUsage]

Enter(c, p) == stage' = [stage EXCEPT ![c] = p]

Tick == now < MaxTime /\ now' = now + 1 /\ UNCHANGED <<usage, torn, threadVars, disturbed, made>>

\* run_plan of a new task starts its first call.
Begin(c, t) == /\ stage[c] = "idle" /\ t \notin {m.task : m \in made} \cup {task[d] : d \in Callers}
               /\ Enter(c, "checking") /\ task' = [task EXCEPT ![c] = t]
               /\ retry' = [retry EXCEPT ![c] = FALSE]
               /\ disturbed' = (disturbed \/ \E d \in Callers : stage[d] # "idle")
               /\ UNCHANGED <<now, usage, torn, copy, made>>

Finish(c) == /\ Enter(c, "idle") /\ task' = [task EXCEPT ![c] = NoTask]
             /\ retry' = [retry EXCEPT ![c] = FALSE] /\ copy' = [copy EXCEPT ![c] = NoUsage]

\* The limits are checked; a refused call ends the plan, blocked.
Check(c) == /\ stage[c] = "checking" /\ Enter(c, "recording")
            /\ \E loaded \in Loads : /\ Allowed(loaded, task[c])
                                    /\ disturbed' = (disturbed \/ Misread(loaded))
            /\ UNCHANGED <<now, usage, torn, task, retry, copy, made>>

Refuse(c) == /\ stage[c] = "checking" /\ Finish(c)
             /\ \E loaded \in Loads : /\ ~Allowed(loaded, task[c])
                                     /\ disturbed' = (disturbed \/ Misread(loaded))
             /\ UNCHANGED <<now, usage, torn, made>>

LastOf(s, n) == SubSeq(s, IF Len(s) > n THEN Len(s) - n + 1 ELSE 1, Len(s))

\* A mutant of WithCall: the call is entered twice.
WithCallTwice(loaded, t) == [calls |-> [loaded.calls EXCEPT ![t] = @ + 1],
                             hourly |-> LastOf(loaded.hourly \o <<now, now>>, Keep)]

WithCall(loaded, t) == [calls |-> [loaded.calls EXCEPT ![t] = @ + 1],
                        hourly |-> LastOf(Append(loaded.hourly, now), Keep)]

\* _record_call: the file is loaded again and the call added to the copy.
Record(c) ==
  /\ stage[c] = "recording" /\ Enter(c, "opening")
  /\ \E loaded \in Loads : /\ copy' = [copy EXCEPT ![c] = WithCall(loaded, task[c])]
                          /\ disturbed' = (disturbed \/ Misread(loaded))
  /\ UNCHANGED <<now, usage, torn, task, retry, made>>

\* The call runs, whatever became of its record.
Call(c) == /\ Enter(c, "calling")
           /\ made' = made \cup {[task |-> task[c], retry |-> retry[c],
                                  time |-> copy[c].hourly[Len(copy[c].hourly)]]}
           /\ UNCHANGED <<now, task, retry, copy>>

\* _save_usage opens the file and truncates it ...
Open(c) == /\ stage[c] = "opening" /\ Enter(c, "saving") /\ torn' = TRUE
           /\ UNCHANGED <<now, usage, task, retry, copy, disturbed, made>>

\* ... and writes it, over the longer text of a thread that wrote it meanwhile
\* perhaps.
Save(c) == /\ stage[c] = "saving" /\ Call(c)
           /\ \/ usage' = copy[c] /\ torn' = FALSE
              \/ ~torn /\ torn' = TRUE /\ UNCHANGED usage
           /\ UNCHANGED disturbed

\* `except OSError: pass`: the file could not be opened, or was opened and could
\* not be written.
SaveFails(c) == /\ stage[c] \in {"opening", "saving"} /\ Call(c)
                /\ disturbed' = TRUE
                /\ UNCHANGED <<usage, torn>>

\* The call returns; a first call that timed out or failed is made once more.
Return(c) ==
  /\ stage[c] = "calling"
  /\ \/ Finish(c)
     \/ /\ ~retry[c] /\ retry' = [retry EXCEPT ![c] = TRUE]
        /\ Enter(c, "checking") /\ UNCHANGED <<task, copy>>
  /\ UNCHANGED <<now, usage, torn, disturbed, made>>

\* The server dies and starts again: the threads are gone, the file stays.
Crash == /\ MayCrash /\ \E c \in Callers : stage[c] # "idle"
         /\ stage' = [c \in Callers |-> "idle"] /\ task' = [c \in Callers |-> NoTask]
         /\ retry' = [c \in Callers |-> FALSE] /\ copy' = [c \in Callers |-> NoUsage]
         /\ disturbed' = TRUE
         /\ UNCHANGED <<now, usage, torn, made>>

ProviderNext == \/ Tick \/ Crash
                \/ \E c \in Callers : \/ \E t \in Tasks : Begin(c, t)
                                      \/ Check(c) \/ Refuse(c) \/ Record(c) \/ Open(c)
                                      \/ Save(c) \/ SaveFails(c) \/ Return(c)

ProviderSpec == ProviderInit /\ [][ProviderNext]_providerVars

----------------------------------------------------------------------------
Usage == [calls : [Tasks -> Nat], hourly : Seq(Nat)]

ProviderTypeOK == /\ now \in 0..MaxTime /\ usage \in Usage /\ {torn, disturbed} \subseteq BOOLEAN
                  /\ stage \in [Callers -> {"idle", "checking", "recording", "opening", "saving", "calling"}]
                  /\ task \in [Callers -> Tasks \cup {NoTask}] /\ retry \in [Callers -> BOOLEAN]
                  /\ copy \in [Callers -> Usage]
                  /\ \A c \in Callers : task[c] = NoTask <=> stage[c] = "idle"

RecentCalls == {m \in made : m.time + Hour > now}

\* In no hour are more calls made than the limit says.
HourLimit == Cardinality(RecentCalls) <= MaxPerHour

\* No task is called for more often than its limit, the retry included.
TaskLimit == \A t \in Tasks : Cardinality({m \in made : m.task = t}) <= MaxPerTask

\* Both limits hold as long as plans never overlap, the server does not die
\* between a check and the call it allows, and the file can be read and written.
LimitsHoldAlone == ~disturbed => HourLimit /\ TaskLimit

\* With the types of usage and threads.
CallsAreLimited == ProviderTypeOK /\ LimitsHoldAlone

\* However updates are lost, the usage never holds a call that was not made: a
\* plan is refused only when one of the limits is really reached.
RefusalsAreEarned ==
  [][\A c \in Callers : Refuse(c) =>
       \/ Cardinality(RecentCalls) >= MaxPerHour
       \/ Cardinality({m \in made : m.task = task[c]}) >= MaxPerTask]_providerVars
=============================================================================
