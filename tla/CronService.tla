---------------------------- MODULE CronService ----------------------------
(***************************************************************************)
(* The scheduler of src/nanobot/cron/service.py: jobs in memory and in     *)
(* jobs.json, one timer task that sleeps until the earliest job, runs the  *)
(* due jobs one after another (each an agent turn, a long await), saves    *)
(* and arms itself again.  Tool calls of other turns add, remove and list  *)
(* jobs meanwhile, every change arms the timer anew and so cancels a tick  *)
(* that runs; another process (the CLI agent) may change jobs.json; the    *)
(* process may stop and start again.                                       *)
(***************************************************************************)
EXTENDS Naturals, FiniteSets

CONSTANTS
  Jobs,         \* the job ids; each is added once
  Kind,         \* the schedule of each: "at" (deleted after its run),
                \* "once" (at, kept and disabled), "every" (also cron)
  Period,       \* every_ms
  MaxTime,      \* bound: the clock stops here
  MaxChanges,   \* bound: changes by the cron tool or another process
  MayExternal,  \* another process changes jobs.json
  MaxStops      \* bound: stops of the process

ASSUME CronAssumption ==
  /\ Kind \in [Jobs -> {"at", "once", "every"}]
  /\ Period \in Nat \ {0}
  /\ MaxTime \in Nat \ {0}
  /\ {MaxChanges, MaxStops} \subseteq Nat
  /\ MayExternal \in BOOLEAN

VARIABLES
  now,
  mem,       \* _store: the jobs in memory
  file,      \* jobs.json
  dirty,     \* the file's mtime is not _last_mtime
  running,   \* the service has been started
  timer,     \* _timer_task
  born,      \* the ids used so far
  started,   \* history: how often on_job was called for each job
  completed, \* history: the due times for which on_job has returned
  changes,
  stops,
  outside     \* history: another process has changed the file

vars == <<now, mem, file, dirty, running, timer, born, started, completed, changes, stops, outside>>

-----------------------------------------------------------------------------
(* A job is absent or has an enabled flag, its at time and its next run; 0 *)
(* stands for None.                                                        *)

Absent == [enabled |-> FALSE, at |-> 0, next |-> 0, present |-> FALSE]
Job == [enabled : BOOLEAN, at : Nat, next : Nat, present : BOOLEAN]

\* _compute_next_run.
NextRun(j, at, t) ==
  IF Kind[j] = "every" THEN t + Period
  ELSE IF at > t THEN at ELSE 0

NewJob(j, at) == [enabled |-> TRUE, at |-> at, next |-> NextRun(j, at, now), present |-> TRUE]

Rescheduled(jobs, j) == [jobs[j] EXCEPT !.next = NextRun(j, jobs[j].at, now)]

Scheduled(jobs, j) == jobs[j].enabled /\ jobs[j].next # 0

Due(jobs) == {j \in Jobs : Scheduled(jobs, j) /\ now >= jobs[j].next}

\* _get_next_wake_ms, and the delay of _arm_timer cut off at 0.
Wakes(jobs) == {jobs[j].next : j \in {k \in Jobs : Scheduled(jobs, k)}}
Earliest(jobs) == CHOOSE w \in Wakes(jobs) : \A v \in Wakes(jobs) : w <= v
LaterOf(a, b) == IF a < b THEN b ELSE a

\* The timer task: its wake time; while it runs, the due times of the jobs it
\* has not finished, the one whose turn it awaits, and whether _store is still
\* the one it took them from.
NoTimer == [pc |-> "none", wake |-> 0, due |-> [j \in Jobs |-> 0], cur |-> {}, fresh |-> TRUE]

TypeOK ==
  /\ now \in 0 .. MaxTime
  /\ mem \in [Jobs -> Job] /\ file \in [Jobs -> Job]
  /\ {dirty, running} \subseteq BOOLEAN
  /\ timer \in [pc : {"none", "asleep", "running"}, wake : Nat, due : [Jobs -> Nat],
                cur : SUBSET Jobs, fresh : BOOLEAN]
  /\ Cardinality(timer.cur) <= 1
  /\ born \subseteq Jobs
  /\ started \in [Jobs -> Nat]
  /\ completed \in [Jobs -> SUBSET Nat]
  /\ changes \in 0 .. MaxChanges /\ stops \in 0 .. MaxStops /\ outside \in BOOLEAN

Init ==
  /\ now = 1
  /\ mem = [j \in Jobs |-> Absent] /\ file = mem
  /\ dirty = FALSE /\ running = FALSE /\ timer = NoTimer
  /\ born = {}
  /\ started = [j \in Jobs |-> 0]
  /\ completed = [j \in Jobs |-> {}]
  /\ changes = 0 /\ stops = 0 /\ outside = FALSE

-----------------------------------------------------------------------------
(* _load_store, _save_store, _arm_timer.                                   *)

\* Mutant: the change of the file is not noticed.
Cached == mem

\* A load while dirty replaces the job objects; _last_mtime stays as it was.
Loaded == IF dirty THEN file ELSE mem

Save(jobs) == mem' = jobs /\ file' = jobs /\ dirty' = FALSE

\* Mutant: a timer that is set stays as it is.
KeepTimer(jobs) ==
  timer' = IF timer.pc = "asleep" THEN timer
           ELSE IF Wakes(jobs) = {} THEN NoTimer
           ELSE [NoTimer EXCEPT !.pc = "asleep", !.wake = LaterOf(now, Earliest(jobs))]

\* The old timer task is cancelled, the tick it may be running included.
Arm(jobs) ==
  timer' = IF Wakes(jobs) = {} THEN NoTimer
           ELSE [NoTimer EXCEPT !.pc = "asleep", !.wake = LaterOf(now, Earliest(jobs))]

\* start(): every enabled job is scheduled afresh.
Start ==
  /\ ~running
  /\ running' = TRUE
  /\ LET jobs == [j \in Jobs |-> IF Loaded[j].enabled THEN Rescheduled(Loaded, j)
                                                     ELSE Loaded[j]]
     IN Save(jobs) /\ Arm(jobs)
  /\ UNCHANGED <<now, born, started, completed, changes, stops, outside>>

-----------------------------------------------------------------------------
(* The timer task.                                                         *)

Tick ==
  /\ now < MaxTime
  /\ now' = now + 1
  /\ UNCHANGED <<mem, file, dirty, running, timer, born, started, completed, changes, stops, outside>>

\* _on_timer up to the first job.
OnTimer ==
  /\ running /\ timer.pc = "asleep" /\ timer.wake <= now
  /\ mem' = Loaded
  /\ timer' = [NoTimer EXCEPT !.pc = "running",
                 !.due = [j \in Jobs |-> IF j \in Due(Loaded) THEN Loaded[j].next ELSE 0]]
  /\ UNCHANGED <<now, file, dirty, running, born, started, completed, changes, stops, outside>>

\* Mutant: the jobs are not awaited one after the other.
BeginJobAtOnce(j) ==
  /\ timer.due[j] # 0
  /\ timer' = [timer EXCEPT !.cur = @ \cup {j}]
  /\ started' = [started EXCEPT ![j] = @ + 1]
  /\ UNCHANGED <<now, mem, file, dirty, running, born, completed, changes, stops, outside>>

\* _execute_job calls on_job.
BeginJob(j) ==
  /\ timer.cur = {} /\ timer.due[j] # 0
  /\ timer' = [timer EXCEPT !.cur = {j}]
  /\ started' = [started EXCEPT ![j] = @ + 1]
  /\ UNCHANGED <<now, mem, file, dirty, running, born, completed, changes, stops, outside>>

\* What _execute_job makes of its job object, and of the store.
AfterRun(j) ==
  CASE Kind[j] = "at"    -> Absent
    [] Kind[j] = "once"  -> [mem[j] EXCEPT !.enabled = FALSE, !.next = 0]
    [] Kind[j] = "every" -> Rescheduled(mem, j)

\* Mutant: the next run of a recurring job is left as it was.
EndJobUnscheduled(j) ==
  /\ timer.cur = {j}
  /\ timer' = [timer EXCEPT !.cur = {}, !.due[j] = 0]
  /\ completed' = [completed EXCEPT ![j] = @ \cup {timer.due[j]}]
  /\ mem' = IF Kind[j] = "every" THEN mem ELSE [mem EXCEPT ![j] = AfterRun(j)]
  /\ UNCHANGED <<now, file, dirty, running, born, started, changes, stops, outside>>

\* on_job has returned or raised.  After a reload the job object is no longer
\* in the store, only the deletion by id still takes effect.
EndJob(j) ==
  /\ timer.cur = {j}
  /\ timer' = [timer EXCEPT !.cur = {}, !.due[j] = 0]
  /\ completed' = [completed EXCEPT ![j] = @ \cup {timer.due[j]}]
  /\ mem' = IF mem[j].present /\ (timer.fresh \/ Kind[j] = "at")
            THEN [mem EXCEPT ![j] = AfterRun(j)] ELSE mem
  /\ UNCHANGED <<now, file, dirty, running, born, started, changes, stops, outside>>

TickDone == timer.pc = "running" /\ timer.cur = {} /\ \A j \in Jobs : timer.due[j] = 0

\* Mutant: the timer is armed, the store is not saved.
EndTickUnsaved ==
  /\ TickDone
  /\ Arm(mem)
  /\ UNCHANGED <<now, mem, file, dirty, running, born, started, completed, changes, stops, outside>>

\* Mutant: the timer is not armed again.
EndTickUnarmed ==
  /\ TickDone
  /\ Save(mem) /\ timer' = NoTimer
  /\ UNCHANGED <<now, running, born, started, completed, changes, stops, outside>>

\* The end of _on_timer: the store in memory is written over the file.
EndTick ==
  /\ TickDone
  /\ Save(mem) /\ Arm(mem)
  /\ UNCHANGED <<now, running, born, started, completed, changes, stops, outside>>

-----------------------------------------------------------------------------
(* The public operations, called from turns that run beside the timer.     *)

MayChange == changes < MaxChanges /\ changes' = changes + 1

Change(jobs) ==
  /\ running /\ MayChange
  /\ Save(jobs) /\ Arm(jobs)
  /\ UNCHANGED <<now, running, started, completed, stops, outside>>

\* A time that has passed is accepted: the job has no next run.
AddJob(j, at) ==
  /\ j \notin born /\ born' = born \cup {j}
  /\ Change([Loaded EXCEPT ![j] = NewJob(j, at)])

RemoveJob(j) ==
  /\ Loaded[j].present
  /\ Change([Loaded EXCEPT ![j] = Absent])
  /\ UNCHANGED born

EnableJob(j, on) ==
  /\ Loaded[j].present
  /\ Change([Loaded EXCEPT ![j].enabled = on,
                           ![j].next = IF on THEN NextRun(j, Loaded[j].at, now) ELSE 0])
  /\ UNCHANGED born

\* list_jobs, status, and the operations above on an unknown id: a load only.
ListJobs ==
  /\ running /\ dirty
  /\ mem' = file
  /\ timer' = [timer EXCEPT !.fresh = FALSE]
  /\ UNCHANGED <<now, file, dirty, running, born, started, completed, changes, stops, outside>>

\* Another process loads, changes and saves the file.
External(jobs) ==
  /\ MayExternal /\ MayChange
  /\ file' = jobs
  /\ dirty' = TRUE /\ outside' = TRUE
  /\ UNCHANGED <<now, mem, running, timer, started, completed, stops>>

ExternalAdd(j, at) ==
  /\ j \notin born /\ born' = born \cup {j}
  /\ External([file EXCEPT ![j] = NewJob(j, at)])

ExternalDisable(j) ==
  /\ file[j].enabled
  /\ External([file EXCEPT ![j].enabled = FALSE, ![j].next = 0])
  /\ UNCHANGED born

ExternalRemove(j) ==
  /\ file[j].present
  /\ External([file EXCEPT ![j] = Absent])
  /\ UNCHANGED born

\* stop(), or the end of the process: the running tick is cancelled, memory
\* is gone.
Stop ==
  /\ running /\ stops < MaxStops
  /\ stops' = stops + 1
  /\ running' = FALSE /\ timer' = NoTimer
  /\ mem' = [j \in Jobs |-> Absent] /\ dirty' = TRUE
  /\ UNCHANGED <<now, file, born, started, completed, changes, outside>>

-----------------------------------------------------------------------------

TimerStep == OnTimer \/ EndTick \/ \E j \in Jobs : BeginJob(j) \/ EndJob(j)

Next ==
  \/ Tick \/ Start \/ Stop
  \/ TimerStep
  \/ \E j \in Jobs, at \in 1 .. MaxTime : AddJob(j, at) \/ ExternalAdd(j, at)
  \/ \E j \in Jobs : RemoveJob(j) \/ ExternalDisable(j) \/ ExternalRemove(j)
  \/ \E j \in Jobs, on \in BOOLEAN : EnableJob(j, on)
  \/ ListJobs

Spec == Init /\ [][Next]_vars

\* Time passes, the service is started again, the timer task goes on and a
\* job's turn ends (turn_timeout_s).
FairSpec == Spec /\ WF_vars(Tick) /\ WF_vars(Start) /\ WF_vars(TimerStep)

-----------------------------------------------------------------------------
(* Properties.                                                             *)

\* As long as no other process has changed the file: while the service runs
\* and a job is scheduled there is a timer task, and
\* if it sleeps, it does not sleep past the earliest job: no order of adding,
\* removing, enabling, ticking and cancelling forgets a job.
TimerCoversJobs ==
  running /\ ~outside /\ Wakes(mem) # {} =>
    /\ timer.pc # "none"
    /\ timer.pc = "asleep" => timer.wake <= LaterOf(now, Earliest(mem))

\* Outside a tick nothing is only in memory, unless another process has
\* written the file since.
SavedBetweenTicks == running /\ ~dirty /\ timer.pc # "running" => file = mem

\* A run that has completed is never started again for the same due time, by
\* no cancelled tick, restart or change of the store by this process.
CompletedNotRepeated ==
  ~outside => \A j \in timer.cur : timer.due[j] \notin completed[j]

\* Outside a tick the service never writes over what another process has put
\* into the file: each of its saves changes the one job it is about.
SaveKeepsOtherJobs ==
  [][running /\ running' /\ timer.pc # "running"
       => \A i, j \in Jobs : i # j => file'[i] = file[i] \/ file'[j] = file[j]]_vars

\* While the service runs no job stays due for good: with long turns,
\* cancelled ticks and changes it is run, changed or removed in the end, unless
\* another process takes part.
DueJobRuns ==
  \A j \in Jobs : []<>(outside \/ ~(running /\ j \in Due(mem)))

-----------------------------------------------------------------------------
(* What the documentation says and the code does not do.                   *)

\* The cron skill: a one-time job runs once, then it is deleted.
OneTimeRunsOnce == \A j \in Jobs : Kind[j] = "at" => started[j] <= 1
=============================================================================
