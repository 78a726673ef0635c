-------------------------- MODULE CronServiceProofs --------------------------
(***************************************************************************)
(* Theorems about CronService, for any jobs, schedules, period and bounds: *)
(* no job is forgotten by the timer, what a tick has completed is not      *)
(* repeated, and a save changes only the job it is about.                  *)
(***************************************************************************)
EXTENDS CronService, FiniteSetTheorems, NatLemmas

\* What the jobs of a store are: absent ones are switched off.
JobsOK(jobs) == jobs \in [Jobs -> Job] /\ \A j \in Jobs : jobs[j].enabled => jobs[j].present

Timer == [pc : {"none", "asleep", "running"}, wake : Nat, due : [Jobs -> Nat],
          cur : SUBSET Jobs, fresh : BOOLEAN]

\* A tick awaits at most one of its jobs, and only jobs that were due.
TickOK ==
  /\ timer \in Timer
  /\ timer.cur = {} \/ \E j \in Jobs : timer.cur = {j}
  /\ timer.pc # "running" => timer.cur = {} /\ \A j \in Jobs : timer.due[j] = 0
  /\ \A j \in timer.cur : timer.due[j] # 0
  /\ \A j \in Jobs : timer.due[j] <= now

\* The type invariant with what the steps of the timer need.
TypeInv ==
  /\ now \in 1 .. MaxTime
  /\ JobsOK(mem) /\ JobsOK(file)
  /\ dirty \in BOOLEAN /\ running \in BOOLEAN /\ outside \in BOOLEAN
  /\ TickOK
  /\ born \subseteq Jobs
  /\ started \in [Jobs -> Nat]
  /\ completed \in [Jobs -> SUBSET Nat]
  /\ changes \in 0 .. MaxChanges /\ stops \in 0 .. MaxStops

\* Nothing is completed before it was due.
CompletedIsPast == \A j \in Jobs : \A d \in completed[j] : d <= now

\* Without another process the store in memory is the one the tick began
\* with, and neither the tick nor the store holds a due time that has been
\* completed.
AloneInv ==
  ~outside =>
    /\ running => ~dirty
    /\ timer.fresh
    /\ \A j \in Jobs : timer.due[j] # 0 => timer.due[j] \notin completed[j]
    /\ \A j \in Jobs : Scheduled(mem, j) => mem[j].next \notin completed[j]

-----------------------------------------------------------------------------
(* The helpers.                                                            *)

LEMMA Bounds ==
  MaxTime \in Nat /\ MaxTime >= 1 /\ MaxChanges \in Nat /\ MaxStops \in Nat
BY CronAssumption DEF CronAssumption

LEMMA LaterOfType ==
  ASSUME NEW a \in Nat, NEW b \in Nat
  PROVE  /\ LaterOf(a, b) \in Nat
         /\ LaterOf(a, b) <= LaterOf(a + 1, b)
BY DEF LaterOf

\* The next run of a job is in the future, or there is none.
LEMMA NextRunIsLater ==
  ASSUME CronAssumption, NEW j \in Jobs, NEW at \in Nat, NEW t \in Nat
  PROVE  /\ NextRun(j, at, t) \in Nat
         /\ NextRun(j, at, t) # 0 => NextRun(j, at, t) > t
BY DEF CronAssumption, NextRun

\* With a job scheduled there is an earliest one.
LEMMA EarliestType ==
  ASSUME NEW jobs \in [Jobs -> Job], Wakes(jobs) # {}
  PROVE  Earliest(jobs) \in Nat /\ Earliest(jobs) \in Wakes(jobs)
<1>1. Wakes(jobs) \in SUBSET Nat
  BY DEF Wakes, Job
<1>2. \E w \in Wakes(jobs) : \A v \in Wakes(jobs) : w <= v
  BY <1>1, LeastNumber
<1> QED BY <1>1, <1>2 DEF Earliest

LEMMA ArmedTimer ==
  ASSUME NEW jobs \in [Jobs -> Job], now \in Nat, Arm(jobs)
  PROVE  /\ timer' \in Timer
         /\ timer'.pc # "running" /\ timer'.cur = {} /\ timer'.fresh
         /\ \A j \in Jobs : timer'.due[j] = 0
         /\ Wakes(jobs) # {} => timer'.pc = "asleep" /\ timer'.wake = LaterOf(now, Earliest(jobs))
<1>1. CASE Wakes(jobs) = {}
  BY <1>1 DEF Arm, NoTimer, Timer
<1>2. CASE Wakes(jobs) # {}
  <2> DEFINE wake == LaterOf(now, Earliest(jobs))
  <2>1. wake \in Nat
    BY <1>2, EarliestType, LaterOfType
  <2>2. timer' = [pc |-> "asleep", wake |-> wake, due |-> [j \in Jobs |-> 0], cur |-> {},
                  fresh |-> TRUE]
    BY <1>2, Zenon DEF Arm, NoTimer
  <2> HIDE DEF wake
  <2>3. timer' \in Timer
    BY <2>1, <2>2 DEF Timer
  <2>4. timer'.wake = wake /\ timer'.pc = "asleep" /\ timer'.cur = {} /\ timer'.fresh
        /\ \A j \in Jobs : timer'.due[j] = 0
    BY <2>2
  <2> QED BY <2>3, <2>4 DEF wake
<1> QED BY <1>1, <1>2

-----------------------------------------------------------------------------
(* Types.                                                                  *)

LEMMA LoadedOK == TypeInv => JobsOK(Loaded)
BY DEF TypeInv, Loaded

\* One job of a store may be replaced.
LEMMA ReplacedOK ==
  ASSUME NEW jobs, JobsOK(jobs), NEW j \in Jobs, NEW job \in Job, job.enabled => job.present
  PROVE  JobsOK([jobs EXCEPT ![j] = job])
BY DEF JobsOK

LEMMA NewJobOK ==
  ASSUME CronAssumption, now \in Nat, NEW j \in Jobs, NEW at \in Nat
  PROVE  NewJob(j, at) \in Job /\ NewJob(j, at).present
BY NextRunIsLater DEF NewJob, Job

LEMMA RescheduledOK ==
  ASSUME CronAssumption, now \in Nat, NEW jobs, JobsOK(jobs), NEW j \in Jobs
  PROVE  /\ Rescheduled(jobs, j) \in Job
         /\ Rescheduled(jobs, j).enabled = jobs[j].enabled
         /\ Rescheduled(jobs, j).present = jobs[j].present
         /\ Rescheduled(jobs, j).next = NextRun(j, jobs[j].at, now)
<1>1. jobs[j] \in Job /\ jobs[j].at \in Nat
  BY DEF JobsOK, Job
<1> QED BY <1>1, NextRunIsLater DEF Rescheduled, Job

\* An armed timer is that of no tick.
LEMMA ArmedOK ==
  ASSUME TypeInv, NEW jobs, JobsOK(jobs), Arm(jobs), now' = now
  PROVE  TickOK'
<1>1. now \in Nat
  BY CronAssumption DEF TypeInv, CronAssumption
<1>2. /\ timer' \in Timer
      /\ timer'.pc # "running" /\ timer'.cur = {}
      /\ \A j \in Jobs : timer'.due[j] = 0
  BY <1>1, ArmedTimer DEF JobsOK
<1> QED BY <1>1, <1>2 DEF TickOK

\* What a change of the store does to the types.
LEMMA ChangeTypes ==
  ASSUME TypeInv, NEW jobs, JobsOK(jobs), Change(jobs), born' \subseteq Jobs
  PROVE  TypeInv'
<1>1. TickOK'
  BY ArmedOK DEF Change
<1>2. changes' \in 0 .. MaxChanges
  BY CronAssumption DEF Change, MayChange, CronAssumption, TypeInv
<1> QED BY <1>1, <1>2 DEF Change, Save, TypeInv, JobsOK

LEMMA ExternalTypes ==
  ASSUME TypeInv, NEW jobs, JobsOK(jobs), External(jobs), born' \subseteq Jobs
  PROVE  TypeInv'
<1>1. changes' \in 0 .. MaxChanges
  BY CronAssumption DEF External, MayChange, CronAssumption, TypeInv
<1> QED BY <1>1 DEF External, TypeInv, JobsOK, TickOK

LEMMA InitTypes == Init => TypeInv
<1> SUFFICES ASSUME Init PROVE TypeInv
  OBVIOUS
<1>1. JobsOK(mem) /\ JobsOK(file)
  BY DEF Init, JobsOK, Job, Absent
<1>2. TickOK
  BY DEF Init, TickOK, NoTimer, Timer
<1>3. dirty \in BOOLEAN /\ running \in BOOLEAN /\ outside \in BOOLEAN
  BY Zenon DEF Init
<1>4. started \in [Jobs -> Nat] /\ completed \in [Jobs -> SUBSET Nat] /\ born \subseteq Jobs
  BY DEF Init
<1>5. now \in 1 .. MaxTime /\ changes \in 0 .. MaxChanges /\ stops \in 0 .. MaxStops
  BY Bounds DEF Init
<1> QED BY <1>1, <1>2, <1>3, <1>4, <1>5, Zenon DEF TypeInv

LEMMA JobRecord ==
  ASSUME NEW on \in BOOLEAN, NEW at \in Nat, NEW next \in Nat, NEW there \in BOOLEAN
  PROVE  [enabled |-> on, at |-> at, next |-> next, present |-> there] \in Job
BY DEF Job

\* An ended job leaves a job, or nothing, in its place.
\* A job that is switched on or off keeps its schedule.
LEMMA SwitchedJob ==
  ASSUME NEW old \in Job, NEW on \in BOOLEAN, NEW next \in Nat
  PROVE  [old EXCEPT !.enabled = on, !.next = next]
           = [enabled |-> on, at |-> old.at, next |-> next, present |-> old.present]
<1>1. PICK job : job = [old EXCEPT !.enabled = on, !.next = next]
  OBVIOUS
<1>2. job = [enabled |-> on, at |-> old.at, next |-> next, present |-> old.present]
  BY <1>1 DEF Job
<1> QED BY <1>1, <1>2

LEMMA AfterRunOK ==
  ASSUME TypeInv, NEW j \in Jobs
  PROVE  AfterRun(j) \in Job /\ (AfterRun(j).enabled => AfterRun(j).present)
<1>1. now \in Nat /\ mem[j] \in Job /\ (mem[j].enabled => mem[j].present)
  BY Bounds DEF TypeInv, JobsOK
<1>2. CASE Kind[j] = "at"
  BY <1>2 DEF AfterRun, Absent, Job
<1>3. CASE Kind[j] = "once"
  <2> DEFINE job == mem[j]
  <2>0. job \in Job /\ AfterRun(j) = [job EXCEPT !.enabled = FALSE, !.next = 0]
    BY <1>1, <1>3 DEF AfterRun
  <2> HIDE DEF job
  <2>1. AfterRun(j) = [enabled |-> FALSE, at |-> job.at, next |-> 0, present |-> job.present]
    BY <2>0 DEF Job
  <2>2. job.at \in Nat /\ job.present \in BOOLEAN /\ 0 \in Nat
    BY <2>0 DEF Job
  <2>3. [enabled |-> FALSE, at |-> job.at, next |-> 0, present |-> job.present] \in Job
    BY <2>2, JobRecord
  <2>4. ~AfterRun(j).enabled
    BY <2>1
  <2> QED BY <2>1, <2>3, <2>4
<1>4. CASE Kind[j] = "every"
  <2>1. AfterRun(j) = Rescheduled(mem, j)
    BY <1>4 DEF AfterRun
  <2> QED BY <1>1, <2>1, CronAssumption, RescheduledOK DEF TypeInv
<1> QED BY <1>2, <1>3, <1>4, CronAssumption DEF CronAssumption

\* The timer when a job of its tick has ended.
LEMMA EndedTimer ==
  ASSUME NEW t \in Timer, NEW j \in Jobs, NEW u, u = [t EXCEPT !.cur = {}, !.due[j] = 0]
  PROVE  /\ u \in Timer
         /\ u.pc = t.pc /\ u.cur = {} /\ u.fresh = t.fresh
         /\ u.due = [t.due EXCEPT ![j] = 0]
<1>1. u = [pc |-> t.pc, wake |-> t.wake, due |-> [t.due EXCEPT ![j] = 0], cur |-> {},
           fresh |-> t.fresh]
  BY DEF Timer
<1> QED BY <1>1 DEF Timer

LEMMA NextTypes == TypeInv /\ [Next]_vars => TypeInv'
<1> SUFFICES ASSUME TypeInv, [Next]_vars PROVE TypeInv'
  OBVIOUS
<1>0. now \in Nat /\ JobsOK(Loaded)
  BY Bounds, LoadedOK DEF TypeInv
<1>1. CASE Tick
  BY <1>1, <1>0, Bounds DEF Tick, TypeInv, TickOK, JobsOK, Timer
<1>2. CASE Start
  <2> DEFINE jobs == [j \in Jobs |-> IF Loaded[j].enabled THEN Rescheduled(Loaded, j) ELSE Loaded[j]]
  <2>1. JobsOK(jobs)
    BY <1>0, CronAssumption, RescheduledOK DEF JobsOK
  <2>2. Save(jobs) /\ Arm(jobs) /\ now' = now /\ running' = TRUE
    BY <1>2 DEF Start
  <2> HIDE DEF jobs
  <2>3. TickOK'
    BY <2>1, <2>2, ArmedOK
  <2> QED BY <1>2, <2>1, <2>2, <2>3 DEF Start, Save, TypeInv, JobsOK
<1>3. CASE Stop
  <2>1. TickOK' /\ JobsOK(mem)'
    BY <1>3, <1>0 DEF Stop, TickOK, NoTimer, Timer, JobsOK, Job, Absent
  <2>2. stops' \in 0 .. MaxStops
    BY <1>3, Bounds DEF Stop, TypeInv
  <2> QED BY <1>3, <2>1, <2>2 DEF Stop, TypeInv, JobsOK
<1>4. CASE OnTimer
  <2> DEFINE due == [j \in Jobs |-> IF j \in Due(Loaded) THEN Loaded[j].next ELSE 0]
  <2>1. timer' = [pc |-> "running", wake |-> 0, due |-> due, cur |-> {}, fresh |-> TRUE]
    BY <1>4, Zenon DEF OnTimer, NoTimer
  <2>2. due \in [Jobs -> Nat] /\ \A j \in Jobs : due[j] <= now
    BY <1>0 DEF Due, JobsOK, Job
  <2>3. now' = now
    BY <1>4 DEF OnTimer
  <2> HIDE DEF due
  <2>4. TickOK'
    BY <2>1, <2>2, <2>3 DEF TickOK, Timer
  <2> QED BY <1>4, <1>0, <2>4 DEF OnTimer, TypeInv, JobsOK
<1>5. CASE EndTick
  <2>1. TickOK'
    BY <1>5, ArmedOK DEF EndTick, TypeInv
  <2> QED BY <1>5, <2>1 DEF EndTick, Save, TypeInv, JobsOK
<1>6. ASSUME NEW j \in Jobs, BeginJob(j) PROVE TypeInv'
  <2>1. TickOK'
    BY <1>6 DEF BeginJob, TypeInv, TickOK, Timer
  <2>2. started' \in [Jobs -> Nat]
    BY <1>6 DEF BeginJob, TypeInv
  <2> QED BY <1>6, <2>1, <2>2 DEF BeginJob, TypeInv, JobsOK
<1>7. ASSUME NEW j \in Jobs, EndJob(j) PROVE TypeInv'
  <2>1. TickOK'
    <3>1. timer \in Timer /\ timer' = [timer EXCEPT !.cur = {}, !.due[j] = 0] /\ now' = now
      BY <1>7 DEF EndJob, TypeInv, TickOK
    <3>2. /\ timer' \in Timer /\ timer'.pc = timer.pc /\ timer'.cur = {}
          /\ timer'.due = [timer.due EXCEPT ![j] = 0]
      BY <3>1, EndedTimer
    <3> QED BY <1>0, <3>1, <3>2 DEF TypeInv, TickOK, Timer
  <2>2. completed' \in [Jobs -> SUBSET Nat]
    BY <1>7 DEF EndJob, TypeInv, TickOK, Timer
  <2>3. JobsOK(mem)'
    <3>1. JobsOK(mem) /\ JobsOK([mem EXCEPT ![j] = AfterRun(j)])
      BY AfterRunOK, ReplacedOK DEF TypeInv
    <3>2. mem' = mem \/ mem' = [mem EXCEPT ![j] = AfterRun(j)]
      BY <1>7 DEF EndJob
    <3> QED BY <3>1, <3>2 DEF JobsOK
  <2> QED BY <1>7, <2>1, <2>2, <2>3 DEF EndJob, TypeInv, JobsOK
<1>8. ASSUME NEW j \in Jobs, NEW at \in 1 .. MaxTime, AddJob(j, at) PROVE TypeInv'
  <2>1. NewJob(j, at) \in Job /\ NewJob(j, at).present
    BY <1>0, Bounds, CronAssumption, NewJobOK
  <2>2. JobsOK([Loaded EXCEPT ![j] = NewJob(j, at)])
    BY <1>0, <2>1, ReplacedOK
  <2> QED BY <1>8, <2>2, ChangeTypes DEF AddJob, TypeInv
<1>9. ASSUME NEW j \in Jobs, NEW at \in 1 .. MaxTime, ExternalAdd(j, at) PROVE TypeInv'
  <2>1. NewJob(j, at) \in Job /\ NewJob(j, at).present
    BY <1>0, Bounds, CronAssumption, NewJobOK
  <2>2. JobsOK([file EXCEPT ![j] = NewJob(j, at)])
    BY <2>1, ReplacedOK DEF TypeInv
  <2> QED BY <1>9, <2>2, ExternalTypes DEF ExternalAdd, TypeInv
<1>10. ASSUME NEW j \in Jobs, RemoveJob(j) PROVE TypeInv'
  <2>1. Absent \in Job /\ ~Absent.enabled
    BY DEF Absent, Job
  <2>2. JobsOK([Loaded EXCEPT ![j] = Absent])
    BY <1>0, <2>1, ReplacedOK
  <2> QED BY <1>10, <2>2, ChangeTypes DEF RemoveJob, TypeInv
<1>11. ASSUME NEW j \in Jobs, ExternalRemove(j) PROVE TypeInv'
  <2>1. Absent \in Job /\ ~Absent.enabled
    BY DEF Absent, Job
  <2>2. JobsOK([file EXCEPT ![j] = Absent])
    BY <2>1, ReplacedOK DEF TypeInv
  <2> QED BY <1>11, <2>2, ExternalTypes DEF ExternalRemove, TypeInv
<1>12. ASSUME NEW j \in Jobs, ExternalDisable(j) PROVE TypeInv'
  <2>1. JobsOK([file EXCEPT ![j].enabled = FALSE, ![j].next = 0])
    BY DEF TypeInv, JobsOK, Job
  <2> QED BY <1>12, <2>1, ExternalTypes DEF ExternalDisable, TypeInv
<1>13. ASSUME NEW j \in Jobs, NEW on \in BOOLEAN, EnableJob(j, on) PROVE TypeInv'
  <2> DEFINE next == IF on THEN NextRun(j, Loaded[j].at, now) ELSE 0
  <2>1. next \in Nat
    BY <1>0, CronAssumption, NextRunIsLater DEF JobsOK, Job
  <2> HIDE DEF next
  <2>2. Loaded[j].present
    BY <1>13 DEF EnableJob
  <2>3. JobsOK([Loaded EXCEPT ![j].enabled = on, ![j].next = next])
    BY <1>0, <2>1, <2>2 DEF JobsOK, Job
  <2> QED BY <1>13, <2>3, ChangeTypes DEF EnableJob, TypeInv, next
<1>14. CASE ListJobs
  <2>1. TickOK'
    BY <1>14 DEF ListJobs, TypeInv, TickOK, Timer
  <2> QED BY <1>14, <2>1 DEF ListJobs, TypeInv, JobsOK
<1>15. CASE UNCHANGED vars
  BY <1>15 DEF vars, TypeInv, JobsOK, TickOK
<1> QED BY <1>1, <1>2, <1>3, <1>4, <1>5, <1>6, <1>7, <1>8, <1>9, <1>10, <1>11, <1>12, <1>13,
           <1>14, <1>15 DEF Next, TimerStep

\* Every variable of the scheduler keeps its type, and a tick awaits at most
\* one of its jobs, in every reachable state.
THEOREM TypesAlways == Spec => []TypeInv
BY InitTypes, NextTypes, PTL DEF Spec

-----------------------------------------------------------------------------
(* What has been completed.                                                *)

LEMMA PastPreserved == TypeInv /\ CompletedIsPast /\ [Next]_vars => CompletedIsPast'
<1> SUFFICES ASSUME TypeInv, CompletedIsPast, [Next]_vars PROVE CompletedIsPast'
  OBVIOUS
<1>0. now \in Nat /\ completed \in [Jobs -> SUBSET Nat]
  BY Bounds DEF TypeInv
<1>1. CASE Tick
  BY <1>1, <1>0 DEF Tick, CompletedIsPast
<1>2. ASSUME NEW j \in Jobs, EndJob(j) PROVE CompletedIsPast'
  <2>1. timer.due[j] <= now
    BY DEF TypeInv, TickOK
  <2> QED BY <1>2, <1>0, <2>1 DEF EndJob, CompletedIsPast
<1>3. CASE UNCHANGED <<now, completed>>
  BY <1>3 DEF CompletedIsPast
<1>4. ASSUME ~Tick, \A j \in Jobs : ~EndJob(j) PROVE UNCHANGED <<now, completed>>
  BY <1>4 DEF Next, TimerStep, Start, Stop, OnTimer, EndTick, BeginJob, AddJob, ExternalAdd,
              RemoveJob, ExternalDisable, ExternalRemove, EnableJob, ListJobs, Change, External, vars
<1> QED BY <1>1, <1>2, <1>3, <1>4

\* The next run that a change gives a job has not been completed.
LEMMA NextRunIsNew ==
  ASSUME TypeInv, CompletedIsPast, NEW j \in Jobs, NEW at \in Nat,
         NextRun(j, at, now) # 0
  PROVE  NextRun(j, at, now) \notin completed[j]
<1>1. now \in Nat /\ completed[j] \subseteq Nat
  BY Bounds DEF TypeInv
<1>2. NextRun(j, at, now) \in Nat /\ NextRun(j, at, now) > now
  BY <1>1, CronAssumption, NextRunIsLater
<1> QED BY <1>1, <1>2 DEF CompletedIsPast

\* No store that is saved alone holds a due time that has been completed.
New(jobs) == \A j \in Jobs : Scheduled(jobs, j) => jobs[j].next \notin completed[j]

LEMMA ArmedAlone ==
  ASSUME TypeInv, NEW jobs, JobsOK(jobs), New(jobs), Save(jobs), Arm(jobs),
         UNCHANGED <<now, completed>>
  PROVE  AloneInv'
<1>1. now \in Nat /\ jobs \in [Jobs -> Job]
  BY Bounds DEF TypeInv, JobsOK
<1>2. timer'.fresh /\ \A j \in Jobs : timer'.due[j] = 0
  BY <1>1, ArmedTimer
<1>3. mem' = jobs /\ ~dirty'
  BY DEF Save
<1>4. New(mem)'
  BY <1>3 DEF New, Scheduled
<1> QED BY <1>2, <1>3, <1>4 DEF AloneInv, New

\* One job is given a next run, or none.
LEMMA ReplacedNew ==
  ASSUME TypeInv, CompletedIsPast, NEW jobs, JobsOK(jobs), New(jobs), NEW j \in Jobs, NEW job \in Job,
         job.enabled => \E at \in Nat : job.next = NextRun(j, at, now)
  PROVE  New([jobs EXCEPT ![j] = job])
<1>1. ASSUME NEW i \in Jobs, Scheduled([jobs EXCEPT ![j] = job], i), i # j
      PROVE  [jobs EXCEPT ![j] = job][i].next \notin completed[i]
  BY <1>1 DEF New, Scheduled, JobsOK
<1>2. Scheduled([jobs EXCEPT ![j] = job], j) => job.next \notin completed[j]
  BY NextRunIsNew DEF Scheduled, JobsOK
<1> QED BY <1>1, <1>2 DEF New, JobsOK

LEMMA AlonePreserved ==
  TypeInv /\ CompletedIsPast /\ AloneInv /\ [Next]_vars => AloneInv'
<1> SUFFICES ASSUME TypeInv, CompletedIsPast, AloneInv, [Next]_vars, ~outside' PROVE AloneInv'
  BY DEF AloneInv
<1>0. now \in Nat /\ JobsOK(Loaded) /\ completed \in [Jobs -> SUBSET Nat]
  BY Bounds, LoadedOK DEF TypeInv
<1>a. ~outside
  BY DEF Next, TimerStep, Tick, Start, Stop, OnTimer, EndTick, BeginJob, EndJob, AddJob, ExternalAdd,
         RemoveJob, ExternalDisable, ExternalRemove, EnableJob, ListJobs, Change, External, vars
<1>b. New(mem) /\ timer.fresh /\ (running => Loaded = mem)
  BY <1>a DEF AloneInv, New, Loaded
<1>1. CASE Tick
  BY <1>1 DEF Tick, AloneInv, Scheduled
<1>2. CASE Start
  <2> DEFINE jobs == [j \in Jobs |-> IF Loaded[j].enabled THEN Rescheduled(Loaded, j) ELSE Loaded[j]]
  <2>1. JobsOK(jobs)
    BY <1>0, CronAssumption, RescheduledOK DEF JobsOK
  <2>2. New(jobs)
    <3> SUFFICES ASSUME NEW j \in Jobs, Scheduled(jobs, j) PROVE jobs[j].next \notin completed[j]
      BY DEF New
    <3>1. Loaded[j].enabled
      BY DEF Scheduled
    <3>2. jobs[j].next = NextRun(j, Loaded[j].at, now) /\ jobs[j].next # 0
      BY <1>0, <3>1, CronAssumption, RescheduledOK DEF Scheduled
    <3>3. Loaded[j].at \in Nat
      BY <1>0 DEF JobsOK, Job
    <3> QED BY <3>2, <3>3, NextRunIsNew
  <2>3. Save(jobs) /\ Arm(jobs) /\ UNCHANGED <<now, completed>>
    BY <1>2 DEF Start
  <2> QED BY <2>1, <2>2, <2>3, ArmedAlone
<1>3. CASE Stop
  BY <1>3 DEF Stop, AloneInv, NoTimer, Scheduled, Absent
<1>4. CASE OnTimer
  <2> DEFINE due == [j \in Jobs |-> IF j \in Due(Loaded) THEN Loaded[j].next ELSE 0]
  <2>1. timer' = [pc |-> "running", wake |-> 0, due |-> due, cur |-> {}, fresh |-> TRUE]
    BY <1>4, Zenon DEF OnTimer, NoTimer
  <2>2. Loaded = mem /\ mem' = mem /\ running /\ UNCHANGED <<dirty, running, completed>>
    BY <1>4, <1>b DEF OnTimer
  <2>3. \A j \in Jobs : due[j] # 0 => due[j] \notin completed[j]
    BY <2>2, <1>b DEF Due, New
  <2> HIDE DEF due
  <2>4. timer'.fresh /\ timer'.due = due
    BY <2>1
  <2> QED BY <1>a, <1>b, <2>2, <2>3, <2>4 DEF AloneInv, New, Scheduled
<1>5. CASE EndTick
  <2>1. JobsOK(mem) /\ Save(mem) /\ Arm(mem) /\ UNCHANGED <<now, completed>>
    BY <1>5 DEF EndTick, TypeInv
  <2> QED BY <1>b, <2>1, ArmedAlone
<1>6. ASSUME NEW j \in Jobs, BeginJob(j) PROVE AloneInv'
  BY <1>6, <1>a DEF BeginJob, AloneInv, Scheduled, TypeInv, TickOK, Timer
<1>7. ASSUME NEW j \in Jobs, EndJob(j) PROVE AloneInv'
  <2>1. timer \in Timer /\ timer' = [timer EXCEPT !.cur = {}, !.due[j] = 0]
    BY <1>7 DEF EndJob, TypeInv, TickOK
  <2>2. timer'.fresh /\ timer'.due = [timer.due EXCEPT ![j] = 0]
    BY <2>1, <1>b, EndedTimer
  <2>3. \A i \in Jobs : timer'.due[i] # 0 => timer'.due[i] \notin completed'[i]
    BY <1>7, <1>0, <1>a, <2>1, <2>2 DEF EndJob, AloneInv, Timer
  <2>4. timer.due[j] <= now /\ timer.due[j] \in Nat
    BY <2>1 DEF Timer, TypeInv, TickOK
  <2>5. Scheduled(mem', j) => mem'[j].next \notin completed'[j]
    <3> SUFFICES ASSUME Scheduled(mem', j) PROVE mem'[j].next \notin completed'[j]
      OBVIOUS
    <3>1. mem[j] \in Job /\ (mem[j].enabled => mem[j].present) /\ JobsOK(mem)
      BY DEF TypeInv, JobsOK
    <3>2. CASE ~mem[j].present
      BY <3>1, <3>2, <1>7 DEF EndJob, Scheduled
    <3>3. CASE mem[j].present
      <4>1. mem'[j] = AfterRun(j)
        BY <3>3, <1>7, <1>b, <3>1 DEF EndJob, JobsOK
      <4>2. Kind[j] = "every"
        <5>1. CASE Kind[j] = "at"
          BY <4>1, <5>1 DEF AfterRun, Scheduled, Absent
        <5>2. CASE Kind[j] = "once"
          BY <4>1, <5>2, <3>1 DEF AfterRun, Scheduled, Job
        <5> QED BY <5>1, <5>2, CronAssumption DEF CronAssumption
      <4>3. mem'[j].next = NextRun(j, mem[j].at, now)
        BY <4>1, <4>2, <1>0, <3>1, CronAssumption, RescheduledOK DEF AfterRun
      <4>4. mem'[j].next = now + Period
        BY <4>2, <4>3 DEF NextRun
      <4>5. now + Period > now
        BY <1>0, CronAssumption DEF CronAssumption
      <4>6. completed'[j] = completed[j] \cup {timer.due[j]}
        BY <1>7, <1>0 DEF EndJob
      <4> QED BY <1>0, <2>4, <4>4, <4>5, <4>6, CronAssumption DEF CompletedIsPast, CronAssumption
    <3> QED BY <3>2, <3>3
  <2>6. \A i \in Jobs \ {j} : Scheduled(mem', i) => mem'[i].next \notin completed'[i]
    BY <1>7, <1>0, <1>b DEF EndJob, New, Scheduled, TypeInv, JobsOK
  <2>7. UNCHANGED <<running, dirty>>
    BY <1>7 DEF EndJob
  <2> QED BY <1>a, <2>2, <2>3, <2>5, <2>6, <2>7 DEF AloneInv
<1>8. ASSUME NEW j \in Jobs, NEW at \in 1 .. MaxTime, AddJob(j, at) PROVE AloneInv'
  <2>1. NewJob(j, at) \in Job /\ NewJob(j, at).present /\ at \in Nat
    BY <1>0, Bounds, CronAssumption, NewJobOK
  <2>2. NewJob(j, at).next = NextRun(j, at, now)
    BY DEF NewJob
  <2>3. running /\ Change([Loaded EXCEPT ![j] = NewJob(j, at)])
    BY <1>8 DEF AddJob, Change
  <2>4. /\ JobsOK([Loaded EXCEPT ![j] = NewJob(j, at)])
        /\ New([Loaded EXCEPT ![j] = NewJob(j, at)])
    BY <1>0, <1>b, <2>1, <2>2, <2>3, ReplacedOK, ReplacedNew
  <2> QED BY <2>3, <2>4, ArmedAlone DEF Change
<1>9. ASSUME NEW j \in Jobs, RemoveJob(j) PROVE AloneInv'
  <2>1. Absent \in Job /\ ~Absent.enabled
    BY DEF Absent, Job
  <2>2. running /\ Change([Loaded EXCEPT ![j] = Absent])
    BY <1>9 DEF RemoveJob, Change
  <2>3. JobsOK([Loaded EXCEPT ![j] = Absent]) /\ New([Loaded EXCEPT ![j] = Absent])
    BY <1>0, <1>b, <2>1, <2>2, ReplacedOK, ReplacedNew
  <2> QED BY <2>2, <2>3, ArmedAlone DEF Change
<1>10. ASSUME NEW j \in Jobs, NEW on \in BOOLEAN, EnableJob(j, on) PROVE AloneInv'
  <2> DEFINE next == IF on THEN NextRun(j, Loaded[j].at, now) ELSE 0
             old == Loaded[j]
             job == [old EXCEPT !.enabled = on, !.next = next]
  <2>1. next \in Nat /\ old \in Job /\ Loaded[j].at \in Nat
    BY <1>0, CronAssumption, NextRunIsLater DEF JobsOK, Job
  <2>2. Loaded[j].present /\ running
    BY <1>10 DEF EnableJob, Change
  <2>3. on => next = NextRun(j, Loaded[j].at, now)
    OBVIOUS
  <2>4. Change([Loaded EXCEPT ![j].enabled = on, ![j].next = next])
    BY <1>10 DEF EnableJob
  <2> HIDE DEF next
  <2>5. [Loaded EXCEPT ![j].enabled = on, ![j].next = next] = [Loaded EXCEPT ![j] = job]
    BY <1>0 DEF JobsOK
  <2>6. old.present
    BY <2>2
  <2> HIDE DEF old
  <2>7. job = [enabled |-> on, at |-> old.at, next |-> next, present |-> old.present]
    BY <2>1, SwitchedJob
  <2>8. old.at \in Nat /\ old.present \in BOOLEAN
    BY <2>1 DEF Job
  <2> HIDE DEF job
  <2>9. job \in Job /\ job.next = next /\ job.enabled = on /\ job.present
    BY <2>1, <2>6, <2>7, <2>8, JobRecord
  <2>10. JobsOK([Loaded EXCEPT ![j] = job]) /\ New([Loaded EXCEPT ![j] = job])
    BY <1>0, <1>b, <2>1, <2>2, <2>3, <2>9, ReplacedOK, ReplacedNew
  <2> QED BY <2>4, <2>5, <2>10, ArmedAlone DEF Change
<1>11. CASE ListJobs
  BY <1>11, <1>a DEF ListJobs, AloneInv
<1>12. CASE UNCHANGED vars
  BY <1>12, <1>a DEF vars, AloneInv, Scheduled
<1>13. \A j \in Jobs, at \in 1 .. MaxTime : ~ExternalAdd(j, at)
  BY DEF ExternalAdd, External
<1>14. \A j \in Jobs : ~ExternalRemove(j) /\ ~ExternalDisable(j)
  BY DEF ExternalRemove, ExternalDisable, External
<1> QED BY <1>1, <1>2, <1>3, <1>4, <1>5, <1>6, <1>7, <1>8, <1>9, <1>10, <1>11, <1>12, <1>13,
           <1>14 DEF Next, TimerStep

-----------------------------------------------------------------------------
(* The properties.                                                         *)

LEMMA CoversPreserved ==
  TypeInv /\ AloneInv /\ TimerCoversJobs /\ [Next]_vars => TimerCoversJobs'
<1> SUFFICES ASSUME TypeInv, AloneInv, TimerCoversJobs, [Next]_vars,
                    running', ~outside', Wakes(mem') # {}
             PROVE  /\ timer'.pc # "none"
                    /\ timer'.pc = "asleep" => timer'.wake <= LaterOf(now', Earliest(mem'))
  BY DEF TimerCoversJobs, Wakes, Scheduled, Earliest
<1>0. now \in Nat /\ JobsOK(Loaded) /\ timer \in Timer /\ mem \in [Jobs -> Job]
  BY Bounds, LoadedOK DEF TypeInv, TickOK, JobsOK
<1>a. ~outside
  BY DEF Next, TimerStep, Tick, Start, Stop, OnTimer, EndTick, BeginJob, EndJob, AddJob, ExternalAdd,
         RemoveJob, ExternalDisable, ExternalRemove, EnableJob, ListJobs, Change, External, vars
<1>1. CASE Tick
  <2>1. Wakes(mem) # {} /\ mem' = mem /\ timer' = timer /\ running /\ now' = now + 1
    BY <1>1 DEF Tick
  <2>2. Earliest(mem) \in Nat
    BY <1>0, <2>1, EarliestType
  <2>3. LaterOf(now, Earliest(mem)) <= LaterOf(now + 1, Earliest(mem))
        /\ LaterOf(now, Earliest(mem)) \in Nat /\ LaterOf(now + 1, Earliest(mem)) \in Nat
    BY <1>0, <2>2 DEF LaterOf
  <2>4. timer.pc # "none" /\ (timer.pc = "asleep" => timer.wake <= LaterOf(now, Earliest(mem)))
    BY <1>a, <2>1 DEF TimerCoversJobs
  <2>5. timer.wake \in Nat /\ Earliest(mem') = Earliest(mem)
    BY <1>0, <2>1 DEF Timer
  <2> QED BY <2>1, <2>3, <2>4, <2>5
<1>2. ASSUME NEW jobs, JobsOK(jobs), mem' = jobs, Arm(jobs), now' = now
      PROVE  timer'.pc = "asleep" /\ timer'.wake <= LaterOf(now', Earliest(mem'))
  <2>1. jobs \in [Jobs -> Job] /\ Wakes(jobs) # {}
    BY <1>2 DEF JobsOK
  <2>2. timer'.pc = "asleep" /\ timer'.wake = LaterOf(now, Earliest(jobs))
    BY <1>0, <1>2, <2>1, ArmedTimer
  <2>3. LaterOf(now, Earliest(jobs)) \in Nat
    BY <1>0, <2>1, EarliestType, LaterOfType
  <2> QED BY <1>2, <2>2, <2>3
<1>3. ASSUME TypeInv', timer'.pc = timer.pc, timer.pc = "running"
      PROVE  timer'.pc # "none" /\ timer'.pc # "asleep"
  BY <1>3
<1>4. TypeInv'
  BY NextTypes
<1>5. JobsOK(mem)' /\ JobsOK(mem')
  BY <1>4 DEF TypeInv, JobsOK
<1>6. CASE Start \/ EndTick
  <2>1. Arm(mem') /\ now' = now
    BY <1>6, Zenon DEF Start, EndTick, Save
  <2> QED BY <1>2, <1>5, <2>1
<1>7. CASE Stop
  BY <1>7 DEF Stop
<1>8. CASE OnTimer
  BY <1>8 DEF OnTimer, NoTimer
<1>9. ASSUME NEW j \in Jobs, BeginJob(j) \/ EndJob(j)
      PROVE  timer'.pc = timer.pc /\ timer.pc = "running"
  BY <1>9, <1>0 DEF BeginJob, EndJob, Timer, TypeInv, TickOK
<1>10. ASSUME NEW jobs, Change(jobs) PROVE Arm(mem') /\ now' = now
  BY <1>10, Zenon DEF Change, Save
<1>11. ASSUME NEW j \in Jobs,
              \/ \E at \in 1 .. MaxTime : AddJob(j, at)
              \/ RemoveJob(j)
              \/ \E on \in BOOLEAN : EnableJob(j, on)
       PROVE  Arm(mem') /\ now' = now
  BY <1>10, <1>11 DEF AddJob, RemoveJob, EnableJob
<1>12. CASE ListJobs
  BY <1>12, <1>a DEF ListJobs, AloneInv
<1>13. ASSUME NEW j \in Jobs PROVE /\ ~ExternalRemove(j) /\ ~ExternalDisable(j)
                                  /\ \A at \in 1 .. MaxTime : ~ExternalAdd(j, at)
  BY DEF ExternalRemove, ExternalDisable, ExternalAdd, External
<1>14. CASE UNCHANGED vars
  BY <1>14, <1>a DEF vars, TimerCoversJobs
<1> QED BY <1>1, <1>2, <1>4, <1>5, <1>6, <1>7, <1>8, <1>9, <1>11, <1>12, <1>13, <1>14
        DEF Next, TimerStep

\* While the service runs alone and a job is scheduled, there is a timer task
\* that does not sleep past the earliest job, however adding, removing,
\* enabling, ticking and cancelling follow each other (service.py, _arm_timer).
THEOREM NoJobForgotten == Spec => []TimerCoversJobs
<1>1. Init => TypeInv /\ CompletedIsPast /\ AloneInv /\ TimerCoversJobs
  BY InitTypes DEF Init, CompletedIsPast, AloneInv, TimerCoversJobs, NoTimer, Scheduled, Absent
<1>2. TypeInv /\ CompletedIsPast /\ AloneInv /\ TimerCoversJobs /\ [Next]_vars
        => (TypeInv /\ CompletedIsPast /\ AloneInv /\ TimerCoversJobs)'
  BY NextTypes, PastPreserved, AlonePreserved, CoversPreserved
<1> QED BY <1>1, <1>2, PTL DEF Spec

LEMMA SavedPreserved ==
  TypeInv /\ SavedBetweenTicks /\ [Next]_vars => SavedBetweenTicks'
<1> SUFFICES ASSUME TypeInv, SavedBetweenTicks, [Next]_vars, running', ~dirty', timer'.pc # "running"
             PROVE  file' = mem'
  BY DEF SavedBetweenTicks
<1>1. CASE Tick
  BY <1>1 DEF Tick, SavedBetweenTicks
<1>2. CASE Start \/ EndTick
  <2>1. ASSUME NEW jobs, Save(jobs) PROVE file' = mem'
    BY <2>1 DEF Save
  <2>2. CASE Start
    <3> DEFINE jobs == [j \in Jobs |-> IF Loaded[j].enabled THEN Rescheduled(Loaded, j)
                                                            ELSE Loaded[j]]
    <3>1. Save(jobs)
      BY <2>2 DEF Start
    <3> QED BY <2>1, <3>1
  <2>3. CASE EndTick
    BY <2>1, <2>3 DEF EndTick
  <2> QED BY <1>2, <2>2, <2>3
<1>3. CASE Stop
  BY <1>3 DEF Stop
<1>4. CASE OnTimer
  BY <1>4 DEF OnTimer, NoTimer
<1>5. ASSUME NEW j \in Jobs, BeginJob(j) \/ EndJob(j) PROVE FALSE
  <2>1. timer'.pc = timer.pc /\ timer.pc = "running"
    BY <1>5 DEF BeginJob, EndJob, Timer, TypeInv, TickOK
  <2> QED BY <2>1
<1>6. ASSUME NEW jobs, Change(jobs) PROVE file' = mem'
  BY <1>6 DEF Change, Save
<1>7. ASSUME NEW jobs PROVE ~External(jobs)
  BY DEF External
<1>8. CASE ListJobs
  BY <1>8 DEF ListJobs
<1>9. CASE UNCHANGED vars
  BY <1>9 DEF vars, SavedBetweenTicks
<1> QED BY <1>1, <1>2, <1>3, <1>4, <1>5, <1>6, <1>7, <1>8, <1>9
        DEF Next, TimerStep, AddJob, RemoveJob, EnableJob, ExternalAdd, ExternalRemove, ExternalDisable

\* Outside a tick nothing is only in memory, unless another process has
\* written jobs.json since (service.py, _save_store).
THEOREM AllSavedBetweenTicks == Spec => []SavedBetweenTicks
<1>1. Init => TypeInv /\ SavedBetweenTicks
  BY InitTypes DEF Init, SavedBetweenTicks
<1>2. TypeInv /\ SavedBetweenTicks /\ [Next]_vars => (TypeInv /\ SavedBetweenTicks)'
  BY NextTypes, SavedPreserved
<1> QED BY <1>1, <1>2, PTL DEF Spec

\* A due time whose run has returned is never run again, by no cancelled tick,
\* restart or change of the store by this process (service.py, _execute_job).
THEOREM NoRunRepeated == Spec => []CompletedNotRepeated
<1>1. Init => TypeInv /\ CompletedIsPast /\ AloneInv
  BY InitTypes DEF Init, CompletedIsPast, AloneInv, NoTimer, Scheduled, Absent
<1>2. TypeInv /\ CompletedIsPast /\ AloneInv /\ [Next]_vars
        => (TypeInv /\ CompletedIsPast /\ AloneInv)'
  BY NextTypes, PastPreserved, AlonePreserved
<1>3. TypeInv /\ AloneInv => CompletedNotRepeated
  BY DEF TypeInv, TickOK, Timer, AloneInv, CompletedNotRepeated
<1> QED BY <1>1, <1>2, <1>3, PTL DEF Spec

\* One step outside a tick changes at most one job of the file.
OneJobSaved ==
  running /\ running' /\ timer.pc # "running"
    => \A i, j \in Jobs : i # j => file'[i] = file[i] \/ file'[j] = file[j]

LEMMA StepSavesOneJob ==
  TypeInv /\ SavedBetweenTicks /\ [Next]_vars => OneJobSaved
<1> SUFFICES ASSUME TypeInv, SavedBetweenTicks, [Next]_vars, running, running', timer.pc # "running"
             PROVE  \A i, j \in Jobs : i # j => file'[i] = file[i] \/ file'[j] = file[j]
  BY DEF OneJobSaved
<1>0. Loaded = file /\ file \in [Jobs -> Job]
  BY DEF Loaded, SavedBetweenTicks, TypeInv, JobsOK
<1> DEFINE Only(k) == \A i \in Jobs : i # k => file'[i] = file[i]
<1>1. ASSUME NEW k \in Jobs, Only(k)
      PROVE  \A i, j \in Jobs : i # j => file'[i] = file[i] \/ file'[j] = file[j]
  BY <1>1
<1>2. ASSUME NEW k \in Jobs, NEW at \in 1 .. MaxTime, AddJob(k, at) \/ ExternalAdd(k, at)
      PROVE  Only(k)
  BY <1>0, <1>2 DEF AddJob, ExternalAdd, Change, External, Save
<1>3. ASSUME NEW k \in Jobs, RemoveJob(k) \/ ExternalRemove(k) PROVE Only(k)
  BY <1>0, <1>3 DEF RemoveJob, ExternalRemove, Change, External, Save
<1>8. ASSUME NEW k \in Jobs, NEW on \in BOOLEAN, EnableJob(k, on) PROVE Only(k)
  <2>1. PICK next : file' = [file EXCEPT ![k].enabled = on, ![k].next = next]
    BY <1>0, <1>8 DEF EnableJob, Change, Save
  <2> QED BY <1>0, <2>1
<1>9. ASSUME NEW k \in Jobs, ExternalDisable(k) PROVE Only(k)
  BY <1>0, <1>9 DEF ExternalDisable, External
<1>4. CASE UNCHANGED file
  BY <1>4
<1>5. CASE Tick \/ Stop \/ OnTimer \/ ListJobs \/ UNCHANGED vars
  BY <1>4, <1>5 DEF Tick, Stop, OnTimer, ListJobs, vars
<1>6. CASE Start \/ EndTick
  BY <1>6 DEF Start, EndTick, TickDone
<1>7. ASSUME NEW j \in Jobs, BeginJob(j) \/ EndJob(j) PROVE UNCHANGED file
  BY <1>7 DEF BeginJob, EndJob
<1> HIDE DEF Only
<1> QED BY <1>1, <1>2, <1>3, <1>4, <1>5, <1>6, <1>7, <1>8, <1>9 DEF Next, TimerStep

\* Outside a tick the service never writes over what another process has put
\* into the file: each of its saves changes the one job it is about
\* (service.py, _load_store before every change).
THEOREM SavesAreNarrow == Spec => SaveKeepsOtherJobs
<1>1. Init => TypeInv /\ SavedBetweenTicks
  BY InitTypes DEF Init, SavedBetweenTicks
<1>2. TypeInv /\ SavedBetweenTicks /\ [Next]_vars => (TypeInv /\ SavedBetweenTicks)' /\ OneJobSaved
  BY NextTypes, SavedPreserved, StepSavesOneJob
<1> QED BY <1>1, <1>2, PTL DEF Spec, SaveKeepsOtherJobs, OneJobSaved

=============================================================================
