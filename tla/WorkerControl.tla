---------------------------- MODULE WorkerControl ----------------------------
(***************************************************************************)
(* The loop that refreshes the announcement sources of an API process, and *)
(* the threads of administrators that schedule runs (CrawlWorkerController *)
(* of api/crawl_admin.py, started and stopped by the lifespan of main.py). *)
(* A run is its beginning and its end; what it refreshes is SourceRefresh, *)
(* what schedule_pages does to page rows is CrawlLease.  Only the loop     *)
(* calls run_once, so that its answer "busy" is not reached.               *)
(***************************************************************************)
EXTENDS Integers, FiniteSets, SequencesExt

CONSTANTS
  Admins,        \* each schedules one run
  NoRun, Periodic,
  Interval,      \* interval_seconds
  MaxClock       \* bound on the clock; a run may be scheduled after it

ASSUME WorkerAssumption ==
  /\ {NoRun, Periodic} \cap Admins = {}
  /\ Interval \in Nat \ {0} /\ MaxClock \in Nat

VARIABLES
  clock,
  pending,     \* _pending: who scheduled it and when it is due
  admin,       \* a request: "idle", "wake" once it is queued, "done"
  loop,        \* run_loop
  periodicAt,  \* next_periodic
  wakeAt,      \* when the wait times out
  wake, stop,  \* the events of the loop
  running,     \* whose run is in the thread
  report,      \* status of the last report
  ran          \* history: the schedules whose run has begun

flags   == <<wake, stop>>
loopMem == <<loop, periodicAt, wakeAt, running>>
workerVars == <<clock, pending, admin, loopMem, flags, report, ran>>

Times == 0 .. MaxClock + Interval
Least(a, b) == IF a < b THEN a ELSE b
Most(a, b)  == IF a < b THEN b ELSE a
Exists == loop \notin {"new", "ended"}   \* the events of the loop exist

WorkerInit ==
  /\ clock = 0
  /\ pending = <<>>
  /\ admin = [a \in Admins |-> "idle"]
  /\ loop = "new"
  /\ periodicAt = 0
  /\ wakeAt = 0
  /\ wake = FALSE /\ stop = FALSE
  /\ running = NoRun
  /\ report = "none"
  /\ ran = {}

\* Mutant: the queue is not sorted.
QueuedLast(q, item) == Append(q, item)

\* The queue by due time, the oldest of equals first.
Queued(q, item) ==
  LET n == Cardinality({i \in DOMAIN q : q[i].at <= item.at})
  IN InsertAt(q, n + 1, item)

\* schedule: the run is queued under the lock, which also reads the event.
ScheduleRun(a) ==
  /\ admin[a] = "idle"
  /\ \E t \in 0 .. MaxClock + 1 : pending' = Queued(pending, [by |-> a, at |-> t])
  /\ admin' = [admin EXCEPT ![a] = IF Exists THEN "wake" ELSE "done"]
  /\ UNCHANGED <<clock, loopMem, flags, report, ran>>

\* wake_event.set, after the lock.
Wake(a) ==
  /\ admin[a] = "wake"
  /\ admin' = [admin EXCEPT ![a] = "done"]
  /\ wake' = (wake \/ Exists)
  /\ UNCHANGED <<clock, pending, loopMem, stop, report, ran>>

\* run_loop makes new events and forgets an earlier stop.
StartLoop ==
  /\ loop = "new"
  /\ loop' = "top"
  /\ periodicAt' = clock
  /\ wake' = FALSE /\ stop' = FALSE
  /\ UNCHANGED <<clock, pending, admin, wakeAt, running, report, ran>>

IsDue == pending # <<>> /\ Head(pending).at <= clock

\* _take_due_schedule: the first of the queue, when it is due.
TakeSchedule ==
  /\ loop = "top" /\ ~stop
  /\ IsDue
  /\ running' = Head(pending).by
  /\ ran' = ran \cup {running'}
  /\ pending' = Tail(pending)
  /\ loop' = "run"
  /\ UNCHANGED <<clock, admin, periodicAt, wakeAt, flags, report>>

StartPeriodic ==
  /\ loop = "top" /\ ~stop
  /\ ~IsDue
  /\ clock >= periodicAt
  /\ running' = Periodic
  /\ loop' = "run"
  /\ UNCHANGED <<clock, pending, admin, periodicAt, wakeAt, flags, report, ran>>

\* Nothing to do: how long to wait is computed under the lock once more.
LeaveTop ==
  /\ loop = "top" /\ ~stop
  /\ ~IsDue
  /\ clock < periodicAt
  /\ loop' = "plan"
  /\ UNCHANGED <<clock, pending, admin, periodicAt, wakeAt, running, flags, report, ran>>

PlanWait ==
  /\ loop = "plan"
  /\ wakeAt' = IF pending = <<>> THEN periodicAt
               ELSE Least(periodicAt, Most(clock, Head(pending).at))
  /\ loop' = "wait"
  /\ UNCHANGED <<clock, pending, admin, periodicAt, running, flags, report, ran>>

EndWait ==
  /\ loop = "wait"
  /\ wake \/ stop \/ clock >= wakeAt
  /\ loop' = "woken"
  /\ UNCHANGED <<clock, pending, admin, periodicAt, wakeAt, running, flags, report, ran>>

\* wake_event.clear, after the tasks of the wait were gathered.
ClearWake ==
  /\ loop = "woken"
  /\ wake' = FALSE
  /\ loop' = "top"
  /\ UNCHANGED <<clock, pending, admin, periodicAt, wakeAt, running, stop, report, ran>>

\* run_once returns a report, also when a source failed or an error was raised;
\* a scheduled run that failed is not queued again.
EndRun ==
  /\ loop = "run"
  /\ report' \in {"completed", "failed"}
  /\ running' = NoRun
  /\ periodicAt' = clock + Interval
  /\ loop' = "top"
  /\ UNCHANGED <<clock, pending, admin, wakeAt, flags, ran>>

\* The lifespan ends; the loop leaves at its head, and its events are gone.
StopLoop ==
  /\ Exists /\ ~stop
  /\ stop' = TRUE
  /\ UNCHANGED <<clock, pending, admin, loopMem, wake, report, ran>>

EndLoop ==
  /\ loop = "top" /\ stop
  /\ loop' = "ended"
  /\ wake' = FALSE
  /\ UNCHANGED <<clock, pending, admin, periodicAt, wakeAt, running, stop, report, ran>>

\* What the loop computes between its head and its wait takes no time.
PassTick ==
  /\ clock < MaxClock
  /\ loop # "plan"
  /\ clock' = clock + 1
  /\ UNCHANGED <<pending, admin, loopMem, flags, report, ran>>

Loop == \/ StartLoop \/ TakeSchedule \/ StartPeriodic \/ LeaveTop \/ PlanWait
        \/ EndWait \/ ClearWake \/ EndRun \/ EndLoop

WorkerNext == \/ Loop
              \/ \E a \in Admins : ScheduleRun(a) \/ Wake(a)
              \/ StopLoop
              \/ PassTick

WorkerSpec == /\ WorkerInit /\ [][WorkerNext]_workerVars
              /\ WF_workerVars(Loop) /\ WF_workerVars(PassTick)
              /\ \A a \in Admins : WF_workerVars(Wake(a))

-----------------------------------------------------------------------------
WorkerTypeOK ==
  /\ clock \in 0 .. MaxClock /\ periodicAt \in Times /\ wakeAt \in Times
  /\ \A i \in DOMAIN pending : pending[i].by \in Admins
  /\ admin \in [Admins -> {"idle", "wake", "done"}]
  /\ loop \in {"new", "top", "plan", "wait", "woken", "run", "ended"}
  /\ running \in Admins \cup {NoRun, Periodic}
  /\ wake \in BOOLEAN /\ stop \in BOOLEAN

\* The loop does not sleep past the due time of a run: whatever was queued before
\* or while it fell asleep is in its timeout, or its event is set or is about to
\* be set by the thread that queued it (crawl_admin.py:217-223, :365-386).
NoSleepOverDue ==
  loop = "wait" /\ ~wake /\ ~stop /\ clock < wakeAt =>
    \A i \in DOMAIN pending :
      pending[i].at >= wakeAt \/ admin[pending[i].by] = "wake"

\* A run that is scheduled for a time that comes is begun, unless the process
\* stops: no schedule is dropped, or kept behind one for a later day
\* (crawl_admin.py:218, :347-349, :399-403).
ScheduleIsRun ==
  \A a \in Admins :
    (loop # "new" /\ \E i \in DOMAIN pending : pending[i].by = a /\ pending[i].at <= MaxClock)
      ~> a \in ran \/ stop

=============================================================================
