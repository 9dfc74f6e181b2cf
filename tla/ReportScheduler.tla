---------------------------- MODULE ReportScheduler ----------------------------
(***************************************************************************)
(* src/reporting/scheduler/report_scheduler.py: one job of the scheduler.  *)
(* The loop starts an execution whenever it wakes and the job is due, and  *)
(* the job is due until an execution that has ended puts its next run off: *)
(* an execution longer than the sleep of the loop is started again and     *)
(* again.  The functions of jobs, and delivery, are a running execution.   *)
(***************************************************************************)
EXTENDS Naturals, FiniteSets

CONSTANTS
  Executes,                   \* bound on the executions, numbered as created
  Every,                      \* time between two runs of the schedule
  Nap,                        \* the sleep of the loop
  LastMinute                  \* bound on the clock

ASSUME ReportsAssumption ==
  /\ Executes \in Nat /\ LastMinute \in Nat
  /\ Every \in Nat \ {0} /\ Nap \in Nat \ {0}

VARIABLES minute,             \* the clock
          cron,               \* a schedule the code knows, or any other
          job,                \* status and next_run
          wakes,              \* when the loop wakes
          execution,          \* the executions: state and start_time
          overlap             \* history: one began before another had ended

reportVars == <<minute, cron, job, wakes, execution, overlap>>

Runs == 1..Executes
NotExecuted == [pc |-> "none", start |-> 0]

\* A mutant of NextRun: a run at the very minute is planned for that minute.
NextRunOrNow(from) ==
  IF cron THEN ((from + Every - 1) \div Every) * Every ELSE from + Every

\* _calculate_next_run: the next minute, hour or day that begins, for the
\* patterns it knows, and a day later for all others.
NextRun(from) == IF cron THEN (from \div Every + 1) * Every ELSE from + Every

ReportsInit ==
  /\ minute = 0 /\ cron \in BOOLEAN
  /\ job = [status |-> "none", nextRun |-> 0]
  /\ wakes = 0
  /\ execution = [x \in Runs |-> NotExecuted]
  /\ overlap = FALSE

ReportsTypeOK ==
  /\ minute \in 0..LastMinute /\ cron \in BOOLEAN /\ overlap \in BOOLEAN
  /\ job \in [status: {"none", "active", "paused", "deleted"},
              nextRun: 0..LastMinute + Every]
  /\ wakes \in 0..LastMinute + Nap
  /\ execution \in [Runs -> [pc: {"none", "created", "running", "over"},
                             start: 0..LastMinute]]

MinutePasses ==
  /\ minute < LastMinute
  /\ minute' = minute + 1
  /\ UNCHANGED <<cron, job, wakes, execution, overlap>>

\* schedule_job starts the loop, which looks for the first time.
ScheduleJob ==
  /\ job.status = "none"
  /\ job' = [status |-> "active", nextRun |-> NextRun(minute)]
  /\ wakes' = minute
  /\ UNCHANGED <<minute, cron, execution, overlap>>

\* pause_job, resume_job, delete_job: what has been created still executes.
JobBecomes(status) ==
  /\ job' = [job EXCEPT !.status = status]
  /\ UNCHANGED <<minute, cron, wakes, execution, overlap>>

PauseJob == job.status \in {"active", "paused"} /\ JobBecomes("paused")
ResumeJob == job.status \in {"active", "paused"} /\ JobBecomes("active")
DeleteJob == job.status \in {"active", "paused"} /\ JobBecomes("deleted")

Due == job.status = "active" /\ job.nextRun <= minute

\* _scheduler_loop.
LoopLooks ==
  /\ job.status # "none" /\ wakes <= minute
  /\ wakes' = minute + Nap
  /\ IF Due
     THEN \E x \in Runs :
            /\ x = Cardinality({y \in Runs : execution[y].pc # "none"}) + 1
            /\ execution' = [execution EXCEPT ![x].pc = "created"]
            /\ overlap' = (overlap \/ \E y \in Runs :
                             execution[y].pc \in {"created", "running"})
     ELSE UNCHANGED <<execution, overlap>>
  /\ UNCHANGED <<minute, cron, job>>

\* _execute_job: a job that has been deleted is not found.
ExecuteJob(x) ==
  /\ execution[x].pc = "created"
  /\ execution' = [execution EXCEPT ![x] =
       IF job.status = "deleted" THEN [@ EXCEPT !.pc = "over"]
       ELSE [pc |-> "running", start |-> minute]]
  /\ UNCHANGED <<minute, cron, job, wakes, overlap>>

\* Success or failure, the next run is counted from the start of this one.
ExecutionEnds(x) ==
  /\ execution[x].pc = "running"
  /\ execution' = [execution EXCEPT ![x].pc = "over"]
  /\ job' = [job EXCEPT !.nextRun = NextRun(execution[x].start)]
  /\ UNCHANGED <<minute, cron, wakes, overlap>>

ReportsNext ==
  \/ MinutePasses \/ ScheduleJob \/ PauseJob \/ ResumeJob \/ DeleteJob \/ LoopLooks
  \/ \E x \in Runs : ExecuteJob(x) \/ ExecutionEnds(x)

--------------------------------------------------------------------------------
\* RunAgainOnlyAfterOverlap: between the starts of two executions lies a time
\* of the schedule, whatever is paused and resumed and however late the loop
\* and the tasks run, unless an execution has begun before another had ended:
\* then the one that ends last may set the next run back.
RunAgainOnlyAfterOverlap ==
  ~overlap =>
    \A x, y \in Runs :
      /\ x < y
      /\ execution[y].pc = "running"
      => (IF cron THEN (execution[x].start \div Every + 1) * Every
          ELSE execution[x].start + Every) <= execution[y].start
================================================================================
