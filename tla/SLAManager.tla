------------------------------ MODULE SLAManager -------------------------------
(***************************************************************************)
(* src/workflow/sla_manager.py: workflows tracked against a target time,   *)
(* each by a monitor that suspends while it notifies and while it sleeps.  *)
(* Tracking a workflow again replaces its record; a monitor that has begun *)
(* goes on with the record it read.                                        *)
(***************************************************************************)
EXTENDS Naturals

CONSTANTS Tracks,             \* calls of track_workflow for one tracking id
          Warning,            \* target_seconds * warning_threshold
          Target,             \* target_seconds; critical_threshold is 1
          Horizon             \* bound on the clock

ASSUME SLAAssumption ==
  Warning \in Nat /\ Target \in Nat /\ Horizon \in Nat /\ Warning <= Target

VARIABLES clock,
          current,            \* sla_tracking[tracking_id]: a call of Tracks
          track,              \* the records: start, status, sent, breached, met
          monitor             \* _monitor_sla of each call

slaVars == <<clock, current, track, monitor>>

Untracked == "untracked"
NotTracked == [start |-> 0, status |-> Untracked, sent |-> {},
               breached |-> FALSE, met |-> FALSE, end |-> 0]
NotMonitoring == [pc |-> "off", record |-> Untracked, now |-> 0]

SlaInit ==
  /\ clock = 0
  /\ current = Untracked
  /\ track = [k \in Tracks |-> NotTracked]
  /\ monitor = [k \in Tracks |-> NotMonitoring]

SlaTypeOK ==
  /\ clock \in 0..Horizon
  /\ current \in Tracks \cup {Untracked}
  /\ track \in [Tracks ->
       [start: 0..Horizon, status: {Untracked, "in_progress", "completed"},
        sent: SUBSET {"warning", "critical"}, breached: BOOLEAN, met: BOOLEAN,
        end: 0..Horizon]]
  /\ monitor \in [Tracks ->
       [pc: {"off", "created", "awake", "warning", "critical", "asleep",
             "over"},
        record: Tracks \cup {Untracked}, now: 0..Horizon]]

Tick == clock < Horizon /\ clock' = clock + 1 /\ UNCHANGED <<current, track, monitor>>

\* track_workflow: a new record, and a monitor that begins later.
TrackWorkflow(k) ==
  /\ track[k].status = Untracked
  /\ track' = [track EXCEPT ![k].start = clock, ![k].status = "in_progress"]
  /\ current' = k
  /\ monitor' = [monitor EXCEPT ![k].pc = "created"]
  /\ UNCHANGED clock

\* complete_workflow.
CompleteWorkflow ==
  /\ current # Untracked
  /\ track' = [track EXCEPT ![current].status = "completed",
                            ![current].end = clock,
                            ![current].met = clock - track[current].start <= Target]
  /\ UNCHANGED <<clock, current, monitor>>

\* _monitor_sla reads the record that is there when it begins.
MonitorBegins(k) ==
  /\ monitor[k].pc = "created"
  /\ monitor' = [monitor EXCEPT ![k].pc = "awake", ![k].record = current]
  /\ UNCHANGED <<clock, current, track>>

Watched(k) == track[monitor[k].record]

\* A mutant of IsOver: the clock is read again after the notifications.
IsOverNow(k, now) == clock - Watched(k).start >= Target

\* now >= deadline, with the time read at the head of the loop.
IsOver(k, now) == now - Watched(k).start >= Target

\* What the loop does next: it waits for the callbacks of a warning or of the
\* critical notification that has not been sent, ends with the breach, or
\* sleeps.
NextStop(k, now, sent) ==
  CASE now - Watched(k).start >= Warning /\ "warning" \notin sent -> "warning"
    [] now - Watched(k).start >= Target /\ "critical" \notin sent -> "critical"
    [] OTHER -> IF IsOver(k, now) THEN "over" ELSE "asleep"

GoesOn(k, now, sent) ==
  /\ monitor' = [monitor EXCEPT ![k].pc = NextStop(k, now, sent), ![k].now = now]
  /\ track' = [track EXCEPT
       ![monitor[k].record].sent = sent,
       ![monitor[k].record].breached = @ \/ NextStop(k, now, sent) = "over"]
  /\ UNCHANGED <<clock, current>>

\* The head of the loop.
MonitorLooks(k) ==
  /\ monitor[k].pc = "awake"
  /\ Watched(k).status = "in_progress"
  /\ GoesOn(k, clock, Watched(k).sent)

MonitorEnds(k) ==
  /\ monitor[k].pc = "awake"
  /\ Watched(k).status = "completed"
  /\ monitor' = [monitor EXCEPT ![k].pc = "over"]
  /\ UNCHANGED <<clock, current, track>>

\* _send_notification has returned; what was sent is recorded now.
MonitorNotified(k) ==
  /\ monitor[k].pc \in {"warning", "critical"}
  /\ GoesOn(k, monitor[k].now, Watched(k).sent \cup {monitor[k].pc})

MonitorWakes(k) ==
  /\ monitor[k].pc = "asleep"
  /\ monitor' = [monitor EXCEPT ![k].pc = "awake"]
  /\ UNCHANGED <<clock, current, track>>

MonitorStep(k) ==
  \/ MonitorBegins(k) \/ MonitorLooks(k) \/ MonitorEnds(k)
  \/ MonitorNotified(k) \/ MonitorWakes(k)

SlaNext ==
  Tick \/ CompleteWorkflow \/ \E k \in Tracks : TrackWorkflow(k) \/ MonitorStep(k)

--------------------------------------------------------------------------------
\* MetIsNotBreached: a workflow that completed within its target is not
\* reported as a breach, although it may complete while its monitor waits for
\* the callbacks of a warning and goes on with the time it read before.  At
\* the very instant of the deadline both hold: one test is >, the other >=.
MetIsNotBreached ==
  \A k \in Tracks :
    /\ track[k].status = "completed"
    /\ track[k].met
    /\ track[k].breached
    => track[k].end - track[k].start = Target
================================================================================
