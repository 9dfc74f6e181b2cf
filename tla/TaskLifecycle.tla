------------------------------ MODULE TaskLifecycle -----------------------------
(***************************************************************************)
(* src/scheduler/lifecycle_manager.py and task_context.py: the records of  *)
(* executions, whose listeners are awaited at every change of status, and  *)
(* the contexts of tasks with their temporary directories.  A listener may *)
(* suspend, raise or register another listener; nothing but a listener     *)
(* suspends.                                                               *)
(***************************************************************************)
EXTENDS Naturals, Sequences, FiniteSets, FiniteSetsExt

CONSTANTS
  Processes,                  \* process ids
  Updaters,                   \* callers that change a status, each over and over
  MaxListeners,               \* bound on the listeners
  ContextTasks,               \* tasks that get contexts
  MaxContexts                 \* bound on the contexts that are created

ASSUME LifecycleAssumption == MaxListeners \in Nat /\ MaxContexts \in Nat

VARIABLES record,             \* executions
          listeners,          \* the status each listener waits for, in order
          update,             \* where each updater is
          interrupted,        \* history: executions a notification of which raised
          contexts,           \* context ids with what they hold
          tempDirs,           \* temp_dirs: the directory of a task
          disk                \* directories that exist

lifecycleVars ==
  <<record, listeners, update, interrupted, contexts, tempDirs, disk>>

LifecycleStatuses ==
  {"pending", "planning", "validating", "executing", "completed", "failed",
   "cancelled"}

\* The status a method sets: those without an outcome go through update_status.
OutcomeStatus == [complete_execution |-> "completed", fail_execution |-> "failed"]
Methods == {"update_status"} \cup DOMAIN OutcomeStatus
PlainStatuses == {"planning", "cancelled"}

NoUpdate == [pc |-> "idle", method |-> "none", process |-> "none",
             status |-> "none", at |-> 0, size |-> 0]

Fresh == [status |-> "pending", result |-> FALSE, error |-> FALSE]
NoRecord == [status |-> "none", result |-> FALSE, error |-> FALSE]

Contexts == 1..MaxContexts    \* a context, and the directory made for it

LifecycleInit ==
  /\ record = [p \in Processes |-> NoRecord]
  /\ listeners = <<>>
  /\ update = [u \in Updaters |-> NoUpdate]
  /\ interrupted = {}
  /\ contexts = <<>>
  /\ tempDirs = [t \in ContextTasks |-> 0]
  /\ disk = {}

LifecycleTypeOK ==
  /\ record \in [Processes -> [status: LifecycleStatuses \cup {"none"},
                               result: BOOLEAN, error: BOOLEAN]]
  /\ listeners \in Seq(LifecycleStatuses \cup {"any"})
  /\ Len(listeners) <= MaxListeners
  /\ update \in [Updaters ->
       [pc: {"idle", "listener"}, method: Methods \cup {"none"},
        process: Processes \cup {"none"}, status: LifecycleStatuses \cup {"none"},
        at: 0..MaxListeners, size: 0..MaxListeners]]
  /\ interrupted \subseteq Processes
  /\ contexts \in Seq([task: ContextTasks, live: BOOLEAN, outputs: SUBSET {"key"}])
  /\ Len(contexts) <= MaxContexts
  /\ tempDirs \in [ContextTasks -> Contexts \cup {0}]
  /\ disk \subseteq Contexts

--------------------------------------------------------------------------------
(* LifecycleManager                                                          *)

Untouched == <<contexts, tempDirs, disk>>

\* An execution created again begins afresh.
CreateLifecycle(p) ==
  /\ record' = [record EXCEPT ![p] = Fresh]
  /\ UNCHANGED <<listeners, update, interrupted>> /\ UNCHANGED Untouched

\* on_status_change.
OnStatusChange ==
  /\ Len(listeners) < MaxListeners
  /\ \E status \in {"any"} \cup {"completed"} : listeners' = Append(listeners, status)
  /\ UNCHANGED <<record, update, interrupted>> /\ UNCHANGED Untouched

\* The listeners from number i on that are called for a status.
CalledFrom(i, status) ==
  {j \in i..Len(listeners) : listeners[j] \in {"any", status}}

\* A mutant of Recorded: the first outcome stays the only one.
RecordedOnce(r, method) ==
  [r EXCEPT !.result = IF method = "complete_execution" THEN TRUE ELSE @,
            !.error = IF method = "fail_execution" /\ ~r.result THEN TRUE ELSE @]

\* What complete_execution and fail_execution note behind the notification.
Recorded(r, method) ==
  [r EXCEPT !.result = IF method = "complete_execution" THEN TRUE ELSE @,
            !.error = IF method = "fail_execution" THEN TRUE ELSE @]

\* _notify_listeners from listener i on: the next listener is awaited, or the
\* method ends.  The records are those of `now'.
Notify(u, step, i, now) ==
  LET next == CalledFrom(i, step.status)
  IN  IF next # {}
      THEN /\ update' = [update EXCEPT ![u] =
                [step EXCEPT !.pc = "listener", !.at = Min(next)]]
           /\ record' = now
      ELSE /\ update' = [update EXCEPT ![u] = NoUpdate]
           /\ record' = [now EXCEPT ![step.process] = Recorded(@, step.method)]

\* update_status, complete_execution and fail_execution of an execution there
\* is; of any other the first does nothing, the others raise.
Update(u, p) ==
  /\ update[u].pc = "idle"
  /\ record[p].status # "none"
  /\ \E m \in Methods :
       \E s \in IF m \in DOMAIN OutcomeStatus THEN {OutcomeStatus[m]} ELSE PlainStatuses :
         Notify(u, [NoUpdate EXCEPT !.method = m, !.process = p, !.status = s,
                                    !.size = Len(listeners)],
                1, [record EXCEPT ![p].status = s])
  /\ UNCHANGED <<listeners, interrupted>> /\ UNCHANGED Untouched

\* A listener is through, and none has been registered meanwhile.
ListenerReturns(u) ==
  /\ update[u].pc = "listener" /\ update[u].size = Len(listeners)
  /\ Notify(u, update[u], update[u].at + 1, record)
  /\ UNCHANGED <<listeners, interrupted>> /\ UNCHANGED Untouched

\* A listener raises, or the dictionary of listeners has grown under the loop:
\* the caller gets the exception and nothing more is recorded.
ListenerInterrupts(u) ==
  /\ update[u].pc = "listener"
  /\ interrupted' = interrupted \cup {update[u].process}
  /\ update' = [update EXCEPT ![u] = NoUpdate]
  /\ UNCHANGED <<record, listeners>> /\ UNCHANGED Untouched

--------------------------------------------------------------------------------
(* TaskContextManager                                                        *)

NewContext(t) == [task |-> t, live |-> TRUE, outputs |-> {}]

\* get_temp_file_path: a path in the directory filed under the task, if any.
TempFilePath(k) == IF contexts[k].live THEN tempDirs[contexts[k].task] ELSE 0

\* create_context makes a directory and files it under the task.
CreateContext(t) ==
  /\ Len(contexts) < MaxContexts
  /\ LET k == Len(contexts) + 1
     IN  /\ contexts' = Append(contexts, NewContext(t))
         /\ tempDirs' = [tempDirs EXCEPT ![t] = k]
         /\ disk' = disk \cup {k}
  /\ UNCHANGED <<record, listeners, update, interrupted>>

\* update_context, set_output and add_artifact, of a context there is.
SetOutput(k) ==
  /\ contexts[k].live
  /\ contexts' = [contexts EXCEPT ![k].outputs = {"key"}]
  /\ UNCHANGED <<record, listeners, update, interrupted, tempDirs, disk>>

\* cleanup_context: the directory filed under the task of the context goes.
CleanupContext(k) ==
  /\ contexts[k].live
  /\ contexts' = [contexts EXCEPT ![k].live = FALSE, ![k].outputs = {}]
  /\ disk' = disk \ {tempDirs[contexts[k].task]}
  /\ tempDirs' = [tempDirs EXCEPT ![contexts[k].task] = 0]
  /\ UNCHANGED <<record, listeners, update, interrupted>>

LifecycleNext ==
  \/ \E p \in Processes : CreateLifecycle(p) \/ \E u \in Updaters : Update(u, p)
  \/ OnStatusChange
  \/ \E u \in Updaters : ListenerReturns(u) \/ ListenerInterrupts(u)
  \/ \E t \in ContextTasks : CreateContext(t)
  \/ \E k \in DOMAIN contexts : SetOutput(k) \/ CleanupContext(k)

--------------------------------------------------------------------------------
\* OutcomeRecorded: an execution that says it is completed or failed has its
\* result or its error once no update is under way, whatever updates have
\* overtaken each other, unless a listener has interrupted one.
OutcomeRecorded ==
  \A p \in Processes :
    p \notin interrupted /\ (\A u \in Updaters : update[u].process # p) =>
      /\ record[p].status = "completed" => record[p].result
      /\ record[p].status = "failed" => record[p].error

\* DirectoriesOfContexts: as long as a task has had one context only, the
\* directory of the context lives as long as the context, which is given paths
\* in no other.  A second one, as for a task that is tried again, takes the first
\* one's directory out of reach, and the first cleanup takes the second one's.
DirectoriesOfContexts ==
  \A k \in DOMAIN contexts :
    (\A other \in DOMAIN contexts \ {k} : contexts[other].task # contexts[k].task)
    => /\ contexts[k].live <=> k \in disk
       /\ contexts[k].live => TempFilePath(k) = k
================================================================================
