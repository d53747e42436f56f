----------------------------- MODULE Supervisor -----------------------------
(* The run supervisor (runtime.rs): submissions take a permit and a place in   *)
(* the command channel before the store creates their run; one manager starts  *)
(* the runs, at most MaxConcurrent at once and the rest in order; a shutdown    *)
(* stops everything that was admitted.  What happens inside the attempt of a    *)
(* run and inside a control is left to Attempt.                               *)
EXTENDS Integers, Sequences, FiniteSets

CONSTANTS
  MaxRuns,        \* bound: submissions, numbered as they take the lifecycle mutex
  Controls,
  MaxConcurrent,  \* MAX_CONCURRENT_ROOT_RUNS
  MaxQueued,      \* MAX_QUEUED_ROOT_RUNS
  MaxControls,    \* MAX_CONCURRENT_CONTROLS
  MaxFaults       \* bound: store calls that fail, tasks that panic

ASSUME BoundsAssumption ==
  /\ MaxConcurrent \in Nat \ {0} /\ MaxQueued \in Nat \ {0} /\ MaxControls \in Nat \ {0}
  /\ MaxRuns \in Nat /\ MaxFaults \in Nat

Runs == 1 .. MaxRuns
NoOne == 0

\* A command of the channel submits a run or is a control, never both.
ASSUME ControlsAssumption == IsFiniteSet(Controls) /\ Controls \cap Runs = {}

VARIABLES
  sub,        \* the submission of a run
  durable,    \* its status in the store
  handle,     \* what RunHandle::wait sees
  ctl,        \* a respond or steer call
  lock,       \* the holder of the lifecycle mutex
  lifecycle,
  queue,      \* the command channel
  reserved,   \* runs that hold a place in it
  admitted,   \* runs that hold a permit of root_admission
  active,     \* the map of active runs
  pending,    \* admitted runs that wait for a task
  task,       \* the task of a run
  cancelled,  \* runs whose cancellation flag is set
  stopping,   \* runs whose shutdown flag is set
  manager,    \* what the manager does, and how far it looked through pending
  notified,   \* the permit of the Notify for interruptions
  forced,     \* force_shutdown
  message,    \* a message waits in the shutdown channel
  asked,      \* the manager took it
  failed,     \* task_failed
  stopper,    \* the call of shutdown, then of force_shutdown
  faults

callers == <<sub, ctl, lock, lifecycle>>
flags   == <<cancelled, stopping, notified, forced, message>>
work    == <<queue, reserved, admitted, active, pending, task>>
results == <<durable, handle, failed, faults>>
vars == <<callers, flags, work, results, manager, asked, stopper>>

MaxAdmitted == MaxConcurrent + MaxQueued
Capacity == MaxAdmitted + MaxControls

Tasks == {r \in Runs : task[r] # "none"}
Busy == {k \in Controls : ctl[k] \in {"queued", "running", "ended"}}
Elements(s) == {s[i] : i \in DOMAIN s}
Without(s, i) == SubSeq(s, 1, i - 1) \o SubSeq(s, i + 1, Len(s))

\* The channel is open while the manager serves.
Open == manager.at \in {"sweep", "serve"}
Full == Len(queue) + Cardinality(reserved) = Capacity

At(place) == manager' = [at |-> place, scan |-> 1]

Fault == faults < MaxFaults /\ faults' = faults + 1

\* set_status with a terminal status, after the store has it
Settles(r) ==
  /\ durable' = [durable EXCEPT ![r] = "terminal"]
  /\ handle' = [handle EXCEPT ![r] = "settled"]

\* RunHandle::wait and wait_for watch the run until it has an outcome or nobody
\* can tell it.
Waiting(r) == handle[r] = "open"

\* mark_reconciliation_failed
GivesUp(r) == handle' = [handle EXCEPT ![r] = "unreconciled"] /\ UNCHANGED durable

-----------------------------------------------------------------------------
(* Callers.                                                                 *)

\* submit and submit_persisted up to the call of the store
Submit(r) ==
  /\ sub[r] = "idle"
  /\ \A s \in 1 .. r - 1 : sub[s] # "idle"
  /\ lock = NoOne
  /\ IF lifecycle = "open" /\ Open /\ Cardinality(admitted) < MaxAdmitted /\ ~Full
     THEN /\ sub' = [sub EXCEPT ![r] = "storing"]
          /\ lock' = r
          /\ admitted' = admitted \cup {r}
          /\ reserved' = reserved \cup {r}
     ELSE /\ sub' = [sub EXCEPT ![r] = "refused"]
          /\ UNCHANGED <<lock, admitted, reserved>>
  /\ UNCHANGED <<ctl, lifecycle, queue, active, pending, task, flags, results, manager, asked, stopper>>

\* enqueue_prepared: the run is in the map before its command is in the channel,
\* which loses what is sent when the manager was aborted.
Enqueue(r) ==
  /\ sub[r] = "storing"
  /\ sub' = [sub EXCEPT ![r] = "accepted"]
  /\ durable' = [durable EXCEPT ![r] = "queued"]
  /\ handle' = [handle EXCEPT ![r] = "open"]
  /\ active' = active \cup {r}
  /\ reserved' = reserved \ {r}
  /\ IF manager.at = "aborted"
     THEN admitted' = admitted \ {r} /\ UNCHANGED queue
     ELSE queue' = Append(queue, r) /\ UNCHANGED admitted
  /\ lock' = NoOne
  /\ UNCHANGED <<ctl, lifecycle, pending, task, flags, failed, faults, manager, asked, stopper>>

\* A duplicate, an error of the store, or a caller that is dropped.  What the
\* store may have created by then is left to the recovery of DispatchLease.
Abandon(r) ==
  /\ sub[r] = "storing"
  /\ sub' = [sub EXCEPT ![r] = "refused"]
  /\ reserved' = reserved \ {r}
  /\ admitted' = admitted \ {r}
  /\ lock' = NoOne
  /\ UNCHANGED <<ctl, lifecycle, queue, active, pending, task, flags, results, manager, asked,
                 stopper>>

\* respond and steer: a permit and a place are taken without waiting.
Control(k) ==
  /\ ctl[k] = "idle"
  /\ lock = NoOne
  /\ lifecycle = "open"
  /\ \E r \in active : task[r] = "running"
  /\ IF Open /\ Cardinality(Busy) < MaxControls /\ ~Full
     THEN queue' = Append(queue, k) /\ ctl' = [ctl EXCEPT ![k] = "queued"]
     ELSE ctl' = [ctl EXCEPT ![k] = "answered"] /\ UNCHANGED queue
  /\ UNCHANGED <<sub, lock, lifecycle, reserved, admitted, active, pending, task, flags, results,
                 manager, asked, stopper>>

(* Mutant: the manager is not told. *)
InterruptUnnoticed(r) ==
  /\ r \in active \ cancelled
  /\ stopper # "dropped"
  /\ cancelled' = cancelled \cup {r}
  /\ UNCHANGED <<callers, work, stopping, notified, forced, message, results, manager, asked, stopper>>

\* A repetition would only wake the manager once more.
Interrupt(r) ==
  /\ r \in active \ cancelled
  /\ stopper # "dropped"
  /\ cancelled' = cancelled \cup {r}
  /\ notified' = TRUE
  /\ UNCHANGED <<callers, work, stopping, forced, message, results, manager, asked, stopper>>

-----------------------------------------------------------------------------
(* Tasks.                                                                   *)

Stopped(r) == r \in cancelled \cup stopping

\* execute_job: a run that was stopped before is interrupted in the store.
TaskBegins(r) ==
  /\ task[r] = "spawned"
  /\ IF ~Stopped(r)
     THEN /\ task' = [task EXCEPT ![r] = "running"]
          /\ durable' = [durable EXCEPT ![r] = "running"]
          /\ UNCHANGED <<handle, faults>>
     ELSE \/ Settles(r) /\ task' = [task EXCEPT ![r] = "ended"] /\ UNCHANGED faults
          \/ Fault /\ task' = [task EXCEPT ![r] = "failed"] /\ UNCHANGED <<durable, handle>>
  /\ UNCHANGED <<callers, queue, reserved, admitted, active, pending, flags, failed, manager, asked,
                 stopper>>

TaskEnds(r) ==
  /\ task[r] = "running"
  /\ Settles(r)
  /\ task' = [task EXCEPT ![r] = "ended"]
  /\ UNCHANGED <<callers, queue, reserved, admitted, active, pending, flags, failed, faults, manager,
                 asked, stopper>>

\* The store fails the task, or the task panics.
TaskFails(r) ==
  /\ task[r] = "running"
  /\ Fault
  /\ task' = [task EXCEPT ![r] = "failed"]
  /\ UNCHANGED <<callers, queue, reserved, admitted, active, pending, flags, durable, handle, failed,
                 manager, asked, stopper>>

ControlEnds(k) ==
  /\ ctl[k] = "running"
  /\ ctl' = [ctl EXCEPT ![k] = "ended"]
  /\ UNCHANGED <<sub, lock, lifecycle, work, flags, results, manager, asked, stopper>>

-----------------------------------------------------------------------------
(* The manager: the loop of run_manager.                                     *)

\* interrupt_queued, then remove_joined_run and the end of the permit
InterruptQueued(r) ==
  /\ \/ Settles(r) /\ UNCHANGED <<failed, faults>>
     \/ Fault /\ GivesUp(r) /\ failed' = TRUE
  /\ active' = active \ {r}
  /\ admitted' = admitted \ {r}

\* interrupt_cancelled_pending, one position at a time
Sweep ==
  /\ manager.at = "sweep"
  /\ manager.scan <= Len(pending)
  /\ LET r == pending[manager.scan] IN
     IF r \in cancelled
     THEN InterruptQueued(r) /\ pending' = Without(pending, manager.scan) /\ UNCHANGED manager
     ELSE /\ manager' = [manager EXCEPT !.scan = @ + 1]
          /\ UNCHANGED <<pending, active, admitted, results>>
  /\ UNCHANGED <<callers, queue, reserved, task, flags, asked, stopper>>

\* ... then the tasks that there is room for
TopUp ==
  LET room == MaxConcurrent - Cardinality(Tasks)
      n == IF Len(pending) < room THEN Len(pending) ELSE room
  IN /\ manager.at = "sweep"
     /\ manager.scan > Len(pending)
     /\ task' = [r \in Runs |-> IF r \in Elements(SubSeq(pending, 1, n)) THEN "spawned" ELSE task[r]]
     /\ pending' = SubSeq(pending, n + 1, Len(pending))
     /\ At("serve")
     /\ UNCHANGED <<callers, queue, reserved, admitted, active, flags, results, asked, stopper>>

\* What follows the loop: everyone is told to stop and the channel is closed.
Breaks ==
  /\ stopping' = stopping \cup active \cup Tasks \cup Elements(pending)
  /\ At("drain")

\* The select! is biased: its branches in their order
ForceFirst ==
  /\ manager.at = "serve"
  /\ forced
  /\ Breaks
  /\ UNCHANGED <<callers, work, cancelled, notified, forced, message, results, asked, stopper>>

TakeShutdown ==
  /\ manager.at = "serve"
  /\ ~forced /\ message
  /\ message' = FALSE
  /\ asked' = TRUE
  /\ Breaks
  /\ UNCHANGED <<callers, work, cancelled, notified, forced, results, stopper>>

TakeNotification ==
  /\ manager.at = "serve"
  /\ ~forced /\ ~message /\ notified
  /\ notified' = FALSE
  /\ At("sweep")
  /\ UNCHANGED <<callers, work, cancelled, stopping, forced, message, results, asked, stopper>>

\* refresh_manager_dispatch_leases: the store fails.
RefreshFails ==
  /\ manager.at = "serve"
  /\ ~forced /\ ~message /\ ~notified
  /\ Fault
  /\ failed' = TRUE
  /\ Breaks
  /\ UNCHANGED <<callers, work, cancelled, notified, forced, message, durable, handle, asked, stopper>>

\* ... or the lease of a run was lost.
LeaseLost(r) ==
  /\ manager.at = "serve"
  /\ ~forced /\ ~message /\ ~notified
  /\ r \in active \ stopping
  /\ Fault
  /\ stopping' = stopping \cup {r}
  /\ At("sweep")
  /\ UNCHANGED <<callers, work, cancelled, notified, forced, message, durable, handle, failed, asked,
                 stopper>>

TakeCommand ==
  /\ manager.at = "serve"
  /\ ~forced /\ ~message /\ ~notified
  /\ queue # <<>>
  /\ LET head == Head(queue) IN
     IF head \in Controls
     THEN ctl' = [ctl EXCEPT ![head] = "running"] /\ UNCHANGED <<task, pending>>
     ELSE /\ UNCHANGED ctl
          /\ IF Cardinality(Tasks) < MaxConcurrent
             THEN task' = [task EXCEPT ![head] = "spawned"] /\ UNCHANGED pending
             ELSE pending' = Append(pending, head) /\ UNCHANGED task
  /\ queue' = Tail(queue)
  /\ At("sweep")
  /\ UNCHANGED <<sub, lock, lifecycle, reserved, admitted, active, flags, results, asked, stopper>>

(* Mutant: the run of a failed task is not reconciled. *)
ReconcileForgets(r) ==
  /\ task[r] \in {"ended", "failed"}
  /\ task' = [task EXCEPT ![r] = "none"]
  /\ active' = active \ {r}
  /\ admitted' = admitted \ {r}
  /\ failed' = (failed \/ task[r] = "failed")
  /\ UNCHANGED <<durable, handle, faults>>

\* reconcile_task for a run
Reconcile(r) ==
  /\ task[r] \in {"ended", "failed"}
  /\ \/ task[r] = "ended" /\ UNCHANGED <<durable, handle, failed, faults>>
     \/ task[r] = "failed" /\ Settles(r) /\ failed' = TRUE /\ UNCHANGED faults
     \/ task[r] = "failed" /\ Fault /\ GivesUp(r) /\ failed' = TRUE
  /\ task' = [task EXCEPT ![r] = "none"]
  /\ active' = active \ {r}
  /\ admitted' = admitted \ {r}

\* ... and for a control
Answer(k) == ctl[k] = "ended" /\ ctl' = [ctl EXCEPT ![k] = "answered"]

(* Mutant: the manager waits for the next event without another round. *)
JoinAndWait ==
  /\ manager.at \in {"serve", "join"}
  /\ manager.at = "serve" => ~forced /\ ~message /\ ~notified /\ queue = <<>>
  /\ \/ \E r \in Runs : Reconcile(r) /\ UNCHANGED ctl
     \/ \E k \in Controls : Answer(k) /\ UNCHANGED <<task, active, admitted, results>>
  /\ UNCHANGED <<sub, lock, lifecycle, queue, reserved, pending, flags, manager, asked, stopper>>

Join ==
  /\ manager.at \in {"serve", "join"}
  /\ manager.at = "serve" => ~forced /\ ~message /\ ~notified /\ queue = <<>>
  /\ \/ \E r \in Runs : Reconcile(r) /\ UNCHANGED ctl
     \/ \E k \in Controls : Answer(k) /\ UNCHANGED <<task, active, admitted, results>>
  /\ manager' = IF manager.at = "serve" THEN [at |-> "sweep", scan |-> 1] ELSE manager
  /\ UNCHANGED <<sub, lock, lifecycle, queue, reserved, pending, flags, asked, stopper>>

\* Commands that are still in the channel, and those whose place is reserved
Drain ==
  /\ manager.at = "drain"
  /\ queue # <<>>
  /\ LET head == Head(queue) IN
     IF head \in Controls
     THEN ctl' = [ctl EXCEPT ![head] = "answered"] /\ UNCHANGED pending
     ELSE pending' = Append(pending, head) /\ UNCHANGED ctl
  /\ queue' = Tail(queue)
  /\ UNCHANGED <<sub, lock, lifecycle, reserved, admitted, active, task, flags, results, manager,
                 asked, stopper>>

Drained ==
  /\ manager.at = "drain"
  /\ queue = <<>> /\ reserved = {}
  /\ At("interrupt")
  /\ UNCHANGED <<callers, work, flags, results, asked, stopper>>

InterruptPending ==
  /\ manager.at = "interrupt"
  /\ pending # <<>>
  /\ InterruptQueued(Head(pending))
  /\ pending' = Tail(pending)
  /\ UNCHANGED <<callers, queue, reserved, task, flags, manager, asked, stopper>>

InterruptedPending ==
  /\ manager.at = "interrupt"
  /\ pending = <<>>
  /\ At("join")
  /\ UNCHANGED <<callers, work, flags, results, asked, stopper>>

\* tasks.abort_all
AbortAll ==
  /\ manager.at = "join"
  /\ forced
  /\ \/ \E r \in Runs : task[r] \in {"spawned", "running"}
     \/ \E k \in Controls : ctl[k] = "running"
  /\ task' = [r \in Runs |-> IF task[r] \in {"spawned", "running"} THEN "failed" ELSE task[r]]
  /\ ctl' = [k \in Controls |-> IF ctl[k] = "running" THEN "ended" ELSE ctl[k]]
  /\ UNCHANGED <<sub, lock, lifecycle, queue, reserved, admitted, active, pending, flags, results,
                 manager, asked, stopper>>

ManagerEnds ==
  /\ manager.at = "join"
  /\ Tasks = {}
  /\ \A k \in Controls : ctl[k] \notin {"running", "ended"}
  /\ At("gone")
  /\ UNCHANGED <<callers, work, flags, results, asked, stopper>>

Manager ==
  \/ Sweep \/ TopUp \/ ForceFirst \/ TakeShutdown \/ TakeNotification \/ TakeCommand \/ Join
  \/ Drain \/ Drained \/ InterruptPending \/ InterruptedPending \/ AbortAll \/ ManagerEnds

-----------------------------------------------------------------------------
(* The end: shutdown, and force_shutdown after it failed or ran out of time.  *)

Goes(place) == stopper' = place

Close ==
  /\ stopper = "idle"
  /\ lock = NoOne
  /\ lifecycle = "open"
  /\ lifecycle' = "closing"
  /\ Goes("closing")
  /\ UNCHANGED <<sub, ctl, lock, work, flags, results, manager, asked>>

SendShutdown ==
  /\ stopper = "closing"
  /\ IF manager.at = "gone"
     THEN Goes("failing") /\ UNCHANGED message
     ELSE Goes("waiting") /\ message' = TRUE
  /\ UNCHANGED <<callers, work, cancelled, stopping, notified, forced, results, manager, asked>>

\* The answer and the end of the manager: without the message being taken there
\* is no answer.
ManagerAnswered ==
  /\ stopper = "waiting"
  /\ manager.at = "gone"
  /\ Goes(IF asked /\ ~failed THEN "stopped" ELSE "failing")
  /\ UNCHANGED <<callers, work, flags, results, manager, asked>>

\* shutdown_adapters, and the last use of the lifecycle mutex
ShutdownAdapters ==
  /\ stopper \in {"stopped", "failing"}
  /\ lock = NoOne
  /\ lifecycle' = "closed"
  /\ \/ Goes(IF stopper = "stopped" THEN "ok" ELSE "failed") /\ UNCHANGED faults
     \/ Fault /\ Goes("failed")
  /\ UNCHANGED <<sub, ctl, lock, work, flags, durable, handle, failed, manager, asked>>

\* The grace has passed and the call is dropped.
GraceEnds ==
  /\ stopper \in {"closing", "waiting", "stopped", "failing"}
  /\ Goes("late")
  /\ UNCHANGED <<callers, work, flags, results, manager, asked>>

ForceShutdown ==
  /\ stopper \in {"late", "failed"}
  /\ stopping' = stopping \cup active
  /\ forced' = TRUE
  /\ Goes("forcing")
  /\ UNCHANGED <<callers, work, cancelled, notified, message, results, manager, asked>>

\* FORCED_OWNER_SHUTDOWN_TIMEOUT: the tasks go with the manager.
AbortManager ==
  /\ stopper = "forcing"
  /\ manager.at \notin {"gone", "aborted"}
  /\ At("aborted")
  /\ queue' = <<>> /\ pending' = <<>>
  /\ task' = [r \in Runs |-> "none"]
  /\ ctl' = [k \in Controls |-> IF k \in Busy THEN "answered" ELSE ctl[k]]
  /\ admitted' = reserved
  /\ UNCHANGED <<sub, lock, lifecycle, reserved, active, flags, results, asked, stopper>>

Forced ==
  /\ stopper = "forcing"
  /\ manager.at \in {"gone", "aborted"}
  /\ lock = NoOne
  /\ lifecycle' = "closed"
  /\ Goes("forced")
  /\ UNCHANGED <<sub, ctl, lock, work, flags, results, manager, asked>>

\* The supervisor is dropped when no call uses it, after a shutdown or without
\* one; the manager goes on alone.
DropSupervisor ==
  /\ stopper \in {"idle", "late", "failed", "forced"}
  /\ lock = NoOne
  /\ lifecycle' = "closed"
  /\ stopping' = stopping \cup active
  /\ forced' = TRUE
  /\ Goes("dropped")
  /\ UNCHANGED <<sub, ctl, lock, work, cancelled, notified, message, results, manager, asked>>

Stopper == SendShutdown \/ ManagerAnswered \/ ShutdownAdapters \/ ForceShutdown \/ Forced

-----------------------------------------------------------------------------
Init ==
  /\ sub = [r \in Runs |-> "idle"]
  /\ durable = [r \in Runs |-> "none"]
  /\ handle = [r \in Runs |-> "none"]
  /\ ctl = [k \in Controls |-> "idle"]
  /\ lock = NoOne /\ lifecycle = "open"
  /\ queue = <<>> /\ reserved = {} /\ admitted = {} /\ active = {} /\ pending = <<>>
  /\ task = [r \in Runs |-> "none"]
  /\ cancelled = {} /\ stopping = {}
  /\ manager = [at |-> "sweep", scan |-> 1]
  /\ notified = FALSE /\ forced = FALSE /\ message = FALSE /\ asked = FALSE /\ failed = FALSE
  /\ stopper = "idle"
  /\ faults = 0

Next ==
  \/ Manager \/ RefreshFails
  \/ Stopper \/ Close \/ GraceEnds \/ AbortManager \/ DropSupervisor
  \/ \E r \in Runs : \/ Submit(r) \/ Enqueue(r) \/ Abandon(r) \/ Interrupt(r) \/ LeaseLost(r)
                     \/ TaskBegins(r) \/ TaskEnds(r) \/ TaskFails(r)
  \/ \E k \in Controls : Control(k) \/ ControlEnds(k)

Spec == Init /\ [][Next]_vars

\* The runtime polls every task, the store answers, and a turn ends when it is
\* told to stop; one that is not may last for ever.
FairSpec ==
  /\ Spec
  /\ WF_vars(Manager) /\ WF_vars(Stopper)
  /\ \A r \in Runs : /\ WF_vars(Enqueue(r) \/ Abandon(r))
                     /\ WF_vars(TaskBegins(r))
                     /\ WF_vars(Stopped(r) /\ TaskEnds(r))
  /\ \A k \in Controls : WF_vars(ControlEnds(k))

-----------------------------------------------------------------------------
(* Properties.                                                              *)

\* Where an admitted run can be; a run in a task is a run in the map.
TypeOK ==
  /\ lifecycle \in {"open", "closing", "closed"}
  /\ Elements(queue) \subseteq Runs \cup Controls
  /\ Elements(pending) \cup Tasks \subseteq active
  /\ manager.at \in {"sweep", "serve", "drain", "interrupt", "join", "gone", "aborted"}
  /\ manager.at = "gone" => queue = <<>> /\ pending = <<>> /\ reserved = {} /\ Tasks = {}

\* The limits: tasks, waiting runs, and a place in the channel for everyone who
\* was admitted, so that a caller with a permit is never turned away.
LimitsAgree ==
  /\ Cardinality(Tasks) <= MaxConcurrent
  /\ Open => Len(pending) <= MaxQueued
  /\ Full => Cardinality(admitted) = MaxAdmitted /\ Cardinality(Busy) = MaxControls

\* A handle is answered before the run leaves the map, and never before the
\* store has the outcome.
HandlesAreAnswered ==
  \A r \in Runs :
    /\ sub[r] = "accepted" /\ r \notin active => handle[r] \in {"settled", "unreconciled"}
    /\ handle[r] = "settled" => durable[r] = "terminal"

\* A shutdown that reports success has left nothing: no task, no run that waits
\* or that the store does not show ended, and nothing can be admitted any more.
ShutdownIsComplete ==
  stopper = "ok" =>
    /\ lifecycle = "closed" /\ lock = NoOne
    /\ active = {} /\ admitted = {} /\ Tasks = {}
    /\ \A r \in Runs : sub[r] = "accepted" => handle[r] = "settled"

\* In a well-typed state the limits agree with one another, and what a handle and
\* a shutdown tell their callers is true of the store and of the tasks.
AccountsAreTrue == TypeOK /\ LimitsAgree /\ HandlesAreAnswered /\ ShutdownIsComplete

\* Runs start in the order of their commands.
Earlier(r) ==
  LET line == pending \o queue IN
  {line[i] : i \in {i \in DOMAIN line : \E j \in DOMAIN line : i < j /\ line[j] = r}} \cap Runs

StartsInOrder ==
  [][\A r \in Runs : task[r] = "none" /\ task'[r] = "spawned" =>
       \A s \in Earlier(r) : task'[s] = "spawned" \/ s \notin active']_vars

\* A run that is interrupted gets an outcome, wherever the interruption finds it,
\* and so do all runs when the supervisor is dropped; a shutdown ends.  Only a
\* manager that had to be aborted leaves handles open.
Outstanding ==
  \/ \E r \in Runs : /\ Waiting(r)
                     /\ r \in cancelled \/ stopper = "dropped"
                     /\ manager.at # "aborted"
  \/ stopper \notin {"idle", "ok", "forced", "dropped"}

EverythingEnds == Outstanding ~> ~Outstanding
=============================================================================
