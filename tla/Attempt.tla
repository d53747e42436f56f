------------------------------ MODULE Attempt ------------------------------
(***************************************************************************)
(* One attempt of one run, from the provider's TurnStarted until the       *)
(* manager forgets the run.  The root task reads the provider's events and *)
(* finally records the outcome (execute_attempt, finalize_attempt).  At    *)
(* most one response job and one steering job talk to the same provider    *)
(* turn (execute_response, execute_steering).  The manager task starts and *)
(* joins all of them and repairs what a failed one left (run_manager,      *)
(* reconcile_task).  The user answers, steers and interrupts; another      *)
(* process may take the run over; a task may panic or be aborted; a        *)
(* database call may fail.                                                 *)
(*                                                                         *)
(* Requests are the root agent's approval and question requests.  Child    *)
(* agents and ordinary progress events are not modelled here: an event     *)
(* matters only by what its failed write does to the root task.            *)
(***************************************************************************)
EXTENDS Naturals, Sequences, FiniteSets

CONSTANTS
  Requests,     \* provider request ids of the turn
  NoRequest,    \* no request selected
  MaxQueued,    \* MAX_PENDING_CONTROLS, the capacity of pending_controls
  Budgets       \* bounds, of which a behaviour takes one

\* How often respond and steer are called, how many database calls fail
\* although the run is owned, how many tasks panic or are aborted.
Budget == [answers : Nat, steers : Nat, faults : Nat, panics : Nat]

ASSUME AttemptAssumption ==
  /\ NoRequest \notin Requests
  /\ MaxQueued \in Nat
  /\ Budgets \subseteq Budget

VARIABLES
  db,      \* the run's row and its approvals, shared with other processes
  shared,  \* ActiveRun: selected request, flags, wake-up permit, gate
  root,    \* the root task: where it is, its finish, the controls it queued
  resp,    \* the response slot and its job
  steer,   \* the steering slot and its job
  exec,    \* ControlExecution of each slot's job
  awaits,  \* jobs finish_control_executions still waits for
  mgr,     \* the manager task
  wire,    \* history: what reached the provider
  left     \* what is left of the budget

vars == <<db, shared, root, resp, steer, exec, awaits, mgr, wire, left>>

Controls == {"response", "steering"}
Terminal == {"completed", "interrupted", "failed"}
ProviderTerminal == {"completed", "interrupted"}

NoResponse == [pc |-> "none", req |-> NoRequest, result |-> "none"]
NoSteering == [pc |-> "none", result |-> "none"]

Init ==
  /\ db = [run |-> "running", owned |-> TRUE,
           approval |-> [q \in Requests |->
                          [status |-> "unasked", intent |-> "none"]]]
  /\ shared = [pending |-> NoRequest, responding |-> FALSE, wake |-> FALSE,
               stopped |-> FALSE, done |-> FALSE, gate |-> "free"]
  /\ root = [pc |-> "loop", finish |-> "none", closed |-> FALSE,
             event |-> NoRequest, queue |-> <<>>]
  /\ resp = NoResponse
  /\ steer = NoSteering
  /\ exec = [c \in Controls |-> "none"]
  /\ awaits = {}
  /\ mgr = [pc |-> "run", open |-> TRUE]
  /\ wire = [answers |-> [q \in Requests |-> 0], pipe |-> {},
             steers |-> 0, recorded |-> 0]
  /\ left \in Budgets

-----------------------------------------------------------------------------
(* Writes.  Every write of the attempt checks the row's owner first        *)
(* (require_dispatch_owner) and may also fail because the database does.   *)

Commits == db.owned /\ UNCHANGED left

Fault ==
  /\ left.faults > 0
  /\ left' = [left EXCEPT !.faults = @ - 1]

WriteFails == \/ ~db.owned /\ UNCHANGED left
              \/ db.owned /\ Fault

(* Mutant: an intent that was only recorded stays recorded *)
ClosedApprovalsKeepIntent(resolution) ==
  [q \in Requests |->
    IF db.approval[q].status # "pending" THEN db.approval[q]
    ELSE [db.approval[q] EXCEPT !.status = resolution]]

\* A terminal status closes what is still pending: the approval takes the
\* terminal status's resolution, an intent that was only recorded may have
\* been dispatched.
ClosedApprovals(resolution) ==
  [q \in Requests |->
    LET a == db.approval[q] IN
    IF a.status # "pending" THEN a
    ELSE [status |-> resolution,
          intent |-> IF a.intent = "recorded" THEN "unknown" ELSE a.intent]]

EndRun(status, resolution) ==
  db' = [db EXCEPT !.run = status, !.approval = ClosedApprovals(resolution)]

\* reject_response_intent: only a recorded intent of a pending request.
MayReject(q) == /\ db.approval[q].status = "pending"
                /\ db.approval[q].intent = "recorded"

RejectIntent(q, intent) ==
  db' = [db EXCEPT !.approval[q].intent = intent]

\* The rejection of an intent, when its caller goes on whatever it returns.
TryReject(q, intent) ==
  \/ Commits /\ MayReject(q) /\ RejectIntent(q, intent)
  \/ Commits /\ ~MayReject(q) /\ UNCHANGED db
  \/ WriteFails /\ UNCHANGED db

-----------------------------------------------------------------------------
(* The shared state of a run.                                              *)

Stopping == shared.stopped \/ shared.done

Stop == shared' = [shared EXCEPT !.stopped = TRUE, !.wake = TRUE]

\* signal_attempt_done
Signalled == [shared EXCEPT !.done = TRUE, !.responding = FALSE]

(* Mutant: a refused answer deselects its request too *)
ClearedAlways(q, acknowledged) ==
  [shared EXCEPT !.responding = FALSE, !.wake = TRUE,
                 !.pending = IF @ = q THEN NoRequest ELSE @]

(* Mutant: nobody is told *)
ClearedSilently(q, acknowledged) ==
  [shared EXCEPT !.responding = FALSE,
                 !.pending = IF acknowledged /\ @ = q THEN NoRequest ELSE @]

\* clear_response_state
Cleared(q, acknowledged) ==
  [shared EXCEPT !.responding = FALSE, !.wake = TRUE,
                 !.pending = IF acknowledged /\ @ = q THEN NoRequest ELSE @]

\* The snapshot finish_control_executions takes of the two slots.
Occupied == {c \in Controls : exec[c] # "none"}

-----------------------------------------------------------------------------
(* The root task: the event loop.                                          *)

\* Every way out of the loop that goes through finalize_attempt: no new
\* provider call starts, and the jobs in the slots are awaited.
RootFinishes(finish) ==
  /\ root' = [root EXCEPT !.pc = "settle", !.finish = finish,
                          !.event = NoRequest, !.queue = <<>>]
  /\ shared' = Signalled
  /\ awaits' = Occupied
  /\ UNCHANGED <<db, resp, steer, exec, mgr, wire>>

RootStops ==
  /\ root.pc \in {"loop", "parked"}
  /\ shared.stopped
  /\ RootFinishes("stopped")
  /\ UNCHANGED left

\* A request is selected: the root waits for a wake-up or an event.
RootParks ==
  /\ root.pc = "loop"
  /\ ~shared.stopped
  /\ shared.pending # NoRequest
  /\ root.closed => shared.responding
  /\ root' = [root EXCEPT !.pc = "parked"]
  /\ UNCHANGED <<db, shared, resp, steer, exec, awaits, mgr, wire, left>>

RootWakes ==
  /\ root.pc = "parked"
  /\ shared.wake
  /\ root' = [root EXCEPT !.pc = "loop"]
  /\ shared' = [shared EXCEPT !.wake = FALSE]
  /\ UNCHANGED <<db, resp, steer, exec, awaits, mgr, wire, left>>

\* The stream ended while an answer was in flight: the loop gives up once
\* the answer is settled, or after RESPONSE_ACK_GRACE_TIMEOUT.
RootSeesClosedStream ==
  /\ root.closed
  /\ \/ /\ root.pc = "loop"
        /\ ~shared.stopped
        /\ ~(shared.pending # NoRequest /\ shared.responding)
     \/ root.pc = "parked"
  /\ RootFinishes("failed")
  /\ UNCHANGED left

\* The loop takes the provider's next event.  While parked this is the last
\* branch of a biased select: a wake-up or a stop wins.
Listening ==
  /\ ~root.closed
  /\ ~shared.stopped
  /\ \/ /\ root.pc = "loop"
        /\ shared.pending = NoRequest
        /\ root.queue = <<>>
     \/ root.pc = "parked" /\ ~shared.wake

\* A request that arrives while another is selected is queued; the loop may
\* have to wait for the gate first, and the selected request may go
\* meanwhile.
ReceiveRequest(q) ==
  /\ Listening
  /\ root.pc = "parked"
  /\ root' = [root EXCEPT !.pc = "enqueue", !.event = q]
  /\ UNCHANGED <<db, shared, resp, steer, exec, awaits, mgr, wire, left>>

EnqueueRequest ==
  LET q == root.event
      duplicate == \/ q = shared.pending
                   \/ \E i \in DOMAIN root.queue : root.queue[i] = q
  IN
  /\ root.pc = "enqueue"
  /\ shared.gate = "free"
  /\ UNCHANGED left
  /\ IF duplicate \/ Len(root.queue) >= MaxQueued
     THEN RootFinishes("failed")
     ELSE /\ root' = [root EXCEPT !.pc = "loop", !.event = NoRequest,
                                  !.queue = Append(@, q)]
          /\ UNCHANGED <<db, shared, resp, steer, exec, awaits, mgr, wire>>

\* Record a request and select it, under the gate.  A request id the run has
\* already used is refused by the database.
SelectRequest(q, rest) ==
  /\ shared.gate = "free"
  /\ \/ /\ Commits
        /\ db.run = "running"
        /\ db.approval[q].status = "unasked"
        /\ db' = [db EXCEPT !.run = "waiting",
                            !.approval[q].status = "pending"]
        /\ shared' = [shared EXCEPT !.pending = q]
        /\ root' = [root EXCEPT !.queue = rest]
        /\ UNCHANGED <<resp, steer, exec, awaits, mgr, wire>>
     \/ /\ \/ Commits /\ (db.run # "running" \/ db.approval[q].status # "unasked")
           \/ WriteFails
        /\ RootFinishes("error")

PublishReceived(q) ==
  /\ Listening
  /\ root.pc = "loop"
  /\ SelectRequest(q, <<>>)

PublishQueued ==
  /\ root.pc = "loop"
  /\ ~shared.stopped
  /\ ~root.closed
  /\ shared.pending = NoRequest
  /\ root.queue # <<>>
  /\ SelectRequest(Head(root.queue), Tail(root.queue))

ReceiveTerminal(status) ==
  /\ Listening
  /\ RootFinishes(status)
  /\ UNCHANGED left

ReceiveError ==
  /\ Listening
  /\ RootFinishes("failed")
  /\ UNCHANGED left

ReceiveClose ==
  /\ Listening
  /\ UNCHANGED left
  /\ IF root.pc = "parked" /\ shared.responding
     THEN /\ root' = [root EXCEPT !.pc = "loop", !.closed = TRUE]
          /\ UNCHANGED <<db, shared, resp, steer, exec, awaits, mgr, wire>>
     ELSE RootFinishes("failed")

\* Any other event, when its record cannot be written.
ReceiveUnrecordable ==
  /\ Listening
  /\ WriteFails
  /\ RootFinishes("error")

\* A panic, an abort, or a `?` that leaves the task without finalizing.
RootDies ==
  /\ root.pc \notin {"returned", "failed", "gone"}
  /\ left.panics > 0
  /\ left' = [left EXCEPT !.panics = @ - 1]
  /\ root' = [root EXCEPT !.pc = "failed", !.event = NoRequest, !.queue = <<>>]
  /\ awaits' = {}
  /\ UNCHANGED <<db, shared, resp, steer, exec, mgr, wire>>

-----------------------------------------------------------------------------
(* Finalization: finalize_attempt by the root, reconcile_task for a root   *)
(* that failed.                                                            *)

(* Mutant: a job that executes is not awaited *)
SettleControlHastily ==
  /\ root.pc = "settle" \/ mgr.pc = "settle"
  /\ \E c \in awaits :
       /\ exec' = [exec EXCEPT ![c] = IF @ = "pending" THEN "finished" ELSE @]
       /\ awaits' = awaits \ {c}
  /\ UNCHANGED <<db, shared, root, resp, steer, mgr, wire, left>>

\* finish_control_executions takes the slots in order: a job not yet begun
\* is cancelled, one that executes is awaited.
SettleControl ==
  /\ root.pc = "settle" \/ mgr.pc = "settle"
  /\ \E c \in awaits :
       /\ c = "steering" => "response" \notin awaits
       /\ exec[c] \in {"pending", "finished"}
       /\ exec' = [exec EXCEPT ![c] = "finished"]
       /\ awaits' = awaits \ {c}
  /\ UNCHANGED <<db, shared, root, resp, steer, mgr, wire, left>>

\* An answer may have been acknowledged by a job that died before it could
\* say so in memory.
RootReviews ==
  LET q == shared.pending
      reads == root.finish \in ProviderTerminal /\ q # NoRequest
      acknowledged == reads /\ db.approval[q].intent = "acknowledged"
  IN
  /\ root.pc = "settle"
  /\ awaits = {}
  /\ shared.gate = "free"
  /\ \/ /\ shared' = IF acknowledged THEN Cleared(q, TRUE) ELSE shared
        /\ root' = [root EXCEPT !.pc = "close"]
        /\ UNCHANGED left
     \/ /\ reads /\ Fault
        /\ root' = [root EXCEPT !.pc = "close", !.finish = "error"]
        /\ UNCHANGED shared
  /\ UNCHANGED <<db, resp, steer, exec, awaits, mgr, wire>>

\* The provider must close the stream after its terminal, and must not have
\* left a request open; then the turn is shut down.
RootClosesTurn(streamClosed, shutDown) ==
  LET violated == /\ root.finish \in ProviderTerminal
                  /\ (~streamClosed \/ shared.pending # NoRequest)
      kept     == root.finish \in {"failed", "error"} \/ (shutDown /\ ~violated)
  IN
  /\ root.pc = "close"
  /\ root' = [root EXCEPT !.pc = "record",
                          !.finish = IF kept THEN @ ELSE "failed"]
  /\ UNCHANGED <<db, shared, resp, steer, exec, awaits, mgr, wire, left>>

\* The run's outcome.  The store refuses to complete a run with a pending
\* request, and any second outcome.
RootRecords ==
  LET allowed == /\ db.run \notin Terminal
                 /\ root.finish = "completed" =>
                      \A q \in Requests : db.approval[q].status # "pending"
  IN
  /\ root.pc = "record"
  /\ shared.gate = "free"
  /\ \/ /\ root.finish # "error" /\ Commits /\ allowed
        /\ root' = [root EXCEPT !.pc = "returned"]
        /\ CASE root.finish = "completed" -> EndRun("completed", "failed")
             [] root.finish = "failed"    -> EndRun("failed", "failed")
             [] OTHER                     -> EndRun("interrupted", "cancelled")
     \/ /\ \/ root.finish = "error" /\ UNCHANGED left
           \/ root.finish # "error" /\ Commits /\ ~allowed
           \/ root.finish # "error" /\ WriteFails
        /\ root' = [root EXCEPT !.pc = "failed"]
        /\ UNCHANGED db
  /\ UNCHANGED <<shared, resp, steer, exec, awaits, mgr, wire>>

-----------------------------------------------------------------------------
(* The response job: execute_response.                                     *)

\* RunSupervisor::respond for a request the user can see.  Admission does not
\* look at done: a job admitted too late finds out under the gate.
Respond(q) ==
  /\ mgr.open
  /\ root.pc # "gone"
  /\ resp.pc = "none"
  /\ db.approval[q].status # "unasked"
  /\ left.answers > 0
  /\ left' = [left EXCEPT !.answers = @ - 1]
  /\ resp' = [NoResponse EXCEPT !.pc = "queued", !.req = q]
  /\ exec' = [exec EXCEPT !["response"] = "pending"]
  /\ UNCHANGED <<db, shared, root, steer, awaits, mgr, wire>>

\* The job ends; dropping it marks its execution finished.
ResponseEnds ==
  /\ resp' = [resp EXCEPT !.pc = "done"]
  /\ exec' = [exec EXCEPT !["response"] = "finished"]

ResponseBegins ==
  /\ resp.pc = "spawned"
  /\ \/ /\ exec["response"] = "pending"
        /\ exec' = [exec EXCEPT !["response"] = "executing"]
        /\ resp' = [resp EXCEPT !.pc = "begun"]
     \/ exec["response"] = "finished" /\ ResponseEnds
  /\ UNCHANGED <<db, shared, root, steer, awaits, mgr, wire, left>>

(* Mutant: any earlier answer but an acknowledged one may be repeated *)
ResponseRecordsIntentAgain ==
  LET q == resp.req
      allowed == /\ db.run = "waiting"
                 /\ db.approval[q].status = "pending"
                 /\ db.approval[q].intent # "acknowledged"
      attempted == shared.pending = q /\ ~Stopping
  IN
  /\ resp.pc = "begun"
  /\ shared.gate = "free"
  /\ \/ /\ attempted /\ Commits /\ allowed
        /\ db' = [db EXCEPT !.approval[q].intent = "recorded"]
        /\ shared' = [shared EXCEPT !.gate = "response"]
        /\ resp' = [resp EXCEPT !.pc = "intended"]
        /\ UNCHANGED exec
     \/ /\ \/ ~attempted /\ UNCHANGED left
           \/ attempted /\ Commits /\ ~allowed
           \/ attempted /\ WriteFails
        /\ ResponseEnds
        /\ UNCHANGED <<db, shared>>
  /\ UNCHANGED <<root, steer, awaits, mgr, wire>>

\* Under the gate: the request must be the selected one, the attempt alive,
\* the run waiting for it, and no earlier answer possibly sent.
ResponseRecordsIntent ==
  LET q == resp.req
      allowed == /\ db.run = "waiting"
                 /\ db.approval[q].status = "pending"
                 /\ db.approval[q].intent \in {"none", "rejected"}
      attempted == shared.pending = q /\ ~Stopping
  IN
  /\ resp.pc = "begun"
  /\ shared.gate = "free"
  /\ \/ /\ attempted /\ Commits /\ allowed
        /\ db' = [db EXCEPT !.approval[q].intent = "recorded"]
        /\ shared' = [shared EXCEPT !.gate = "response"]
        /\ resp' = [resp EXCEPT !.pc = "intended"]
        /\ UNCHANGED exec
     \/ /\ \/ ~attempted /\ UNCHANGED left
           \/ attempted /\ Commits /\ ~allowed
           \/ attempted /\ WriteFails
        /\ ResponseEnds
        /\ UNCHANGED <<db, shared>>
  /\ UNCHANGED <<root, steer, awaits, mgr, wire>>

\* Still under the gate: the attempt may have been stopped meanwhile, the
\* lease may be gone.  Only a fence that holds lets the call start.
ResponseFences ==
  LET q == resp.req IN
  /\ resp.pc = "intended"
  /\ \/ /\ Stopping
        /\ TryReject(q, "rejected")
        /\ shared' = [shared EXCEPT !.gate = "free", !.wake = TRUE]
        /\ ResponseEnds
     \/ /\ ~Stopping
        /\ Commits
        /\ shared' = [shared EXCEPT !.gate = "free", !.responding = TRUE]
        /\ resp' = [resp EXCEPT !.pc = "calling"]
        /\ UNCHANGED <<db, exec>>
     \/ /\ ~Stopping              \* the fence fails or errs
        /\ WriteFails
        /\ shared' = [shared EXCEPT !.gate = "free"]
        /\ ResponseEnds
        /\ UNCHANGED db
     \/ /\ ~Stopping              \* the lease expired, the row is still ours
        /\ db.owned /\ MayReject(q) /\ Fault
        /\ RejectIntent(q, "rejected")
        /\ shared' = [shared EXCEPT !.gate = "free", !.wake = TRUE]
        /\ ResponseEnds
  /\ UNCHANGED <<root, steer, awaits, mgr, wire>>

\* The adapter writes the answer to the provider.
AnswerReachesProvider ==
  /\ resp.pc = "calling"
  /\ resp.result = "none"
  /\ resp' = [resp EXCEPT !.result = "sent"]
  /\ wire' = [wire EXCEPT !.answers[resp.req] = @ + 1]
  /\ UNCHANGED <<db, shared, root, steer, exec, awaits, mgr, left>>

(* Mutant: the call is raced against the stop flags, not against done *)
ResponseReturnsLate(result) ==
  /\ resp.pc = "calling"
  /\ CASE result = "ok"        -> resp.result = "sent"
       [] result = "not"       -> resp.result = "none"
       [] result = "may"       -> TRUE
       [] result = "cancelled" -> shared.stopped
  /\ resp' = [resp EXCEPT !.pc = "returned", !.result = result]
  /\ wire' = IF resp.result = "none" /\ result # "not"
             THEN [wire EXCEPT !.pipe = @ \cup {resp.req}] ELSE wire
  /\ UNCHANGED <<db, shared, root, steer, exec, awaits, mgr, left>>

\* adapter.respond returns: success only for an answer that was written,
\* NotDispatched only for one that never will be.  The race is lost to a
\* stop; an answer then still in the pipe may be written later.
ResponseReturns(result) ==
  /\ resp.pc = "calling"
  /\ CASE result = "ok"        -> resp.result = "sent"
       [] result = "not"       -> resp.result = "none"
       [] result = "may"       -> TRUE
       [] result = "cancelled" -> Stopping
  /\ resp' = [resp EXCEPT !.pc = "returned", !.result = result]
  /\ wire' = IF resp.result = "none" /\ result # "not"
             THEN [wire EXCEPT !.pipe = @ \cup {resp.req}] ELSE wire
  /\ UNCHANGED <<db, shared, root, steer, exec, awaits, mgr, left>>

AbandonedAnswerReachesProvider(q) ==
  /\ q \in wire.pipe
  /\ wire' = [wire EXCEPT !.pipe = @ \ {q}, !.answers[q] = @ + 1]
  /\ UNCHANGED <<db, shared, root, resp, steer, exec, awaits, mgr, left>>

\* The dispatch certainty of an answer that was not accepted.
RefusedIntent(result) == IF result = "not" THEN "rejected" ELSE "unknown"

\* An answer not known to be accepted: it is retried only if it was surely
\* not sent.
ResponseIsRefused ==
  LET q == resp.req IN
  /\ resp.pc = "returned"
  /\ shared.gate = "free"
  /\ resp.result # "ok" \/ Stopping
  /\ TryReject(q, RefusedIntent(resp.result))
  /\ shared' = Cleared(q, FALSE)
  /\ ResponseEnds
  /\ UNCHANGED <<root, steer, awaits, mgr, wire>>

\* An accepted answer: acknowledged durably first, then in memory, holding
\* the gate across both.
ResponseIsAcknowledged ==
  LET q == resp.req
      allowed == db.run = "waiting" /\ MayReject(q)
  IN
  /\ resp.pc = "returned"
  /\ shared.gate = "free"
  /\ resp.result = "ok" /\ ~Stopping
  /\ \/ /\ Commits /\ allowed
        /\ db' = [db EXCEPT
                   !.approval[q] = [status |-> "approved",
                                    intent |-> "acknowledged"],
                   !.run = IF \E p \in Requests \ {q} :
                                db.approval[p].status = "pending"
                           THEN @ ELSE "running"]
        /\ shared' = [shared EXCEPT !.gate = "response"]
        /\ resp' = [resp EXCEPT !.pc = "acked"]
        /\ UNCHANGED exec
     \/ /\ (Commits /\ ~allowed) \/ WriteFails
        /\ shared' = Cleared(q, FALSE)
        /\ ResponseEnds
        /\ UNCHANGED db
  /\ UNCHANGED <<root, steer, awaits, mgr, wire>>

ResponseClears ==
  /\ resp.pc = "acked"
  /\ shared' = [Cleared(resp.req, TRUE) EXCEPT !.gate = "free"]
  /\ ResponseEnds
  /\ UNCHANGED <<db, root, steer, awaits, mgr, wire, left>>

ResponsePanics ==
  /\ resp.pc \in {"begun", "intended", "calling", "returned", "acked"}
  /\ left.panics > 0
  /\ left' = [left EXCEPT !.panics = @ - 1]
  /\ resp' = [resp EXCEPT !.pc = "panicked"]
  /\ exec' = [exec EXCEPT !["response"] = "finished"]
  /\ shared' = [shared EXCEPT !.gate = "free"]
  /\ wire' = IF resp.pc = "calling" /\ resp.result = "none"
             THEN [wire EXCEPT !.pipe = @ \cup {resp.req}] ELSE wire
  /\ UNCHANGED <<db, root, steer, awaits, mgr>>

-----------------------------------------------------------------------------
(* The steering job: execute_steering.                                     *)

Steer ==
  /\ mgr.open
  /\ root.pc # "gone"
  /\ ~Stopping
  /\ steer.pc = "none"
  /\ left.steers > 0
  /\ left' = [left EXCEPT !.steers = @ - 1]
  /\ steer' = [pc |-> "queued", result |-> "none"]
  /\ exec' = [exec EXCEPT !["steering"] = "pending"]
  /\ UNCHANGED <<db, shared, root, resp, awaits, mgr, wire>>

SteeringEnds ==
  /\ steer' = [steer EXCEPT !.pc = "done"]
  /\ exec' = [exec EXCEPT !["steering"] = "finished"]

SteeringBegins ==
  /\ steer.pc = "spawned"
  /\ \/ /\ exec["steering"] = "pending"
        /\ exec' = [exec EXCEPT !["steering"] = "executing"]
        /\ steer' = [steer EXCEPT !.pc = "begun"]
     \/ exec["steering"] = "finished" /\ SteeringEnds
  /\ UNCHANGED <<db, shared, root, resp, awaits, mgr, wire, left>>

SteeringFences ==
  /\ steer.pc = "begun"
  /\ shared.gate = "free"
  /\ \/ /\ ~Stopping /\ Commits
        /\ steer' = [steer EXCEPT !.pc = "calling"]
        /\ UNCHANGED exec
     \/ /\ \/ Stopping /\ UNCHANGED left
           \/ ~Stopping /\ WriteFails
        /\ SteeringEnds
  /\ UNCHANGED <<db, shared, root, resp, awaits, mgr, wire>>

SteeringReachesProvider ==
  /\ steer.pc = "calling"
  /\ steer.result = "none"
  /\ steer' = [steer EXCEPT !.result = "sent"]
  /\ wire' = [wire EXCEPT !.steers = @ + 1]
  /\ UNCHANGED <<db, shared, root, resp, exec, awaits, mgr, left>>

\* Accepted text goes on to be recorded; anything else ends the job.
SteeringReturns(accepted) ==
  /\ steer.pc = "calling"
  /\ \/ /\ accepted /\ steer.result = "sent"
        /\ steer' = [steer EXCEPT !.pc = "returned"]
        /\ UNCHANGED exec
     \/ ~accepted /\ SteeringEnds
  /\ UNCHANGED <<db, shared, root, resp, awaits, mgr, wire, left>>

SteeringCancelled ==
  /\ steer.pc = "calling"
  /\ Stopping
  /\ SteeringEnds
  /\ UNCHANGED <<db, shared, root, resp, awaits, mgr, wire, left>>

SteeringIsRecorded ==
  LET allowed == db.run \in {"running", "waiting"} IN
  /\ steer.pc = "returned"
  /\ shared.gate = "free"
  /\ \/ /\ Commits /\ allowed
        /\ wire' = [wire EXCEPT !.recorded = @ + 1]
     \/ /\ (Commits /\ ~allowed) \/ WriteFails
        /\ UNCHANGED wire
  /\ SteeringEnds
  /\ UNCHANGED <<db, shared, root, resp, awaits, mgr>>

SteeringPanics ==
  /\ steer.pc \in {"begun", "calling", "returned"}
  /\ left.panics > 0
  /\ left' = [left EXCEPT !.panics = @ - 1]
  /\ steer' = [steer EXCEPT !.pc = "done"]
  /\ exec' = [exec EXCEPT !["steering"] = "finished"]
  /\ UNCHANGED <<db, shared, root, resp, awaits, mgr, wire>>

-----------------------------------------------------------------------------
(* The manager: run_manager, reconcile_task.                               *)

SpawnControl ==
  /\ mgr.pc = "run"
  /\ mgr.open
  /\ \/ /\ resp.pc = "queued"
        /\ resp' = [resp EXCEPT !.pc = "spawned"]
        /\ UNCHANGED steer
     \/ /\ steer.pc = "queued"
        /\ steer' = [steer EXCEPT !.pc = "spawned"]
        /\ UNCHANGED resp
  /\ UNCHANGED <<db, shared, root, exec, awaits, mgr, wire, left>>

\* A slot is emptied and its caller answered.
FreeSlots(controls) ==
  /\ exec' = [c \in Controls |-> IF c \in controls THEN "none" ELSE exec[c]]
  /\ awaits' = awaits \ controls
  /\ resp' = IF "response" \in controls THEN NoResponse ELSE resp
  /\ steer' = IF "steering" \in controls THEN NoSteering ELSE steer

JoinControl ==
  /\ mgr.pc = "run"
  /\ \/ resp.pc = "done" /\ FreeSlots({"response"})
     \/ steer.pc = "done" /\ FreeSlots({"steering"})
  /\ UNCHANGED <<db, shared, root, mgr, wire, left>>

\* reconcile_response_panic: an answer that was not acknowledged may have
\* been sent, one that was is cleared like any other.
JoinPanickedResponse ==
  LET q == resp.req
      acknowledged == db.approval[q].intent = "acknowledged"
  IN
  /\ mgr.pc = "run"
  /\ resp.pc = "panicked"
  /\ shared.gate = "free"
  /\ \/ acknowledged /\ UNCHANGED <<db, left>>
     \/ ~acknowledged /\ TryReject(q, "unknown")
  /\ shared' = Cleared(q, acknowledged)
  /\ FreeSlots({"response"})
  /\ UNCHANGED <<root, mgr, wire>>

\* The approval cannot be read: the attempt is stopped, and the manager
\* waits for the provider turn, which the root task holds until it ends.
AbandonPanickedResponse ==
  /\ mgr.pc = "run"
  /\ resp.pc = "panicked"
  /\ shared.gate = "free"
  /\ Fault
  /\ shared' = [Signalled EXCEPT !.stopped = TRUE]
  /\ mgr' = [mgr EXCEPT !.pc = "turn"]
  /\ UNCHANGED <<db, root, resp, steer, exec, awaits, wire>>

ManagerGetsTurn ==
  /\ mgr.pc = "turn"
  /\ root.pc \in {"returned", "failed", "gone"}
  /\ mgr' = [mgr EXCEPT !.pc = "run"]
  /\ FreeSlots({"response"})
  /\ UNCHANGED <<db, shared, root, wire, left>>

JoinRoot ==
  /\ mgr.pc = "run"
  /\ \/ /\ root.pc = "returned"
        /\ root' = [root EXCEPT !.pc = "gone"]
        /\ UNCHANGED <<shared, awaits, mgr>>
     \/ /\ root.pc = "failed"
        /\ mgr' = [mgr EXCEPT !.pc = "settle"]
        /\ shared' = Signalled
        /\ awaits' = Occupied
        /\ UNCHANGED root
  /\ UNCHANGED <<db, resp, steer, exec, wire, left>>

\* fail_owned_run_if_active for a root that could not finish.  Whatever it
\* returns the run is forgotten.
ReconcileRoot ==
  /\ mgr.pc = "settle"
  /\ root.pc = "failed"
  /\ awaits = {}
  /\ \/ Commits /\ db.run \notin Terminal /\ EndRun("failed", "failed")
     \/ Commits /\ db.run \in Terminal /\ UNCHANGED db
     \/ WriteFails /\ UNCHANGED db
  /\ root' = [root EXCEPT !.pc = "gone"]
  /\ mgr' = [mgr EXCEPT !.pc = "run"]
  /\ UNCHANGED <<shared, resp, steer, exec, awaits, wire>>

\* refresh_manager_dispatch_leases for a row that is no longer ours.
RenewalFails ==
  /\ mgr.pc = "run" /\ mgr.open
  /\ root.pc # "gone"
  /\ ~db.owned
  /\ ~shared.stopped
  /\ Stop
  /\ UNCHANGED <<db, root, resp, steer, exec, awaits, mgr, wire, left>>

\* Shutdown, a failed lease refresh or a forced exit: the manager leaves its
\* loop, stops the run and cancels the commands it has not started.
CloseSupervisor ==
  /\ mgr.pc = "run" /\ mgr.open
  /\ mgr' = [mgr EXCEPT !.open = FALSE]
  /\ Stop
  /\ FreeSlots({c \in Controls : \/ c = "response" /\ resp.pc = "queued"
                                 \/ c = "steering" /\ steer.pc = "queued"})
  /\ UNCHANGED <<db, root, wire, left>>

-----------------------------------------------------------------------------
(* The environment.                                                        *)

Interrupt ==
  /\ root.pc # "gone"
  /\ ~shared.stopped
  /\ Stop
  /\ UNCHANGED <<db, root, resp, steer, exec, awaits, mgr, wire, left>>

\* Another process claims the row after its lease ran out, and ends the run
\* in its own name.
LoseOwnership ==
  /\ db.owned
  /\ db.run \notin Terminal
  /\ db' = [db EXCEPT !.owned = FALSE]
  /\ UNCHANGED <<shared, root, resp, steer, exec, awaits, mgr, wire, left>>

ForeignInterrupt ==
  /\ ~db.owned
  /\ db.run \notin Terminal
  /\ EndRun("interrupted", "cancelled")
  /\ UNCHANGED <<shared, root, resp, steer, exec, awaits, mgr, wire, left>>

\* The run is forgotten.
Finished == root.pc = "gone" /\ UNCHANGED vars

-----------------------------------------------------------------------------
RootStep ==
  \/ RootStops \/ RootParks \/ RootWakes \/ RootSeesClosedStream
  \/ EnqueueRequest \/ PublishQueued
  \/ SettleControl \/ RootReviews \/ RootRecords
  \/ \E closed, shut \in BOOLEAN : RootClosesTurn(closed, shut)

ProviderEvent ==
  \/ \E q \in Requests : ReceiveRequest(q) \/ PublishReceived(q)
  \/ \E status \in ProviderTerminal : ReceiveTerminal(status)
  \/ ReceiveError \/ ReceiveClose \/ ReceiveUnrecordable

ResponseStep ==
  \/ ResponseBegins \/ ResponseRecordsIntent \/ ResponseFences
  \/ ResponseReturns("cancelled") \/ ResponseIsRefused
  \/ ResponseIsAcknowledged \/ ResponseClears

SteeringStep ==
  \/ SteeringBegins \/ SteeringFences \/ SteeringCancelled
  \/ SteeringIsRecorded

AdapterStep ==
  \/ AnswerReachesProvider \/ SteeringReachesProvider
  \/ \E result \in {"ok", "not", "may"} : ResponseReturns(result)
  \/ \E accepted \in BOOLEAN : SteeringReturns(accepted)
  \/ \E q \in Requests : AbandonedAnswerReachesProvider(q)

ManagerStep ==
  \/ SpawnControl \/ JoinControl \/ JoinPanickedResponse
  \/ AbandonPanickedResponse \/ ManagerGetsTurn \/ JoinRoot \/ ReconcileRoot

Environment ==
  \/ \E q \in Requests : Respond(q)
  \/ Steer \/ Interrupt \/ LoseOwnership \/ ForeignInterrupt
  \/ RenewalFails \/ CloseSupervisor
  \/ RootDies \/ ResponsePanics \/ SteeringPanics

Next == \/ RootStep \/ ProviderEvent \/ ResponseStep \/ SteeringStep
        \/ AdapterStep \/ ManagerStep \/ Environment \/ Finished

Spec == Init /\ [][Next]_vars

\* Tokio runs every task that can run; nothing obliges the user, the provider
\* or a hanging adapter call.
FairSpec == /\ Spec
            /\ WF_vars(RootStep) /\ WF_vars(ResponseStep)
            /\ WF_vars(SteeringStep) /\ WF_vars(ManagerStep)

-----------------------------------------------------------------------------
(* Properties.                                                             *)

RunStatus == {"running", "waiting"} \cup Terminal
ApprovalRow ==
  [status : {"unasked", "pending", "approved", "cancelled", "failed"},
   intent : {"none", "recorded", "rejected", "unknown", "acknowledged"}]
RunRow == [run : RunStatus, owned : BOOLEAN, approval : [Requests -> ApprovalRow]]
ActiveRun ==
  [pending : Requests \cup {NoRequest}, responding : BOOLEAN, wake : BOOLEAN,
   stopped : BOOLEAN, done : BOOLEAN, gate : {"free", "response"}]
RootTask ==
  [pc : {"loop", "parked", "enqueue", "settle", "close", "record", "returned",
         "failed", "gone"},
   finish : {"none", "stopped", "error"} \cup Terminal,
   closed : BOOLEAN, event : Requests \cup {NoRequest}, queue : Seq(Requests)]
ResponseJob ==
  [pc : {"none", "queued", "spawned", "begun", "intended", "calling",
         "returned", "acked", "done", "panicked"},
   req : Requests \cup {NoRequest},
   result : {"none", "sent", "ok", "not", "may", "cancelled"}]
SteeringJob ==
  [pc : {"none", "queued", "spawned", "begun", "calling", "returned", "done"},
   result : {"none", "sent"}]
ControlExecution == {"none", "pending", "executing", "finished"}
Manager == [pc : {"run", "settle", "turn"}, open : BOOLEAN]
Wire == [answers : [Requests -> Nat], pipe : SUBSET Requests,
         steers : Nat, recorded : Nat]

\* The type invariant: every component of the state is in its domain.
TypeOK ==
  /\ db \in RunRow
  /\ shared \in ActiveRun
  /\ root \in RootTask
  /\ resp \in ResponseJob
  /\ steer \in SteeringJob
  /\ exec \in [Controls -> ControlExecution]
  /\ awaits \in SUBSET Controls
  /\ mgr \in Manager
  /\ wire \in Wire
  /\ left \in Budget

\* An answer reaches the provider at most once, whatever is retried, and the
\* durable intent never claims less than what happened: no intent or a
\* rejected one means the answer was not sent and no longer will be, an
\* acknowledged one means it was (record / reject / acknowledge intent, the
\* dispatch certainty of every failure path of execute_response).
AnswersAreTruthful ==
  \A q \in Requests :
    LET intent == db.approval[q].intent IN
    /\ wire.answers[q] <= 1
    /\ intent \in {"none", "rejected"} => wire.answers[q] = 0 /\ q \notin wire.pipe
    /\ intent = "acknowledged" => wire.answers[q] = 1

\* The request the run waits for in the database is the one selected in
\* memory, and the other way round except between a durable acknowledgement
\* and the moment memory learns of it; the run is waiting exactly while one
\* is pending (select, clear_response_state, reconcile_response_panic).
SelectionMatchesDatabase ==
  /\ \A q \in Requests :
       /\ db.approval[q].status = "pending" => shared.pending = q
       /\ shared.pending = q =>
            \/ db.approval[q].status = "pending"
            \/ db.run \in Terminal
            \/ resp.req = q /\ resp.pc \in {"acked", "panicked"}
            \/ root.pc \in {"failed", "gone"}
  /\ db.run = "waiting" <=>
       \E q \in Requests : db.approval[q].status = "pending"

\* A run with an outcome has no request left open and no intent whose fate
\* is unsaid, and a completed run left no request it had published without
\* an acknowledged answer (terminal approval resolution of
\* append_run_event_inner and fail_run_if_active_inner).
OutcomeClosesRequests ==
  db.run \in Terminal =>
    \A q \in Requests :
      /\ db.approval[q].status # "pending"
      /\ db.approval[q].intent # "recorded"
      /\ db.run = "completed" =>
           db.approval[q].status \in {"unasked", "approved"}

\* While the run is ours no control is under way once its outcome is
\* recorded: nothing is sent to the provider any more, and no text the
\* provider accepted is still unrecorded (finish_control_executions before
\* every terminal write, the done checks under the gate).
ControlsSettleBeforeOutcome ==
  db.run \in Terminal /\ db.owned =>
    /\ resp.pc \notin {"intended", "calling", "returned", "acked"}
    /\ steer.pc \notin {"calling", "returned"}

\* An attempt that was told to stop, or has finished, is forgotten by the
\* manager, and whoever called respond or steer has an answer by then, also
\* when the manager never started the job: neither the root nor the manager
\* nor a job waits for one that waits for it (finish_control_executions,
\* reconcile_task).
StoppedAttemptEnds ==
  Stopping ~> root.pc = "gone" /\ resp.pc = "none" /\ steer.pc = "none"

\* No lost wake-up: a root parked for an answer that has been acknowledged
\* holds the permit of approval_changed, whichever came first, the root's
\* look at the selected request or the notification.
AnswerWakesRoot ==
  root.pc = "parked" /\ shared.pending = NoRequest => shared.wake

=============================================================================
