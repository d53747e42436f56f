--------------------------- MODULE DispatchLease ---------------------------
(***************************************************************************)
(* Durable ownership of provider work.                                     *)
(*                                                                         *)
(* Several incarnations of the application share one SQLite file.  Every   *)
(* run is a row of provider_runs; the columns dispatch_owner_id,           *)
(* dispatch_lease_expires_at and dispatch_certainty decide who may call a  *)
(* provider for it and who may write its outcome.  The module follows a    *)
(* run from the transaction that stores the user's message, through the    *)
(* fenced provider calls of execute_job/execute_attempt and the automatic  *)
(* fallback, to its terminal status, across crashes, shutdowns, stalls     *)
(* (macOS sleep) and the recovery passes of other incarnations.            *)
(*                                                                         *)
(* Abstractions.                                                           *)
(*  - The code compares a lease with one instant only: it is renewable     *)
(*    while expires_at >= now - 300 s and may be taken when it is < that.  *)
(*    `stale' is that comparison; Lapse makes it true.                     *)
(*  - An owner is <<i, 0>> for supervisor incarnation i and <<i, k>>,      *)
(*    k > 0, for a recovery claim of i.  The code draws a fresh UUID; the  *)
(*    model takes the least k that no row still holds.                     *)
(*  - "maybe" stands for the mutation states Observed and Unknown, which   *)
(*    every guard here treats alike.                                       *)
(*  - `effects' counts the start_turn calls that reached a provider; it is *)
(*    not part of the program's state.                                     *)
(***************************************************************************)
EXTENDS Naturals, FiniteSets

CONSTANTS
    Instances,       \* process incarnations, each with its own instance_id
    Runs,            \* identities of provider_runs rows
    LegacyRuns,      \* rows that may be there from before ownership columns
    Commands,        \* command UUIDs, one per logical user message
    Conversations,
    ConversationOf,  \* the conversation a command is addressed to
    ClaimIds,        \* numbers for recovery claims
    NoRun, NoCommand, NoOwner,
    MaxMishaps       \* bound: lapses of a lease whose holder is alive, and
                     \* failures of a task or of a recovery pass

ASSUME DispatchConstants ==
    /\ LegacyRuns \subseteq Runs
    /\ ConversationOf \in [Commands -> Conversations]
    /\ ClaimIds \subseteq Nat \ {0}
    /\ NoRun \notin Runs
    /\ NoCommand \notin Commands
    /\ NoOwner \notin Instances \X Nat
    /\ MaxMishaps \in Nat

VARIABLES
    run,      \* durable: the rows of provider_runs
    proc,     \* where each incarnation is in its life
    att,      \* att[i][r]: where i's root task for run r is
    stop,     \* stop[i]: runs whose cancellation or shutdown flag is set
    rec,      \* rec[i]: the recovery pass of i
    effects,  \* provider turns started for each run
    mishaps

vars == <<run, proc, att, stop, rec, effects, mishaps>>

-----------------------------------------------------------------------------
(* Types *)

ActiveStatus   == {"queued", "running", "waiting"}
TerminalStatus == {"completed", "interrupted", "failed"}

Owners == {NoOwner} \cup (Instances \X (ClaimIds \cup {0}))

Row == [status    : {"absent"} \cup ActiveStatus \cup TerminalStatus,
        mutation  : {"none", "maybe"},
        certainty : {"null", "not", "may"},
        owner     : Owners,
        stale     : BOOLEAN,
        session   : BOOLEAN,               \* a native session id is stored
        intent    : BOOLEAN,               \* enough durable intent to restart
        fallback  : BOOLEAN,               \* the request carries a fallback
        origin    : Runs \cup {NoRun},     \* fallback_from_run_id
        command   : Commands \cup {NoCommand}]

NoRow == [status |-> "absent", mutation |-> "none", certainty |-> "null",
          owner |-> NoOwner, stale |-> FALSE, session |-> FALSE,
          intent |-> FALSE, fallback |-> FALSE, origin |-> NoRun,
          command |-> NoCommand]

(* Positions of a root task.  The ...Fenced positions lie between a        *)
(* successful lease refresh and the provider call it guards.               *)
BeforeTurn == {"queued", "starting", "sessionFenced", "sessionCall",
               "bound", "turnFenced", "turnCall"}
AttemptPc  == BeforeTurn \cup
              {"none", "turnReached", "live", "handover", "reconcile"}

Plans    == {"none", "interrupt", "reenter"}
NoPlan   == [r \in Runs |-> "none"]
IdlePass == [phase |-> "idle", plan |-> NoPlan, held |-> NoRun,
             held_plan |-> "none", claim |-> 0]
Pass     == [phase : {"idle", "ambiguous", "queued"}, plan : [Runs -> Plans],
             held : Runs \cup {NoRun}, held_plan : Plans,
             claim : ClaimIds \cup {0}]

TypeOK ==
    /\ run \in [Runs -> Row]
    /\ proc \in [Instances -> {"new", "starting", "open", "closing", "down"}]
    /\ att \in [Instances -> [Runs -> AttemptPc]]
    /\ stop \in [Instances -> SUBSET Runs]
    /\ \A i \in Instances : \A r \in stop[i] : att[i][r] # "none"
    /\ rec \in [Instances -> Pass]
    /\ effects \in [Runs -> Nat]
    /\ mishaps \in 0..MaxMishaps

-----------------------------------------------------------------------------
(* Reading the durable row *)

Supervisor(i)  == <<i, 0>>
Active(r)      == run[r].status \in ActiveStatus
Terminal(r)    == run[r].status \in TerminalStatus
Owns(i, r)     == run[r].owner = Supervisor(i)
Running(i)     == proc[i] \in {"starting", "open", "closing"}
LifecycleOpen(i) == proc[i] \in {"starting", "open"}

(* refresh_provider_dispatch_lease would update the row *)
LeaseRenewable(i, r) == Owns(i, r) /\ ~run[r].stale /\ Active(r)

(* A failed primary whose fallback this owner is about to run *)
FallbackTransition(i, r) ==
    /\ Owns(i, r) /\ Terminal(r)
    /\ \E f \in Runs : run[f].origin = r /\ Owns(i, f) /\ Active(f)

(* Code in a live process still holds the owner of this row: a root task   *)
(* the manager renews, a fallback about to be started, or the pass that    *)
(* holds the recovery claim.                                               *)
Held(r) ==
    \E i \in Instances :
        /\ Running(i)
        /\ \/ Owns(i, r) /\ att[i][r] # "none"
           \/ /\ Owns(i, r) /\ run[r].origin # NoRun
              /\ att[i][run[r].origin] = "handover"
           \/ rec[i].held = r /\ run[r].owner = <<i, rec[i].claim>>

ConversationBusy(c) ==
    \E r \in Runs : Active(r) /\ ConversationOf[run[r].command] = c

-----------------------------------------------------------------------------
(* Writing it *)

Update(r, row) == run' = [run EXCEPT ![r] = row]

ClosedRow(r, status) == [run[r] EXCEPT !.status = status]

FailedRow(r, certainty) ==
    [run[r] EXCEPT !.status = "failed", !.certainty = certainty,
                   !.mutation = IF certainty = "not" THEN @ ELSE "maybe"]

(* The row prepare_submission and insert_atomic_fallback insert: queued    *)
(* and claimed for the supervisor in the same transaction.                 *)
ClaimedRow(i, origin, command, fallback) ==
    [NoRow EXCEPT !.status = "queued", !.certainty = "may",
                  !.owner = Supervisor(i), !.intent = TRUE,
                  !.fallback = fallback, !.origin = origin,
                  !.command = command]

Goto(i, r, pc) == att' = [att EXCEPT ![i][r] = pc]

(* The root task is joined: its ActiveRun leaves the manager's map *)
EndAttempt(i, r) ==
    /\ Goto(i, r, "none")
    /\ stop' = [stop EXCEPT ![i] = @ \ {r}]

-----------------------------------------------------------------------------
(* Rows of an older release have no owner and no recorded certainty.  That *)
(* release bound the session before it started the turn.                   *)
LegacyRows(statuses, mutations, sessions) ==
    [status : statuses, mutation : mutations, certainty : {"null"},
     owner : {NoOwner}, stale : {FALSE}, session : sessions,
     intent : BOOLEAN, fallback : {FALSE}, origin : {NoRun},
     command : {NoCommand}]

LegacyShape ==
    LegacyRows({"queued"}, {"none"}, BOOLEAN)
    \cup LegacyRows({"running", "waiting"}, {"none", "maybe"}, {TRUE})

LegacyEffects(row) ==
    CASE row.status \in {"running", "waiting"} -> {1}
      [] row.status = "queued" /\ row.session  -> {0, 1}
      [] OTHER                                 -> {0}

Init ==
    /\ \E legacy \in SUBSET LegacyRuns :
       \E shape \in [legacy -> LegacyShape], sent \in [legacy -> Commands] :
          /\ \A r, s \in legacy : r # s =>
                ConversationOf[sent[r]] # ConversationOf[sent[s]]
          /\ run = [r \in Runs |-> IF r \in legacy
                                   THEN [shape[r] EXCEPT !.command = sent[r]]
                                   ELSE NoRow]
    /\ effects \in [Runs -> {0, 1}]
    /\ \A r \in Runs : effects[r] \in LegacyEffects(run[r])
    /\ proc = [i \in Instances |-> "new"]
    /\ att = [i \in Instances |-> [r \in Runs |-> "none"]]
    /\ stop = [i \in Instances |-> {}]
    /\ rec = [i \in Instances |-> IdlePass]
    /\ mishaps = 0

-----------------------------------------------------------------------------
(* The life of a process *)

(* NativeState opens the store, creates the supervisor (a fresh            *)
(* instance_id) and reconciles before it serves the user.                  *)
Boot(i) ==
    /\ proc[i] = "new"
    /\ proc' = [proc EXCEPT ![i] = "starting"]
    /\ UNCHANGED <<run, att, stop, rec, effects, mishaps>>

(* The process dies; the file stays.  In-flight provider calls have        *)
(* already had their effect or never will.                                 *)
Crash(i) ==
    /\ Running(i)
    /\ proc' = [proc EXCEPT ![i] = "down"]
    /\ att' = [att EXCEPT ![i] = [r \in Runs |-> "none"]]
    /\ stop' = [stop EXCEPT ![i] = {}]
    /\ rec' = [rec EXCEPT ![i] = IdlePass]
    /\ UNCHANGED <<run, effects, mishaps>>

(* RunSupervisor::shutdown: the lifecycle leaves Open and the manager sets *)
(* every run's shutdown flag.                                              *)
BeginShutdown(i) ==
    /\ proc[i] = "open"
    /\ proc' = [proc EXCEPT ![i] = "closing"]
    /\ stop' = [stop EXCEPT ![i] = {r \in Runs : att[i][r] # "none"}]
    /\ UNCHANGED <<run, att, rec, effects, mishaps>>

(* The manager has joined its last task *)
Exit(i) ==
    /\ proc[i] = "closing"
    /\ \A r \in Runs : att[i][r] = "none"
    /\ proc' = [proc EXCEPT ![i] = "down"]
    /\ rec' = [rec EXCEPT ![i] = IdlePass]
    /\ UNCHANGED <<run, att, stop, effects, mishaps>>

(* Wall-clock time passes the lease and its grace.  While the holder lives *)
(* it renews every 15 s, so only a stall of the process or the machine     *)
(* gets there; an abandoned lease always does.                             *)
Lapse(r) ==
    /\ Active(r) /\ run[r].owner # NoOwner /\ ~run[r].stale
    /\ Held(r) => mishaps < MaxMishaps
    /\ Update(r, [run[r] EXCEPT !.stale = TRUE])
    /\ mishaps' = IF Held(r) THEN mishaps + 1 ELSE mishaps
    /\ UNCHANGED <<proc, att, stop, rec, effects>>

-----------------------------------------------------------------------------
(* Accepting a message *)

(* Mutant: the command is forgotten when its run ends *)
CommandStoredWhileActive(c) == \E s \in Runs : run[s].command = c /\ Active(s)

CommandStored(c) == \E s \in Runs : run[s].command = c

(* submit_persisted / prepare_claimed_submission: one transaction checks   *)
(* the command UUID and the conversation, inserts the run and claims it.   *)
(* A command already stored returns its run and changes nothing.           *)
Submit(i, r, c) ==
    /\ proc[i] = "open"
    /\ run[r].status = "absent"
    /\ ~CommandStored(c)
    /\ ~ConversationBusy(ConversationOf[c])
    /\ \E fallback \in BOOLEAN : Update(r, ClaimedRow(i, NoRun, c, fallback))
    /\ Goto(i, r, "queued")
    /\ UNCHANGED <<proc, stop, rec, effects, mishaps>>

(* RunSupervisor::interrupt by the user, or force_shutdown *)
RequestStop(i, r) ==
    /\ Running(i) /\ att[i][r] # "none" /\ r \notin stop[i]
    /\ stop' = [stop EXCEPT ![i] = @ \cup {r}]
    /\ UNCHANGED <<run, proc, att, rec, effects, mishaps>>

(* refresh_manager_dispatch_leases: a run whose lease can no longer be     *)
(* renewed is told to stop, unless it is between a primary and its         *)
(* fallback.  A successful renewal leaves `stale' false.                   *)
RenewalFails(i, r) ==
    /\ LifecycleOpen(i) /\ att[i][r] # "none" /\ r \notin stop[i]
    /\ ~LeaseRenewable(i, r) /\ ~FallbackTransition(i, r)
    /\ stop' = [stop EXCEPT ![i] = @ \cup {r}]
    /\ UNCHANGED <<run, proc, att, rec, effects, mishaps>>

-----------------------------------------------------------------------------
(* The root task: execute_job and execute_attempt *)

(* The outcome of a write fenced by require_dispatch_owner: an owner       *)
(* closes the row; anyone else gets DispatchOwnerMismatch, returns Err and *)
(* is reconciled by the manager.                                           *)
CloseOwned(i, r, status) ==
    IF Owns(i, r) /\ Active(r)
    THEN Update(r, ClosedRow(r, status)) /\ EndAttempt(i, r)
    ELSE Goto(i, r, "reconcile") /\ UNCHANGED <<run, stop>>

(* A job that is cancelled before it starts.  A pending job whose write    *)
(* is refused is dropped by the manager without a task to reconcile.       *)
InterruptQueued(i, r) ==
    /\ att[i][r] = "queued" /\ r \in stop[i]
    /\ \/ CloseOwned(i, r, "interrupted")
       \/ ~Owns(i, r) /\ EndAttempt(i, r) /\ UNCHANGED run
    /\ UNCHANGED <<proc, rec, effects, mishaps>>

Begin(i, r) ==
    /\ att[i][r] = "queued" /\ r \notin stop[i]
    /\ Goto(i, r, "starting")
    /\ UNCHANGED <<run, proc, stop, rec, effects, mishaps>>

(* The durable fence before start_session/resume_session and start_turn *)
Fence(i, r, from, to) ==
    /\ att[i][r] = from
    /\ Goto(i, r, IF LeaseRenewable(i, r) THEN to ELSE "reconcile")
    /\ UNCHANGED <<run, proc, stop, rec, effects, mishaps>>

FenceSession(i, r) == Fence(i, r, "starting", "sessionFenced")
FenceTurn(i, r)    == Fence(i, r, "bound", "turnFenced")

(* race_control polls the call only if no flag is set *)
CallSession(i, r) ==
    /\ att[i][r] = "sessionFenced" /\ r \notin stop[i]
    /\ Goto(i, r, "sessionCall")
    /\ UNCHANGED <<run, proc, stop, rec, effects, mishaps>>

(* The session answered: bind_owned_native_session_with_group *)
BindSession(i, r) ==
    /\ att[i][r] = "sessionCall"
    /\ IF Owns(i, r) /\ run[r].status = "queued"
       THEN /\ Update(r, [run[r] EXCEPT !.session = TRUE])
            /\ Goto(i, r, "bound")
       ELSE Goto(i, r, "reconcile") /\ UNCHANGED run
    /\ UNCHANGED <<proc, stop, rec, effects, mishaps>>

(* start_turn: the provider gets the prompt ("turnReached") or not *)
CallTurn(i, r) ==
    /\ att[i][r] = "turnFenced" /\ r \notin stop[i]
    /\ \/ /\ Goto(i, r, "turnReached")
          /\ effects' = [effects EXCEPT ![r] = @ + 1]
       \/ /\ Goto(i, r, "turnCall")
          /\ UNCHANGED effects
    /\ UNCHANGED <<run, proc, stop, rec, mishaps>>

TurnAccepted(i, r) ==
    /\ att[i][r] = "turnReached"
    /\ Goto(i, r, "live")
    /\ UNCHANGED <<run, proc, stop, rec, effects, mishaps>>

(* Mutant: start_turn is awaited without racing the flags *)
CancelSessionOnly(i, r) ==
    /\ att[i][r] \in {"sessionFenced", "sessionCall", "turnFenced"}
    /\ r \in stop[i]
    /\ CloseOwned(i, r, "interrupted")
    /\ UNCHANGED <<proc, rec, effects, mishaps>>

(* interrupt_before_start: a flag wins the race against the call *)
CancelCall(i, r) ==
    /\ att[i][r] \in {"sessionFenced", "sessionCall", "turnFenced",
                      "turnCall", "turnReached"}
    /\ r \in stop[i]
    /\ CloseOwned(i, r, "interrupted")
    /\ UNCHANGED <<proc, rec, effects, mishaps>>

(* Mutant: every call error is taken for one that dispatched nothing *)
MayReportAlways(i, r, certainty) ==
    att[i][r] \in {"sessionCall", "turnCall", "turnReached"}

(* The adapter answers with an error.  It reports NotDispatched only when  *)
(* nothing reached the provider.                                           *)
MayReport(i, r, certainty) ==
    IF certainty = "not" THEN att[i][r] \in {"sessionCall", "turnCall"}
    ELSE att[i][r] \in {"sessionCall", "turnCall", "turnReached"}

(* fail_attempt without a fallback to go to *)
CallFails(i, r, certainty) ==
    /\ MayReport(i, r, certainty)
    /\ certainty = "not" => ~run[r].fallback
    /\ IF Owns(i, r) /\ Active(r)
       THEN Update(r, FailedRow(r, certainty)) /\ EndAttempt(i, r)
       ELSE Goto(i, r, "reconcile") /\ UNCHANGED <<run, stop>>
    /\ UNCHANGED <<proc, rec, effects, mishaps>>

(* fail_and_create_owned_fallback: closing the primary and inserting the   *)
(* claimed fallback row is one transaction (insert_atomic_fallback).       *)
FallBack(i, r, f) ==
    /\ MayReport(i, r, "not") /\ run[r].fallback
    /\ run[f].status = "absent"
    /\ IF /\ Owns(i, r) /\ Active(r)
          /\ run[r].mutation = "none" /\ run[r].origin = NoRun
          /\ \A s \in Runs : run[s].origin # r
       THEN /\ run' = [run EXCEPT
                  ![r] = FailedRow(r, "not"),
                  ![f] = ClaimedRow(i, r, run[r].command, FALSE)]
            /\ Goto(i, r, "handover")
       ELSE Goto(i, r, "reconcile") /\ UNCHANGED run
    /\ UNCHANGED <<proc, stop, rec, effects, mishaps>>

(* execute_job goes on with the fallback: the ActiveRun, with its flags,   *)
(* now stands for the new run.                                             *)
StartFallback(i, r, f) ==
    /\ att[i][r] = "handover" /\ run[f].origin = r
    /\ att' = [att EXCEPT ![i][r] = "none", ![i][f] = "queued"]
    /\ stop' = [stop EXCEPT ![i] =
                  (@ \ {r}) \cup (IF r \in @ THEN {f} ELSE {})]
    /\ UNCHANGED <<run, proc, rec, effects, mishaps>>

(* The event loop persists what the provider reports, owner-fenced *)
RecordEvent(i, r) ==
    /\ att[i][r] = "live" /\ Owns(i, r)
    /\ \/ run[r].status = "queued"
          /\ Update(r, [run[r] EXCEPT !.status = "running"])
       \/ run[r].status = "running"
          /\ Update(r, [run[r] EXCEPT !.mutation = "maybe"])
       \/ run[r].status = "running"
          /\ Update(r, [run[r] EXCEPT !.status = "waiting"])
       \/ run[r].status = "waiting"
          /\ Update(r, [run[r] EXCEPT !.status = "running"])
    /\ UNCHANGED <<proc, att, stop, rec, effects, mishaps>>

(* finalize_attempt: the stream ended, or a flag stopped it.  Only a       *)
(* started turn can complete.                                              *)
Finalize(i, r) ==
    /\ att[i][r] = "live"
    /\ \/ run[r].status = "running" /\ CloseOwned(i, r, "completed")
       \/ CloseOwned(i, r, "interrupted")
       \/ /\ Owns(i, r) /\ Active(r)
          /\ Update(r, FailedRow(r, "may")) /\ EndAttempt(i, r)
    /\ UNCHANGED <<proc, rec, effects, mishaps>>

(* Mutant: fail_run_if_active instead of fail_owned_run_if_active *)
ReconcileUnfenced(i, r) ==
    /\ att[i][r] = "reconcile"
    /\ IF Active(r) THEN Update(r, FailedRow(r, "may")) ELSE UNCHANGED run
    /\ EndAttempt(i, r)
    /\ UNCHANGED <<proc, rec, effects, mishaps>>

(* reconcile_task after an Err or a panic: fail_owned_run_if_active *)
Reconcile(i, r) ==
    /\ att[i][r] = "reconcile"
    /\ IF Owns(i, r) /\ Active(r) THEN Update(r, FailedRow(r, "may"))
                                  ELSE UNCHANGED run
    /\ EndAttempt(i, r)
    /\ UNCHANGED <<proc, rec, effects, mishaps>>

(* ... and the store refuses: mark_reconciliation_failed, the row stays *)
ReconcileFails(i, r) ==
    /\ att[i][r] = "reconcile"
    /\ EndAttempt(i, r)
    /\ UNCHANGED <<run, proc, rec, effects, mishaps>>

(* A panic or a store error inside the task *)
TaskFails(i, r) ==
    /\ att[i][r] \notin {"none", "queued", "reconcile", "handover"}
    /\ mishaps < MaxMishaps
    /\ Goto(i, r, "reconcile")
    /\ mishaps' = mishaps + 1
    /\ UNCHANGED <<run, proc, stop, rec, effects>>

-----------------------------------------------------------------------------
(* Recovery: reconcile_recoverable_runs, at startup (only unowned rows may *)
(* be claimed) and every two minutes afterwards (only stale ones).         *)

SetPass(i, pass) == rec' = [rec EXCEPT ![i] = pass]

(* load_ambiguous_recovery_run_ids: whatever runs or waits is interrupted *)
StartPass(i) ==
    /\ LifecycleOpen(i) /\ rec[i].phase = "idle"
    /\ SetPass(i, [IdlePass EXCEPT
            !.phase = "ambiguous",
            !.plan  = [r \in Runs |->
                IF run[r].status \in {"running", "waiting"} THEN "interrupt"
                                                            ELSE "none"]])
    /\ UNCHANGED <<run, proc, att, stop, effects, mishaps>>

(* A queued row may be started again only if it proves that nothing was    *)
(* dispatched for it.                                                      *)
SafeToReenter(row) ==
    /\ row.certainty # "may" /\ row.mutation = "none"
    /\ row.intent /\ ~row.session

PassDrained(i) == rec[i].held = NoRun /\ rec[i].plan = NoPlan

(* load_queued_recovery_batch *)
ListQueued(i) ==
    /\ LifecycleOpen(i) /\ rec[i].phase = "ambiguous" /\ PassDrained(i)
    /\ SetPass(i, [IdlePass EXCEPT
            !.phase = "queued",
            !.plan  = [r \in Runs |->
                IF run[r].status # "queued" THEN "none"
                ELSE IF SafeToReenter(run[r]) THEN "reenter"
                     ELSE "interrupt"]])
    /\ UNCHANGED <<run, proc, att, stop, effects, mishaps>>

(* The pass is over; the first one lets the application open *)
EndPass(i) ==
    /\ LifecycleOpen(i) /\ rec[i].phase = "queued" /\ PassDrained(i)
    /\ SetPass(i, IdlePass)
    /\ proc' = [proc EXCEPT ![i] = "open"]
    /\ UNCHANGED <<run, att, stop, effects, mishaps>>

(* Mutant: the claim does not look at the status *)
ClaimableInAnyStatus(i, r) ==
    IF proc[i] = "starting" THEN run[r].owner = NoOwner
    ELSE run[r].owner # NoOwner /\ ~Owns(i, r) /\ run[r].stale

(* Mutant: only supervisors' claims are reaped, not recovery claims *)
ClaimableFromSupervisor(i, r) ==
    /\ Active(r)
    /\ IF proc[i] = "starting" THEN run[r].owner = NoOwner
       ELSE /\ ~Owns(i, r) /\ run[r].stale
            /\ \E j \in Instances : Owns(j, r)

(* claim_unowned_provider_dispatch_recovery at startup,                    *)
(* claim_stale_provider_dispatch afterwards: the compare-and-set that      *)
(* transfers the row to a fresh recovery owner.                            *)
Claimable(i, r) ==
    /\ Active(r)
    /\ IF proc[i] = "starting" THEN run[r].owner = NoOwner
       ELSE run[r].owner # NoOwner /\ ~Owns(i, r) /\ run[r].stale

(* A claim id is a fresh UUID; the least that no row holds stands for it. *)
FreshClaim(i, k) ==
    /\ \A s \in Runs : run[s].owner # <<i, k>>
    /\ \A j \in ClaimIds : j < k => \E s \in Runs : run[s].owner = <<i, j>>

ClaimForRecovery(i, r) ==
    /\ LifecycleOpen(i) /\ rec[i].held = NoRun /\ rec[i].plan[r] # "none"
    /\ IF Claimable(i, r)
       THEN \E k \in ClaimIds :
              /\ FreshClaim(i, k)
              /\ Update(r, [run[r] EXCEPT !.owner = <<i, k>>,
                                          !.stale = FALSE])
              /\ SetPass(i, [rec[i] EXCEPT
                     !.plan[r] = "none", !.held = r,
                     !.held_plan = rec[i].plan[r], !.claim = k])
       ELSE SetPass(i, [rec[i] EXCEPT !.plan[r] = "none"]) /\ UNCHANGED run
    /\ UNCHANGED <<proc, att, stop, effects, mishaps>>

HoldsClaim(i, r) == run[r].owner = <<i, rec[i].claim>>

LetGo(i) == SetPass(i, [rec[i] EXCEPT !.held = NoRun, !.held_plan = "none",
                                      !.claim = 0])

(* An error leaves the pass; a failed startup pass closes the application *)
AbandonPass(i) ==
    /\ SetPass(i, IdlePass)
    /\ proc' = [proc EXCEPT ![i] = IF @ = "starting" THEN "closing" ELSE @]
    /\ stop' = IF proc[i] = "starting"
               THEN [stop EXCEPT ![i] = {r \in Runs : att[i][r] # "none"}]
               ELSE stop

(* interrupt_owned_recovery: child first, then the root, each write fenced *)
(* by the claim; here the root's.  A row someone else closed is skipped.   *)
InterruptOwnedRecovery(i, r) ==
    /\ Running(i) /\ rec[i].held = r /\ rec[i].held_plan = "interrupt"
    /\ \/ ~Active(r) /\ LetGo(i) /\ UNCHANGED <<run, proc, stop>>
       \/ /\ Active(r) /\ HoldsClaim(i, r)
          /\ Update(r, ClosedRow(r, "interrupted"))
          /\ LetGo(i) /\ UNCHANGED <<proc, stop>>
       \/ /\ Active(r) /\ ~HoldsClaim(i, r)
          /\ AbandonPass(i) /\ UNCHANGED run
    /\ UNCHANGED <<att, effects, mishaps>>

Promoted(i, r) == [run[r] EXCEPT !.owner = Supervisor(i),
                                 !.certainty = "may", !.stale = FALSE]

Promotable(i, r) ==
    /\ HoldsClaim(i, r) /\ run[r].status = "queued"
    /\ run[r].mutation = "none" /\ run[r].certainty # "may"
    /\ ~run[r].session

(* recover_persisted: promote_recovery_dispatch_claim hands the row to     *)
(* this supervisor and enqueues it.  Losing the compare-and-set leaves the *)
(* row to the winner; no admission permit turns it into an interruption.   *)
RecoverPersisted(i, r) ==
    /\ LifecycleOpen(i) /\ rec[i].held = r /\ rec[i].held_plan = "reenter"
    /\ IF Promotable(i, r)
       THEN Update(r, Promoted(i, r)) /\ Goto(i, r, "queued")
       ELSE UNCHANGED <<run, att>>
    /\ LetGo(i)
    /\ UNCHANGED <<proc, stop, effects, mishaps>>

(* The deadline drops the pass while the promotion commits: the row is the *)
(* supervisor's, and no task was enqueued for it.                          *)
PromotionLost(i, r) ==
    /\ LifecycleOpen(i) /\ rec[i].held = r /\ rec[i].held_plan = "reenter"
    /\ Promotable(i, r) /\ mishaps < MaxMishaps
    /\ Update(r, Promoted(i, r))
    /\ AbandonPass(i)
    /\ mishaps' = mishaps + 1
    /\ UNCHANGED <<att, effects>>

RecoveryQueueFull(i, r) ==
    /\ LifecycleOpen(i) /\ rec[i].held = r /\ rec[i].held_plan = "reenter"
    /\ SetPass(i, [rec[i] EXCEPT !.held_plan = "interrupt"])
    /\ UNCHANGED <<run, proc, att, stop, effects, mishaps>>

(* A store error or the ten-second deadline ends the pass; so does a       *)
(* lifecycle that is no longer open.                                       *)
PassFails(i) ==
    /\ Running(i) /\ rec[i].phase # "idle"
    /\ \/ proc[i] = "closing" /\ UNCHANGED mishaps
       \/ mishaps < MaxMishaps /\ mishaps' = mishaps + 1
    /\ AbandonPass(i)
    /\ UNCHANGED <<run, att, effects>>

-----------------------------------------------------------------------------
(* The task's own steps; a provider that never answers is allowed *)
AttemptStep(i, r) ==
    \/ InterruptQueued(i, r) \/ Begin(i, r)
    \/ FenceSession(i, r) \/ CallSession(i, r) \/ BindSession(i, r)
    \/ FenceTurn(i, r) \/ CallTurn(i, r) \/ TurnAccepted(i, r)
    \/ CancelCall(i, r) \/ RecordEvent(i, r) \/ Finalize(i, r)
    \/ \E certainty \in {"not", "may"} : CallFails(i, r, certainty)
    \/ \E f \in Runs : FallBack(i, r, f) \/ StartFallback(i, r, f)
    \/ Reconcile(i, r) \/ ReconcileFails(i, r) \/ TaskFails(i, r)

PassStep(i) ==
    \/ StartPass(i) \/ ListQueued(i) \/ EndPass(i)
    \/ \E r \in Runs :
          \/ ClaimForRecovery(i, r) \/ InterruptOwnedRecovery(i, r)
          \/ RecoverPersisted(i, r) \/ RecoveryQueueFull(i, r)

Next ==
    \/ \E i \in Instances :
          \/ Boot(i) \/ Crash(i) \/ BeginShutdown(i) \/ Exit(i)
          \/ PassStep(i) \/ PassFails(i)
          \/ \E r \in Runs :
                \/ \E c \in Commands : Submit(i, r, c)
                \/ RequestStop(i, r) \/ RenewalFails(i, r)
                \/ AttemptStep(i, r) \/ PromotionLost(i, r)
    \/ \E r \in Runs : Lapse(r)

Spec == Init /\ [][Next]_vars

(* What the scheduling justifies.  A process that stays up keeps making    *)
(* recovery passes (a timer), and a pass that finds its supervisor closed  *)
(* returns; it settles a task that was told to stop (every await of the    *)
(* task races the flags); an abandoned lease lapses.                       *)
(* Nothing is assumed of the user, of crashes or of provider answers.      *)
SettleStep(i, r) ==
    \/ InterruptQueued(i, r) \/ FenceSession(i, r) \/ CancelCall(i, r)
    \/ FenceTurn(i, r) \/ Finalize(i, r) \/ Reconcile(i, r)
    \/ \E f \in Runs : StartFallback(i, r, f)

Fairness ==
    /\ \A i \in Instances :
          WF_vars(PassStep(i) \/ (proc[i] = "closing" /\ PassFails(i)))
    /\ \A i \in Instances, r \in Runs :
          WF_vars(SettleStep(i, r) /\ r \in stop[i])
    /\ \A r \in Runs : WF_vars(Lapse(r) /\ ~Held(r))

FairSpec == Spec /\ Fairness

-----------------------------------------------------------------------------
(* Properties *)

(* A user message is never replayed: of all the runs that answer one       *)
(* command - the first attempt, its fallback, re-entries after a crash, in *)
(* whatever incarnation - at most one starts a provider turn, once.        *)
OneTurnPerMessage ==
    \A r, s \in Runs :
        /\ effects[r] <= 1
        /\ /\ effects[r] > 0 /\ effects[s] > 0
           /\ run[r].command = run[s].command
           => r = s

(* The durable evidence never understates: a row that says NotDispatched,  *)
(* or that recovery would consider safe to start again, belongs to a run   *)
(* no provider has received.                                               *)
EvidenceIsSound ==
    \A r \in Runs :
        \/ run[r].certainty = "not"
        \/ run[r].status = "queued" /\ SafeToReenter(run[r])
        => effects[r] = 0

(* A run is executed by one root task in one incarnation, however the      *)
(* recovery passes, re-entries and fallbacks of several processes race.    *)
OneExecutor ==
    \A i, j \in Instances, r \in Runs :
        att[i][r] # "none" /\ att[j][r] # "none" => i = j

(* A conversation serializes turns: submissions, fallbacks and recovered   *)
(* rows never make two of its runs active at once.                         *)
OneActiveRunPerConversation ==
    \A r, s \in Runs :
        /\ Active(r) /\ Active(s)
        /\ ConversationOf[run[r].command] = ConversationOf[run[s].command]
        => r = s

(* The four together, as one invariant of the dispatch protocol            *)
DispatchIsSafe ==
    /\ OneTurnPerMessage
    /\ EvidenceIsSound
    /\ OneExecutor
    /\ OneActiveRunPerConversation

(* A root task that lost its row to recovery changes nothing durable: its  *)
(* steps leave every row alone, also those that insert a fallback.         *)
FormerOwnerIsFenced ==
    [][\A i \in Instances, r \in Runs :
          /\ att[i][r] # "none" /\ att'[i][r] # att[i][r]
          /\ Running(i) /\ ~Owns(i, r)
          => run' = run]_vars

(* A terminal outcome is final: no late task, reconciler, recovery claim   *)
(* or fallback rewrites it or takes it over.                               *)
OutcomeIsFinal ==
    [][\A r \in Runs : Terminal(r) => run'[r] = run[r]]_vars

(* The deadline dropped the pass that promoted the row: its supervisor     *)
(* lives, has no task for it, and never claims a row of its own.           *)
Stranded(r) ==
    \E i \in Instances : Owns(i, r) /\ Running(i) /\ att[i][r] = "none"

(* A run whose owner is gone (a dead incarnation, or a recovery pass that  *)
(* was cut short) is closed, taken up again by a live task, or stranded by *)
(* the deadline, provided that from some time on an incarnation is open    *)
(* and serves its recovery timer.                                          *)
Abandoned(r) ==
    /\ Active(r) /\ run[r].owner # NoOwner /\ ~Held(r)
    /\ \E i \in Instances, k \in ClaimIds \cup {0} :
          run[r].owner = <<i, k>> /\ (k > 0 \/ proc[i] = "down")

Settled(r) ==
    \/ Terminal(r)
    \/ \E i \in Instances : Owns(i, r) /\ att[i][r] # "none"
    \/ Stranded(r)

AbandonedRunSettles ==
    <>[](\E i \in Instances : proc[i] = "open")
        => \A r \in Runs : Abandoned(r) ~> Settled(r)

(* A task told to stop ends: no provider call, fence or lost row holds it  *)
StoppedTaskEnds ==
    \A i \in Instances, r \in Runs : r \in stop[i] ~> r \notin stop[i]

(* Every message is accepted once, starts at most one turn and, once all   *)
(* its runs are terminal, is never opened again.                           *)
AcceptedCommands == {run[r].command : r \in Runs} \ {NoCommand}
StartedCommands  == {run[r].command : r \in {s \in Runs : effects[s] > 0}}
ClosedCommands   ==
    {c \in AcceptedCommands :
        \A r \in Runs : run[r].command = c => Terminal(r)}

Ledger == INSTANCE CommandLedger
            WITH accepted <- AcceptedCommands, started <- StartedCommands,
                 closed <- ClosedCommands

ImplementsLedger == Ledger!Spec
=============================================================================
