# Verification of prompting-time

prompting-time is a desktop application (Rust core, Tauri shell, TypeScript
front end) that sends a user's messages to coding agents (Codex, Claude),
records everything they do in one SQLite file, and survives crashes, sleep and
several processes sharing that file. This directory models the parts of it where
ordering, failure and ownership matter, checks them with TLC and proves the
central results with TLAPS.

Paths are relative to the repository; `core/` stands for
`crates/prompting-time-core/src/`, "the design" for
`docs/superpowers/specs/2026-09-03-prompting-time-design.md`. PROJECT.json maps every
definition to its lines and lists the hazards with the properties that cover them.

## Inventory

| Component | Where | State it keeps | Module |
|---|---|---|---|
| Dispatch leases and recovery | `core/store.rs`, `core/runtime.rs`, `core/app.rs`, `src-tauri/src/state.rs` | rows of `provider_runs`: status, evidence, owner, lease | `DispatchLease`, `CommandLedger` |
| Attempt execution and controls | `core/runtime.rs` 1097–1319, 1822–2425, 2584–4170 | attempt gate, selected request, answers under way, flags | `Attempt` |
| Event loop and staged rows | `core/runtime.rs` 2584–3850, `core/store.rs` | four queues in memory, staged and published rows | `EventOrder` |
| Run supervisor and admission | `core/runtime.rs` 674–1820 | permits, command channel, queue of runs, tasks | `Supervisor` |
| Event store | `core/store.rs`, `core/store/operations.rs`, `core/tool_operation.rs`, `core/store/context_compaction.rs` | runs, agents, native turns, approvals, operations, compactions | `Journal` |
| Router and handoff | `core/router.rs`, `core/handoff.rs`, `core/app.rs` | provider sessions and how far each knows the conversation | `Context` |
| Codex adapter | `core/providers/codex*.rs` | one process, turn registrations, open requests, child threads | `CodexTurns`, `CodexChildren` |
| Claude adapter | `core/providers/claude*.rs`, `core/providers/process.rs` | one process per turn, requests, tasks, streamed text | `Claude`, `ClaudeProtocol` |
| Workspace manager | `core/workspace.rs`, `core/workspace/owned_fs.rs` | worktrees, scratch directories, markers, the gate | `Workspace` |
| Native shell and front-end store | `src-tauri/src/state.rs`, `src/app/store.ts` | event sequence, notification tracker, sidebar | `View` |

How they interact. A submission (`Context`) reads the conversation, chooses a
provider and stores a run, which takes a place in the supervisor (`Supervisor`) and
a lease on its row (`DispatchLease`). Its root task binds a session, starts a
turn through an adapter (`CodexTurns`, `Claude`) and reads the adapter's stream
(`Attempt`, `EventOrder`); what it records (`Journal`) is what the user sees
(`View`). The modules are composed where one relies on what the other promises:
`EventOrder!MaySend` is the contract that `CodexChildren!ChildStreams` and
`Claude!TurnIsFaithful` check; `DispatchLease!MayReport` is
`CodexTurns!NotDispatchedIsTrue`; `Claude` and `Context` rely on the one active run
per conversation of `DispatchLease`; `Journal` is the store that `EventOrder`
writes to, at its own interface; `DispatchLease` refines `CommandLedger`.

What is hard: several processes on one row, every check and the call it guards
in two steps, answers that cross terminals, late or repeated protocol messages,
callers dropped at any await, removal of directories that others write to,
reads that are stale when they are used.

## DispatchLease, CommandLedger

`run[r]` is a row of `provider_runs`, reduced to the columns the guards read.
`proc[i]` is a process: `starting` (the startup recovery pass), `open`, `closing`,
`down`. `att[i][r]` is the position of the root task of incarnation `i` for run
`r`; `...Fenced` positions lie between a successful lease refresh and the provider
call it guards. `stop[i]` holds the flags. `rec[i]` is the recovery pass: the rows
it listed with what it decided for each, and the claim it holds. `effects[r]`
counts the turns that reached a provider; it is not program state. Rows from before
the lease columns (migration 0016) may exist at the start (`LegacyRuns`).

Time is reduced to the one comparison the code makes: the lease plus its 300 s
grace has passed (`Lapse`). While code in a live process still renews the row this
is a stall (sleep, suspension); `MaxMishaps` bounds the stalls and the failures of a
task or of a recovery pass together. Assumed of an adapter: it reports NotDispatched
only when the provider did not receive the prompt.

* `dispatch`: two messages to one conversation, two rows, two processes, one row
  possibly from an older version. Two processes are enough for every hand-over
  the code has: owner to claim, claim to the other supervisor, back to the first.
  Stalls and store failures are left to `dispatch_live` and the proofs.
* `dispatch_live`: one row, possibly a legacy one, one stall or failure, fair. A
  pass in an open process keeps taking steps (a timer runs it), and in a closing one
  it ends, cut short or not; a task whose flag is set settles (`race_control`
  selects on the flags at every await), an abandoned lease lapses. Users, crashes
  and provider answers are not fair. `AbandonedRunSettles` speaks of runs whose
  owner is down or was a recovery pass that was cut short, assumes that from some
  time on a process stays open (nothing runs the timer otherwise), and excepts by
  name (`Stranded`) what the recovery deadline leaves. Claim ids are taken in order,
  the least free one first: they are fresh UUIDs, and only compared.

Proved in `DispatchLease_proofs` from `DispatchConstants` alone, so for any number
of processes, rows and messages and with stalls, faults, fallbacks and legacy rows
together: type correctness, `OneTurnPerMessage`, `EvidenceIsSound`, `OneExecutor`,
`OneActiveRunPerConversation` (together `DispatchIsSafe`), `OutcomeIsFinal`,
`FormerOwnerIsFenced`, and that `DispatchLease` implements `CommandLedger`. None of
these is inductive. `IInv` adds to the type invariant `RowInv`, what a row alone
promises (a row that looks restartable has no turn, a fallback exists only for a
primary closed as NotDispatched), and `TaskInv`, what the position of a task says of
its row and of every other task (only one supervisor was ever given the row). Each
theorem follows from `IInv` or from one step taken in it.

Seen and not claimed by any property:

* The recovery deadline may drop `recover_persisted` while the promotion commits
  (`PromotionLost`, `core/runtime.rs` 1017, `src-tauri/src/state.rs` 351). The run
  then belongs to a live supervisor that has no task for it, `claim_stale_provider_dispatch`
  excludes a process's own rows, and the conversation stays busy until a restart.
  The design (line 547) says a later attempt of the same process can finish.
* A process suspended between its lease fence and `start_turn` calls the provider
  after another took the run over, which line 547 says the transfer prevents. The
  late turn is the only one and nothing it reports is recorded.

## Attempt

One attempt of one run, from the moment `execute_attempt` installs its
`ActiveAttempt` until the manager forgets the run. `db` is the run's row and its
approvals; `shared` is `ActiveRun`; `root`, `resp`, `steer` and `mgr` are the root
task, the response job, the steering job and the manager; `exec` is the
`ControlExecution` of the two slots and `awaits` the executions that
`finish_control_executions` still waits for. `wire` counts what reached the provider.
A step is what runs between two awaits, or one transaction with the memory it
updates under the attempt gate. `RootFinishes` is every way into
`finalize_attempt`; `SettleControl`, `RootReviews`, `RootClosesTurn`, `RootRecords` are
its stages; `JoinRoot`, `SettleControl`, `ReconcileRoot` are the manager's for a
root that failed. Requests are the root's; those of children are in `EventOrder`.

* `attempt`: two requests, the selected one and one behind it, with a FIFO of one so
  that its limit is reached, under four mixes of answers, steering texts, failing
  database calls and dying tasks (`MC_Attempt!Mixes`). Combinations beyond a mix
  are covered by the theorems. Fair are the tasks tokio runs; the provider, the
  return of a call, the user and other processes are not: a hanging call must be cut
  off by the flags, and is.

`Attempt_proofs` proves from `AttemptAssumption` alone type correctness,
`AnswersAreTruthful`, `SelectionMatchesDatabase`, `OutcomeClosesRequests` and
`ControlsSettleBeforeOutcome`. `IInv` is the type invariant with `DbInv` (the row
against its approvals), `AnswerInv` (what the place of a response job says of the
wire; the intent alone does not say whether a call under way has sent the answer),
`SelectInv` (the selection with its one gap, the acknowledgement), `SlotInv` (the
execution in a slot follows its job, so that the snapshot finalization takes is
complete) and `PhaseInv` (from settling on no call starts, and every call under
way is awaited). `AnswerWakesRoot` is inductive under it: only `RootParks` parks the
root, with a request selected, and whatever deselects one leaves the permit. Only
model-checked: `StoppedAttemptEnds`.

## EventOrder

How the root task turns events of the root and of native children into rows,
and how an answer interferes. An event is its place in `sent`, a request's place is
its id. `mem` is the local state of `execute_attempt`: `buffered` with its staged
`prefix`, `deferred`, `controls`, `pending`, the event in `hand`. The step while a
request is visible is split where it can be overtaken: `ReceiveWaiting` or `TakeDue`
(the select), `Classify` (which reads `response_in_flight`), `HandleWaiting` (after
the wait for the gate). A transaction is a function from rows to rows (`StagedFor`,
`Drained`, `ChildEnded`, `Acknowledged`, `RunClosed`). "message" stands for all output
of the root, "operation" for a child's tool activity. The staging table has its
limit, with the row that marks an overflow (`StagingFull`).

* `order`: the root and two children, five events, queues of two or three entries so
  that every limit is reached. At the start one child is in a turn or none is
  (`Busy`); a second one starts its own. Five events hold a request, what is staged
  or deferred under it, a second request and a terminal, or three events deferred
  behind one answer. The properties were also checked, beyond the time of a run, with
  six events, four deferred and three staged, one child at work from the start
  (7,265,238 states), and with one child, seven events, six deferred and three turns
  (12,581,166 states).

The code breaks its order when output that is not staged is displaced in the buffer.
The run reaches it, and the properties except it by name: `mem.displaced` is history,
set when a request is selected while such output is behind it (`Selects`), or when
a later event is replayed in front of it (`ReplayDeferred`). Until then `RecordedExactly`
and the order of requests and root output must hold; `EndIsLast`, `StagedLive` and
`WaitsForOneRequest` have no exception. The shortest way there:

1. A request of child c1 is visible (event 1) and its answer is under way
   (`Respond`, `AdapterReplies`).
2. The end of c1 (2) is deferred behind the answer (`WaitingTerminal`), and so is
   a request of the root (3) behind that (`LaterControl`).
3. A message of the root (4) passes `Classify`; at the gate it is overtaken by the
   acknowledgement. `HandleWaiting` finds no request any more and appends 4 to the
   buffer, not staged (`core/runtime.rs` 2974).
4. `ReplayDeferred` puts 2 and 3 in front of it: the buffer is 2, 3, 4
   (`core/runtime.rs` 2785). 2 is recorded, 3 selected; 4 is left behind it, still
   not staged: `displaced`.
5. Another message (5) is staged under request 3: the buffer is 4, 5 with one event
   staged. When 3 is acknowledged the store publishes 5, and `DiscardPrefix` takes
   one event off the front, 4. Message 4 is lost; 5 is processed again and recorded
   a second time.

With four deferred events the race at the gate is not needed: the end of c1, its next
turn's start, a request and an operation of that turn, deferred together, are replayed
in this order, and the operation stands unstaged behind the request.

The other way takes an answer that is refused, and six events: the end of c1 (2), the
start (3) and an operation (4) of its next turn are deferred and replayed after the
refusal; the user answers again at once, and 2 and 3 are taken off the buffer and deferred
again, while 4 stays, because the parked loop takes no output; the end of that turn (5)
is received and deferred; a second refusal replays 2, 3 and 5 in front of 4. When the
child's requests are over, 4 is discarded as an operation of a turn that has
ended, and the completed run lacks it.

The comment at
`core/runtime.rs` 2782 says of the replay: "Replay after that prefix so it cannot
discard deferred child lifecycle or operation data"; it does protect them from the
discard that follows at once, not from the one after the next answer. The design
(line 406) has output received while an approval is pending "durably staged in receipt
order" and "each staged event once" published. To see the behaviour, drop
`~mem.displaced =>` from either property: TLC finds it violated in the instance of
the run.

`EventOrder_proofs` proves `WaitsForOneRequest` for any number of children, events and
entries of the queues, displaced output included: what goes wrong with it is the
order and the number of rows, not who is waited for. `IInv` holds until the
attempt is done and adds to the agreement that exactly the owner of the selected
request waits, in the turn that asked (`WaitInv`), the rows a child's end and its
requests are judged by (`RowInv`), and that a staged prefix has nothing in front of it
that the parked loop would take as a request (`PrefixInv`). What `SelectSeq` does is
written as the function `Sifted`, because the prover unfolds no operator that takes
an operator; that a sifted queue is a queue is proved by descent to a least
counterexample (`Least`), which replaces induction. `RecordedExactly` and
`PublishedInOrder` stay with TLC.

Further gaps that were found with it and that no property claims away:

* A root terminal whose classification is overtaken by the acknowledgement is
  finalized with the child's end still deferred; a completed turn is recorded as
  failed (`core/runtime.rs` 2883, 2926; design, line 363).
* Acknowledging the root's request publishes the root's staged rows only; those of
  a running child stay until the child ends, behind later ones.
* After a refused answer, deferred terminals stand behind staged rows, where the
  parked loop does not look; a received root terminal waits for another answer,
  an interrupt or the end of the stream.

## Supervisor

`sub`, `ctl`: the calls of submit and of respond or steer; `queue`, `reserved`,
`admitted`: the command channel, the places taken in it, the permits; `active`,
`pending`, `task`: the manager's maps; `manager.at`: where `run_manager` is (its
sweep over cancelled runs, the biased select, the drain after the loop, the
interruption of what waits, the joins); `stopper`: `shutdown`, the grace,
`force_shutdown` and the drop of the supervisor.

* `supervisor`: three submissions for one task and one place, a control, one fault.
  The third submission meets every limit. `AccountsAreTrue`: limits agree, a handle
  is answered before its run is forgotten and never before the store has the
  outcome, a successful shutdown has left nothing. Fair are the manager, the
  stopper, a task told to stop, and the store's answer to a submission.

`Supervisor_proofs` proves `AccountsAreTrue` and `StartsInOrder` for any number of runs
and controls and any limits, from `BoundsAssumption` and `ControlsAssumption` (the
callers are finitely many and are not run numbers). The accounts are not
inductive: that a limit holds follows from where the permits are. `IInv` says with
`PlaceInv` that a run with a permit is in exactly one of the reserved places, the
channel, the queue and the tasks (no sequence holds a run twice); `CountInv` counts
them, and that a waiting manager has no free slot while a run waits; `HandleInv` says
what a handle shows in each place; `PhaseInv` what is empty at each place of the
manager and what a stopper may have concluded. `StartsInOrder` follows from one
step taken in it. `EverythingEnds` is liveness and only model-checked.

After a manager that had to be aborted, handles of the runs it had stay open; a
`shutdown` future that is dropped leaves `Closing`, so that only
`force_shutdown` goes on. Both are in the model and excepted by name.

## CodexTurns, CodexChildren

`CodexTurns`: one thread of the app-server connection. `s` is what the dispatcher
owns (registration, stream with its bounded log, open requests, pending
responses, timers), `caller[g]` a call of `start_turn` and the owner it returned,
`phase[g]` the atomic of its request, `server` and `wire` the app-server. A step is
one message, command or cancellation. Items are of five kinds (`ItemKinds`); a
change of files is recorded so that its approval can be checked. `TurnStreams`: no
event of another turn, none behind the end, an end for whoever reads slowly, and no
error without cause. `WrittenOnce`: requests are answered once, and a turn reported
as not dispatched never was. `TurnsAreStopped`: whatever a dropped caller leaves is
pursued.

* `codex_turns`: two turns of the thread, and one turn under five mixes of output,
  requests, interruption and faults; a stream of two places and a wire of two
  messages, so that overflow, and answers that cross, happen.

`CodexChildren`: threads that the root may have spawned. Messages of unknown
threads are held back while the ancestry is looked up (`ServerAnswers`, `Tick` is the
deadline), then published or dropped; `OwnerShutdown` waits for children.

* `codex_children`: six families (`MC_CodexChildren!Families`): a child with two
  turns, a child of a child, a thread of nobody, a slow root, a declared child, an
  activity told twice.

What these modules except by name or leave unclaimed: output dropped by an
overflow is missing from a stream that the server completes before the interrupt
(`core/providers/codex.rs` 3229–3289); an overflow while a discovery is replayed lets
a root that ends before the next tick drop a held request unanswered, where
`core/providers/codex_children.rs` 860 says it is owed an answer; an owner dropped
with children sends `FinishedTurn` before the root's interrupt is confirmed; a child
whose start is still queued when its root is cancelled is never interrupted.

## Claude, ClaudeProtocol

`Claude`: turns of one session; `start[g]` the call, `worker[g]` `run_turn`,
`alive[g]` its process, `control[g]` its requests, `out` what it still has to send to
a channel of `Capacity`, `log` what was sent. `ClaudeProtocol` has the state the
adapter keeps per stream as pure operators: a frame takes `Protocol` to a new state
with the events it tells. `ProcessesAreOwned`: one process at a time, the session is
created again only while no prompt can have reached it, shutdown leaves
nothing. `TurnIsFaithful`: requests are answered once, children framed, text told
once, ends explained.

* `claude`: seven mixes (`MC_Claude!Mixes`) of turns, frames, blocks, requests,
  stops and exits. Fair are the worker once it is stopped, the owner's kill, and the calls
  that wait for them; neither the process nor the reader of the stream is. SIGKILL is
  taken to work; a panic of the worker is left out.

`Claude_proofs` proves `ProcessesAreOwned` and `TurnIsFaithful` for any number of
turns, requests, tasks and blocks of text. For processes and answers the frames enter
only through `FrameStep`: whatever the protocol makes of one, the worker goes on or
fails. `IInv` says that a call begins when the earlier ones are over
(`CallsInOrder`); that the slot holds the last turn with a process, and a call about
to spawn has joined it (`SlotIsLast`), without which the next spawn could find a
process; that a session is marked before it is prompted; that the slot stays once
the shutdown has begun; and that an answer has one writer. The steps are reduced to two kinds first: one gives
a call the slot and a process (`Spawned`), in all others workers only move on
(`Evolves`).

For the streams, `StreamInv` adds of each turn that what is left to send fits where
the worker is (`OutFits`); that the end is the last event it told or has left to send,
and a completion is recorded as terminal before it is sent, so that no new request is
taken between (`EndInv`); and that what was told fits what the protocol knows
(`FramesInv`): a task is recorded as reported exactly when its events are there
(`TasksTold`), the texts kept are those the process wrote (`TextsKept`), and the events
hold as many units of each block (`TextTold`). Without the last three, `WellFramed` and
`TextOnce` are not inductive: they say nothing of what the next frame will tell. A
frame is followed through `normalize`: `ResultInv` holds of what the frame itself
leads to, and `emit_operations`, each visit of a task by `materialize`, and the end
keep it (`OperationsKeep`, `MaterializeKeeps`, `MaterializedKeeps`, `SettledKeeps`).
`OperationsOf` and `Materialized` are recursive functions, whose defining equations
are proved by a least counterexample (`ListExists`, `VisitsExist`). A step moves one
turn only (`MovesOne`), and there is one lemma for each kind of move (`TurnStep`).

`dispatched` is set before the prompt is written, so that a write that is cancelled
makes the next turn resume a transcript that may not exist; a turn after a failed
worker gets that worker's error once.

## Workspace

`disk[c]` is what Git and the file system hold for a conversation: base marker,
branch, registration, and the trees at the path, in quarantine and aside. `job` is
the task with the gate, one position per step of a preparation, a rollback or a
removal; `caller[c]` the future that creates the conversation. Others write, commit
and swap directories; a step may fail; the application may crash between steps.
`destroyed` is history.

The store and the future that waits for it do not move together. `Persist` is the
moment COMMIT takes effect (`core/store.rs` 1185): the conversation is stored, and others
may use it. `Commit` is the future running again and keeping the workspace
(`core/app.rs` 269-275). A future dropped in between (`Drop` in state "stored") has the
workspace rolled back although the conversation is stored (`Abandoned`):

* A worktree goes the way of every rollback: the task finds nobody to take it, removes
  tree, branch and marker if nothing was done in it, and keeps everything if
  something was. Nothing is destroyed, but the conversation may be left without
  its worktree.
* A scratch directory is removed at once, with what it holds
  (`remove_scratch_workspace_nofollow`). Whoever used the conversation between COMMIT and
  the drop loses that.

The properties except these by name: `OutcomeMatchesDisk` speaks of stored conversations
that are not `Abandoned`, and `WorkIsKept` allows the loss of a scratch directory
and nothing else. Both cases occur in the run.

* `workspace`: two isolated conversations with a crash, or one projectless beside
  one isolated. `WorkIsKept`, `DiskIsAccountedFor` (the marker outlives the tree;
  undisturbed, what was not kept leaves nothing), `GateIsReleased` under fair tasks.

`Workspace_proofs` proves `WorkIsKept` and `DiskIsAccountedFor` for any number of
conversations and of everything that may happen (`Scopes` enters only through its
type). `IInv` says, conversation by conversation, which states the creating future can
be in at each position of the task, the window after COMMIT and its drop included
(`CallerInv`); that one tree is the application's own and Git lists it while it exists
(`Sound`); what the task has made sure of before the step that destroys (`Ensured`:
before `Delete` no process and no work in the very tree that was opened); and for a
conversation nobody touched what the disk can be at each position (`OutcomeInv`): all
that was made if it is stored and not abandoned (`Keeps`), otherwise what the preparation
or the rollback has got to (`Prepared`, `BeingRemoved`). A step is judged by the one
conversation it is about (`StepKeeps`).

The model also shows what is not undone: a crash between quarantine and removal
leaves the tree in quarantine, and one between preparation and persistence leaves
worktree and references; nothing reaps either. The application registers no
process and calls `remove_owned` nowhere yet; the module models their interface.

## Context

`session[p]` is the native session bound to provider `p` and the boundary up to
which it knows the conversation; `draft` the submission being prepared, one read per
step; `runs[r]` a run with its prepared turn; `native[n]` history: what a session was
shown and what a capsule left out. One conversation is modelled in full. Usage is
counted over all of them (`provider_usage`, `core/store.rs` 2186), so of the others there
is what that query sees: `elsewhere` has their runs per provider, and which of the
active ones may still fall back. Submissions that usage decides wait for each other
(the submissions lock), so one elsewhere is a single step (`SubmitElsewhere`); one of
another process, or with an override, does not wait and is counted as undecided.
Recovery, which starts a queued row again from the prompt stored with it (`core/app.rs`
1001-1008), is not in this module: what it tells a session is not covered by the
properties here. Its claims and turns are in `DispatchLease`.

* `context`: four runs of this conversation and one other together, three messages,
  both routing profiles, one submission that is prepared while a run is active or that
  usage did not decide elsewhere. Four runs hold a primary, its fallback, a return to the
  first provider and one more, or two conversations that fall back to the same provider.

`UsageIsBalanced` bounds the difference in runs of the two providers over all
conversations by one, one for each other conversation, and one for each submission
that usage did not decide or that was stored while another was prepared (`Undecided`).
Each conversation has one active run at most, so one fallback to give, and all of them
may fall to the provider that is ahead; no bound without `Others` would be true.

`ContextIsAccountedFor` has two named exceptions, which the code has:

* `LostWith`: a session bound by an attempt whose turn never started (rejected after
  the bind, or interrupted before `start_turn`) gets no capsule on its provider's
  next turn, and the boundary passes the earlier conversation (`core/app.rs`
  387–405; the design, line 514, says a provider's first turn supplies a capsule).
* `PassedOver`: the reads of a submission prepared while a run is active are not of
  one moment; it may miss messages or replace a bound session.

`Context_proofs` proves all three properties for any number of runs, messages and
submissions, from `ContextAssumption` (the profiles are those the router knows). `IInv`
says that only the last run can be active, and that its message is the last one until
its turn is told, from when on its session knows every message (`RunInv`); that a
native session belongs to one provider and was shown nothing beyond that provider's
boundary (`NativeInv`); and what a plan covers: everything its session does not know
and nothing else, but for what an earlier attempt lost. This holds of a submission in
preparation as long as nothing runs (`DraftInv`: what it read stays true because no run
moves a boundary, binds a session or adds a message), and of the stored run, whichever
provider it falls back to, until its turn is told (`PlanInv`). `SessionKnows` is the case
without a capsule: who had the last turn either knows every message or lost it.
`KnownInv` is `ContextIsAccountedFor` while a run is active, too; `LostGrows` and
`PassedGrows` say that its exceptions are never taken back. `UsageIsBalanced` is not
inductive: `BalanceInv` adds that the difference is in bounds even if every run that
is active, here and elsewhere, still falls back to the provider that is ahead.

## Journal

`run`, `agent`, `turn`, `approval`, `op`, `compaction`: the rows of one run. Every
action is one transaction of `append_run_event_inner`, of the acknowledgement or of
finalization and recovery. `Shown`, `RollUp`, `RequestPath`, `ActiveCompaction` are the
reads of timeline, sidebar and request list. An event the store refuses changes
nothing, but for operations and compactions of an ended child, which are discarded
with their evidence kept. The store takes a second request while one is pending; it is
the runtime that holds it back (`EventOrder`).

* `journal`: two children with two turns each under three mixes of requests,
  operations and compactions (`MC_Journal!Mixes`), with symmetric identities.
  Operations report two of three levels of evidence; failures set the third.

`DisplayOnlySettles` names one exception the code has: an operation of an untracked
child, closed before its run was interrupted, changes from unknown to interrupted
under the same revision, so a reader that asks by revision keeps the old detail.

`Journal_proofs` proves all four properties for any number of children, turns,
requests and events, from `JournalAssumption` (the root is no child, evidence is in
range). `IInv` says that run and root agent start and end together (`RunInv`); that an
agent waits for exactly one pending request, a child for one of its open turn
(`RequestInv`), without which a child's end could leave the run waiting for nothing;
that a child has at most one open turn and is at work in it (`TurnInv`); that depths
count the steps up to the root (`TreeInv`); that every operation is what its snapshots
say together (`Merged`); and which compactions are under way (`CompactionInv`).
`RowsAgree` needs that the whole tree is below the root (`RootHasAll`) and that every
path ends there (`PathLeadsUp`): both by descent to the least depth of an agent for
which it fails. `Subtree` is the least set closed under children, as the recursive
query computes it, so that a subtree unfolds one level at a time (`SubtreeUnfolds`).
`DisplayOnlySettles` follows from what no transaction undoes (`StaysSettled`).

## View

`core`, `channel`, `lagged`: the store and its broadcast channel; `forwarder`, `seen`:
the forwarding task and the notification tracker; `events`: emitted invalidations;
`ui`: the front-end store with its full read (`full`), targeted batch (`batch`),
requests behind it and revisions; `call`: a mutation the user waits for. A handler
runs to its end; what it awaits is a step. `Commit` is a write of this process, committed
and broadcast in one step. A write of another process on the same file, and one of a
recovery pass that is dropped at its commit, broadcasts nothing: until the next read the
view does not show it, and no property here speaks of it. The user waits for one
mutation at a time.

* `view`: two conversations, two changes after the start, a channel and pages of one,
  a sequence that rolls over, one failure. `NewestIsKnown` and `AcknowledgedKept`
  were also checked at three changes. Fairness is on the steps of the program
  together (`Progress`), which is enough because every one of them shortens what is
  under way.

Left unclaimed: archiving deletes a conversation's version and its event counts
from the beginning, so that a targeted read begun before the archive restores it for
a moment (`src/app/store.ts` 453, 506; the design, line 262, and
`store.test.ts` 1235 say it cannot); a conversation just created can be absent until
its event if a full read was under way, and a save acknowledged meanwhile is not
fenced; the loss of the first or of the rollover event cannot be noticed
(`ui.last = sent`); the tracker stays behind for a conversation it failed to load.

## Bounds, fairness and deadlock

Every bound is a CONSTANT marked as such, or a field of a budget; budgets give each run several mixes, so that
each interesting combination occurs with little else. `CHECK_DEADLOCK FALSE` is set
where the modelled part may come to rest: processes down, attempts finished, turns
ended. `attempt` checks deadlock.

## Proved and only model-checked

| Module | Proved for every instance | Only model-checked, and why |
|---|---|---|
| `DispatchLease` | `DispatchIsSafe`, `OutcomeIsFinal`, `FormerOwnerIsFenced`, `ImplementsLedger` | `AbandonedRunSettles`, `StoppedTaskEnds`: liveness |
| `Attempt` | `AnswersAreTruthful`, `SelectionMatchesDatabase`, `OutcomeClosesRequests`, `ControlsSettleBeforeOutcome`, `AnswerWakesRoot` | `StoppedAttemptEnds`: liveness |
| `EventOrder` | `WaitsForOneRequest` | `RecordedExactly`, `PublishedInOrder`: they read whole sequences through `SelectSeq` and folds |
| `Supervisor` | `AccountsAreTrue`, `StartsInOrder` | `EverythingEnds`: liveness |
| `Workspace` | `WorkIsKept`, `DiskIsAccountedFor` | `GateIsReleased`: liveness |
| `Journal` | `RowsAgree`, `EvidenceIsKept`, `ActivityIsCurrent`, `DisplayOnlySettles` | |
| `Context` | `OnlyUnseen`, `ContextIsAccountedFor`, `UsageIsBalanced` | |
| `Claude` | `ProcessesAreOwned`, `TurnIsFaithful` | `StoppedTurnEnds`: liveness |
| `View`, `CodexTurns`, `CodexChildren` | | everything: their steps are folds over batches, buffers and waiters |

Liveness under fairness, and `ENABLED`, are beyond the prover. The induction theorems
of the library take an operator, which no installed prover instantiates; what was
needed of induction (recursive functions over naturals, the depth of the tree) is
proved from the well-foundedness of finite sets instead (`Least`). Folds with a
`LAMBDA` and `SelectSeq` cannot be unfolded. Each invariant was model-checked on the
instances of the runs before it was proved.

Next to prove: `View`, and the streams of `CodexTurns` and `CodexChildren` in the way
of `Claude`, once their folds are written as recursive functions.

## Not modelled

* Page queries, cursors, run audits, size limits of stored text: reads, or bounds
  that only cut.
* Fields of operations, questions and approvals beyond what decides their state;
  redaction of secret answers; catalogues, sign-in, version checks.
* `commands.rs`: conversions of arguments and results. The guards of `app.rs` before a
  control (that its run belongs to the conversation) read what `Journal` keeps.
* Shared workspaces (the application owns nothing in them) and the inspector's reads.
* Rendering, drafts, pages of children in the front end.
* `pending_recovery` and `create_fallback_run_with_handoff`, which only tests call.
* Logging, formatting, migrations other than 0016, scripts.
