------------------------------ MODULE Journal ------------------------------
(***************************************************************************)
(* What the store makes of the events of one run (append_run_event_inner): *)
(* the run, its tree of agents, the native turns of the children, the      *)
(* requests for the user, the tool operations and the compactions; and     *)
(* what it shows of them.  Every action is one transaction.  An event the  *)
(* store refuses changes nothing and makes the runtime finalize the run,   *)
(* except a late operation or compaction of a child, which is discarded.   *)
(*                                                                         *)
(* Who may write is in DispatchLease, in which order events arrive in      *)
(* EventOrder, how an answer gets to its provider in Attempt, messages are *)
(* in Context.  The store is modelled at its own interface: it takes a     *)
(* second request while one is pending, which the runtime would hold back. *)
(***************************************************************************)
EXTENDS Integers, FiniteSets, FiniteSetsExt

CONSTANTS
  Kids,      \* native identities of child agents
  Turns,     \* native identities of turns; a child has at most this many
  Requests,  \* requests for the user
  Evidence,  \* what operations say of their effects
  Budgets    \* bounds: how many events of each sort a run has

Budget == [kids : Nat, reports : Nat, requests : Nat, operations : Nat, compactions : Nat]

\* Mutation evidence: none observed, observed, unknown.
Mutation == 0 .. 2

Root == "root"
NoTurn == "no turn"

ASSUME JournalAssumption ==
  /\ Budgets \subseteq Budget /\ Evidence \subseteq Mutation
  /\ Root \notin Kids /\ NoTurn \notin Turns

Agents == {Root} \cup Kids

VARIABLES
  run,         \* provider, status, mutation evidence, owner, finish
  agent,       \* status, parent, depth
  turn,        \* native turns of the children
  approval,    \* requests: agent, native turn, status
  op,          \* tool operation per agent and turn
  compaction,  \* latest observation of an agent's compaction
  told,        \* history: snapshots per operation, worst mutation evidence,
               \* agents whose provider is compacting
  left         \* what is left of the budget

vars == <<run, agent, turn, approval, op, compaction, told, left>>

ActiveStatus == {"queued", "running", "waiting"}
TerminalStatus == {"completed", "interrupted", "failed"}

OpKeys == {<<Root, NoTurn>>} \cup (Kids \X (Turns \cup {NoTurn}))

NoOp == [status |-> "absent", conflicted |-> FALSE, error |-> FALSE, revision |-> 0]

Init ==
  /\ run \in [provider : {"codex", "claude"}, status : {"queued"}, mutation : {0},
              owner : {"task"}, finish : {"none"}]
  /\ agent = [a \in Agents |-> [status |-> IF a = Root THEN "queued" ELSE "absent",
                                parent |-> Root, depth |-> 0]]
  /\ turn = [k \in Kids |-> [t \in Turns |-> "none"]]
  /\ approval = [q \in Requests |-> [agent |-> Root, turn |-> NoTurn, status |-> "none"]]
  /\ op = [key \in OpKeys |-> NoOp]
  /\ compaction = [a \in Agents |-> [phase |-> "none", turn |-> NoTurn]]
  /\ told = [said |-> [key \in OpKeys |-> {}], mutation |-> 0, compacting |-> {}]
  /\ left \in Budgets

ActiveAgents == {a \in Agents : agent[a].status \in ActiveStatus}
ActiveKids == ActiveAgents \ {Root}
Tracked(k) == \E t \in Turns : turn[k][t] # "none"
Pending == {q \in Requests : approval[q].status = "pending"}

\* The root task is reading events of a run under way.
Live ==
  /\ run.owner = "task" /\ run.finish = "none"
  /\ run.status \in {"running", "waiting"}

Spend(what) ==
  /\ left[what] > 0
  /\ left' = [left EXCEPT ![what] = @ - 1]

-----------------------------------------------------------------------------
(* Status changes.                                                         *)

\* validate_agent_transition
Transitions ==
  ({"queued"} \X {"running", "interrupted", "failed"})
    \cup ({"running"} \X {"waiting", "completed", "interrupted", "failed"})
    \cup ({"waiting"} \X {"running", "interrupted", "failed"})

\* validate_native_agent_update
Updates ==
  Transitions \cup {<<s, s>> : s \in ActiveStatus \cup TerminalStatus}
    \cup ({"queued", "waiting"} \X {"completed"})

\* Mutant: the run goes on waiting for a child that has ended.
StillWaiting(agents, approvals) == run.status

\* reconcile_child_control_waiting: the run waits until no request is pending
\* and the root runs.
Reconciled(agents, approvals) ==
  IF /\ run.status = "waiting"
     /\ agents[Root].status = "running"
     /\ \A q \in Requests : approvals[q].status # "pending"
  THEN "running" ELSE run.status

Resolution(outcome) == IF outcome = "interrupted" THEN "cancelled" ELSE "failed"

\* What a child's terminal event does besides: its requests are resolved, its
\* turns end, the run may go on.  A completed agent has no pending request.
EndChild(k, outcome, mutation) ==
  LET agents    == [agent EXCEPT ![k].status = outcome]
      approvals == [q \in Requests |->
                      IF q \in Pending /\ approval[q].agent = k
                      THEN [approval[q] EXCEPT !.status = Resolution(outcome)]
                      ELSE approval[q]]
  IN
  /\ <<agent[k].status, outcome>> \in Transitions
  /\ outcome = "completed" => \A q \in Pending : approval[q].agent # k
  /\ agent' = agents /\ approval' = approvals
  /\ turn' = [turn EXCEPT ![k] = [t \in Turns |-> IF @[t] = "open" THEN "ended" ELSE @[t]]]
  /\ run' = [run EXCEPT !.status = Reconciled(agents, approvals),
                        !.mutation = Max({@, mutation})]
  /\ told' = [told EXCEPT !.compacting = @ \ {k}]
  /\ UNCHANGED <<op, compaction>>

RootStarted ==
  /\ run.owner = "task" /\ run.finish = "none" /\ run.status = "queued"
  /\ run' = [run EXCEPT !.status = "running"]
  /\ agent' = [agent EXCEPT ![Root].status = "running"]
  /\ UNCHANGED <<turn, approval, op, compaction, told, left>>

-----------------------------------------------------------------------------
(* The turns of children (validate_native_child_event): Codex only.        *)

\* A start that is repeated while the turn is open changes nothing.  The turn
\* brings the child back to life, whatever its status.
ChildStarted(k, t) ==
  /\ Live /\ run.provider = "codex"
  /\ agent[k].status \notin {"absent", "waiting"}
  /\ turn[k][t] = "none" /\ "open" \notin {turn[k][u] : u \in Turns}
  /\ agent' = [agent EXCEPT ![k].status = "running"]
  /\ turn' = [turn EXCEPT ![k][t] = "open"]
  /\ UNCHANGED <<run, approval, op, compaction, told, left>>

ChildEnded(k, t, outcome) ==
  /\ Live /\ run.provider = "codex"
  /\ turn[k][t] = "open"
  /\ EndChild(k, outcome, 0)
  /\ UNCHANGED left

\* A request for the user, of the root or of a child's open turn.
ControlRequested(a, t, q) ==
  /\ Live
  /\ approval[q].status = "none"
  /\ agent[a].status = "running"
  /\ IF a = Root THEN t = NoTurn /\ run.status = "running"
     ELSE run.provider = "codex" /\ t # NoTurn /\ turn[a][t] = "open"
  /\ Spend("requests")
  /\ approval' = [approval EXCEPT ![q] = [agent |-> a, turn |-> t, status |-> "pending"]]
  /\ agent' = [agent EXCEPT ![a].status = "waiting"]
  /\ run' = [run EXCEPT !.status = "waiting"]
  /\ UNCHANGED <<turn, op, compaction, told>>

\* acknowledge_response_intent_inner
Acknowledge(q) ==
  LET a == approval[q].agent IN
  /\ run.owner = "task" /\ run.status = "waiting"
  /\ q \in Pending /\ agent[a].status = "waiting"
  /\ a # Root => turn[a][approval[q].turn] = "open"
  /\ approval' = [approval EXCEPT ![q].status = "approved"]
  /\ agent' = [agent EXCEPT ![a].status = "running"]
  /\ run' = [run EXCEPT !.status =
       IF Pending # {q} \/ (a # Root /\ agent[Root].status = "waiting")
       THEN @ ELSE "running"]
  /\ UNCHANGED <<turn, op, compaction, told, left>>

-----------------------------------------------------------------------------
(* What the root's provider reports of its children.                       *)

\* A turn is followed by its own events, any other child by reports.
Reported(k, status) ==
  IF status = "none" \/ Tracked(k) THEN agent[k].status ELSE status

StillCompacting(agents) == {a \in told.compacting : agents[a].status \in ActiveStatus}

\* materialize_child_agents: status is what is reported of each, if anything.
ChildAgents(parent, status) ==
  LET new == {k \in DOMAIN status : agent[k].status = "absent"} IN
  /\ Live /\ agent[Root].status = "running"
  /\ DOMAIN status # {} /\ parent \notin DOMAIN status /\ Cardinality(new) <= left.kids
  /\ agent[parent].status # "absent"
  /\ \A k \in DOMAIN status \ new :
       /\ agent[k].parent = parent
       /\ <<agent[k].status, Reported(k, status[k])>> \in Updates
  /\ left.reports > 0
  /\ left' = [left EXCEPT !.reports = @ - 1, !.kids = @ - Cardinality(new)]
  /\ agent' = [a \in Agents |->
       IF a \in new
       THEN [status |-> IF status[a] = "none" THEN "queued" ELSE status[a],
             parent |-> parent, depth |-> agent[parent].depth + 1]
       ELSE IF a \in DOMAIN status
       THEN [agent[a] EXCEPT !.status = Reported(a, status[a])]
       ELSE agent[a]]
  /\ told' = [told EXCEPT !.compacting = StillCompacting(agent')]
  /\ UNCHANGED <<run, turn, approval, op, compaction>>

\* update_sub_agent: that a child was talked to or asked to stop says nothing
\* of its status.
SubAgent(k, activity) ==
  LET next == Reported(k, activity) IN
  /\ Live /\ agent[Root].status = "running"
  /\ agent[k].status # "absent"
  /\ <<agent[k].status, next>> \in Updates
  /\ Spend("reports")
  /\ agent' = [agent EXCEPT ![k].status = next]
  /\ told' = [told EXCEPT !.compacting = StillCompacting(agent')]
  /\ UNCHANGED <<run, turn, approval, op, compaction>>

-----------------------------------------------------------------------------
(* Tool operations.                                                        *)

Snapshots ==
  [status : {"running", "succeeded", "interrupted", "unknown"}, error : {FALSE}]
    \cup [status : {"failed"}, error : BOOLEAN]

\* Mutant: a delayed start wins.
MergeLatest(old, s) ==
  [status |-> s.status, conflicted |-> FALSE, error |-> old.error \/ s.error,
   revision |-> old.revision + 1]

\* ToolOperation::merge
Merge(old, s) ==
  LET delayed == old.status # "running" /\ s.status = "running"
      conflicted == old.conflicted
        \/ (old.status # "running" /\ s.status \notin {"running", old.status})
      new == [old EXCEPT
        !.conflicted = conflicted,
        !.status = IF conflicted THEN "unknown" ELSE IF delayed THEN @ ELSE s.status,
        !.error = @ \/ (~delayed /\ s.error)]
  IN  IF new = old THEN old ELSE [new EXCEPT !.revision = @ + 1]

Snapshot(key, s) ==
  IF op[key] = NoOp
  THEN [status |-> s.status, conflicted |-> FALSE, error |-> s.error, revision |-> 1]
  ELSE Merge(op[key], s)

\* The child an operation or a compaction is of is at work, in that turn if its
\* turns are tracked.
ChildAtWork(k, t) ==
  /\ agent[k].status \in {"running", "waiting"}
  /\ IF run.provider = "codex" THEN t # NoTurn /\ turn[k][t] = "open" ELSE t = NoTurn

\* operations::persist.  Operations are staged while the run waits for their
\* own agent.
Operation(a, t, s, mutation) ==
  /\ Live
  /\ agent[a].status = "running"
  /\ IF a = Root THEN t = NoTurn ELSE ChildAtWork(a, t)
  /\ Spend("operations")
  /\ op' = [op EXCEPT ![<<a, t>>] = Snapshot(<<a, t>>, s)]
  /\ run' = [run EXCEPT !.mutation = Max({@, mutation})]
  /\ told' = [told EXCEPT !.said[<<a, t>>] = @ \cup {s},
                          !.mutation = Max({@, mutation})]
  /\ UNCHANGED <<agent, turn, approval, compaction>>

\* An operation of a child that is unknown, or no longer at work: only its
\* evidence is kept (retain_discarded_operation_mutation).
DiscardedOperation(k, t, mutation) ==
  /\ Live /\ ~ChildAtWork(k, t)
  /\ Spend("operations")
  /\ run' = [run EXCEPT !.mutation = Max({@, mutation})]
  /\ told' = [told EXCEPT !.mutation = Max({@, mutation})]
  /\ UNCHANGED <<agent, turn, approval, op, compaction>>

\* Mutant: the status of the agent decides, not that of the turn.
OwnerStatuses(key) == {run.status, agent[key[1]].status}

\* load_timeline_partition and load_event_detail: an ended turn counts as
\* completed, and hides how run and agent ended.
OwnersShown(key) ==
  IF key[1] # Root /\ key[2] # NoTurn /\ turn[key[1]][key[2]] = "ended"
  THEN {"completed"} ELSE {run.status, agent[key[1]].status}

\* operations::projected_status
Shown(key) ==
  IF op[key].status # "running" THEN op[key].status
  ELSE IF "interrupted" \in OwnersShown(key) THEN "interrupted"
  ELSE IF {"completed", "failed"} \cap OwnersShown(key) # {} THEN "unknown"
  ELSE "running"

ShownRevision(key) ==
  op[key].revision + (IF Shown(key) # op[key].status THEN 1 ELSE 0)

-----------------------------------------------------------------------------
(* Compactions.                                                            *)

\* context_compaction::owner and persist.  Repeating the latest observation,
\* or a boundary that is recorded, changes nothing.
Compaction(a, t, phase) ==
  /\ Live
  /\ agent[a].status \in {"running", "waiting"}
  /\ IF a = Root THEN t = NoTurn ELSE ChildAtWork(a, t)
  /\ Spend("compactions")
  /\ compaction' = [compaction EXCEPT ![a] = [phase |-> phase, turn |-> t]]
  /\ told' = [told EXCEPT !.compacting =
       IF phase = "started" THEN @ \cup {a} ELSE @ \ {a}]
  /\ UNCHANGED <<run, agent, turn, approval, op>>

\* Mutant: the turn of the observation is not looked at.
CompactingInRun ==
  {a \in Agents : /\ run.owner = "task" /\ run.status \in {"running", "waiting"}
                  /\ agent[a].status \in {"running", "waiting"}
                  /\ compaction[a].phase = "started"}

\* load_active_compaction: of the conversation of the run (Root) and of each
\* child's.
ActiveCompaction ==
  {a \in Agents : /\ run.owner = "task" /\ run.status \in {"running", "waiting"}
                  /\ agent[a].status \in {"running", "waiting"}
                  /\ compaction[a].phase = "started"
                  /\ a # Root /\ run.provider = "codex" => turn[a][compaction[a].turn] = "open"}

-----------------------------------------------------------------------------
(* What conversations show.  Every agent has one, bound when the agent is   *)
(* inserted; the root's is the one the user started.                        *)

Bound == {a \in Agents : agent[a].status # "absent"}

\* list_child_conversations
ChildrenOf(a) == {k \in Bound \ {Root} : agent[k].parent = a}

\* load_conversation_path: from the agent up to the root, by depth.
Path(a) ==
  LET up[n \in 0 .. agent[a].depth] == IF n = 0 THEN a ELSE agent[up[n - 1]].parent
  IN  {up[n] : n \in DOMAIN up}

\* The least set with the agent and the children of its members.
Subtree(a) ==
  {b \in Bound : \A T \in SUBSET Bound :
     a \in T /\ (\A x \in T : ChildrenOf(x) \subseteq T) => b \in T}

\* roll_up_status: the status that needs the user most.
MostPressing(statuses) ==
  IF "waiting" \in statuses THEN "needs_attention"
  ELSE IF {"queued", "running"} \cap statuses # {} THEN "active"
  ELSE IF "failed" \in statuses THEN "failed"
  ELSE IF "interrupted" \in statuses THEN "interrupted"
  ELSE "completed"

\* load_sidebar_details: the counters of the run for the root's conversation,
\* the agents below it for a child's.
RollUp(a) ==
  LET below == IF a = Root THEN Bound ELSE Subtree(a)
  IN  MostPressing({agent[b].status : b \in below})

\* load_approvals: each conversation lists the requests of its own agent.
Listed(a) == {q \in Pending : approval[q].agent = a}

\* load_approval_agent_path
RequestPath(q) == Path(approval[q].agent)

-----------------------------------------------------------------------------
(* The end of the run.                                                     *)

\* finalize_attempt: a provider cannot complete over unfinished work.
Finalize(outcome) ==
  /\ run.owner = "task" /\ run.finish = "none" /\ run.status \in ActiveStatus
  /\ run' = [run EXCEPT !.finish =
       IF outcome = "completed" /\ (ActiveKids # {} \/ Pending # {} \/ run.status = "queued")
       THEN "failed" ELSE outcome]
  /\ UNCHANGED <<agent, turn, approval, op, compaction, told, left>>

\* The process is gone or stalled, and the lease runs out.
Lapse ==
  /\ run.owner = "task" /\ run.status \in ActiveStatus
  /\ run' = [run EXCEPT !.owner = "lapsed"]
  /\ UNCHANGED <<agent, turn, approval, op, compaction, told, left>>

\* Recovery claims the run and interrupts it (interrupt_owned_recovery).
Claim ==
  /\ run.owner = "lapsed"
  /\ run' = [run EXCEPT !.owner = "recovery", !.finish = "interrupted"]
  /\ UNCHANGED <<agent, turn, approval, op, compaction, told, left>>

Closing == run.owner # "lapsed" /\ run.finish # "none" /\ run.status \in ActiveStatus

\* The deepest agents are closed first, each in a transaction of its own.
CloseChild(k) ==
  /\ Closing /\ k \in ActiveKids
  /\ \A other \in ActiveKids : agent[other].depth <= agent[k].depth
  /\ EndChild(k, run.finish, IF run.owner = "task" THEN 2 ELSE 0)
  /\ UNCHANGED left

\* The last transaction: refused while a child is active.  Of what an unfinished
\* turn changed, the runtime says what it knows.
CloseRoot(known) ==
  /\ Closing /\ ActiveKids = {}
  /\ run.finish = "completed" => known = 0
  /\ <<agent[Root].status, run.finish>> \in Transitions
  /\ agent' = [agent EXCEPT ![Root].status = run.finish]
  /\ approval' = [q \in Requests |->
       IF q \in Pending THEN [approval[q] EXCEPT !.status = Resolution(run.finish)]
       ELSE approval[q]]
  /\ run' = [run EXCEPT !.status = run.finish,
                        !.mutation = Max({@, known})]
  /\ told' = [told EXCEPT !.compacting = {}]
  /\ UNCHANGED <<turn, op, compaction, left>>

\* fail_run_if_active_inner: the manager, or the task after an error, closes
\* all at once.
FailRun ==
  /\ run.owner = "task" /\ run.status \in ActiveStatus
  /\ agent' = [a \in Agents |-> IF a \in ActiveAgents
                                THEN [agent[a] EXCEPT !.status = "failed"] ELSE agent[a]]
  /\ turn' = [k \in Kids |-> [t \in Turns |->
                IF turn[k][t] = "open" THEN "ended" ELSE turn[k][t]]]
  /\ approval' = [q \in Requests |->
       IF q \in Pending THEN [approval[q] EXCEPT !.status = "failed"] ELSE approval[q]]
  /\ run' = [run EXCEPT !.status = "failed", !.mutation = 2]
  /\ told' = [told EXCEPT !.compacting = {}]
  /\ UNCHANGED <<op, compaction, left>>

-----------------------------------------------------------------------------

Reportable == {"none"} \cup TerminalStatus \cup {"queued", "running"}

ChildStep ==
  \E k \in Kids :
    \/ \E t \in Turns : ChildStarted(k, t)
    \/ \E t \in Turns, outcome \in TerminalStatus : ChildEnded(k, t, outcome)
    \/ \E activity \in {"none", "running", "completed"} : SubAgent(k, activity)
    \/ \E t \in Turns \cup {NoTurn}, m \in Evidence : DiscardedOperation(k, t, m)
    \/ CloseChild(k)

AgentStep ==
  \E a \in Agents :
    \/ \E t \in Turns \cup {NoTurn}, q \in Requests : ControlRequested(a, t, q)
    \/ \E kids \in SUBSET Kids : \E status \in [kids -> Reportable] : ChildAgents(a, status)
    \/ \E t \in Turns \cup {NoTurn}, s \in Snapshots, m \in Evidence : Operation(a, t, s, m)
    \/ \E t \in Turns \cup {NoTurn}, phase \in {"started", "completed", "cleared", "failed"} :
         Compaction(a, t, phase)

RunStep ==
  \/ RootStarted \/ Lapse \/ Claim \/ FailRun
  \/ \E known \in Mutation : CloseRoot(known)
  \/ \E q \in Requests : Acknowledge(q)
  \/ \E outcome \in TerminalStatus : Finalize(outcome)

Next == ChildStep \/ AgentStep \/ RunStep

Spec == Init /\ [][Next]_vars

-----------------------------------------------------------------------------
(* Properties.                                                             *)

\* A conversation needs attention exactly if it lists a request or a child of it
\* needs attention, so that the user who follows the children finds every
\* request, and the path of its agent leads back to the root.
RequestsAreFound ==
  LET pressed == {a \in Bound : RollUp(a) = "needs_attention"} IN
  /\ \A a \in Bound : a \in pressed <=> Listed(a) # {} \/ ChildrenOf(a) \cap pressed # {}
  /\ \A q \in Pending : Root \in RequestPath(q) /\ RequestPath(q) \subseteq pressed

\* The rows of a run agree, between any two transactions: it needs attention
\* exactly while a request is pending, each waiting agent for one of its own
\* that can still be answered; an open turn is at work; and when the run has
\* ended, nothing of it is active.  Whoever follows what needs attention finds
\* every request.
RowsAgree ==
  /\ run.status \in ActiveStatus \cup TerminalStatus /\ run.mutation \in Mutation
  /\ \A a \in Agents : agent[a].status \in {"absent"} \cup ActiveStatus \cup TerminalStatus
  /\ run.status \in ActiveStatus <=> agent[Root].status \in ActiveStatus
  /\ run.status = "waiting" <=> Pending # {}
  /\ run.status = "waiting" <=> RollUp(Root) = "needs_attention"
  /\ \A a \in Agents : agent[a].status = "waiting" <=>
       \E q \in Pending : approval[q].agent = a
                          /\ (a # Root => turn[a][approval[q].turn] = "open")
  /\ \A k \in Kids : /\ Cardinality({t \in Turns : turn[k][t] = "open"}) <= 1
                     /\ "open" \in {turn[k][t] : t \in Turns} =>
                          agent[k].status \in {"running", "waiting"}
  /\ run.status \in TerminalStatus => RollUp(Root) \notin {"needs_attention", "active"}
  /\ RequestsAreFound

\* Duplicate, late and contradicting snapshots of an operation add up to what
\* they say together: one outcome if they agree, an explicit unknown if they do
\* not, with the errors they brought; and no mutation evidence is lost, that of
\* discarded operations included (ToolOperation::merge, operations::persist).
EvidenceIsKept ==
  /\ run.mutation >= told.mutation
  /\ \A key \in OpKeys :
       LET ends == {s \in told.said[key] : s.status # "running"}
           outcomes == {s.status : s \in ends}
       IN
       told.said[key] # {} =>
         /\ op[key].conflicted <=> Cardinality(outcomes) > 1
         /\ op[key].status = CASE outcomes = {} -> "running"
                               [] Cardinality(outcomes) = 1 -> CHOOSE o \in outcomes : TRUE
                               [] OTHER -> "unknown"
         /\ op[key].error <=> \E s \in ends : s.error

\* An operation that was once shown as settled is never shown as running again,
\* and a reader that asks for details by their revision sees every change; but
\* for an operation of an untracked child that was closed before its run was
\* interrupted (projected_status, which adds one to the revision of both).
DisplayOnlySettles ==
  [][\A key \in OpKeys : op[key] # NoOp /\ Shown(key)' # Shown(key) =>
       /\ Shown(key)' # "running"
       /\ \/ ShownRevision(key)' > ShownRevision(key)
          \/ /\ op'[key] = op[key] /\ key[2] = NoTurn /\ key[1] # Root
             /\ Shown(key) = "unknown" /\ run'.status = "interrupted"]_vars

\* The activity shown is what the provider is doing: a compaction that was
\* started in the agent's present turn and has not ended, in a run that its
\* task holds (load_active_compaction).
ActivityIsCurrent ==
  ActiveCompaction = IF run.owner = "task" THEN told.compacting ELSE {}

=============================================================================
