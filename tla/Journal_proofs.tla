--------------------------- MODULE Journal_proofs ---------------------------
(***************************************************************************)
(* Proofs about Journal for any number of children, turns, requests and    *)
(* events of each sort: the rows of a run agree between any two            *)
(* transactions, what operations said is kept, and what is shown of them   *)
(* and of compactions is true.                                             *)
(***************************************************************************)
EXTENDS Journal, FiniteSetTheorems, TLAPS

-----------------------------------------------------------------------------
(* The inductive invariant.                                                *)

Statuses == ActiveStatus \cup TerminalStatus
AtWork == {"running", "waiting"}
Outcomes == {"succeeded", "failed", "interrupted", "unknown"}

TypeInv ==
  /\ run \in [provider : {"codex", "claude"}, status : Statuses, mutation : Mutation,
              owner : {"task", "lapsed", "recovery"}, finish : {"none"} \cup TerminalStatus]
  /\ agent \in [Agents -> [status : {"absent"} \cup Statuses, parent : Agents, depth : Nat]]
  /\ turn \in [Kids -> [Turns -> {"none", "open", "ended"}]]
  /\ approval \in [Requests -> [agent : Agents, turn : Turns \cup {NoTurn},
                     status : {"none", "pending", "approved", "cancelled", "failed"}]]
  /\ op \in [OpKeys -> [status : {"absent", "running"} \cup Outcomes,
                        conflicted : BOOLEAN, error : BOOLEAN, revision : Nat]]
  /\ compaction \in [Agents -> [phase : {"none", "started", "completed", "cleared", "failed"},
                                turn : Turns \cup {NoTurn}]]
  /\ told \in [said : [OpKeys -> SUBSET Snapshots], mutation : Mutation,
               compacting : SUBSET Agents]

\* The run and its root agent start and end together.
RunInv ==
  /\ agent[Root].status \in Statuses
  /\ run.status = "queued" <=> agent[Root].status = "queued"
  /\ run.status \in TerminalStatus <=> agent[Root].status \in TerminalStatus
  /\ run.status = "queued" => \A k \in Kids : agent[k].status = "absent"
  /\ run.status \in TerminalStatus => \A a \in Agents : agent[a].status \notin ActiveStatus

\* An agent waits for one request of its own, a child's in its open turn; the
\* run waits while one is pending.
RequestInv ==
  /\ run.status = "waiting" <=> Pending # {}
  /\ \A a \in Agents : agent[a].status = "waiting" <=> \E q \in Pending : approval[q].agent = a
  /\ \A q, r \in Pending : approval[q].agent = approval[r].agent => q = r
  /\ \A q \in Pending : approval[q].agent # Root =>
       approval[q].turn \in Turns /\ turn[approval[q].agent][approval[q].turn] = "open"

\* A child has at most one open turn, and is at work while it has.  Only Codex
\* tells of turns.
TurnInv ==
  /\ \A k \in Kids, t, u \in Turns : turn[k][t] = "open" /\ turn[k][u] = "open" => t = u
  /\ \A k \in Kids, t \in Turns : turn[k][t] = "open" => agent[k].status \in AtWork
  /\ run.provider = "claude" => \A k \in Kids, t \in Turns : turn[k][t] = "none"

\* Every agent but the root is one level below one that is there.
TreeInv ==
  /\ agent[Root].depth = 0
  /\ \A k \in Kids : agent[k].status # "absent" =>
       /\ agent[agent[k].parent].status # "absent"
       /\ agent[k].depth = agent[agent[k].parent].depth + 1

Ends(key) == {s \in told.said[key] : s.status # "running"}

\* An operation is what its snapshots say together.
Merged(o, said, ends) ==
  /\ said = {} <=> o = NoOp
  /\ said # {} => o.status # "absent" /\ o.revision > 0
  /\ o.conflicted <=> \E s, u \in ends : s.status # u.status
  /\ o.conflicted => o.status = "unknown"
  /\ said # {} /\ ~o.conflicted =>
       IF ends = {} THEN o.status = "running" ELSE \A s \in ends : s.status = o.status
  /\ o.error <=> \E s \in ends : s.error

OperationInv ==
  /\ run.mutation >= told.mutation
  /\ \A key \in OpKeys : Merged(op[key], told.said[key], Ends(key))
  /\ \A k \in Kids, t \in Turns : op[<<k, t>>] # NoOp => turn[k][t] # "none"
  /\ \A k \in Kids : op[<<k, NoTurn>>] # NoOp => run.provider = "claude"

Compacting ==
  {a \in Agents : /\ run.status \in AtWork /\ agent[a].status \in AtWork
                  /\ compaction[a].phase = "started"
                  /\ a # Root /\ run.provider = "codex" => turn[a][compaction[a].turn] = "open"}

CompactionInv ==
  /\ told.compacting = Compacting
  /\ \A a \in Agents : agent[a].status \in {"absent", "queued"} => compaction[a].phase = "none"
  /\ run.provider = "codex" => \A k \in Kids : compaction[k].phase # "none" =>
       compaction[k].turn \in Turns /\ turn[k][compaction[k].turn] # "none"

IInv == TypeInv /\ RunInv /\ RequestInv /\ TurnInv /\ TreeInv /\ OperationInv /\ CompactionInv

-----------------------------------------------------------------------------
(* Facts used in several places.                                           *)

LEMMA MaxOfTwo ==
  ASSUME NEW x \in Int, NEW y \in Int
  PROVE  Max({x, y}) \in {x, y} /\ Max({x, y}) >= x /\ Max({x, y}) >= y
<1>1. \E z \in {x, y} : \A w \in {x, y} : z >= w
  <2>1. CASE x >= y
    BY <2>1
  <2>2. CASE y >= x
    BY <2>2
  <2>. QED BY <2>1, <2>2
<1>2. Max({x, y}) \in {x, y} /\ \A w \in {x, y} : Max({x, y}) >= w
  BY <1>1 DEF Max
<1>. QED BY <1>2

\* What raises the evidence of the run keeps it in range.
LEMMA EvidenceGrows ==
  ASSUME NEW x \in Mutation, NEW y \in Mutation
  PROVE  Max({x, y}) \in Mutation /\ Max({x, y}) >= x /\ Max({x, y}) >= y
<1>1. x \in Int /\ y \in Int
  BY DEF Mutation
<1>2. Max({x, y}) \in {x, y} /\ Max({x, y}) >= x /\ Max({x, y}) >= y
  BY <1>1, MaxOfTwo
<1>. QED BY <1>2

LEMMA RootIsNoKid == Root \in Agents /\ Root \notin Kids /\ Kids \subseteq Agents
BY JournalAssumption DEF Agents

\* The status of no agent begins or ends to be absent.
SameTree ==
  \A a \in Agents : /\ agent'[a].parent = agent[a].parent
                    /\ agent'[a].depth = agent[a].depth
                    /\ agent'[a].status = "absent" <=> agent[a].status = "absent"

LEMMA TreeKeeps ==
  ASSUME TypeInv, TreeInv, SameTree
  PROVE  TreeInv'
<1>1. \A k \in Kids : agent[k].parent \in Agents /\ k \in Agents
  BY DEF TypeInv, Agents
<1>. QED BY <1>1, RootIsNoKid DEF TreeInv, SameTree

AgentRow == [status : {"absent"} \cup Statuses, parent : Agents, depth : Nat]

\* What a change of the status of one agent leaves alone.
LEMMA StatusChanges ==
  ASSUME agent \in [Agents -> AgentRow], NEW a \in Agents, agent[a].status # "absent",
         NEW status \in Statuses, agent' = [agent EXCEPT ![a].status = status]
  PROVE  /\ agent' \in [Agents -> AgentRow]
         /\ agent'[a].status = status
         /\ \A b \in Agents : b # a => agent'[b] = agent[b]
         /\ SameTree
<1>1. status # "absent"
  BY DEF Statuses, ActiveStatus, TerminalStatus
<1>2. [agent[a] EXCEPT !.status = status] \in AgentRow
  BY DEF AgentRow
<1>3. agent'[a] = [agent[a] EXCEPT !.status = status]
  OBVIOUS
<1>4. \A b \in Agents : b # a => agent'[b] = agent[b]
  OBVIOUS
<1>5. agent' \in [Agents -> AgentRow]
  BY <1>2
<1>6. /\ agent'[a].status = status /\ agent'[a].parent = agent[a].parent
      /\ agent'[a].depth = agent[a].depth
  BY <1>3 DEF AgentRow
<1>. QED BY <1>1, <1>4, <1>5, <1>6 DEF SameTree

LEMMA OperationKeeps ==
  ASSUME TypeInv, OperationInv, UNCHANGED op, told'.said = told.said,
         run'.provider = run.provider, run'.mutation >= told'.mutation,
         \A k \in Kids, t \in Turns : turn[k][t] # "none" => turn'[k][t] # "none"
  PROVE  OperationInv'
<1>1. \A key \in OpKeys : Merged(op'[key], told'.said[key], Ends(key)')
  BY DEF OperationInv, Ends
<1>. QED BY <1>1 DEF OperationInv

\* Actions of the run's owner that leave its rows alone.
LEMMA OwnerKeeps ==
  ASSUME IInv,
         \E owner \in {"task", "lapsed", "recovery"}, finish \in {"none"} \cup TerminalStatus :
           run' = [run EXCEPT !.owner = owner, !.finish = finish],
         UNCHANGED <<agent, turn, approval, op, compaction, told>>
  PROVE  IInv'
<1>1. /\ run' \in [provider : {"codex", "claude"}, status : Statuses, mutation : Mutation,
                   owner : {"task", "lapsed", "recovery"}, finish : {"none"} \cup TerminalStatus]
      /\ run'.provider = run.provider /\ run'.status = run.status
      /\ run'.mutation = run.mutation
  BY DEF IInv, TypeInv
<1>2. TypeInv'
  BY <1>1 DEF IInv, TypeInv
<1>3. RunInv' /\ RequestInv' /\ TurnInv' /\ TreeInv'
  BY <1>1 DEF IInv, RunInv, RequestInv, TurnInv, TreeInv, Pending
<1>4. OperationInv'
  BY <1>1 DEF IInv, OperationInv, Ends
<1>5. CompactionInv'
  BY <1>1 DEF IInv, CompactionInv, Compacting
<1>. QED BY <1>2, <1>3, <1>4, <1>5 DEF IInv

LEMMA RootStartedKeeps ==
  ASSUME IInv, RootStarted
  PROVE  IInv'
<1>1. /\ run.status = "queued" /\ agent[Root].status = "queued"
      /\ \A k \in Kids : agent[k].status = "absent"
  BY DEF IInv, RunInv, RootStarted
<1>2. /\ run' \in [provider : {"codex", "claude"}, status : Statuses, mutation : Mutation,
                   owner : {"task", "lapsed", "recovery"}, finish : {"none"} \cup TerminalStatus]
      /\ run'.provider = run.provider /\ run'.status = "running"
      /\ run'.mutation = run.mutation
  BY DEF IInv, TypeInv, RootStarted, Statuses, ActiveStatus
<1>3. /\ agent' \in [Agents -> [status : {"absent"} \cup Statuses, parent : Agents, depth : Nat]]
      /\ agent'[Root].status = "running"
      /\ \A k \in Kids : agent'[k] = agent[k]
      /\ SameTree
  <2>1. agent \in [Agents -> AgentRow] /\ agent' = [agent EXCEPT ![Root].status = "running"]
    BY DEF IInv, TypeInv, AgentRow, RootStarted
  <2>2. "running" \in Statuses
    BY DEF Statuses, ActiveStatus
  <2>. QED BY <1>1, <2>1, <2>2, RootIsNoKid, StatusChanges DEF AgentRow
<1>4. UNCHANGED <<turn, approval, op, compaction, told>>
  BY DEF RootStarted
<1>5. TypeInv'
  BY <1>2, <1>3, <1>4 DEF IInv, TypeInv
<1>6. RunInv'
  BY <1>1, <1>2, <1>3 DEF RunInv, Statuses, ActiveStatus, TerminalStatus
<1>7. RequestInv'
  BY <1>1, <1>2, <1>3, <1>4 DEF IInv, RequestInv, Pending, Agents
<1>8. TurnInv'
  BY <1>2, <1>3, <1>4 DEF IInv, TurnInv
<1>9. TreeInv'
  BY <1>3, TreeKeeps DEF IInv
<1>10. OperationInv'
  BY <1>2, <1>4 DEF IInv, OperationInv, Ends
<1>11. CompactionInv'
  <2>1. told.compacting = {}
    BY <1>1 DEF IInv, CompactionInv, Compacting, AtWork
  <2>2. \A a \in Agents : compaction[a].phase = "none"
    BY <1>1 DEF IInv, CompactionInv, Agents
  <2>. QED BY <1>2, <1>4, <2>1, <2>2 DEF IInv, CompactionInv, Compacting
<1>. QED BY <1>5, <1>6, <1>7, <1>8, <1>9, <1>10, <1>11 DEF IInv

-----------------------------------------------------------------------------
(* The end of a child.                                                     *)

LEMMA EndChildKeeps ==
  ASSUME IInv, run.status \in ActiveStatus, NEW k \in Kids,
         NEW outcome \in TerminalStatus, NEW mutation \in Mutation,
         EndChild(k, outcome, mutation)
  PROVE  IInv'
<1>. DEFINE agents == [agent EXCEPT ![k].status = outcome]
            approvals == [q \in Requests |->
                            IF q \in Pending /\ approval[q].agent = k
                            THEN [approval[q] EXCEPT !.status = Resolution(outcome)]
                            ELSE approval[q]]
<1>1. /\ TypeInv /\ RunInv /\ RequestInv /\ TurnInv /\ TreeInv /\ OperationInv /\ CompactionInv
      /\ k \in Agents /\ k # Root
  BY RootIsNoKid DEF IInv
<1>2. agent[k].status \in ActiveStatus
  BY DEF EndChild, Transitions, ActiveStatus
<1>3. run.status \in AtWork
  BY <1>1, <1>2 DEF RunInv, ActiveStatus, AtWork
<1>4. /\ agent' = agents /\ approval' = approvals
      /\ turn' = [turn EXCEPT ![k] = [t \in Turns |-> IF @[t] = "open" THEN "ended" ELSE @[t]]]
      /\ run' = [run EXCEPT !.status = Reconciled(agents, approvals),
                            !.mutation = Max({@, mutation})]
      /\ told' = [told EXCEPT !.compacting = @ \ {k}]
      /\ UNCHANGED <<op, compaction>>
  BY DEF EndChild
<1>5. /\ agent' \in [Agents -> [status : {"absent"} \cup Statuses, parent : Agents, depth : Nat]]
      /\ \A a \in Agents : agent'[a].status = IF a = k THEN outcome ELSE agent[a].status
      /\ SameTree
  BY <1>1, <1>2, <1>4 DEF TypeInv, Statuses, ActiveStatus, TerminalStatus, SameTree
<1>6. /\ approval' \in [Requests -> [agent : Agents, turn : Turns \cup {NoTurn},
                          status : {"none", "pending", "approved", "cancelled", "failed"}]]
      /\ \A q \in Requests : /\ approval'[q].agent = approval[q].agent
                             /\ approval'[q].turn = approval[q].turn
      /\ Pending' = {q \in Pending : approval[q].agent # k}
  <2>1. ASSUME NEW q \in Requests
        PROVE  /\ approval'[q] \in [agent : Agents, turn : Turns \cup {NoTurn},
                          status : {"none", "pending", "approved", "cancelled", "failed"}]
               /\ approval'[q].agent = approval[q].agent
               /\ approval'[q].turn = approval[q].turn
               /\ q \in Pending' <=> q \in Pending /\ approval[q].agent # k
    <3>1. approval[q] \in [agent : Agents, turn : Turns \cup {NoTurn},
                           status : {"none", "pending", "approved", "cancelled", "failed"}]
      BY <1>1 DEF TypeInv
    <3>2. approval'[q] = IF q \in Pending /\ approval[q].agent = k
                         THEN [approval[q] EXCEPT !.status = Resolution(outcome)]
                         ELSE approval[q]
      BY <1>4
    <3>3. Resolution(outcome) \in {"cancelled", "failed"}
      BY DEF Resolution
    <3>4. q \in Pending' <=> approval'[q].status = "pending"
      BY DEF Pending
    <3>5. q \in Pending <=> approval[q].status = "pending"
      BY DEF Pending
    <3>. QED BY <3>1, <3>2, <3>3, <3>4, <3>5
  <2>2. approval' = [q \in Requests |-> approval'[q]]
    BY <1>4
  <2>. QED BY <2>1, <2>2 DEF Pending
<1>7. /\ turn' \in [Kids -> [Turns -> {"none", "open", "ended"}]]
      /\ \A j \in Kids, t \in Turns :
           turn'[j][t] = IF j = k /\ turn[j][t] = "open" THEN "ended" ELSE turn[j][t]
  BY <1>1, <1>4 DEF TypeInv
<1>8. /\ run'.provider = run.provider
      /\ run'.mutation \in Mutation /\ run'.mutation >= run.mutation
      /\ run'.status = IF run.status = "waiting" /\ agent[Root].status = "running" /\ Pending' = {}
                       THEN "running" ELSE run.status
      /\ run' \in [provider : {"codex", "claude"}, status : Statuses, mutation : Mutation,
                   owner : {"task", "lapsed", "recovery"}, finish : {"none"} \cup TerminalStatus]
  <2>1. run.mutation \in Mutation
    BY <1>1 DEF TypeInv
  <2>2. /\ Max({run.mutation, mutation}) \in Mutation
        /\ Max({run.mutation, mutation}) >= run.mutation
    BY <2>1, EvidenceGrows
  <2>3. Reconciled(agents, approvals) =
          IF run.status = "waiting" /\ agent[Root].status = "running" /\ Pending' = {}
          THEN "running" ELSE run.status
    <3>1. agents[Root].status = agent[Root].status
      BY <1>1, RootIsNoKid DEF TypeInv
    <3>2. (\A q \in Requests : approvals[q].status # "pending") <=> Pending' = {}
      BY <1>4 DEF Pending
    <3>. HIDE DEF agents, approvals
    <3>. QED BY <3>1, <3>2 DEF Reconciled
  <2>4. Reconciled(agents, approvals) \in Statuses
    <3>. HIDE DEF agents, approvals
    <3>. QED BY <1>1, <2>3 DEF TypeInv, Statuses, ActiveStatus
  <2>. HIDE DEF agents, approvals
  <2>. QED BY <1>1, <1>4, <2>2, <2>3, <2>4 DEF TypeInv
<1>. HIDE DEF agents, approvals
<1>9. /\ told'.said = told.said /\ told'.mutation = told.mutation
      /\ told'.compacting = told.compacting \ {k}
      /\ told' \in [said : [OpKeys -> SUBSET Snapshots], mutation : Mutation,
                    compacting : SUBSET Agents]
  BY <1>1, <1>4 DEF TypeInv
<1>10. TypeInv'
  BY <1>1, <1>4, <1>5, <1>6, <1>7, <1>8, <1>9 DEF TypeInv
<1>11. run'.status \in AtWork
  BY <1>3, <1>8 DEF AtWork
<1>12. RunInv'
  BY <1>1, <1>3, <1>5, <1>11, RootIsNoKid
     DEF RunInv, AtWork, Statuses, ActiveStatus, TerminalStatus
<1>13. RequestInv'
  <2>1. run'.status = "waiting" <=> Pending' # {}
    <3>1. agent[Root].status \in AtWork
      BY <1>1, <1>3 DEF RunInv, AtWork, Statuses, ActiveStatus, TerminalStatus
    <3>2. agent[Root].status = "waiting" => Pending' # {}
      BY <1>1, <1>6, RootIsNoKid DEF RequestInv
    <3>. QED BY <1>1, <1>3, <1>6, <1>8, <3>1, <3>2 DEF RequestInv, AtWork
  <2>2. ASSUME NEW a \in Agents
        PROVE  agent'[a].status = "waiting" <=> \E q \in Pending' : approval'[q].agent = a
    <3>1. \A q \in Pending' : q \in Pending /\ approval'[q].agent = approval[q].agent
                              /\ approval[q].agent # k
      BY <1>6 DEF Pending
    <3>2. \A q \in Pending : approval[q].agent # k => q \in Pending'
      BY <1>6
    <3>3. CASE a = k
      BY <1>5, <3>1, <3>3 DEF TerminalStatus
    <3>4. CASE a # k
      BY <1>1, <1>5, <3>1, <3>2, <3>4 DEF RequestInv
    <3>. QED BY <3>3, <3>4
  <2>3. \A q, r \in Pending' : approval'[q].agent = approval'[r].agent => q = r
    BY <1>1, <1>6 DEF RequestInv, Pending
  <2>4. \A q \in Pending' : approval'[q].agent # Root =>
          approval'[q].turn \in Turns /\ turn'[approval'[q].agent][approval'[q].turn] = "open"
    <3>. SUFFICES ASSUME NEW q \in Pending', approval'[q].agent # Root
                  PROVE  /\ approval'[q].turn \in Turns
                         /\ turn'[approval'[q].agent][approval'[q].turn] = "open"
      OBVIOUS
    <3>1. /\ q \in Pending /\ q \in Requests /\ approval[q].agent # k
          /\ approval'[q].agent = approval[q].agent /\ approval'[q].turn = approval[q].turn
      BY <1>6 DEF Pending
    <3>2. approval[q].agent \in Kids /\ approval[q].turn \in Turns
          /\ turn[approval[q].agent][approval[q].turn] = "open"
      BY <1>1, <3>1 DEF RequestInv, TypeInv, Agents
    <3>. QED BY <1>7, <3>1, <3>2
  <2>. QED BY <2>1, <2>2, <2>3, <2>4 DEF RequestInv
<1>14. TurnInv'
  <2>1. \A j \in Kids, t \in Turns : turn'[j][t] = "open" => turn[j][t] = "open" /\ j # k
    BY <1>7
  <2>2. \A j \in Kids, t \in Turns : turn[j][t] = "none" => turn'[j][t] = "none"
    BY <1>7
  <2>3. \A j \in Kids : j \in Agents
    BY RootIsNoKid
  <2>. QED BY <1>1, <1>5, <1>8, <2>1, <2>2, <2>3 DEF TurnInv
<1>15. TreeInv'
  BY <1>1, <1>5, TreeKeeps
<1>16. OperationInv'
  <2>1. run'.mutation >= told'.mutation
    BY <1>1, <1>8, <1>9 DEF OperationInv, TypeInv, Mutation
  <2>2. \A j \in Kids, t \in Turns : turn[j][t] # "none" => turn'[j][t] # "none"
    BY <1>7
  <2>. QED BY <1>1, <1>4, <1>8, <1>9, <2>1, <2>2, OperationKeeps
<1>17. CompactionInv'
  <2>1. Compacting' = Compacting \ {k}
    <3>1. ASSUME NEW a \in Agents
          PROVE  a \in Compacting' <=> a \in Compacting /\ a # k
      <4>1. CASE a = k
        BY <1>5, <4>1 DEF Compacting, TerminalStatus, AtWork
      <4>2. CASE a # k
        <5>1. agent'[a].status = agent[a].status
          BY <1>5, <4>2
        <5>2. a # Root => turn'[a] = turn[a]
          BY <1>1, <1>4, <4>2 DEF TypeInv, Agents
        <5>. QED BY <1>3, <1>4, <1>8, <1>11, <4>2, <5>1, <5>2 DEF Compacting
      <4>. QED BY <4>1, <4>2
    <3>. QED BY <3>1 DEF Compacting
  <2>2. \A a \in Agents : agent'[a].status \in {"absent", "queued"} =>
          compaction'[a].phase = "none"
    BY <1>1, <1>4, <1>5 DEF CompactionInv, TerminalStatus
  <2>3. run'.provider = "codex" => \A j \in Kids : compaction'[j].phase # "none" =>
          compaction'[j].turn \in Turns /\ turn'[j][compaction'[j].turn] # "none"
    BY <1>1, <1>4, <1>7, <1>8 DEF CompactionInv
  <2>. QED BY <1>1, <1>9, <2>1, <2>2, <2>3 DEF CompactionInv
<1>. QED BY <1>10, <1>12, <1>13, <1>14, <1>15, <1>16, <1>17 DEF IInv

LEMMA ChildEndedKeeps ==
  ASSUME IInv, NEW k \in Kids, NEW t \in Turns, NEW outcome \in TerminalStatus,
         ChildEnded(k, t, outcome)
  PROVE  IInv'
BY EndChildKeeps DEF ChildEnded, Live, ActiveStatus, Mutation

LEMMA CloseChildKeeps ==
  ASSUME IInv, NEW k \in Kids, CloseChild(k)
  PROVE  IInv'
<1>1. run.finish \in TerminalStatus
  BY DEF IInv, TypeInv, CloseChild, Closing
<1>2. (IF run.owner = "task" THEN 2 ELSE 0) \in Mutation
  BY DEF Mutation
<1>. QED BY <1>1, <1>2, EndChildKeeps DEF CloseChild, Closing

-----------------------------------------------------------------------------
(* The turns of children and the requests for the user.                    *)

LEMMA LiveRun ==
  ASSUME IInv, Live
  PROVE  /\ run.status \in AtWork /\ agent[Root].status \in AtWork
         /\ run.status \notin TerminalStatus /\ run.status # "queued"
BY DEF IInv, RunInv, Live, AtWork, Statuses, ActiveStatus, TerminalStatus

LEMMA ChildStartedKeeps ==
  ASSUME IInv, NEW k \in Kids, NEW t \in Turns, ChildStarted(k, t)
  PROVE  IInv'
<1>1. /\ TypeInv /\ RunInv /\ RequestInv /\ TurnInv /\ TreeInv /\ OperationInv /\ CompactionInv
      /\ k \in Agents /\ k # Root
  BY RootIsNoKid DEF IInv
<1>2. /\ run.provider = "codex" /\ agent[k].status \notin {"absent", "waiting"}
      /\ turn[k][t] = "none" /\ \A u \in Turns : turn[k][u] # "open"
      /\ UNCHANGED <<run, approval, op, compaction, told>>
  BY DEF ChildStarted
<1>3. /\ run.status \in AtWork /\ run.status \notin TerminalStatus /\ run.status # "queued"
  BY LiveRun DEF ChildStarted
<1>4. /\ agent' \in [Agents -> [status : {"absent"} \cup Statuses, parent : Agents, depth : Nat]]
      /\ \A a \in Agents : agent'[a].status = IF a = k THEN "running" ELSE agent[a].status
      /\ SameTree
  <2>1. agent \in [Agents -> AgentRow] /\ agent' = [agent EXCEPT ![k].status = "running"]
    BY <1>1 DEF TypeInv, AgentRow, ChildStarted
  <2>2. "running" \in Statuses
    BY DEF Statuses, ActiveStatus
  <2>3. /\ agent' \in [Agents -> AgentRow] /\ agent'[k].status = "running" /\ SameTree
        /\ \A b \in Agents : b # k => agent'[b] = agent[b]
    BY <1>1, <1>2, <2>1, <2>2, StatusChanges
  <2>. QED BY <2>3 DEF AgentRow
<1>5. /\ turn' \in [Kids -> [Turns -> {"none", "open", "ended"}]]
      /\ \A j \in Kids, u \in Turns :
           turn'[j][u] = IF j = k /\ u = t THEN "open" ELSE turn[j][u]
  BY <1>1, <1>2 DEF TypeInv, ChildStarted
<1>6. TypeInv'
  BY <1>1, <1>2, <1>4, <1>5 DEF TypeInv
<1>7. RunInv'
  BY <1>1, <1>2, <1>3, <1>4, RootIsNoKid DEF RunInv
<1>8. RequestInv'
  <2>1. Pending' = Pending
    BY <1>2 DEF Pending
  <2>2. \A q \in Pending : approval[q].agent # Root =>
          approval[q].agent \in Kids /\ approval[q].turn \in Turns
          /\ turn'[approval[q].agent][approval[q].turn] = "open"
    BY <1>1, <1>5 DEF RequestInv, TypeInv, Agents, Pending
  <2>. QED BY <1>1, <1>2, <1>4, <2>1, <2>2 DEF RequestInv
<1>9. TurnInv'
  <2>1. \A j \in Kids, u, v \in Turns : turn'[j][u] = "open" /\ turn'[j][v] = "open" => u = v
    BY <1>1, <1>2, <1>5 DEF TurnInv
  <2>2. \A j \in Kids, u \in Turns : turn'[j][u] = "open" => agent'[j].status \in AtWork
    <3>1. \A j \in Kids, u \in Turns : turn'[j][u] = "open" => j = k \/ turn[j][u] = "open"
      BY <1>5
    <3>2. \A j \in Kids : j \in Agents /\ "running" \in AtWork
      BY RootIsNoKid DEF AtWork
    <3>. QED BY <1>1, <1>4, <3>1, <3>2 DEF TurnInv
  <2>. QED BY <1>2, <2>1, <2>2 DEF TurnInv
<1>10. TreeInv'
  BY <1>1, <1>4, TreeKeeps
<1>11. OperationInv'
  BY <1>1, <1>2, <1>5, OperationKeeps DEF OperationInv
<1>12. CompactionInv'
  <2>1. ASSUME NEW a \in Agents
        PROVE  a \in Compacting' <=> a \in Compacting
    <3>1. CASE a = k
      <4>1. compaction[k].phase = "started" =>
              compaction[k].turn \in Turns /\ compaction[k].turn # t
        BY <1>1, <1>2 DEF CompactionInv
      <4>. QED BY <1>1, <1>2, <1>5, <3>1, <4>1 DEF Compacting
    <3>2. CASE a # k
      <4>1. a # Root => turn'[a] = turn[a]
        BY <1>1, <3>2 DEF TypeInv, ChildStarted, Agents
      <4>. QED BY <1>2, <1>4, <3>2, <4>1 DEF Compacting
    <3>. QED BY <3>1, <3>2
  <2>2. Compacting' = Compacting
    BY <2>1 DEF Compacting
  <2>3. \A a \in Agents : agent'[a].status \in {"absent", "queued"} =>
          compaction'[a].phase = "none"
    BY <1>1, <1>2, <1>4 DEF CompactionInv
  <2>4. \A j \in Kids : compaction'[j].phase # "none" =>
          compaction'[j].turn \in Turns /\ turn'[j][compaction'[j].turn] # "none"
    BY <1>1, <1>2, <1>5 DEF CompactionInv
  <2>. QED BY <1>1, <1>2, <2>2, <2>3, <2>4 DEF CompactionInv
<1>. QED BY <1>6, <1>7, <1>8, <1>9, <1>10, <1>11, <1>12 DEF IInv

\* Steps in which agents at work and runs at work stay so, and turns go on,
\* leave what is compacting alone.
LEMMA CompactionKeeps ==
  ASSUME CompactionInv, UNCHANGED <<turn, compaction, told>>,
         run'.provider = run.provider,
         run'.status \in AtWork <=> run.status \in AtWork,
         \A a \in Agents : /\ agent'[a].status \in AtWork <=> agent[a].status \in AtWork
                           /\ agent'[a].status \in {"absent", "queued"} =>
                                agent[a].status \in {"absent", "queued"}
  PROVE  CompactionInv'
<1>1. Compacting' = Compacting
  BY DEF Compacting
<1>. QED BY <1>1 DEF CompactionInv

LEMMA ControlRequestedKeeps ==
  ASSUME IInv, NEW a \in Agents, NEW t \in Turns \cup {NoTurn}, NEW q \in Requests,
         ControlRequested(a, t, q)
  PROVE  IInv'
<1>1. /\ TypeInv /\ RunInv /\ RequestInv /\ TurnInv /\ TreeInv /\ OperationInv /\ CompactionInv
  BY DEF IInv
<1>2. /\ approval[q].status = "none" /\ agent[a].status = "running"
      /\ a # Root => t \in Turns /\ turn[a][t] = "open"
      /\ UNCHANGED <<turn, op, compaction, told>>
  BY DEF ControlRequested
<1>3. /\ run.status \in AtWork /\ agent[Root].status \in AtWork
  BY LiveRun DEF ControlRequested
<1>4. /\ agent' \in [Agents -> [status : {"absent"} \cup Statuses, parent : Agents, depth : Nat]]
      /\ \A b \in Agents : agent'[b].status = IF b = a THEN "waiting" ELSE agent[b].status
      /\ SameTree
  BY <1>1, <1>2 DEF TypeInv, ControlRequested, Statuses, ActiveStatus, SameTree
<1>5. /\ approval' \in [Requests -> [agent : Agents, turn : Turns \cup {NoTurn},
                          status : {"none", "pending", "approved", "cancelled", "failed"}]]
      /\ approval'[q].agent = a /\ approval'[q].turn = t
      /\ \A r \in Requests : r # q => approval'[r] = approval[r]
      /\ Pending' = Pending \cup {q} /\ q \notin Pending
  BY <1>1, <1>2 DEF TypeInv, ControlRequested, Pending
<1>6. /\ run' \in [provider : {"codex", "claude"}, status : Statuses, mutation : Mutation,
                   owner : {"task", "lapsed", "recovery"}, finish : {"none"} \cup TerminalStatus]
      /\ run'.provider = run.provider /\ run'.status = "waiting"
      /\ run'.mutation = run.mutation
  BY <1>1 DEF TypeInv, ControlRequested, Statuses, ActiveStatus
<1>7. TypeInv'
  BY <1>1, <1>2, <1>4, <1>5, <1>6 DEF TypeInv
<1>8. RunInv'
  BY <1>3, <1>4, <1>6, RootIsNoKid DEF RunInv, AtWork, Statuses, ActiveStatus, TerminalStatus
<1>9. RequestInv'
  <2>1. \A r \in Pending : approval[r].agent # a
    BY <1>1, <1>2 DEF RequestInv
  <2>2. \A r \in Pending : r # q /\ approval'[r] = approval[r]
    BY <1>5 DEF Pending
  <2>3. \A b \in Agents : agent'[b].status = "waiting" <=>
          \E r \in Pending' : approval'[r].agent = b
    <3>. SUFFICES ASSUME NEW b \in Agents
                  PROVE  agent'[b].status = "waiting" <=> \E r \in Pending' : approval'[r].agent = b
      OBVIOUS
    <3>1. CASE b = a
      BY <1>4, <1>5, <3>1
    <3>2. CASE b # a
      <4>1. agent'[b].status = "waiting" <=> \E r \in Pending : approval[r].agent = b
        BY <1>1, <1>4, <3>2 DEF RequestInv
      <4>. QED BY <1>5, <2>2, <3>2, <4>1
    <3>. QED BY <3>1, <3>2
  <2>4. \A r, x \in Pending' : approval'[r].agent = approval'[x].agent => r = x
    BY <1>1, <1>5, <2>1, <2>2 DEF RequestInv
  <2>5. \A r \in Pending' : approval'[r].agent # Root =>
          approval'[r].turn \in Turns /\ turn'[approval'[r].agent][approval'[r].turn] = "open"
    BY <1>1, <1>2, <1>5, <2>2 DEF RequestInv
  <2>. QED BY <1>5, <1>6, <2>3, <2>4, <2>5 DEF RequestInv
<1>10. TurnInv'
  BY <1>1, <1>2, <1>4, <1>6, RootIsNoKid DEF TurnInv, AtWork
<1>11. TreeInv'
  BY <1>1, <1>4, TreeKeeps
<1>12. OperationInv'
  BY <1>1, <1>2, <1>6, OperationKeeps DEF OperationInv
<1>13. CompactionInv'
  BY <1>1, <1>2, <1>3, <1>4, <1>6, CompactionKeeps DEF AtWork
<1>. QED BY <1>7, <1>8, <1>9, <1>10, <1>11, <1>12, <1>13 DEF IInv

LEMMA AcknowledgeKeeps ==
  ASSUME IInv, NEW q \in Requests, Acknowledge(q)
  PROVE  IInv'
<1>. DEFINE a == approval[q].agent
<1>1. /\ TypeInv /\ RunInv /\ RequestInv /\ TurnInv /\ TreeInv /\ OperationInv /\ CompactionInv
      /\ a \in Agents
  BY DEF IInv, TypeInv
<1>2. /\ run.status = "waiting" /\ q \in Pending /\ agent[a].status = "waiting"
      /\ UNCHANGED <<turn, op, compaction, told>>
  BY DEF Acknowledge
<1>3. agent[Root].status \in AtWork
  BY <1>1, <1>2 DEF RunInv, AtWork, Statuses, ActiveStatus, TerminalStatus
<1>4. /\ agent' \in [Agents -> [status : {"absent"} \cup Statuses, parent : Agents, depth : Nat]]
      /\ \A b \in Agents : agent'[b].status = IF b = a THEN "running" ELSE agent[b].status
      /\ SameTree
  <2>1. agent' = [agent EXCEPT ![a].status = "running"]
    BY DEF Acknowledge
  <2>. HIDE DEF a
  <2>. QED BY <1>1, <1>2, <2>1 DEF TypeInv, Statuses, ActiveStatus, SameTree
<1>5. /\ approval' \in [Requests -> [agent : Agents, turn : Turns \cup {NoTurn},
                          status : {"none", "pending", "approved", "cancelled", "failed"}]]
      /\ \A r \in Requests : /\ approval'[r].agent = approval[r].agent
                             /\ approval'[r].turn = approval[r].turn
      /\ Pending' = Pending \ {q}
  BY <1>1, <1>2 DEF TypeInv, Acknowledge, Pending
<1>6. \A r \in Pending : approval[r].agent = a => r = q
  BY <1>1, <1>2 DEF RequestInv
<1>7. /\ run' \in [provider : {"codex", "claude"}, status : Statuses, mutation : Mutation,
                   owner : {"task", "lapsed", "recovery"}, finish : {"none"} \cup TerminalStatus]
      /\ run'.provider = run.provider /\ run'.mutation = run.mutation
      /\ run'.status = IF Pending' # {} THEN "waiting" ELSE "running"
  <2>1. (Pending # {q} \/ (a # Root /\ agent[Root].status = "waiting")) <=> Pending' # {}
    <3>1. agent[Root].status = "waiting" => \E r \in Pending : approval[r].agent = Root
      BY <1>1, RootIsNoKid DEF RequestInv
    <3>. QED BY <1>2, <1>5, <3>1
  <2>2. run'.status = IF Pending' # {} THEN "waiting" ELSE "running"
    BY <1>1, <1>2, <2>1 DEF Acknowledge, TypeInv
  <2>. QED BY <1>1, <1>2, <2>2 DEF Acknowledge, TypeInv, Statuses, ActiveStatus
<1>. HIDE DEF a
<1>8. TypeInv'
  BY <1>1, <1>2, <1>4, <1>5, <1>7 DEF TypeInv
<1>9. RunInv'
  BY <1>3, <1>4, <1>7, RootIsNoKid DEF RunInv, AtWork, Statuses, ActiveStatus, TerminalStatus
<1>10. RequestInv'
  <2>1. \A r \in Pending' : r \in Pending /\ r \in Requests /\ approval[r].agent # a
    BY <1>5, <1>6 DEF Pending
  <2>2. ASSUME NEW b \in Agents
        PROVE  agent'[b].status = "waiting" <=> \E r \in Pending' : approval'[r].agent = b
    <3>1. CASE b = a
      BY <1>4, <1>5, <2>1, <3>1
    <3>2. CASE b # a
      <4>1. \A r \in Pending : approval[r].agent = b => r \in Pending' /\ r \in Requests
        BY <1>5, <3>2 DEF a, Pending
      <4>2. agent'[b].status = "waiting" <=> \E r \in Pending : approval[r].agent = b
        BY <1>1, <1>4, <3>2 DEF RequestInv
      <4>. QED BY <1>5, <2>1, <4>1, <4>2
    <3>. QED BY <3>1, <3>2
  <2>3. \A r, x \in Pending' : approval'[r].agent = approval'[x].agent => r = x
    BY <1>1, <1>5, <2>1 DEF RequestInv
  <2>4. \A r \in Pending' : approval'[r].agent # Root =>
          approval'[r].turn \in Turns /\ turn'[approval'[r].agent][approval'[r].turn] = "open"
    BY <1>1, <1>2, <1>5, <2>1 DEF RequestInv
  <2>. QED BY <1>7, <2>2, <2>3, <2>4 DEF RequestInv
<1>11. TurnInv'
  BY <1>1, <1>2, <1>4, <1>7, RootIsNoKid DEF TurnInv, AtWork
<1>12. TreeInv'
  BY <1>1, <1>4, TreeKeeps
<1>13. OperationInv'
  BY <1>1, <1>2, <1>7, OperationKeeps DEF OperationInv
<1>14. CompactionInv'
  <2>1. agent[a].status = "waiting" /\ run.status = "waiting"
    BY <1>2 DEF a
  <2>. QED BY <1>1, <1>2, <1>4, <1>7, <2>1, CompactionKeeps DEF AtWork
<1>. QED BY <1>8, <1>9, <1>10, <1>11, <1>12, <1>13, <1>14 DEF IInv

-----------------------------------------------------------------------------
(* The reports about children.                                             *)

\* What a report does to the status of an agent: nothing, or one that has
\* no open turn and has not ended goes on, not to wait.
Follows(a) ==
  \/ agent'[a].status = agent[a].status
  \/ /\ a \in Kids /\ \A t \in Turns : turn[a][t] # "open"
     /\ agent[a].status \notin TerminalStatus /\ agent'[a].status \notin {"absent", "waiting"}
     /\ agent'[a].status = "queued" => agent[a].status \in {"absent", "queued"}

LEMMA ReportKeeps ==
  ASSUME IInv, Live, UNCHANGED <<run, turn, approval, op, compaction>>,
         agent' \in [Agents -> [status : {"absent"} \cup Statuses, parent : Agents, depth : Nat]],
         \A a \in Agents : Follows(a),
         told' = [told EXCEPT !.compacting = StillCompacting(agent')],
         TreeInv'
  PROVE  IInv'
<1>1. /\ TypeInv /\ RunInv /\ RequestInv /\ TurnInv /\ TreeInv /\ OperationInv /\ CompactionInv
      /\ Root \in Agents /\ Root \notin Kids /\ Kids \subseteq Agents
  BY RootIsNoKid DEF IInv
<1>2. /\ run.status \in AtWork /\ run.status \notin TerminalStatus /\ run.status # "queued"
      /\ agent'[Root].status = agent[Root].status
  BY <1>1, LiveRun DEF Follows
<1>3. \A k \in Kids : agent'[k].status # agent[k].status =>
        \A t \in Turns : turn[k][t] # "open"
  BY <1>1 DEF Follows
<1>4. /\ told'.said = told.said /\ told'.mutation = told.mutation
      /\ told'.compacting = {a \in told.compacting : agent'[a].status \in ActiveStatus}
      /\ told' \in [said : [OpKeys -> SUBSET Snapshots], mutation : Mutation,
                    compacting : SUBSET Agents]
  BY <1>1 DEF TypeInv, StillCompacting
<1>5. TypeInv'
  BY <1>1, <1>4 DEF TypeInv
<1>6. RunInv'
  BY <1>1, <1>2 DEF RunInv
<1>7. RequestInv'
  <2>1. Pending' = Pending
    BY DEF Pending
  <2>2. \A q \in Pending : q \in Requests /\ approval[q].agent \in Agents
    BY <1>1 DEF Pending, TypeInv
  <2>3. \A a \in Agents : agent[a].status = "waiting" => agent'[a].status = "waiting"
    <3>. SUFFICES ASSUME NEW a \in Agents, agent[a].status = "waiting",
                         agent'[a].status # "waiting"
                  PROVE  FALSE
      OBVIOUS
    <3>1. PICK q \in Pending : approval[q].agent = a
      BY <1>1 DEF RequestInv
    <3>2. a # Root
      BY <1>2
    <3>. QED BY <1>1, <1>3, <3>1, <3>2 DEF RequestInv, Agents
  <2>4. \A a \in Agents : agent'[a].status = "waiting" => agent[a].status = "waiting"
    BY DEF Follows
  <2>. QED BY <1>1, <2>1, <2>3, <2>4 DEF RequestInv
<1>8. TurnInv'
  BY <1>1, <1>3 DEF TurnInv
<1>9. OperationInv'
  BY <1>1, <1>4, OperationKeeps DEF OperationInv
<1>10. \A a \in Agents : agent'[a].status \in {"absent", "queued"} =>
         agent[a].status \in {"absent", "queued"}
  BY DEF Follows
<1>11. Compacting' = {a \in Compacting : agent'[a].status \in ActiveStatus}
  <2>1. ASSUME NEW a \in Agents
        PROVE  a \in Compacting' <=> a \in Compacting /\ agent'[a].status \in ActiveStatus
    <3>1. agent[a].status \in AtWork /\ agent'[a].status \in ActiveStatus =>
            agent'[a].status \in AtWork
      BY <1>10 DEF AtWork, ActiveStatus
    <3>2. agent'[a].status \in AtWork /\ compaction[a].phase = "started" =>
            agent[a].status \in AtWork
      <4>. SUFFICES ASSUME agent'[a].status \in AtWork, compaction[a].phase = "started"
                    PROVE  agent[a].status \in AtWork
        OBVIOUS
      <4>1. agent[a].status \notin {"absent", "queued"}
        BY <1>1 DEF CompactionInv
      <4>2. agent[a].status \in {"absent"} \cup Statuses
        BY <1>1 DEF TypeInv
      <4>. QED BY <4>1, <4>2 DEF Follows, AtWork, Statuses, ActiveStatus
    <3>3. agent'[a].status \in AtWork => agent'[a].status \in ActiveStatus
      BY DEF AtWork, ActiveStatus
    <3>. QED BY <1>2, <3>1, <3>2, <3>3 DEF Compacting
  <2>. QED BY <2>1 DEF Compacting
<1>12. CompactionInv'
  BY <1>1, <1>4, <1>10, <1>11 DEF CompactionInv
<1>. QED BY <1>5, <1>6, <1>7, <1>8, <1>9, <1>12 DEF IInv

\* An update that is let through follows, if what is reported is not to wait.
LEMMA UpdatesFollow ==
  ASSUME NEW x, NEW y, <<x, y>> \in Updates, x # y, y # "waiting"
  PROVE  x \notin TerminalStatus /\ y \notin {"absent", "waiting", "queued"}
BY DEF Updates, Transitions, ActiveStatus, TerminalStatus

LEMMA SubAgentKeeps ==
  ASSUME IInv, NEW k \in Kids, NEW activity \in {"none", "running", "completed"},
         SubAgent(k, activity)
  PROVE  IInv'
<1>1. /\ TypeInv /\ TreeInv /\ k \in Agents
  BY RootIsNoKid DEF IInv
<1>2. /\ Live /\ agent[k].status # "absent"
      /\ <<agent[k].status, Reported(k, activity)>> \in Updates
      /\ agent' = [agent EXCEPT ![k].status = Reported(k, activity)]
      /\ told' = [told EXCEPT !.compacting = StillCompacting(agent')]
      /\ UNCHANGED <<run, turn, approval, op, compaction>>
  BY DEF SubAgent
<1>3. /\ Reported(k, activity) \in Statuses
      /\ Reported(k, activity) # agent[k].status =>
           ~Tracked(k) /\ Reported(k, activity) # "waiting"
  BY <1>1, <1>2 DEF Reported, TypeInv, Statuses, ActiveStatus, TerminalStatus
<1>4. /\ agent' \in [Agents -> [status : {"absent"} \cup Statuses, parent : Agents, depth : Nat]]
      /\ \A a \in Agents : agent'[a].status = IF a = k THEN Reported(k, activity)
                                              ELSE agent[a].status
      /\ SameTree
  BY <1>1, <1>2, <1>3 DEF TypeInv, SameTree, Statuses, ActiveStatus, TerminalStatus
<1>5. \A a \in Agents : Follows(a)
  <2>1. ~Tracked(k) => \A t \in Turns : turn[k][t] # "open"
    BY DEF Tracked
  <2>. QED BY <1>2, <1>3, <1>4, <2>1, UpdatesFollow DEF Follows
<1>6. TreeInv'
  BY <1>1, <1>4, TreeKeeps
<1>. QED BY <1>2, <1>4, <1>5, <1>6, ReportKeeps

LEMMA ChildAgentsKeeps ==
  ASSUME IInv, NEW parent \in Agents, NEW kids \in SUBSET Kids,
         NEW status \in [kids -> Reportable], ChildAgents(parent, status)
  PROVE  IInv'
<1>. DEFINE new == {k \in kids : agent[k].status = "absent"}
<1>1. /\ TypeInv /\ TreeInv /\ TurnInv /\ kids \subseteq Agents /\ Root \notin kids
      /\ DOMAIN status = kids
  BY RootIsNoKid DEF IInv
<1>2. /\ Live /\ parent \notin kids /\ agent[parent].status # "absent"
      /\ \A k \in kids \ new :
           /\ agent[k].parent = parent
           /\ <<agent[k].status, Reported(k, status[k])>> \in Updates
      /\ told' = [told EXCEPT !.compacting = StillCompacting(agent')]
      /\ UNCHANGED <<run, turn, approval, op, compaction>>
  BY <1>1 DEF ChildAgents
<1>3. agent' = [a \in Agents |->
        IF a \in new
        THEN [status |-> IF status[a] = "none" THEN "queued" ELSE status[a],
              parent |-> parent, depth |-> agent[parent].depth + 1]
        ELSE IF a \in kids
        THEN [agent[a] EXCEPT !.status = Reported(a, status[a])]
        ELSE agent[a]]
  BY <1>1 DEF ChildAgents
<1>. HIDE DEF new
<1>4. \A k \in new : k \in kids /\ k \in Kids /\ k \in Agents /\ agent[k].status = "absent"
  BY <1>1 DEF new
<1>5. \A k \in new : /\ agent'[k].status \in Statuses \ {"waiting"}
                     /\ agent'[k].parent = parent
                     /\ agent'[k].depth = agent[parent].depth + 1
  BY <1>3, <1>4 DEF Reportable, Statuses, ActiveStatus, TerminalStatus
<1>6. \A a \in Agents \ new : /\ agent'[a].parent = agent[a].parent
                              /\ agent'[a].depth = agent[a].depth
                              /\ a \notin kids => agent'[a].status = agent[a].status
                              /\ a \in kids => agent'[a].status = Reported(a, status[a])
  BY <1>1, <1>3 DEF TypeInv
<1>7. \A k \in kids \ new : /\ Reported(k, status[k]) \in Statuses
                            /\ Reported(k, status[k]) # agent[k].status =>
                                 ~Tracked(k) /\ Reported(k, status[k]) # "waiting"
  <2>1. \A k \in kids \ new : agent[k].status \in Statuses
    BY <1>1 DEF TypeInv, new
  <2>. QED BY <2>1 DEF Reported, Reportable, Statuses, ActiveStatus, TerminalStatus
<1>8. agent' \in [Agents -> [status : {"absent"} \cup Statuses, parent : Agents, depth : Nat]]
  <2>1. agent[parent].depth + 1 \in Nat
    BY <1>1 DEF TypeInv
  <2>2. ASSUME NEW a \in Agents
        PROVE  agent'[a] \in [status : {"absent"} \cup Statuses, parent : Agents, depth : Nat]
    <3>1. CASE a \in new
      <4>1. agent'[a] = [status |-> IF status[a] = "none" THEN "queued" ELSE status[a],
                         parent |-> parent, depth |-> agent[parent].depth + 1]
        BY <1>3, <3>1
      <4>2. (IF status[a] = "none" THEN "queued" ELSE status[a]) \in {"absent"} \cup Statuses
        BY <1>4, <3>1 DEF Reportable, Statuses, ActiveStatus, TerminalStatus
      <4>. QED BY <2>1, <4>1, <4>2
    <3>2. CASE a \in kids \ new
      <4>1. agent'[a] = [agent[a] EXCEPT !.status = Reported(a, status[a])]
        BY <1>3, <3>2
      <4>2. agent[a] \in [status : {"absent"} \cup Statuses, parent : Agents, depth : Nat]
        BY <1>1 DEF TypeInv
      <4>. QED BY <1>7, <3>2, <4>1, <4>2
    <3>3. CASE a \notin kids
      BY <1>1, <1>3, <1>4, <3>3 DEF TypeInv
    <3>. QED BY <3>1, <3>2, <3>3
  <2>3. agent' = [a \in Agents |-> agent'[a]]
    BY <1>3
  <2>. QED BY <2>2, <2>3
<1>9. \A a \in Agents : Follows(a)
  <2>. SUFFICES ASSUME NEW a \in Agents PROVE Follows(a)
    OBVIOUS
  <2>1. CASE a \in new
    <3>1. \A t \in Turns : turn[a][t] # "open"
      BY <1>1, <1>4, <2>1 DEF TurnInv, AtWork
    <3>. QED BY <1>4, <1>5, <2>1, <3>1 DEF Follows, Statuses, TerminalStatus
  <2>2. CASE a \in kids \ new
    <3>1. ~Tracked(a) => \A t \in Turns : turn[a][t] # "open"
      BY DEF Tracked
    <3>2. /\ a \in Kids /\ agent'[a].status = Reported(a, status[a])
          /\ <<agent[a].status, Reported(a, status[a])>> \in Updates
      BY <1>1, <1>2, <1>6, <2>2
    <3>3. CASE Reported(a, status[a]) = agent[a].status
      BY <3>2, <3>3 DEF Follows
    <3>4. CASE Reported(a, status[a]) # agent[a].status
      <4>1. ~Tracked(a) /\ Reported(a, status[a]) # "waiting"
        BY <1>7, <2>2, <3>4
      <4>2. /\ agent[a].status \notin TerminalStatus
            /\ Reported(a, status[a]) \notin {"absent", "waiting", "queued"}
        BY <3>2, <3>4, <4>1, UpdatesFollow
      <4>. QED BY <3>1, <3>2, <4>1, <4>2 DEF Follows
    <3>. QED BY <3>3, <3>4
  <2>3. CASE a \notin kids
    BY <1>4, <1>6, <2>3 DEF Follows
  <2>. QED BY <2>1, <2>2, <2>3
<1>10. TreeInv'
  <2>1. \A a \in Agents : agent[a].status # "absent" =>
          a \notin new /\ agent'[a].status # "absent" /\ agent'[a].depth = agent[a].depth
    BY <1>4, <1>6, <1>7 DEF Statuses, ActiveStatus, TerminalStatus
  <2>2. ASSUME NEW k \in Kids, agent'[k].status # "absent"
        PROVE  /\ agent'[agent'[k].parent].status # "absent"
               /\ agent'[k].depth = agent'[agent'[k].parent].depth + 1
    <3>1. CASE k \in new
      BY <1>2, <1>5, <2>1, <3>1
    <3>2. CASE k \notin new
      <4>1. k \in Agents /\ agent[k].status # "absent"
        BY <1>6, <2>2, <3>2, RootIsNoKid DEF new
      <4>2. agent[k].parent \in Agents
        BY <1>1, <4>1 DEF TypeInv
      <4>. QED BY <1>1, <1>6, <2>1, <3>2, <4>1, <4>2 DEF TreeInv
    <3>. QED BY <3>1, <3>2
  <2>3. agent'[Root].depth = 0
    BY <1>1, <1>4, <1>6, RootIsNoKid DEF TreeInv
  <2>. QED BY <2>2, <2>3 DEF TreeInv
<1>. QED BY <1>2, <1>8, <1>9, <1>10, ReportKeeps

-----------------------------------------------------------------------------
(* Operations.                                                             *)

OpRow == [status : {"absent", "running"} \cup Outcomes, conflicted : BOOLEAN,
          error : BOOLEAN, revision : Nat]

Ended(said) == {s \in said : s.status # "running"}

\* ToolOperation::merge, field by field.
LEMMA MergeFields ==
  ASSUME NEW old \in OpRow, NEW s \in Snapshots
  PROVE  LET new == Merge(old, s)
             delayed == old.status # "running" /\ s.status = "running"
         IN
         /\ new \in OpRow /\ new.revision >= old.revision
         /\ new.conflicted <=> \/ old.conflicted
                               \/ old.status # "running" /\ s.status \notin {"running", old.status}
         /\ new.status = IF new.conflicted THEN "unknown"
                         ELSE IF delayed THEN old.status ELSE s.status
         /\ new.error <=> old.error \/ (~delayed /\ s.error)
         /\ new # old => new.revision = old.revision + 1
<1>. DEFINE delayed == old.status # "running" /\ s.status = "running"
            conflicted == \/ old.conflicted
                          \/ old.status # "running" /\ s.status \notin {"running", old.status}
            status == IF conflicted THEN "unknown" ELSE IF delayed THEN old.status ELSE s.status
            error == old.error \/ (~delayed /\ s.error)
            new == [old EXCEPT !.conflicted = conflicted, !.status = status, !.error = error]
<1>1. /\ s.status \in {"running"} \cup Outcomes /\ s.error \in BOOLEAN
  BY DEF Snapshots, Outcomes
<1>2. conflicted \in BOOLEAN /\ error \in BOOLEAN /\ status \in {"absent", "running"} \cup Outcomes
  BY <1>1 DEF OpRow, Outcomes
<1>3. Merge(old, s) = IF new = old THEN old ELSE [new EXCEPT !.revision = @ + 1]
  BY DEF Merge
<1>. HIDE DEF conflicted, status, error
<1>4. /\ new \in OpRow /\ new.revision = old.revision
      /\ new.conflicted = conflicted /\ new.status = status /\ new.error = error
  BY <1>2 DEF OpRow
<1>. HIDE DEF new
<1>5. /\ [new EXCEPT !.revision = @ + 1] \in OpRow
      /\ [new EXCEPT !.revision = @ + 1].revision = old.revision + 1
      /\ [new EXCEPT !.revision = @ + 1].conflicted = conflicted
      /\ [new EXCEPT !.revision = @ + 1].status = status
      /\ [new EXCEPT !.revision = @ + 1].error = error
      /\ old.revision \in Nat
  <2>1. \A n \in OpRow : LET m == [n EXCEPT !.revision = @ + 1] IN
          /\ m \in OpRow /\ m.revision = n.revision + 1 /\ m.status = n.status
          /\ m.conflicted = n.conflicted /\ m.error = n.error
    BY DEF OpRow
  <2>. QED BY <1>4, <2>1 DEF OpRow
<1>6. LET m == Merge(old, s) IN
      /\ m \in OpRow /\ m.revision >= old.revision
      /\ m.conflicted = conflicted /\ m.status = status /\ m.error = error
      /\ m # old => m.revision = old.revision + 1
  BY <1>3, <1>4, <1>5
<1>. QED BY <1>6 DEF conflicted, status, error

\* One more snapshot is merged with those that came before.
LEMMA SnapshotMerges ==
  ASSUME NEW old \in OpRow, NEW said \in SUBSET Snapshots, NEW s \in Snapshots,
         Merged(old, said, Ended(said)),
         NEW new,
         new = IF old = NoOp
               THEN [status |-> s.status, conflicted |-> FALSE, error |-> s.error, revision |-> 1]
               ELSE Merge(old, s)
  PROVE  new \in OpRow /\ Merged(new, said \cup {s}, Ended(said \cup {s}))
<1>1. /\ s.status \in {"running"} \cup Outcomes /\ s.error \in BOOLEAN
      /\ s.status = "running" => ~s.error
  BY DEF Snapshots, Outcomes
<1>2. \A x \in Ended(said) : x.status # "running"
  BY DEF Ended
<1>3. Ended(said \cup {s}) = IF s.status = "running" THEN Ended(said) ELSE Ended(said) \cup {s}
  BY DEF Ended
<1>. DEFINE ends == Ended(said)
            ends2 == Ended(said \cup {s})
<1>4. CASE old = NoOp
  <2>1. said = {} /\ ends = {}
    BY <1>4 DEF Merged, Ended
  <2>2. ends2 = IF s.status = "running" THEN {} ELSE {s}
    BY <1>3, <2>1
  <2>3. /\ new \in OpRow /\ new.status = s.status /\ new.conflicted = FALSE
        /\ new.error = s.error /\ new.revision = 1
    BY <1>1, <1>4 DEF OpRow
  <2>. HIDE DEF ends, ends2
  <2>4. Merged(new, said \cup {s}, ends2)
    BY <1>1, <2>2, <2>3 DEF Merged, NoOp, Outcomes
  <2>. QED BY <2>3, <2>4 DEF ends2
<1>5. CASE old # NoOp
  <2>1. said # {} /\ old.status # "absent" /\ old.revision > 0 /\ old.revision \in Nat
    BY <1>5 DEF Merged, OpRow
  <2>2. /\ new \in OpRow /\ new.revision >= old.revision /\ new.revision \in Nat
        /\ new.conflicted <=> \/ old.conflicted
                              \/ old.status # "running" /\ s.status \notin {"running", old.status}
        /\ new.status = IF new.conflicted THEN "unknown"
                        ELSE IF old.status # "running" /\ s.status = "running"
                        THEN old.status ELSE s.status
        /\ new.error <=> old.error \/ (~(old.status # "running" /\ s.status = "running") /\ s.error)
    BY <1>5, MergeFields DEF OpRow
  <2>3. /\ old.conflicted <=> \E x, u \in ends : x.status # u.status
        /\ old.conflicted => old.status = "unknown"
        /\ ~old.conflicted => IF ends = {} THEN old.status = "running"
                              ELSE \A x \in ends : x.status = old.status
        /\ old.error <=> \E x \in ends : x.error
    BY <2>1 DEF Merged
  <2>4. ends2 = IF s.status = "running" THEN ends ELSE ends \cup {s}
    BY <1>3
  <2>5. \A x \in ends : x.status # "running"
    BY <1>2
  <2>. HIDE DEF ends, ends2
  <2>6. new.conflicted <=> \E x, u \in ends2 : x.status # u.status
    <3>1. CASE s.status = "running"
      BY <2>2, <2>3, <2>4, <3>1
    <3>2. CASE s.status # "running" /\ old.conflicted
      BY <2>2, <2>3, <2>4, <3>2
    <3>3. CASE s.status # "running" /\ ~old.conflicted /\ ends = {}
      BY <2>2, <2>3, <2>4, <3>3
    <3>4. CASE s.status # "running" /\ ~old.conflicted /\ ends # {}
      <4>1. \A x \in ends : x.status = old.status
        BY <2>3, <3>4
      <4>2. old.status # "running"
        BY <2>5, <3>4, <4>1
      <4>. QED BY <2>2, <2>4, <3>4, <4>1, <4>2
    <3>. QED BY <3>1, <3>2, <3>3, <3>4
  <2>7. ~new.conflicted => IF ends2 = {} THEN new.status = "running"
                           ELSE \A x \in ends2 : x.status = new.status
    <3>. SUFFICES ASSUME ~new.conflicted
                  PROVE  IF ends2 = {} THEN new.status = "running"
                         ELSE \A x \in ends2 : x.status = new.status
      OBVIOUS
    <3>1. ~old.conflicted
      BY <2>2
    <3>2. CASE s.status = "running"
      BY <2>2, <2>3, <2>4, <3>1, <3>2
    <3>3. CASE s.status # "running"
      BY <2>2, <2>3, <2>4, <2>5, <3>1, <3>3
    <3>. QED BY <3>2, <3>3
  <2>8. new.error <=> \E x \in ends2 : x.error
    BY <1>1, <2>2, <2>3, <2>4
  <2>9. new.status # "absent" /\ new.revision > 0 /\ (new.conflicted => new.status = "unknown")
    BY <1>1, <2>1, <2>2 DEF Outcomes
  <2>10. new # NoOp /\ said \cup {s} # {}
    BY <2>9 DEF NoOp
  <2>11. Merged(new, said \cup {s}, ends2)
    BY <2>6, <2>7, <2>8, <2>9, <2>10 DEF Merged
  <2>. QED BY <2>2, <2>11 DEF ends2
<1>. QED BY <1>4, <1>5

LEMMA OperationStepKeeps ==
  ASSUME IInv, NEW a \in Agents, NEW t \in Turns \cup {NoTurn}, NEW s \in Snapshots,
         NEW mutation \in Mutation, Operation(a, t, s, mutation)
  PROVE  IInv'
<1>. DEFINE key == <<a, t>>
<1>1. /\ TypeInv /\ RunInv /\ RequestInv /\ TurnInv /\ TreeInv /\ OperationInv /\ CompactionInv
      /\ run.mutation \in Mutation /\ told.mutation \in Mutation
  BY DEF IInv, TypeInv
<1>2. /\ op' = [op EXCEPT ![key] = Snapshot(key, s)]
      /\ run' = [run EXCEPT !.mutation = Max({@, mutation})]
      /\ told' = [told EXCEPT !.said[key] = @ \cup {s}, !.mutation = Max({@, mutation})]
      /\ UNCHANGED <<agent, turn, approval, compaction>>
      /\ IF a = Root THEN t = NoTurn ELSE ChildAtWork(a, t)
  BY DEF Operation
<1>3. key \in OpKeys
  BY <1>2, RootIsNoKid DEF OpKeys, Agents
<1>4. /\ Max({run.mutation, mutation}) \in Mutation
      /\ Max({told.mutation, mutation}) \in Mutation
      /\ Max({run.mutation, mutation}) >= Max({told.mutation, mutation})
  <2>1. /\ run.mutation \in Int /\ told.mutation \in Int /\ mutation \in Int
    BY <1>1 DEF Mutation
  <2>2. /\ Max({told.mutation, mutation}) \in {told.mutation, mutation}
        /\ Max({run.mutation, mutation}) \in {run.mutation, mutation}
        /\ Max({run.mutation, mutation}) >= run.mutation
        /\ Max({run.mutation, mutation}) >= mutation
    BY <2>1, MaxOfTwo
  <2>3. run.mutation >= told.mutation
    BY <1>1 DEF OperationInv
  <2>. QED BY <1>1, <2>1, <2>2, <2>3
<1>5. /\ run' \in [provider : {"codex", "claude"}, status : Statuses, mutation : Mutation,
                   owner : {"task", "lapsed", "recovery"}, finish : {"none"} \cup TerminalStatus]
      /\ run'.provider = run.provider /\ run'.status = run.status
      /\ run'.mutation = Max({run.mutation, mutation})
  BY <1>1, <1>2, <1>4 DEF TypeInv
<1>. HIDE DEF key
<1>6. /\ told'.said \in [OpKeys -> SUBSET Snapshots]
      /\ \A x \in OpKeys : told'.said[x] = IF x = key THEN told.said[x] \cup {s} ELSE told.said[x]
      /\ told'.mutation = Max({told.mutation, mutation})
      /\ told'.compacting = told.compacting
      /\ told' \in [said : [OpKeys -> SUBSET Snapshots], mutation : Mutation,
                    compacting : SUBSET Agents]
  BY <1>1, <1>2, <1>3, <1>4 DEF TypeInv
<1>7. op'[key] \in OpRow /\ Merged(op'[key], told'.said[key], Ends(key)')
  <2>1. op[key] \in OpRow /\ told.said[key] \in SUBSET Snapshots
    BY <1>1, <1>3 DEF TypeInv, OpRow
  <2>2. Merged(op[key], told.said[key], Ended(told.said[key]))
    BY <1>1, <1>3 DEF OperationInv, Ends, Ended
  <2>3. op'[key] = IF op[key] = NoOp
                   THEN [status |-> s.status, conflicted |-> FALSE, error |-> s.error,
                         revision |-> 1]
                   ELSE Merge(op[key], s)
    BY <1>1, <1>2, <1>3 DEF TypeInv, Snapshot
  <2>4. told'.said[key] = told.said[key] \cup {s}
    BY <1>3, <1>6
  <2>5. op'[key] \in OpRow
        /\ Merged(op'[key], told.said[key] \cup {s}, Ended(told.said[key] \cup {s}))
    BY <2>1, <2>2, <2>3, SnapshotMerges
  <2>. QED BY <2>4, <2>5 DEF Ends, Ended
<1>8. \A x \in OpKeys : x # key => op'[x] = op[x]
  BY <1>1, <1>2 DEF TypeInv
<1>9. op' \in [OpKeys -> OpRow]
  BY <1>1, <1>2, <1>7, <1>8 DEF TypeInv, OpRow
<1>10. TypeInv'
  BY <1>1, <1>2, <1>5, <1>6, <1>9 DEF TypeInv, OpRow
<1>11. RunInv' /\ RequestInv' /\ TurnInv' /\ TreeInv'
  BY <1>1, <1>2, <1>5 DEF RunInv, RequestInv, TurnInv, TreeInv, Pending
<1>12. OperationInv'
  <2>1. \A x \in OpKeys : Merged(op'[x], told'.said[x], Ends(x)')
    BY <1>1, <1>6, <1>7, <1>8 DEF OperationInv, Ends
  <2>2. ASSUME NEW k \in Kids, NEW u \in Turns, op'[<<k, u>>] # NoOp
        PROVE  turn'[k][u] # "none"
    <3>1. CASE <<k, u>> = key
      <4>1. a = k /\ t = u /\ a # Root
        BY <3>1, RootIsNoKid DEF key
      <4>2. t # NoTurn
        BY <4>1, JournalAssumption
      <4>. QED BY <1>2, <4>1, <4>2 DEF ChildAtWork
    <3>2. CASE <<k, u>> # key
      BY <1>1, <1>2, <1>8, <2>2, <3>2 DEF OperationInv, OpKeys
    <3>. QED BY <3>1, <3>2
  <2>3. ASSUME NEW k \in Kids, op'[<<k, NoTurn>>] # NoOp
        PROVE  run'.provider = "claude"
    <3>1. CASE <<k, NoTurn>> = key
      <4>1. a = k /\ t = NoTurn /\ a # Root
        BY <3>1, RootIsNoKid DEF key
      <4>. QED BY <1>1, <1>2, <1>5, <4>1 DEF ChildAtWork, TypeInv
    <3>2. CASE <<k, NoTurn>> # key
      BY <1>1, <1>5, <1>8, <2>3, <3>2 DEF OperationInv, OpKeys
    <3>. QED BY <3>1, <3>2
  <2>. QED BY <1>4, <1>5, <1>6, <2>1, <2>2, <2>3 DEF OperationInv
<1>13. CompactionInv'
  BY <1>1, <1>2, <1>5, <1>6 DEF CompactionInv, Compacting
<1>. QED BY <1>10, <1>11, <1>12, <1>13 DEF IInv

LEMMA DiscardedOperationKeeps ==
  ASSUME IInv, NEW k \in Kids, NEW t \in Turns \cup {NoTurn}, NEW mutation \in Mutation,
         DiscardedOperation(k, t, mutation)
  PROVE  IInv'
<1>1. /\ TypeInv /\ RunInv /\ RequestInv /\ TurnInv /\ TreeInv /\ OperationInv /\ CompactionInv
      /\ run.mutation \in Mutation /\ told.mutation \in Mutation
  BY DEF IInv, TypeInv
<1>2. /\ run' = [run EXCEPT !.mutation = Max({@, mutation})]
      /\ told' = [told EXCEPT !.mutation = Max({@, mutation})]
      /\ UNCHANGED <<agent, turn, approval, op, compaction>>
  BY DEF DiscardedOperation
<1>3. /\ Max({run.mutation, mutation}) \in Mutation
      /\ Max({told.mutation, mutation}) \in Mutation
      /\ Max({run.mutation, mutation}) >= Max({told.mutation, mutation})
  <2>1. /\ run.mutation \in Int /\ told.mutation \in Int /\ mutation \in Int
    BY <1>1 DEF Mutation
  <2>2. /\ Max({told.mutation, mutation}) \in {told.mutation, mutation}
        /\ Max({run.mutation, mutation}) \in {run.mutation, mutation}
        /\ Max({run.mutation, mutation}) >= run.mutation
        /\ Max({run.mutation, mutation}) >= mutation
    BY <2>1, MaxOfTwo
  <2>3. run.mutation >= told.mutation
    BY <1>1 DEF OperationInv
  <2>. QED BY <1>1, <2>1, <2>2, <2>3
<1>4. /\ run' \in [provider : {"codex", "claude"}, status : Statuses, mutation : Mutation,
                   owner : {"task", "lapsed", "recovery"}, finish : {"none"} \cup TerminalStatus]
      /\ run'.provider = run.provider /\ run'.status = run.status
      /\ run'.mutation = Max({run.mutation, mutation})
  BY <1>1, <1>2, <1>3 DEF TypeInv
<1>5. /\ told' \in [said : [OpKeys -> SUBSET Snapshots], mutation : Mutation,
                    compacting : SUBSET Agents]
      /\ told'.said = told.said /\ told'.compacting = told.compacting
      /\ told'.mutation = Max({told.mutation, mutation})
  BY <1>1, <1>2, <1>3 DEF TypeInv
<1>6. TypeInv'
  BY <1>1, <1>2, <1>4, <1>5 DEF TypeInv
<1>7. RunInv' /\ RequestInv' /\ TurnInv' /\ TreeInv'
  BY <1>1, <1>2, <1>4 DEF RunInv, RequestInv, TurnInv, TreeInv, Pending
<1>8. OperationInv'
  BY <1>1, <1>2, <1>3, <1>4, <1>5, OperationKeeps
<1>9. CompactionInv'
  BY <1>1, <1>2, <1>4, <1>5 DEF CompactionInv, Compacting
<1>. QED BY <1>6, <1>7, <1>8, <1>9 DEF IInv

LEMMA CompactionStepKeeps ==
  ASSUME IInv, NEW a \in Agents, NEW t \in Turns \cup {NoTurn},
         NEW phase \in {"started", "completed", "cleared", "failed"},
         Compaction(a, t, phase)
  PROVE  IInv'
<1>1. /\ TypeInv /\ RunInv /\ RequestInv /\ TurnInv /\ TreeInv /\ OperationInv /\ CompactionInv
  BY DEF IInv
<1>2. /\ run.status \in AtWork /\ agent[a].status \in AtWork
      /\ a # Root /\ run.provider = "codex" => t \in Turns /\ turn[a][t] = "open"
      /\ UNCHANGED <<run, agent, turn, approval, op>>
  BY LiveRun DEF Compaction, ChildAtWork, AtWork
<1>3. /\ compaction' \in [Agents -> [phase : {"none", "started", "completed", "cleared", "failed"},
                                     turn : Turns \cup {NoTurn}]]
      /\ \A b \in Agents : compaction'[b] = IF b = a THEN [phase |-> phase, turn |-> t]
                                            ELSE compaction[b]
  BY <1>1 DEF TypeInv, Compaction
<1>4. /\ told' \in [said : [OpKeys -> SUBSET Snapshots], mutation : Mutation,
                    compacting : SUBSET Agents]
      /\ told'.said = told.said /\ told'.mutation = told.mutation
      /\ told'.compacting = IF phase = "started" THEN told.compacting \cup {a}
                            ELSE told.compacting \ {a}
  BY <1>1 DEF TypeInv, Compaction
<1>5. TypeInv'
  BY <1>1, <1>2, <1>3, <1>4 DEF TypeInv
<1>6. RunInv' /\ RequestInv' /\ TurnInv' /\ TreeInv'
  BY <1>1, <1>2 DEF RunInv, RequestInv, TurnInv, TreeInv, Pending
<1>7. OperationInv'
  BY <1>1, <1>2, <1>4, OperationKeeps DEF OperationInv
<1>8. CompactionInv'
  <2>1. ASSUME NEW b \in Agents
        PROVE  b \in Compacting' <=> b \in told'.compacting
    <3>1. CASE b = a
      BY <1>2, <1>3, <1>4, <3>1 DEF Compacting
    <3>2. CASE b # a
      BY <1>1, <1>2, <1>3, <1>4, <3>2 DEF CompactionInv, Compacting
    <3>. QED BY <3>1, <3>2
  <2>2. told'.compacting = Compacting'
    BY <1>4, <2>1 DEF Compacting
  <2>3. \A b \in Agents : agent'[b].status \in {"absent", "queued"} =>
          compaction'[b].phase = "none"
    BY <1>1, <1>2, <1>3 DEF CompactionInv, AtWork
  <2>4. run'.provider = "codex" => \A k \in Kids : compaction'[k].phase # "none" =>
          compaction'[k].turn \in Turns /\ turn'[k][compaction'[k].turn] # "none"
    BY <1>1, <1>2, <1>3, RootIsNoKid DEF CompactionInv
  <2>. QED BY <2>2, <2>3, <2>4 DEF CompactionInv
<1>. QED BY <1>5, <1>6, <1>7, <1>8 DEF IInv

-----------------------------------------------------------------------------
(* The end of the run.                                                     *)

\* A transaction after which nothing of the run is active.
LEMMA RunEnds ==
  ASSUME IInv,
         run' \in [provider : {"codex", "claude"}, status : Statuses, mutation : Mutation,
                   owner : {"task", "lapsed", "recovery"}, finish : {"none"} \cup TerminalStatus],
         run'.provider = run.provider, run'.status \in TerminalStatus,
         run'.mutation >= run.mutation,
         agent' \in [Agents -> [status : {"absent"} \cup Statuses, parent : Agents, depth : Nat]],
         agent'[Root].status \in TerminalStatus, SameTree,
         \A a \in Agents : agent'[a].status \in {"absent"} \cup TerminalStatus,
         turn' \in [Kids -> [Turns -> {"none", "open", "ended"}]],
         \A k \in Kids, t \in Turns : turn'[k][t] # "open",
         \A k \in Kids, t \in Turns : (turn'[k][t] = "none") <=> (turn[k][t] = "none"),
         approval' \in [Requests -> [agent : Agents, turn : Turns \cup {NoTurn},
                          status : {"none", "pending", "approved", "cancelled", "failed"}]],
         Pending' = {},
         told' = [told EXCEPT !.compacting = {}],
         UNCHANGED <<op, compaction>>
  PROVE  IInv'
<1>1. /\ TypeInv /\ RunInv /\ RequestInv /\ TurnInv /\ TreeInv /\ OperationInv /\ CompactionInv
  BY DEF IInv
<1>2. /\ told' \in [said : [OpKeys -> SUBSET Snapshots], mutation : Mutation,
                    compacting : SUBSET Agents]
      /\ told'.said = told.said /\ told'.mutation = told.mutation /\ told'.compacting = {}
  BY <1>1 DEF TypeInv
<1>3. TypeInv'
  BY <1>1, <1>2 DEF TypeInv
<1>4. RunInv'
  BY RootIsNoKid DEF RunInv, Statuses, ActiveStatus, TerminalStatus
<1>5. RequestInv'
  <2>1. \A a \in Agents : agent'[a].status # "waiting"
    BY DEF TerminalStatus
  <2>. QED BY <2>1 DEF RequestInv, TerminalStatus
<1>6. TurnInv'
  BY <1>1 DEF TurnInv
<1>7. TreeInv'
  BY <1>1, TreeKeeps
<1>8. OperationInv'
  <2>1. run'.mutation >= told'.mutation
    BY <1>1, <1>2 DEF OperationInv, TypeInv, Mutation
  <2>. QED BY <1>1, <1>2, <2>1, OperationKeeps
<1>9. CompactionInv'
  <2>1. Compacting' = {}
    BY DEF Compacting, AtWork, TerminalStatus
  <2>2. \A a \in Agents : agent'[a].status \in {"absent", "queued"} => agent[a].status = "absent"
    BY DEF SameTree, TerminalStatus
  <2>3. \A a \in Agents : agent'[a].status \in {"absent", "queued"} =>
          compaction'[a].phase = "none"
    BY <1>1, <2>2 DEF CompactionInv
  <2>4. run'.provider = "codex" => \A k \in Kids : compaction'[k].phase # "none" =>
          compaction'[k].turn \in Turns /\ turn'[k][compaction'[k].turn] # "none"
    <3>1. run'.provider = "codex" => \A k \in Kids : compaction'[k].phase # "none" =>
            compaction'[k].turn \in Turns /\ turn[k][compaction'[k].turn] # "none"
      BY <1>1 DEF CompactionInv
    <3>. QED BY <3>1
  <2>. QED BY <1>2, <2>1, <2>3, <2>4 DEF CompactionInv
<1>. QED BY <1>3, <1>4, <1>5, <1>6, <1>7, <1>8, <1>9 DEF IInv

LEMMA CloseRootKeeps ==
  ASSUME IInv, NEW known \in Mutation, CloseRoot(known)
  PROVE  IInv'
<1>1. /\ TypeInv /\ RunInv /\ TurnInv /\ Root \in Agents /\ Root \notin Kids /\ Kids \subseteq Agents
      /\ run.mutation \in Mutation
  BY RootIsNoKid DEF IInv, TypeInv
<1>2. /\ run.finish \in TerminalStatus /\ agent[Root].status \in ActiveStatus
      /\ UNCHANGED <<turn, op, compaction>>
      /\ told' = [told EXCEPT !.compacting = {}]
  BY <1>1 DEF CloseRoot, Closing, TypeInv, Transitions, ActiveStatus
<1>3. \A k \in Kids : agent[k].status \in {"absent"} \cup TerminalStatus
  <2>1. \A k \in Kids : agent[k].status \notin ActiveStatus
    BY <1>1 DEF CloseRoot, ActiveKids, ActiveAgents
  <2>. QED BY <1>1, <2>1 DEF TypeInv, Statuses
<1>4. \A k \in Kids, t \in Turns : turn[k][t] # "open"
  BY <1>1, <1>3 DEF TurnInv, AtWork, TerminalStatus
<1>5. /\ agent' \in [Agents -> [status : {"absent"} \cup Statuses, parent : Agents, depth : Nat]]
      /\ \A a \in Agents : agent'[a].status = IF a = Root THEN run.finish ELSE agent[a].status
      /\ SameTree
  <2>1. agent' = [agent EXCEPT ![Root].status = run.finish]
    BY DEF CloseRoot
  <2>. QED BY <1>1, <1>2, <2>1 DEF TypeInv, Statuses, ActiveStatus, TerminalStatus, SameTree
<1>6. \A a \in Agents : agent'[a].status \in {"absent"} \cup TerminalStatus
  BY <1>2, <1>3, <1>5 DEF Agents
<1>7. /\ approval' \in [Requests -> [agent : Agents, turn : Turns \cup {NoTurn},
                          status : {"none", "pending", "approved", "cancelled", "failed"}]]
      /\ Pending' = {}
  <2>1. ASSUME NEW q \in Requests
        PROVE  /\ approval'[q] \in [agent : Agents, turn : Turns \cup {NoTurn},
                          status : {"none", "pending", "approved", "cancelled", "failed"}]
               /\ approval'[q].status # "pending"
    <3>1. approval'[q] = IF approval[q].status = "pending"
                         THEN [approval[q] EXCEPT !.status = Resolution(run.finish)]
                         ELSE approval[q]
      BY DEF CloseRoot, Pending
    <3>. QED BY <1>1, <3>1 DEF TypeInv, Resolution
  <2>2. approval' = [q \in Requests |-> approval'[q]]
    BY DEF CloseRoot
  <2>. QED BY <2>1, <2>2 DEF Pending
<1>8. /\ run' \in [provider : {"codex", "claude"}, status : Statuses, mutation : Mutation,
                   owner : {"task", "lapsed", "recovery"}, finish : {"none"} \cup TerminalStatus]
      /\ run'.provider = run.provider /\ run'.status = run.finish
      /\ run'.mutation >= run.mutation
  <2>1. /\ Max({run.mutation, known}) \in Mutation
        /\ Max({run.mutation, known}) >= run.mutation
    BY <1>1, EvidenceGrows
  <2>. QED BY <1>1, <1>2, <2>1 DEF CloseRoot, TypeInv, Statuses
<1>9. turn' \in [Kids -> [Turns -> {"none", "open", "ended"}]]
  BY <1>1, <1>2 DEF TypeInv
<1>. QED BY <1>1, <1>2, <1>4, <1>5, <1>6, <1>7, <1>8, <1>9, RunEnds

LEMMA FailRunKeeps ==
  ASSUME IInv, FailRun
  PROVE  IInv'
<1>1. /\ TypeInv /\ RunInv /\ Root \in Agents /\ Root \notin Kids /\ Kids \subseteq Agents
      /\ run.mutation \in Mutation
  BY RootIsNoKid DEF IInv, TypeInv
<1>2. /\ UNCHANGED <<op, compaction>>
      /\ told' = [told EXCEPT !.compacting = {}]
      /\ run.status \in ActiveStatus /\ agent[Root].status \in ActiveStatus
  BY <1>1 DEF FailRun, RunInv, Statuses, ActiveStatus, TerminalStatus
<1>3. /\ agent' \in [Agents -> [status : {"absent"} \cup Statuses, parent : Agents, depth : Nat]]
      /\ \A a \in Agents : agent'[a].status \in {"absent"} \cup TerminalStatus
      /\ agent'[Root].status \in TerminalStatus
      /\ SameTree
  <2>1. ASSUME NEW a \in Agents
        PROVE  /\ agent'[a] \in [status : {"absent"} \cup Statuses, parent : Agents, depth : Nat]
               /\ agent'[a].parent = agent[a].parent /\ agent'[a].depth = agent[a].depth
               /\ agent'[a].status = IF agent[a].status \in ActiveStatus THEN "failed"
                                     ELSE agent[a].status
    <3>1. agent'[a] = IF agent[a].status \in ActiveStatus
                      THEN [agent[a] EXCEPT !.status = "failed"] ELSE agent[a]
      BY DEF FailRun, ActiveAgents
    <3>2. agent[a] \in [status : {"absent"} \cup Statuses, parent : Agents, depth : Nat]
      BY <1>1 DEF TypeInv
    <3>. QED BY <3>1, <3>2 DEF Statuses, TerminalStatus
  <2>2. agent' = [a \in Agents |-> agent'[a]]
    BY DEF FailRun
  <2>3. \A a \in Agents : agent[a].status \in {"absent"} \cup Statuses
    BY <1>1 DEF TypeInv
  <2>4. agent' \in [Agents -> [status : {"absent"} \cup Statuses, parent : Agents, depth : Nat]]
    BY <2>1, <2>2
  <2>5. \A a \in Agents : agent'[a].status \in {"absent"} \cup TerminalStatus
    BY <2>1, <2>3 DEF Statuses, TerminalStatus
  <2>6. SameTree
    BY <2>1 DEF SameTree, ActiveStatus
  <2>. QED BY <1>1, <1>2, <2>1, <2>4, <2>5, <2>6 DEF TerminalStatus
<1>4. /\ turn' \in [Kids -> [Turns -> {"none", "open", "ended"}]]
      /\ \A k \in Kids, t \in Turns : /\ turn'[k][t] # "open"
                                      /\ turn'[k][t] = "none" <=> turn[k][t] = "none"
  BY <1>1 DEF FailRun, TypeInv
<1>5. /\ approval' \in [Requests -> [agent : Agents, turn : Turns \cup {NoTurn},
                          status : {"none", "pending", "approved", "cancelled", "failed"}]]
      /\ Pending' = {}
  <2>1. ASSUME NEW q \in Requests
        PROVE  /\ approval'[q] \in [agent : Agents, turn : Turns \cup {NoTurn},
                          status : {"none", "pending", "approved", "cancelled", "failed"}]
               /\ approval'[q].status # "pending"
    <3>1. approval'[q] = IF approval[q].status = "pending"
                         THEN [approval[q] EXCEPT !.status = "failed"]
                         ELSE approval[q]
      BY DEF FailRun, Pending
    <3>. QED BY <1>1, <3>1 DEF TypeInv
  <2>2. approval' = [q \in Requests |-> approval'[q]]
    BY DEF FailRun
  <2>. QED BY <2>1, <2>2 DEF Pending
<1>6. /\ run' \in [provider : {"codex", "claude"}, status : Statuses, mutation : Mutation,
                   owner : {"task", "lapsed", "recovery"}, finish : {"none"} \cup TerminalStatus]
      /\ run'.provider = run.provider /\ run'.status = "failed"
      /\ run'.mutation >= run.mutation
  <2>1. run' = [run EXCEPT !.status = "failed", !.mutation = 2]
    BY DEF FailRun
  <2>2. 2 \in Mutation /\ 2 >= run.mutation
    BY <1>1 DEF Mutation
  <2>3. run \in [provider : {"codex", "claude"}, status : Statuses, mutation : Mutation,
                 owner : {"task", "lapsed", "recovery"}, finish : {"none"} \cup TerminalStatus]
    BY <1>1 DEF TypeInv
  <2>. QED BY <2>1, <2>2, <2>3 DEF Statuses, TerminalStatus
<1>. QED BY <1>2, <1>3, <1>4, <1>5, <1>6, RunEnds DEF TerminalStatus

-----------------------------------------------------------------------------
(* The invariant holds in every reachable state.                           *)

LEMMA InitIInv == Init => IInv
<1>. SUFFICES ASSUME Init PROVE IInv
  OBVIOUS
<1>1. Root \in Agents /\ Root \notin Kids /\ Kids \subseteq Agents
  BY RootIsNoKid
<1>2. /\ run.status = "queued" /\ run.mutation = 0
      /\ agent[Root].status = "queued" /\ agent[Root].depth = 0
      /\ \A a \in Agents : a # Root => agent[a].status = "absent"
      /\ \A k \in Kids, t \in Turns : turn[k][t] = "none"
      /\ \A q \in Requests : approval[q].status = "none"
      /\ \A key \in OpKeys : op[key] = NoOp /\ told.said[key] = {}
      /\ \A a \in Agents : compaction[a].phase = "none"
      /\ told.mutation = 0 /\ told.compacting = {}
  BY <1>1 DEF Init
<1>3. TypeInv
  <2>1. run \in [provider : {"codex", "claude"}, status : Statuses, mutation : Mutation,
              owner : {"task", "lapsed", "recovery"}, finish : {"none"} \cup TerminalStatus]
    BY DEF Init, Statuses, ActiveStatus, Mutation
  <2>2. agent \in [Agents -> [status : {"absent"} \cup Statuses, parent : Agents, depth : Nat]]
    BY <1>1 DEF Init, Statuses, ActiveStatus
  <2>3. op \in [OpKeys -> [status : {"absent", "running"} \cup Outcomes,
                        conflicted : BOOLEAN, error : BOOLEAN, revision : Nat]]
    BY DEF Init, NoOp
  <2>4. told \in [said : [OpKeys -> SUBSET Snapshots], mutation : Mutation,
               compacting : SUBSET Agents]
    BY DEF Init, Mutation
  <2>. QED BY <1>1, <2>1, <2>2, <2>3, <2>4 DEF Init, TypeInv
<1>4. Pending = {}
  BY <1>2 DEF Pending
<1>5. RunInv /\ RequestInv /\ TurnInv /\ TreeInv
  BY <1>1, <1>2, <1>4 DEF RunInv, RequestInv, TurnInv, TreeInv, Agents, Statuses, ActiveStatus,
     TerminalStatus
<1>6. OperationInv
  <2>1. \A key \in OpKeys : Merged(op[key], told.said[key], Ends(key))
    BY <1>2 DEF Merged, Ends, NoOp
  <2>2. \A k \in Kids, t \in Turns \cup {NoTurn} : op[<<k, t>>] = NoOp
    BY <1>2 DEF OpKeys
  <2>. QED BY <1>2, <2>1, <2>2 DEF OperationInv
<1>7. CompactionInv
  BY <1>1, <1>2 DEF CompactionInv, Compacting, AtWork
<1>. QED BY <1>3, <1>5, <1>6, <1>7 DEF IInv

LEMMA NextIInv ==
  ASSUME IInv, [Next]_vars
  PROVE  IInv'
<1>1. ASSUME ChildStep PROVE IInv'
  <2>. Evidence \subseteq Mutation
    BY JournalAssumption
  <2>. QED BY <1>1, ChildStartedKeeps, ChildEndedKeeps, SubAgentKeeps, DiscardedOperationKeeps,
              CloseChildKeeps DEF ChildStep
<1>2. ASSUME AgentStep PROVE IInv'
  <2>. Evidence \subseteq Mutation
    BY JournalAssumption
  <2>. PICK a \in Agents :
         \/ \E t \in Turns \cup {NoTurn}, q \in Requests : ControlRequested(a, t, q)
         \/ \E kids \in SUBSET Kids : \E status \in [kids -> Reportable] : ChildAgents(a, status)
         \/ \E t \in Turns \cup {NoTurn}, s \in Snapshots, m \in Evidence : Operation(a, t, s, m)
         \/ \E t \in Turns \cup {NoTurn}, phase \in {"started", "completed", "cleared", "failed"} :
              Compaction(a, t, phase)
    BY <1>2 DEF AgentStep
  <2>1. CASE \E t \in Turns \cup {NoTurn}, q \in Requests : ControlRequested(a, t, q)
    BY <2>1, ControlRequestedKeeps
  <2>2. CASE \E kids \in SUBSET Kids : \E status \in [kids -> Reportable] : ChildAgents(a, status)
    BY <2>2, ChildAgentsKeeps
  <2>3. CASE \E t \in Turns \cup {NoTurn}, s \in Snapshots, m \in Evidence : Operation(a, t, s, m)
    BY <2>3, OperationStepKeeps
  <2>4. CASE \E t \in Turns \cup {NoTurn},
                phase \in {"started", "completed", "cleared", "failed"} : Compaction(a, t, phase)
    BY <2>4, CompactionStepKeeps
  <2>. QED BY <2>1, <2>2, <2>3, <2>4
<1>3. ASSUME RunStep PROVE IInv'
  <2>1. ASSUME Lapse \/ Claim \/ \E outcome \in TerminalStatus : Finalize(outcome)
        PROVE  IInv'
    <3>1. /\ UNCHANGED <<agent, turn, approval, op, compaction, told>>
          /\ run.owner \in {"task", "lapsed", "recovery"}
          /\ run.finish \in {"none"} \cup TerminalStatus
      BY <2>1 DEF Lapse, Claim, Finalize, IInv, TypeInv
    <3>2. \E owner \in {"task", "lapsed", "recovery"}, finish \in {"none"} \cup TerminalStatus :
            run' = [run EXCEPT !.owner = owner, !.finish = finish]
      <4>1. CASE Lapse
        <5>1. run' = [run EXCEPT !.owner = "lapsed", !.finish = run.finish]
          BY <4>1 DEF Lapse, IInv, TypeInv
        <5>. QED BY <3>1, <5>1
      <4>2. CASE Claim
        <5>1. run' = [run EXCEPT !.owner = "recovery", !.finish = "interrupted"]
          BY <4>2 DEF Claim
        <5>. QED BY <5>1 DEF TerminalStatus
      <4>3. ASSUME NEW outcome \in TerminalStatus, Finalize(outcome)
            PROVE  \E owner \in {"task", "lapsed", "recovery"},
                      finish \in {"none"} \cup TerminalStatus :
                     run' = [run EXCEPT !.owner = owner, !.finish = finish]
        <5>1. PICK finish \in {"failed", outcome} : run' = [run EXCEPT !.finish = finish]
          BY <4>3 DEF Finalize
        <5>2. run' = [run EXCEPT !.owner = run.owner, !.finish = finish]
          BY <5>1 DEF IInv, TypeInv
        <5>3. finish \in {"none"} \cup TerminalStatus
          BY <5>1 DEF TerminalStatus
        <5>. QED BY <3>1, <5>2, <5>3
      <4>. QED BY <2>1, <4>1, <4>2, <4>3
    <3>. QED BY <3>1, <3>2, OwnerKeeps
  <2>. QED BY <1>3, <2>1, RootStartedKeeps, FailRunKeeps, CloseRootKeeps, AcknowledgeKeeps
           DEF RunStep
<1>4. CASE UNCHANGED vars
  <2>. UNCHANGED <<run, agent, turn, approval, op, compaction, told>>
    BY <1>4 DEF vars
  <2>1. TypeInv' /\ RunInv' /\ TurnInv' /\ TreeInv'
    BY DEF IInv, TypeInv, RunInv, TurnInv, TreeInv
  <2>2. RequestInv'
    BY DEF IInv, RequestInv, Pending
  <2>3. OperationInv'
    BY DEF IInv, OperationInv, Ends
  <2>4. CompactionInv'
    BY DEF IInv, CompactionInv, Compacting
  <2>. QED BY <2>1, <2>2, <2>3, <2>4 DEF IInv
<1>. QED BY <1>1, <1>2, <1>3, <1>4 DEF Next

\* In every reachable state the rows of the run agree, operations are what their
\* snapshots say together, and what compacts is known.
THEOREM InductiveInvariant == Spec => []IInv
<1>1. IInv /\ [Next]_vars => IInv'
  BY NextIInv
<1>. QED BY <1>1, InitIInv, PTL DEF Spec

-----------------------------------------------------------------------------
(* What is shown of compactions, and what is kept of operations.           *)

\* The activity shown is what the provider is doing.
THEOREM ActivityIsTrue == Spec => []ActivityIsCurrent
<1>1. IInv => ActivityIsCurrent
  BY DEF IInv, CompactionInv, Compacting, ActivityIsCurrent, ActiveCompaction, AtWork
<1>. QED BY <1>1, InductiveInvariant, PTL

LEMMA OneOrMore ==
  ASSUME NEW S, IsFiniteSet(S)
  PROVE  /\ Cardinality(S) > 1 <=> \E x, y \in S : x # y
         /\ Cardinality(S) = 1 <=> S # {} /\ \A x, y \in S : x = y
         /\ Cardinality(S) <= 1 <=> \A x, y \in S : x = y
<1>1. CASE S = {}
  BY <1>1, FS_EmptySet
<1>2. CASE S # {} /\ \A x, y \in S : x = y
  <2>1. PICK x \in S : S = {x}
    BY <1>2
  <2>2. Cardinality(S) = 1
    BY <2>1, FS_Singleton
  <2>. QED BY <1>2, <2>2
<1>3. CASE \E x, y \in S : x # y
  <2>1. PICK x \in S, y \in S : x # y
    BY <1>3
  <2>2. IsFiniteSet({x}) /\ Cardinality({x}) = 1
    BY FS_Singleton
  <2>3. IsFiniteSet({x} \cup {y}) /\ Cardinality({x} \cup {y}) = 2
    <3>1. y \notin {x}
      BY <2>1
    <3>. QED BY <2>2, <3>1, FS_AddElement
  <2>4. Cardinality({x} \cup {y}) <= Cardinality(S)
    BY <2>1, FS_Subset
  <2>5. Cardinality(S) \in Nat
    BY FS_CardinalityType
  <2>. QED BY <1>3, <2>3, <2>4, <2>5
<1>. QED BY <1>1, <1>2, <1>3

LEMMA FewOutcomes == IsFiniteSet(Outcomes)
<1>. DEFINE S == {"succeeded", "failed"}
<1>1. IsFiniteSet({"succeeded"}) /\ IsFiniteSet({"failed"})
      /\ IsFiniteSet({"interrupted"}) /\ IsFiniteSet({"unknown"})
  BY FS_Singleton
<1>2. IsFiniteSet({"succeeded"} \cup {"failed"}) /\ IsFiniteSet({"interrupted"} \cup {"unknown"})
  BY <1>1, FS_Union
<1>3. IsFiniteSet(({"succeeded"} \cup {"failed"}) \cup ({"interrupted"} \cup {"unknown"}))
  BY <1>2, FS_Union
<1>4. Outcomes = ({"succeeded"} \cup {"failed"}) \cup ({"interrupted"} \cup {"unknown"})
  BY DEF Outcomes
<1>. QED BY <1>3, <1>4

\* Whatever order the snapshots of an operation come in, and however often, the
\* row is what they say together, and no mutation evidence is lost.
THEOREM NothingIsForgotten == Spec => []EvidenceIsKept
<1>1. ASSUME IInv PROVE EvidenceIsKept
  <2>1. run.mutation >= told.mutation
    BY <1>1 DEF IInv, OperationInv
  <2>2. ASSUME NEW key \in OpKeys, told.said[key] # {}
        PROVE  LET ends == {s \in told.said[key] : s.status # "running"}
                   outcomes == {s.status : s \in ends}
               IN
               /\ op[key].conflicted <=> Cardinality(outcomes) > 1
               /\ op[key].status = CASE outcomes = {} -> "running"
                                     [] Cardinality(outcomes) = 1 -> CHOOSE o \in outcomes : TRUE
                                     [] OTHER -> "unknown"
               /\ op[key].error <=> \E s \in ends : s.error
    <3>. DEFINE ends == Ends(key)
                outcomes == {s.status : s \in ends}
    <3>1. Merged(op[key], told.said[key], ends) /\ told.said[key] \subseteq Snapshots
      BY <1>1 DEF IInv, OperationInv, TypeInv
    <3>2. outcomes \subseteq Outcomes
      BY <3>1 DEF Ends, Snapshots, Outcomes
    <3>3. IsFiniteSet(outcomes)
      BY <3>2, FewOutcomes, FS_Subset
    <3>4. \A s \in ends : s.status \in outcomes
      OBVIOUS
    <3>5. (\E x, y \in outcomes : x # y) <=> \E s, u \in ends : s.status # u.status
      OBVIOUS
    <3>6. outcomes = {} <=> ends = {}
      OBVIOUS
    <3>. HIDE DEF ends, outcomes
    <3>7. op[key].conflicted <=> Cardinality(outcomes) > 1
      BY <3>1, <3>3, <3>5, OneOrMore DEF Merged
    <3>8. op[key].error <=> \E s \in ends : s.error
      BY <3>1 DEF Merged
    <3>9. op[key].status = CASE outcomes = {} -> "running"
                              [] Cardinality(outcomes) = 1 -> CHOOSE o \in outcomes : TRUE
                              [] OTHER -> "unknown"
      <4>1. CASE outcomes = {}
        <5>1. ends = {} /\ ~op[key].conflicted
          BY <3>1, <3>6, <4>1 DEF Merged
        <5>2. op[key].status = "running" /\ Cardinality(outcomes) # 1
          BY <2>2, <3>1, <3>3, <4>1, <5>1, OneOrMore DEF Merged
        <5>. QED BY <4>1, <5>2
      <4>2. CASE Cardinality(outcomes) = 1
        <5>1. outcomes # {} /\ \A x, y \in outcomes : x = y
          BY <3>3, <4>2, OneOrMore
        <5>2. ends # {} /\ ~op[key].conflicted
          BY <3>1, <3>5, <3>6, <5>1 DEF Merged
        <5>3. \A s \in ends : s.status = op[key].status
          BY <2>2, <3>1, <5>2 DEF Merged
        <5>4. op[key].status \in outcomes
          BY <3>4, <5>2, <5>3
        <5>5. op[key].status = CHOOSE o \in outcomes : TRUE
          BY <5>1, <5>4
        <5>. QED BY <4>2, <5>1, <5>5
      <4>3. CASE outcomes # {} /\ Cardinality(outcomes) # 1
        <5>1. \E x, y \in outcomes : x # y
          BY <3>3, <4>3, OneOrMore
        <5>2. op[key].status = "unknown"
          BY <3>1, <3>5, <5>1 DEF Merged
        <5>. QED BY <4>3, <5>2
      <4>. QED BY <4>1, <4>2, <4>3
    <3>. QED BY <3>7, <3>8, <3>9 DEF ends, outcomes, Ends
  <2>. QED BY <2>1, <2>2 DEF EvidenceIsKept
<1>. QED BY <1>1, InductiveInvariant, PTL

-----------------------------------------------------------------------------
(* What has settled stays settled.                                         *)

\* What no transaction undoes: a run that has ended, a turn that has ended, and a
\* child that has ended and whose provider tells of no turns.
StaysSettled ==
  /\ run.status \in TerminalStatus =>
       /\ run'.status = run.status
       /\ \A a \in Agents : agent'[a].status = agent[a].status
  /\ \A k \in Kids, t \in Turns : turn[k][t] = "ended" => turn'[k][t] = "ended"
  /\ run.provider = "claude" => \A k \in Kids :
       agent[k].status \in TerminalStatus => agent'[k].status = agent[k].status

LEMMA EndChildSettles ==
  ASSUME IInv, run.status \in ActiveStatus, NEW k \in Kids,
         NEW outcome \in TerminalStatus, NEW mutation \in Mutation,
         EndChild(k, outcome, mutation)
  PROVE  StaysSettled
<1>1. run.status \notin TerminalStatus
  BY DEF ActiveStatus, TerminalStatus
<1>2. agent[k].status \notin TerminalStatus
  BY DEF EndChild, Transitions, TerminalStatus
<1>3. \A j \in Kids : j # k => agent'[j].status = agent[j].status
  BY RootIsNoKid DEF EndChild, IInv, TypeInv
<1>4. \A j \in Kids, t \in Turns : turn[j][t] = "ended" => turn'[j][t] = "ended"
  BY DEF EndChild, IInv, TypeInv
<1>. QED BY <1>1, <1>2, <1>3, <1>4 DEF StaysSettled

LEMMA ChildStepSettles ==
  ASSUME IInv, ChildStep
  PROVE  StaysSettled
<1>1. TypeInv /\ Kids \subseteq Agents /\ Evidence \subseteq Mutation
  BY RootIsNoKid, JournalAssumption DEF IInv
<1>2. PICK k \in Kids :
        \/ \E t \in Turns : ChildStarted(k, t)
        \/ \E t \in Turns, outcome \in TerminalStatus : ChildEnded(k, t, outcome)
        \/ \E activity \in {"none", "running", "completed"} : SubAgent(k, activity)
        \/ \E t \in Turns \cup {NoTurn}, m \in Evidence : DiscardedOperation(k, t, m)
        \/ CloseChild(k)
  BY DEF ChildStep
<1>3. ASSUME NEW t \in Turns, ChildStarted(k, t)
      PROVE  StaysSettled
  <2>1. run.status \notin TerminalStatus /\ run.provider = "codex" /\ turn[k][t] = "none"
    BY <1>3, LiveRun DEF ChildStarted
  <2>2. \A j \in Kids, u \in Turns : turn[j][u] = "ended" => turn'[j][u] = "ended"
    BY <1>1, <1>3, <2>1 DEF ChildStarted, TypeInv
  <2>. QED BY <2>1, <2>2 DEF StaysSettled
<1>4. ASSUME NEW t \in Turns, NEW outcome \in TerminalStatus, ChildEnded(k, t, outcome)
      PROVE  StaysSettled
  BY <1>4, EndChildSettles DEF ChildEnded, Live, ActiveStatus, Mutation
<1>5. ASSUME NEW activity \in {"none", "running", "completed"}, SubAgent(k, activity)
      PROVE  StaysSettled
  <2>1. /\ run.status \notin TerminalStatus /\ UNCHANGED turn
        /\ agent' = [agent EXCEPT ![k].status = Reported(k, activity)]
        /\ <<agent[k].status, Reported(k, activity)>> \in Updates
    BY <1>5, LiveRun DEF SubAgent
  <2>2. agent[k].status \in TerminalStatus => Reported(k, activity) = agent[k].status
    <3>1. Reported(k, activity) # agent[k].status => Reported(k, activity) # "waiting"
      BY <1>5 DEF Reported
    <3>. QED BY <2>1, <3>1, UpdatesFollow
  <2>3. \A j \in Kids : agent[j].status \in TerminalStatus => agent'[j].status = agent[j].status
    BY <1>1, <2>1, <2>2 DEF TypeInv
  <2>. QED BY <2>1, <2>3 DEF StaysSettled
<1>6. ASSUME NEW t \in Turns \cup {NoTurn}, NEW m \in Evidence, DiscardedOperation(k, t, m)
      PROVE  StaysSettled
  BY <1>1, <1>6, LiveRun DEF DiscardedOperation, StaysSettled
<1>7. ASSUME CloseChild(k)
      PROVE  StaysSettled
  <2>1. run.finish \in TerminalStatus /\ run.status \in ActiveStatus
    BY <1>1, <1>7 DEF TypeInv, CloseChild, Closing
  <2>2. (IF run.owner = "task" THEN 2 ELSE 0) \in Mutation
    BY DEF Mutation
  <2>. QED BY <1>7, <2>1, <2>2, EndChildSettles DEF CloseChild
<1>. QED BY <1>2, <1>3, <1>4, <1>5, <1>6, <1>7

LEMMA AgentStepSettles ==
  ASSUME IInv, AgentStep
  PROVE  StaysSettled
<1>1. TypeInv /\ Kids \subseteq Agents
  BY RootIsNoKid DEF IInv
<1>2. PICK a \in Agents :
        \/ \E t \in Turns \cup {NoTurn}, q \in Requests : ControlRequested(a, t, q)
        \/ \E kids \in SUBSET Kids : \E status \in [kids -> Reportable] : ChildAgents(a, status)
        \/ \E t \in Turns \cup {NoTurn}, s \in Snapshots, m \in Evidence : Operation(a, t, s, m)
        \/ \E t \in Turns \cup {NoTurn}, phase \in {"started", "completed", "cleared", "failed"} :
             Compaction(a, t, phase)
  BY DEF AgentStep
<1>3. ASSUME NEW t \in Turns \cup {NoTurn}, NEW q \in Requests, ControlRequested(a, t, q)
      PROVE  StaysSettled
  <2>1. run.status \notin TerminalStatus /\ UNCHANGED turn /\ agent[a].status \notin TerminalStatus
    BY <1>3, LiveRun DEF ControlRequested, TerminalStatus
  <2>2. \A j \in Kids : j # a => agent'[j].status = agent[j].status
    BY <1>1, <1>3 DEF ControlRequested, TypeInv
  <2>. QED BY <2>1, <2>2 DEF StaysSettled
<1>4. ASSUME NEW kids \in SUBSET Kids, NEW status \in [kids -> Reportable], ChildAgents(a, status)
      PROVE  StaysSettled
  <2>1. run.status \notin TerminalStatus /\ UNCHANGED turn
    BY <1>4, LiveRun DEF ChildAgents
  <2>2. ASSUME NEW j \in Kids, agent[j].status \in TerminalStatus
        PROVE  agent'[j].status = agent[j].status
    <3>1. CASE j \notin kids
      BY <1>1, <1>4, <3>1 DEF ChildAgents
    <3>2. CASE j \in kids
      <4>1. /\ agent'[j] = [agent[j] EXCEPT !.status = Reported(j, status[j])]
            /\ <<agent[j].status, Reported(j, status[j])>> \in Updates
        BY <1>1, <1>4, <2>2, <3>2 DEF ChildAgents, TerminalStatus
      <4>2. Reported(j, status[j]) # agent[j].status => Reported(j, status[j]) # "waiting"
        BY <3>2 DEF Reported, Reportable, TerminalStatus
      <4>3. Reported(j, status[j]) = agent[j].status
        BY <2>2, <4>1, <4>2, UpdatesFollow
      <4>. QED BY <1>1, <4>1, <4>3 DEF TypeInv
    <3>. QED BY <3>1, <3>2
  <2>. QED BY <2>1, <2>2 DEF StaysSettled
<1>5. ASSUME \/ \E t \in Turns \cup {NoTurn}, s \in Snapshots, m \in Evidence : Operation(a, t, s, m)
             \/ \E t \in Turns \cup {NoTurn},
                   phase \in {"started", "completed", "cleared", "failed"} : Compaction(a, t, phase)
      PROVE  StaysSettled
  <2>1. run.status \notin TerminalStatus /\ UNCHANGED <<agent, turn>>
    BY <1>5, LiveRun DEF Operation, Compaction
  <2>. QED BY <2>1 DEF StaysSettled
<1>. QED BY <1>2, <1>3, <1>4, <1>5

LEMMA RunStepSettles ==
  ASSUME IInv, RunStep
  PROVE  StaysSettled
<1>1. /\ TypeInv /\ RunInv /\ Root \in Agents /\ Root \notin Kids /\ Kids \subseteq Agents
      /\ ActiveStatus \cap TerminalStatus = {}
  BY RootIsNoKid DEF IInv, ActiveStatus, TerminalStatus
<1>2. ASSUME RootStarted PROVE StaysSettled
  <2>1. /\ run.status \notin TerminalStatus /\ UNCHANGED turn
        /\ \A j \in Kids : agent'[j].status = agent[j].status
    BY <1>1, <1>2 DEF RootStarted, TypeInv, TerminalStatus
  <2>. QED BY <2>1 DEF StaysSettled
<1>3. ASSUME Lapse \/ Claim \/ \E outcome \in TerminalStatus : Finalize(outcome)
      PROVE  StaysSettled
  <2>1. UNCHANGED <<agent, turn>> /\ run'.status = run.status
    BY <1>1, <1>3 DEF Lapse, Claim, Finalize, TypeInv
  <2>. QED BY <2>1 DEF StaysSettled
<1>4. ASSUME FailRun PROVE StaysSettled
  <2>1. /\ run.status \notin TerminalStatus
        /\ \A a \in Agents : agent[a].status \in TerminalStatus => agent'[a] = agent[a]
        /\ \A k \in Kids, t \in Turns : turn[k][t] = "ended" => turn'[k][t] = "ended"
    BY <1>1, <1>4 DEF FailRun, ActiveAgents
  <2>. QED BY <1>1, <2>1 DEF StaysSettled
<1>5. ASSUME NEW known \in Mutation, CloseRoot(known) PROVE StaysSettled
  <2>1. /\ run.status \notin TerminalStatus /\ UNCHANGED turn
        /\ \A j \in Kids : agent'[j].status = agent[j].status
    BY <1>1, <1>5 DEF CloseRoot, Closing, TypeInv
  <2>. QED BY <2>1 DEF StaysSettled
<1>6. ASSUME NEW q \in Requests, Acknowledge(q) PROVE StaysSettled
  <2>1. /\ run.status = "waiting" /\ UNCHANGED turn
        /\ agent[approval[q].agent].status = "waiting" /\ approval[q].agent \in Agents
        /\ agent' = [agent EXCEPT ![approval[q].agent].status = "running"]
    BY <1>1, <1>6 DEF Acknowledge, TypeInv
  <2>2. \A j \in Kids : agent[j].status \in TerminalStatus => agent'[j].status = agent[j].status
    BY <1>1, <2>1 DEF TypeInv, TerminalStatus
  <2>. QED BY <2>1, <2>2 DEF StaysSettled, TerminalStatus
<1>. QED BY <1>2, <1>3, <1>4, <1>5, <1>6 DEF RunStep

LEMMA OnlyOperationsWrite ==
  ASSUME Next
  PROVE  \/ UNCHANGED op
         \/ \E a \in Agents, t \in Turns \cup {NoTurn}, s \in Snapshots, m \in Evidence :
              Operation(a, t, s, m)
<1>1. ChildStep => UNCHANGED op
  <2>1. \A k \in Kids, t \in Turns : ChildStarted(k, t) => UNCHANGED op
    BY DEF ChildStarted
  <2>2. \A k \in Kids : \A outcome, mutation : EndChild(k, outcome, mutation) => UNCHANGED op
    BY DEF EndChild
  <2>3. \A k \in Kids : \A activity : SubAgent(k, activity) => UNCHANGED op
    BY DEF SubAgent
  <2>4. \A k \in Kids : \A t, mutation : DiscardedOperation(k, t, mutation) => UNCHANGED op
    BY DEF DiscardedOperation
  <2>. QED BY <2>1, <2>2, <2>3, <2>4 DEF ChildStep, ChildEnded, CloseChild
<1>2. RunStep => UNCHANGED op
  BY DEF RunStep, RootStarted, Lapse, Claim, FailRun, CloseRoot, Acknowledge, Finalize
<1>3. ASSUME AgentStep
      PROVE  \/ UNCHANGED op
             \/ \E a \in Agents, t \in Turns \cup {NoTurn}, s \in Snapshots, m \in Evidence :
                  Operation(a, t, s, m)
  <2>1. \A a \in Agents, t \in Turns \cup {NoTurn}, q \in Requests :
          ControlRequested(a, t, q) => UNCHANGED op
    BY DEF ControlRequested
  <2>2. \A a \in Agents, kids \in SUBSET Kids : \A status \in [kids -> Reportable] :
          ChildAgents(a, status) => UNCHANGED op
    BY DEF ChildAgents
  <2>3. \A a \in Agents, t \in Turns \cup {NoTurn},
           phase \in {"started", "completed", "cleared", "failed"} :
          Compaction(a, t, phase) => UNCHANGED op
    BY DEF Compaction
  <2>. QED BY <1>3, <2>1, <2>2, <2>3 DEF AgentStep
<1>. QED BY <1>1, <1>2, <1>3 DEF Next

\* What is shown of one operation, and of which revision, before and after a
\* step.
ShowsOnce(key) ==
  op[key] # NoOp /\ Shown(key)' # Shown(key) =>
    /\ Shown(key)' # "running"
    /\ \/ ShownRevision(key)' > ShownRevision(key)
       \/ /\ op'[key] = op[key] /\ key[2] = NoTurn /\ key[1] # Root
          /\ Shown(key) = "unknown" /\ run'.status = "interrupted"

\* An operation that a snapshot changes belongs to an agent at work, so that it is
\* shown as it is.
LEMMA WrittenShows ==
  ASSUME IInv, NEW a \in Agents, NEW t \in Turns \cup {NoTurn}, NEW s \in Snapshots,
         NEW m \in Evidence, Operation(a, t, s, m), IInv'
  PROVE  ShowsOnce(<<a, t>>)
<1>. DEFINE key == <<a, t>>
<1>1. /\ run.status \in AtWork /\ agent[a].status \in AtWork
      /\ a # Root /\ t # NoTurn => turn[a][t] = "open"
      /\ run' = [run EXCEPT !.mutation = Max({@, m})] /\ UNCHANGED <<agent, turn>>
      /\ op' = [op EXCEPT ![key] = Snapshot(key, s)]
      /\ key \in OpKeys /\ key[1] = a /\ key[2] = t
  <2>1. IF a = Root THEN t = NoTurn ELSE ChildAtWork(a, t)
    BY DEF Operation
  <2>2. key \in OpKeys
    BY <2>1, RootIsNoKid DEF OpKeys, Agents
  <2>3. a # Root /\ t # NoTurn => turn[a][t] = "open"
    BY <2>1 DEF ChildAtWork
  <2>. QED BY <2>2, <2>3, LiveRun DEF Operation, AtWork
<1>2. run'.status = run.status /\ op[key] \in OpRow
  BY <1>1 DEF IInv, TypeInv, OpRow
<1>. HIDE DEF key
<1>3. /\ OwnersShown(key) = {run.status, agent[a].status}
      /\ OwnersShown(key)' = {run.status, agent[a].status}
  BY <1>1, <1>2 DEF OwnersShown
<1>4. "interrupted" \notin OwnersShown(key) /\ {"completed", "failed"} \cap OwnersShown(key) = {}
  BY <1>1, <1>3 DEF AtWork
<1>5. Shown(key) = op[key].status /\ Shown(key)' = op'[key].status
  BY <1>3, <1>4 DEF Shown
<1>6. ShownRevision(key) = op[key].revision /\ ShownRevision(key)' = op'[key].revision
  <2>1. op'[key].revision \in Nat
    BY <1>1 DEF IInv, TypeInv
  <2>. QED BY <1>2, <1>5, <2>1 DEF ShownRevision, OpRow
<1>7. SUFFICES ASSUME op[key] # NoOp, op'[key].status # op[key].status
               PROVE  /\ op'[key].status # "running"
                      /\ op'[key].revision > op[key].revision
  BY <1>5, <1>6 DEF ShowsOnce, key
<1>8. op'[key] = Merge(op[key], s)
  BY <1>1, <1>7 DEF IInv, TypeInv, Snapshot
<1>. QED BY <1>2, <1>7, <1>8, MergeFields DEF OpRow

\* What becomes of the run or the agent settles an operation that still runs, once.
LEMMA UnwrittenShows ==
  ASSUME IInv, NEW key \in OpKeys, op'[key] = op[key], StaysSettled, IInv'
  PROVE  ShowsOnce(key)
<1>1. /\ TypeInv /\ RunInv /\ TurnInv /\ OperationInv /\ TypeInv' /\ RunInv'
      /\ Root \notin Kids /\ Kids \subseteq Agents /\ NoTurn \notin Turns
  BY RootIsNoKid, JournalAssumption DEF IInv
<1>2. SUFFICES ASSUME op[key] # NoOp, op[key].status = "running", Shown(key)' # Shown(key)
               PROVE  ShowsOnce(key)
  BY DEF ShowsOnce, Shown
<1>. DEFINE Settles(owners) == IF "interrupted" \in owners THEN "interrupted"
                               ELSE IF {"completed", "failed"} \cap owners # {} THEN "unknown"
                               ELSE "running"
<1>3. /\ Shown(key) = Settles(OwnersShown(key))
      /\ Shown(key)' = Settles(OwnersShown(key)')
  BY <1>2 DEF Shown
<1>4. CASE Shown(key) = "running"
  <2>1. op[key].revision \in Nat /\ op'[key].revision = op[key].revision
    BY <1>1 DEF TypeInv
  <2>2. ShownRevision(key) = op[key].revision /\ ShownRevision(key)' = op[key].revision + 1
    BY <1>2, <1>4, <2>1 DEF ShownRevision
  <2>. QED BY <1>2, <1>4, <2>1, <2>2 DEF ShowsOnce
<1>5. CASE Shown(key) # "running"
  <2>1. OwnersShown(key) \cap TerminalStatus # {}
    BY <1>3, <1>5 DEF TerminalStatus
  <2>2. ASSUME key = <<Root, NoTurn>> PROVE ShowsOnce(key)
    <3>1. OwnersShown(key) = {run.status, agent[Root].status}
          /\ OwnersShown(key)' = {run'.status, agent'[Root].status}
      BY <2>2 DEF OwnersShown
    <3>2. run.status \in TerminalStatus
      BY <1>1, <2>1, <3>1 DEF RunInv
    <3>3. run'.status = run.status /\ agent'[Root].status = agent[Root].status
      BY <3>2, RootIsNoKid DEF StaysSettled
    <3>. QED BY <1>2, <1>3, <3>1, <3>3
  <2>3. ASSUME NEW k \in Kids, NEW t \in Turns, key = <<k, t>> PROVE ShowsOnce(key)
    <3>1. key[1] = k /\ key[2] = t /\ k # Root /\ t # NoTurn
      BY <1>1, <2>3
    <3>2. turn[k][t] \in {"open", "ended"}
      BY <1>1, <1>2, <2>3 DEF OperationInv, TypeInv
    <3>3. CASE turn[k][t] = "ended"
      <4>1. turn'[k][t] = "ended"
        BY <3>3 DEF StaysSettled
      <4>2. OwnersShown(key) = {"completed"} /\ OwnersShown(key)' = {"completed"}
        BY <3>1, <3>3, <4>1 DEF OwnersShown
      <4>. QED BY <1>2, <1>3, <4>2
    <3>4. CASE turn[k][t] = "open"
      <4>1. OwnersShown(key) = {run.status, agent[k].status}
        BY <3>1, <3>4 DEF OwnersShown
      <4>2. agent[k].status \in AtWork
        BY <1>1, <3>4 DEF TurnInv
      <4>3. agent[k].status \notin TerminalStatus /\ run.status \notin TerminalStatus
        BY <1>1, <4>2 DEF RunInv, AtWork, TerminalStatus, ActiveStatus
      <4>. QED BY <2>1, <4>1, <4>3
    <3>. QED BY <3>2, <3>3, <3>4
  <2>4. ASSUME NEW k \in Kids, key = <<k, NoTurn>> PROVE ShowsOnce(key)
    <3>1. key[1] = k /\ key[2] = NoTurn /\ k # Root /\ k \in Agents
      BY <1>1, <2>4
    <3>2. OwnersShown(key) = {run.status, agent[k].status}
          /\ OwnersShown(key)' = {run'.status, agent'[k].status}
      BY <3>1 DEF OwnersShown
    <3>3. run.provider = "claude"
      BY <1>1, <1>2, <2>4 DEF OperationInv
    <3>4. CASE run.status \in TerminalStatus
      <4>1. run'.status = run.status /\ agent'[k].status = agent[k].status
        BY <3>1, <3>4 DEF StaysSettled
      <4>. QED BY <1>2, <1>3, <3>2, <4>1
    <3>5. CASE run.status \notin TerminalStatus
      <4>1. agent[k].status \in TerminalStatus
        BY <2>1, <3>2, <3>5
      <4>2. agent'[k].status = agent[k].status
        BY <3>3, <4>1 DEF StaysSettled
      <4>3. agent[k].status # "interrupted"
        BY <1>2, <1>3, <3>2, <4>2
      <4>4. Shown(key) = "unknown" /\ run.status # "interrupted"
        BY <1>3, <3>2, <3>5, <4>1, <4>3 DEF TerminalStatus
      <4>5. Shown(key)' = "interrupted" /\ run'.status = "interrupted"
        BY <1>2, <1>3, <3>2, <4>1, <4>2, <4>3, <4>4 DEF TerminalStatus
      <4>. QED BY <3>1, <4>4, <4>5 DEF ShowsOnce
    <3>. QED BY <3>4, <3>5
  <2>5. \/ key = <<Root, NoTurn>> \/ \E k \in Kids, t \in Turns : key = <<k, t>>
        \/ \E k \in Kids : key = <<k, NoTurn>>
    BY DEF OpKeys
  <2>. QED BY <2>2, <2>3, <2>4, <2>5
<1>. QED BY <1>4, <1>5

LEMMA DisplayStep ==
  ASSUME IInv, Next, NEW key \in OpKeys
  PROVE  ShowsOnce(key)
<1>1. StaysSettled
  BY ChildStepSettles, AgentStepSettles, RunStepSettles DEF Next
<1>2. IInv'
  BY NextIInv
<1>3. CASE UNCHANGED op
  BY <1>1, <1>2, <1>3, UnwrittenShows
<1>4. ASSUME NEW a \in Agents, NEW t \in Turns \cup {NoTurn}, NEW s \in Snapshots,
             NEW m \in Evidence, Operation(a, t, s, m)
      PROVE  ShowsOnce(key)
  <2>1. CASE key = <<a, t>>
    BY <1>2, <1>4, <2>1, WrittenShows
  <2>2. CASE key # <<a, t>>
    <3>1. op'[key] = op[key]
      BY <1>4, <2>2 DEF Operation, IInv, TypeInv
    <3>. QED BY <1>1, <1>2, <3>1, UnwrittenShows
  <2>. QED BY <2>1, <2>2
<1>. QED BY <1>3, <1>4, OnlyOperationsWrite

\* What was shown as settled never runs again, and a reader who asks by revision
\* sees every change but the one of an operation of an untracked child whose run
\* is interrupted after it was closed.
THEOREM DisplaySettles == Spec => DisplayOnlySettles
<1>1. ASSUME IInv, [Next]_vars
      PROVE  [\A key \in OpKeys : op[key] # NoOp /\ Shown(key)' # Shown(key) =>
                /\ Shown(key)' # "running"
                /\ \/ ShownRevision(key)' > ShownRevision(key)
                   \/ /\ op'[key] = op[key] /\ key[2] = NoTurn /\ key[1] # Root
                      /\ Shown(key) = "unknown" /\ run'.status = "interrupted"]_vars
  BY <1>1, DisplayStep DEF ShowsOnce
<1>. QED BY <1>1, InductiveInvariant, PTL DEF Spec, DisplayOnlySettles

-----------------------------------------------------------------------------
(* The tree of agents and the ways through it.                             *)

\* Every set of natural numbers that has an element has a least one.
LEMMA Least ==
  ASSUME NEW T, T \subseteq Nat, NEW n \in T
  PROVE  \E x \in T : \A y \in T : x <= y
<1>. DEFINE S == FiniteSubsetsOf(0..n)
            U == {0..m : m \in {k \in T : k <= n}}
<1>1. IsWellFoundedOn(StrictSubsetOrdering(0..n), S)
  BY FS_StrictSubsetOrderingWellFounded
<1>2. U \subseteq S
  <2>. SUFFICES ASSUME NEW m \in T, m <= n PROVE 0..m \in S
    OBVIOUS
  <2>1. IsFiniteSet(0..m)
    BY FS_Interval
  <2>. QED BY <2>1 DEF FiniteSubsetsOf
<1>3. U # {}
  OBVIOUS
<1>4. PICK x \in U : \A y \in U : <<y, x>> \notin StrictSubsetOrdering(0..n)
  <2>. HIDE DEF U, S
  <2>. QED BY <1>1, <1>2, <1>3, WFMin
<1>5. PICK m \in T : m <= n /\ x = 0..m
  OBVIOUS
<1>6. SUFFICES ASSUME NEW y \in T, ~(m <= y) PROVE FALSE
  OBVIOUS
<1>7. y <= n /\ 0..y \subseteq 0..m /\ 0..y # 0..m /\ 0..y \subseteq 0..n /\ 0..m \subseteq 0..n
  <2>. y \in Nat /\ m \in Nat /\ n \in Nat
    OBVIOUS
  <2>. m \in 0..m /\ m \notin 0..y
    BY <1>6
  <2>. QED BY <1>5, <1>6
<1>8. <<0..y, 0..m>> \in StrictSubsetOrdering(0..n)
  <2>. HIDE DEF U, S
  <2>. QED BY <1>7 DEF StrictSubsetOrdering
<1>. QED BY <1>4, <1>5, <1>7, <1>8

\* T has the agent and the children of its members.
IsClosed(a, T) == a \in T /\ \A x \in T : ChildrenOf(x) \subseteq T

LEMMA SubtreeIsClosed ==
  ASSUME NEW a \in Bound
  PROVE  /\ Subtree(a) \subseteq Bound /\ IsClosed(a, Subtree(a))
         /\ \A T \in SUBSET Bound : IsClosed(a, T) => Subtree(a) \subseteq T
<1>1. \A b : b \in Subtree(a) <=> b \in Bound /\ \A T \in SUBSET Bound : IsClosed(a, T) => b \in T
  BY DEF Subtree, IsClosed
<1>2. a \in Subtree(a)
  BY <1>1 DEF IsClosed
<1>3. ASSUME NEW x \in Subtree(a), NEW y \in ChildrenOf(x)
      PROVE  y \in Subtree(a)
  <2>1. y \in Bound
    BY <1>3 DEF ChildrenOf
  <2>2. \A T \in SUBSET Bound : IsClosed(a, T) => x \in T
    BY <1>1, <1>3
  <2>. QED BY <1>1, <1>3, <2>1, <2>2 DEF IsClosed
<1>. QED BY <1>1, <1>2, <1>3 DEF IsClosed

\* Below an agent is what is below its children, and nothing else.
LEMMA SubtreeUnfolds ==
  ASSUME NEW a \in Bound
  PROVE  Subtree(a) = {a} \cup UNION {Subtree(c) : c \in ChildrenOf(a)}
<1>. DEFINE T == {a} \cup UNION {Subtree(c) : c \in ChildrenOf(a)}
<1>1. ChildrenOf(a) \subseteq Bound
  BY DEF ChildrenOf
<1>2. ASSUME NEW c \in ChildrenOf(a)
      PROVE  Subtree(c) \subseteq Subtree(a)
  <2>1. c \in Bound /\ c \in Subtree(a)
    BY <1>1, SubtreeIsClosed DEF IsClosed
  <2>2. IsClosed(c, Subtree(a)) /\ Subtree(a) \subseteq Bound
    BY <2>1, SubtreeIsClosed DEF IsClosed
  <2>. QED BY <2>1, <2>2, SubtreeIsClosed
<1>3. IsClosed(a, T) /\ T \subseteq Bound
  <2>1. \A c \in ChildrenOf(a) : Subtree(c) \subseteq Bound /\ IsClosed(c, Subtree(c))
    BY <1>1, SubtreeIsClosed
  <2>2. ASSUME NEW x \in T, NEW y \in ChildrenOf(x)
        PROVE  y \in T
    <3>1. CASE x = a
      BY <2>1, <2>2, <3>1 DEF IsClosed
    <3>2. CASE x # a
      <4>1. PICK c \in ChildrenOf(a) : x \in Subtree(c)
        BY <2>2, <3>2
      <4>2. y \in Subtree(c)
        BY <2>1, <2>2, <4>1 DEF IsClosed
      <4>. QED BY <4>1, <4>2
    <3>. QED BY <3>1, <3>2
  <2>3. a \in T
    OBVIOUS
  <2>4. T \subseteq Bound
    BY <2>1
  <2>. QED BY <2>2, <2>3, <2>4 DEF IsClosed
<1>4. Subtree(a) \subseteq T
  <2>. HIDE DEF T
  <2>. QED BY <1>3, SubtreeIsClosed
<1>5. a \in Subtree(a)
  BY SubtreeIsClosed DEF IsClosed
<1>. QED BY <1>2, <1>4, <1>5

\* An agent but the root has its parent one level above.
LEMMA OneLevelUp ==
  ASSUME IInv, NEW a \in Bound
  PROVE  /\ a \in Agents /\ agent[a].depth \in Nat /\ Root \in Bound
         /\ a # Root => /\ agent[a].parent \in Bound /\ a \in ChildrenOf(agent[a].parent)
                        /\ agent[agent[a].parent].depth \in Nat
                        /\ agent[a].depth = agent[agent[a].parent].depth + 1
<1>1. a \in Agents /\ agent[a].depth \in Nat /\ agent[a].parent \in Agents
  BY DEF Bound, IInv, TypeInv
<1>2. Root \in Bound
  BY RootIsNoKid DEF Bound, IInv, RunInv, Statuses, ActiveStatus, TerminalStatus
<1>3. ASSUME a # Root
      PROVE  /\ agent[a].parent \in Bound /\ a \in ChildrenOf(agent[a].parent)
             /\ agent[agent[a].parent].depth \in Nat
             /\ agent[a].depth = agent[agent[a].parent].depth + 1
  <2>1. a \in Kids /\ agent[a].status # "absent"
    BY <1>1, <1>3 DEF Agents, Bound
  <2>2. agent[agent[a].parent].depth \in Nat
    BY <1>1 DEF IInv, TypeInv
  <2>. QED BY <1>1, <1>3, <2>1, <2>2 DEF IInv, TreeInv, Bound, ChildrenOf
<1>. QED BY <1>1, <1>2, <1>3

\* Every agent is below the root.
LEMMA RootHasAll ==
  ASSUME IInv
  PROVE  Subtree(Root) = Bound
<1>. DEFINE Deep == {agent[b].depth : b \in Bound \ Subtree(Root)}
<1>1. ASSUME NEW b \in Bound \ Subtree(Root) PROVE FALSE
  <2>1. Deep \subseteq Nat /\ agent[b].depth \in Deep
    BY OneLevelUp
  <2>2. PICK d \in Deep : \A e \in Deep : d <= e
    <3>. HIDE DEF Deep
    <3>. QED BY <2>1, Least
  <2>3. PICK c \in Bound \ Subtree(Root) : agent[c].depth = d
    BY <2>2
  <2>4. Root \in Bound
    BY <2>3, OneLevelUp
  <2>5. c # Root
    BY <2>3, <2>4, SubtreeIsClosed DEF IsClosed
  <2>6. /\ agent[c].parent \in Bound /\ c \in ChildrenOf(agent[c].parent)
        /\ agent[agent[c].parent].depth \in Nat
        /\ agent[c].depth = agent[agent[c].parent].depth + 1
    BY <2>3, <2>5, OneLevelUp
  <2>7. agent[c].parent \in Subtree(Root)
    <3>1. agent[c].parent \notin Subtree(Root) => agent[agent[c].parent].depth \in Deep
      BY <2>6
    <3>. HIDE DEF Deep
    <3>. QED BY <2>2, <2>3, <2>6, <3>1
  <2>. QED BY <2>3, <2>4, <2>6, <2>7, SubtreeIsClosed DEF IsClosed
<1>2. Root \in Bound
  BY OneLevelUp, RootIsNoKid DEF Bound, IInv, RunInv, Statuses, ActiveStatus, TerminalStatus
<1>. QED BY <1>1, <1>2, SubtreeIsClosed

\* f climbs from an agent to its parents, m times.
Climbs(f, a, m) ==
  f = [n \in 0 .. m |-> IF n = 0 THEN a ELSE agent[f[n - 1]].parent]

LEMMA ClimbExists ==
  ASSUME NEW a, NEW m \in Nat
  PROVE  \E f : Climbs(f, a, m)
<1>. DEFINE Bad == {n \in Nat : ~\E f : Climbs(f, a, n)}
<1>1. SUFFICES ASSUME m \in Bad PROVE FALSE
  OBVIOUS
<1>2. PICK n \in Bad : \A k \in Bad : n <= k
  <2>1. Bad \subseteq Nat
    OBVIOUS
  <2>. HIDE DEF Bad
  <2>. QED BY <1>1, <2>1, Least
<1>3. n # 0
  <2>1. Climbs([i \in 0 .. 0 |-> a], a, 0)
    BY DEF Climbs
  <2>. QED BY <2>1, <1>2
<1>4. n - 1 \in Nat /\ n - 1 \notin Bad
  <2>. n \in Nat
    OBVIOUS
  <2>. HIDE DEF Bad
  <2>. QED BY <1>2, <1>3
<1>5. PICK g : Climbs(g, a, n - 1)
  BY <1>4
<1>. DEFINE h == [i \in 0 .. n |-> IF i < n THEN g[i] ELSE agent[g[i - 1]].parent]
<1>6. ASSUME NEW i \in 0 .. n
      PROVE  h[i] = IF i = 0 THEN a ELSE agent[h[i - 1]].parent
  <2>1. CASE i < n
    <3>1. i \in 0 .. n - 1 /\ h[i] = g[i]
      BY <2>1
    <3>2. i # 0 => h[i - 1] = g[i - 1]
      BY <2>1
    <3>3. g[i] = IF i = 0 THEN a ELSE agent[g[i - 1]].parent
      <4>. HIDE DEF h
      <4>. QED BY <3>1, <1>5 DEF Climbs
    <3>. HIDE DEF h
    <3>. QED BY <3>1, <3>2, <3>3
  <2>2. CASE i = n
    BY <2>2, <1>3
  <2>. QED BY <2>1, <2>2
<1>7. Climbs(h, a, n)
  BY <1>6 DEF Climbs
<1>. QED BY <1>7, <1>2

\* The path of an agent leads up to the root, through agents it is below of.
LEMMA PathLeadsUp ==
  ASSUME IInv, NEW a \in Bound
  PROVE  /\ Root \in Path(a)
         /\ \A b \in Path(a) : b \in Bound /\ a \in Subtree(b)
<1>. DEFINE D == agent[a].depth
<1>1. D \in Nat /\ D \in 0 .. D
  BY OneLevelUp
<1>2. PICK f : Climbs(f, a, D) /\ Path(a) = {f[n] : n \in 0 .. D}
  <2>1. \E f : Climbs(f, a, D)
    BY <1>1, ClimbExists
  <2>2. PICK f : Climbs(f, a, D) /\ Path(a) = {f[n] : n \in DOMAIN f}
    BY <2>1 DEF Path, Climbs
  <2>3. DOMAIN f = 0 .. D
    BY <2>2 DEF Climbs
  <2>. QED BY <2>2, <2>3
<1>. HIDE DEF D
<1>. DEFINE On(n) == f[n] \in Bound /\ agent[f[n]].depth = D - n /\ a \in Subtree(f[n])
            Off == {n \in 0 .. D : ~On(n)}
<1>3. ASSUME NEW n \in Off PROVE FALSE
  <2>1. PICK m \in Off : \A k \in Off : m <= k
    <3>1. Off \subseteq Nat
      BY <1>1
    <3>. HIDE DEF Off
    <3>. QED BY <3>1, Least
  <2>2. m \in 0 .. D /\ ~On(m) /\ m \in Nat
    BY <1>1
  <2>3. f[m] = IF m = 0 THEN a ELSE agent[f[m - 1]].parent
    BY <1>2, <2>2 DEF Climbs
  <2>4. m # 0
    BY <1>1, <2>2, <2>3, SubtreeIsClosed DEF IsClosed, D
  <2>5. m - 1 \in 0 .. D /\ m - 1 \notin Off
    <3>. HIDE DEF Off, On
    <3>. QED BY <1>1, <2>1, <2>2, <2>4
  <2>6. f[m - 1] \in Bound /\ agent[f[m - 1]].depth = D - (m - 1) /\ a \in Subtree(f[m - 1])
    BY <2>5
  <2>7. D - (m - 1) > 0
    BY <1>1, <2>2
  <2>8. f[m - 1] # Root
    BY <2>6, <2>7 DEF IInv, TreeInv
  <2>9. /\ f[m] \in Bound /\ f[m - 1] \in ChildrenOf(f[m])
        /\ agent[f[m]].depth \in Nat
        /\ agent[f[m - 1]].depth = agent[f[m]].depth + 1
    BY <2>3, <2>4, <2>6, <2>8, OneLevelUp
  <2>10. a \in Subtree(f[m])
    BY <2>6, <2>9, SubtreeUnfolds
  <2>11. agent[f[m]].depth = D - m
    BY <1>1, <2>2, <2>6, <2>9
  <2>. QED BY <2>2, <2>9, <2>10, <2>11
<1>4. On(D)
  BY <1>1, <1>3
<1>5. f[D] = Root
  BY <1>1, <1>4, OneLevelUp
<1>. QED BY <1>1, <1>2, <1>3, <1>5

\* What is shown of a conversation is what the agents at and below it need.
LEMMA RollUpSays ==
  ASSUME IInv, NEW a \in Bound
  PROVE  RollUp(a) = "needs_attention" <=> \E b \in Subtree(a) : agent[b].status = "waiting"
<1>1. RollUp(a) = MostPressing({agent[b].status : b \in Subtree(a)})
  BY RootHasAll DEF RollUp
<1>2. \A S : MostPressing(S) = "needs_attention" <=> "waiting" \in S
  BY DEF MostPressing
<1>. QED BY <1>1, <1>2

\* An agent that waits lists a request, and only such an agent.
LEMMA WaitingLists ==
  ASSUME IInv, NEW a \in Bound
  PROVE  agent[a].status = "waiting" <=> Listed(a) # {}
BY DEF IInv, RequestInv, Bound, Listed

LEMMA EveryRequestIsFound ==
  ASSUME IInv
  PROVE  RequestsAreFound
<1>. DEFINE pressed == {a \in Bound : RollUp(a) = "needs_attention"}
<1>1. \A a \in Bound : a \in pressed <=> \E b \in Subtree(a) : agent[b].status = "waiting"
  BY RollUpSays
<1>2. pressed \subseteq Bound
  OBVIOUS
<1>3. ASSUME NEW a \in Bound
      PROVE  a \in pressed <=> Listed(a) # {} \/ ChildrenOf(a) \cap pressed # {}
  <2>1. ChildrenOf(a) \subseteq Bound
    BY DEF ChildrenOf
  <2>2. \A b : b \in Subtree(a) <=> b = a \/ \E c \in ChildrenOf(a) : b \in Subtree(c)
    BY SubtreeUnfolds
  <2>3. ChildrenOf(a) \cap pressed # {} <=>
          \E c \in ChildrenOf(a) : \E b \in Subtree(c) : agent[b].status = "waiting"
    <3>. HIDE DEF pressed
    <3>. QED BY <1>1, <2>1
  <2>4. Listed(a) # {} <=> agent[a].status = "waiting"
    BY WaitingLists
  <2>. HIDE DEF pressed
  <2>. QED BY <1>1, <2>2, <2>3, <2>4
<1>4. ASSUME NEW q \in Pending
      PROVE  Root \in RequestPath(q) /\ RequestPath(q) \subseteq pressed
  <2>1. approval[q].agent \in Agents /\ agent[approval[q].agent].status = "waiting"
    BY DEF IInv, TypeInv, RequestInv, Pending
  <2>2. approval[q].agent \in Bound
    BY <2>1 DEF Bound
  <2>3. /\ Root \in Path(approval[q].agent)
        /\ \A b \in Path(approval[q].agent) : b \in Bound /\ approval[q].agent \in Subtree(b)
    BY <2>2, PathLeadsUp
  <2>. HIDE DEF pressed
  <2>. QED BY <1>1, <2>1, <2>3 DEF RequestPath
<1>. QED BY <1>3, <1>4 DEF RequestsAreFound

\* Between any two transactions the rows of a run agree, and whoever follows what
\* needs attention finds every request.
THEOREM RowsAlwaysAgree == Spec => []RowsAgree
<1>1. ASSUME IInv PROVE RowsAgree
  <2>. TypeInv /\ RunInv /\ RequestInv /\ TurnInv /\ Root \in Agents /\ Kids \subseteq Agents
    BY <1>1, RootIsNoKid DEF IInv
  <2>1. /\ run.status \in ActiveStatus \cup TerminalStatus /\ run.mutation \in Mutation
        /\ \A a \in Agents : agent[a].status \in {"absent"} \cup ActiveStatus \cup TerminalStatus
    BY DEF TypeInv, Statuses
  <2>2. run.status \in ActiveStatus <=> agent[Root].status \in ActiveStatus
    BY <2>1 DEF RunInv, Statuses, ActiveStatus, TerminalStatus
  <2>3. run.status = "waiting" <=> Pending # {}
    BY DEF RequestInv
  <2>4. Root \in Bound
    BY DEF RunInv, Bound, Statuses, ActiveStatus, TerminalStatus
  <2>5. RollUp(Root) = MostPressing({agent[b].status : b \in Bound})
    BY DEF RollUp
  <2>6. run.status = "waiting" <=> RollUp(Root) = "needs_attention"
    <3>1. RollUp(Root) = "needs_attention" <=> \E b \in Bound : agent[b].status = "waiting"
      BY <1>1, <2>4, RollUpSays, RootHasAll
    <3>2. \A q \in Pending : approval[q].agent \in Agents
      BY DEF Pending, TypeInv
    <3>. QED BY <3>1, <3>2 DEF RequestInv, Bound
  <2>7. ASSUME NEW a \in Agents
        PROVE  agent[a].status = "waiting" <=>
                 \E q \in Pending : approval[q].agent = a
                                    /\ (a # Root => turn[a][approval[q].turn] = "open")
    BY DEF RequestInv
  <2>8. ASSUME NEW k \in Kids
        PROVE  /\ Cardinality({t \in Turns : turn[k][t] = "open"}) <= 1
               /\ "open" \in {turn[k][t] : t \in Turns} =>
                    agent[k].status \in {"running", "waiting"}
    <3>. DEFINE O == {t \in Turns : turn[k][t] = "open"}
    <3>1. \A t, u \in O : t = u
      BY DEF TurnInv
    <3>2. IsFiniteSet(O)
      <4>1. CASE O = {}
        BY <4>1, FS_EmptySet
      <4>2. CASE O # {}
        <5>1. PICK t \in O : O = {t}
          BY <3>1, <4>2
        <5>. QED BY <5>1, FS_Singleton
      <4>. QED BY <4>1, <4>2
    <3>3. Cardinality(O) <= 1
      <4>. HIDE DEF O
      <4>. QED BY <3>1, <3>2, OneOrMore
    <3>. QED BY <3>3 DEF TurnInv, AtWork
  <2>9. run.status \in TerminalStatus => RollUp(Root) \notin {"needs_attention", "active"}
    <3>. SUFFICES ASSUME run.status \in TerminalStatus
                  PROVE  RollUp(Root) \notin {"needs_attention", "active"}
      OBVIOUS
    <3>1. \A b \in Bound : agent[b].status \notin ActiveStatus
      BY DEF RunInv, Bound
    <3>2. {agent[b].status : b \in Bound} \cap ActiveStatus = {}
      BY <3>1
    <3>3. \A S : S \cap ActiveStatus = {} => MostPressing(S) \notin {"needs_attention", "active"}
      BY DEF MostPressing, ActiveStatus
    <3>. QED BY <2>5, <3>2, <3>3
  <2>. QED BY <1>1, <2>1, <2>2, <2>3, <2>6, <2>7, <2>8, <2>9, EveryRequestIsFound DEF RowsAgree
<1>. QED BY <1>1, InductiveInvariant, PTL

=============================================================================
