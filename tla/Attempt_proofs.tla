--------------------------- MODULE Attempt_proofs ---------------------------
(***************************************************************************)
(* Proofs about Attempt for any set of requests, any capacity of the FIFO  *)
(* and any number of answers, steering texts, faults and panics.           *)
(***************************************************************************)
EXTENDS Attempt, TLAPS

\* What the run's row and its approvals say of each other.
DbInv ==
  /\ \A q \in Requests :
       LET a == db.approval[q] IN
       /\ a.status = "unasked" => a.intent = "none"
       /\ a.intent = "recorded" => a.status = "pending"
       /\ a.intent = "acknowledged" <=> a.status = "approved"
       /\ a.status = "pending" => db.run = "waiting"
       /\ a.status \in {"cancelled", "failed"} =>
            db.run \in {"interrupted", "failed"}
  /\ db.run = "waiting" =>
       \E q \in Requests : db.approval[q].status = "pending"

\* The request of a response job whose intent is recorded is being answered,
\* and the place of the job tells what the provider has seen.
JobIsTruthful ==
  LET q == resp.req IN
  resp.pc \in {"intended", "calling", "returned"} =>
    /\ db.approval[q].intent \in {"recorded", "unknown"}
    /\ resp.pc = "calling" => resp.result \in {"none", "sent"}
    /\ resp.pc = "returned" => resp.result \notin {"none", "sent"}
    /\ resp.result \in {"none", "not"} =>
         wire.answers[q] = 0 /\ q \notin wire.pipe
    /\ resp.result \in {"sent", "ok"} => wire.answers[q] = 1

AnswerInv ==
  /\ AnswersAreTruthful
  /\ \A q \in wire.pipe : wire.answers[q] = 0
  /\ JobIsTruthful

\* Selection in memory and in the database, and what closes the gap between
\* a durable acknowledgement and its clearing in memory.
Acking(q) == resp.req = q /\ resp.pc \in {"acked", "panicked"}

SelectInv ==
  /\ resp.pc = "acked" => db.approval[resp.req].intent = "acknowledged"
  /\ \A q \in Requests :
       /\ db.approval[q].status = "pending" => shared.pending = q
       /\ shared.pending = q =>
            /\ db.approval[q].status # "unasked"
            /\ \/ db.approval[q].status = "pending"
               \/ db.run \in Terminal
               \/ Acking(q)
               \/ root.pc \in {"failed", "gone"}

\* The execution of a slot follows its job, except that a job not yet begun
\* may have been cancelled.
SlotInv ==
  /\ resp.pc # "none" => resp.req \in Requests
  /\ resp.pc \in {"queued", "spawned", "begun", "intended"} =>
       resp.result = "none"
  /\ resp.pc = "none" <=> exec["response"] = "none"
  /\ resp.pc \in {"queued", "spawned"} =>
       exec["response"] \in {"pending", "finished"}
  /\ resp.pc \in {"begun", "intended", "calling", "returned", "acked"} =>
       exec["response"] = "executing"
  /\ steer.pc = "none" <=> exec["steering"] = "none"
  /\ steer.pc \in {"queued", "spawned"} =>
       exec["steering"] \in {"pending", "finished"}
  /\ steer.pc \in {"begun", "calling", "returned"} =>
       exec["steering"] = "executing"

Answering == resp.pc \in {"intended", "calling", "returned", "acked"}
Steering  == steer.pc \in {"calling", "returned"}

\* Finalization has stopped new calls, and has awaited or awaits those that
\* were under way; only it gives an owned run its outcome.
PhaseInv ==
  /\ root.pc = "enqueue" => root.event \in Requests
  /\ root.pc \in {"settle", "close", "record", "returned", "gone"} => shared.done
  /\ mgr.pc = "settle" => root.pc = "failed" /\ shared.done
  /\ root.pc = "settle" \/ mgr.pc = "settle" =>
       /\ Answering => "response" \in awaits
       /\ Steering => "steering" \in awaits
  /\ root.pc \in {"close", "record", "returned", "gone"} => ~Answering /\ ~Steering
  /\ root.pc = "returned" => db.run \in Terminal
  /\ db.run \in Terminal /\ db.owned => root.pc \in {"returned", "gone"}

IInv == TypeOK /\ DbInv /\ AnswerInv /\ SelectInv /\ SlotInv /\ PhaseInv

\* RootFinishes stays in the types.
LEMMA RootFinishesType ==
  ASSUME root \in RootTask, shared \in ActiveRun,
         NEW f \in {"stopped", "error"} \cup Terminal, RootFinishes(f)
  PROVE  root' \in RootTask /\ shared' \in ActiveRun /\ awaits' \in SUBSET Controls
  <1>1. <<>> \in Seq(Requests)
    OBVIOUS
  <1>2. root' \in RootTask
    BY <1>1 DEF RootFinishes, RootTask
  <1>3. shared' \in ActiveRun
    BY DEF RootFinishes, Signalled, ActiveRun
  <1>. QED  BY <1>2, <1>3 DEF RootFinishes, Occupied

\* What a terminal status makes of each approval.
LEMMA ClosedType ==
  ASSUME db \in RunRow, NEW r \in {"cancelled", "failed"}
  PROVE  /\ ClosedApprovals(r) \in [Requests -> ApprovalRow]
         /\ \A q \in Requests :
              LET a == db.approval[q]  b == ClosedApprovals(r)[q] IN
              /\ a.status # "pending" => b = a
              /\ a.status = "pending" =>
                   /\ b.status = r
                   /\ b.intent = IF a.intent = "recorded" THEN "unknown"
                                                          ELSE a.intent
  <1>1. \A q \in Requests : db.approval[q] \in ApprovalRow
    BY DEF RunRow
  <1>2. \A a \in ApprovalRow :
          [status |-> r,
           intent |-> IF a.intent = "recorded" THEN "unknown" ELSE a.intent]
            \in ApprovalRow
    BY DEF ApprovalRow
  <1>. QED  BY <1>1, <1>2 DEF ClosedApprovals

\* The fields of the row after EndRun.
LEMMA RunEnds ==
  ASSUME db \in RunRow, NEW s \in Terminal, NEW r \in {"cancelled", "failed"},
         EndRun(s, r)
  PROVE  /\ db' \in RunRow
         /\ db'.run = s /\ db'.owned = db.owned
         /\ db'.approval = ClosedApprovals(r)
  BY ClosedType DEF EndRun, RunRow, RunStatus

\* Rejecting an intent changes that intent and nothing else.
LEMMA IntentSettles ==
  ASSUME db \in RunRow, NEW q \in Requests, NEW i \in {"rejected", "unknown"},
         RejectIntent(q, i)
  PROVE  /\ db' \in RunRow
         /\ db'.run = db.run /\ db'.owned = db.owned
         /\ \A p \in Requests : p # q => db'.approval[p] = db.approval[p]
         /\ db'.approval[q].status = db.approval[q].status
         /\ db'.approval[q].intent = i
  BY DEF RejectIntent, RunRow, ApprovalRow

\* A rejection that may fail is a rejection or changes nothing.
LEMMA Rejection ==
  ASSUME db \in RunRow, left \in Budget, NEW q \in Requests,
         NEW i \in {"rejected", "unknown"}, TryReject(q, i)
  PROVE  /\ db' \in RunRow /\ left' \in Budget
         /\ UNCHANGED db \/ (MayReject(q) /\ RejectIntent(q, i))
  BY IntentSettles DEF TryReject, Commits, WriteFails, Fault, Budget

\* Selecting a request either selects it everywhere or ends the loop.
LEMMA Selects ==
  ASSUME TypeOK, NEW q \in Requests, NEW rest \in Seq(Requests), SelectRequest(q, rest)
  PROVE  /\ db' \in RunRow /\ shared' \in ActiveRun /\ root' \in RootTask /\ left' \in Budget
         /\ awaits' \in SUBSET Controls
         /\ UNCHANGED <<resp, steer, exec, mgr, wire>>
         /\ \/ /\ db.run = "running" /\ db'.run = "waiting" /\ db.owned /\ db'.owned
               /\ db.approval[q].status = "unasked"
               /\ db'.approval[q].status = "pending"
               /\ db'.approval[q].intent = db.approval[q].intent
               /\ \A p \in Requests : p # q => db'.approval[p] = db.approval[p]
               /\ shared'.pending = q /\ shared'.done = shared.done
               /\ root'.pc = root.pc /\ UNCHANGED awaits
            \/ RootFinishes("error") /\ UNCHANGED db
  <1>1. CASE RootFinishes("error") /\ (WriteFails \/ Commits)
    <2>1. left' \in Budget
      BY <1>1 DEF WriteFails, Commits, Fault, Budget, TypeOK
    <2>. QED  BY <1>1, <2>1, RootFinishesType DEF RootFinishes, TypeOK
  <1>2. CASE /\ Commits /\ db.run = "running" /\ db.approval[q].status = "unasked"
             /\ db' = [db EXCEPT !.run = "waiting", !.approval[q].status = "pending"]
             /\ shared' = [shared EXCEPT !.pending = q]
             /\ root' = [root EXCEPT !.queue = rest]
             /\ UNCHANGED <<resp, steer, exec, awaits, mgr, wire>>
    <2>1. /\ db' \in RunRow /\ db'.run = "waiting" /\ db'.owned = db.owned
          /\ db'.approval[q].status = "pending"
          /\ db'.approval[q].intent = db.approval[q].intent
          /\ \A p \in Requests : p # q => db'.approval[p] = db.approval[p]
      BY <1>2 DEF TypeOK, RunRow, RunStatus, ApprovalRow
    <2>2. shared' \in ActiveRun /\ shared'.pending = q /\ shared'.done = shared.done
      BY <1>2 DEF TypeOK, ActiveRun
    <2>3. root' \in RootTask /\ root'.pc = root.pc
      BY <1>2 DEF TypeOK, RootTask
    <2>4. left' \in Budget /\ db.owned
      BY <1>2 DEF TypeOK, Commits
    <2>. QED  BY <1>2, <2>1, <2>2, <2>3, <2>4 DEF TypeOK
  <1>. QED  BY <1>1, <1>2 DEF SelectRequest

\* The queue holds requests.
LEMMA Queued ==
  ASSUME root \in RootTask, root.queue # <<>>
  PROVE  Head(root.queue) \in Requests /\ Tail(root.queue) \in Seq(Requests)
  <1>1. root.queue \in Seq(Requests)
    BY DEF RootTask
  <1>. QED  BY <1>1

\* The row after an acknowledgement.
LEMMA Ackd ==
  ASSUME db \in RunRow, NEW q \in Requests,
         db' = [db EXCEPT
                   !.approval[q] = [status |-> "approved",
                                    intent |-> "acknowledged"],
                   !.run = IF \E p \in Requests \ {q} :
                                db.approval[p].status = "pending"
                           THEN @ ELSE "running"]
  PROVE /\ db' \in RunRow /\ db'.owned = db.owned
        /\ db'.run = IF \E p \in Requests \ {q} :
                                db.approval[p].status = "pending"
                           THEN db.run ELSE "running"
        /\ db'.approval[q].status = "approved"
        /\ db'.approval[q].intent = "acknowledged"
        /\ \A p \in Requests : p # q => db'.approval[p] = db.approval[p]
  <1>1. [status |-> "approved", intent |-> "acknowledged"] \in ApprovalRow
    BY DEF ApprovalRow
  <1>2. db.approval \in [Requests -> ApprovalRow]
    BY DEF RunRow
  <1>. QED BY <1>1, <1>2 DEF RunRow, RunStatus, Terminal

\* The wire's history stays in its type.
LEMMA WireType ==
  ASSUME wire \in Wire, NEW q \in Requests
  PROVE  /\ [wire EXCEPT !.pipe = @ \cup {q}] \in Wire
         /\ [wire EXCEPT !.pipe = @ \ {q}, !.answers[q] = @ + 1] \in Wire
         /\ [wire EXCEPT !.answers[q] = @ + 1] \in Wire
  <1>1. [wire.answers EXCEPT ![q] = @ + 1] \in [Requests -> Nat]
    BY DEF Wire
  <1>2. [wire EXCEPT !.pipe = @ \cup {q}] \in Wire
    BY DEF Wire
  <1>3. [wire EXCEPT !.answers = [wire.answers EXCEPT ![q] = @ + 1]] \in Wire
    BY <1>1 DEF Wire
  <1>4. [wire EXCEPT !.pipe = wire.pipe \ {q},
                     !.answers = [wire.answers EXCEPT ![q] = @ + 1]] \in Wire
    BY <1>1 DEF Wire
  <1>5. \A S : [wire EXCEPT !.pipe = S].answers = wire.answers
    BY DEF Wire
  <1>. QED  BY <1>2, <1>3, <1>4, <1>5

\* Freeing slots stays in the types.
LEMMA FreeSlotsType ==
  ASSUME TypeOK, NEW S \in SUBSET Controls, FreeSlots(S)
  PROVE  /\ exec' \in [Controls -> ControlExecution]
         /\ awaits' \in SUBSET Controls
         /\ resp' \in ResponseJob
         /\ steer' \in SteeringJob
  BY DEF TypeOK, FreeSlots, ControlExecution, ResponseJob, NoResponse,
         SteeringJob, NoSteering

\* Type preservation, the root task.
LEMMA RootTypes ==
  ASSUME IInv, TypeOK, AnswerInv, SlotInv, PhaseInv,
    \/ RootStops
    \/ RootParks
    \/ RootWakes
    \/ RootSeesClosedStream
    \/ EnqueueRequest
    \/ PublishQueued
    \/ SettleControl
    \/ RootReviews
    \/ RootRecords
    \/ \E a \in BOOLEAN : \E b \in BOOLEAN : RootClosesTurn(a, b)
  PROVE  TypeOK'
  <1>1. CASE RootStops
    <2>1. RootFinishes("stopped") /\ UNCHANGED left
      BY <1>1 DEF RootStops
    <2>2. "stopped" \in {"stopped", "error"} \cup Terminal
      BY <1>1 DEF Terminal, ProviderTerminal
    <2>. QED  BY <2>1, <2>2, RootFinishesType DEF TypeOK, RootFinishes
  <1>2. CASE RootParks
    <2>1. root' \in RootTask
      BY <1>2 DEF TypeOK, RootParks, RootTask, Terminal, ProviderTerminal
    <2>. QED  BY <1>2, <2>1 DEF TypeOK, RootParks
  <1>3. CASE RootWakes
    <2>1. shared' \in ActiveRun /\ root' \in RootTask
      BY <1>3 DEF TypeOK, RootWakes, ActiveRun, RootTask, Terminal,
                          ProviderTerminal
    <2>. QED  BY <1>3, <2>1 DEF TypeOK, RootWakes
  <1>4. CASE RootSeesClosedStream
    <2>1. RootFinishes("failed") /\ UNCHANGED left
      BY <1>4 DEF RootSeesClosedStream
    <2>2. "failed" \in {"stopped", "error"} \cup Terminal
      BY <1>4 DEF Terminal, ProviderTerminal
    <2>. QED  BY <2>1, <2>2, RootFinishesType DEF TypeOK, RootFinishes
  <1>5. CASE EnqueueRequest
    <2>1. CASE RootFinishes("failed")
      BY <1>5, <2>1, RootFinishesType
         DEF TypeOK, EnqueueRequest, RootFinishes, Terminal
    <2>2. CASE ~RootFinishes("failed")
      <3>1. /\ root' = [root EXCEPT !.pc = "loop", !.event = NoRequest,
                                   !.queue = Append(@, root.event)]
            /\ UNCHANGED <<db, shared, resp, steer, exec, awaits, mgr, wire, left>>
        BY <1>5, <2>2 DEF EnqueueRequest
      <3>2. Append(root.queue, root.event) \in Seq(Requests)
        BY <1>5 DEF TypeOK, PhaseInv, RootTask, EnqueueRequest
      <3>3. root' \in RootTask
        BY <3>1, <3>2 DEF TypeOK, RootTask
      <3>. QED  BY <3>1, <3>3 DEF TypeOK
    <2>. QED  BY <2>1, <2>2
  <1>6. CASE PublishQueued
    <2>. QED  BY <1>6, Queued, Selects DEF TypeOK, PublishQueued
  <1>7. CASE SettleControl
    <2>1. /\ exec' \in [Controls -> ControlExecution]
          /\ awaits' \in SUBSET Controls
      BY <1>7 DEF TypeOK, SettleControl, ControlExecution, Controls
    <2>. QED  BY <1>7, <2>1 DEF TypeOK, SettleControl
  <1>8. CASE RootReviews
    <2>1. shared' \in ActiveRun
      BY <1>8 DEF TypeOK, RootReviews, ProviderTerminal, Cleared, Fault,
                          ActiveRun
    <2>2. root' \in RootTask
      BY <1>8 DEF TypeOK, RootReviews, ProviderTerminal, Cleared, Fault,
                          RootTask, Terminal
    <2>3. left' \in Budget
      BY <1>8 DEF TypeOK, RootReviews, ProviderTerminal, Cleared, Fault,
                          Budget
    <2>. QED  BY <1>8, <2>1, <2>2, <2>3 DEF TypeOK, RootReviews
  <1>9. CASE RootRecords
    <2>1. db' \in RunRow
      BY <1>9, RunEnds DEF TypeOK, RootRecords, Terminal
    <2>2. root' \in RootTask /\ left' \in Budget
      BY <1>9 DEF TypeOK, RootRecords, RootTask, Commits, WriteFails, Fault, Budget
    <2>. QED  BY <1>9, <2>1, <2>2 DEF TypeOK, RootRecords
  <1>10. ASSUME NEW a \in BOOLEAN, NEW b \in BOOLEAN, RootClosesTurn(a, b) PROVE TypeOK'
    <2>1. root' \in RootTask
      BY <1>10 DEF TypeOK, RootClosesTurn, ProviderTerminal, RootTask,
                           Terminal
    <2>. QED  BY <1>10, <2>1 DEF TypeOK, RootClosesTurn
  <1>. QED  BY <1>1, <1>2, <1>3, <1>4, <1>5, <1>6, <1>7, <1>8, <1>9, <1>10

\* Type preservation, the provider's events.
LEMMA EventTypes ==
  ASSUME IInv, TypeOK, AnswerInv, SlotInv, PhaseInv,
    \/ \E q \in Requests : ReceiveRequest(q)
    \/ \E q \in Requests : PublishReceived(q)
    \/ \E s \in ProviderTerminal : ReceiveTerminal(s)
    \/ ReceiveError
    \/ ReceiveClose
    \/ ReceiveUnrecordable
  PROVE  TypeOK'
  <1>1. ASSUME NEW q \in Requests, ReceiveRequest(q) PROVE TypeOK'
    <2>1. root' \in RootTask
      BY <1>1 DEF TypeOK, ReceiveRequest, Listening, RootTask, Terminal,
                          ProviderTerminal
    <2>. QED  BY <1>1, <2>1 DEF TypeOK, ReceiveRequest
  <1>2. ASSUME NEW q \in Requests, PublishReceived(q) PROVE TypeOK'
    <2>1. <<>> \in Seq(Requests)
      OBVIOUS
    <2>. QED  BY <1>2, <2>1, Selects DEF TypeOK, PublishReceived
  <1>3. ASSUME NEW s \in ProviderTerminal, ReceiveTerminal(s) PROVE TypeOK'
    <2>1. RootFinishes(s) /\ UNCHANGED left
      BY <1>3 DEF ReceiveTerminal
    <2>2. s \in {"stopped", "error"} \cup Terminal
      BY <1>3 DEF Terminal, ProviderTerminal
    <2>. QED  BY <2>1, <2>2, RootFinishesType DEF TypeOK, RootFinishes
  <1>4. CASE ReceiveError
    <2>1. RootFinishes("failed") /\ UNCHANGED left
      BY <1>4 DEF ReceiveError
    <2>2. "failed" \in {"stopped", "error"} \cup Terminal
      BY <1>4 DEF Terminal, ProviderTerminal
    <2>. QED  BY <2>1, <2>2, RootFinishesType DEF TypeOK, RootFinishes
  <1>5. CASE ReceiveClose
    <2>1. CASE RootFinishes("failed")
      BY <1>5, <2>1, RootFinishesType
         DEF TypeOK, ReceiveClose, RootFinishes, Terminal
    <2>2. CASE ~RootFinishes("failed")
      <3>1. root' \in RootTask
        BY <1>5, <2>2 DEF TypeOK, ReceiveClose, RootTask
      <3>. QED  BY <1>5, <2>2, <3>1 DEF TypeOK, ReceiveClose
    <2>. QED  BY <2>1, <2>2
  <1>6. CASE ReceiveUnrecordable
    <2>1. left' \in Budget
      BY <1>6 DEF TypeOK, ReceiveUnrecordable, WriteFails, Fault, Budget
    <2>. QED  BY <1>6, <2>1, RootFinishesType
              DEF TypeOK, ReceiveUnrecordable, RootFinishes
  <1>. QED  BY <1>1, <1>2, <1>3, <1>4, <1>5, <1>6

\* Type preservation, the response job.
LEMMA ResponseTypes ==
  ASSUME IInv, TypeOK, AnswerInv, SlotInv, PhaseInv,
    \/ ResponseBegins
    \/ ResponseRecordsIntent
    \/ ResponseFences
    \/ \E r \in {"ok", "not", "may", "cancelled"} : ResponseReturns(r)
    \/ AnswerReachesProvider
    \/ \E q \in Requests : AbandonedAnswerReachesProvider(q)
    \/ ResponseIsRefused
    \/ ResponseIsAcknowledged
    \/ ResponseClears
  PROVE  TypeOK'
  <1>1. CASE ResponseBegins
    <2>1. resp' \in ResponseJob /\ exec' \in [Controls -> ControlExecution]
      BY <1>1 DEF TypeOK, ResponseBegins, ResponseEnds, ResponseJob,
                          NoResponse, ControlExecution, Controls
    <2>. QED  BY <1>1, <2>1 DEF TypeOK, ResponseBegins
  <1>2. CASE ResponseRecordsIntent
    <2>1. /\ db' \in RunRow
          /\ shared' \in ActiveRun
          /\ resp' \in ResponseJob
          /\ exec' \in [Controls -> ControlExecution]
          /\ left' \in Budget
      BY <1>2 DEF TypeOK, ResponseRecordsIntent, Stopping, Commits,
                          WriteFails, Fault, ResponseEnds, RunRow,
                          ApprovalRow, RunStatus, Terminal, ActiveRun,
                          ResponseJob, NoResponse, ControlExecution,
                          Controls, Budget
    <2>. QED  BY <1>2, <2>1 DEF TypeOK, ResponseRecordsIntent
  <1>3. CASE ResponseFences
    <2>1. db' \in RunRow
      BY <1>3 DEF TypeOK, ResponseFences, Stopping, TryReject, Commits,
                          MayReject, RejectIntent, WriteFails, Fault,
                          ResponseEnds, RunRow, ApprovalRow, RunStatus,
                          Terminal
    <2>2. shared' \in ActiveRun
      BY <1>3 DEF TypeOK, ResponseFences, Stopping, TryReject, Commits,
                          MayReject, RejectIntent, WriteFails, Fault,
                          ResponseEnds, ActiveRun
    <2>3. resp' \in ResponseJob
      BY <1>3 DEF TypeOK, ResponseFences, Stopping, TryReject, Commits,
                          MayReject, RejectIntent, WriteFails, Fault,
                          ResponseEnds, ResponseJob, NoResponse
    <2>4. exec' \in [Controls -> ControlExecution]
      BY <1>3 DEF TypeOK, ResponseFences, Stopping, TryReject, Commits,
                          MayReject, RejectIntent, WriteFails, Fault,
                          ResponseEnds, ControlExecution, Controls
    <2>5. left' \in Budget
      BY <1>3 DEF TypeOK, ResponseFences, Stopping, TryReject, Commits,
                          MayReject, RejectIntent, WriteFails, Fault,
                          ResponseEnds, Budget
    <2>. QED  BY <1>3, <2>1, <2>2, <2>3, <2>4, <2>5 DEF TypeOK,
                 ResponseFences, TryReject
  <1>4. ASSUME NEW r \in {"ok", "not", "may", "cancelled"}, ResponseReturns(r) PROVE TypeOK'
    <2>1. wire' \in Wire
      BY <1>4, WireType DEF TypeOK, SlotInv, ResponseReturns
    <2>2. resp' \in ResponseJob
      BY <1>4 DEF TypeOK, ResponseReturns, ResponseJob
    <2>. QED  BY <1>4, <2>1, <2>2 DEF TypeOK, ResponseReturns
  <1>5. CASE AnswerReachesProvider
    <2>1. resp' \in ResponseJob /\ wire' \in Wire
      BY <1>5 DEF TypeOK, AnswerReachesProvider, ResponseJob, NoResponse,
                          Wire
    <2>. QED  BY <1>5, <2>1 DEF TypeOK, AnswerReachesProvider
  <1>6. ASSUME NEW q \in Requests, AbandonedAnswerReachesProvider(q) PROVE TypeOK'
    <2>1. wire' \in Wire
      BY <1>6, WireType DEF TypeOK, AbandonedAnswerReachesProvider
    <2>. QED  BY <1>6, <2>1 DEF TypeOK, AbandonedAnswerReachesProvider
  <1>7. CASE ResponseIsRefused
    <2>1. db' \in RunRow
      BY <1>7, Rejection
         DEF TypeOK, SlotInv, ResponseIsRefused, RefusedIntent
    <2>2. shared' \in ActiveRun
      BY <1>7 DEF TypeOK, ResponseIsRefused, Stopping, TryReject, Commits,
                          MayReject, RejectIntent, WriteFails, Fault,
                          RefusedIntent, Cleared, ResponseEnds, ActiveRun
    <2>3. resp' \in ResponseJob
      BY <1>7 DEF TypeOK, ResponseIsRefused, Stopping, TryReject, Commits,
                          MayReject, RejectIntent, WriteFails, Fault,
                          RefusedIntent, Cleared, ResponseEnds, ResponseJob,
                          NoResponse
    <2>4. exec' \in [Controls -> ControlExecution]
      BY <1>7 DEF TypeOK, ResponseIsRefused, Stopping, TryReject, Commits,
                          MayReject, RejectIntent, WriteFails, Fault,
                          RefusedIntent, Cleared, ResponseEnds,
                          ControlExecution, Controls
    <2>5. left' \in Budget
      BY <1>7 DEF TypeOK, ResponseIsRefused, Stopping, TryReject, Commits,
                          MayReject, RejectIntent, WriteFails, Fault,
                          RefusedIntent, Cleared, ResponseEnds, Budget
    <2>. QED  BY <1>7, <2>1, <2>2, <2>3, <2>4, <2>5 DEF TypeOK,
                 ResponseIsRefused, TryReject
  <1>8. CASE ResponseIsAcknowledged
    <2>1. db' \in RunRow
      BY <1>8, Ackd DEF TypeOK, SlotInv, ResponseIsAcknowledged
    <2>2. shared' \in ActiveRun
      BY <1>8 DEF TypeOK, ResponseIsAcknowledged, MayReject, Stopping,
                          Commits, WriteFails, Fault, Cleared, ResponseEnds,
                          ActiveRun
    <2>3. resp' \in ResponseJob
      BY <1>8 DEF TypeOK, ResponseIsAcknowledged, MayReject, Stopping,
                          Commits, WriteFails, Fault, Cleared, ResponseEnds,
                          ResponseJob, NoResponse
    <2>4. exec' \in [Controls -> ControlExecution]
      BY <1>8 DEF TypeOK, ResponseIsAcknowledged, MayReject, Stopping,
                          Commits, WriteFails, Fault, Cleared, ResponseEnds,
                          ControlExecution, Controls
    <2>5. left' \in Budget
      BY <1>8 DEF TypeOK, ResponseIsAcknowledged, MayReject, Stopping,
                          Commits, WriteFails, Fault, Cleared, ResponseEnds,
                          Budget
    <2>. QED  BY <1>8, <2>1, <2>2, <2>3, <2>4, <2>5 DEF TypeOK,
                 ResponseIsAcknowledged
  <1>9. CASE ResponseClears
    <2>1. /\ shared' \in ActiveRun
          /\ resp' \in ResponseJob
          /\ exec' \in [Controls -> ControlExecution]
      BY <1>9 DEF TypeOK, ResponseClears, Cleared, ResponseEnds, ActiveRun,
                          ResponseJob, NoResponse, ControlExecution,
                          Controls
    <2>. QED  BY <1>9, <2>1 DEF TypeOK, ResponseClears
  <1>. QED  BY <1>1, <1>2, <1>3, <1>4, <1>5, <1>6, <1>7, <1>8, <1>9

\* Type preservation, the steering job.
LEMMA SteeringTypes ==
  ASSUME IInv, TypeOK, AnswerInv, SlotInv, PhaseInv,
    \/ SteeringBegins
    \/ SteeringFences
    \/ SteeringReachesProvider
    \/ \E a \in BOOLEAN : SteeringReturns(a)
    \/ SteeringCancelled
    \/ SteeringIsRecorded
  PROVE  TypeOK'
  <1>1. CASE SteeringBegins
    <2>1. steer' \in SteeringJob /\ exec' \in [Controls -> ControlExecution]
      BY <1>1 DEF TypeOK, SteeringBegins, SteeringEnds, SteeringJob,
                          NoSteering, ControlExecution, Controls
    <2>. QED  BY <1>1, <2>1 DEF TypeOK, SteeringBegins
  <1>2. CASE SteeringFences
    <2>1. /\ steer' \in SteeringJob
          /\ exec' \in [Controls -> ControlExecution]
          /\ left' \in Budget
      BY <1>2 DEF TypeOK, SteeringFences, Stopping, Commits, WriteFails,
                          Fault, SteeringEnds, SteeringJob, NoSteering,
                          ControlExecution, Controls, Budget
    <2>. QED  BY <1>2, <2>1 DEF TypeOK, SteeringFences
  <1>3. CASE SteeringReachesProvider
    <2>1. steer' \in SteeringJob /\ wire' \in Wire
      BY <1>3 DEF TypeOK, SteeringReachesProvider, SteeringJob, NoSteering,
                          Wire
    <2>. QED  BY <1>3, <2>1 DEF TypeOK, SteeringReachesProvider
  <1>4. ASSUME NEW a \in BOOLEAN, SteeringReturns(a) PROVE TypeOK'
    <2>1. steer' \in SteeringJob /\ exec' \in [Controls -> ControlExecution]
      BY <1>4 DEF TypeOK, SteeringReturns, SteeringEnds, SteeringJob,
                          NoSteering, ControlExecution, Controls
    <2>. QED  BY <1>4, <2>1 DEF TypeOK, SteeringReturns
  <1>5. CASE SteeringCancelled
    <2>1. steer' \in SteeringJob /\ exec' \in [Controls -> ControlExecution]
      BY <1>5 DEF TypeOK, SteeringCancelled, Stopping, SteeringEnds,
                          SteeringJob, NoSteering, ControlExecution,
                          Controls
    <2>. QED  BY <1>5, <2>1 DEF TypeOK, SteeringCancelled
  <1>6. CASE SteeringIsRecorded
    <2>1. /\ steer' \in SteeringJob
          /\ exec' \in [Controls -> ControlExecution]
          /\ wire' \in Wire
          /\ left' \in Budget
      BY <1>6 DEF TypeOK, SteeringIsRecorded, Commits, WriteFails, Fault,
                          SteeringEnds, SteeringJob, NoSteering,
                          ControlExecution, Controls, Wire, Budget
    <2>. QED  BY <1>6, <2>1 DEF TypeOK, SteeringIsRecorded
  <1>. QED  BY <1>1, <1>2, <1>3, <1>4, <1>5, <1>6

\* Type preservation, the manager.
LEMMA ManagerTypes ==
  ASSUME IInv, TypeOK, AnswerInv, SlotInv, PhaseInv,
    \/ SpawnControl
    \/ JoinControl
    \/ JoinPanickedResponse
    \/ AbandonPanickedResponse
    \/ ManagerGetsTurn
    \/ JoinRoot
    \/ ReconcileRoot
  PROVE  TypeOK'
  <1>1. CASE SpawnControl
    <2>1. resp' \in ResponseJob /\ steer' \in SteeringJob
      BY <1>1 DEF TypeOK, SpawnControl, ResponseJob, NoResponse,
                          SteeringJob, NoSteering
    <2>. QED  BY <1>1, <2>1 DEF TypeOK, SpawnControl
  <1>2. CASE JoinControl
    <2>1. /\ resp' \in ResponseJob /\ steer' \in SteeringJob
          /\ exec' \in [Controls -> ControlExecution]
          /\ awaits' \in SUBSET Controls
      BY <1>2, FreeSlotsType DEF JoinControl, Controls
    <2>. QED  BY <1>2, <2>1 DEF TypeOK, JoinControl
  <1>3. CASE JoinPanickedResponse
    <2>1. /\ resp' \in ResponseJob /\ steer' \in SteeringJob
          /\ exec' \in [Controls -> ControlExecution]
          /\ awaits' \in SUBSET Controls
      BY <1>3, FreeSlotsType DEF JoinPanickedResponse, Controls
    <2>2. db' \in RunRow /\ left' \in Budget
      BY <1>3, Rejection DEF TypeOK, SlotInv, JoinPanickedResponse
    <2>3. shared' \in ActiveRun
      BY <1>3 DEF TypeOK, JoinPanickedResponse, Cleared, ActiveRun
    <2>. QED  BY <1>3, <2>1, <2>2, <2>3 DEF TypeOK, JoinPanickedResponse
  <1>4. CASE AbandonPanickedResponse
    <2>1. shared' \in ActiveRun
      BY <1>4 DEF TypeOK, AbandonPanickedResponse, Fault, Signalled,
                          ActiveRun
    <2>2. mgr' \in Manager
      BY <1>4 DEF TypeOK, AbandonPanickedResponse, Fault, Signalled, Manager
    <2>3. left' \in Budget
      BY <1>4 DEF TypeOK, AbandonPanickedResponse, Fault, Signalled, Budget
    <2>. QED  BY <1>4, <2>1, <2>2, <2>3 DEF TypeOK, AbandonPanickedResponse
  <1>5. CASE ManagerGetsTurn
    <2>1. /\ resp' \in ResponseJob /\ steer' \in SteeringJob
          /\ exec' \in [Controls -> ControlExecution]
          /\ awaits' \in SUBSET Controls
      BY <1>5, FreeSlotsType DEF ManagerGetsTurn, Controls
    <2>2. mgr' \in Manager
      BY <1>5 DEF TypeOK, ManagerGetsTurn, Manager
    <2>. QED  BY <1>5, <2>1, <2>2 DEF TypeOK, ManagerGetsTurn
  <1>6. CASE JoinRoot
    <2>1. shared' \in ActiveRun
      BY <1>6 DEF TypeOK, JoinRoot, Signalled, ActiveRun
    <2>2. root' \in RootTask
      BY <1>6 DEF TypeOK, JoinRoot, RootTask
    <2>3. awaits' \in SUBSET Controls
      BY <1>6 DEF TypeOK, JoinRoot, Occupied, Controls
    <2>4. mgr' \in Manager
      BY <1>6 DEF TypeOK, JoinRoot, Manager
    <2>. QED  BY <1>6, <2>1, <2>2, <2>3, <2>4 DEF TypeOK, JoinRoot
  <1>7. CASE ReconcileRoot
    <2>1. db' \in RunRow
      BY <1>7, RunEnds DEF TypeOK, ReconcileRoot, Terminal
    <2>2. root' \in RootTask /\ mgr' \in Manager /\ left' \in Budget
      BY <1>7 DEF TypeOK, ReconcileRoot, RootTask, Manager, Commits,
                  WriteFails, Fault, Budget
    <2>. QED  BY <1>7, <2>1, <2>2 DEF TypeOK, ReconcileRoot
  <1>. QED  BY <1>1, <1>2, <1>3, <1>4, <1>5, <1>6, <1>7

\* Type preservation, callers, other processes and panics.
LEMMA EnvironmentTypes ==
  ASSUME IInv, TypeOK, AnswerInv, SlotInv, PhaseInv,
    \/ \E q \in Requests : Respond(q)
    \/ Steer
    \/ Interrupt
    \/ LoseOwnership
    \/ ForeignInterrupt
    \/ RenewalFails
    \/ CloseSupervisor
    \/ RootDies
    \/ ResponsePanics
    \/ SteeringPanics
  PROVE  TypeOK'
  <1>1. ASSUME NEW q \in Requests, Respond(q) PROVE TypeOK'
    <2>1. resp' \in ResponseJob /\ exec' \in [Controls -> ControlExecution]
      BY <1>1 DEF TypeOK, Respond, NoResponse, ResponseJob, ControlExecution,
                  Controls
    <2>2. /\ left \in Budget /\ left.answers > 0
          /\ left' = [left EXCEPT !.answers = @ - 1]
      BY <1>1 DEF TypeOK, Respond
    <2>3. left' \in Budget
      BY <2>2 DEF Budget
    <2>. QED  BY <1>1, <2>1, <2>3 DEF TypeOK, Respond
  <1>2. CASE Steer
    <2>1. /\ steer' \in SteeringJob
          /\ exec' \in [Controls -> ControlExecution]
          /\ left' \in Budget
      BY <1>2 DEF TypeOK, Steer, Stopping, SteeringJob, NoSteering,
                          ControlExecution, Controls, Budget
    <2>. QED  BY <1>2, <2>1 DEF TypeOK, Steer
  <1>3. CASE Interrupt
    <2>1. shared' \in ActiveRun
      BY <1>3 DEF TypeOK, Interrupt, Stop, ActiveRun
    <2>. QED  BY <1>3, <2>1 DEF TypeOK, Interrupt
  <1>4. CASE LoseOwnership
    <2>1. db' \in RunRow
      BY <1>4 DEF TypeOK, LoseOwnership, Terminal, RunRow, ApprovalRow,
                          RunStatus
    <2>. QED  BY <1>4, <2>1 DEF TypeOK, LoseOwnership
  <1>5. CASE ForeignInterrupt
    BY <1>5, RunEnds DEF TypeOK, ForeignInterrupt, Terminal
  <1>6. CASE RenewalFails
    <2>1. shared' \in ActiveRun
      BY <1>6 DEF TypeOK, RenewalFails, Stop, ActiveRun
    <2>. QED  BY <1>6, <2>1 DEF TypeOK, RenewalFails
  <1>7. CASE CloseSupervisor
    <2>1. /\ resp' \in ResponseJob /\ steer' \in SteeringJob
          /\ exec' \in [Controls -> ControlExecution]
          /\ awaits' \in SUBSET Controls
      BY <1>7, FreeSlotsType DEF CloseSupervisor
    <2>2. mgr' \in Manager /\ shared' \in ActiveRun
      BY <1>7 DEF TypeOK, CloseSupervisor, Manager, Stop, ActiveRun
    <2>. QED  BY <1>7, <2>1, <2>2 DEF TypeOK, CloseSupervisor
  <1>8. CASE RootDies
    <2>1. <<>> \in Seq(Requests)
      OBVIOUS
    <2>2. root' \in RootTask
      BY <1>8, <2>1 DEF TypeOK, RootDies, RootTask
    <2>3. left' \in Budget
      BY <1>8 DEF TypeOK, RootDies, Budget
    <2>. QED  BY <1>8, <2>2, <2>3 DEF TypeOK, RootDies
  <1>9. CASE ResponsePanics
    <2>1. wire' \in Wire
      BY <1>9, WireType DEF TypeOK, SlotInv, ResponsePanics
    <2>2. /\ resp' \in ResponseJob
          /\ exec' \in [Controls -> ControlExecution]
          /\ shared' \in ActiveRun
          /\ left' \in Budget
      BY <1>9 DEF TypeOK, ResponsePanics, ResponseJob, ControlExecution,
                  Controls, ActiveRun, Budget
    <2>. QED  BY <1>9, <2>1, <2>2 DEF TypeOK, ResponsePanics
  <1>10. CASE SteeringPanics
    <2>1. /\ steer' \in SteeringJob
          /\ exec' \in [Controls -> ControlExecution]
          /\ left' \in Budget
      BY <1>10 DEF TypeOK, SteeringPanics, SteeringJob, NoSteering,
                           ControlExecution, Controls, Budget
    <2>. QED  BY <1>10, <2>1 DEF TypeOK, SteeringPanics
  <1>. QED  BY <1>1, <1>2, <1>3, <1>4, <1>5, <1>6, <1>7, <1>8, <1>9, <1>10

-----------------------------------------------------------------------------
(* The database. *)

Selected(q) ==
  /\ db.run = "running" /\ db'.run = "waiting" /\ db.owned /\ db'.owned
  /\ db.approval[q].status = "unasked"
  /\ db'.approval[q].status = "pending"
  /\ db'.approval[q].intent = db.approval[q].intent
  /\ \A p \in Requests : p # q => db'.approval[p] = db.approval[p]
  /\ shared'.pending = q /\ shared'.done = shared.done
  /\ root'.pc = root.pc /\ UNCHANGED awaits

Publish == PublishQueued \/ \E q \in Requests : PublishReceived(q)

\* A request that is published is selected, or the loop ends.
LEMMA Publishes ==
  ASSUME TypeOK, Publish
  PROVE  /\ root.pc = "loop" /\ shared.pending = NoRequest
         /\ UNCHANGED <<resp, steer, exec, mgr, wire>>
         /\ \/ \E q \in Requests : Selected(q)
            \/ RootFinishes("error") /\ UNCHANGED db
  <1>1. <<>> \in Seq(Requests)
    OBVIOUS
  <1>2. PICK q \in Requests, rest \in Seq(Requests) : SelectRequest(q, rest)
    BY <1>1, Queued DEF TypeOK, Publish, PublishQueued, PublishReceived
  <1>3. root.pc = "loop" /\ shared.pending = NoRequest
    BY DEF Publish, PublishQueued, PublishReceived, Listening
  <1>. QED  BY <1>2, <1>3, Selects DEF Selected

\* The writes of an outcome.
Ends == \/ EndRun("completed", "failed") /\
             \A q \in Requests : db.approval[q].status # "pending"
        \/ EndRun("failed", "failed")
        \/ EndRun("interrupted", "cancelled")

\* Whoever writes an outcome writes it to a run without one.
LEMMA EndingActions ==
  ASSUME RootRecords \/ ReconcileRoot \/ ForeignInterrupt
  PROVE  UNCHANGED db \/ (Ends /\ db.run \notin Terminal)
  <1>1. CASE RootRecords
    BY <1>1 DEF RootRecords, Ends, Terminal
  <1>2. CASE ReconcileRoot \/ ForeignInterrupt
    BY <1>2 DEF ReconcileRoot, ForeignInterrupt, Ends
  <1>. QED  BY <1>1, <1>2

\* An outcome keeps the row consistent.
LEMMA EndKeepsDb ==
  ASSUME TypeOK, DbInv, Ends, db.run \notin Terminal
  PROVE  DbInv'
  <1>1. PICK s \in Terminal, r \in {"cancelled", "failed"} :
          /\ EndRun(s, r)
          /\ s = "completed" => \A q \in Requests : db.approval[q].status # "pending"
    BY DEF Ends, Terminal
  <1>2. /\ db'.run = s /\ db'.approval = ClosedApprovals(r)
        /\ db' \in RunRow
    BY <1>1, RunEnds DEF TypeOK
  <1>3. ASSUME NEW q \in Requests
        PROVE  LET a == db'.approval[q] IN
               /\ a.status = "unasked" => a.intent = "none"
               /\ a.intent # "recorded" /\ a.status # "pending"
               /\ a.intent = "acknowledged" <=> a.status = "approved"
               /\ a.status \in {"cancelled", "failed"} =>
                    s \in {"interrupted", "failed"}
    <2>1. CASE db.approval[q].status # "pending"
      <3>1. db'.approval[q] = db.approval[q]
        BY <1>2, <2>1, ClosedType DEF TypeOK
      <3>. QED  BY <2>1, <3>1 DEF DbInv, Terminal
    <2>2. CASE db.approval[q].status = "pending"
      <3>1. /\ db'.approval[q].status = r
            /\ db'.approval[q].intent =
                 IF db.approval[q].intent = "recorded" THEN "unknown"
                 ELSE db.approval[q].intent
        BY <1>2, <2>2, ClosedType DEF TypeOK
      <3>2. s \in {"interrupted", "failed"}
        BY <1>1, <2>2 DEF Terminal
      <3>. QED  BY <2>2, <3>1, <3>2 DEF DbInv
    <2>. QED  BY <2>1, <2>2
  <1>. QED  BY <1>2, <1>3 DEF DbInv, Terminal

\* So does the rejection of an intent.
LEMMA RejectionKeepsDb ==
  ASSUME TypeOK, DbInv, NEW q \in Requests, NEW i \in {"rejected", "unknown"},
         MayReject(q), RejectIntent(q, i)
  PROVE  DbInv'
  BY IntentSettles DEF TypeOK, DbInv, MayReject

\* What a response job writes to the database.
LEMMA ResponseWrites ==
  ASSUME IInv,
         \/ ResponseFences \/ ResponseIsRefused \/ JoinPanickedResponse
  PROVE  /\ resp.req \in Requests
         /\ \/ UNCHANGED db
            \/ \E i \in {"rejected", "unknown"} :
                 /\ MayReject(resp.req) /\ RejectIntent(resp.req, i)
                 /\ i = "rejected" => resp.pc # "panicked"
                 /\ i = "rejected" /\ resp.pc = "returned" => resp.result = "not"
  <1>1. resp.req \in Requests
    BY DEF IInv, SlotInv, ResponseFences, ResponseIsRefused, JoinPanickedResponse
  <1>2. CASE ResponseFences
    BY <1>1, <1>2 DEF ResponseFences, TryReject
  <1>3. CASE ResponseIsRefused
    BY <1>1, <1>3 DEF ResponseIsRefused, RefusedIntent, TryReject
  <1>4. CASE JoinPanickedResponse
    BY <1>1, <1>4 DEF JoinPanickedResponse, TryReject
  <1>. QED  BY <1>1, <1>2, <1>3, <1>4

\* What recording an intent requires and leaves.
LEMMA IntentRecorded ==
  ASSUME IInv, ResponseRecordsIntent
  PROVE  LET q == resp.req IN
         /\ q \in Requests
         /\ \/ UNCHANGED <<db, shared>> /\ resp'.pc = "done"
            \/ /\ db.run = "waiting" /\ ~Stopping
               /\ db.approval[q].status = "pending"
               /\ db.approval[q].intent \in {"none", "rejected"}
               /\ resp' = [resp EXCEPT !.pc = "intended"]
               /\ shared' = [shared EXCEPT !.gate = "response"]
               /\ db'.run = db.run /\ db'.owned = db.owned
               /\ \A p \in Requests : p # q => db'.approval[p] = db.approval[p]
               /\ db'.approval[q].status = db.approval[q].status
               /\ db'.approval[q].intent = "recorded"
  <1>1. resp.req \in Requests
    BY DEF IInv, SlotInv, ResponseRecordsIntent
  <1>2. CASE db' = [db EXCEPT !.approval[resp.req].intent = "recorded"]
    BY <1>1, <1>2 DEF IInv, TypeOK, RunRow, ApprovalRow, ResponseJob,
                      ResponseRecordsIntent, ResponseEnds
  <1>3. CASE UNCHANGED <<db, shared>> /\ ResponseEnds
    BY <1>1, <1>3 DEF IInv, TypeOK, ResponseJob, ResponseEnds
  <1>. QED  BY <1>2, <1>3 DEF ResponseRecordsIntent

\* What acknowledging an answer requires and leaves.
LEMMA Acknowledged ==
  ASSUME IInv, ResponseIsAcknowledged
  PROVE  LET q == resp.req IN
         /\ q \in Requests
         /\ \/ UNCHANGED db /\ resp'.pc = "done" /\ shared' = Cleared(q, FALSE)
            \/ /\ db.run = "waiting" /\ MayReject(q) /\ resp.result = "ok"
               /\ resp' = [resp EXCEPT !.pc = "acked"]
               /\ shared' = [shared EXCEPT !.gate = "response"]
               /\ db'.owned = db.owned
               /\ db'.run = IF \E p \in Requests \ {q} :
                                 db.approval[p].status = "pending"
                            THEN "waiting" ELSE "running"
               /\ \A p \in Requests : p # q => db'.approval[p] = db.approval[p]
               /\ db'.approval[q].status = "approved"
               /\ db'.approval[q].intent = "acknowledged"
  <1>1. resp.req \in Requests
    BY DEF IInv, SlotInv, ResponseIsAcknowledged
  <1>2. CASE ResponseEnds /\ UNCHANGED db /\ shared' = Cleared(resp.req, FALSE)
    BY <1>1, <1>2 DEF IInv, TypeOK, ResponseJob, ResponseEnds
  <1>3. CASE resp' = [resp EXCEPT !.pc = "acked"]
    BY <1>1, <1>3, Ackd DEF IInv, TypeOK, ResponseJob, ResponseIsAcknowledged,
                            ResponseEnds
  <1>. QED  BY <1>2, <1>3 DEF ResponseIsAcknowledged

QuietDb ==
  \/ RootStops \/ RootParks \/ RootWakes \/ RootSeesClosedStream
  \/ EnqueueRequest \/ SettleControl \/ RootReviews
  \/ \E closed, shut \in BOOLEAN : RootClosesTurn(closed, shut)
  \/ \E q \in Requests : ReceiveRequest(q)
  \/ \E status \in ProviderTerminal : ReceiveTerminal(status)
  \/ ReceiveError \/ ReceiveClose \/ ReceiveUnrecordable \/ RootDies
  \/ ResponseBegins \/ ResponseClears \/ ResponsePanics
  \/ SteeringStep \/ AdapterStep \/ SteeringPanics
  \/ ResponseReturns("cancelled")
  \/ SpawnControl \/ JoinControl \/ AbandonPanickedResponse
  \/ ManagerGetsTurn \/ JoinRoot
  \/ \E q \in Requests : Respond(q)
  \/ Steer \/ Interrupt \/ RenewalFails \/ CloseSupervisor
  \/ UNCHANGED vars

\* Steps without a write.
LEMMA QuietKeepsDb == QuietDb => UNCHANGED db
  BY DEF QuietDb, RootStops, RootParks, RootWakes, RootSeesClosedStream,
         EnqueueRequest, SettleControl, RootReviews, RootClosesTurn,
         ReceiveRequest, ReceiveTerminal, ReceiveError, ReceiveClose,
         ReceiveUnrecordable, RootDies, RootFinishes, ResponseBegins,
         ResponseClears, ResponsePanics, SteeringStep, SteeringBegins,
         SteeringFences, SteeringCancelled, SteeringIsRecorded, AdapterStep,
         AnswerReachesProvider, SteeringReachesProvider, ResponseReturns,
         SteeringReturns, AbandonedAnswerReachesProvider, SteeringPanics,
         SpawnControl, JoinControl, AbandonPanickedResponse, ManagerGetsTurn,
         JoinRoot, Respond, Steer, Interrupt, RenewalFails, CloseSupervisor,
         vars

\* The steps of the attempt by what they write.
LEMMA DbSteps ==
  ASSUME [Next]_vars
  PROVE  \/ QuietDb \/ Publish
         \/ RootRecords \/ ReconcileRoot \/ ForeignInterrupt
         \/ ResponseFences \/ ResponseIsRefused \/ JoinPanickedResponse
         \/ ResponseRecordsIntent \/ ResponseIsAcknowledged \/ LoseOwnership
  BY DEF Next, RootStep, ProviderEvent, ResponseStep, ManagerStep, Environment,
         Finished, QuietDb, Publish

\* Every step keeps DbInv.
LEMMA DbStep == ASSUME IInv, [Next]_vars PROVE DbInv'
  <1>. USE DEF IInv
  <1>1. CASE QuietDb
    BY <1>1, QuietKeepsDb DEF DbInv
  <1>2. CASE Publish
    BY <1>2, Publishes DEF DbInv, Selected
  <1>3. CASE RootRecords \/ ReconcileRoot \/ ForeignInterrupt
    BY <1>3, EndingActions, EndKeepsDb DEF DbInv
  <1>4. CASE ResponseFences \/ ResponseIsRefused \/ JoinPanickedResponse
    BY <1>4, ResponseWrites, RejectionKeepsDb DEF DbInv
  <1>5. CASE ResponseRecordsIntent
    BY <1>5, IntentRecorded DEF DbInv
  <1>6. CASE ResponseIsAcknowledged
    <2>. DEFINE q == resp.req
    <2>1. CASE UNCHANGED db
      BY <2>1 DEF DbInv
    <2>2. CASE db'.approval[q].status = "approved" /\ MayReject(q)
      <3>1. /\ q \in Requests /\ db.run = "waiting"
            /\ db'.run = IF \E p \in Requests \ {q} :
                              db.approval[p].status = "pending"
                         THEN "waiting" ELSE "running"
            /\ \A p \in Requests : p # q => db'.approval[p] = db.approval[p]
            /\ db'.approval[q].intent = "acknowledged"
        BY <1>6, <2>2, Acknowledged DEF MayReject
      <3>2. \A p \in Requests :
              db.approval[p].status \notin {"cancelled", "failed"}
        BY <3>1 DEF DbInv
      <3>. QED  BY <2>2, <3>1, <3>2 DEF DbInv
    <2>. QED  BY <1>6, <2>1, <2>2, Acknowledged
  <1>7. CASE LoseOwnership
    BY <1>7 DEF LoseOwnership, TypeOK, RunRow, DbInv
  <1>. QED  BY <1>1, <1>2, <1>3, <1>4, <1>5, <1>6, <1>7, DbSteps

-----------------------------------------------------------------------------
(* Answers. *)

\* Nothing an answer depends on changes.
LEMMA AnswersStay ==
  ASSUME IInv, UNCHANGED <<wire, resp>>, UNCHANGED db
  PROVE  AnswerInv'
  BY DEF IInv, AnswerInv, AnswersAreTruthful, JobIsTruthful

\* The job is gone, over or not calling; intents and the wire stay.
LEMMA JobLeaves ==
  ASSUME IInv, UNCHANGED <<wire, db>>,
         resp'.pc \notin {"intended", "calling", "returned"}
  PROVE  AnswerInv'
  BY DEF IInv, AnswerInv, AnswersAreTruthful, JobIsTruthful

\* An outcome turns a recorded intent into an unknown one.
LEMMA EndKeepsAnswers ==
  ASSUME IInv, Ends, UNCHANGED <<wire, resp>>
  PROVE  AnswerInv'
  <1>1. PICK s \in Terminal, r \in {"cancelled", "failed"} : EndRun(s, r)
    BY DEF Ends, Terminal
  <1>2. \A q \in Requests :
          db'.approval[q].intent = IF /\ db.approval[q].status = "pending"
                                      /\ db.approval[q].intent = "recorded"
                                   THEN "unknown"
                                   ELSE db.approval[q].intent
    BY <1>1, RunEnds, ClosedType DEF IInv, TypeOK
  <1>. QED  BY <1>2 DEF IInv, AnswerInv, AnswersAreTruthful, JobIsTruthful,
                        SlotInv

\* Selecting a request leaves every intent alone.
LEMMA SelectionKeepsAnswers ==
  ASSUME IInv, NEW q \in Requests, Selected(q), UNCHANGED <<wire, resp>>
  PROVE  AnswerInv'
  <1>1. \A p \in Requests : db'.approval[p].intent = db.approval[p].intent
    BY DEF Selected
  <1>. QED  BY <1>1 DEF IInv, AnswerInv, AnswersAreTruthful, JobIsTruthful,
                        SlotInv

\* The job ends with its intent rejected only when nothing was sent.
LEMMA RejectionKeepsAnswers ==
  ASSUME IInv, NEW i \in {"rejected", "unknown"},
         resp.req \in Requests, RejectIntent(resp.req, i),
         i = "rejected" => /\ wire'.answers[resp.req] = 0
                           /\ resp.req \notin wire'.pipe,
         UNCHANGED wire, resp'.pc \notin {"intended", "calling", "returned"}
  PROVE  AnswerInv'
  <1>1. /\ db'.approval[resp.req].intent = i
        /\ \A p \in Requests : p # resp.req => db'.approval[p] = db.approval[p]
    BY IntentSettles DEF IInv, TypeOK
  <1>. QED  BY <1>1 DEF IInv, AnswerInv, AnswersAreTruthful, JobIsTruthful

\* A rejected intent belongs to an answer that was never sent.
LEMMA ResponseWritesKeepAnswers ==
  ASSUME IInv, ResponseFences \/ ResponseIsRefused \/ JoinPanickedResponse
  PROVE  AnswerInv'
  <1>1. UNCHANGED wire
    BY DEF ResponseFences, ResponseIsRefused, JoinPanickedResponse
  <1>2. CASE resp'.pc \in {"intended", "calling", "returned"}
    <2>1. ~JoinPanickedResponse
      BY <1>2 DEF JoinPanickedResponse, FreeSlots, NoResponse
    <2>2. resp \in ResponseJob
      BY DEF IInv, TypeOK
    <2>3. ~ResponseEnds
      BY <1>2, <2>2 DEF ResponseEnds, ResponseJob
    <2>4. /\ UNCHANGED db
          /\ resp.pc = "intended" /\ resp' = [resp EXCEPT !.pc = "calling"]
      BY <2>1, <2>3 DEF ResponseFences, ResponseIsRefused
    <2>5. resp.result = "none"
      BY <2>4 DEF IInv, SlotInv
    <2>6. resp'.pc = "calling" /\ resp'.req = resp.req /\ resp'.result = "none"
      BY <2>2, <2>4, <2>5 DEF ResponseJob
    <2>7. JobIsTruthful'
      BY <1>1, <2>4, <2>5, <2>6 DEF IInv, AnswerInv, JobIsTruthful
    <2>. QED  BY <1>1, <2>4, <2>7 DEF IInv, AnswerInv, AnswersAreTruthful
  <1>3. CASE resp'.pc \notin {"intended", "calling", "returned"}
    <2>1. resp.req \in Requests
      BY ResponseWrites
    <2>2. CASE UNCHANGED db
      BY <1>1, <1>3, <2>2, JobLeaves
    <2>3. ASSUME NEW i \in {"rejected", "unknown"}, RejectIntent(resp.req, i),
                 i = "rejected" => resp.pc # "panicked",
                 i = "rejected" /\ resp.pc = "returned" => resp.result = "not"
          PROVE  AnswerInv'
      <3>1. resp.pc \in {"intended", "returned", "panicked"}
        BY DEF ResponseFences, ResponseIsRefused, JoinPanickedResponse
      <3>2. i = "rejected" => /\ wire.answers[resp.req] = 0
                              /\ resp.req \notin wire.pipe
        BY <2>1, <2>3, <3>1 DEF IInv, AnswerInv, JobIsTruthful, SlotInv
      <3>. QED  BY <1>1, <1>3, <2>1, <2>3, <3>2, RejectionKeepsAnswers
    <2>. QED  BY <2>2, <2>3, ResponseWrites
  <1>. QED  BY <1>2, <1>3

\* An intent is recorded over none or a rejected one, so nothing was sent.
LEMMA RecordKeepsAnswers ==
  ASSUME IInv, ResponseRecordsIntent
  PROVE  AnswerInv'
  <1>. DEFINE q == resp.req
  <1>1. UNCHANGED wire /\ resp.pc = "begun"
    BY DEF ResponseRecordsIntent
  <1>2. CASE UNCHANGED db /\ resp'.pc = "done"
    BY <1>1, <1>2, JobLeaves
  <1>3. CASE /\ db.approval[q].intent \in {"none", "rejected"}
             /\ resp' = [resp EXCEPT !.pc = "intended"]
             /\ \A p \in Requests : p # q => db'.approval[p] = db.approval[p]
             /\ db'.approval[q].intent = "recorded"
    <2>1. resp'.pc = "intended" /\ resp'.req = q /\ resp'.result = resp.result
      BY <1>3 DEF IInv, TypeOK, ResponseJob
    <2>2. q \in Requests
      BY IntentRecorded
    <2>3. wire.answers[q] = 0 /\ q \notin wire.pipe
      BY <1>3, <2>2 DEF IInv, AnswerInv, AnswersAreTruthful
    <2>4. resp.result = "none"
      BY <1>1 DEF IInv, SlotInv
    <2>5. JobIsTruthful'
      BY <1>1, <1>3, <2>1, <2>2, <2>3, <2>4 DEF JobIsTruthful
    <2>6. AnswersAreTruthful'
      BY <1>1, <1>3, <2>3 DEF IInv, AnswerInv, AnswersAreTruthful
    <2>. QED  BY <1>1, <2>5, <2>6 DEF IInv, AnswerInv
  <1>. QED  BY <1>2, <1>3, IntentRecorded

\* What is acknowledged was sent.
LEMMA AcknowledgementKeepsAnswers ==
  ASSUME IInv, ResponseIsAcknowledged
  PROVE  AnswerInv'
  <1>. DEFINE q == resp.req
  <1>1. UNCHANGED wire /\ resp.pc = "returned" /\ resp.result = "ok"
    BY DEF ResponseIsAcknowledged
  <1>2. CASE UNCHANGED db /\ resp'.pc = "done"
    BY <1>1, <1>2, JobLeaves
  <1>3. CASE /\ resp' = [resp EXCEPT !.pc = "acked"]
             /\ \A p \in Requests : p # q => db'.approval[p] = db.approval[p]
             /\ db'.approval[q].intent = "acknowledged"
    <2>1. resp'.pc = "acked"
      BY <1>3 DEF IInv, TypeOK, ResponseJob
    <2>2. wire.answers[q] = 1 /\ q \in Requests
      BY <1>1, Acknowledged DEF IInv, AnswerInv, JobIsTruthful
    <2>3. q \notin wire.pipe
      BY <2>2 DEF IInv, AnswerInv
    <2>. QED  BY <1>1, <1>3, <2>1, <2>2, <2>3
              DEF IInv, AnswerInv, AnswersAreTruthful, JobIsTruthful
  <1>. QED  BY <1>2, <1>3, Acknowledged

\* The answer is on its way: written, or left in the pipe by a call that was
\* cut off.
LEMMA CallKeepsAnswers ==
  ASSUME IInv,
         \/ AnswerReachesProvider
         \/ \E r \in {"ok", "not", "may", "cancelled"} : ResponseReturns(r)
         \/ \E q \in Requests : AbandonedAnswerReachesProvider(q)
         \/ ResponsePanics
  PROVE  AnswerInv'
  <1>. USE DEF IInv, TypeOK, Wire, ResponseJob, AnswerInv, AnswersAreTruthful,
               JobIsTruthful, SlotInv
  <1>1. CASE AnswerReachesProvider
    BY <1>1 DEF AnswerReachesProvider
  <1>2. ASSUME NEW r \in {"ok", "not", "may", "cancelled"}, ResponseReturns(r)
        PROVE  AnswerInv'
    BY <1>2 DEF ResponseReturns
  <1>3. ASSUME NEW q \in Requests, AbandonedAnswerReachesProvider(q)
        PROVE  AnswerInv'
    <2>1. /\ wire'.pipe = wire.pipe \ {q} /\ q \in wire.pipe
          /\ wire'.answers = [wire.answers EXCEPT ![q] = @ + 1]
          /\ UNCHANGED <<db, resp>>
      BY <1>3 DEF AbandonedAnswerReachesProvider
    <2>2. wire'.answers[q] = 1
      BY <1>3, <2>1
    <2>3. \A p \in Requests : p # q => wire'.answers[p] = wire.answers[p]
      BY <2>1
    <2>. QED  BY <1>3, <2>1, <2>2, <2>3
  <1>4. CASE ResponsePanics
    BY <1>4 DEF ResponsePanics
  <1>. QED  BY <1>1, <1>2, <1>3, <1>4

\* Steps that leave the row, the wire's answers and the response job alone,
\* or only start or remove the job.
QuietAnswers ==
  \/ RootStops \/ RootParks \/ RootWakes \/ RootSeesClosedStream
  \/ EnqueueRequest \/ SettleControl \/ RootReviews
  \/ \E closed, shut \in BOOLEAN : RootClosesTurn(closed, shut)
  \/ \E q \in Requests : ReceiveRequest(q)
  \/ \E status \in ProviderTerminal : ReceiveTerminal(status)
  \/ ReceiveError \/ ReceiveClose \/ ReceiveUnrecordable \/ RootDies
  \/ SteeringBegins \/ SteeringFences \/ SteeringCancelled
  \/ \E a \in BOOLEAN : SteeringReturns(a)
  \/ SteeringPanics
  \/ AbandonPanickedResponse \/ JoinRoot
  \/ Steer \/ Interrupt \/ RenewalFails
  \/ UNCHANGED vars

\* Steps that concern neither answers nor their job.
LEMMA QuietKeepsAnswers == QuietAnswers => UNCHANGED <<db, wire, resp>>
  BY DEF QuietAnswers, RootStops, RootParks, RootWakes, RootSeesClosedStream,
         EnqueueRequest, SettleControl, RootReviews, RootClosesTurn,
         ReceiveRequest, ReceiveTerminal, ReceiveError, ReceiveClose,
         ReceiveUnrecordable, RootDies, RootFinishes, SteeringBegins,
         SteeringFences, SteeringCancelled, SteeringReturns, SteeringPanics,
         AbandonPanickedResponse, JoinRoot, Steer, Interrupt, RenewalFails,
         vars

JobMoves ==
  \/ ResponseBegins \/ ResponseClears \/ SpawnControl \/ JoinControl
  \/ ManagerGetsTurn \/ CloseSupervisor \/ \E q \in Requests : Respond(q)

\* Queueing, starting and joining a job sends nothing.
LEMMA JobMovesQuietly ==
  ASSUME IInv, JobMoves
  PROVE  AnswerInv'
  <1>1. UNCHANGED <<wire, db>>
    BY DEF JobMoves, ResponseBegins, ResponseClears, SpawnControl, JoinControl,
           ManagerGetsTurn, CloseSupervisor, Respond
  <1>2. \/ resp'.pc \notin {"intended", "calling", "returned"}
        \/ UNCHANGED resp
    <2>1. resp \in ResponseJob
      BY DEF IInv, TypeOK
    <2>2. CASE ResponseBegins \/ ResponseClears
      BY <2>1, <2>2 DEF ResponseBegins, ResponseClears, ResponseEnds, ResponseJob
    <2>3. CASE SpawnControl
      BY <2>1, <2>3 DEF SpawnControl, ResponseJob
    <2>4. CASE JoinControl \/ ManagerGetsTurn \/ CloseSupervisor
      BY <2>4 DEF JoinControl, ManagerGetsTurn, CloseSupervisor, FreeSlots,
                  NoResponse
    <2>5. CASE \E q \in Requests : Respond(q)
      BY <2>5 DEF Respond, NoResponse
    <2>. QED  BY <2>2, <2>3, <2>4, <2>5 DEF JobMoves
  <1>. QED  BY <1>1, <1>2, JobLeaves, AnswersStay

\* The steps of the attempt by what they do to answers.
LEMMA AnswerSteps ==
  ASSUME [Next]_vars
  PROVE  \/ QuietAnswers \/ JobMoves \/ Publish
         \/ RootRecords \/ ReconcileRoot \/ ForeignInterrupt \/ LoseOwnership
         \/ ResponseFences \/ ResponseIsRefused \/ JoinPanickedResponse
         \/ ResponseRecordsIntent \/ ResponseIsAcknowledged
         \/ AnswerReachesProvider
         \/ \E r \in {"ok", "not", "may", "cancelled"} : ResponseReturns(r)
         \/ \E q \in Requests : AbandonedAnswerReachesProvider(q)
         \/ ResponsePanics
         \/ SteeringReachesProvider \/ SteeringIsRecorded
  BY DEF Next, RootStep, ProviderEvent, ResponseStep, SteeringStep,
         AdapterStep, ManagerStep, Environment, Finished, QuietAnswers,
         JobMoves, Publish

\* Every step keeps AnswerInv.
LEMMA AnswerStep == ASSUME IInv, [Next]_vars PROVE AnswerInv'
  <1>1. CASE QuietAnswers
    BY <1>1, QuietKeepsAnswers, AnswersStay
  <1>2. CASE JobMoves
    BY <1>2, JobMovesQuietly
  <1>3. CASE Publish
    <2>1. CASE UNCHANGED <<db, wire, resp>>
      BY <2>1, AnswersStay
    <2>. QED  BY <1>3, <2>1, Publishes, SelectionKeepsAnswers DEF IInv
  <1>4. CASE RootRecords \/ ReconcileRoot \/ ForeignInterrupt
    <2>1. UNCHANGED <<wire, resp>>
      BY <1>4 DEF RootRecords, ReconcileRoot, ForeignInterrupt
    <2>. QED  BY <1>4, <2>1, EndingActions, EndKeepsAnswers, AnswersStay
  <1>5. CASE LoseOwnership
    <2>1. UNCHANGED <<wire, resp>> /\ db'.approval = db.approval
      BY <1>5 DEF LoseOwnership, IInv, TypeOK, RunRow
    <2>. QED  BY <2>1 DEF IInv, AnswerInv, AnswersAreTruthful, JobIsTruthful
  <1>6. CASE ResponseFences \/ ResponseIsRefused \/ JoinPanickedResponse
    BY <1>6, ResponseWritesKeepAnswers
  <1>7. CASE ResponseRecordsIntent \/ ResponseIsAcknowledged
    BY <1>7, RecordKeepsAnswers, AcknowledgementKeepsAnswers
  <1>8. CASE \/ AnswerReachesProvider
             \/ \E r \in {"ok", "not", "may", "cancelled"} : ResponseReturns(r)
             \/ \E q \in Requests : AbandonedAnswerReachesProvider(q)
             \/ ResponsePanics
    BY <1>8, CallKeepsAnswers
  <1>9. CASE SteeringReachesProvider \/ SteeringIsRecorded
    <2>1. /\ wire'.answers = wire.answers /\ wire'.pipe = wire.pipe
          /\ UNCHANGED <<db, resp>>
      BY <1>9 DEF SteeringReachesProvider, SteeringIsRecorded, IInv, TypeOK, Wire
    <2>. QED  BY <2>1 DEF IInv, AnswerInv, AnswersAreTruthful, JobIsTruthful
  <1>. QED  BY <1>1, <1>2, <1>3, <1>4, <1>5, <1>6, <1>7, <1>8, <1>9, AnswerSteps

-----------------------------------------------------------------------------
(* The two slots. *)

Running == {"begun", "intended", "calling", "returned", "acked"}

\* A response job that executes goes on, or ends.
LEMMA ResponseGoesOn ==
  ASSUME IInv, UNCHANGED <<exec, steer>>, resp.pc \in Running,
         resp'.pc \in Running, resp'.req = resp.req,
         resp'.pc = "intended" => resp'.result = "none",
         resp'.pc # "begun"
  PROVE  SlotInv'
  BY DEF IInv, SlotInv, Running

\* A response job that ends leaves its execution finished.
LEMMA ResponseEndKeepsSlots ==
  ASSUME IInv, ResponseEnds, UNCHANGED steer, resp.pc # "none"
  PROVE  SlotInv'
  BY DEF IInv, TypeOK, ResponseJob, ControlExecution, Controls, SlotInv,
         ResponseEnds

\* So does a steering job.
LEMMA SteeringEndKeepsSlots ==
  ASSUME IInv, SteeringEnds, UNCHANGED resp, steer.pc # "none"
  PROVE  SlotInv'
  BY DEF IInv, TypeOK, SteeringJob, ControlExecution, Controls, SlotInv,
         SteeringEnds

\* A freed slot has neither job nor execution.
LEMMA FreedSlots ==
  ASSUME IInv, NEW S \in SUBSET Controls, FreeSlots(S)
  PROVE  SlotInv'
  BY DEF IInv, TypeOK, SlotInv, FreeSlots, Controls, NoResponse, NoSteering

QuietSlots ==
  \/ RootStops \/ RootParks \/ RootWakes \/ RootSeesClosedStream
  \/ EnqueueRequest \/ RootReviews \/ RootRecords
  \/ \E closed, shut \in BOOLEAN : RootClosesTurn(closed, shut)
  \/ \E q \in Requests : ReceiveRequest(q)
  \/ \E status \in ProviderTerminal : ReceiveTerminal(status)
  \/ ReceiveError \/ ReceiveClose \/ ReceiveUnrecordable \/ RootDies
  \/ \E q \in Requests : AbandonedAnswerReachesProvider(q)
  \/ AbandonPanickedResponse \/ JoinRoot \/ ReconcileRoot
  \/ Interrupt \/ RenewalFails \/ LoseOwnership \/ ForeignInterrupt
  \/ UNCHANGED vars

\* Steps that leave both slots alone.
LEMMA QuietKeepsSlots == QuietSlots => UNCHANGED <<resp, steer, exec>>
  BY DEF QuietSlots, RootStops, RootParks, RootWakes, RootSeesClosedStream,
         EnqueueRequest, RootReviews, RootRecords, RootClosesTurn,
         ReceiveRequest, ReceiveTerminal, ReceiveError, ReceiveClose,
         ReceiveUnrecordable, RootDies, RootFinishes,
         AbandonedAnswerReachesProvider, AbandonPanickedResponse, JoinRoot,
         ReconcileRoot, Interrupt, RenewalFails, LoseOwnership,
         ForeignInterrupt, vars

ResponseMoves ==
  \/ ResponseBegins \/ ResponseRecordsIntent \/ ResponseFences
  \/ AnswerReachesProvider
  \/ \E r \in {"ok", "not", "may", "cancelled"} : ResponseReturns(r)
  \/ ResponseIsRefused \/ ResponseIsAcknowledged \/ ResponseClears
  \/ ResponsePanics \/ \E q \in Requests : Respond(q)

\* The execution of a response job follows it.
LEMMA ResponseKeepsSlots ==
  ASSUME IInv, ResponseMoves
  PROVE  SlotInv'
  <1>0. UNCHANGED steer /\ resp \in ResponseJob
    BY DEF ResponseMoves, ResponseBegins, ResponseRecordsIntent,
           ResponseFences, AnswerReachesProvider, ResponseReturns,
           ResponseIsRefused, ResponseIsAcknowledged, ResponseClears,
           ResponsePanics, Respond, IInv, TypeOK
  <1>1. CASE ResponseEnds
    <2>1. resp.pc # "none"
      BY <1>1 DEF ResponseMoves, ResponseBegins, ResponseRecordsIntent,
           ResponseFences, AnswerReachesProvider, ResponseReturns,
           ResponseIsRefused, ResponseIsAcknowledged, ResponseClears,
           ResponsePanics, Respond, ResponseEnds, NoResponse
    <2>. QED  BY <1>0, <1>1, <2>1, ResponseEndKeepsSlots
  <1>2. CASE ResponseBegins /\ ~ResponseEnds
    <2>1. /\ exec["response"] = "pending" /\ resp.pc = "spawned"
          /\ exec' = [exec EXCEPT !["response"] = "executing"]
          /\ resp' = [resp EXCEPT !.pc = "begun"]
      BY <1>2 DEF ResponseBegins
    <2>. QED  BY <1>0, <2>1 DEF IInv, TypeOK, ResponseJob, Controls, SlotInv
  <1>3. CASE ResponseRecordsIntent /\ ~ResponseEnds
    <2>1. resp.pc = "begun" /\ resp' = [resp EXCEPT !.pc = "intended"]
          /\ UNCHANGED exec
      BY <1>3 DEF ResponseRecordsIntent
    <2>2. resp'.result = "none"
      BY <1>0, <2>1 DEF IInv, SlotInv, ResponseJob
    <2>. QED  BY <1>0, <2>1, <2>2, ResponseGoesOn DEF ResponseJob, Running
  <1>4. CASE ResponseFences /\ ~ResponseEnds
    <2>1. resp.pc = "intended" /\ resp' = [resp EXCEPT !.pc = "calling"]
          /\ UNCHANGED exec
      BY <1>4 DEF ResponseFences
    <2>. QED  BY <1>0, <2>1, ResponseGoesOn DEF ResponseJob, Running
  <1>5. CASE AnswerReachesProvider
    BY <1>0, <1>5, ResponseGoesOn
       DEF AnswerReachesProvider, ResponseJob, Running
  <1>6. ASSUME NEW r \in {"ok", "not", "may", "cancelled"}, ResponseReturns(r)
        PROVE  SlotInv'
    BY <1>0, <1>6, ResponseGoesOn DEF ResponseReturns, ResponseJob, Running
  <1>7. CASE ResponseIsAcknowledged /\ ~ResponseEnds
    <2>1. resp.pc = "returned" /\ resp' = [resp EXCEPT !.pc = "acked"]
          /\ UNCHANGED exec
      BY <1>7 DEF ResponseIsAcknowledged
    <2>. QED  BY <1>0, <2>1, ResponseGoesOn DEF ResponseJob, Running
  <1>8. CASE ResponsePanics
    BY <1>0, <1>8 DEF ResponsePanics, IInv, TypeOK, ResponseJob, Controls,
                      SlotInv
  <1>9. ASSUME NEW q \in Requests, Respond(q)
        PROVE  SlotInv'
    BY <1>0, <1>9 DEF Respond, NoResponse, IInv, TypeOK, Controls, SlotInv
  <1>. QED  BY <1>1, <1>2, <1>3, <1>4, <1>5, <1>6, <1>7, <1>8, <1>9
            DEF ResponseMoves, ResponseIsRefused, ResponseClears

SteeringMoves ==
  \/ SteeringBegins \/ SteeringFences \/ SteeringReachesProvider
  \/ \E a \in BOOLEAN : SteeringReturns(a)
  \/ SteeringCancelled \/ SteeringIsRecorded \/ SteeringPanics \/ Steer

\* The execution of a steering job follows it.
LEMMA SteeringKeepsSlots ==
  ASSUME IInv, SteeringMoves
  PROVE  SlotInv'
  <1>0. UNCHANGED resp /\ steer \in SteeringJob
    BY DEF SteeringMoves, SteeringBegins, SteeringFences,
           SteeringReachesProvider, SteeringReturns, SteeringCancelled,
           SteeringIsRecorded, SteeringPanics, Steer, IInv, TypeOK
  <1>1. CASE SteeringEnds
    <2>1. steer.pc # "none"
      BY <1>1 DEF SteeringMoves, SteeringBegins, SteeringFences,
           SteeringReachesProvider, SteeringReturns, SteeringCancelled,
           SteeringIsRecorded, SteeringPanics, Steer, SteeringEnds, SteeringJob
    <2>. QED  BY <1>0, <1>1, <2>1, SteeringEndKeepsSlots
  <1>2. CASE ~SteeringEnds /\ ~Steer /\ ~SteeringPanics
    BY <1>0, <1>2 DEF SteeringMoves, SteeringBegins, SteeringFences,
           SteeringReachesProvider, SteeringReturns, SteeringCancelled,
           SteeringIsRecorded, SteeringJob, IInv, TypeOK, Controls, SlotInv
  <1>3. CASE Steer
    BY <1>0, <1>3 DEF Steer, IInv, TypeOK, Controls, SlotInv
  <1>4. CASE SteeringPanics
    BY <1>0, <1>4, SteeringEndKeepsSlots DEF SteeringPanics, SteeringEnds
  <1>. QED  BY <1>1, <1>2, <1>3, <1>4

\* The steps of the attempt by the slot they change.
LEMMA SlotSteps ==
  ASSUME [Next]_vars
  PROVE  \/ QuietSlots \/ Publish \/ ResponseMoves \/ SteeringMoves
         \/ SettleControl \/ SpawnControl \/ JoinControl
         \/ JoinPanickedResponse \/ ManagerGetsTurn \/ CloseSupervisor
  BY DEF Next, RootStep, ProviderEvent, ResponseStep, SteeringStep,
         AdapterStep, ManagerStep, Environment, Finished, QuietSlots,
         ResponseMoves, SteeringMoves, Publish

\* Every step keeps SlotInv.
LEMMA SlotStep == ASSUME IInv, [Next]_vars PROVE SlotInv'
  <1>1. CASE QuietSlots \/ Publish
    BY <1>1, QuietKeepsSlots, Publishes DEF IInv, SlotInv
  <1>2. CASE ResponseMoves \/ SteeringMoves
    BY <1>2, ResponseKeepsSlots, SteeringKeepsSlots
  <1>3. CASE SettleControl
    BY <1>3 DEF SettleControl, IInv, TypeOK, Controls, SlotInv
  <1>4. CASE SpawnControl
    <2>1. UNCHANGED exec /\ resp \in ResponseJob /\ steer \in SteeringJob
      BY <1>4 DEF SpawnControl, IInv, TypeOK
    <2>2. CASE /\ resp.pc = "queued" /\ UNCHANGED steer
               /\ resp' = [resp EXCEPT !.pc = "spawned"]
      BY <2>1, <2>2 DEF ResponseJob, IInv, SlotInv
    <2>3. CASE /\ steer.pc = "queued" /\ UNCHANGED resp
               /\ steer' = [steer EXCEPT !.pc = "spawned"]
      BY <2>1, <2>3 DEF SteeringJob, IInv, SlotInv
    <2>. QED  BY <1>4, <2>2, <2>3 DEF SpawnControl
  <1>5. CASE \/ JoinControl \/ JoinPanickedResponse \/ ManagerGetsTurn
             \/ CloseSupervisor
    <2>1. PICK S \in SUBSET Controls : FreeSlots(S)
      BY <1>5 DEF JoinControl, JoinPanickedResponse, ManagerGetsTurn,
                  CloseSupervisor, Controls
    <2>. QED  BY <2>1, FreedSlots
  <1>. QED  BY <1>1, <1>2, <1>3, <1>4, <1>5, SlotSteps

-----------------------------------------------------------------------------
(* Phases of the attempt. *)

\* The loop ends: whatever is under way executes, so its slot is awaited.
LEMMA FinishKeepsPhase ==
  ASSUME IInv, NEW f \in {"stopped", "error"} \cup Terminal, RootFinishes(f),
         root.pc \in {"loop", "parked", "enqueue"}
  PROVE  PhaseInv'
  <1>1. /\ root'.pc = "settle" /\ shared'.done
        /\ UNCHANGED <<db, mgr, resp, steer, exec>>
        /\ awaits' = {c \in Controls : exec[c] # "none"}
    BY DEF IInv, TypeOK, RootTask, ActiveRun, RootFinishes, Signalled, Occupied
  <1>2. mgr.pc # "settle" /\ ~(db.run \in Terminal /\ db.owned)
    BY DEF IInv, PhaseInv
  <1>3. /\ Answering => exec["response"] = "executing"
        /\ Steering => exec["steering"] = "executing"
    BY DEF IInv, SlotInv, Answering, Steering
  <1>. QED  BY <1>1, <1>2, <1>3 DEF PhaseInv, Answering, Steering, Controls

\* The jobs move on but start nothing the provider could see.
LEMMA JobsKeepPhase ==
  ASSUME IInv, UNCHANGED <<root, mgr, db>>, shared'.done = shared.done,
         Answering' => Answering /\ ("response" \in awaits => "response" \in awaits'),
         Steering' => Steering /\ ("steering" \in awaits => "steering" \in awaits')
  PROVE  PhaseInv'
  BY DEF IInv, PhaseInv, Answering, Steering

RootLoop ==
  \/ RootStops \/ RootSeesClosedStream \/ EnqueueRequest
  \/ \E status \in ProviderTerminal : ReceiveTerminal(status)
  \/ ReceiveError \/ ReceiveClose \/ ReceiveUnrecordable
  \/ RootParks \/ RootWakes
  \/ \E q \in Requests : ReceiveRequest(q)

\* The event loop goes on or ends.
LEMMA LoopKeepsPhase ==
  ASSUME IInv, RootLoop
  PROVE  PhaseInv'
  <1>1. root.pc \in {"loop", "parked", "enqueue"} /\ UNCHANGED <<db, mgr, resp, steer>>
    BY DEF RootLoop, RootStops, RootSeesClosedStream, EnqueueRequest,
           ReceiveTerminal, ReceiveError, ReceiveClose, ReceiveUnrecordable,
           RootParks, RootWakes, ReceiveRequest, Listening, RootFinishes
  <1>2. ASSUME NEW f \in {"stopped", "error"} \cup Terminal, RootFinishes(f)
        PROVE  PhaseInv'
    BY <1>1, <1>2, FinishKeepsPhase
  <1>3. CASE \A f \in {"stopped", "error"} \cup Terminal : ~RootFinishes(f)
    <2>1. /\ ~RootFinishes("stopped") /\ ~RootFinishes("error")
          /\ ~RootFinishes("failed")
          /\ \A s \in ProviderTerminal : ~RootFinishes(s)
      BY <1>3 DEF Terminal, ProviderTerminal
    <2>2. /\ shared'.done = shared.done
          /\ \/ root'.pc \in {"loop", "parked"}
             \/ root'.pc = "enqueue" /\ root'.event \in Requests
      BY <2>1 DEF RootLoop, RootStops, RootSeesClosedStream, EnqueueRequest,
           ReceiveTerminal, ReceiveError, ReceiveClose, ReceiveUnrecordable,
           RootParks, RootWakes, ReceiveRequest, IInv, TypeOK, RootTask,
           ActiveRun
    <2>3. mgr.pc # "settle" /\ ~(db.run \in Terminal /\ db.owned)
      BY <1>1 DEF IInv, PhaseInv
    <2>. QED  BY <1>1, <2>2, <2>3 DEF PhaseInv
  <1>. QED  BY <1>2, <1>3

FinalSteps ==
  \/ SettleControl \/ RootReviews \/ RootRecords \/ RootDies \/ JoinRoot
  \/ \E closed, shut \in BOOLEAN : RootClosesTurn(closed, shut)

\* The outcome waits for the awaited slots.
LEMMA FinalKeepsPhase ==
  ASSUME IInv, FinalSteps
  PROVE  PhaseInv'
  <1>0. UNCHANGED <<resp, steer>> /\ root \in RootTask /\ mgr \in Manager
        /\ shared \in ActiveRun
    BY DEF FinalSteps, SettleControl, RootReviews, RootRecords, RootDies,
           JoinRoot, RootClosesTurn, IInv, TypeOK
  <1>1. CASE SettleControl
    <2>1. PICK c \in awaits : /\ exec[c] \in {"pending", "finished"}
                              /\ awaits' = awaits \ {c}
      BY <1>1 DEF SettleControl
    <2>2. /\ Answering => c # "response"
          /\ Steering => c # "steering"
      BY <2>1 DEF IInv, SlotInv, Answering, Steering
    <2>. QED  BY <1>0, <1>1, <2>1, <2>2, JobsKeepPhase
              DEF SettleControl, Answering, Steering
  <1>2. CASE RootReviews
    <2>1. /\ root.pc = "settle" /\ awaits = {} /\ root'.pc = "close"
          /\ UNCHANGED <<mgr, db>> /\ shared'.done = shared.done
      BY <1>0, <1>2 DEF RootReviews, RootTask, ActiveRun, Cleared
    <2>2. ~Answering /\ ~Steering /\ shared.done
          /\ ~(db.run \in Terminal /\ db.owned) /\ mgr.pc # "settle"
      BY <2>1 DEF IInv, PhaseInv
    <2>. QED  BY <1>0, <2>1, <2>2 DEF PhaseInv, Answering, Steering
  <1>3. CASE RootRecords
    <2>1. /\ root.pc = "record" /\ UNCHANGED <<mgr, shared>>
          /\ \/ root'.pc = "returned" /\ db'.run \in Terminal
             \/ root'.pc = "failed" /\ UNCHANGED db
      BY <1>0, <1>3, RunEnds DEF RootRecords, RootTask, IInv, TypeOK, Terminal
    <2>. QED  BY <1>0, <2>1 DEF IInv, PhaseInv, Answering, Steering
  <1>4. CASE RootDies
    <2>1. /\ root'.pc = "failed" /\ root.pc \notin {"returned", "failed", "gone"}
          /\ UNCHANGED <<mgr, shared, db>>
      BY <1>0, <1>4 DEF RootDies, RootTask
    <2>. QED  BY <1>0, <2>1 DEF IInv, PhaseInv, Answering, Steering
  <1>5. CASE JoinRoot
    <2>1. CASE root.pc = "returned"
      <3>1. root'.pc = "gone" /\ UNCHANGED <<shared, awaits, mgr, db>>
        BY <1>0, <1>5, <2>1 DEF JoinRoot, RootTask
      <3>. QED  BY <1>0, <2>1, <3>1 DEF IInv, PhaseInv, Answering, Steering
    <2>2. CASE root.pc = "failed"
      <3>1. /\ mgr'.pc = "settle" /\ shared'.done /\ UNCHANGED <<root, db>>
            /\ awaits' = {c \in Controls : exec[c] # "none"}
        BY <1>0, <1>5, <2>2
           DEF JoinRoot, Manager, Signalled, ActiveRun, Occupied
      <3>2. /\ Answering => exec["response"] = "executing"
            /\ Steering => exec["steering"] = "executing"
        BY DEF IInv, SlotInv, Answering, Steering
      <3>. QED  BY <1>0, <2>2, <3>1, <3>2
                DEF IInv, PhaseInv, Answering, Steering, Controls
    <2>. QED  BY <1>5, <2>1, <2>2 DEF JoinRoot
  <1>6. ASSUME NEW a \in BOOLEAN, NEW b \in BOOLEAN, RootClosesTurn(a, b)
        PROVE  PhaseInv'
    <2>1. /\ root.pc = "close" /\ root'.pc = "record"
          /\ UNCHANGED <<mgr, shared, db>>
      BY <1>0, <1>6 DEF RootClosesTurn, RootTask
    <2>. QED  BY <1>0, <2>1 DEF IInv, PhaseInv, Answering, Steering
  <1>. QED  BY <1>1, <1>2, <1>3, <1>4, <1>5, <1>6 DEF FinalSteps

\* A new intent is recorded only while nobody finalizes.
LEMMA ResponseKeepsPhase ==
  ASSUME IInv, ResponseMoves
  PROVE  PhaseInv'
  <1>0. /\ UNCHANGED <<root, mgr, awaits, steer>> /\ shared'.done = shared.done
        /\ resp \in ResponseJob
    BY DEF ResponseMoves, ResponseBegins, ResponseRecordsIntent,
           ResponseFences, AnswerReachesProvider, ResponseReturns,
           ResponseIsRefused, ResponseIsAcknowledged, ResponseClears, Cleared,
           ResponsePanics, Respond, IInv, TypeOK, ActiveRun
  <1>1. /\ db'.owned = db.owned
        /\ db.run \in Terminal \/ db'.run \in Terminal => db'.run = db.run
    <2>1. CASE QuietDb
      BY <2>1, QuietKeepsDb
    <2>2. CASE ResponseFences \/ ResponseIsRefused
      BY <2>2, ResponseWrites, IntentSettles DEF IInv, TypeOK
    <2>3. CASE ResponseRecordsIntent
      BY <2>3, IntentRecorded
    <2>4. CASE ResponseIsAcknowledged
      BY <2>4, Acknowledged DEF Terminal
    <2>. QED  BY <2>1, <2>2, <2>3, <2>4
              DEF ResponseMoves, QuietDb, AdapterStep
  <1>2. Answering' => Answering \/ ~shared.done
    <2>1. CASE ResponseRecordsIntent
      BY <1>0, <2>1, IntentRecorded DEF Stopping, Answering
    <2>2. CASE ~ResponseRecordsIntent
      BY <1>0, <2>2
         DEF ResponseMoves, ResponseBegins, ResponseFences,
             AnswerReachesProvider, ResponseReturns, ResponseIsRefused,
             ResponseIsAcknowledged, ResponseClears, ResponsePanics, Respond,
             ResponseEnds, NoResponse, ResponseJob, Answering
    <2>. QED  BY <2>1, <2>2
  <1>3. Steering' = Steering
    BY <1>0 DEF Steering
  <1>. QED  BY <1>0, <1>1, <1>2, <1>3 DEF IInv, PhaseInv

\* No text is sent while the attempt is finalized.
LEMMA SteeringKeepsPhase ==
  ASSUME IInv, SteeringMoves
  PROVE  PhaseInv'
  <1>0. /\ UNCHANGED <<db, shared, root, mgr, awaits, resp>>
        /\ steer \in SteeringJob
    BY DEF SteeringMoves, SteeringBegins, SteeringFences,
           SteeringReachesProvider, SteeringReturns, SteeringCancelled,
           SteeringIsRecorded, SteeringPanics, Steer, IInv, TypeOK
  <1>1. Steering' => Steering \/ ~shared.done
    BY <1>0 DEF SteeringMoves, SteeringBegins, SteeringFences,
           SteeringReachesProvider, SteeringReturns, SteeringCancelled,
           SteeringIsRecorded, SteeringPanics, Steer, SteeringEnds,
           SteeringJob, Steering, Stopping
  <1>2. Answering' = Answering
    BY <1>0 DEF Answering
  <1>. QED  BY <1>0, <1>1, <1>2 DEF IInv, PhaseInv

\* The steps of the attempt by what they do to its phase.
LEMMA PhaseSteps ==
  ASSUME [Next]_vars
  PROVE  \/ RootLoop \/ Publish \/ FinalSteps
         \/ ResponseMoves \/ SteeringMoves
         \/ SpawnControl \/ JoinControl
         \/ JoinPanickedResponse \/ ManagerGetsTurn \/ CloseSupervisor
         \/ AbandonPanickedResponse \/ ReconcileRoot
         \/ \E q \in Requests : AbandonedAnswerReachesProvider(q)
         \/ Interrupt \/ RenewalFails \/ LoseOwnership \/ ForeignInterrupt
         \/ UNCHANGED vars
  BY DEF Next, RootStep, ProviderEvent, ResponseStep, SteeringStep,
         AdapterStep, ManagerStep, Environment, Finished, RootLoop,
         FinalSteps, ResponseMoves, SteeringMoves, Publish

\* Every step keeps PhaseInv.
LEMMA PhaseStep == ASSUME IInv, [Next]_vars PROVE PhaseInv'
  <1>1. CASE RootLoop \/ FinalSteps
    BY <1>1, LoopKeepsPhase, FinalKeepsPhase
  <1>2. CASE Publish
    <2>1. CASE RootFinishes("error")
      BY <1>2, <2>1, Publishes, FinishKeepsPhase DEF IInv
    <2>2. CASE \E q \in Requests : Selected(q)
      <3>1. root.pc = "loop" /\ UNCHANGED <<resp, steer, mgr>>
        BY <1>2, Publishes DEF IInv
      <3>. QED  BY <2>2, <3>1
                DEF Selected, Terminal, IInv, PhaseInv, Answering, Steering
    <2>. QED  BY <1>2, <2>1, <2>2, Publishes DEF IInv
  <1>3. CASE ResponseMoves \/ SteeringMoves
    BY <1>3, ResponseKeepsPhase, SteeringKeepsPhase
  <1>4. CASE SpawnControl
    <2>1. /\ UNCHANGED <<db, shared, root, mgr, awaits>>
          /\ Answering' => Answering
          /\ Steering' => Steering
      BY <1>4 DEF SpawnControl, Answering, Steering, IInv, TypeOK,
                  ResponseJob, SteeringJob
    <2>. QED  BY <2>1, JobsKeepPhase
  <1>5. CASE JoinControl \/ JoinPanickedResponse
    <2>1. PICK S \in SUBSET Controls : FreeSlots(S)
      BY <1>5 DEF JoinControl, JoinPanickedResponse, Controls
    <2>2. UNCHANGED <<root, mgr>> /\ shared'.done = shared.done
      BY <1>5 DEF JoinControl, JoinPanickedResponse, Cleared, IInv, TypeOK,
                  ActiveRun
    <2>3. db'.run = db.run /\ db'.owned = db.owned
      BY <1>5, ResponseWrites, IntentSettles DEF JoinControl, IInv, TypeOK
    <2>4. /\ Answering' => Answering /\ awaits' = awaits \ S /\ "response" \notin S
          /\ Steering' => Steering /\ awaits' = awaits \ S /\ "steering" \notin S
      BY <2>1 DEF FreeSlots, NoResponse, NoSteering, Answering, Steering
    <2>. QED  BY <2>2, <2>3, <2>4 DEF IInv, PhaseInv
  <1>6. CASE ManagerGetsTurn
    <2>1. FreeSlots({"response"}) /\ UNCHANGED <<db, shared, root>>
      BY <1>6 DEF ManagerGetsTurn
    <2>2. mgr.pc = "turn" /\ mgr'.pc = "run"
      BY <1>6 DEF ManagerGetsTurn, IInv, TypeOK, Manager
    <2>3. /\ ~Answering' /\ Steering' = Steering
          /\ "steering" \in awaits => "steering" \in awaits'
      BY <2>1 DEF FreeSlots, NoResponse, Answering, Steering
    <2>. QED  BY <2>1, <2>2, <2>3 DEF IInv, PhaseInv
  <1>7. CASE CloseSupervisor
    <2>1. PICK S \in SUBSET Controls : FreeSlots(S)
      BY <1>7 DEF CloseSupervisor
    <2>2. /\ UNCHANGED <<db, root>> /\ shared'.done = shared.done
          /\ mgr'.pc = mgr.pc
      BY <1>7 DEF CloseSupervisor, Stop, IInv, TypeOK, ActiveRun, Manager
    <2>3. /\ Answering' => Answering /\ awaits' = awaits \ S /\ "response" \notin S
          /\ Steering' => Steering /\ awaits' = awaits \ S /\ "steering" \notin S
      BY <2>1 DEF FreeSlots, NoResponse, NoSteering, Answering, Steering
    <2>. QED  BY <2>2, <2>3 DEF IInv, PhaseInv
  <1>8. CASE AbandonPanickedResponse
    <2>1. /\ UNCHANGED <<db, root, resp, steer, awaits>>
          /\ shared'.done /\ mgr'.pc = "turn"
      BY <1>8 DEF AbandonPanickedResponse, Signalled, IInv, TypeOK, ActiveRun,
                  Manager
    <2>. QED  BY <2>1 DEF IInv, PhaseInv, Answering, Steering
  <1>9. CASE ReconcileRoot
    <2>1. /\ UNCHANGED <<shared, resp, steer, awaits>>
          /\ root'.pc = "gone" /\ mgr'.pc = "run"
          /\ ~Answering /\ ~Steering /\ shared.done
      BY <1>9 DEF ReconcileRoot, IInv, TypeOK, RootTask, Manager, PhaseInv
    <2>. QED  BY <2>1 DEF PhaseInv, Answering, Steering
  <1>10. CASE \/ \E q \in Requests : AbandonedAnswerReachesProvider(q)
              \/ Interrupt \/ RenewalFails \/ UNCHANGED vars
    <2>1. /\ UNCHANGED <<db, root, resp, steer, awaits, mgr>>
          /\ shared'.done = shared.done
      BY <1>10 DEF AbandonedAnswerReachesProvider, Interrupt, RenewalFails,
                   Stop, vars, IInv, TypeOK, ActiveRun
    <2>. QED  BY <2>1, JobsKeepPhase DEF Answering, Steering
  <1>11. CASE LoseOwnership \/ ForeignInterrupt
    <2>1. /\ UNCHANGED <<shared, root, resp, steer, awaits, mgr>>
          /\ ~db'.owned /\ db.run \notin Terminal
      BY <1>11, RunEnds DEF LoseOwnership, ForeignInterrupt, IInv, TypeOK,
                            RunRow, Terminal
    <2>. QED  BY <2>1 DEF IInv, PhaseInv, Answering, Steering
  <1>. QED  BY <1>1, <1>2, <1>3, <1>4, <1>5, <1>6, <1>7, <1>8, <1>9, <1>10,
               <1>11, PhaseSteps

-----------------------------------------------------------------------------
(* The selected request. *)

\* Steps that leave the selection, the statuses and the acknowledged answers
\* as they are.
LEMMA SelectionKept ==
  ASSUME IInv, shared'.pending = shared.pending,
         \A q \in Requests :
           /\ db'.approval[q].status = db.approval[q].status
           /\ db.approval[q].intent = "acknowledged" =>
                db'.approval[q].intent = "acknowledged",
         db.run \in Terminal => db'.run \in Terminal,
         root.pc \in {"failed", "gone"} => root'.pc \in {"failed", "gone"},
         \A q \in Requests : Acking(q) => Acking(q)',
         resp'.pc = "acked" => resp.pc = "acked" /\ resp'.req = resp.req
  PROVE  SelectInv'
  BY DEF IInv, SelectInv, SlotInv

\* A request with an acknowledged answer is deselected.
LEMMA Deselected ==
  ASSUME IInv, NEW q \in Requests, db.approval[q].intent = "acknowledged",
         shared'.pending = IF shared.pending = q THEN NoRequest ELSE shared.pending,
         UNCHANGED db, resp.req = q \/ UNCHANGED resp,
         resp'.pc = "acked" => UNCHANGED resp,
         root.pc \in {"failed", "gone"} => root'.pc \in {"failed", "gone"}
  PROVE  SelectInv'
  <1>1. db.approval[q].status = "approved"
    BY DEF IInv, DbInv
  <1>. QED  BY <1>1, AttemptAssumption DEF IInv, SelectInv, Acking

\* An outcome leaves no request pending.
LEMMA EndKeepsSelection ==
  ASSUME IInv, Ends, UNCHANGED <<shared, resp>>
  PROVE  SelectInv'
  <1>1. PICK s \in Terminal, r \in {"cancelled", "failed"} : EndRun(s, r)
    BY DEF Ends, Terminal
  <1>2. /\ db'.run \in Terminal
        /\ \A q \in Requests :
             /\ db'.approval[q].status # "pending"
             /\ db.approval[q].status # "unasked" =>
                  db'.approval[q].status # "unasked"
             /\ db.approval[q].intent = "acknowledged" =>
                  db'.approval[q].intent = "acknowledged"
    BY <1>1, RunEnds, ClosedType DEF IInv, TypeOK
  <1>. QED  BY <1>2 DEF IInv, SelectInv, SlotInv

QuietSelection ==
  \/ RootLoop \/ SettleControl \/ RootDies \/ JoinRoot
  \/ \E closed, shut \in BOOLEAN : RootClosesTurn(closed, shut)
  \/ SteeringMoves \/ Interrupt \/ RenewalFails \/ UNCHANGED vars
  \/ AbandonPanickedResponse
  \/ \E q \in Requests : AbandonedAnswerReachesProvider(q)

\* Steps that leave the selection alone.
LEMMA QuietKeepsSelection ==
  ASSUME IInv, QuietSelection
  PROVE  /\ UNCHANGED <<db, resp>> /\ shared'.pending = shared.pending
         /\ root.pc \in {"failed", "gone"} => root'.pc \in {"failed", "gone"}
  <1>1. CASE RootLoop
    BY <1>1 DEF RootLoop, RootStops, RootSeesClosedStream, EnqueueRequest,
           ReceiveTerminal, ReceiveError, ReceiveClose, ReceiveUnrecordable,
           RootParks, RootWakes, ReceiveRequest, RootFinishes, Signalled,
           Listening, IInv, TypeOK, ActiveRun
  <1>2. CASE SteeringMoves
    BY <1>2 DEF SteeringMoves, SteeringBegins, SteeringFences,
           SteeringReachesProvider, SteeringReturns, SteeringCancelled,
           SteeringIsRecorded, SteeringPanics, Steer
  <1>3. CASE \/ SettleControl \/ RootDies \/ JoinRoot
             \/ \E closed, shut \in BOOLEAN : RootClosesTurn(closed, shut)
    BY <1>3 DEF SettleControl, RootDies, JoinRoot, RootClosesTurn, Signalled,
           IInv, TypeOK, ActiveRun, RootTask
  <1>4. CASE \/ Interrupt \/ RenewalFails \/ UNCHANGED vars
             \/ AbandonPanickedResponse
             \/ \E q \in Requests : AbandonedAnswerReachesProvider(q)
    BY <1>4 DEF Interrupt, RenewalFails, Stop, vars, AbandonPanickedResponse,
           Signalled, AbandonedAnswerReachesProvider, IInv, TypeOK, ActiveRun
  <1>. QED  BY <1>1, <1>2, <1>3, <1>4 DEF QuietSelection

\* Finalization deselects only an acknowledged request.
LEMMA ReviewKeepsSelection ==
  ASSUME IInv, RootReviews
  PROVE  SelectInv'
  <1>1. /\ UNCHANGED <<db, resp>> /\ root.pc = "settle"
    BY DEF RootReviews
  <1>2. CASE shared'.pending = shared.pending
    BY <1>1, <1>2, SelectionKept DEF Acking
  <1>3. CASE shared'.pending # shared.pending
    <2>1. /\ shared.pending # NoRequest
          /\ db.approval[shared.pending].intent = "acknowledged"
          /\ shared' = Cleared(shared.pending, TRUE)
      BY <1>3 DEF RootReviews
    <2>2. shared.pending \in Requests /\ shared'.pending = NoRequest
      BY <2>1 DEF IInv, TypeOK, ActiveRun, Cleared
    <2>. QED  BY <1>1, <2>1, <2>2, Deselected
  <1>. QED  BY <1>2, <1>3

\* An acknowledged request stays selected until its job clears it.
LEMMA ResponseKeepsSelection ==
  ASSUME IInv, ResponseMoves
  PROVE  SelectInv'
  <1>. DEFINE q == resp.req
  <1>0. UNCHANGED root /\ resp \in ResponseJob /\ shared \in ActiveRun
    BY DEF ResponseMoves, ResponseBegins, ResponseRecordsIntent,
           ResponseFences, AnswerReachesProvider, ResponseReturns,
           ResponseIsRefused, ResponseIsAcknowledged, ResponseClears,
           ResponsePanics, Respond, IInv, TypeOK
  <1>1. CASE ResponseFences \/ ResponseIsRefused
    <2>1. q \in Requests
      BY <1>1, ResponseWrites
    <2>2. /\ \A p \in Requests :
               /\ db'.approval[p].status = db.approval[p].status
               /\ db.approval[p].intent = "acknowledged" =>
                    db'.approval[p].intent = "acknowledged"
          /\ db'.run = db.run
      BY <1>1, <2>1, ResponseWrites, IntentSettles DEF IInv, TypeOK, MayReject
    <2>3. shared'.pending = shared.pending
      BY <1>0, <1>1 DEF ResponseFences, ResponseIsRefused, Cleared, ActiveRun
    <2>4. resp.pc \in {"intended", "returned"} /\ resp'.pc # "acked"
      BY <1>0, <1>1 DEF ResponseFences, ResponseIsRefused, ResponseEnds,
                        ResponseJob
    <2>. QED  BY <1>0, <2>2, <2>3, <2>4, SelectionKept DEF Acking
  <1>2. CASE ResponseRecordsIntent
    <2>1. /\ db'.run = db.run /\ shared'.pending = shared.pending
          /\ \A p \in Requests :
               /\ db'.approval[p].status = db.approval[p].status
               /\ db.approval[p].intent = "acknowledged" =>
                    db'.approval[p].intent = "acknowledged"
      BY <1>0, <1>2, IntentRecorded DEF ActiveRun
    <2>2. resp.pc = "begun" /\ resp'.pc # "acked"
      BY <1>0, <1>2 DEF ResponseRecordsIntent, ResponseEnds, ResponseJob
    <2>. QED  BY <1>0, <2>1, <2>2, SelectionKept DEF Acking
  <1>3. CASE ResponseIsAcknowledged
    <2>1. shared'.pending = shared.pending /\ resp.pc = "returned"
      BY <1>0, <1>3 DEF ResponseIsAcknowledged, Cleared, ActiveRun
    <2>2. CASE UNCHANGED db /\ resp'.pc = "done"
      BY <1>0, <2>1, <2>2, SelectionKept DEF Acking
    <2>3. CASE resp' = [resp EXCEPT !.pc = "acked"]
      <3>1. resp'.pc = "acked" /\ resp'.req = q
        BY <1>0, <2>3 DEF ResponseJob
      <3>2. /\ q \in Requests /\ MayReject(q)
            /\ db.run \notin Terminal
            /\ \A p \in Requests : p # q => db'.approval[p] = db.approval[p]
            /\ db'.approval[q].status = "approved"
            /\ db'.approval[q].intent = "acknowledged"
        BY <1>3, <3>1, Acknowledged DEF Terminal
      <3>3. shared.pending = q
        BY <3>2 DEF IInv, SelectInv, MayReject
      <3>. QED  BY <1>0, <2>1, <3>1, <3>2, <3>3 DEF IInv, SelectInv, Acking
    <2>. QED  BY <1>3, <2>2, <2>3, Acknowledged
  <1>4. CASE ResponseClears
    <2>1. /\ resp.pc = "acked" /\ UNCHANGED db /\ resp'.pc # "acked"
          /\ shared'.pending =
               IF shared.pending = q THEN NoRequest ELSE shared.pending
      BY <1>0, <1>4 DEF ResponseClears, Cleared, ResponseEnds, ActiveRun,
                        ResponseJob
    <2>2. q \in Requests /\ db.approval[q].intent = "acknowledged"
      BY <2>1 DEF IInv, SlotInv, SelectInv
    <2>. QED  BY <1>0, <2>1, <2>2, Deselected
  <1>5. CASE ResponsePanics
    <2>1. /\ UNCHANGED db /\ shared'.pending = shared.pending
          /\ resp'.pc = "panicked" /\ resp'.req = q
      BY <1>0, <1>5 DEF ResponsePanics, ActiveRun, ResponseJob
    <2>. QED  BY <1>0, <2>1, SelectionKept DEF Acking
  <1>6. CASE \/ ResponseBegins \/ AnswerReachesProvider
             \/ \E r \in {"ok", "not", "may", "cancelled"} : ResponseReturns(r)
             \/ \E p \in Requests : Respond(p)
    <2>1. UNCHANGED <<db, shared>> /\ resp.pc \notin {"acked", "panicked"}
      BY <1>6 DEF ResponseBegins, AnswerReachesProvider, ResponseReturns,
                  Respond
    <2>2. resp'.pc # "acked"
      BY <1>0, <1>6 DEF ResponseBegins, ResponseEnds, AnswerReachesProvider,
                  ResponseReturns, Respond, NoResponse, ResponseJob
    <2>. QED  BY <1>0, <2>1, <2>2, SelectionKept DEF Acking
  <1>. QED  BY <1>1, <1>2, <1>3, <1>4, <1>5, <1>6 DEF ResponseMoves

\* A job that leaves its slot without having been acknowledged.
LEMMA SlotsKeepSelection ==
  ASSUME IInv, SpawnControl \/ JoinControl \/ CloseSupervisor \/ ManagerGetsTurn
  PROVE  SelectInv'
  <1>1. /\ UNCHANGED <<db, root>> /\ shared'.pending = shared.pending
    BY DEF SpawnControl, JoinControl, CloseSupervisor, ManagerGetsTurn, Stop,
           IInv, TypeOK, ActiveRun
  <1>2. CASE SpawnControl
    <2>1. /\ \A q \in Requests : Acking(q) => Acking(q)'
          /\ resp'.pc = "acked" => resp.pc = "acked" /\ resp'.req = resp.req
      BY <1>2 DEF SpawnControl, Acking, IInv, TypeOK, ResponseJob
    <2>. QED  BY <1>1, <2>1, SelectionKept
  <1>3. CASE JoinControl \/ CloseSupervisor
    <2>1. /\ \A q \in Requests : Acking(q) => Acking(q)'
          /\ resp'.pc = "acked" => resp.pc = "acked" /\ resp'.req = resp.req
      BY <1>3 DEF JoinControl, CloseSupervisor, FreeSlots, NoResponse, Acking
    <2>. QED  BY <1>1, <2>1, SelectionKept
  <1>4. CASE ManagerGetsTurn
    <2>1. root.pc \in {"failed", "gone"} \/ db.run \in Terminal
      BY <1>4 DEF ManagerGetsTurn, IInv, PhaseInv
    <2>2. resp'.pc = "none"
      BY <1>4 DEF ManagerGetsTurn, FreeSlots, NoResponse
    <2>. QED  BY <1>1, <2>1, <2>2 DEF IInv, SelectInv, Acking
  <1>. QED  BY <1>2, <1>3, <1>4

\* Joining a panicked job closes the gap it left.
LEMMA PanicKeepsSelection ==
  ASSUME IInv, JoinPanickedResponse
  PROVE  SelectInv'
  <1>. DEFINE q == resp.req
  <1>1. /\ q \in Requests /\ resp.pc = "panicked" /\ UNCHANGED root
        /\ resp'.pc = "none"
    BY ResponseWrites
       DEF JoinPanickedResponse, FreeSlots, NoResponse
  <1>2. CASE db.approval[q].intent = "acknowledged"
    <2>1. UNCHANGED db /\ shared' = Cleared(q, TRUE)
      BY <1>2 DEF JoinPanickedResponse
    <2>2. shared'.pending =
            IF shared.pending = q THEN NoRequest ELSE shared.pending
      BY <2>1 DEF Cleared, IInv, TypeOK, ActiveRun
    <2>. QED  BY <1>1, <1>2, <2>1, <2>2, Deselected
  <1>3. CASE db.approval[q].intent # "acknowledged"
    <2>1. shared'.pending = shared.pending
      BY <1>3 DEF JoinPanickedResponse, Cleared, IInv, TypeOK, ActiveRun
    <2>2. /\ db'.run = db.run
          /\ \A p \in Requests : db'.approval[p].status = db.approval[p].status
      BY <1>1, ResponseWrites, IntentSettles DEF IInv, TypeOK
    <2>3. shared.pending = q =>
            db.approval[q].status = "pending" \/ db.run \in Terminal
      <3>1. db.approval[q] \in ApprovalRow
        BY <1>1 DEF IInv, TypeOK, RunRow
      <3>. QED  BY <1>1, <1>3, <3>1
                DEF IInv, SelectInv, DbInv, ApprovalRow, Terminal
    <2>. QED  BY <1>1, <2>1, <2>2, <2>3 DEF IInv, SelectInv, Acking
  <1>. QED  BY <1>2, <1>3

\* The steps of the attempt by what they do to the selection.
LEMMA SelectSteps ==
  ASSUME [Next]_vars
  PROVE  \/ QuietSelection \/ Publish \/ RootReviews \/ ResponseMoves
         \/ RootRecords \/ ReconcileRoot \/ ForeignInterrupt
         \/ SpawnControl \/ JoinControl \/ CloseSupervisor \/ ManagerGetsTurn
         \/ JoinPanickedResponse \/ LoseOwnership
  BY DEF Next, RootStep, ProviderEvent, ResponseStep, SteeringStep,
         AdapterStep, ManagerStep, Environment, Finished, QuietSelection,
         RootLoop, ResponseMoves, SteeringMoves, Publish

\* Every step keeps SelectInv.
LEMMA SelectStep == ASSUME IInv, [Next]_vars PROVE SelectInv'
  <1>1. CASE QuietSelection
    BY <1>1, QuietKeepsSelection, SelectionKept DEF Acking
  <1>2. CASE Publish
    <2>0. /\ root.pc = "loop" /\ shared.pending = NoRequest /\ UNCHANGED resp
      BY <1>2, Publishes DEF IInv
    <2>1. CASE RootFinishes("error")
      <3>1. UNCHANGED db /\ shared'.pending = shared.pending
        BY <2>1 DEF RootFinishes, Signalled, IInv, TypeOK, ActiveRun
      <3>. QED  BY <2>0, <3>1, SelectionKept DEF Acking
    <2>2. ASSUME NEW q \in Requests, Selected(q) PROVE SelectInv'
      <3>1. \A p \in Requests : db.approval[p].status # "pending"
        BY <2>0, AttemptAssumption DEF IInv, SelectInv
      <3>2. resp.pc = "acked" => resp.req # q
        BY <2>2 DEF Selected, IInv, SelectInv, DbInv
      <3>. QED  BY <2>0, <2>2, <3>1, <3>2
                DEF Selected, IInv, SelectInv, SlotInv
    <2>. QED  BY <1>2, <2>1, <2>2, Publishes DEF IInv
  <1>3. CASE RootReviews \/ ResponseMoves
    BY <1>3, ReviewKeepsSelection, ResponseKeepsSelection
  <1>4. CASE RootRecords \/ ReconcileRoot \/ ForeignInterrupt
    <2>1. UNCHANGED <<shared, resp>>
      BY <1>4 DEF RootRecords, ReconcileRoot, ForeignInterrupt
    <2>2. root.pc \in {"failed", "gone"} => root'.pc \in {"failed", "gone"}
      BY <1>4 DEF RootRecords, ReconcileRoot, ForeignInterrupt, IInv, TypeOK,
                  RootTask
    <2>. QED  BY <1>4, <2>1, <2>2, EndingActions, EndKeepsSelection,
                 SelectionKept DEF Acking
  <1>5. CASE SpawnControl \/ JoinControl \/ CloseSupervisor \/ ManagerGetsTurn
    BY <1>5, SlotsKeepSelection
  <1>6. CASE JoinPanickedResponse
    BY <1>6, PanicKeepsSelection
  <1>7. CASE LoseOwnership
    <2>1. /\ UNCHANGED <<shared, root, resp>> /\ db'.approval = db.approval
          /\ db'.run = db.run
      BY <1>7 DEF LoseOwnership, IInv, TypeOK, RunRow
    <2>. QED  BY <2>1, SelectionKept DEF Acking
  <1>. QED  BY <1>1, <1>2, <1>3, <1>4, <1>5, <1>6, <1>7, SelectSteps

-----------------------------------------------------------------------------
(* The invariant and what follows from it. *)

\* Every step keeps TypeOK.
LEMMA TypeStep == ASSUME IInv, [Next]_vars PROVE TypeOK'
  <1>1. CASE RootStep
    BY <1>1, RootTypes DEF IInv, RootStep
  <1>2. CASE ProviderEvent
    BY <1>2, EventTypes DEF IInv, ProviderEvent
  <1>3. CASE ResponseStep \/ SteeringStep \/ AdapterStep
    BY <1>3, ResponseTypes, SteeringTypes
       DEF IInv, ResponseStep, SteeringStep, AdapterStep
  <1>4. CASE ManagerStep
    BY <1>4, ManagerTypes DEF IInv, ManagerStep
  <1>5. CASE Environment
    BY <1>5, EnvironmentTypes DEF IInv, Environment
  <1>6. CASE UNCHANGED vars
    BY <1>6 DEF vars, IInv, TypeOK
  <1>. QED  BY <1>1, <1>2, <1>3, <1>4, <1>5, <1>6 DEF Next, Finished

\* The invariant holds initially.
LEMMA InitInv == Init => IInv
  <1>. SUFFICES ASSUME Init PROVE IInv
    OBVIOUS
  <1>1. TypeOK
    <2>1. db \in RunRow
      BY DEF Init, RunRow, RunStatus, ApprovalRow
    <2>2. root \in RootTask
      <3>1. <<>> \in Seq(Requests)
        OBVIOUS
      <3>. QED  BY <3>1 DEF Init, RootTask
    <2>3. shared \in ActiveRun /\ resp \in ResponseJob /\ steer \in SteeringJob
      BY DEF Init, ActiveRun, ResponseJob, SteeringJob, NoResponse, NoSteering
    <2>4. /\ exec \in [Controls -> ControlExecution]
          /\ awaits \in SUBSET Controls /\ mgr \in Manager
      BY DEF Init, ControlExecution, Manager
    <2>5. wire \in Wire /\ left \in Budget
      BY AttemptAssumption DEF Init, Wire, Budget
    <2>. QED  BY <2>1, <2>2, <2>3, <2>4, <2>5 DEF TypeOK
  <1>2. DbInv /\ AnswerInv
    BY DEF Init, DbInv, AnswerInv, AnswersAreTruthful, JobIsTruthful,
           NoResponse
  <1>3. SelectInv
    BY AttemptAssumption DEF Init, SelectInv, Acking, NoResponse
  <1>4. SlotInv /\ PhaseInv
    BY DEF Init, SlotInv, PhaseInv, Answering, Steering, NoResponse,
           NoSteering, Controls, Terminal
  <1>. QED  BY <1>1, <1>2, <1>3, <1>4 DEF IInv

\* IInv holds in every reachable state.
THEOREM InductiveInvariant == Spec => []IInv
  <1>1. Init => IInv
    BY InitInv
  <1>2. IInv /\ [Next]_vars => IInv'
    BY TypeStep, DbStep, AnswerStep, SelectStep, SlotStep, PhaseStep DEF IInv
  <1>. QED  BY <1>1, <1>2, PTL DEF Spec

\* The state of an attempt stays in its domains, whatever the actors do.
THEOREM TypeCorrect == Spec => []TypeOK
  <1>1. IInv => TypeOK
    BY DEF IInv
  <1>. QED  BY <1>1, InductiveInvariant, PTL

\* No request is answered twice and no intent understates what was sent,
\* for any number of answers, faults and panics (execute_response).
THEOREM AnswersTruthful == Spec => []AnswersAreTruthful
  <1>1. IInv => AnswersAreTruthful
    BY DEF IInv, AnswerInv
  <1>. QED  BY <1>1, InductiveInvariant, PTL

\* Memory and database agree on the request the run waits for, but for the
\* gap between an acknowledgement and its clearing.
THEOREM SelectionMatches == Spec => []SelectionMatchesDatabase
  <1>1. IInv => SelectionMatchesDatabase
    BY DEF IInv, SelectInv, DbInv, Acking, SelectionMatchesDatabase
  <1>. QED  BY <1>1, InductiveInvariant, PTL

\* A run with an outcome leaves no request open and no intent unsaid, by
\* whichever process it was ended.
THEOREM OutcomeCloses == Spec => []OutcomeClosesRequests
  <1>1. IInv => OutcomeClosesRequests
    <2>. SUFFICES ASSUME IInv, db.run \in Terminal, NEW q \in Requests
                  PROVE  /\ db.approval[q].status # "pending"
                         /\ db.approval[q].intent # "recorded"
                         /\ db.run = "completed" =>
                              db.approval[q].status \in {"unasked", "approved"}
      BY DEF OutcomeClosesRequests
    <2>1. db.approval[q] \in ApprovalRow
      BY DEF IInv, TypeOK, RunRow
    <2>. QED  BY <2>1 DEF IInv, DbInv, Terminal, ApprovalRow
  <1>. QED  BY <1>1, InductiveInvariant, PTL

\* An owned run gets its outcome only after the calls under way have
\* settled (finish_control_executions before every terminal write).
THEOREM ControlsSettle == Spec => []ControlsSettleBeforeOutcome
  <1>1. IInv => ControlsSettleBeforeOutcome
    BY DEF IInv, PhaseInv, Answering, Steering, ControlsSettleBeforeOutcome
  <1>. QED  BY <1>1, InductiveInvariant, PTL
-----------------------------------------------------------------------------
(* A parked root is woken. *)

\* What a step may do to the root and to the shared state without losing a
\* wake-up: the root is not parked, the permit is there, or neither the
\* root's place nor the selection nor the permit changes.
NoneLost ==
  \/ root'.pc # "parked"
  \/ shared'.wake
  \/ /\ root'.pc = root.pc
     /\ shared'.pending = shared.pending
     /\ shared'.wake = shared.wake

\* A step that loses no wake-up keeps the property.
LEMMA NoneLostWakes ==
  ASSUME AnswerWakesRoot, NoneLost
  PROVE  AnswerWakesRoot'
  BY DEF AnswerWakesRoot, NoneLost

\* The steps of the root and of the provider: only RootParks parks the root,
\* and only with a request selected.
LEMMA RootLosesNoWake ==
  ASSUME IInv, AnswerWakesRoot, RootStep \/ ProviderEvent
  PROVE  AnswerWakesRoot'
  <1>0. root \in RootTask /\ shared \in ActiveRun
    BY DEF IInv, TypeOK
  <1>1. \A finish : RootFinishes(finish) => root'.pc # "parked"
    BY <1>0 DEF RootFinishes, RootTask
  <1>2. CASE RootParks
    BY <1>2 DEF RootParks, AnswerWakesRoot
  <1>3. CASE RootStops \/ RootSeesClosedStream \/ EnqueueRequest
    BY <1>0, <1>1, <1>3, NoneLostWakes
       DEF RootStops, RootSeesClosedStream, EnqueueRequest, NoneLost, RootTask
  <1>4. CASE RootWakes \/ RootReviews \/ RootRecords
    <2>1. root'.pc # "parked"
      BY <1>0, <1>4 DEF RootWakes, RootReviews, RootRecords, RootTask
    <2>. QED  BY <2>1, NoneLostWakes DEF NoneLost
  <1>5. CASE \E closed, shut \in BOOLEAN : RootClosesTurn(closed, shut)
    <2>1. root'.pc # "parked"
      BY <1>0, <1>5 DEF RootClosesTurn, RootTask
    <2>. QED  BY <2>1, NoneLostWakes DEF NoneLost
  <1>6. CASE PublishQueued \/ \E q \in Requests : PublishReceived(q)
    <2>1. root'.pc # "parked"
      BY <1>0, <1>1, <1>6
         DEF PublishQueued, PublishReceived, SelectRequest, RootTask
    <2>. QED  BY <2>1, NoneLostWakes DEF NoneLost
  <1>7. CASE SettleControl
    BY <1>7, NoneLostWakes DEF SettleControl, NoneLost
  <1>8. CASE \E q \in Requests : ReceiveRequest(q)
    <2>1. root'.pc # "parked"
      BY <1>0, <1>8 DEF ReceiveRequest, RootTask
    <2>. QED  BY <2>1, NoneLostWakes DEF NoneLost
  <1>9. CASE \/ \E status \in ProviderTerminal : ReceiveTerminal(status)
             \/ ReceiveError \/ ReceiveClose \/ ReceiveUnrecordable
    <2>1. root'.pc # "parked"
      BY <1>0, <1>1, <1>9
         DEF ReceiveTerminal, ReceiveError, ReceiveClose, ReceiveUnrecordable,
             RootTask
    <2>. QED  BY <2>1, NoneLostWakes DEF NoneLost
  <1>. QED  BY <1>2, <1>3, <1>4, <1>5, <1>6, <1>7, <1>8, <1>9
            DEF RootStep, ProviderEvent

\* The steps of the jobs: whoever deselects a request leaves a permit.
LEMMA JobsLoseNoWake ==
  ASSUME IInv, AnswerWakesRoot, ResponseStep \/ SteeringStep \/ AdapterStep
  PROVE  AnswerWakesRoot'
  <1>0. shared \in ActiveRun
    BY DEF IInv, TypeOK
  <1>1. \A q, acknowledged : Cleared(q, acknowledged).wake
    BY <1>0 DEF Cleared, ActiveRun
  <1>2. CASE ResponseIsRefused \/ ResponseIsAcknowledged \/ ResponseClears
    <2>1. UNCHANGED root
      BY <1>2 DEF ResponseIsRefused, ResponseIsAcknowledged, ResponseClears
    <2>2. \/ shared'.wake
          \/ shared'.pending = shared.pending /\ shared'.wake = shared.wake
      BY <1>0, <1>1, <1>2
         DEF ResponseIsRefused, ResponseIsAcknowledged, ResponseClears,
             ActiveRun, Cleared
    <2>. QED  BY <2>1, <2>2, NoneLostWakes DEF NoneLost
  <1>3. CASE ResponseBegins \/ ResponseRecordsIntent \/ ResponseFences
             \/ ResponseReturns("cancelled")
    <2>1. UNCHANGED root
      BY <1>3 DEF ResponseBegins, ResponseRecordsIntent, ResponseFences,
                  ResponseReturns
    <2>2. \/ shared'.wake
          \/ shared'.pending = shared.pending /\ shared'.wake = shared.wake
      BY <1>0, <1>3 DEF ResponseBegins, ResponseRecordsIntent, ResponseFences,
                        ResponseReturns, ActiveRun
    <2>. QED  BY <2>1, <2>2, NoneLostWakes DEF NoneLost
  <1>4. CASE SteeringStep \/ AdapterStep
    <2>1. UNCHANGED <<root, shared>>
      BY <1>4 DEF SteeringStep, AdapterStep, SteeringBegins, SteeringFences,
                  SteeringCancelled, SteeringIsRecorded, AnswerReachesProvider,
                  SteeringReachesProvider, ResponseReturns, SteeringReturns,
                  AbandonedAnswerReachesProvider
    <2>. QED  BY <2>1, NoneLostWakes DEF NoneLost
  <1>. QED  BY <1>2, <1>3, <1>4 DEF ResponseStep

\* The steps of the manager and the environment: a repaired answer leaves a
\* permit as well, and so does everything that stops the attempt.
LEMMA ManagerLosesNoWake ==
  ASSUME IInv, AnswerWakesRoot, ManagerStep \/ Environment
  PROVE  AnswerWakesRoot'
  <1>0. shared \in ActiveRun /\ root \in RootTask
    BY DEF IInv, TypeOK
  <1>1. CASE JoinPanickedResponse \/ AbandonPanickedResponse
    <2>1. UNCHANGED root
      BY <1>1 DEF JoinPanickedResponse, AbandonPanickedResponse
    <2>2. \/ shared'.wake
          \/ shared'.pending = shared.pending /\ shared'.wake = shared.wake
      BY <1>0, <1>1 DEF JoinPanickedResponse, AbandonPanickedResponse, Cleared,
                        Signalled, ActiveRun
    <2>. QED  BY <2>1, <2>2, NoneLostWakes DEF NoneLost
  <1>2. CASE JoinRoot \/ ReconcileRoot \/ RootDies
    <2>1. root'.pc # "parked"
      BY <1>0, <1>2 DEF JoinRoot, ReconcileRoot, RootDies, RootTask
    <2>. QED  BY <2>1, NoneLostWakes DEF NoneLost
  <1>3. CASE RenewalFails \/ CloseSupervisor \/ Interrupt
    <2>1. shared'.wake
      BY <1>0, <1>3 DEF RenewalFails, CloseSupervisor, Interrupt, Stop, ActiveRun
    <2>. QED  BY <2>1, NoneLostWakes DEF NoneLost
  <1>4. CASE ResponsePanics
    <2>1. /\ UNCHANGED root
          /\ shared'.pending = shared.pending /\ shared'.wake = shared.wake
      BY <1>0, <1>4 DEF ResponsePanics, ActiveRun
    <2>. QED  BY <2>1, NoneLostWakes DEF NoneLost
  <1>5. CASE \/ SpawnControl \/ JoinControl \/ ManagerGetsTurn
             \/ \E q \in Requests : Respond(q)
             \/ Steer \/ LoseOwnership \/ ForeignInterrupt \/ SteeringPanics
    <2>1. UNCHANGED <<root, shared>>
      BY <1>5 DEF SpawnControl, JoinControl, ManagerGetsTurn, Respond, Steer,
                  LoseOwnership, ForeignInterrupt, SteeringPanics
    <2>. QED  BY <2>1, NoneLostWakes DEF NoneLost
  <1>. QED  BY <1>1, <1>2, <1>3, <1>4, <1>5 DEF ManagerStep, Environment

\* No wake-up is lost: an acknowledged answer finds the root on its way or
\* leaves it a permit, whichever of them is first (approval_changed).
THEOREM AnswerWakes == Spec => []AnswerWakesRoot
  <1>1. Init => AnswerWakesRoot
    BY DEF Init, AnswerWakesRoot
  <1>2. IInv /\ AnswerWakesRoot /\ [Next]_vars => AnswerWakesRoot'
    <2>. SUFFICES ASSUME IInv, AnswerWakesRoot, [Next]_vars
                  PROVE  AnswerWakesRoot'
      OBVIOUS
    <2>1. CASE UNCHANGED vars
      BY <2>1 DEF vars, AnswerWakesRoot
    <2>. QED  BY <2>1, RootLosesNoWake, JobsLoseNoWake, ManagerLosesNoWake
              DEF Next, Finished
  <1>. QED  BY <1>1, <1>2, InductiveInvariant, PTL DEF Spec
=============================================================================
