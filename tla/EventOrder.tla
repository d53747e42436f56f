----------------------------- MODULE EventOrder -----------------------------
(***************************************************************************)
(* How one running attempt turns the stream of provider events into rows.  *)
(* The root task reads events of the root agent and of native child agents *)
(* (execute_attempt).  At most one request is visible at a time.  While one *)
(* is, further events are appended, staged in the database, deferred in    *)
(* memory or queued, by rules that depend on who waits and on whether an    *)
(* answer is in flight; the acknowledgement publishes what was staged.     *)
(* The response job runs beside the root task and shares the selected      *)
(* request and the database with it.                                       *)
(*                                                                         *)
(* The adapter keeps its contract: a child's operations, requests and end  *)
(* belong to its current turn, a new turn starts after the previous one    *)
(* ended, nothing follows the root's terminal.  An event is its place in   *)
(* `sent`; a request's place is also its id, so ids are not reused.        *)
(* Ownership of the run, panics, and the end of the stream are in Attempt  *)
(* and DispatchLease.                                                      *)
(***************************************************************************)
EXTENDS Naturals, Sequences, FiniteSets, SequencesExt

CONSTANTS
  Root,       \* the root agent
  Children,   \* native child agents
  Busy,       \* which of them may be in their first turn at the start
  MaxEvents,  \* bound: events the provider sends
  MaxTurns,   \* bound: turns of a child (MAX_NATIVE_CHILD_TURNS)
  MaxQueued,  \* MAX_PENDING_CONTROLS as the bound of the queued requests
  MaxDeferred,\* MAX_PENDING_CONTROLS as the bound of the deferred events
  MaxStaged   \* staged rows that are not the overflow marker

ASSUME EventOrderAssumption ==
  /\ Root \notin Children
  /\ IsFiniteSet(Children) /\ Busy \subseteq SUBSET Children
  /\ {MaxEvents, MaxTurns, MaxQueued, MaxDeferred, MaxStaged} \subseteq Nat \ {0}

VARIABLES
  sent,     \* events the root task has received, in order of receipt
  adapter,  \* the adapter's view: turns of the children, answered requests
  mem,      \* the root task's queues and the selected request; `displaced` is
            \* history: a request was selected, or a later event replayed, in
            \* front of output that was not staged
  job,      \* the response job: the request it answers, the adapter's reply
  db,       \* the run's rows: statuses, pending approvals, events, staged
  root      \* the root task: where it is, how it finished

vars == <<sent, adapter, mem, job, db, root>>

Agents == Children \cup {Root}
Terminals == {"completed", "interrupted"}
Outcomes == Terminals \cup {"failed"}
None == 0       \* no event

\* A row is the event it records, or the marker of the event that overflowed.
Marker(n) == MaxEvents + n
IsMarker(row) == row > MaxEvents

Kind(n) == sent[n].kind
Owner(n) == sent[n].agent
SameTurn(m, n) == Owner(m) = Owner(n) /\ sent[m].turn = sent[n].turn

Idle == [req |-> None, reply |-> "none"]

\* The elements of a sequence that are in a set, in their order (SelectSeq, as
\* a function the proofs can unfold).
Sifted(s, S) ==
  LET kept[i \in 0..Len(s)] ==
        IF i = 0 THEN <<>>
        ELSE IF s[i] \in S THEN Append(kept[i - 1], s[i]) ELSE kept[i - 1]
  IN kept[Len(s)]

\* The attempt as it runs: some children are in their first turn, the others
\* have ended theirs.
Init ==
  \E busy \in Busy :
    /\ sent = <<>>
    /\ adapter = [turn |-> [c \in Children |-> 1],
                  active |-> [c \in Children |-> c \in busy],
                  answered |-> {}, ended |-> FALSE]
    /\ mem = [buffered |-> <<>>, prefix |-> 0, deferred |-> <<>>,
              controls |-> <<>>, pending |-> None, hand |-> None,
              displaced |-> FALSE]
    /\ job = Idle
    /\ db = [run |-> "running",
             agent |-> [a \in Agents |-> IF a \in busy \cup {Root} THEN "running"
                                         ELSE "ended"],
             turn |-> [c \in Children |-> 1],
             live |-> [c \in Children |-> c \in busy],
             approvals |-> {}, log |-> <<>>, staged |-> <<>>]
    /\ root = [pc |-> "loop", finish |-> "none"]

-----------------------------------------------------------------------------
(* What the provider may send next.                                        *)

Event == [kind : {"message", "operation", "start", "end", "request"} \cup Terminals,
          agent : Agents, turn : 0..MaxTurns]

MaySend(e) ==
  /\ ~adapter.ended
  /\ \/ /\ e.agent = Root
        /\ e.turn = 0
        /\ e.kind \in {"message", "request"} \cup Terminals
     \/ /\ e.agent \in Children
        /\ e.kind \in {"operation", "end", "request"}
        /\ adapter.active[e.agent]
        /\ e.turn = adapter.turn[e.agent]
     \/ /\ e.agent \in Children
        /\ e.kind = "start"
        /\ ~adapter.active[e.agent]
        /\ e.turn = adapter.turn[e.agent] + 1

Sends(e) ==
  /\ Len(sent) < MaxEvents
  /\ MaySend(e)
  /\ sent' = Append(sent, e)
  /\ adapter' =
       CASE e.kind = "start" -> [adapter EXCEPT !.turn[e.agent] = e.turn,
                                                !.active[e.agent] = TRUE]
         [] e.kind = "end" -> [adapter EXCEPT !.active[e.agent] = FALSE]
         [] e.kind \in Terminals -> [adapter EXCEPT !.ended = TRUE]
         [] OTHER -> adapter

-----------------------------------------------------------------------------
(* Writes to the store, as functions from the rows before to the rows      *)
(* after.                                                                  *)

\* A later snapshot of an operation merges into its row.
Recorded(log, row) ==
  IF ~IsMarker(row) /\ Kind(row) = "operation" /\ Contains(log, row)
  THEN log ELSE Append(log, row)

RowOwner(row) == Owner(IF IsMarker(row) THEN row - MaxEvents ELSE row)

\* What is staged for some agents: those of the run, or one of them.
StagedFor(d, agents) ==
  Sifted(d.staged, {row \in Range(d.staged) : RowOwner(row) \in agents})

\* drain_staged_events_in_transaction
Drained(d, agents) ==
  [d EXCEPT !.log = FoldLeft(Recorded, @, StagedFor(d, agents)),
            !.staged = StagedFor(d, Agents \ agents)]

Logged(d, n) == [d EXCEPT !.log = Recorded(@, n)]

OwnedBy(approvals, a) == {q \in approvals : Owner(q) = a}

\* Mutant: the requests of a child outlive its turn.
ChildEndedAnswerable(d, c) ==
  LET e == [Drained(d, {c}) EXCEPT !.agent[c] = "ended", !.live[c] = FALSE]
  IN IF e.run = "waiting" /\ e.approvals = {} /\ e.agent[Root] = "running"
     THEN [e EXCEPT !.run = "running"] ELSE e

\* A child's turn ends: what it staged is published first, its requests are
\* closed, and the run leaves Waiting if nothing else holds it there.
ChildEnded(d, c) ==
  LET e == [Drained(d, {c}) EXCEPT !.agent[c] = "ended", !.live[c] = FALSE,
                                   !.approvals = @ \ OwnedBy(@, c)]
  IN IF e.run = "waiting" /\ e.approvals = {} /\ e.agent[Root] = "running"
     THEN [e EXCEPT !.run = "running"] ELSE e

EndRecorded(d, n) == Logged(ChildEnded(d, Owner(n)), n)

\* finalize_attempt: the children that still run are closed, then the root.
RunClosed(d, status) ==
  LET live == SetToSeq({c \in Children : d.agent[c] \in {"running", "waiting"}})
      e == FoldLeft(ChildEnded, d, live)
  IN [Drained(e, Agents) EXCEPT !.run = status, !.agent[Root] = "ended",
                                !.approvals = {}]

\* load_active_native_child_agent, and the ownership test of operations
LiveTurn(d, n) == Owner(n) \in Children /\ d.live[Owner(n)]
                  /\ d.turn[Owner(n)] = sent[n].turn

RequestRecorded(d, q) ==
  [Logged(d, q) EXCEPT !.run = "waiting", !.agent[Owner(q)] = "waiting",
                       !.approvals = @ \cup {q}]

MayRecordRequest(d, q) ==
  /\ d.agent[Owner(q)] = "running"
  /\ IF Owner(q) = Root THEN d.run = "running"
     ELSE d.run \in {"running", "waiting"} /\ LiveTurn(d, q)

-----------------------------------------------------------------------------
(* The root task.                                                          *)

Responding == job.req # None
PendingChild == mem.pending # None /\ Owner(mem.pending) \in Children

Finish(cause, status) ==
  /\ root' = [pc |-> "done", finish |-> cause]
  /\ db' = RunClosed(db, status)
  /\ mem' = [mem EXCEPT !.buffered = <<>>, !.prefix = 0, !.deferred = <<>>,
                        !.controls = <<>>, !.hand = None]
  /\ job' = Idle

Fails(cause) == Finish(cause, "failed")

\* The provider's terminal: a request still open, a child still running
\* under a completion, or an event behind the terminal makes it a failure.
EndsRun(n, behind) ==
  LET broken == \/ mem.pending # None
                \/ behind # <<>>
                \/ /\ Kind(n) = "completed"
                   /\ \E c \in Children : db.agent[c] \in {"running", "waiting"}
  IN Finish("terminal", IF broken THEN "failed" ELSE Kind(n))

Continues == root' = [root EXCEPT !.pc = "loop"]

IsOutput(n) == Kind(n) \in {"message", "operation"}

\* The request becomes the visible one, whatever is in the buffer behind it:
\* output there is not staged, but what is staged from now on follows it.
Selects(m, q) ==
  [m EXCEPT !.pending = q, !.displaced = @ \/ \E n \in Range(m.buffered) : IsOutput(n)]

WithoutControls(queue, n) ==
  IF Kind(n) = "end"
  THEN Sifted(queue, {m \in DOMAIN sent : ~(Kind(m) = "request" /\ SameTurn(m, n))})
  ELSE queue

\* persist_child_event, after remove_ended_child_controls
PersistChildEvent(n, m) ==
  LET c == Owner(n)
      selected == m.pending # None /\ SameTurn(m.pending, n)
      rest == [m EXCEPT !.controls = WithoutControls(@, n)]
      started == /\ ~db.live[c]
                 /\ sent[n].turn > db.turn[c]
                 /\ db.agent[c] # "waiting"
      accepted == CASE Kind(n) = "start" -> started
                    [] Kind(n) = "end" -> LiveTurn(db, n)
                         /\ (selected \/ OwnedBy(db.approvals, c) = {})
                    [] Kind(n) = "request" -> MayRecordRequest(db, n)
  IN IF ~accepted THEN Fails("error")
     ELSE /\ db' = CASE Kind(n) = "start" ->
                          [Logged(db, n) EXCEPT !.turn[c] = sent[n].turn,
                                                !.live[c] = TRUE,
                                                !.agent[c] = "running"]
                     [] Kind(n) = "end" ->
                          EndRecorded(db, n)
                     [] Kind(n) = "request" -> RequestRecorded(db, n)
          /\ mem' = CASE Kind(n) = "request" -> Selects(rest, n)
                      [] Kind(n) = "end" /\ selected ->
                           [rest EXCEPT !.pending = None]
                      [] OTHER -> rest
          /\ Continues
          /\ UNCHANGED job

\* append_run_event for output; an operation of a turn the store does not
\* know as running is discarded.
AppendOutput(n, m) ==
  IF Kind(n) = "operation" /\ ~LiveTurn(db, n)
  THEN Continues /\ mem' = m /\ UNCHANGED <<db, job>>
  ELSE IF db.agent[Owner(n)] # "running" THEN Fails("error")
  ELSE /\ db' = Logged(db, n)
       /\ mem' = m
       /\ Continues
       /\ UNCHANGED job

\* stage_waiting_event_inner: the next row is the marker of the overflow.
StagingFull == Len(db.staged) >= MaxStaged

\* stage_waiting_event
StageOutput(n, m) ==
  IF Kind(n) = "operation" /\ ~LiveTurn(db, n)
  THEN Continues /\ mem' = m /\ UNCHANGED <<db, job>>
  ELSE IF ~(/\ db.run = "waiting"
            /\ \/ db.agent[Owner(n)] = "waiting"
               \/ Kind(n) = "operation" /\ db.agent[Owner(n)] = "running")
  THEN Fails("error")
  ELSE IF StagingFull
  THEN /\ root' = [pc |-> "done", finish |-> "capacity"]
       /\ db' = RunClosed([db EXCEPT !.staged = Append(@, Marker(n))], "failed")
       /\ mem' = [m EXCEPT !.buffered = <<>>, !.prefix = 0, !.deferred = <<>>,
                           !.controls = <<>>, !.hand = None]
       /\ job' = Idle
  ELSE /\ db' = [db EXCEPT !.staged = Append(@, n)]
       /\ mem' = [m EXCEPT !.buffered = Append(@, n), !.prefix = @ + 1]
       /\ Continues
       /\ UNCHANGED job

-----------------------------------------------------------------------------
(* The top of the loop.                                                    *)

\* Deferred events go behind the prefix the acknowledgement will discard, and
\* in front of the rest, whenever that was received.
ReplayDeferred ==
  LET rest == SubSeq(mem.buffered, mem.prefix + 1, Len(mem.buffered)) IN
  /\ root.pc = "loop"
  /\ mem.deferred # <<>>
  /\ ~Responding
  /\ mem' = [mem EXCEPT
       !.buffered = SubSeq(@, 1, mem.prefix) \o mem.deferred \o rest,
       !.deferred = <<>>,
       !.displaced = @ \/ \E n \in Range(rest) :
                             IsOutput(n) /\ \E m \in Range(mem.deferred) : n < m]
  /\ UNCHANGED <<sent, adapter, job, db, root>>

Replayed == mem.deferred = <<>> \/ Responding

DiscardPrefixLong ==
  /\ root.pc = "loop"
  /\ Replayed
  /\ mem.pending = None
  /\ mem.prefix # 0
  /\ mem' = [mem EXCEPT !.buffered = SubSeq(@, mem.prefix + 2, Len(@)), !.prefix = 0]
  /\ UNCHANGED <<sent, adapter, job, db, root>>

\* The acknowledgement has recorded the staged prefix.
DiscardPrefix ==
  /\ root.pc = "loop"
  /\ Replayed
  /\ mem.pending = None
  /\ mem.prefix # 0
  /\ mem' = [mem EXCEPT !.buffered = SubSeq(@, mem.prefix + 1, Len(@)),
                        !.prefix = 0]
  /\ UNCHANGED <<sent, adapter, job, db, root>>

-----------------------------------------------------------------------------
(* While a request is visible.                                             *)

Parked == root.pc = "loop" /\ Replayed /\ mem.pending # None

\* What the loop takes from its buffer before it listens to the provider.
Due == /\ mem.buffered # <<>>
       /\ ~IsOutput(Head(mem.buffered))

TakeDue ==
  /\ Parked
  /\ Due
  /\ mem' = [mem EXCEPT !.hand = Head(mem.buffered), !.buffered = Tail(@)]
  /\ root' = [root EXCEPT !.pc = "received"]
  /\ UNCHANGED <<sent, adapter, job, db>>

ReceiveWaiting ==
  /\ Parked
  /\ ~Due
  /\ \E e \in Event : Sends(e)
  /\ mem' = [mem EXCEPT !.hand = Len(sent) + 1]
  /\ root' = [root EXCEPT !.pc = "received"]
  /\ UNCHANGED <<job, db>>

FollowsDeferred(n) ==
  \E i \in DOMAIN mem.deferred :
    LET m == mem.deferred[i] IN
    \/ Kind(m) \in Terminals
    \/ Kind(m) = "end" /\ Owner(m) = Owner(n)

WaitingTerminal(n) ==
  /\ Responding
  /\ PendingChild
  /\ \/ Kind(n) \in Terminals
     \/ Kind(n) = "end" /\ SameTurn(mem.pending, n)

LaterControl(n) == mem.deferred # <<>> /\ Kind(n) = "request"

\* The decision is taken on what the response job has done by then.
Classify ==
  LET n == mem.hand IN
  /\ root.pc = "received"
  /\ UNCHANGED <<sent, adapter>>
  /\ IF FollowsDeferred(n) \/ WaitingTerminal(n) \/ LaterControl(n)
     THEN IF Len(mem.deferred) >= MaxDeferred THEN Fails("capacity")
          ELSE /\ mem' = [mem EXCEPT !.deferred = Append(@, n), !.hand = None]
               /\ Continues
               /\ UNCHANGED <<job, db>>
     ELSE IF Kind(n) \in Terminals THEN EndsRun(n, <<>>)
     ELSE /\ mem' = [mem EXCEPT !.deferred = WithoutControls(@, n)]
          /\ root' = [root EXCEPT !.pc = "gate"]
          /\ UNCHANGED <<job, db>>

\* Under the attempt gate, which the response job may have held meanwhile.
HandleWaiting ==
  LET n == mem.hand
      m == [mem EXCEPT !.hand = None]
  IN
  /\ root.pc = "gate"
  /\ UNCHANGED <<sent, adapter>>
  /\ CASE Kind(n) = "request" ->
            IF Len(mem.controls) >= MaxQueued THEN Fails("capacity")
            ELSE IF Owner(n) # Root /\ ~LiveTurn(db, n) THEN Fails("error")
            ELSE /\ mem' = [m EXCEPT !.controls = Append(@, n)]
                 /\ Continues
                 /\ UNCHANGED <<job, db>>
       [] Kind(n) \in {"start", "end"} -> PersistChildEvent(n, m)
       [] OTHER ->
            IF mem.pending = None
            THEN /\ mem' = [m EXCEPT !.buffered = Append(@, n)]
                 /\ Continues
                 /\ UNCHANGED <<job, db>>
            ELSE IF PendingChild /\ Owner(n) # Owner(mem.pending)
            THEN AppendOutput(n, m)
            ELSE StageOutput(n, m)

-----------------------------------------------------------------------------
(* While no request is visible.                                            *)

Listening == /\ root.pc = "loop"
             /\ Replayed
             /\ mem.pending = None
             /\ mem.prefix = 0

QueuedControlFirst == /\ mem.controls # <<>>
                      /\ mem.buffered # <<>>
                      /\ Kind(Head(mem.buffered)) = "request"

Process(n, m) ==
  CASE Kind(n) \in Terminals -> EndsRun(n, m.buffered)
    [] Kind(n) = "request" /\ Owner(n) = Root ->
         IF MayRecordRequest(db, n)
         THEN /\ db' = RequestRecorded(db, n)
              /\ mem' = Selects(m, n)
              /\ Continues
              /\ UNCHANGED job
         ELSE Fails("error")
    [] IsOutput(n) -> AppendOutput(n, m)
    [] OTHER -> PersistChildEvent(n, m)

ProcessBuffered ==
  /\ Listening
  /\ mem.buffered # <<>>
  /\ ~QueuedControlFirst
  /\ Process(Head(mem.buffered), [mem EXCEPT !.buffered = Tail(@)])
  /\ UNCHANGED <<sent, adapter>>

PublishQueued ==
  LET n == Head(mem.controls) IN
  /\ Listening
  /\ mem.controls # <<>>
  /\ mem.buffered = <<>> \/ QueuedControlFirst
  /\ IF Owner(n) # Root /\ ~LiveTurn(db, n) THEN Fails("error")
     ELSE Process(n, [mem EXCEPT !.controls = Tail(@)])
  /\ UNCHANGED <<sent, adapter>>

ReceiveRunning ==
  /\ Listening
  /\ mem.buffered = <<>>
  /\ mem.controls = <<>>
  /\ mem' = [mem EXCEPT !.buffered = <<Len(sent) + 1>>]
  /\ \E e \in Event : Sends(e)
  /\ UNCHANGED <<job, db, root>>

\* Interrupt, shutdown, an error of the provider, the end of the stream.
TurnBreaks ==
  /\ root.pc = "loop"
  /\ \E status \in {"interrupted", "failed"} : Finish("broken", status)
  /\ UNCHANGED <<sent, adapter>>

-----------------------------------------------------------------------------
(* The response job.                                                       *)

Respond ==
  /\ root.pc # "done"
  /\ mem.pending # None
  /\ ~Responding
  /\ job' = [req |-> mem.pending, reply |-> "sent"]
  /\ UNCHANGED <<sent, adapter, mem, db, root>>

\* The adapter still has the request open.
Open(q) ==
  /\ q \notin adapter.answered
  /\ ~adapter.ended
  /\ Owner(q) \in Children =>
       adapter.active[Owner(q)] /\ adapter.turn[Owner(q)] = sent[q].turn

AdapterReplies ==
  /\ job.reply = "sent"
  /\ \/ /\ Open(job.req)
        /\ job' = [job EXCEPT !.reply = "ok"]
        /\ adapter' = [adapter EXCEPT !.answered = @ \cup {job.req}]
     \/ /\ job' = [job EXCEPT !.reply = "refused"]
        /\ UNCHANGED adapter
  /\ UNCHANGED <<sent, mem, db, root>>

ResponseIsRefused ==
  /\ job.reply = "refused"
  /\ job' = Idle
  /\ UNCHANGED <<sent, adapter, mem, db, root>>

\* Mutant: the acknowledgement leaves the staged rows where they are.
AcknowledgedUndrained(d, q) ==
  LET a == Owner(q)
      e == [d EXCEPT !.approvals = @ \ {q}, !.agent[a] = "running"]
      waits == e.approvals # {} \/ (a # Root /\ d.agent[Root] = "waiting")
  IN IF waits THEN e ELSE [e EXCEPT !.run = "running"]

\* acknowledge_response_intent
Acknowledged(d, q) ==
  LET a == Owner(q)
      e == Drained([d EXCEPT !.approvals = @ \ {q}, !.agent[a] = "running"], {a})
      waits == e.approvals # {} \/ (a # Root /\ d.agent[Root] = "waiting")
  IN IF waits THEN e ELSE [e EXCEPT !.run = "running"]

ResponseIsAcknowledged ==
  LET q == job.req
      allowed == /\ q \in db.approvals
                 /\ db.agent[Owner(q)] = "waiting"
                 /\ Owner(q) # Root => LiveTurn(db, q)
  IN
  /\ job.reply = "ok"
  /\ job' = Idle
  /\ db' = IF allowed THEN Acknowledged(db, q) ELSE db
  /\ mem' = IF allowed /\ mem.pending = q THEN [mem EXCEPT !.pending = None]
            ELSE mem
  /\ UNCHANGED <<sent, adapter, root>>

-----------------------------------------------------------------------------
RootStep ==
  \/ ReplayDeferred \/ DiscardPrefix \/ TakeDue \/ Classify \/ HandleWaiting
  \/ ProcessBuffered \/ PublishQueued

ResponseStep ==
  AdapterReplies \/ ResponseIsRefused \/ ResponseIsAcknowledged

Next == \/ RootStep \/ ResponseStep
        \/ ReceiveWaiting \/ ReceiveRunning \/ TurnBreaks \/ Respond

Spec == Init /\ [][Next]_vars

-----------------------------------------------------------------------------
(* Properties.                                                             *)

\* The events, queues and rows have their types, and no queue of the root task
\* or of the store is ever longer than its limit.
TypeOK ==
  /\ sent \in Seq(Event)
  /\ Len(sent) <= MaxEvents
  /\ mem.prefix \in 0..MaxEvents
  /\ {mem.pending, mem.hand, job.req} \subseteq {None} \cup DOMAIN sent
  /\ \A q \in {mem.buffered, mem.deferred, mem.controls} : q \in Seq(DOMAIN sent)
  /\ Len(mem.deferred) <= MaxDeferred
  /\ Len(mem.controls) <= MaxQueued
  /\ {db.log, db.staged} \subseteq Seq(1..2 * MaxEvents)
  /\ Len(db.staged) <= MaxStaged
  /\ db.run \in {"running", "waiting"} \cup Outcomes
  /\ db.agent \in [Agents -> {"running", "waiting", "ended"}]
  /\ job.reply \in {"none", "sent", "ok", "refused"}
  /\ root \in [pc : {"loop", "received", "gate", "done"},
               finish : {"none", "terminal", "capacity", "error", "broken"}]

EventRows(rows) == LET IsEvent(row) == ~IsMarker(row) IN SelectSeq(rows, IsEvent)

Ascending(s) == \A i, j \in DOMAIN s : i < j => s[i] < s[j]

\* Each event is recorded at most once: no row is both published and staged,
\* published twice, or staged twice (persisted while a request was visible and
\* processed again from memory after it).
RecordedOnce == IsInjective(db.log \o db.staged)

\* The first `prefix` events of the buffer are exactly those the store has
\* already staged or published, so that the discard after the acknowledgement
\* (execute_attempt) drops what is recorded and nothing else.
PrefixIsStaged ==
  /\ mem.prefix <= Len(mem.buffered)
  /\ \A i \in DOMAIN mem.buffered :
       i <= mem.prefix <=> Contains(db.staged \o db.log, mem.buffered[i])

\* A run recorded as completed has recorded everything the provider sent but
\* requests that ended with their turn.
NothingLost ==
  db.run = "completed" =>
    \A n \in DOMAIN sent :
      Kind(n) \in {"message", "operation", "start", "end"} => Contains(db.log, n)

\* Between the well-typed queues of the root task and the rows of the store no
\* event is recorded twice, skipped or lost, whichever of them it went through.
\* The exception is a run that displaced output which was not staged.  When a
\* request was selected in front of it, the discard after the acknowledgement
\* takes as many events off the buffer as were staged since, from its front,
\* where that output is: it is lost, and a staged event is left behind and
\* recorded a second time.  When the end of its turn was replayed in front of it,
\* it is discarded as output of a turn that is over.
RecordedExactly ==
  TypeOK /\ (~mem.displaced => RecordedOnce /\ PrefixIsStaged /\ NothingLost)

\* The output of the root agent is published in the order of receipt, across
\* direct appends, staging, deferral and replay.
RootInOrder ==
  LET RootOutput(n) == Kind(n) = "message" /\ Owner(n) = Root
  IN Ascending(SelectSeq(EventRows(db.log), RootOutput))

\* Requests become visible in the order of receipt, whichever queue they
\* passed through (pending_controls, deferred_events, buffered).
RequestsInOrder ==
  LET Request(n) == Kind(n) = "request"
  IN Ascending(SelectSeq(EventRows(db.log), Request))

\* A child's turn has no row behind its end: what it staged is published first.
EndIsLast ==
  LET rows == EventRows(db.log)
  IN \A i, j \in DOMAIN rows :
       (i < j /\ Kind(rows[i]) = "end") => ~SameTurn(rows[i], rows[j])

\* A staged row belongs to an agent that has not ended, so that something is
\* still to come that publishes it.
StagedLive == \A i \in DOMAIN db.staged : db.agent[RowOwner(db.staged[i])] # "ended"

\* What is published is in the order the provider sent it, as far as the code
\* promises one: a child's turn before its end, and, unless output that was not
\* staged has been displaced, requests and the output of the root.
PublishedInOrder ==
  (~mem.displaced => RootInOrder /\ RequestsInOrder) /\ EndIsLast /\ StagedLive

\* The request the root task has selected and the pending approval of the store
\* are the same one, whoever owns it and however it came to be selected; and
\* the run is Waiting exactly while there is one (acknowledgement, and a child
\* ending under its request: reconcile_child_control_waiting).
WaitsForOneRequest ==
  root.pc # "done" =>
    /\ db.approvals = {mem.pending} \ {None}
    /\ db.run = "waiting" <=> db.approvals # {}

=============================================================================
