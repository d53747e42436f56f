---------------------------- MODULE CodexChildren ----------------------------
(* Child agents of one Codex root turn (codex_children.rs, and the parts of  *)
(* codex.rs that carry them).  Messages of threads the dispatcher does not    *)
(* know yet are held back while it asks the server for their ancestry;        *)
(* verified children own turns and requests of their own; cancellation drops  *)
(* what is held back but answers its requests; the owner's shutdown waits for *)
(* the end of every child turn.                                              *)
(*                                                                          *)
(* The root's registration and interrupt are CodexTurns': here the root is    *)
(* running with its id known, and its end is one message.                    *)
EXTENDS Naturals, Sequences, FiniteSets, SequencesExt

CONSTANTS
  Root,       \* the thread of the root turn
  Threads,    \* the other threads of the connection
  None,       \* the parent of a thread that nobody spawned
  Requests,   \* ids of the server's requests
  Scopes,     \* families of threads, with bounds for each
  MaxTurns,   \* turns of a child thread, in every scope
  MaxWire     \* messages not yet read

ASSUME ChildrenAssumption ==
  /\ Scopes \subseteq [parent : [Threads -> Threads \cup {Root, None}], spawned : SUBSET Threads,
                       declared : SUBSET Threads, turns : 0..MaxTurns, mentions : Nat, late : Nat,
                       overflows : Nat]
  /\ Root \notin Threads
  /\ None \notin Threads \cup {Root}
  /\ {MaxTurns, MaxWire} \subseteq Nat

VARIABLES
  d,       \* the dispatcher
  owner,   \* what the owner of the root turn does
  server,  \* the turns of the threads
  wire,    \* what the server has written
  scope    \* the family, with what may still be mentioned, be late and overflow

vars == <<d, owner, server, wire, scope>>

\* What the server knows: the thread that spawned a thread.
Parent == scope.parent

-----------------------------------------------------------------------------
\* ChildTurn; turn 0 is none.
NoTurn == [turn |-> 0, ended |-> TRUE, sealed |-> FALSE]

(* Mutant: a turn that takes no more counts as ended. *)
LiveUnsealed(x) == {t \in Threads : ~x.turns[t].ended /\ ~x.turns[t].sealed}

\* NativeTurns::live
Live(x) == {t \in Threads : ~x.turns[t].ended}

\* children::owner, for a registered root
Owned(x, t) == x.root # "gone" /\ (t = Root \/ t \in x.known)

Receptive(x) == x.root = "running" /\ ~x.cancelled

\* Children::seal
Sealed(x, t, n) ==
  IF x.turns[t].turn = n THEN [x EXCEPT !.turns[t].sealed = TRUE] ELSE x

Answer(x, qs) ==
  [x EXCEPT !.requests = [q \in Requests |-> IF q \in qs THEN "answered" ELSE @[q]],
            !.writes   = [q \in Requests |-> IF q \in qs THEN @[q] + 1 ELSE @[q]]]

\* reject_server_requests
RejectedOf(x, t) ==
  Answer(x, {q \in Requests : x.requests[q] = "open" /\ server.asked[q].thread = t})

Fail(x) == [x EXCEPT !.failed = TRUE]

\* deliver_or_buffer_turn_event; what overflows cancels the root.
Deliver(x, event) ==
  CASE x.root # "running" -> x
    [] x.root = "running" /\ x.full ->
         LET rejected == RejectedOf(x, Root) IN
         IF x.interrupting THEN rejected
         ELSE [rejected EXCEPT !.cancelled = TRUE, !.interrupting = TRUE,
                               !.overran = TRUE, !.sent = @ \cup {<<Root, 0>>}]
    [] OTHER -> [x EXCEPT !.log = Append(@, event)]

Event(kind, t, n) == [kind |-> kind, thread |-> t, turn |-> n]

\* Children::queue
Queue(x, w) == [x EXCEPT !.queue = Append(@, w)]

-----------------------------------------------------------------------------
(* Messages of the root and of verified children, when nothing holds them.   *)

\* children::active
Active(x, t, n) ==
  /\ Receptive(x)
  /\ ~x.terminal
  /\ t \in Threads => x.turns[t].turn = n /\ ~x.turns[t].ended /\ ~x.turns[t].sealed

\* handle_server_request
Request(x, w) ==
  IF Owned(x, w.thread) /\ Active(x, w.thread, w.turn)
  THEN Deliver([x EXCEPT !.requests[w.q] = "open"], Event("ask", w.thread, w.turn))
  ELSE Answer(x, {w.q})

\* Children::start; a turn that was known is not started again.
Start(x, w) ==
  LET t == w.thread IN
  CASE ~Receptive(x) -> x
    [] Receptive(x) /\ w.turn <= x.turns[t].turn ->
         IF w.turn = x.turns[t].turn /\ ~x.turns[t].ended THEN x ELSE Fail(x)
    [] Receptive(x) /\ w.turn > x.turns[t].turn /\ ~x.turns[t].ended -> Fail(x)
    [] OTHER -> Deliver([x EXCEPT !.turns[t] = [turn |-> w.turn, ended |-> FALSE, sealed |-> FALSE]],
                        Event("started", t, w.turn))

\* handle_child_notification: turn/completed
Complete(x, w) ==
  LET t == w.thread IN
  IF x.turns[t].turn # w.turn \/ x.turns[t].ended THEN x
  ELSE Deliver(RejectedOf([x EXCEPT !.turns[t].ended = TRUE], t),
               Event("completed", t, w.turn))

\* close_root_stream; the registration stays while children live.
CloseRoot(x) ==
  IF Live(x) = {} THEN [x EXCEPT !.root = "gone", !.queue = <<>>]
  ELSE [x EXCEPT !.root = "closed", !.terminal = TRUE, !.resolving = FALSE]

EndRoot(x, w) ==
  IF x.root # "running" THEN x
  ELSE LET rejected == RejectedOf(x, Root)
           told == [rejected EXCEPT !.log = Append(@, Event("end", Root, 0))]
       IN CloseRoot(told)

\* request_metadata: a lookup that asks for a thread.
AskedFor(x, kind, t, chain, held) ==
  [x EXCEPT !.resolving = TRUE,
            !.lookups = Append(@, [kind |-> kind, requested |-> t, chain |-> chain,
                                   held |-> held, live |-> TRUE])]

\* Children::observe_activity: an item is told of when it starts and when it ends.
Observed(x, w) ==
  IF w.child \in x.observed THEN x
  ELSE Deliver([x EXCEPT !.observed = @ \cup {w.child}], Event("activity", w.child, 0))

\* Children::observe_spawn: the root declares a child, without a lookup.  Nobody
\* listens to the declarations of a child.
Declare(x, w) ==
  IF x.root # "running" \/ w.thread # Root THEN x
  ELSE Deliver([x EXCEPT !.known = @ \cup {w.child}], Event("declared", w.child, 0))

\* resolve_activity, of a child the root or a verified child talks about
Activity(x, w) ==
  CASE ~Receptive(x) -> x
    [] Receptive(x) /\ w.child \in x.known -> Observed(x, w)
    [] OTHER -> AskedFor(Queue(x, w), "activity", w.child, <<>>, <<>>)

\* publish_identity
Publish(x, t) ==
  Deliver([x EXCEPT !.known = @ \cup {t}], Event("identity", t, 0))

\* announce_thread
Announce(x, t) == IF Receptive(x) /\ ~x.terminal THEN Publish(x, t) ELSE x

\* handle_server_request, handle_notification
Handle(x, w) ==
  CASE w.m = "ask" -> Request(x, w)
    [] w.m = "started" -> Start(x, w)
    [] w.m = "completed" -> Complete(x, w)
    [] w.m = "activity" -> Activity(x, w)
    [] w.m = "spawn" -> Declare(x, w)
    [] w.m = "end" -> EndRoot(x, w)
    [] w.m = "output" -> Deliver(x, Event("output", Root, 0))
    [] w.m = "threadStarted" -> Announce(x, w.thread)

\* handle_server_message of a thread that is known, with correlate: while the
\* root resolves, notifications of the root and all messages of its children
\* wait; the end of a child seals it when it is received.
Route(x, w) ==
  LET seen == IF w.m = "completed" THEN Sealed(x, w.thread, w.turn) ELSE x
      held == seen.resolving /\ ~seen.cancelled
  IN IF held /\ (w.thread # Root \/ w.m # "ask")
     THEN Queue(IF w.m = "end" THEN [seen EXCEPT !.terminal = TRUE] ELSE seen, w)
     ELSE Handle(seen, w)

-----------------------------------------------------------------------------
(* Ancestry.                                                                *)

Pending(x) == {i \in DOMAIN x.lookups : x.lookups[i].live}

\* flush_resolved_roots: what a replayed message starts to resolve holds back
\* the messages behind it again.
Flush(x) ==
  LET free == [x EXCEPT !.resolving = FALSE, !.queue = <<>>] IN
  CASE ~Receptive(x) -> x
    [] Receptive(x) /\ Pending(x) # {} -> x
    [] OTHER -> FoldLeft(Route, free, x.queue)

Dropped(x, i) == [x EXCEPT !.lookups[i].live = FALSE]

RequestsIn(messages) ==
  {messages[k].q : k \in {j \in DOMAIN messages : messages[j].m = "ask"}}

(* Mutant: what the root holds back is not looked at. *)
RejectLookupOnly(x, i) == Answer(Dropped(x, i), RequestsIn(x.lookups[i].held))

\* reject_discovery
RejectLookup(x, i) ==
  Flush(Answer(Dropped(x, i), RequestsIn(x.lookups[i].held)))

(* Mutant: the thread that was asked for first is published first. *)
YoungestFirst(l) == Reverse(<<l.requested>> \o l.chain)

\* Lookup::chain, from the thread whose parent is known
Eldest(l) == <<l.requested>> \o l.chain

\* parse_metadata
HasParent(t) == Parent[t] # None

\* accept_metadata: the chain is published from its eldest, and the messages
\* of the discovered threads go in front of what the root held back.
Accept(x, i) ==
  LET l == x.lookups[i]
      p == Parent[l.requested]
      chain == Eldest(l)
  IN CASE ~Receptive(x) /\ l.kind = "activity" -> Dropped(x, i)
       [] ~Receptive(x) /\ l.kind = "discovery" -> RejectLookup(x, i)
       [] Receptive(x) /\ ~HasParent(l.requested) ->
            IF l.kind = "discovery" THEN RejectLookup(x, i) ELSE Fail(x)
       [] Receptive(x) /\ (p = Root \/ p \in x.known) ->
            LET known == FoldLeft(Publish, Dropped(x, i), chain) IN
            Flush([known EXCEPT !.queue = l.held \o @])
       [] OTHER -> [x EXCEPT !.lookups[i].requested = p, !.lookups[i].chain = chain]

\* correlate, for a thread that is not known
Correlate(x, w) ==
  LET Concerned(i) ==
        w.thread = x.lookups[i].requested \/ w.thread \in Range(x.lookups[i].chain)
      holders == {i \in Pending(x) : x.lookups[i].kind = "discovery" /\ Concerned(i)}
      askers  == {i \in Pending(x) : x.lookups[i].kind = "activity" /\ Concerned(i)}
      open    == Receptive(x) /\ ~x.terminal
  IN CASE holders # {} ->
            LET i == CHOOSE j \in holders : TRUE IN [x EXCEPT !.lookups[i].held = Append(@, w)]
       [] holders = {} /\ open /\ w.m = "started" ->
            AskedFor(x, "discovery", w.thread, <<>>, <<w>>)
       [] holders = {} /\ open /\ w.m = "threadStarted" /\ HasParent(w.thread) ->
            LET asked == AskedFor(x, "discovery", w.thread, <<>>, <<>>) IN
            Accept(asked, Len(asked.lookups))
       [] holders = {} /\ w.m = "activity" /\ askers # {} /\ Receptive(x) -> Queue(x, w)
       [] holders = {} /\ w.m = "ask" -> Answer(x, {w.q})
       [] OTHER -> x

\* handle_server_message, with the admission of request ids.  `full` says
\* that the consumer has left no place in the stream.
Receive(x, w) ==
  LET admitted == IF w.m = "ask" THEN [x EXCEPT !.requests[w.q] = "held"] ELSE x IN
  CASE w.m = "metadata" -> IF x.lookups[w.lookup].live THEN Accept(x, w.lookup) ELSE x
    [] w.m # "metadata" /\ Owned(x, w.thread) -> Route(admitted, w)
    [] OTHER -> Correlate(admitted, w)

ReadMessage ==
  \E full \in IF scope.overflows > 0 THEN BOOLEAN ELSE {FALSE} :
    /\ ~d.failed
    /\ wire # <<>>
    /\ wire' = Tail(wire)
    /\ d' = [Receive([d EXCEPT !.full = full], Head(wire)) EXCEPT !.full = FALSE]
    /\ full => d'.cancelled /\ ~d.cancelled
    /\ scope' = [scope EXCEPT !.overflows = IF full THEN @ - 1 ELSE @]
    /\ UNCHANGED <<owner, server>>

-----------------------------------------------------------------------------
(* Cancellation and time.                                                   *)

\* discard_cancelled_queue
Discard(x) ==
  LET ends == SelectSeq(x.queue, LAMBDA w : w.m = "completed")
      free == [x EXCEPT !.queue = <<>>, !.resolving = FALSE]
  IN IF ~x.cancelled \/ x.root = "gone" THEN x
     ELSE FoldLeft(Complete, Answer(free, RequestsIn(x.queue)), ends)

\* cancel_registered_turn, for the children: the requests of the live ones are
\* rejected and their turns take no more.
Cancel(x) ==
  LET sealed == [x EXCEPT !.turns = [t \in Threads |->
                   IF x.turns[t].ended THEN @[t] ELSE [@[t] EXCEPT !.sealed = TRUE]]]
      refused == Answer(sealed, {q \in Requests : x.requests[q] = "open"
                                                  /\ server.asked[q].thread \in Live(x)})
  IN IF x.root # "running" \/ x.interrupting THEN x
     ELSE Discard([refused EXCEPT !.cancelled = TRUE, !.interrupting = TRUE,
                                  !.sent = @ \cup {<<Root, 0>>}])

\* metadata_tick: expire_discoveries and reap_lookups.  A lookup expires when
\* the server does not answer it in time; one without a root is given up.
Tick ==
  \E expired \in {{}} \cup (IF scope.late > 0 THEN {{i} : i \in Pending(d)} ELSE {}) :
    LET given == IF Receptive(d) THEN expired ELSE Pending(d)
        discoveries == {i \in given : d.lookups[i].kind = "discovery"}
        rejected == FoldLeft(RejectLookup, d, SetToSeq(discoveries))
        reaped == Discard(rejected)
        late == {i \in expired : Receptive(d) /\ d.lookups[i].kind = "activity"}
    IN /\ ~d.failed
       /\ given # {} \/ (d.cancelled /\ d.root # "gone" /\ d.queue # <<>>)
       /\ d' = IF late # {} THEN Fail(reaped)
               ELSE [reaped EXCEPT !.lookups = [i \in DOMAIN @ |->
                       IF i \in given THEN [@[i] EXCEPT !.live = FALSE] ELSE @[i]]]
       /\ scope' = [scope EXCEPT !.late = @ - Cardinality(expired)]
       /\ UNCHANGED <<owner, server, wire>>

-----------------------------------------------------------------------------
(* The owner of the root turn.                                              *)

\* CodexTurnOwner::shutdown: the root is cancelled, unless it has completed.
OwnerShutdown ==
  /\ owner = "owner"
  /\ ~d.failed
  /\ owner' = "cancelling"
  /\ d' = Cancel(d)
  /\ UNCHANGED <<server, wire, scope>>

\* shutdown_native_children: the live turns are interrupted ...
ChildrenInterrupted ==
  /\ owner = "cancelling"
  /\ d.root # "running"
  /\ owner' = "waiting"
  /\ d' = [d EXCEPT !.sent = @ \cup {<<t, d.turns[t].turn>> : t \in Live(d)}]
  /\ UNCHANGED <<server, wire, scope>>

\* ... and their ends awaited, not the answers.
ChildrenStopped ==
  /\ owner = "waiting"
  /\ Live(d) = {}
  /\ owner' = "stopped"
  /\ d' = IF d.root = "closed" THEN [d EXCEPT !.root = "gone", !.queue = <<>>] ELSE d
  /\ UNCHANGED <<server, wire, scope>>

\* CodexTurnOwner::drop: nobody waits.  The live children are interrupted by a
\* task of its own, after which the registration goes, whatever the root does.
OwnerDropped ==
  /\ owner = "owner"
  /\ ~d.failed
  /\ owner' = IF Live(d) = {} THEN "released" ELSE "detached"
  /\ d' = LET cancelled == Cancel(d)
              sealed == FoldSet(LAMBDA t, x : Sealed(x, t, d.turns[t].turn), cancelled, Live(d))
          IN [sealed EXCEPT !.sent = @ \cup {<<t, d.turns[t].turn>> : t \in Live(d)},
                            !.root = IF Live(d) = {} /\ @ = "closed" THEN "gone" ELSE @]
  /\ UNCHANGED <<server, wire, scope>>

ChildrenFinished ==
  /\ owner = "detached"
  /\ Live(d) = {}
  /\ owner' = "released"
  /\ d' = [d EXCEPT !.root = "gone", !.queue = <<>>]
  /\ UNCHANGED <<server, wire, scope>>

\* A failed connection, or no end within the deadline: the process is killed.
ShutdownFails ==
  /\ owner \in {"cancelling", "waiting", "detached"}
  /\ owner' = "unstopped"
  /\ d' = Fail(d)
  /\ UNCHANGED <<server, wire, scope>>

\* CodexAdapter::respond, for an answer that is given in time
Respond(q) ==
  /\ d.requests[q] = "open"
  /\ Active(d, server.asked[q].thread, server.asked[q].turn)
  /\ owner = "owner"
  /\ ~d.failed
  /\ d' = Answer(d, {q})
  /\ UNCHANGED <<owner, server, wire, scope>>

-----------------------------------------------------------------------------
(* The app-server.                                                          *)

Writes(w) == wire' = Append(wire, w)

Writing == ~d.failed /\ Len(wire) < MaxWire

Spawners == {None, Root} \cup {t \in Threads : server.turn[t] > 0}

\* The thread is created, and announced or not.
ServerSpawns(t) ==
  /\ Writing
  /\ t \in scope.spawned \ server.threads
  /\ Parent[t] \in Spawners
  /\ server' = [server EXCEPT !.threads = @ \cup {t}]
  /\ wire' \in {wire, Append(wire, [m |-> "threadStarted", thread |-> t])}
  /\ UNCHANGED <<d, owner, scope>>

ServerStarts(t) ==
  /\ Writing
  /\ t \in server.threads
  /\ ~server.running[t]
  /\ server.turn[t] < scope.turns
  /\ server' = [server EXCEPT !.turn[t] = @ + 1, !.running[t] = TRUE]
  /\ Writes([m |-> "started", thread |-> t, turn |-> server.turn[t] + 1])
  /\ UNCHANGED <<d, owner, scope>>

\* An item of the spawning thread that names a child: the start or the end of an
\* activity, or a spawn.
ServerMentions(t) ==
  /\ Writing
  /\ t \in server.threads
  /\ Parent[t] # None
  /\ IF Parent[t] = Root THEN ~server.ended ELSE server.running[Parent[t]]
  /\ scope.mentions > 0
  /\ scope' = [scope EXCEPT !.mentions = @ - 1]
  /\ Writes([m |-> IF t \in scope.declared THEN "spawn" ELSE "activity",
             thread |-> Parent[t], child |-> t])
  /\ UNCHANGED <<d, owner, server>>

ServerAsks(t, q) ==
  /\ Writing
  /\ server.asked[q].thread = None
  /\ IF t = Root THEN ~server.ended ELSE server.running[t]
  /\ LET n == IF t = Root THEN 0 ELSE server.turn[t] IN
     /\ server' = [server EXCEPT !.asked[q] = [thread |-> t, turn |-> n]]
     /\ Writes([m |-> "ask", thread |-> t, turn |-> n, q |-> q])
  /\ UNCHANGED <<d, owner, scope>>

\* A child's turn ends by itself or is interrupted.
ServerCompletes(t) ==
  /\ Writing
  /\ server.running[t]
  /\ server' = [server EXCEPT !.running[t] = FALSE]
  /\ Writes([m |-> "completed", thread |-> t, turn |-> server.turn[t]])
  /\ UNCHANGED <<d, owner, scope>>

\* The root may end while its children go on.
ServerEnds ==
  /\ Writing
  /\ ~server.ended
  /\ server' = [server EXCEPT !.ended = TRUE]
  /\ Writes([m |-> "end", thread |-> Root])
  /\ UNCHANGED <<d, owner, scope>>

\* thread/read, or no answer
ServerAnswers(i) ==
  /\ Writing
  /\ <<i, d.lookups[i].requested>> \notin server.read
  /\ server' = [server EXCEPT !.read = @ \cup {<<i, d.lookups[i].requested>>}]
  /\ Writes([m |-> "metadata", lookup |-> i])
  /\ UNCHANGED <<d, owner, scope>>

-----------------------------------------------------------------------------
Init ==
  /\ d = [root |-> "running", cancelled |-> FALSE, interrupting |-> FALSE, terminal |-> FALSE,
          resolving |-> FALSE, known |-> {}, observed |-> {}, queue |-> <<>>, lookups |-> <<>>,
          turns |-> [t \in Threads |-> NoTurn],
          requests |-> [q \in Requests |-> "new"], writes |-> [q \in Requests |-> 0],
          log |-> <<>>, sent |-> {}, full |-> FALSE, overran |-> FALSE,
          failed |-> FALSE]
  /\ owner = "owner"
  /\ server = [threads |-> {}, turn |-> [t \in Threads |-> 0],
               running |-> [t \in Threads |-> FALSE], ended |-> FALSE, read |-> {},
               asked |-> [q \in Requests |-> [thread |-> None, turn |-> 0]]]
  /\ wire = <<>>
  /\ scope \in Scopes

Next ==
  \/ ReadMessage
  \/ Tick
  \/ OwnerDropped \/ ChildrenFinished
  \/ OwnerShutdown \/ ChildrenInterrupted \/ ChildrenStopped \/ ShutdownFails
  \/ ServerEnds
  \/ \E q \in Requests : Respond(q) \/ \E t \in Threads \cup {Root} : ServerAsks(t, q)
  \/ \E t \in Threads :
       ServerSpawns(t) \/ ServerStarts(t) \/ ServerMentions(t) \/ ServerCompletes(t)
  \/ \E i \in DOMAIN d.lookups : ServerAnswers(i)

Spec == Init /\ [][Next]_vars

-----------------------------------------------------------------------------
(* Properties.                                                              *)

TypeOK ==
  /\ d.root \in {"running", "closed", "gone"}
  /\ d.known \subseteq Threads /\ d.observed \subseteq Threads
  /\ \A t \in Threads : d.turns[t].turn \in 0..MaxTurns
  /\ \A q \in Requests : d.requests[q] \in {"new", "held", "open", "answered"}
  /\ \A i \in DOMAIN d.lookups : d.lookups[i].requested \in Threads
  /\ owner \in {"owner", "cancelling", "waiting", "stopped", "unstopped",
               "detached", "released"}

Position(kind, t, n) == {k \in DOMAIN d.log : d.log[k] = Event(kind, t, n)}

Descends[t \in Threads \cup {Root, None}] ==
  t = Root \/ (t # None /\ Descends[Parent[t]])

Known(t, k) == \E j \in 1..k : d.log[j].kind \in {"identity", "declared"} /\ d.log[j].thread = t

\* Only threads that descend from the root reach its stream, each behind its
\* own identity and that of its ancestors; a child's turn is started before
\* anything it asks and ended once, with nothing of it behind its end; nothing
\* follows the end of the root, and no activity is told twice.
ChildrenAreFramed ==
  /\ \A k \in DOMAIN d.log :
       LET e == d.log[k] IN
       /\ e.thread \in Threads =>
            /\ Descends[e.thread]
            /\ Known(e.thread, k)
            /\ Parent[e.thread] \in Threads => Known(Parent[e.thread], k)
       /\ e.kind = "ask" /\ e.thread # Root =>
            \E j \in 1..(k - 1) : d.log[j] = Event("started", e.thread, e.turn)
       /\ e.kind = "end" => k = Len(d.log)
  /\ \A t \in Threads : Cardinality(Position("activity", t, 0)) <= 1
  /\ \A t \in Threads, n \in 1..MaxTurns :
       /\ Cardinality(Position("completed", t, n)) <= 1
       /\ \A k \in Position("completed", t, n) :
            ~\E j \in DOMAIN d.log : j > k /\ d.log[j].thread = t /\ d.log[j].turn = n
                                     /\ d.log[j].kind # "completed"

\* The streams of the root and its children, well-typed and framed.
ChildStreams == TypeOK /\ ChildrenAreFramed

HeldBack ==
  RequestsIn(d.queue) \cup UNION {RequestsIn(d.lookups[i].held) : i \in Pending(d)}

\* Cancellation drops what discovery held back, "buffered server requests still
\* require a response": a request that was read is held, open for a turn that
\* lives, or answered, once.  There are two exceptions: a root whose own stream
\* overflowed drops what it held when it ends, and an owner that is dropped with
\* children to stop removes the registration before the root's own interrupt is
\* confirmed, which leaves a request of the root open.
RequestsSettled ==
  \A q \in Requests :
    ~d.failed =>
      /\ d.requests[q] = "held" => q \in HeldBack \/ (d.overran /\ d.root = "gone")
      /\ d.requests[q] = "open" =>
           /\ d.writes[q] = 0
           /\ Owned(d, server.asked[q].thread) \/ owner = "released"
           /\ server.asked[q].thread \in {Root} \cup Live(d)
      /\ d.requests[q] = "answered" => d.writes[q] = 1

\* What waits behind a discovery does not wait for ever: while the root holds
\* messages back, a lookup with a deadline is pending.
FenceIsLifted ==
  d.resolving /\ Receptive(d) /\ ~d.failed => Pending(d) # {}

\* Holding back messages while ancestry is looked up loses no request and
\* stops nobody for ever.
HoldingIsSafe == RequestsSettled /\ FenceIsLifted

\* A shutdown that succeeds has seen the end of the root and of every child turn
\* the connection has read the start of.
QuiescenceIsEvidence ==
  owner = "stopped" =>
    /\ server.ended
    /\ \A t \in Threads : server.running[t] => d.turns[t].turn # server.turn[t]

=============================================================================
