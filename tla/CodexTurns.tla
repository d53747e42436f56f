----------------------------- MODULE CodexTurns -----------------------------
(* The Codex adapter (codex.rs): one dispatcher task owns the app-server     *)
(* process and the turns of its threads; callers start, own, interrupt and  *)
(* drop turns by commands and cancellations, and the server's messages      *)
(* arrive in between.  This is one thread of the connection.  A turn is     *)
(* named by its registration id, a server request by its id.                *)
(*                                                                          *)
(* A step is what the dispatcher does with one message, command or           *)
(* cancellation; writing turn/start is two steps because the phase of the    *)
(* request is visible to the caller in between.  `s` is what the dispatcher  *)
(* owns, its state and what it shares with the callers of a turn.            *)
EXTENDS Naturals, Sequences, FiniteSets, SequencesExt

CONSTANTS
  MaxTurns,     \* turns that callers may start
  Requests,     \* ids of the server's requests
  StreamCap,    \* EVENT_CHANNEL_CAPACITY
  MaxWire,      \* messages of the server not yet read
  Budgets       \* the bounds of a behaviour, one of several mixes: `turns` started,
                \* `items` of output of some `kinds`, server requests `asks`, turns
                \* the user stops (`stops`) and `faults` (full tables, bad messages,
                \* crashes)

Turns == 1..MaxTurns
None  == 0

\* What an item is: a tool operation, a change of files, a message that is told
\* by its deltas, an item that cannot be told and one that cannot be read.
ItemKinds == {"tool", "change", "message", "malformed", "broken"}

ASSUME CodexAssumption ==
  /\ MaxTurns \in Nat \ {0}
  /\ StreamCap \in Nat \ {0, 1}
  /\ MaxWire \in Nat
  /\ Budgets \subseteq [turns : Turns, items : Nat, kinds : SUBSET ItemKinds,
                      asks : Nat, stops : Nat, faults : Nat]

VARIABLES
  caller,   \* each start_turn call and the owner it returned
  phase,    \* AtomicU8 of each turn/start request
  channel,  \* commands and cancellations
  s,        \* the dispatcher
  server,   \* the app-server's turns and what it has received
  wire,     \* what the app-server has written
  process,  \* the process, the request to kill it and the faults so far
  budget    \* the bounds of this behaviour

vars == <<caller, phase, channel, s, server, wire, process, budget>>

-----------------------------------------------------------------------------
(* The dispatcher's state.                                                  *)

NoTurn == [reg |-> None]

\* TurnSink
NewTurn(g) ==
  [reg |-> g, native |-> None, announced |-> None, cancelled |-> FALSE,
   interrupting |-> FALSE, waiters |-> {}, provisional |-> <<>>, ended |-> FALSE,
   changes |-> FALSE]

Registered(d) == d.turn # NoTurn

\* active_or_announced_turn_id
ActiveId(d) ==
  IF ~Registered(d) THEN None
  ELSE IF d.turn.native # None THEN d.turn.native ELSE d.turn.announced

Event(g, kind) == [turn |-> g, kind |-> kind]

TerminalKinds == {"completed", "interrupted", "error"}

\* A receiver lives as long as the call that made it or the owner it returned.
Reading(g) == caller[g].pc \in {"registering", "configuring", "starting", "owner", "stopping"}

Room(d, g) == StreamCap - d.stream[g].unread

\* try_send
Pushed(d, g, e) ==
  [d EXCEPT !.stream[g].log = Append(@, e), !.stream[g].unread = @ + 1]

\* send_to_turn: output leaves one place for the terminal.
Refused(d, e) ==
  LET g == d.turn.reg IN
  \/ ~Reading(g)
  \/ Room(d, g) = 0
  \/ Room(d, g) = 1 /\ e.kind \notin TerminalKinds

Answered(d, qs) ==
  [d EXCEPT !.requests = [q \in Requests |-> IF q \in qs THEN "answered" ELSE @[q]],
            !.writes   = [q \in Requests |-> IF q \in qs THEN @[q] + 1 ELSE @[q]]]

Open(d) == {q \in Requests : d.requests[q] = "open"}

\* reject_server_requests
Rejected(d, g) == Answered(d, {q \in Open(d) : server.asked[q] = g})

\* The sink of the turn and all its waiters are dropped, the stream is closed.
Closed(d, reply) ==
  LET g == d.turn.reg IN
  [d EXCEPT !.turn = NoTurn,
            !.stream[g].open = FALSE,
            !.reply[g] = IF "owner" \in d.turn.waiters THEN reply ELSE @,
            !.asked[g] = IF "user" \in d.turn.waiters THEN "answered" ELSE @]

\* close_root_stream
StreamClosed(d) ==
  IF Registered(d)
  THEN [Closed(d, "ok") EXCEPT !.completed = @ \cup {d.turn.reg}]
  ELSE d

\* The dispatcher returns: pending requests and waiters get an error.
\* broadcast_error puts the error in the stream if there is a place.  The kill
\* that the timers could ask for is asked for already.
Failed(d, broadcast) ==
  LET starting == {p.turn : p \in {r \in d.pending : r.kind = "start"}}
      stopping == {p.turn : p \in {r \in d.pending : r.kind = "interrupt" /\ r.who = "owner"}}
      users    == {p.turn : p \in {r \in d.pending : r.kind = "interrupt" /\ r.who = "user"}}
      told == IF broadcast /\ Registered(d) /\ Reading(d.turn.reg) /\ Room(d, d.turn.reg) > 0
              THEN Pushed(d, d.turn.reg, Event(d.turn.reg, "error"))
              ELSE d
      shut == IF Registered(d) THEN Closed(told, "error") ELSE told
  IN [shut EXCEPT !.failed = TRUE,
                  !.pending = {},
                  !.timers = {},
                  !.reply = [g \in Turns |-> IF g \in starting \cup stopping THEN "error" ELSE @[g]],
                  !.asked = [g \in Turns |-> IF g \in users THEN "answered" ELSE @[g]]]

-----------------------------------------------------------------------------
(* Interrupting a turn.                                                     *)

\* send_fatal_interrupt
FatalInterrupt(d, g) ==
  [d EXCEPT !.pending = @ \cup {[kind |-> "fatal", turn |-> g, who |-> "none"]},
            !.sent = @ \cup {[m |-> "interrupt", turn |-> g]},
            !.timers = @ \cup {<<"answer", g, d.turn.reg>>}]

\* deliver_to_turn: an event nobody takes rejects what the turn has asked for
\* and interrupts it.
Delivered(d, e) ==
  LET g == d.turn.reg
      dropped == Answered(d, Open(d))
      known == ~d.turn.interrupting /\ d.turn.native # None
  IN CASE ~Registered(d) -> d
       [] Registered(d) /\ ~Refused(d, e) -> Pushed(d, g, e)
       [] OTHER ->
            IF known
            THEN FatalInterrupt([dropped EXCEPT !.turn.cancelled = TRUE,
                                                !.turn.interrupting = TRUE],
                                d.turn.native)
            ELSE dropped

\* What a caller that waits for a cancellation gets.
Reply(d, g, who, value) ==
  CASE who = "owner" -> [d EXCEPT !.reply[g] = value]
    [] who = "user"  -> [d EXCEPT !.asked[g] = "answered"]
    [] OTHER -> d

\* cancel_registered_turn; `id` is the turn it names and `reg` the registration,
\* each None when it is not known, `who` the caller that waits for it.
Cancelled(d, g, id, reg, who, full) ==
  LET known == IF id # None THEN id ELSE ActiveId(d)
      wanted == [d EXCEPT !.turn.cancelled = TRUE, !.turn.interrupting = TRUE]
  IN CASE id # None /\ ~Registered(d) /\ id \in d.confirmed -> Reply(d, g, who, "ok")
       [] \/ ~Registered(d) /\ id \notin d.confirmed
          \/ Registered(d) /\ reg # None /\ d.turn.reg # reg
          \/ Registered(d) /\ id # None /\ ActiveId(d) # id ->
            Reply(d, g, who, "notDispatched")
       [] Registered(d) /\ known # None /\ d.turn.interrupting ->
            IF who = "none" THEN d ELSE [d EXCEPT !.turn.waiters = @ \cup {who}]
       [] Registered(d) /\ known # None /\ who = "owner" /\ caller[g].pc # "stopping" -> d
       [] Registered(d) /\ known # None /\ who # "none" /\ full ->
            Reply(d, g, who, "notDispatched")
       [] Registered(d) /\ known # None /\ who # "none" ->
            [wanted EXCEPT !.pending = @ \cup {[kind |-> "interrupt", turn |-> known, who |-> who]},
                           !.sent = @ \cup {[m |-> "interrupt", turn |-> known]},
                           !.timers = @ \cup {<<"answer", known, d.turn.reg>>}]
       [] Registered(d) /\ known # None ->
            [FatalInterrupt(wanted, known) EXCEPT !.resolved = @ \cup {d.turn.reg}]
       [] OTHER ->
            LET late == [d EXCEPT !.turn.cancelled = TRUE,
                                  !.timers = IF d.turn.cancelled THEN @
                                             ELSE @ \cup {<<"unresolved", None, d.turn.reg>>}]
            IN Reply(late, g, who, "error")

\* confirm_interrupted_turn
InterruptConfirmed(d, g) ==
  IF ActiveId(d) # g \/ g = None THEN d
  ELSE LET rejected == Rejected([d EXCEPT !.confirmed = @ \cup {g}], g)
           told == IF Reading(d.turn.reg) /\ Room(d, d.turn.reg) > 0
                   THEN Pushed(rejected, d.turn.reg, Event(g, "interrupted"))
                   ELSE rejected
       IN StreamClosed(told)

-----------------------------------------------------------------------------
(* Messages of the server.                                                  *)

Awaited(d, kinds, g) == {p \in d.pending : p.kind \in kinds /\ p.turn = g}

\* deliver_or_buffer_turn_event
DeliveredOrBuffered(d, e, terminal) ==
  IF Registered(d) /\ d.turn.native = None
  THEN [d EXCEPT !.turn.provisional = Append(@, e), !.turn.ended = @ \/ terminal]
  ELSE Delivered(d, e)

\* The events buffered before the turn's id was known, without the requests
\* that its end has rejected.
DeliveredAll(d, events) ==
  FoldLeft(Delivered, d, events)

\* activate_turn
Activated(d, g) ==
  LET buffered == d.turn.provisional
      over     == d.turn.ended
      known    == [d EXCEPT !.turn.native = g, !.turn.provisional = <<>>]
      begun    == Delivered(known, Event(g, "turnStarted"))
      gone     == {q \in Open(begun) : server.asked[q] = g}
      rejected == IF over THEN Rejected(begun, g) ELSE begun
      Kept(e)  == ~over \/ e.kind \notin gone
      all      == DeliveredAll(rejected, SelectSeq(buffered, Kept))
  IN IF over THEN StreamClosed(all) ELSE all

\* handle_server_response to turn/start
StartAnswered(d, g, ok) ==
  LET taken == [d EXCEPT !.pending = @ \ Awaited(d, {"start"}, g)]
      mine  == d.turn.reg = g
  IN CASE Awaited(d, {"start"}, g) = {} -> d
       [] Awaited(d, {"start"}, g) # {} /\ ~ok ->
            LET told == [taken EXCEPT !.reply[g] = "error"] IN
            IF Registered(d) /\ d.turn.announced # None THEN Failed(told, TRUE)
            ELSE IF mine THEN Closed(told, "error") ELSE told
       [] Awaited(d, {"start"}, g) # {} /\ ok /\ (~mine \/ d.turn.announced \notin {None, g}) ->
            Failed([taken EXCEPT !.reply[g] = "error"], TRUE)
       [] Awaited(d, {"start"}, g) # {} /\ ok /\ mine /\ d.turn.cancelled ->
            Failed([Cancelled([taken EXCEPT !.turn.native = g], g, g, None, "none", FALSE)
                      EXCEPT !.reply[g] = "error"], TRUE)
       [] OTHER ->
            LET active == Activated(taken, g) IN
            IF Reading(g) THEN [active EXCEPT !.reply[g] = "ok"]
            ELSE Cancelled(active, g, None, g, "none", FALSE)

\* handle_server_response to turn/interrupt
InterruptAnswered(d, g, ok) ==
  LET asked == Awaited(d, {"interrupt", "fatal"}, g)
      taken == [d EXCEPT !.pending = @ \ asked, !.acked = @ \cup {g}]
      Told(e, value) == FoldSet(LAMBDA p, x : Reply(x, g, p.who, value), e, asked)
  IN CASE asked = {} -> d
       [] asked # {} /\ ok -> Told(InterruptConfirmed(taken, g), "ok")
       [] asked # {} /\ ~ok -> Failed(Told(taken, "error"), TRUE)

\* handle_notification: turn/started
Announced(d, g) ==
  CASE ~Registered(d) \/ d.turn.native # None -> d
    [] Registered(d) /\ d.turn.native = None /\ d.turn.announced \notin {None, g} ->
         Failed(d, TRUE)
    [] Registered(d) /\ d.turn.native = None /\ d.turn.announced \in {None, g} ->
         LET known == [d EXCEPT !.turn.announced = g] IN
         IF d.turn.ended THEN d
         ELSE IF d.turn.cancelled THEN Cancelled(known, g, g, None, "none", FALSE)
         ELSE known

(* Mutant: notifications of the thread are taken for the active turn's *)
ConcernsThread(d, g) == Registered(d) /\ ~d.turn.ended

Concerns(d, g) == ActiveId(d) = g /\ ~d.turn.ended

\* record_file_changes: what an approval of the change will show
Recorded(d, kind) == IF kind = "change" THEN [d EXCEPT !.turn.changes = TRUE] ELSE d

\* normalize_item_with_phase, of an item that is told
Normalized(g, kind) == Event(g, IF kind = "malformed" THEN "error" ELSE "item")

\* handle_notification: an item
ItemReceived(d, g, kind) ==
  CASE ~Concerns(d, g) \/ kind = "message" -> d
    [] Concerns(d, g) /\ kind = "broken" -> Failed(d, TRUE)
    [] OTHER ->
         LET given == DeliveredOrBuffered(Recorded(d, kind), Normalized(g, kind), FALSE) IN
         IF Registered(given) /\ given.turn.native # None /\ given.turn.cancelled
         THEN Cancelled(given, g, given.turn.native, None, "none", FALSE)
         ELSE given

\* handle_notification: turn/completed, with confirm_terminal_interrupt
TurnEnded(d, g, status) ==
  LET asked    == Awaited(d, {"interrupt", "fatal"}, g)
      noted    == [d EXCEPT !.pending = @ \ asked,
                            !.acked = IF asked = {} THEN @ ELSE @ \cup {g},
                            !.confirmed = IF asked = {} THEN @ ELSE @ \cup {g}]
      rejected == Rejected(noted, g)
      e        == Event(g, status)
      told     == IF Refused(rejected, e) THEN rejected ELSE Pushed(rejected, g, e)
  IN CASE ~Concerns(d, g) -> d
       [] Concerns(d, g) /\ d.turn.native = None ->
            DeliveredOrBuffered(d, e, TRUE)
       [] OTHER ->
            FoldSet(LAMBDA p, x : Reply(x, g, p.who, "ok"), StreamClosed(told), asked)

\* children::active, for the root
MayAsk(d, g) ==
  ActiveId(d) = g /\ ~d.turn.cancelled /\ ~d.turn.interrupting /\ ~d.turn.ended

\* parse_supported_server_request: a change can be approved when it was shown.
Parsed(d, m) == m = "request" \/ (m = "changeRequest" /\ d.turn.changes)

\* handle_server_request, with the check of ids of handle_server_message
Asked(d, g, q, m) ==
  CASE d.requests[q] = "answered" -> Failed(d, TRUE)
    [] d.requests[q] = "open" -> Failed(Answered(d, {q}), TRUE)
    [] d.requests[q] = "new" /\ ~MayAsk(d, g) -> Answered(d, {q})
    [] d.requests[q] = "new" /\ MayAsk(d, g) /\ ~Parsed(d, m) ->
         Delivered(Answered(d, {q}), Event(g, "error"))
    [] OTHER -> DeliveredOrBuffered([d EXCEPT !.requests[q] = "open"], Event(g, q), FALSE)

\* The dispatcher that returns shuts its process down.
Becomes(d) ==
  /\ s' = d
  /\ process' = [process EXCEPT !.kill = @ \/ d.failed]

Asking == {"request", "changeRequest", "invalid"}

ReadMessage ==
  LET w == Head(wire) IN
  /\ s.writing = None
  /\ ~s.failed
  /\ wire # <<>>
  /\ wire' = Tail(wire)
  /\ Becomes(CASE w.m = "startOk"        -> StartAnswered(s, w.turn, TRUE)
               [] w.m = "startRefused"   -> StartAnswered(s, w.turn, FALSE)
               [] w.m = "interruptOk"    -> InterruptAnswered(s, w.turn, TRUE)
               [] w.m = "interruptError" -> InterruptAnswered(s, w.turn, FALSE)
               [] w.m = "started"        -> Announced(s, w.turn)
               [] w.m = "item"           -> ItemReceived(s, w.turn, w.kind)
               [] w.m \in Asking        -> Asked(s, w.turn, w.q, w.m)
               [] OTHER -> TurnEnded(s, w.turn, w.m))
  /\ UNCHANGED <<caller, phase, channel, server>>

-----------------------------------------------------------------------------
(* Commands.                                                                *)

Serving == s.writing = None /\ ~s.failed

\* A fault is one of a bounded number.
Fault == process.faults < budget.faults

Full == IF Fault THEN BOOLEAN ELSE {FALSE}

\* unregister_turn_registration
Unregistered(d, g) ==
  IF d.turn.reg = g /\ d.turn.native = None /\ d.turn.announced = None
  THEN Closed(d, "error") ELSE d

\* handle_command: RegisterTurn
RegisterTurn(d, g) ==
  LET free == IF d.turn.reg \in d.completed THEN Closed(d, "error") ELSE d IN
  CASE caller[g].pc # "registering" -> free
    [] caller[g].pc = "registering" /\ Registered(free) ->
         [free EXCEPT !.reply[g] = "notDispatched"]
    [] OTHER -> [free EXCEPT !.turn = NewTurn(g), !.stream[g].open = TRUE, !.reply[g] = "ok"]

\* handle_command: Respond, with respond_to_server_request
Responded(d, q) ==
  IF q \in Open(d) /\ ActiveId(d) = server.asked[q] THEN Answered(d, {q}) ELSE d

TakeCommand ==
  \E full \in Full :
    LET c == Head(channel.commands) IN
    /\ Serving
    /\ channel.commands # <<>>
    /\ channel' = [channel EXCEPT !.commands = Tail(@)]
    /\ CASE c.c = "register" -> s' = RegisterTurn(s, c.turn) /\ UNCHANGED phase
         [] c.c = "cancel" ->
              /\ s' = Cancelled(s, c.turn, c.turn, IF c.who = "owner" THEN c.turn ELSE None,
                                c.who, full)
              /\ UNCHANGED phase
         [] c.c = "respond" -> s' = Responded(s, c.q) /\ UNCHANGED phase
         [] c.c = "start" /\ (caller[c.turn].pc # "starting" \/ full) ->
              LET gone == Unregistered(s, c.turn) IN
              /\ s' = IF caller[c.turn].pc = "starting"
                      THEN [gone EXCEPT !.reply[c.turn] = "notDispatched"] ELSE gone
              /\ UNCHANGED phase
         [] c.c = "start" /\ caller[c.turn].pc = "starting" /\ ~full ->
              /\ s' = [s EXCEPT !.writing = c.turn]
              /\ phase' = [phase EXCEPT ![c.turn] = "writing"]
    /\ process' = [process EXCEPT !.faults = IF full THEN @ + 1 ELSE @]
    /\ UNCHANGED <<caller, server, wire>>

\* send_request, behind the write: an answer nobody awaits is a tombstone.
StartWritten ==
  LET g == s.writing
      kept == phase[g] = "writing" IN
  /\ s.writing # None
  /\ ~process.down
  /\ s' = [s EXCEPT !.writing = None,
                    !.sent = @ \cup {[m |-> "start", turn |-> g]},
                    !.pending = IF kept
                                THEN @ \cup {[kind |-> "start", turn |-> g, who |-> "none"]}
                                ELSE @]
  /\ phase' = [phase EXCEPT ![g] = IF kept THEN "awaiting" ELSE @]
  /\ UNCHANGED <<caller, channel, server, wire, process>>

-----------------------------------------------------------------------------
(* Cancellations: what a dropped caller leaves behind.                       *)

TakeCancellation ==
  \E full \in Full :
    LET c == Head(channel.cancellations)
        g == c.turn
        d == CASE c.c = "request" ->
                    [s EXCEPT !.pending = @ \ Awaited(s, {"start"}, g)]
               [] c.c = "turn" -> Cancelled(s, g, c.id, g, "none", full)
               [] c.c = "undispatched" -> Unregistered(s, g)
               [] c.c = "finished" ->
                    IF s.turn.reg = g /\ g \in s.completed THEN Closed(s, "error") ELSE s
        fatal == \E p \in d.pending \ s.pending : p.kind = "fatal"
    IN /\ Serving
       /\ channel.cancellations # <<>>
       /\ channel' = [channel EXCEPT !.cancellations = Tail(@)]
       /\ full => fatal
       /\ s' = IF full THEN Failed(s, FALSE) ELSE d
       /\ process' = [process EXCEPT !.kill = @ \/ full,
                                     !.faults = IF full THEN @ + 1 ELSE @]
       /\ UNCHANGED <<caller, phase, server, wire>>

-----------------------------------------------------------------------------
(* The end of the dispatcher.                                               *)

\* A closed stream or a failed write; what the process has written and nobody
\* has read is lost.
StreamCloses ==
  /\ process.down
  /\ ~s.failed
  /\ Becomes(Failed([s EXCEPT !.writing = None,
                              !.reply = IF s.writing = None THEN @
                                        ELSE [@ EXCEPT ![s.writing] = "error"]], TRUE))
  /\ wire' = <<>>
  /\ UNCHANGED <<caller, phase, channel, server>>

\* CodexAdapter::stop and force_shutdown
Shutdown ==
  /\ Serving
  /\ Fault
  /\ s' = Failed(s, FALSE)
  /\ process' = [process EXCEPT !.kill = TRUE, !.faults = @ + 1]
  /\ UNCHANGED <<caller, phase, channel, server, wire>>

\* What is still in the channel is dropped with it.
CommandsDropped ==
  /\ s.failed
  /\ channel # [channel EXCEPT !.commands = <<>>, !.cancellations = <<>>]
  /\ channel' = [channel EXCEPT !.commands = <<>>, !.cancellations = <<>>]
  /\ LET lost == {channel.commands[i] : i \in DOMAIN channel.commands} IN
     s' = [s EXCEPT !.reply = [g \in Turns |->
                        IF \E c \in lost : c.turn = g /\ c.c # "respond" /\ c.who = "owner"
                        THEN "error" ELSE @[g]],
                    !.asked = [g \in Turns |->
                        IF \E c \in lost : c.turn = g /\ c.c = "cancel" /\ c.who = "user"
                        THEN "answered" ELSE @[g]]]
  /\ UNCHANGED <<caller, phase, server, wire, process>>

\* FATAL_RESPONSE_TIMEOUT
TimerFires ==
  \E t \in s.timers :
    LET settled == IF t[1] = "unresolved" THEN t[3] \in s.resolved
                   ELSE t[2] \in s.acked \/ t[3] \in s.completed IN
    /\ s' = [s EXCEPT !.timers = @ \ {t}]
    /\ process' = [process EXCEPT !.kill = @ \/ ~settled]
    /\ UNCHANGED <<caller, phase, channel, server, wire>>

ProcessEnds ==
  /\ ~process.down
  /\ process.kill \/ Fault
  /\ process' = [process EXCEPT !.down = TRUE,
                                !.faults = IF process.kill THEN @ ELSE @ + 1]
  /\ server' = [server EXCEPT !.turn = None, !.owes = {}]
  /\ UNCHANGED <<caller, phase, channel, s, wire>>

-----------------------------------------------------------------------------
(* Callers.                                                                 *)

Commanded(c) == channel' = [channel EXCEPT !.commands = Append(@, c)]

Moves(g, pc, result) == caller' = [caller EXCEPT ![g] = [pc |-> pc, result |-> result]]

Heard(g) == s' = [s EXCEPT !.reply[g] = "none"]

(* Mutant: dropping an awaited start forgets its answer but not its turn *)
GuardDroppedRequest(g) ==
  /\ channel' = [channel EXCEPT !.cancellations =
                   @ \o CASE phase[g] = "queued" -> <<[c |-> "undispatched", turn |-> g]>>
                          [] phase[g] = "awaiting" -> <<[c |-> "request", turn |-> g]>>
                          [] OTHER -> <<>>]
  /\ process' = [process EXCEPT !.kill = @ \/ phase[g] = "writing"]
  /\ phase' = [phase EXCEPT ![g] = "cancelled"]

\* TurnRegistrationGuard::drop, with cancel_request
GuardDropped(g) ==
  LET turn == [c |-> "turn", turn |-> g, id |-> None]
      say(cs) == channel' = [channel EXCEPT !.cancellations = @ \o cs]
  IN /\ CASE phase[g] = "queued" -> say(<<[c |-> "undispatched", turn |-> g]>>)
          [] phase[g] = "awaiting" -> say(<<[c |-> "request", turn |-> g], turn>>)
          [] OTHER -> UNCHANGED channel
     /\ process' = [process EXCEPT !.kill = @ \/ phase[g] = "writing"]
     /\ phase' = [phase EXCEPT ![g] = "cancelled"]

\* CodexTurnOwner::drop
OwnerDropped(g, done) ==
  channel' = [channel EXCEPT !.cancellations =
                Append(@, IF done THEN [c |-> "finished", turn |-> g]
                          ELSE [c |-> "turn", turn |-> g, id |-> g])]

StartTurn(g) ==
  /\ caller[g].pc = "none"
  /\ g > 1 => caller[g - 1].pc # "none"
  /\ g <= budget.turns
  /\ Moves(g, "registering", "none")
  /\ Commanded([c |-> "register", turn |-> g, who |-> "owner"])
  /\ UNCHANGED <<phase, s, server, wire, process>>

RegistrationAnswered(g) ==
  /\ caller[g].pc = "registering"
  /\ s.reply[g] # "none"
  /\ Heard(g)
  /\ IF s.reply[g] = "ok"
     THEN Moves(g, "configuring", "none") /\ UNCHANGED <<phase, channel, process>>
     ELSE Moves(g, "done", "notDispatched") /\ GuardDropped(g)
  /\ UNCHANGED <<server, wire>>

\* configure_context_budget and configure_thinking
Configured(g) ==
  /\ caller[g].pc = "configuring"
  /\ Moves(g, "starting", "none")
  /\ Commanded([c |-> "start", turn |-> g, who |-> "owner"])
  /\ UNCHANGED <<phase, s, server, wire, process>>

ConfigureFails(g) ==
  /\ caller[g].pc = "configuring"
  /\ Moves(g, "done", "notDispatched")
  /\ GuardDropped(g)
  /\ UNCHANGED <<s, server, wire>>

(* Mutant: an error of turn/start is reported like one of the registration *)
StartIsAnsweredAsRegistration(g) ==
  /\ caller[g].pc = "starting"
  /\ s.reply[g] # "none"
  /\ Heard(g)
  /\ phase' = [phase EXCEPT ![g] = "finished"]
  /\ IF s.reply[g] = "ok" THEN Moves(g, "owner", "none") ELSE Moves(g, "done", "notDispatched")
  /\ UNCHANGED <<channel, server, wire, process>>

StartIsAnswered(g) ==
  /\ caller[g].pc = "starting"
  /\ s.reply[g] # "none"
  /\ Heard(g)
  /\ phase' = [phase EXCEPT ![g] = "finished"]
  /\ IF s.reply[g] = "ok" THEN Moves(g, "owner", "none")
     ELSE Moves(g, "done", IF s.reply[g] = "error" THEN "unknown" ELSE s.reply[g])
  /\ UNCHANGED <<channel, server, wire, process>>

\* The call is dropped, or REQUEST_TIMEOUT has passed.
StartDropped(g) ==
  /\ caller[g].pc \in {"registering", "configuring", "starting"}
  /\ Moves(g, "done", "unknown")
  /\ GuardDropped(g)
  /\ UNCHANGED <<s, server, wire>>

OwnerReads(g) ==
  /\ caller[g].pc = "owner"
  /\ s.stream[g].unread > 0
  /\ s' = [s EXCEPT !.stream[g].unread = @ - 1]
  /\ UNCHANGED <<caller, phase, channel, server, wire, process>>

DropOwner(g) ==
  /\ caller[g].pc = "owner"
  /\ Moves(g, "done", "unknown")
  /\ OwnerDropped(g, g \in s.completed)
  /\ UNCHANGED <<phase, s, server, wire, process>>

\* CodexTurnOwner::shutdown, until its command is sent
OwnerShutdown(g) ==
  /\ caller[g].pc = "owner"
  /\ IF g \in s.completed
     THEN Moves(g, "done", "stopped") /\ OwnerDropped(g, TRUE)
     ELSE /\ Moves(g, "stopping", "none")
          /\ Commanded([c |-> "cancel", turn |-> g, who |-> "owner"])
  /\ UNCHANGED <<phase, s, server, wire, process>>

ShutdownAnswered(g) ==
  LET done == \/ s.reply[g] = "ok"
              \/ s.reply[g] = "notDispatched" /\ g \in s.completed IN
  /\ caller[g].pc = "stopping"
  /\ s.reply[g] # "none"
  /\ Moves(g, "done", IF done THEN "stopped" ELSE "unstopped")
  /\ OwnerDropped(g, done \/ g \in s.completed)
  /\ s' = [s EXCEPT !.reply[g] = "none",
                    !.completed = IF done THEN @ \cup {g} ELSE @]
  /\ process' = [process EXCEPT !.kill = @ \/ ~done]
  /\ UNCHANGED <<phase, server, wire>>

\* cancel_turn's REQUEST_TIMEOUT, or the shutdown itself is dropped.
ShutdownDropped(g) ==
  /\ caller[g].pc = "stopping"
  /\ Moves(g, "done", "unstopped")
  /\ OwnerDropped(g, g \in s.completed)
  /\ process' = [process EXCEPT !.kill = TRUE]
  /\ UNCHANGED <<phase, s, server, wire>>

\* CodexAdapter::interrupt
UserInterrupts(g) ==
  /\ caller[g].pc = "owner"
  /\ s.asked[g] = "no"
  /\ Cardinality({h \in Turns : s.asked[h] # "no"}) < budget.stops
  /\ s' = [s EXCEPT !.asked[g] = "waiting"]
  /\ Commanded([c |-> "cancel", turn |-> g, who |-> "user"])
  /\ UNCHANGED <<caller, phase, server, wire, process>>

\* cancel_turn's REQUEST_TIMEOUT
InterruptTimesOut(g) ==
  /\ s.asked[g] = "waiting"
  /\ s' = [s EXCEPT !.asked[g] = "answered"]
  /\ process' = [process EXCEPT !.kill = TRUE]
  /\ UNCHANGED <<caller, phase, channel, server, wire>>

\* CodexAdapter::respond
Respond(q) ==
  /\ server.asked[q] # None
  /\ caller[server.asked[q]].pc = "owner"
  /\ q \notin channel.responded
  /\ channel' = [channel EXCEPT !.commands = Append(@, [c |-> "respond", turn |-> None, q |-> q]),
                                !.responded = @ \cup {q}]
  /\ UNCHANGED <<caller, phase, s, server, wire, process>>

-----------------------------------------------------------------------------
(* The app-server.                                                          *)

Wrote(w) == wire' = Append(wire, w)

\* What the server writes when nobody reads it any more is left out.
Living == ~process.down /\ ~s.failed /\ Len(wire) < MaxWire

Heeds(m) == m \in s.sent \ server.seen

\* One turn per thread; the id is announced and answered in either order.
ServerStarts(g) ==
  /\ Living
  /\ Heeds([m |-> "start", turn |-> g])
  /\ \/ /\ server.turn = None
        /\ server' = [server EXCEPT !.seen = @ \cup {[m |-> "start", turn |-> g]},
                                    !.turn = g,
                                    !.owes = @ \cup {[m |-> "startOk", turn |-> g],
                                                     [m |-> "started", turn |-> g]}]
        /\ UNCHANGED wire
     \/ /\ Wrote([m |-> "startRefused", turn |-> g])
        /\ server' = [server EXCEPT !.seen = @ \cup {[m |-> "start", turn |-> g]}]
  /\ UNCHANGED <<caller, phase, channel, s, process>>

ServerTells ==
  \E w \in server.owes :
    /\ Living
    /\ Wrote(w)
    /\ server' = [server EXCEPT !.owes = @ \ {w}]
    /\ UNCHANGED <<caller, phase, channel, s, process>>

Announcing == [m |-> "started", turn |-> server.turn] \in server.owes

\* An item that cannot be told or read is a fault.
ServerItem ==
  \E kind \in budget.kinds :
    LET fault == kind \in {"malformed", "broken"} IN
    /\ Living
    /\ server.turn # None
    /\ ~Announcing
    /\ server.items < budget.items
    /\ fault => Fault
    /\ Wrote([m |-> "item", turn |-> server.turn, kind |-> kind])
    /\ server' = [server EXCEPT !.items = @ + 1,
                                !.shown = IF kind = "change" THEN @ \cup {server.turn} ELSE @]
    /\ process' = [process EXCEPT !.faults = IF fault THEN @ + 1 ELSE @]
    /\ UNCHANGED <<caller, phase, channel, s>>

\* A request that is malformed or that repeats an id is a fault; the approval of
\* a change is asked for behind the item that shows it.
ServerAsks(q) ==
  \E m \in Asking :
    LET fault == m = "invalid" \/ server.asked[q] # None IN
    /\ Living
    /\ Cardinality({r \in Requests \ {q} : server.asked[r] # None}) < budget.asks
    /\ server.turn # None
    /\ ~Announcing
    /\ fault => Fault
    /\ m = "changeRequest" => server.turn \in server.shown
    /\ Wrote([m |-> m, turn |-> server.turn, q |-> q])
    /\ server' = [server EXCEPT !.asked[q] = IF @ = None THEN server.turn ELSE @]
    /\ process' = [process EXCEPT !.faults = IF fault THEN @ + 1 ELSE @]
    /\ UNCHANGED <<caller, phase, channel, s>>

ServerEnds ==
  \E status \in {"completed", "error"} :
    /\ Living
    /\ server.turn # None
    /\ ~Announcing
    /\ Wrote([m |-> status, turn |-> server.turn])
    /\ server' = [server EXCEPT !.turn = None,
                                !.failed = IF status = "error" THEN @ \cup {server.turn} ELSE @]
    /\ UNCHANGED <<caller, phase, channel, s, process>>

\* The interrupted turn has ended when its interrupt is answered; the answer
\* and the notification come in either order.
ServerInterrupts(g) ==
  LET heard == [server EXCEPT !.seen = @ \cup {[m |-> "interrupt", turn |-> g]}] IN
  /\ Living
  /\ Heeds([m |-> "interrupt", turn |-> g])
  /\ \/ /\ server.turn = g
        /\ ~Announcing
        /\ server' = [heard EXCEPT !.turn = None,
                                   !.owes = @ \cup {[m |-> "interruptOk", turn |-> g],
                                                    [m |-> "interrupted", turn |-> g]}]
        /\ UNCHANGED wire
     \/ /\ server.turn # g
        /\ Wrote([m |-> "interruptError", turn |-> g])
        /\ server' = heard
  /\ UNCHANGED <<caller, phase, channel, s, process>>

-----------------------------------------------------------------------------
Init ==
  /\ caller = [g \in Turns |-> [pc |-> "none", result |-> "none"]]
  /\ phase = [g \in Turns |-> "queued"]
  /\ channel = [commands |-> <<>>, cancellations |-> <<>>, responded |-> {}]
  /\ s = [turn |-> NoTurn, pending |-> {}, requests |-> [q \in Requests |-> "new"],
          writes |-> [q \in Requests |-> 0], confirmed |-> {}, completed |-> {},
          stream |-> [g \in Turns |-> [log |-> <<>>, unread |-> 0, open |-> FALSE]],
          reply |-> [g \in Turns |-> "none"], asked |-> [g \in Turns |-> "no"],
          sent |-> {}, timers |-> {}, resolved |-> {}, acked |-> {},
          failed |-> FALSE, writing |-> None]
  /\ server = [turn |-> None, seen |-> {}, owes |-> {}, items |-> 0, shown |-> {}, failed |-> {},
               asked |-> [q \in Requests |-> None]]
  /\ wire = <<>>
  /\ process = [down |-> FALSE, kill |-> FALSE, faults |-> 0]
  /\ budget \in Budgets

Dispatcher ==
  \/ ReadMessage
  \/ TakeCommand
  \/ StartWritten
  \/ TakeCancellation
  \/ StreamCloses
  \/ CommandsDropped
  \/ TimerFires
  \/ ProcessEnds

Server ==
  \/ \E g \in Turns : ServerStarts(g) \/ ServerInterrupts(g)
  \/ ServerTells
  \/ ServerItem
  \/ \E q \in Requests : ServerAsks(q)
  \/ ServerEnds

Caller(g) ==
  \/ StartTurn(g) \/ RegistrationAnswered(g) \/ Configured(g) \/ ConfigureFails(g)
  \/ StartIsAnswered(g) \/ StartDropped(g) \/ OwnerReads(g) \/ DropOwner(g)
  \/ OwnerShutdown(g) \/ ShutdownAnswered(g) \/ ShutdownDropped(g)
  \/ UserInterrupts(g) \/ InterruptTimesOut(g)

Next ==
  /\ UNCHANGED budget
  /\ \/ Dispatcher
     \/ Server
     \/ Shutdown
     \/ \E g \in Turns : Caller(g)
     \/ \E q \in Requests : Respond(q)

Spec == Init /\ [][Next]_vars

-----------------------------------------------------------------------------
(* Properties.                                                              *)

\* One type invariant.
TypeOK ==
  /\ \A g \in Turns :
       /\ caller[g].pc \in {"none", "registering", "configuring", "starting", "owner",
                            "stopping", "done"}
       /\ phase[g] \in {"queued", "writing", "awaiting", "finished", "cancelled"}
       /\ s.stream[g].unread \in 0..StreamCap
       /\ s.reply[g] \in {"none", "ok", "error", "notDispatched"}
  /\ s.turn.reg \in Turns \cup {None}
  /\ \A p \in s.pending : p.kind \in {"start", "interrupt", "fatal"} /\ p.turn \in Turns
  /\ server.turn \in Turns \cup {None}
  /\ process.faults \in 0..budget.faults

Ends(log) == {i \in DOMAIN log : log[i].kind \in {"completed", "interrupted"}}

\* Whatever the server, earlier turns of the thread and the order of announcement
\* and answer do, the stream of a turn holds events of this turn only, its start
\* first, and nothing behind its end; an error in it has a cause, which an
\* approval of a change that the server showed is not.
StreamIsFaithful ==
  \A g \in Turns :
    LET log == s.stream[g].log IN
    /\ \A i \in DOMAIN log : log[i].turn = g
    /\ log # <<>> => log[1].kind \in {"turnStarted", "error"}
    /\ \A i \in Ends(log) : i = Len(log)
    /\ (\E i \in DOMAIN log : log[i].kind = "error")
         => g \in server.failed \/ process.faults > 0 \/ process.kill

\* A consumer that is slow, or that overflows the stream, still finds an end in
\* a stream that is closed while the adapter is open (design, line 367).
SlowConsumerSeesEnd ==
  \A g \in Turns :
    caller[g].pc = "owner" /\ ~s.stream[g].open /\ ~s.failed
      => \E i \in DOMAIN s.stream[g].log : s.stream[g].log[i].kind \in TerminalKinds

\* Both, of well-typed streams: no event of another turn, none behind the end,
\* and an end for whoever reads slowly.
TurnStreams == TypeOK /\ StreamIsFaithful /\ SlowConsumerSeesEnd

\* A request of the server is open only for the turn that is active; it is
\* answered once, by the user, by the end of the turn or by its refusal, unless
\* the connection is torn down.
RequestsSettled ==
  \A q \in Requests :
    ~s.failed =>
      /\ s.requests[q] = "open" => server.asked[q] = ActiveId(s) /\ s.writes[q] = 0
      /\ s.requests[q] = "answered" => s.writes[q] = 1

\* A turn that was reported as not dispatched was not and will not be written:
\* what the run records as NotDispatched is run again on the other provider.
NotDispatchedIsTrue ==
  \A g \in Turns :
    caller[g].result = "notDispatched" => [m |-> "start", turn |-> g] \notin s.sent

\* Neither a request of the server nor a message of the user is written twice.
WrittenOnce == RequestsSettled /\ NotDispatchedIsTrue

\* An owner that shut down has stopped its turn; one that could not tears the
\* process down.
ShutdownIsHonest ==
  \A g \in Turns :
    /\ caller[g].result = "stopped" => server.turn # g
    /\ caller[g].result = "unstopped" => process.kill

\* A turn of the server that nobody owns any more, in whatever phase its start
\* or its owner was dropped, is pursued: its cancellation is on its way, or a
\* deadline runs that kills the process if the server does not stop it.
OrphanIsPursued ==
  \A g \in Turns :
    caller[g].pc = "done" /\ server.turn = g =>
      \/ process.kill
      \/ \E i \in DOMAIN channel.cancellations :
           channel.cancellations[i].c = "turn" /\ channel.cancellations[i].turn = g
      \/ \E t \in s.timers : t[3] = g

\* No turn keeps running behind the back of the application: the end of its
\* owner, orderly or not, stops it or is still on the way to.
TurnsAreStopped == ShutdownIsHonest /\ OrphanIsPursued

=============================================================================
