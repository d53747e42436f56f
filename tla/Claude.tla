------------------------------- MODULE Claude -------------------------------
(* One session of the Claude adapter (claude.rs) over owned processes        *)
(* (process.rs, owned_process.rs).  Every turn spawns a process, which        *)
(* creates the session on the first turn and resumes it on the others, and a  *)
(* worker that prompts it and turns its frames into a stream of events.  The   *)
(* calls of the adapter and the drop of a turn reach the worker through a      *)
(* stop flag, which the process's owner obeys too.                            *)
(*                                                                          *)
(* The store lets a conversation have one active run (DispatchLease), so the  *)
(* calls of start_turn come one after the other; any of them can be dropped.  *)
EXTENDS ClaudeProtocol

CONSTANTS
  MaxTurns,   \* bound: calls of start_turn
  Requests,   \* ids of permission requests; a turn uses each once
  Capacity,   \* EVENT_CHANNEL_CAPACITY
  Budgets     \* bounds: what may happen, see Budget

Turns == 1 .. MaxTurns
ASSUME ClaudeAssumption ==
  /\ MaxTurns \in Nat
  /\ Capacity \in Nat \ {0}
  /\ Budgets \subseteq [turns : Turns, frames : Nat, blocks : Nat, asks : Nat, stops : Nat,
                        exits : Nat]

VARIABLES
  dispatched, \* Binding.dispatched
  slot,       \* Binding.active: the turn, or 0
  stopped,    \* AdapterInner.stopped
  stopper,    \* the call of shutdown: what it does, and the turn it found
  start,      \* the call of start_turn for a turn
  resumes,    \* the turn's process was told to resume
  worker,     \* where run_turn is
  stop,       \* TurnState.stop
  terminal,   \* TurnState.terminal
  ended,      \* the result of the worker, until it is taken
  alive,      \* the process runs
  prompted,   \* the prompt reached it
  control,    \* TurnState.controls
  answers,    \* replies that reached the process
  writing,    \* requests that a call of respond writes to
  asked,      \* the call of interrupt
  proto,      \* Protocol
  out,        \* events of the current frame, not yet sent
  log,        \* events sent
  read,       \* how many the reader of the turn took
  reader,     \* the reader, who holds the turn's owner
  cli,        \* the text the process has written
  budget      \* what may still happen

session == <<dispatched, slot, stopped, stopper>>
process == <<alive, prompted, resumes>>
calls   == <<start, reader, asked, writing>>
stream  == <<out, log, read, proto, cli>>
outcome == <<terminal, ended>>
replies == <<control, answers>>
vars == <<session, process, calls, stream, outcome, replies, worker, stop, budget>>

Running == {"initialize", "settings", "prompt", "announce", "stream", "send", "reply"}
Over    == {"none", "done"}

Spend(what) == budget[what] > 0 /\ budget' = [budget EXCEPT ![what] = @ - 1]

\* What was sent and what the frame at hand adds
Told(g) == log[g] \o out[g]
Live(g) == ~stop[g] /\ terminal[g] = "none"

\* ClaudeAdapter::active
Active(g) == ~stopped /\ slot = g /\ Live(g)

\* TurnState::stop, for some turns
Stop(gs) == stop' = [g \in Turns |-> stop[g] \/ g \in gs]

\* ActiveTurn::stop: who comes first takes the result, the others find nothing.
Joined(g) == worker[g] = "done" /\ ended' = [ended EXCEPT ![g] = "taken"]

\* CLI 2.1.205: one block at a time, deltas, the frame with the whole block, the
\* end of the block.
Silent == [streams |-> FALSE, block |-> 0, open |-> FALSE, text |-> FALSE,
           length |-> [b \in Blocks |-> 0], whole |-> [b \in Blocks |-> FALSE]]

-----------------------------------------------------------------------------
(* start_turn.                                                              *)

\* The budgets are checked here, before anything can be dispatched.
StartTurn(g) ==
  /\ start[g] = "idle"
  /\ g <= budget.turns
  /\ \A h \in 1 .. g - 1 : start[h] \in {"failed", "dropped"} \/ reader[h] = "gone"
  /\ LET refused == stopped \/ (slot # 0 /\ Live(slot)) IN
     /\ start' = [start EXCEPT ![g] = IF refused THEN "failed"
                                      ELSE IF slot = 0 THEN "spawn" ELSE "join"]
     /\ IF ~refused /\ slot # 0 THEN Stop({slot}) ELSE UNCHANGED stop
  /\ UNCHANGED <<session, process, asked, writing, reader, stream, outcome, replies, worker, budget>>

\* previous.stop(): a failure of the previous process is this call's.
JoinPrevious(g) ==
  /\ start[g] = "join"
  /\ Joined(slot)
  /\ start' = [start EXCEPT ![g] = IF ended[slot] = "error" THEN "failed" ELSE "spawn"]
  /\ UNCHANGED <<session, process, asked, writing, reader, stream, terminal, replies, worker, stop,
                 budget>>

\* under the lock of the slot
MaySpawn == ~stopped /\ (slot # 0 => ~Live(slot))

Spawn(g) ==
  /\ start[g] = "spawn"
  /\ IF MaySpawn
     THEN \/ /\ start' = [start EXCEPT ![g] = "wait"]
             /\ slot' = g
             /\ alive' = [alive EXCEPT ![g] = TRUE]
             /\ resumes' = [resumes EXCEPT ![g] = dispatched]
             /\ worker' = [worker EXCEPT ![g] = "initialize"]
          \/ /\ start' = [start EXCEPT ![g] = "failed"]      \* JsonLineProcess::spawn fails
             /\ UNCHANGED <<slot, alive, resumes, worker>>
     ELSE start' = [start EXCEPT ![g] = "failed"] /\ UNCHANGED <<slot, alive, resumes, worker>>
  /\ UNCHANGED <<dispatched, stopped, stopper, prompted, asked, writing, reader, stream, outcome,
                 replies, stop, budget>>

\* The worker reports on the ready channel: the turn is the caller's, or it
\* waits for the end of the worker.
Started(g) ==
  /\ start[g] = "wait"
  /\ worker[g] \in {"stream", "send", "reply"} \/ Len(log[g]) > 0
  /\ start' = [start EXCEPT ![g] = "returned"]
  /\ reader' = [reader EXCEPT ![g] = "reading"]
  /\ UNCHANGED <<session, process, asked, writing, stream, outcome, replies, worker, stop, budget>>

StartFails(g) ==
  /\ start[g] \in {"wait", "fails"}
  /\ worker[g] \in {"push", "close", "done"} /\ log[g] = <<>>
  /\ Stop({g})
  /\ IF worker[g] = "done"
     THEN start' = [start EXCEPT ![g] = "failed"] /\ ended' = [ended EXCEPT ![g] = "taken"]
     ELSE start[g] = "wait" /\ start' = [start EXCEPT ![g] = "fails"] /\ UNCHANGED ended
  /\ UNCHANGED <<session, process, asked, writing, reader, stream, terminal, replies, worker, budget>>

\* The future is dropped: CancelOnDrop, and the receiver goes with it.
StartDropped(g) ==
  /\ start[g] \in {"join", "spawn", "wait", "fails"}
  /\ Spend("stops")
  /\ start' = [start EXCEPT ![g] = "dropped"]
  /\ IF start[g] = "wait"
     THEN Stop({g}) /\ reader' = [reader EXCEPT ![g] = "gone"]
     ELSE UNCHANGED <<stop, reader>>
  /\ UNCHANGED <<session, process, asked, writing, stream, outcome, replies, worker>>

-----------------------------------------------------------------------------
(* run_turn.                                                                *)

Goes(g, place) == worker' = [worker EXCEPT ![g] = place]

\* initialize is answered
Initialized(g) ==
  /\ worker[g] = "initialize" /\ alive[g]
  /\ Goes(g, "settings")
  /\ UNCHANGED <<session, process, calls, stream, outcome, replies, stop, budget>>

(* Mutant: a session counts as dispatched once the prompt was written. *)
ConfiguredLate(g) ==
  /\ worker[g] = "settings" /\ alive[g]
  /\ Goes(g, "prompt")
  /\ UNCHANGED <<session, process, calls, stream, outcome, replies, stop, budget>>

\* "From this point a prompt might reach the native process."
Configured(g) ==
  /\ worker[g] = "settings" /\ alive[g]
  /\ dispatched' = TRUE
  /\ Goes(g, "prompt")
  /\ UNCHANGED <<slot, stopped, stopper, process, calls, stream, outcome, replies, stop, budget>>

\* write_stdin has written the line; the writer is told later.
PromptReaches(g) ==
  /\ worker[g] = "prompt" /\ alive[g] /\ ~prompted[g]
  /\ prompted' = [prompted EXCEPT ![g] = TRUE]
  /\ UNCHANGED <<session, alive, resumes, calls, stream, outcome, replies, worker, stop, budget>>

PromptWritten(g) ==
  /\ worker[g] = "prompt" /\ prompted[g]
  /\ Goes(g, "announce")
  /\ out' = [out EXCEPT ![g] = <<RootEvent("started")>>]
  /\ UNCHANGED <<session, process, calls, log, read, proto, cli, outcome, replies, stop, budget>>

\* The receiver is held by start_turn, then by the turn.
Receiver(g) == start[g] # "dropped" /\ reader[g] # "gone"

\* "result-with-pending-control"
MayEnd(g) == Head(out[g]) = RootEvent("completed") => \A q \in Requests : control[g][q] # "pending"

\* ProviderEvent::is_terminal
Finals == {RootEvent("completed"), RootEvent("interrupted")}

\* A terminal event is known to interrupt before it is sent.
Terminal(g) ==
  /\ worker[g] = "send"
  /\ Head(out[g]) \in Finals /\ terminal[g] = "none"
  /\ MayEnd(g)
  /\ terminal' = [terminal EXCEPT ![g] = "ok"]
  /\ UNCHANGED <<session, process, calls, stream, ended, replies, worker, stop, budget>>

\* events.send: with room, while the receiver lives
Send(g) ==
  /\ worker[g] \in {"announce", "send"}
  /\ LET event == Head(out[g])
         last == event \in Finals IN
     /\ last => terminal[g] # "none"
     /\ Len(log[g]) - read[g] < Capacity
     /\ Receiver(g)
     /\ log' = [log EXCEPT ![g] = Append(@, event)]
     /\ out' = [out EXCEPT ![g] = Tail(@)]
     /\ Goes(g, IF last THEN "close" ELSE IF Len(out[g]) > 1 THEN "send" ELSE "stream")
  /\ UNCHANGED <<session, process, calls, read, proto, cli, outcome, replies, stop, budget>>

\* The select takes the stop before anything else.
Stopped(g) ==
  /\ stop[g] /\ worker[g] \in Running
  /\ terminal' = [terminal EXCEPT ![g] = "error"]
  /\ out' = [out EXCEPT ![g] = <<>>]
  /\ Goes(g, "close")
  /\ UNCHANGED <<session, process, calls, log, read, proto, cli, ended, replies, stop, budget>>

\* What fails in run for certain: with no process, no receiver, a terminal that
\* may not be.
CannotGoOn(g) ==
  \/ worker[g] \in {"initialize", "settings", "prompt", "reply", "stream"} /\ ~alive[g]
  \/ worker[g] \in {"announce", "send"} /\ ~Receiver(g)
  \/ worker[g] = "send" /\ Head(out[g]) = RootEvent("completed") /\ terminal[g] = "none" /\ ~MayEnd(g)

Fails(g) ==
  /\ terminal' = [terminal EXCEPT ![g] = "error"]
  /\ out' = [out EXCEPT ![g] = <<>>]
  /\ Goes(g, IF stop[g] THEN "close" ELSE "push")

RunFails(g) ==
  /\ CannotGoOn(g)
  /\ Fails(g)
  /\ UNCHANGED <<session, process, calls, log, read, proto, cli, ended, replies, stop, budget>>

\* The process's configuration is not what the request needs, or is malformed.
Unconfigured(g) ==
  /\ worker[g] \in {"initialize", "settings"} /\ alive[g]
  /\ Spend("exits")
  /\ Fails(g)
  /\ UNCHANGED <<session, process, calls, log, read, proto, cli, ended, replies, stop>>

\* A write runs into its deadline, or a frame is malformed, of another session,
\* or of a kind the adapter does not know.
Refused(g) ==
  /\ worker[g] \in {"prompt", "reply", "stream"}
  /\ Spend("exits")
  /\ Fails(g)
  /\ UNCHANGED <<session, process, calls, log, read, proto, cli, ended, replies, stop>>

(* Mutant: a stop does not free an error that waits for room. *)
PushWaits(g) ==
  /\ worker[g] = "push"
  /\ IF ~Receiver(g) THEN UNCHANGED log
     ELSE /\ Len(log[g]) - read[g] < Capacity
          /\ log' = [log EXCEPT ![g] = Append(@, RootEvent("error"))]
  /\ Goes(g, "close")
  /\ UNCHANGED <<session, process, calls, out, read, proto, cli, outcome, replies, stop, budget>>

\* The error is sent, unless the turn is stopped or nobody receives.
Push(g) ==
  /\ worker[g] = "push"
  /\ IF stop[g] \/ ~Receiver(g) THEN UNCHANGED log
     ELSE /\ Len(log[g]) - read[g] < Capacity
          /\ log' = [log EXCEPT ![g] = Append(@, RootEvent("error"))]
  /\ Goes(g, "close")
  /\ UNCHANGED <<session, process, calls, out, read, proto, cli, outcome, replies, stop, budget>>

\* process.shutdown: the owner kills the group and joins its pipes, or fails.
Close(g) ==
  /\ worker[g] = "close"
  /\ alive' = [alive EXCEPT ![g] = FALSE]
  /\ \/ ended' = [ended EXCEPT ![g] = "ok"] /\ UNCHANGED budget
     \/ ended' = [ended EXCEPT ![g] = "error"] /\ Spend("exits")
  /\ Goes(g, "done")
  /\ proto' = [proto EXCEPT ![g] = Empty]
  /\ UNCHANGED <<session, prompted, resumes, calls, out, log, read, cli, terminal, replies, stop>>

-----------------------------------------------------------------------------
(* Processes.                                                               *)

\* own_process obeys TurnState::stop by itself
OwnerKills(g) ==
  /\ stop[g] /\ alive[g]
  /\ alive' = [alive EXCEPT ![g] = FALSE]
  /\ UNCHANGED <<session, prompted, resumes, calls, stream, outcome, replies, worker, stop, budget>>

\* It exits, closes a pipe, or writes what is no line of JSON.
Exits(g) ==
  /\ alive[g] /\ ~stop[g]
  /\ Spend("exits")
  /\ alive' = [alive EXCEPT ![g] = FALSE]
  /\ UNCHANGED <<session, prompted, resumes, calls, stream, outcome, replies, worker, stop>>

-----------------------------------------------------------------------------
(* Frames.  The worker may take one that was written before the process died. *)

\* What normalize makes of a frame: its events are sent one by one.
Normalized(g, r) ==
  /\ proto' = [proto EXCEPT ![g] = r.p]
  /\ IF ~r.ok THEN Fails(g)
     ELSE /\ out' = [out EXCEPT ![g] = r.events]
          /\ Goes(g, IF r.events = <<>> THEN "stream" ELSE "send")
          /\ UNCHANGED terminal
  /\ UNCHANGED <<session, process, calls, log, read, ended, replies, stop>>

TaskFrame(g) ==
  /\ worker[g] = "stream"
  /\ Spend("frames")
  /\ \E f \in TaskFrames : Normalized(g, Settled(Framed(proto[g], f)))
  /\ UNCHANGED cli

\* A notice of compaction goes to the reader; the other notices say nothing; those
\* with a meaning the adapter does not implement fail the turn.
SystemFrame(g) ==
  /\ worker[g] = "stream"
  /\ Spend("frames")
  /\ \E compacts \in BOOLEAN :
       Normalized(g, IF compacts THEN Settled(Then(proto[g], <<RootEvent("compaction")>>))
                     ELSE Refuse(proto[g]))
  /\ UNCHANGED cli

\* A result ends the turn, now or when its tasks have ended.
ResultFrame(g) ==
  /\ worker[g] = "stream"
  /\ ~proto[g].success
  /\ \/ Normalized(g, Settled(Success(proto[g])))
     \/ Normalized(g, Then(proto[g], <<RootEvent("interrupted")>>))
  /\ UNCHANGED <<cli, budget>>

Text(g, r, written) ==
  /\ Normalized(g, Settled(r))
  /\ cli' = [cli EXCEPT ![g] = written]

TextFrame(g) ==
  LET p == proto[g]
      c == cli[g]
      b == c.block
      Another == b < MaxBlocks /\ ~c.open /\ Spend("blocks")
  IN
  /\ worker[g] = "stream"
  /\ \/ /\ b = 0 /\ ~c.streams
        /\ budget.blocks > 0
        /\ Text(g, MessageStart(p), [c EXCEPT !.streams = TRUE])
        /\ UNCHANGED budget
     \/ /\ c.streams /\ Another
        /\ \E text \in BOOLEAN :
             Text(g, BlockStart(p, b + 1, text),
                  [c EXCEPT !.block = b + 1, !.open = TRUE, !.text = text])
     \/ /\ c.open /\ c.text /\ ~c.whole[b] /\ c.length[b] = 0
        /\ Text(g, Delta(p, b), [c EXCEPT !.length[b] = 1])
        /\ UNCHANGED budget
     \/ /\ c.open /\ c.text /\ c.length[b] > 0
        /\ Text(g, Assistant(p, b, b, c.length[b]), [c EXCEPT !.whole[b] = TRUE])
        /\ UNCHANGED budget
     \/ /\ c.open /\ (c.text => c.whole[b])
        /\ Text(g, BlockStop(p), [c EXCEPT !.open = FALSE])
        /\ UNCHANGED budget
     \/ /\ ~c.streams /\ Another
        /\ Text(g, Assistant(p, b + 1, b + 1, 1),
                [c EXCEPT !.block = b + 1, !.length[b + 1] = 1, !.whole[b + 1] = TRUE])

-----------------------------------------------------------------------------
(* Requests.                                                                *)

\* A request for the user, or one that is answered at once: what the adapter
\* does not support, a question with several answers.
Ask(g, q) ==
  /\ worker[g] = "stream" /\ control[g][q] = "none"
  /\ Spend("asks")
  /\ \/ /\ control' = [control EXCEPT ![g][q] = "pending"]
        /\ out' = [out EXCEPT ![g] = <<RootEvent("ask")>>]
        /\ Goes(g, "send")
     \/ /\ control' = [control EXCEPT ![g][q] = "replying"]
        /\ Goes(g, "reply")
        /\ UNCHANGED out
  /\ UNCHANGED <<session, process, calls, log, read, proto, cli, outcome, answers, stop>>

\* The reply reached the process; a failure is RunFails.
Replied(g, q) ==
  /\ worker[g] = "reply" /\ control[g][q] = "replying" /\ alive[g]
  /\ control' = [control EXCEPT ![g][q] = "written"]
  /\ answers' = [answers EXCEPT ![g][q] = @ + 1]
  /\ Goes(g, "stream")
  /\ UNCHANGED <<session, process, calls, stream, outcome, stop, budget>>

\* control_cancel_request: "active-question-withdrawn-turn-stopped"
Withdrawn(g, q) ==
  /\ worker[g] = "stream" /\ control[g][q] \in {"pending", "claimed"}
  /\ Fails(g)
  /\ UNCHANGED <<session, process, calls, log, read, proto, cli, ended, replies, stop, budget>>

\* respond up to its write; the controls are gone once the stream is closed.
Respond(g, q) ==
  /\ Active(g) /\ worker[g] \notin {"close", "done"}
  /\ control[g][q] = "pending"
  /\ control' = [control EXCEPT ![g][q] = "claimed"]
  /\ writing' = [writing EXCEPT ![g][q] = @ \cup {IF "first" \in @ THEN "second" ELSE "first"}]
  /\ UNCHANGED <<session, process, start, reader, asked, stream, outcome, answers, worker, stop,
                 budget>>

AnswerReaches(g, q) ==
  /\ \E w \in writing[g][q] :
       writing' = [writing EXCEPT ![g][q] = (@ \ {w}) \cup {"reached"}]
  /\ "reached" \notin writing[g][q] /\ alive[g]
  /\ answers' = [answers EXCEPT ![g][q] = @ + 1]
  /\ UNCHANGED <<session, process, start, reader, asked, stream, outcome, control, worker, stop,
                 budget>>

AnswerWritten(g, q) ==
  /\ "reached" \in writing[g][q]
  /\ writing' = [writing EXCEPT ![g][q] = @ \ {"reached"}]
  /\ control' = [control EXCEPT ![g][q] = IF worker[g] \in {"close", "done"} THEN @ ELSE "written"]
  /\ UNCHANGED <<session, process, start, reader, asked, stream, outcome, answers, worker, stop,
                 budget>>

\* The write fails or runs into its deadline, or the call is dropped: the guard
\* stops the turn.
AnswerLost(g, q) ==
  /\ writing[g][q] # {}
  /\ alive[g] => Spend("exits")
  /\ ~alive[g] => UNCHANGED budget
  /\ writing' = [writing EXCEPT ![g][q] = {}]
  /\ Stop({g})
  /\ UNCHANGED <<session, process, start, reader, asked, stream, outcome, replies, worker>>

-----------------------------------------------------------------------------
(* interrupt, the end of the reader, shutdown.                              *)

Interrupt(g) ==
  /\ Active(g) /\ asked[g] = "none"
  /\ Spend("stops")
  /\ asked' = [asked EXCEPT ![g] = "waiting"]
  /\ UNCHANGED <<session, process, start, reader, writing, stream, outcome, replies, worker, stop>>

\* The terminal, the deadline, a failed write or a dropped call
InterruptStops(g) ==
  /\ asked[g] = "waiting"
  /\ asked' = [asked EXCEPT ![g] = "stopping"]
  /\ Stop({g})
  /\ UNCHANGED <<session, process, start, reader, writing, stream, outcome, replies, worker, budget>>

Interrupted(g) ==
  /\ asked[g] = "stopping"
  /\ Joined(g)
  /\ asked' = [asked EXCEPT ![g] = "done"]
  /\ UNCHANGED <<session, process, start, reader, writing, stream, terminal, replies, worker, stop,
                 budget>>

Read(g) ==
  /\ reader[g] = "reading" /\ read[g] < Len(log[g])
  /\ read' = [read EXCEPT ![g] = @ + 1]
  /\ UNCHANGED <<session, process, calls, out, log, proto, cli, outcome, replies, worker, stop,
                 budget>>

\* The owner of the turn is shut down, and dropped, at the end of the stream or
\* before it.
Leave(g) ==
  /\ reader[g] = "reading"
  /\ IF worker[g] \in {"close", "done"} /\ read[g] = Len(log[g]) THEN UNCHANGED budget
     ELSE Spend("stops")
  /\ reader' = [reader EXCEPT ![g] = "gone"]
  /\ Stop({g})
  /\ UNCHANGED <<session, process, start, asked, writing, stream, outcome, replies, worker>>

\* shutdown and force_shutdown: the flag first, then the turns of the slots
Shutdown ==
  /\ stopper.at = "idle"
  /\ Spend("stops")
  /\ stopped' = TRUE
  /\ \E how \in {"flagged", "forcing"} : stopper' = [stopper EXCEPT !.at = how]
  /\ UNCHANGED <<dispatched, slot, process, calls, stream, outcome, replies, worker, stop>>

StopTurns ==
  /\ stopper.at \in {"flagged", "forcing"}
  /\ stopper' = [at |-> IF stopper.at = "forcing" THEN "forced"
                        ELSE IF slot = 0 THEN "done" ELSE "joining",
                 turn |-> slot]
  /\ Stop({slot})
  /\ UNCHANGED <<dispatched, slot, stopped, process, calls, stream, outcome, replies, worker, budget>>

ShutdownDone ==
  /\ stopper.at = "joining"
  /\ Joined(stopper.turn)
  /\ stopper' = [stopper EXCEPT !.at = "done"]
  /\ UNCHANGED <<dispatched, slot, stopped, process, calls, stream, terminal, replies, worker, stop,
                 budget>>

-----------------------------------------------------------------------------
Init ==
  /\ dispatched \in BOOLEAN       \* resume_session, or start_session
  /\ slot = 0 /\ stopped = FALSE /\ stopper = [at |-> "idle", turn |-> 0]
  /\ start = [g \in Turns |-> "idle"]
  /\ resumes = [g \in Turns |-> FALSE]
  /\ worker = [g \in Turns |-> "none"]
  /\ stop = [g \in Turns |-> FALSE]
  /\ terminal = [g \in Turns |-> "none"]
  /\ ended = [g \in Turns |-> "none"]
  /\ alive = [g \in Turns |-> FALSE]
  /\ prompted = [g \in Turns |-> FALSE]
  /\ control = [g \in Turns |-> [q \in Requests |-> "none"]]
  /\ answers = [g \in Turns |-> [q \in Requests |-> 0]]
  /\ writing = [g \in Turns |-> [q \in Requests |-> {}]]
  /\ asked = [g \in Turns |-> "none"]
  /\ proto = [g \in Turns |-> Empty]
  /\ out = [g \in Turns |-> <<>>]
  /\ log = [g \in Turns |-> <<>>]
  /\ read = [g \in Turns |-> 0]
  /\ reader = [g \in Turns |-> "none"]
  /\ cli = [g \in Turns |-> Silent]
  /\ budget \in Budgets

Prompting(g) == Initialized(g) \/ Configured(g) \/ PromptReaches(g) \/ PromptWritten(g)
Streaming(g) == Terminal(g) \/ Send(g)
Closing(g) == Stopped(g) \/ RunFails(g) \/ Push(g) \/ Close(g)
Starting(g) == JoinPrevious(g) \/ Spawn(g) \/ Started(g) \/ StartFails(g)

Next ==
  \/ \E g \in Turns :
       \/ StartTurn(g) \/ StartDropped(g) \/ Starting(g)
       \/ Prompting(g) \/ Streaming(g) \/ Closing(g) \/ Unconfigured(g) \/ Refused(g)
       \/ OwnerKills(g) \/ Exits(g)
       \/ TaskFrame(g) \/ SystemFrame(g) \/ ResultFrame(g) \/ TextFrame(g)
       \/ Interrupt(g) \/ InterruptStops(g) \/ Interrupted(g)
       \/ Read(g) \/ Leave(g)
  \/ \E g \in Turns, q \in Requests :
       \/ Ask(g, q) \/ Replied(g, q) \/ Withdrawn(g, q)
       \/ Respond(g, q) \/ AnswerReaches(g, q) \/ AnswerWritten(g, q) \/ AnswerLost(g, q)
  \/ Shutdown \/ StopTurns \/ ShutdownDone

Spec == Init /\ [][Next]_vars

\* Tasks that are awake run; the owner reaps what it killed, and an interrupt has
\* a deadline.  Nothing makes the process go on, nor the reader read.
FairSpec ==
  /\ Spec
  /\ \A g \in Turns :
       /\ WF_vars(Stopped(g)) /\ WF_vars(RunFails(g)) /\ WF_vars(Push(g)) /\ WF_vars(Close(g))
       /\ WF_vars(OwnerKills(g))
       /\ WF_vars(Starting(g))
       /\ WF_vars(InterruptStops(g)) /\ WF_vars(Interrupted(g))
  /\ WF_vars(StopTurns) /\ WF_vars(ShutdownDone)

-----------------------------------------------------------------------------
Events == [type : {"started", "ask", "running", "operation", "text", "compaction", "error"} \cup Ended,
           of : Nat, length : Nat]

TypeOK ==
  /\ dispatched \in BOOLEAN /\ stopped \in BOOLEAN /\ slot \in Turns \cup {0}
  /\ stopper \in [at : {"idle", "flagged", "forcing", "joining", "done", "forced"},
                  turn : Turns \cup {0}]
  /\ start \in [Turns -> {"idle", "join", "spawn", "wait", "returned", "fails", "failed", "dropped"}]
  /\ worker \in [Turns -> Running \cup Over \cup {"push", "close"}]
  /\ {resumes, stop, alive, prompted} \subseteq [Turns -> BOOLEAN]
  /\ terminal \in [Turns -> {"none", "ok", "error"}]
  /\ ended \in [Turns -> {"none", "ok", "error", "taken"}]
  /\ control \in [Turns -> [Requests -> {"none", "pending", "claimed", "replying", "written"}]]
  /\ answers \in [Turns -> [Requests -> Nat]]
  /\ writing \in [Turns -> [Requests -> SUBSET {"first", "second", "reached"}]]
  /\ asked \in [Turns -> {"none", "waiting", "stopping", "done"}]
  /\ proto \in [Turns -> Protocol]
  /\ {log, out} \subseteq [Turns -> Seq(Events)]
  /\ read \in [Turns -> Nat]
  /\ reader \in [Turns -> {"none", "reading", "gone"}]
  /\ \A g \in Turns : worker[g] = "send" <=> out[g] # <<>> /\ worker[g] # "announce"

\* A session is used by one process at a time, and it is created again only
\* while no prompt can have reached it: "Never retry it as Fresh" (start_turn,
\* run_turn; whatever was dropped, stopped or failed before).
SessionIsSerial ==
  /\ \A g, h \in Turns : alive[g] /\ alive[h] => g = h
  /\ \A g \in Turns : worker[g] # "none" /\ ~resumes[g] => \A h \in 1 .. g - 1 : ~prompted[h]

\* A shutdown that returned left no process, and none is started after it.
ShutdownLeavesNothing ==
  stopper.at = "done" => \A g \in Turns : ~alive[g] /\ worker[g] \in Over

\* A request is answered once, and one that was claimed is answered or stops
\* its turn: it is never put back, and never left (respond, run_turn).
ControlsSettle ==
  \A g \in Turns, q \in Requests :
    /\ answers[g][q] <= 1
    /\ control[g][q] = "claimed" /\ writing[g][q] = {} => stop[g] \/ worker[g] \in {"close", "done"}

Ends == {RootEvent(type) : type \in {"completed", "interrupted", "error"}}

\* Nothing follows the end of a stream; one that nobody stopped has an end; and a
\* turn is completed only with every request answered.
EndIsExplained ==
  \A g \in Turns :
    LET s == log[g] IN
    /\ \A i \in DOMAIN s : s[i] \in Ends => i = Len(s)
    /\ worker[g] \in {"close", "done"} /\ reader[g] = "reading" /\ ~stop[g] => Last(s) \in Ends
    /\ s # <<>> /\ Last(s) = RootEvent("completed") => \A q \in Requests : control[g][q] # "pending"

IsChild(e, k, statuses) == e.of = k /\ e.type \in statuses
Before(s, i, k, statuses) == \E j \in 1 .. i - 1 : IsChild(s[j], k, statuses)

WellFramed(s) ==
  \A i \in DOMAIN s :
    /\ s[i].type = "running" =>
         /\ ~Before(s, i, s[i].of, {"running"})
         /\ Above[s[i].of] # 0 => Before(s, i, Above[s[i].of], {"running"})
    /\ s[i].of # 0 /\ s[i].type \in Ended =>
         Before(s, i, s[i].of, {"running"}) /\ ~Before(s, i, s[i].of, Ended)
    /\ s[i].type = "operation" /\ s[i].of # 0 => Before(s, i, s[i].of, {"running"})
    /\ s[i] = RootEvent("completed") =>
         \A k \in Tasks : Before(s, i, k, {"running"}) => Before(s, i, k, Ended)

OperationsFirst(s) ==
  \A i, j \in DOMAIN s : i < j /\ s[j].type = "operation" => ~IsChild(s[i], s[j].of, Ended)

\* A child is registered once, below a registered parent, before anything is said
\* of it, and ends once; what its owner waited to say is said before its end; a
\* turn is completed after its children.
ChildrenAreFramed == \A g \in Turns : WellFramed(Told(g)) /\ OperationsFirst(out[g])

\* Each unit of the text of a block, at its place in a sequence of events
Letters(s, b) == UNION {{<<i, n>> : n \in 1 .. s[i].length} :
                          i \in {j \in DOMAIN s : s[j].type = "text" /\ s[j].of = b}}

\* The text of a block reaches the reader once, streamed or whole or both.
TextOnce ==
  \A g \in Turns, b \in Blocks :
    worker[g] \in {"stream", "send"} => Cardinality(Letters(Told(g), b)) = cli[g].length[b]

\* What a turn tells its reader is well-typed and what its process said, in full
\* and in order, and what it was asked is answered once.
TurnIsFaithful == TypeOK /\ ControlsSettle /\ EndIsExplained /\ ChildrenAreFramed /\ TextOnce

\* Every process belongs to the one turn that uses the session, and to none after
\* the shutdown.
ProcessesAreOwned == SessionIsSerial /\ ShutdownLeavesNothing

Outstanding ==
  \/ \E g \in Turns : \/ stop[g] /\ (worker[g] \notin Over \/ alive[g])
                      \/ start[g] \in {"join", "fails"} \/ asked[g] \in {"waiting", "stopping"}
  \/ stopper.at \in {"flagged", "forcing", "joining"}

\* A turn that is stopped ends, with its process, whether or not its reader
\* reads; so do the calls that wait for it.
StoppedTurnEnds == Outstanding ~> ~Outstanding
=============================================================================
