---------------------------- MODULE Claude_proofs ----------------------------
(***************************************************************************)
(* Proofs about Claude for any number of turns, requests, tasks and blocks  *)
(* of text: a process belongs to the one turn that uses the session, nothing *)
(* is left after a shutdown, a request is answered once, and what a turn     *)
(* tells its reader is framed, complete and said once.                       *)
(***************************************************************************)
EXTENDS Claude, SequenceTheorems, FiniteSetTheorems, TLAPS

-----------------------------------------------------------------------------
(* The inductive invariant.                                                *)

CallTypes ==
  /\ dispatched \in BOOLEAN /\ stopped \in BOOLEAN /\ slot \in Turns \cup {0}
  /\ stopper \in [at : {"idle", "flagged", "forcing", "joining", "done", "forced"},
                  turn : Turns \cup {0}]
  /\ start \in [Turns -> {"idle", "join", "spawn", "wait", "returned", "fails", "failed", "dropped"}]
  /\ reader \in [Turns -> {"none", "reading", "gone"}]

WorkerTypes ==
  /\ worker \in [Turns -> Running \cup Over \cup {"push", "close"}]
  /\ alive \in [Turns -> BOOLEAN] /\ prompted \in [Turns -> BOOLEAN]
  /\ resumes \in [Turns -> BOOLEAN] /\ stop \in [Turns -> BOOLEAN]

RequestTypes ==
  /\ control \in [Turns -> [Requests -> {"none", "pending", "claimed", "replying", "written"}]]
  /\ answers \in [Turns -> [Requests -> Nat]]
  /\ writing \in [Turns -> [Requests -> SUBSET {"first", "second", "reached"}]]

Types == CallTypes /\ WorkerTypes /\ RequestTypes

\* A call of start_turn begins when the earlier ones are over, and these stay so.
CallIsOver(g) == start[g] \in {"failed", "dropped"} \/ reader[g] = "gone"

CallsInOrder ==
  /\ \A g \in Turns : start[g] # "idle" => \A h \in 1 .. g - 1 : CallIsOver(h)
  /\ \A g \in Turns : reader[g] # "none" => start[g] \in {"returned", "dropped"}
  /\ \A g \in Turns : reader[g] = "reading" => start[g] = "returned"

\* The slot holds the last turn that got a process.  Only its worker can be at
\* work and only its process can run; a call that spawns has joined it.
SlotIsLast ==
  /\ \A g \in Turns : worker[g] \notin Over => slot = g
  /\ \A g \in Turns : alive[g] => worker[g] \notin Over
  /\ \A g \in Turns : worker[g] # "none" => g <= slot /\ start[g] \notin {"idle", "join", "spawn"}
  /\ slot # 0 => worker[slot] # "none"
  /\ \A g \in Turns : start[g] = "spawn" /\ slot # 0 => worker[slot] = "done"

\* A session is marked as dispatched before it is prompted, and a process that
\* creates it was started before that.
PromptIsMarked ==
  /\ \A g \in Turns : worker[g] = "prompt" \/ prompted[g] => dispatched
  /\ \A g \in Turns : worker[g] # "none" /\ ~resumes[g] => \A h \in 1 .. g - 1 : ~prompted[h]

\* The slot does not change once the shutdown has begun.
StopperHolds ==
  /\ stopper.at # "idle" => stopped
  /\ stopper.at \in {"joining", "done", "forced"} => stopper.turn = slot
  /\ stopper.at = "done" /\ slot # 0 => worker[slot] = "done"

\* The answer to a request is with one writer until it has reached the process.
OneWriter(g, q) ==
  /\ control[g][q] \in {"none", "pending", "replying"} => writing[g][q] = {} /\ answers[g][q] = 0
  /\ answers[g][q] <= 1
  /\ \/ writing[g][q] = {}
     \/ writing[g][q] = {"first"} /\ answers[g][q] = 0
     \/ writing[g][q] = {"reached"}
  /\ control[g][q] = "claimed" /\ writing[g][q] = {} => stop[g] \/ worker[g] \in {"close", "done"}

AnswersInv == \A g \in Turns, q \in Requests : OneWriter(g, q)

IInv == Types /\ CallsInOrder /\ SlotIsLast /\ PromptIsMarked /\ StopperHolds /\ AnswersInv

-----------------------------------------------------------------------------
(* The stream of a turn.                                                   *)

\* What the process has written of its text
Texts == [streams : BOOLEAN, block : 0 .. MaxBlocks, open : BOOLEAN, text : BOOLEAN,
          length : [Blocks -> Nat], whole : [Blocks -> BOOLEAN]]

StreamTypes ==
  /\ terminal \in [Turns -> {"none", "ok", "error"}]
  /\ ended \in [Turns -> {"none", "ok", "error", "taken"}]
  /\ asked \in [Turns -> {"none", "waiting", "stopping", "done"}]
  /\ proto \in [Turns -> Protocol]
  /\ log \in [Turns -> Seq(Events)] /\ out \in [Turns -> Seq(Events)]
  /\ read \in [Turns -> Nat]
  /\ cli \in [Turns -> Texts]

\* What is left to send says where the worker is.
OutFits(g) ==
  /\ worker[g] = "send" <=> out[g] # <<>> /\ worker[g] # "announce"
  /\ worker[g] = "announce" => out[g] = <<RootEvent("started")>>
  /\ worker[g] \in {"none", "initialize", "settings", "prompt", "announce"} =>
       log[g] = <<>> /\ proto[g] = Empty /\ cli[g] = Silent

\* Before the worker closes, the end of the stream is at most the last event it has
\* left to send; a terminal that interrupt may know of is about to be sent.
EndInv(g) ==
  /\ worker[g] \notin {"close", "done"} => \A i \in DOMAIN log[g] : log[g][i] \notin Ends
  /\ \A i \in DOMAIN out[g] : out[g][i] \in Ends => i = Len(out[g]) /\ out[g][i] \in Finals
  /\ \A i \in DOMAIN log[g] : log[g][i] \in Ends => i = Len(log[g])
  /\ worker[g] \in {"close", "done"} /\ Receiver(g) /\ ~stop[g] =>
       log[g] # <<>> /\ Last(log[g]) \in Ends
  /\ terminal[g] = "ok" => \/ worker[g] \in {"close", "done"}
                           \/ worker[g] = "send" /\ Head(out[g]) \in Finals
  /\ terminal[g] = "error" => worker[g] \in {"push", "close", "done"}
  /\ \/ worker[g] = "send" /\ Head(out[g]) = RootEvent("completed") /\ terminal[g] = "ok"
     \/ log[g] # <<>> /\ Last(log[g]) = RootEvent("completed")
     => \A q \in Requests : control[g][q] # "pending"

Has(s, k, statuses) == \E j \in DOMAIN s : IsChild(s[j], k, statuses)

\* What the protocol has told of a task is in the events, and follows its status.
TasksTold(p, s) ==
  \A k \in Tasks :
    /\ p.emitted[k] = "none" <=> ~Has(s, k, {"running"})
    /\ p.emitted[k] \in Ended <=> Has(s, k, Ended)
    /\ p.emitted[k] # "none" => p.status[k] # "none"
    /\ p.emitted[k] \in Ended => p.status[k] = p.emitted[k]

\* The texts of the protocol are those of the process; the block it writes is the
\* one that is mapped.
TextsKept(p, c) ==
  /\ c.streams => p.stream /\ p.mapped = IF c.open /\ c.text THEN c.block ELSE Unmapped
  /\ ~c.streams => p.mapped = Absent /\ ~c.open
  /\ c.open => c.block # 0
  /\ \A b \in Blocks :
       /\ c.streams => /\ p.frames[b] \in {Absent, b}
                       /\ p.texts[[by |-> "block", at |-> b]] = c.length[b]
       /\ b > c.block => /\ p.frames[b] = Absent /\ c.length[b] = 0
                         /\ p.texts[[by |-> "block", at |-> b]] = 0
                         /\ p.texts[[by |-> "frame", at |-> b]] = 0

TextTold(c, s) ==
  \A b \in Blocks : IsFiniteSet(Letters(s, b)) /\ Cardinality(Letters(s, b)) = c.length[b]

FramesInv(g) ==
  /\ WellFramed(Told(g)) /\ OperationsFirst(out[g])
  /\ worker[g] \in {"stream", "send", "reply"} =>
       /\ TasksTold(proto[g], Told(g))
       /\ TextsKept(proto[g], cli[g]) /\ TextTold(cli[g], Told(g))

StreamInv ==
  /\ StreamTypes
  /\ \A g \in Turns : OutFits(g) /\ EndInv(g) /\ FramesInv(g)

-----------------------------------------------------------------------------
(* Steps.                                                                  *)

\* What a frame leads to, whatever the protocol makes of it
FrameStep(g) ==
  /\ worker[g] = "stream"
  /\ \E place \in {"push", "close", "stream", "send"} : Goes(g, place)
  /\ UNCHANGED <<session, process, calls, replies, stop>>

\* Every other change of where run_turn is, up to its end
WorkerStep(g) ==
  \/ Initialized(g) \/ Configured(g) \/ PromptWritten(g) \/ Send(g) \/ Stopped(g)
  \/ RunFails(g) \/ Unconfigured(g) \/ Refused(g) \/ Push(g)

\* What no step of a turn but the ones named elsewhere changes
StreamStep(g) ==
  Terminal(g) \/ Interrupt(g) \/ InterruptStops(g) \/ Interrupted(g) \/ Read(g)

CallStep(g) ==
  \/ StartTurn(g) \/ StartDropped(g) \/ JoinPrevious(g) \/ Started(g) \/ StartFails(g)
  \/ Leave(g)

ProcessStep(g) == PromptReaches(g) \/ Close(g) \/ OwnerKills(g) \/ Exits(g)

RequestStep(g, q) ==
  \/ Ask(g, q) \/ Replied(g, q) \/ Withdrawn(g, q)
  \/ Respond(g, q) \/ AnswerReaches(g, q) \/ AnswerWritten(g, q) \/ AnswerLost(g, q)

StopperStep == Shutdown \/ StopTurns \/ ShutdownDone

\* However a frame is normalized, the worker goes on, waits for room, or fails.
LEMMA NormalizedMoves ==
  ASSUME NEW g \in Turns, NEW r, worker[g] = "stream", Normalized(g, r)
  PROVE  FrameStep(g)
<1>1. CASE r.ok
  <2>1. \E place \in {"stream", "send"} : Goes(g, place)
    BY <1>1 DEF Normalized, Goes
  <2>2. UNCHANGED <<session, process, calls, replies, stop>>
    BY DEF Normalized
  <2> QED BY <2>1, <2>2 DEF FrameStep
<1>2. CASE ~r.ok
  <2>1. \E place \in {"push", "close"} : Goes(g, place)
    BY <1>2 DEF Normalized, Fails, Goes
  <2>2. UNCHANGED <<session, process, calls, replies, stop>>
    BY DEF Normalized
  <2> QED BY <2>1, <2>2 DEF FrameStep
<1> QED BY <1>1, <1>2

\* The frames of a turn are frame steps.
LEMMA FramesMove ==
  ASSUME NEW g \in Turns,
         TaskFrame(g) \/ SystemFrame(g) \/ ResultFrame(g) \/ TextFrame(g)
  PROVE  FrameStep(g)
<1>1. CASE TaskFrame(g)
  BY <1>1, NormalizedMoves DEF TaskFrame
<1>2. CASE SystemFrame(g)
  BY <1>2, NormalizedMoves DEF SystemFrame
<1>3. CASE ResultFrame(g)
  BY <1>3, NormalizedMoves DEF ResultFrame
<1>4. CASE TextFrame(g)
  <2>1. worker[g] = "stream" /\ \E r, written : Text(g, r, written)
    BY <1>4, Zenon DEF TextFrame
  <2> QED BY <2>1, NormalizedMoves DEF Text
<1> QED BY <1>1, <1>2, <1>3, <1>4

\* Every step is of one of these kinds.
LEMMA StepKinds ==
  ASSUME Next
  PROVE  \/ \E g \in Turns : \/ Spawn(g) \/ FrameStep(g) \/ WorkerStep(g) \/ StreamStep(g)
                             \/ CallStep(g) \/ ProcessStep(g)
         \/ \E g \in Turns, q \in Requests : RequestStep(g, q)
         \/ StopperStep
<1>1. ASSUME NEW g \in Turns,
             TaskFrame(g) \/ SystemFrame(g) \/ ResultFrame(g) \/ TextFrame(g)
      PROVE  FrameStep(g)
  BY <1>1, FramesMove
<1> QED BY <1>1, Zenon DEF Next, Starting, Prompting, Streaming, Closing, WorkerStep, StreamStep,
       CallStep, ProcessStep, RequestStep, StopperStep

\* A call of start_turn gets the slot and a process.
Spawned(g) ==
  /\ start[g] = "spawn" /\ MaySpawn
  /\ start' = [start EXCEPT ![g] = "wait"]
  /\ slot' = g
  /\ alive' = [alive EXCEPT ![g] = TRUE]
  /\ resumes' = [resumes EXCEPT ![g] = dispatched]
  /\ worker' = [worker EXCEPT ![g] = "initialize"]
  /\ UNCHANGED <<dispatched, stopped, stopper, prompted, reader, stop, writing, control, answers,
                 asked, stream, outcome>>

\* In every other step the slot stays, the worker of a turn goes on to its end,
\* which is that of its process, and prompts a session that is marked.
Evolves ==
  /\ slot' = slot /\ resumes' = resumes /\ (dispatched => dispatched')
  /\ \A x \in Turns :
       /\ worker'[x] # worker[x] => /\ worker[x] \notin Over /\ worker'[x] # "none"
                                    /\ worker[x] = "close" => worker'[x] = "done"
                                    /\ worker'[x] = "done" => ~alive'[x]
                                    /\ worker'[x] = "prompt" => dispatched'
       /\ alive'[x] => alive[x]
       /\ prompted'[x] => prompted[x] \/ worker[x] = "prompt"
       /\ stop[x] => stop'[x]

LEMMA SpawnEvolves ==
  ASSUME NEW g \in Turns, Spawn(g)
  PROVE  Spawned(g) \/ Evolves
<1>1. CASE Spawned(g)
  BY <1>1
<1>2. CASE ~Spawned(g)
  BY <1>2 DEF Spawn, Spawned, Evolves, process, stream, outcome, replies
<1> QED BY <1>1, <1>2

\* A step of the kinds above either gives a process to a call or evolves.
LEMMA Evolution ==
  ASSUME Types, Next
  PROVE  (\E g \in Turns : Spawned(g)) \/ Evolves
<1> USE DEF Types, WorkerTypes
<1>1. ASSUME NEW g \in Turns, Spawn(g)
      PROVE  Spawned(g) \/ Evolves
  BY <1>1, SpawnEvolves
<1>2. ASSUME NEW g \in Turns, FrameStep(g)
      PROVE  Evolves
  BY <1>2 DEF FrameStep, Goes, Evolves, session, process, Over
<1>3. ASSUME NEW g \in Turns, WorkerStep(g)
      PROVE  Evolves
  <2>1. CASE Initialized(g)
    BY <2>1 DEF Initialized, Goes, Evolves, session, process, Over
  <2>2. CASE Configured(g)
    BY <2>2 DEF Configured, Goes, Evolves, process, Over
  <2>3. CASE PromptWritten(g)
    BY <2>3 DEF PromptWritten, Goes, Evolves, session, process, Over
  <2>4. CASE Send(g)
    BY <2>4 DEF Send, Goes, Evolves, session, process, Over
  <2>5. CASE Stopped(g)
    BY <2>5 DEF Stopped, Goes, Evolves, session, process, Over, Running
  <2>6. CASE RunFails(g)
    BY <2>6 DEF RunFails, CannotGoOn, Fails, Goes, Evolves, session, process, Over
  <2>7. CASE Unconfigured(g)
    BY <2>7 DEF Unconfigured, Fails, Goes, Evolves, session, process, Over
  <2>8. CASE Refused(g)
    BY <2>8 DEF Refused, Fails, Goes, Evolves, session, process, Over
  <2>9. CASE Push(g)
    BY <2>9 DEF Push, Goes, Evolves, session, process, Over
  <2> QED BY <1>3, <2>1, <2>2, <2>3, <2>4, <2>5, <2>6, <2>7, <2>8, <2>9 DEF WorkerStep
<1>4. ASSUME NEW g \in Turns, StreamStep(g)
      PROVE  Evolves
  BY <1>4 DEF StreamStep, Terminal, Interrupt, InterruptStops, Interrupted, Read, Stop, Evolves,
     session, process
<1>5. ASSUME NEW g \in Turns, CallStep(g)
      PROVE  Evolves
  <2>1. /\ UNCHANGED <<session, process, worker>>
        /\ UNCHANGED stop \/ \E gs : Stop(gs)
    BY <1>5 DEF CallStep, StartTurn, StartDropped, JoinPrevious, Started, StartFails, Leave
  <2> QED BY <2>1 DEF Stop, Evolves, session, process
<1>6. ASSUME NEW g \in Turns, ProcessStep(g)
      PROVE  Evolves
  <2>1. CASE PromptReaches(g)
    BY <2>1 DEF PromptReaches, Evolves, session
  <2>2. CASE Close(g)
    BY <2>2 DEF Close, Goes, Evolves, session, Over
  <2>3. CASE OwnerKills(g) \/ Exits(g)
    BY <2>3 DEF OwnerKills, Exits, Evolves, session
  <2> QED BY <1>6, <2>1, <2>2, <2>3 DEF ProcessStep
<1>7. ASSUME NEW g \in Turns, NEW q \in Requests, RequestStep(g, q)
      PROVE  Evolves
  <2>1. CASE Ask(g, q) \/ Replied(g, q) \/ Withdrawn(g, q)
    BY <2>1 DEF Ask, Replied, Withdrawn, Fails, Goes, Evolves, session, process, Over
  <2>2. CASE Respond(g, q) \/ AnswerReaches(g, q) \/ AnswerWritten(g, q) \/ AnswerLost(g, q)
    BY <2>2 DEF Respond, AnswerReaches, AnswerWritten, AnswerLost, Stop, Evolves, session, process
  <2> QED BY <1>7, <2>1, <2>2 DEF RequestStep
<1>8. CASE StopperStep
  BY <1>8 DEF StopperStep, Shutdown, StopTurns, ShutdownDone, Stop, Evolves, process
<1> QED BY <1>1, <1>2, <1>3, <1>4, <1>5, <1>6, <1>7, <1>8, StepKinds, Zenon

-----------------------------------------------------------------------------
(* Types.                                                                  *)

LEMMA TypesInit ==
  ASSUME Init
  PROVE  Types
BY DEF Init, Types, CallTypes, WorkerTypes, RequestTypes, Over, Turns

LEMMA CallTypesHold ==
  ASSUME Types, Next
  PROVE  CallTypes'
<1> USE DEF Types, CallTypes
<1>1. ASSUME NEW g \in Turns, Spawn(g)
      PROVE  CallTypes'
  BY <1>1 DEF Spawn
<1>2. ASSUME NEW g \in Turns, FrameStep(g) \/ StreamStep(g)
      PROVE  CallTypes'
  BY <1>2 DEF FrameStep, StreamStep, Terminal, Interrupt, InterruptStops, Interrupted, Read,
     session, calls
<1>3. ASSUME NEW g \in Turns, WorkerStep(g)
      PROVE  CallTypes'
  BY <1>3 DEF WorkerStep, Initialized, Configured, PromptWritten, Send, Stopped, RunFails,
     Unconfigured, Refused, Push, session, calls
<1>4. ASSUME NEW g \in Turns, CallStep(g)
      PROVE  CallTypes'
  BY <1>4 DEF CallStep, StartTurn, StartDropped, JoinPrevious, Started, StartFails, Leave, session
<1>5. ASSUME NEW g \in Turns, ProcessStep(g)
      PROVE  CallTypes'
  BY <1>5 DEF ProcessStep, PromptReaches, Close, OwnerKills, Exits, session, calls
<1>6. ASSUME NEW g \in Turns, NEW q \in Requests, RequestStep(g, q)
      PROVE  CallTypes'
  BY <1>6 DEF RequestStep, Ask, Replied, Withdrawn, Respond, AnswerReaches, AnswerWritten,
     AnswerLost, session, calls
<1>7. CASE Shutdown
  BY <1>7 DEF Shutdown, calls
<1>8. CASE StopTurns
  BY <1>8 DEF StopTurns, calls
<1>9. CASE ShutdownDone
  BY <1>9 DEF ShutdownDone, calls
<1> QED BY <1>1, <1>2, <1>3, <1>4, <1>5, <1>6, <1>7, <1>8, <1>9, StepKinds, Zenon DEF StopperStep

LEMMA WorkerTypesHold ==
  ASSUME Types, Next
  PROVE  WorkerTypes'
<1> USE DEF Types, WorkerTypes
<1>1. ASSUME NEW g \in Turns, Spawn(g)
      PROVE  WorkerTypes'
  <2>1. \/ Spawned(g)
        \/ UNCHANGED <<worker, alive, resumes>>
    BY <1>1 DEF Spawn, Spawned, stream, outcome, replies
  <2>2. UNCHANGED <<prompted, stop>>
    BY <1>1 DEF Spawn
  <2>3. CASE Spawned(g)
    <3>1. dispatched \in BOOLEAN
      BY DEF CallTypes
    <3>2. worker' \in [Turns -> Running \cup Over \cup {"push", "close"}]
      BY <2>3 DEF Spawned, Running
    <3>3. alive' \in [Turns -> BOOLEAN] /\ resumes' \in [Turns -> BOOLEAN]
      BY <2>3, <3>1 DEF Spawned
    <3> QED BY <2>2, <3>2, <3>3
  <2>4. CASE UNCHANGED <<worker, alive, resumes>>
    BY <2>2, <2>4
  <2> QED BY <2>1, <2>3, <2>4
<1>2. ASSUME NEW g \in Turns, FrameStep(g)
      PROVE  WorkerTypes'
  BY <1>2 DEF FrameStep, Goes, process, Running
<1>3. ASSUME NEW g \in Turns, WorkerStep(g)
      PROVE  WorkerTypes'
  <2>1. UNCHANGED <<process, stop>>
    BY <1>3 DEF WorkerStep, Initialized, Configured, PromptWritten, Send, Stopped, RunFails,
       Unconfigured, Refused, Push
  <2>2. \E place \in Running \cup {"push", "close"} : Goes(g, place)
    <3>1. CASE Initialized(g) \/ Configured(g) \/ PromptWritten(g)
      BY <3>1 DEF Initialized, Configured, PromptWritten, Running
    <3>2. CASE Send(g)
      BY <3>2 DEF Send, Running
    <3>3. CASE Stopped(g) \/ RunFails(g) \/ Unconfigured(g) \/ Refused(g) \/ Push(g)
      BY <3>3 DEF Stopped, RunFails, Unconfigured, Refused, Push, Fails
    <3> QED BY <1>3, <3>1, <3>2, <3>3 DEF WorkerStep
  <2> QED BY <2>1, <2>2 DEF Goes, process
<1>4. ASSUME NEW g \in Turns, StreamStep(g)
      PROVE  WorkerTypes'
  BY <1>4 DEF StreamStep, Terminal, Interrupt, InterruptStops, Interrupted, Read, Stop, process
<1>5. ASSUME NEW g \in Turns, CallStep(g)
      PROVE  WorkerTypes'
  <2>1. UNCHANGED <<process, worker>> /\ (UNCHANGED stop \/ \E gs : Stop(gs))
    BY <1>5 DEF CallStep, StartTurn, StartDropped, JoinPrevious, Started, StartFails, Leave
  <2> QED BY <2>1 DEF Stop, process
<1>6. ASSUME NEW g \in Turns, ProcessStep(g)
      PROVE  WorkerTypes'
  BY <1>6 DEF ProcessStep, PromptReaches, Close, OwnerKills, Exits, Goes, Over
<1>7. ASSUME NEW g \in Turns, NEW q \in Requests, RequestStep(g, q)
      PROVE  WorkerTypes'
  <2>1. CASE Ask(g, q) \/ Replied(g, q) \/ Withdrawn(g, q)
    BY <2>1 DEF Ask, Replied, Withdrawn, Fails, Goes, process, Running
  <2>2. CASE Respond(g, q) \/ AnswerReaches(g, q) \/ AnswerWritten(g, q) \/ AnswerLost(g, q)
    BY <2>2 DEF Respond, AnswerReaches, AnswerWritten, AnswerLost, Stop, process
  <2> QED BY <1>7, <2>1, <2>2 DEF RequestStep
<1>8. CASE StopperStep
  BY <1>8 DEF StopperStep, Shutdown, StopTurns, ShutdownDone, Stop, process
<1> QED BY <1>1, <1>2, <1>3, <1>4, <1>5, <1>6, <1>7, <1>8, StepKinds, Zenon

-----------------------------------------------------------------------------
(* Requests.                                                               *)

\* Only the steps of a request touch its answer.
LEMMA OthersKeepAnswers ==
  ASSUME Next
  PROVE  \/ UNCHANGED <<control, answers, writing>>
         \/ \E g \in Turns, q \in Requests : RequestStep(g, q)
<1>1. ASSUME NEW g \in Turns, Spawn(g) \/ FrameStep(g) \/ StreamStep(g)
      PROVE  UNCHANGED <<control, answers, writing>>
  BY <1>1 DEF Spawn, FrameStep, StreamStep, Terminal, Interrupt, InterruptStops, Interrupted, Read,
     replies, calls
<1>2. ASSUME NEW g \in Turns, WorkerStep(g)
      PROVE  UNCHANGED <<control, answers, writing>>
  BY <1>2 DEF WorkerStep, Initialized, Configured, PromptWritten, Send, Stopped, RunFails,
     Unconfigured, Refused, Push, replies, calls
<1>3. ASSUME NEW g \in Turns, CallStep(g)
      PROVE  UNCHANGED <<control, answers, writing>>
  BY <1>3 DEF CallStep, StartTurn, StartDropped, JoinPrevious, Started, StartFails, Leave, replies
<1>4. ASSUME NEW g \in Turns, ProcessStep(g)
      PROVE  UNCHANGED <<control, answers, writing>>
  BY <1>4 DEF ProcessStep, PromptReaches, Close, OwnerKills, Exits, replies, calls
<1>5. CASE StopperStep
  BY <1>5 DEF StopperStep, Shutdown, StopTurns, ShutdownDone, replies, calls
<1> QED BY <1>1, <1>2, <1>3, <1>4, <1>5, StepKinds, Zenon

LEMMA RequestTypesHold ==
  ASSUME Types, Next
  PROVE  RequestTypes'
<1> USE DEF Types, RequestTypes
<1>1. CASE UNCHANGED <<control, answers, writing>>
  BY <1>1
<1>2. ASSUME NEW g \in Turns, NEW q \in Requests, RequestStep(g, q)
      PROVE  RequestTypes'
  <2>1. CASE Ask(g, q)
    <3>1. CASE control' = [control EXCEPT ![g][q] = "pending"]
      BY <2>1, <3>1 DEF Ask, calls
    <3>2. CASE control' = [control EXCEPT ![g][q] = "replying"]
      BY <2>1, <3>2 DEF Ask, calls
    <3> QED BY <2>1, <3>1, <3>2 DEF Ask
  <2>2. CASE Replied(g, q)
    BY <2>2 DEF Replied, calls
  <2>3. CASE Withdrawn(g, q)
    BY <2>3 DEF Withdrawn, replies, calls
  <2>4. CASE Respond(g, q)
    BY <2>4 DEF Respond
  <2>5. CASE AnswerReaches(g, q)
    BY <2>5 DEF AnswerReaches
  <2>6. CASE AnswerWritten(g, q)
    BY <2>6 DEF AnswerWritten
  <2>7. CASE AnswerLost(g, q)
    BY <2>7 DEF AnswerLost, replies
  <2> QED BY <1>2, <2>1, <2>2, <2>3, <2>4, <2>5, <2>6, <2>7 DEF RequestStep
<1> QED BY <1>1, <1>2, OthersKeepAnswers

\* A claimed request stays with a turn that stops or is being closed.
LEMMA SettledStays ==
  ASSUME Types, SlotIsLast, Next, NEW g \in Turns,
         stop[g] \/ worker[g] \in {"close", "done"}
  PROVE  stop'[g] \/ worker'[g] \in {"close", "done"}
<1>1. CASE \E h \in Turns : Spawned(h)
  <2> PICK h \in Turns : Spawned(h)
    BY <1>1
  <2>1. worker[h] = "none"
    BY DEF Spawned, SlotIsLast
  <2>2. CASE h = g
    BY <2>1, <2>2 DEF Spawned
  <2>3. CASE h # g
    BY <2>3 DEF Spawned, Types, WorkerTypes
  <2> QED BY <2>2, <2>3
<1>2. CASE Evolves
  BY <1>2 DEF Evolves, Over
<1> QED BY <1>1, <1>2, Evolution

LEMMA AnswersStep ==
  ASSUME IInv, Next
  PROVE  AnswersInv'
<1> SUFFICES ASSUME NEW x \in Turns, NEW y \in Requests
             PROVE  OneWriter(x, y)'
  BY DEF AnswersInv
<1> USE DEF IInv, Types, RequestTypes
<1>1. OneWriter(x, y)
  BY DEF AnswersInv
<1>2. stop[x] \/ worker[x] \in {"close", "done"} => stop'[x] \/ worker'[x] \in {"close", "done"}
  BY SettledStays
<1>3. CASE /\ control'[x][y] = control[x][y] /\ answers'[x][y] = answers[x][y]
           /\ writing'[x][y] = writing[x][y]
  BY <1>1, <1>2, <1>3 DEF OneWriter
<1>4. CASE UNCHANGED <<control, answers, writing>>
  BY <1>3, <1>4
<1>5. ASSUME NEW g \in Turns, NEW q \in Requests, RequestStep(g, q)
      PROVE  OneWriter(x, y)'
  <2>1. CASE g # x \/ q # y
    <3>1. CASE Ask(g, q)
      BY <1>3, <2>1, <3>1 DEF Ask, calls
    <3>2. CASE Replied(g, q)
      BY <1>3, <2>1, <3>2 DEF Replied, calls
    <3>7. CASE Withdrawn(g, q)
      BY <1>3, <2>1, <3>7 DEF Withdrawn, calls, replies
    <3>3. CASE Respond(g, q)
      BY <1>3, <2>1, <3>3 DEF Respond
    <3>6. CASE AnswerWritten(g, q)
      BY <1>3, <2>1, <3>6 DEF AnswerWritten
    <3>4. CASE AnswerReaches(g, q)
      BY <1>3, <2>1, <3>4 DEF AnswerReaches
    <3>5. CASE AnswerLost(g, q)
      BY <1>3, <2>1, <3>5 DEF AnswerLost, replies
    <3> QED BY <1>5, <3>1, <3>2, <3>3, <3>4, <3>5, <3>6, <3>7 DEF RequestStep
  <2>2. CASE g = x /\ q = y
    <3>1. CASE Ask(x, y)
      BY <1>1, <3>1 DEF Ask, calls, OneWriter
    <3>2. CASE Replied(x, y)
      BY <1>1, <3>2 DEF Replied, calls, OneWriter
    <3>3. CASE Withdrawn(x, y)
      BY <1>3, <3>3 DEF Withdrawn, calls, replies
    <3>4. CASE Respond(x, y)
      BY <1>1, <3>4 DEF Respond, OneWriter
    <3>5. CASE AnswerReaches(x, y)
      <4>1. writing[x][y] = {"first"} /\ answers[x][y] = 0
        BY <1>1, <3>5 DEF AnswerReaches, OneWriter
      <4>2. writing'[x][y] = {"reached"} /\ answers'[x][y] = 1 /\ control' = control
        BY <4>1, <3>5 DEF AnswerReaches
      <4> QED BY <1>1, <4>1, <4>2 DEF OneWriter
    <3>6. CASE AnswerWritten(x, y)
      <4>1. writing[x][y] = {"reached"}
        BY <1>1, <3>6 DEF AnswerWritten, OneWriter
      <4>2. writing'[x][y] = {} /\ answers' = answers
        BY <4>1, <3>6 DEF AnswerWritten
      <4>3. \/ worker[x] \in {"close", "done"} /\ control'[x][y] = control[x][y]
            \/ control'[x][y] = "written"
        BY <3>6 DEF AnswerWritten
      <4> QED BY <1>1, <1>2, <4>1, <4>2, <4>3 DEF OneWriter
    <3>7. CASE AnswerLost(x, y)
      <4>1. writing'[x][y] = {} /\ stop'[x] /\ UNCHANGED replies /\ writing[x][y] # {}
        BY <3>7 DEF AnswerLost, Stop
      <4> QED BY <1>1, <4>1 DEF OneWriter, replies
    <3> QED BY <1>5, <2>2, <3>1, <3>2, <3>3, <3>4, <3>5, <3>6, <3>7 DEF RequestStep
  <2> QED BY <2>1, <2>2
<1> QED BY <1>4, <1>5, OthersKeepAnswers

-----------------------------------------------------------------------------
(* Calls of start_turn.                                                    *)

\* What a step does to a call: it begins behind calls that are over, it can go
\* on to spawn when the turn before has been joined, it has an owner to
\* read when it has returned, and a receiver that is gone does not come back.
CallEvolves(x) ==
  /\ CallIsOver(x) => CallIsOver(x)'
  /\ start'[x] # "idle" => start[x] # "idle" \/ \A h \in 1 .. x - 1 : CallIsOver(h)
  /\ start'[x] \in {"idle", "join", "spawn"} => start[x] \in {"idle", "join", "spawn"}
  /\ start'[x] = "spawn" => start[x] = "spawn" \/ slot = 0 \/ worker[slot] = "done"
  /\ reader'[x] # "none" => start'[x] \in {"returned", "dropped"}
  /\ reader'[x] = "reading" => start'[x] = "returned"
  /\ Receiver(x)' => Receiver(x)

LEMMA CallsEvolve ==
  ASSUME Types, CallsInOrder, Next, NEW x \in Turns
  PROVE  CallEvolves(x)
<1> USE DEF Types, CallTypes, CallsInOrder
<1>1. CASE UNCHANGED <<start, reader>>
  BY <1>1 DEF CallEvolves, CallIsOver, Receiver
<1>2. ASSUME NEW g \in Turns, FrameStep(g) \/ StreamStep(g)
      PROVE  UNCHANGED <<start, reader>>
  BY <1>2 DEF FrameStep, StreamStep, Terminal, Interrupt, InterruptStops, Interrupted, Read, calls
<1>3. ASSUME NEW g \in Turns, WorkerStep(g)
      PROVE  UNCHANGED <<start, reader>>
  BY <1>3 DEF WorkerStep, Initialized, Configured, PromptWritten, Send, Stopped, RunFails,
     Unconfigured, Refused, Push, calls
<1>4. ASSUME NEW g \in Turns, ProcessStep(g)
      PROVE  UNCHANGED <<start, reader>>
  BY <1>4 DEF ProcessStep, PromptReaches, Close, OwnerKills, Exits, calls
<1>5. ASSUME NEW g \in Turns, NEW q \in Requests, RequestStep(g, q)
      PROVE  UNCHANGED <<start, reader>>
  BY <1>5 DEF RequestStep, Ask, Replied, Withdrawn, Respond, AnswerReaches, AnswerWritten,
     AnswerLost, calls
<1>6. CASE StopperStep
  BY <1>1, <1>6 DEF StopperStep, Shutdown, StopTurns, ShutdownDone, calls
<1>7. ASSUME NEW g \in Turns, Spawn(g)
      PROVE  CallEvolves(x)
  BY <1>7 DEF Spawn, CallEvolves, CallIsOver, Receiver
<1>8. ASSUME NEW g \in Turns, CallStep(g)
      PROVE  CallEvolves(x)
  <2>1. CASE StartTurn(g)
    BY <2>1 DEF StartTurn, CallEvolves, CallIsOver, Receiver
  <2>2. CASE StartDropped(g)
    BY <2>2 DEF StartDropped, CallEvolves, CallIsOver, Receiver
  <2>3. CASE JoinPrevious(g)
    BY <2>3 DEF JoinPrevious, Joined, CallEvolves, CallIsOver, Receiver
  <2>4. CASE Started(g)
    BY <2>4 DEF Started, CallEvolves, CallIsOver, Receiver
  <2>5. CASE StartFails(g)
    BY <2>5 DEF StartFails, CallEvolves, CallIsOver, Receiver
  <2>6. CASE Leave(g)
    BY <2>6 DEF Leave, CallEvolves, CallIsOver, Receiver
  <2> QED BY <1>8, <2>1, <2>2, <2>3, <2>4, <2>5, <2>6 DEF CallStep
<1> QED BY <1>1, <1>2, <1>3, <1>4, <1>5, <1>6, <1>7, <1>8, StepKinds

LEMMA CallsStep ==
  ASSUME IInv, Next
  PROVE  CallsInOrder'
<1>1. \A x \in Turns : CallEvolves(x)
  BY CallsEvolve DEF IInv
<1>2. ASSUME NEW g \in Turns, start'[g] # "idle", NEW h \in 1 .. g - 1
      PROVE  CallIsOver(h)'
  <2>1. h \in Turns
    BY ClaudeAssumption DEF Turns
  <2>2. CallIsOver(h)
    BY <1>1, <1>2 DEF CallEvolves, IInv, CallsInOrder
  <2> QED BY <1>1, <2>1, <2>2 DEF CallEvolves
<1>3. ASSUME NEW g \in Turns, reader'[g] # "none"
      PROVE  start'[g] \in {"returned", "dropped"}
  BY <1>1, <1>3 DEF CallEvolves
<1>4. \A g \in Turns : reader'[g] = "reading" => start'[g] = "returned"
  BY <1>1 DEF CallEvolves
<1> QED BY <1>2, <1>3, <1>4 DEF CallsInOrder

-----------------------------------------------------------------------------
(* The slot and its process.                                               *)

\* A call that spawns finds every turn before it at its end, the slot's turn
\* among them, and no turn behind it.
LEMMA SpawnedIsLast ==
  ASSUME IInv, NEW g \in Turns, Spawned(g)
  PROVE  /\ slot \in 0 .. g - 1
         /\ \A x \in Turns : worker[x] \in Over /\ ~alive[x]
         /\ \A x \in Turns : worker[x] # "none" => x < g
         /\ \A x \in Turns : start[x] = "spawn" => x = g
<1> USE DEF IInv, Types, CallTypes, WorkerTypes, Turns
<1>1. start[g] = "spawn" /\ worker[g] = "none"
  BY DEF Spawned, SlotIsLast
<1>2. ASSUME NEW x \in Turns, x > g
      PROVE  start[x] = "idle"
  <2>1. ~CallIsOver(g)
    BY <1>1 DEF CallIsOver, CallsInOrder
  <2>2. g \in 1 .. x - 1
    BY <1>2
  <2> QED BY <2>1, <2>2 DEF CallsInOrder
<1>3. ASSUME NEW x \in Turns, worker[x] # "none"
      PROVE  x < g
  BY <1>1, <1>2, <1>3 DEF SlotIsLast
<1>4. slot # 0 => slot \in Turns /\ worker[slot] = "done"
  BY <1>1 DEF SlotIsLast
<1>5. \A x \in Turns : worker[x] \in Over
  BY <1>4 DEF SlotIsLast, Over
<1>6. ASSUME NEW x \in Turns, x < g
      PROVE  start[x] # "spawn"
  <2>1. x \in 1 .. g - 1
    BY <1>6
  <2>2. CallIsOver(x)
    BY <1>1, <2>1 DEF CallsInOrder
  <2> QED BY <2>2 DEF CallIsOver, CallsInOrder
<1>7. slot \in 0 .. g - 1
  BY <1>3, <1>4
<1>8. \A x \in Turns : ~alive[x]
  BY <1>5 DEF SlotIsLast
<1>9. \A x \in Turns : start[x] = "spawn" => x = g
  BY <1>1, <1>2, <1>6
<1> QED BY <1>3, <1>5, <1>7, <1>8, <1>9

LEMMA SlotStep ==
  ASSUME IInv, Next
  PROVE  SlotIsLast'
<1> USE DEF IInv, Types, CallTypes, WorkerTypes
<1>1. \A x \in Turns : CallEvolves(x)
  BY CallsEvolve
<1>2. ASSUME NEW g \in Turns, Spawned(g)
      PROVE  SlotIsLast'
  <2>1. /\ \A x \in Turns : x # g => worker'[x] = worker[x] /\ alive'[x] = alive[x]
                                     /\ start'[x] = start[x]
        /\ worker'[g] = "initialize" /\ start'[g] = "wait" /\ slot' = g
    BY <1>2 DEF Spawned
  <2>2. \A x \in Turns : worker[x] \in Over /\ ~alive[x]
    BY <1>2, SpawnedIsLast
  <2>3. \A x \in Turns : worker[x] # "none" => x < g
    BY <1>2, SpawnedIsLast
  <2>4. \A x \in Turns : start[x] = "spawn" => x = g
    BY <1>2, SpawnedIsLast
  <2>5. \A x \in Turns : worker'[x] \notin Over => x = g
    BY <2>1, <2>2
  <2>6. \A x \in Turns : alive'[x] => worker'[x] \notin Over
    BY <2>1, <2>2 DEF Over
  <2>7. \A x \in Turns : worker'[x] # "none" => x <= g /\ start'[x] \notin {"idle", "join", "spawn"}
    BY <2>1, <2>3 DEF SlotIsLast, Turns
  <2>8. \A x \in Turns : start'[x] # "spawn"
    BY <2>1, <2>4
  <2> QED BY <2>1, <2>5, <2>6, <2>7, <2>8 DEF SlotIsLast
<1>3. CASE Evolves
  <2>1. /\ \A x \in Turns : worker[x] \in Over => worker'[x] = worker[x]
        /\ \A x \in Turns : worker'[x] = "none" <=> worker[x] = "none"
        /\ \A x \in Turns : alive'[x] => alive[x] /\ worker'[x] # "done"
        /\ slot' = slot
    BY <1>3 DEF Evolves, SlotIsLast, Over
  <2>2. \A x \in Turns : worker'[x] \notin Over => slot' = x
    BY <2>1 DEF SlotIsLast
  <2>3. \A x \in Turns : alive'[x] => worker'[x] \notin Over
    BY <2>1 DEF SlotIsLast, Over
  <2>4. \A x \in Turns : worker'[x] # "none" =>
                           x <= slot' /\ start'[x] \notin {"idle", "join", "spawn"}
    BY <1>1, <2>1 DEF SlotIsLast, CallEvolves
  <2>5. slot' # 0 => worker'[slot'] # "none"
    BY <2>1 DEF SlotIsLast
  <2>6. \A x \in Turns : start'[x] = "spawn" /\ slot' # 0 => worker'[slot'] = "done"
    BY <1>1, <2>1 DEF SlotIsLast, CallEvolves, Over
  <2> QED BY <2>2, <2>3, <2>4, <2>5, <2>6 DEF SlotIsLast
<1> QED BY <1>2, <1>3, Evolution

LEMMA PromptStep ==
  ASSUME IInv, Next
  PROVE  PromptIsMarked'
<1> USE DEF IInv, Types, CallTypes, WorkerTypes
<1>1. ASSUME NEW g \in Turns, Spawned(g)
      PROVE  PromptIsMarked'
  <2>1. /\ \A x \in Turns : x # g => worker'[x] = worker[x] /\ resumes'[x] = resumes[x]
        /\ worker'[g] = "initialize" /\ resumes'[g] = dispatched
        /\ prompted' = prompted /\ dispatched' = dispatched
    BY <1>1 DEF Spawned
  <2>2. \A x \in Turns : worker'[x] = "prompt" \/ prompted'[x] => dispatched'
    BY <2>1 DEF PromptIsMarked
  <2>3. ASSUME NEW x \in Turns, worker'[x] # "none", ~resumes'[x], NEW h \in 1 .. x - 1
        PROVE  ~prompted'[h]
    <3>1. h \in Turns
      BY ClaudeAssumption DEF Turns
    <3> QED BY <2>1, <2>3, <3>1 DEF PromptIsMarked
  <2> QED BY <2>2, <2>3 DEF PromptIsMarked
<1>2. CASE Evolves
  <2>1. \A x \in Turns : worker'[x] = "prompt" \/ prompted'[x] => dispatched'
    BY <1>2 DEF PromptIsMarked, Evolves
  <2>2. ASSUME NEW x \in Turns, worker'[x] # "none", ~resumes'[x], NEW h \in 1 .. x - 1
        PROVE  ~prompted'[h]
    <3>1. h \in Turns /\ h < x
      BY ClaudeAssumption DEF Turns
    <3>2. worker[x] # "none" /\ ~resumes[x]
      BY <1>2, <2>2 DEF Evolves, Over
    <3>3. ~prompted[h]
      BY <3>2 DEF PromptIsMarked
    <3>4. worker[h] # "prompt"
      BY <3>1, <3>2 DEF SlotIsLast, Turns, Over
    <3> QED BY <1>2, <3>1, <3>3, <3>4 DEF Evolves
  <2> QED BY <2>1, <2>2 DEF PromptIsMarked
<1> QED BY <1>1, <1>2, Evolution

-----------------------------------------------------------------------------
(* The shutdown.                                                           *)

\* Only the shutdown moves its own state, and nothing takes its flag back.
LEMMA OthersKeepStopper ==
  ASSUME Next
  PROVE  UNCHANGED <<stopped, stopper>> \/ StopperStep
<1>1. ASSUME NEW g \in Turns, Spawn(g) \/ FrameStep(g) \/ StreamStep(g)
      PROVE  UNCHANGED <<stopped, stopper>>
  BY <1>1 DEF Spawn, FrameStep, StreamStep, Terminal, Interrupt, InterruptStops, Interrupted, Read,
     session
<1>2. ASSUME NEW g \in Turns, WorkerStep(g)
      PROVE  UNCHANGED <<stopped, stopper>>
  BY <1>2 DEF WorkerStep, Initialized, Configured, PromptWritten, Send, Stopped, RunFails,
     Unconfigured, Refused, Push, session
<1>3. ASSUME NEW g \in Turns, CallStep(g)
      PROVE  UNCHANGED <<stopped, stopper>>
  BY <1>3 DEF CallStep, StartTurn, StartDropped, JoinPrevious, Started, StartFails, Leave, session
<1>4. ASSUME NEW g \in Turns, ProcessStep(g)
      PROVE  UNCHANGED <<stopped, stopper>>
  BY <1>4 DEF ProcessStep, PromptReaches, Close, OwnerKills, Exits, session
<1>5. ASSUME NEW g \in Turns, NEW q \in Requests, RequestStep(g, q)
      PROVE  UNCHANGED <<stopped, stopper>>
  BY <1>5 DEF RequestStep, Ask, Replied, Withdrawn, Respond, AnswerReaches, AnswerWritten,
     AnswerLost, session
<1> QED BY <1>1, <1>2, <1>3, <1>4, <1>5, StepKinds, Zenon

LEMMA StopperHoldsOn ==
  ASSUME IInv, Next
  PROVE  StopperHolds'
<1> USE DEF IInv, Types, CallTypes
<1>1. ASSUME NEW g \in Turns, Spawned(g)
      PROVE  StopperHolds'
  <2>1. ~stopped /\ UNCHANGED <<stopped, stopper>>
    BY <1>1 DEF Spawned, MaySpawn
  <2> QED BY <2>1 DEF StopperHolds
<1>2. CASE Evolves /\ UNCHANGED <<stopped, stopper>>
  BY <1>2 DEF Evolves, StopperHolds, Over
<1>3. CASE Evolves /\ StopperStep
  <2>1. slot' = slot /\ (slot # 0 /\ worker[slot] = "done" => worker'[slot] = "done")
    BY <1>3 DEF Evolves, Over
  <2>2. CASE Shutdown
    BY <2>1, <2>2 DEF Shutdown, StopperHolds
  <2>3. CASE StopTurns
    BY <2>1, <2>3 DEF StopTurns, StopperHolds
  <2>4. CASE ShutdownDone
    BY <2>1, <2>4 DEF ShutdownDone, Joined, StopperHolds
  <2> QED BY <1>3, <2>2, <2>3, <2>4 DEF StopperStep
<1> QED BY <1>1, <1>2, <1>3, Evolution, OthersKeepStopper

-----------------------------------------------------------------------------
(* The theorems.                                                           *)

LEMMA IInvInit ==
  ASSUME Init
  PROVE  IInv
<1>1. Types
  BY TypesInit
<1>2. CallsInOrder /\ SlotIsLast /\ PromptIsMarked /\ StopperHolds
  BY DEF Init, CallsInOrder, SlotIsLast, PromptIsMarked, StopperHolds, CallIsOver, Over, Turns
<1>3. AnswersInv
  BY DEF Init, AnswersInv, OneWriter
<1> QED BY <1>1, <1>2, <1>3 DEF IInv

LEMMA IInvStutters ==
  ASSUME IInv, UNCHANGED vars
  PROVE  IInv'
<1> USE DEF vars, session, process, calls, replies
<1>1. Types'
  BY DEF IInv, Types, CallTypes, WorkerTypes, RequestTypes
<1>2. CallsInOrder' /\ SlotIsLast' /\ PromptIsMarked' /\ StopperHolds'
  BY DEF IInv, CallsInOrder, SlotIsLast, PromptIsMarked, StopperHolds, CallIsOver
<1>3. AnswersInv'
  BY DEF IInv, AnswersInv, OneWriter
<1> QED BY <1>1, <1>2, <1>3 DEF IInv

\* Every reachable state satisfies the inductive invariant.
THEOREM InductiveInvariant == Spec => []IInv
<1>1. Init => IInv
  BY IInvInit
<1>2. IInv /\ [Next]_vars => IInv'
  <2>1. ASSUME IInv, Next
        PROVE  IInv'
    <3>1. Types'
      BY <2>1, CallTypesHold, WorkerTypesHold, RequestTypesHold DEF IInv, Types
    <3> QED BY <2>1, <3>1, CallsStep, SlotStep, PromptStep, StopperHoldsOn, AnswersStep DEF IInv
  <2> QED BY <2>1, IInvStutters
<1> QED BY <1>1, <1>2, PTL DEF Spec

\* For any number of turns: two processes never use the session at once, a process
\* creates it only if no prompt can have reached an earlier one, and a shutdown
\* that returned left none (start_turn, run_turn, shutdown).
THEOREM SessionsAreOwned == Spec => []ProcessesAreOwned
<1>1. ASSUME IInv
      PROVE  SessionIsSerial
  BY <1>1 DEF IInv, SlotIsLast, PromptIsMarked, SessionIsSerial
<1>2. ASSUME IInv
      PROVE  ShutdownLeavesNothing
  <2>1. ASSUME stopper.at = "done", NEW g \in Turns
        PROVE  worker[g] \in Over
    BY <1>2, <2>1 DEF IInv, SlotIsLast, StopperHolds, Over, Turns
  <2> QED BY <1>2, <2>1 DEF IInv, SlotIsLast, ShutdownLeavesNothing
<1>3. IInv => ProcessesAreOwned
  BY <1>1, <1>2 DEF ProcessesAreOwned
<1> QED BY <1>3, InductiveInvariant, PTL

\* However calls of respond, dropped or failing, race with the stop and the end of
\* a turn: a reply reaches the process at most once, and a request that was claimed
\* and has no writer stops its turn (respond, run_turn).
THEOREM AnsweredOnce == Spec => []ControlsSettle
<1>1. IInv => ControlsSettle
  BY DEF IInv, AnswersInv, OneWriter, ControlsSettle
<1> QED BY <1>1, InductiveInvariant, PTL

-----------------------------------------------------------------------------
(* Events in a row.                                                        *)

\* What may come next
EventFits(s, e) ==
  /\ e.type = "running" => /\ ~Has(s, e.of, {"running"})
                           /\ Above[e.of] # 0 => Has(s, Above[e.of], {"running"})
  /\ e.of # 0 /\ e.type \in Ended => Has(s, e.of, {"running"}) /\ ~Has(s, e.of, Ended)
  /\ e.type = "operation" /\ e.of # 0 => Has(s, e.of, {"running"})
  /\ e = RootEvent("completed") =>
       \A k \in Tasks : Has(s, k, {"running"}) => Has(s, k, Ended)

\* WellFramed at a place
FitsAt(s, i) ==
  /\ s[i].type = "running" =>
       /\ ~Before(s, i, s[i].of, {"running"})
       /\ Above[s[i].of] # 0 => Before(s, i, Above[s[i].of], {"running"})
  /\ s[i].of # 0 /\ s[i].type \in Ended =>
       Before(s, i, s[i].of, {"running"}) /\ ~Before(s, i, s[i].of, Ended)
  /\ s[i].type = "operation" /\ s[i].of # 0 => Before(s, i, s[i].of, {"running"})
  /\ s[i] = RootEvent("completed") =>
       \A k \in Tasks : Before(s, i, k, {"running"}) => Before(s, i, k, Ended)

\* Before in a longer sequence
LEMMA BeforeInConcat ==
  ASSUME NEW s \in Seq(Events), NEW t \in Seq(Events), NEW k, NEW statuses
  PROVE  /\ \A i \in 1 .. Len(s) : Before(s \o t, i, k, statuses) <=> Before(s, i, k, statuses)
         /\ \A i \in Len(s) + 1 .. Len(s) + Len(t) :
              Has(s, k, statuses) => Before(s \o t, i, k, statuses)
         /\ t # <<>> => (Before(s \o t, Len(s) + 1, k, statuses) <=> Has(s, k, statuses))
<1>1. /\ Len(s) \in Nat /\ Len(t) \in Nat /\ DOMAIN s = 1 .. Len(s)
      /\ \A i \in 1 .. Len(s) : (s \o t)[i] = s[i]
  BY ConcatProperties
<1>2. ASSUME NEW i \in 1 .. Len(s)
      PROVE  Before(s \o t, i, k, statuses) <=> Before(s, i, k, statuses)
  <2>1. \A j \in 1 .. i - 1 : j \in 1 .. Len(s)
    BY <1>1
  <2> QED BY <1>1, <2>1 DEF Before
<1>3. ASSUME NEW i \in Len(s) + 1 .. Len(s) + Len(t), Has(s, k, statuses)
      PROVE  Before(s \o t, i, k, statuses)
  <2>1. PICK j \in 1 .. Len(s) : IsChild(s[j], k, statuses)
    BY <1>1, <1>3 DEF Has
  <2>2. j \in 1 .. i - 1
    BY <1>1
  <2> QED BY <1>1, <2>1, <2>2 DEF Before
<1>4. Before(s \o t, Len(s) + 1, k, statuses) <=> Has(s, k, statuses)
  <2>1. 1 .. Len(s) + 1 - 1 = DOMAIN s
    BY <1>1
  <2> QED BY <1>1, <2>1 DEF Before, Has
<1> QED BY <1>2, <1>3, <1>4

LEMMA HasInConcat ==
  ASSUME NEW s \in Seq(Events), NEW t \in Seq(Events), NEW k, NEW statuses
  PROVE  Has(s \o t, k, statuses) <=> Has(s, k, statuses) \/ Has(t, k, statuses)
<1>1. /\ Len(s) \in Nat /\ Len(t) \in Nat /\ DOMAIN s = 1 .. Len(s) /\ DOMAIN t = 1 .. Len(t)
      /\ s \o t \in Seq(Events) /\ Len(s \o t) = Len(s) + Len(t)
      /\ \A i \in 1 .. Len(s) + Len(t) : (s \o t)[i] = IF i <= Len(s) THEN s[i] ELSE t[i - Len(s)]
  BY ConcatProperties
<1>2. DOMAIN (s \o t) = 1 .. Len(s) + Len(t)
  BY <1>1
<1>3. ASSUME NEW i \in DOMAIN (s \o t), IsChild((s \o t)[i], k, statuses)
      PROVE  Has(s, k, statuses) \/ Has(t, k, statuses)
  <2>1. CASE i <= Len(s)
    BY <1>1, <1>2, <1>3, <2>1 DEF Has
  <2>2. CASE i > Len(s)
    <3>1. i - Len(s) \in DOMAIN t /\ (s \o t)[i] = t[i - Len(s)]
      BY <1>1, <1>2, <2>2
    <3> QED BY <1>3, <3>1 DEF Has
  <2> QED BY <1>1, <1>2, <2>1, <2>2
<1>4. ASSUME NEW i \in DOMAIN s, IsChild(s[i], k, statuses)
      PROVE  Has(s \o t, k, statuses)
  <2>1. i \in DOMAIN (s \o t) /\ (s \o t)[i] = s[i]
    BY <1>1, <1>2
  <2> QED BY <1>4, <2>1 DEF Has
<1>5. ASSUME NEW i \in DOMAIN t, IsChild(t[i], k, statuses)
      PROVE  Has(s \o t, k, statuses)
  <2>1. Len(s) + i \in DOMAIN (s \o t)
    BY <1>1, <1>2
  <2>2. (s \o t)[Len(s) + i] = t[i]
    BY <1>1, <1>2, <2>1
  <2> QED BY <1>5, <2>1, <2>2 DEF Has
<1> QED BY <1>3, <1>4, <1>5 DEF Has

LEMMA HasInOne ==
  ASSUME NEW e \in Events, NEW k, NEW statuses
  PROVE  /\ <<e>> \in Seq(Events)
         /\ Has(<<e>>, k, statuses) <=> IsChild(e, k, statuses)
         /\ ~Has(<<>>, k, statuses)
BY DEF Has

\* What comes first in a framed sequence is framed.
LEMMA FramedPrefix ==
  ASSUME NEW s \in Seq(Events), NEW t \in Seq(Events), WellFramed(s \o t)
  PROVE  WellFramed(s)
<1>1. /\ Len(s) \in Nat /\ Len(t) \in Nat /\ DOMAIN s = 1 .. Len(s)
      /\ \A i \in 1 .. Len(s) : i \in DOMAIN (s \o t) /\ (s \o t)[i] = s[i]
  BY ConcatProperties
<1>2. \A k, statuses : \A i \in 1 .. Len(s) :
        Before(s \o t, i, k, statuses) <=> Before(s, i, k, statuses)
  BY BeforeInConcat
<1> QED BY <1>1, <1>2 DEF WellFramed

LEMMA FramedOne ==
  ASSUME NEW s \in Seq(Events), NEW e \in Events, WellFramed(s), EventFits(s, e)
  PROVE  WellFramed(s \o <<e>>)
<1> DEFINE t == <<e>>
<1>1. t \in Seq(Events) /\ Len(t) = 1 /\ t[1] = e /\ t # <<>>
  OBVIOUS
<1>2. /\ Len(s) \in Nat /\ DOMAIN s = 1 .. Len(s) /\ DOMAIN (s \o t) = 1 .. Len(s) + 1
      /\ \A i \in 1 .. Len(s) : (s \o t)[i] = s[i]
      /\ (s \o t)[Len(s) + 1] = e
  BY <1>1, ConcatProperties
<1>3. \A k, statuses : \A i \in 1 .. Len(s) :
        Before(s \o t, i, k, statuses) <=> Before(s, i, k, statuses)
  BY <1>1, BeforeInConcat
<1>4. \A k, statuses : Before(s \o t, Len(s) + 1, k, statuses) <=> Has(s, k, statuses)
  BY <1>1, BeforeInConcat
<1> HIDE DEF t
<1>5. ASSUME NEW i \in 1 .. Len(s)
      PROVE  FitsAt(s \o t, i)
  <2>1. FitsAt(s, i)
    BY <1>2 DEF WellFramed, FitsAt
  <2> QED BY <1>2, <1>3, <2>1 DEF FitsAt
<1>6. FitsAt(s \o t, Len(s) + 1)
  BY <1>2, <1>4 DEF FitsAt, EventFits
<1>7. \A i \in 1 .. Len(s) + 1 : FitsAt(s \o t, i)
  BY <1>2, <1>5, <1>6
<1> QED BY <1>2, <1>7 DEF WellFramed, FitsAt, t

\* Operations of tools whose owner is registered
LEMMA FramedOperations ==
  ASSUME NEW s \in Seq(Events), NEW t \in Seq(Events), WellFramed(s),
         \A i \in DOMAIN t : /\ t[i].type = "operation"
                             /\ t[i].of # 0 => Has(s, t[i].of, {"running"})
  PROVE  WellFramed(s \o t)
<1>1. /\ Len(s) \in Nat /\ Len(t) \in Nat /\ DOMAIN s = 1 .. Len(s) /\ DOMAIN t = 1 .. Len(t)
      /\ s \o t \in Seq(Events) /\ Len(s \o t) = Len(s) + Len(t)
      /\ \A i \in 1 .. Len(s) + Len(t) : (s \o t)[i] = IF i <= Len(s) THEN s[i] ELSE t[i - Len(s)]
  BY ConcatProperties
<1>2. DOMAIN (s \o t) = 1 .. Len(s) + Len(t)
  BY <1>1
<1>3. \A k, statuses : \A i \in 1 .. Len(s) :
        Before(s \o t, i, k, statuses) <=> Before(s, i, k, statuses)
  BY BeforeInConcat
<1>4. \A k, statuses : \A i \in Len(s) + 1 .. Len(s) + Len(t) :
        Has(s, k, statuses) => Before(s \o t, i, k, statuses)
  BY BeforeInConcat
<1>5. ASSUME NEW i \in 1 .. Len(s)
      PROVE  FitsAt(s \o t, i)
  <2>1. FitsAt(s, i) /\ (s \o t)[i] = s[i]
    BY <1>1 DEF WellFramed, FitsAt
  <2> QED BY <1>3, <2>1 DEF FitsAt
<1>6. ASSUME NEW i \in Len(s) + 1 .. Len(s) + Len(t)
      PROVE  FitsAt(s \o t, i)
  <2>1. i - Len(s) \in DOMAIN t /\ (s \o t)[i] = t[i - Len(s)]
    BY <1>1
  <2>2. /\ (s \o t)[i].type = "operation"
        /\ (s \o t)[i].of # 0 => Has(s, (s \o t)[i].of, {"running"})
    BY <2>1
  <2> QED BY <1>4, <2>2 DEF FitsAt, Ended, RootEvent
<1>7. \A i \in 1 .. Len(s) + Len(t) : FitsAt(s \o t, i)
  BY <1>1, <1>5, <1>6
<1> QED BY <1>2, <1>7 DEF WellFramed, FitsAt

-----------------------------------------------------------------------------
(* Text.                                                                   *)

LettersDef(s, b, x) == \E i \in DOMAIN s : /\ s[i].type = "text" /\ s[i].of = b
                                            /\ \E n \in 1 .. s[i].length : x = <<i, n>>

LEMMA LettersAre ==
  ASSUME NEW s, NEW b, NEW x
  PROVE  x \in Letters(s, b) <=> LettersDef(s, b, x)
BY DEF Letters, LettersDef

\* Events without text add none.
LEMMA LettersKept ==
  ASSUME NEW s \in Seq(Events), NEW t \in Seq(Events), NEW b,
         \A i \in DOMAIN t : t[i].type # "text"
  PROVE  Letters(s \o t, b) = Letters(s, b)
<1>1. /\ Len(s) \in Nat /\ Len(t) \in Nat /\ DOMAIN s = 1 .. Len(s) /\ DOMAIN t = 1 .. Len(t)
      /\ s \o t \in Seq(Events) /\ Len(s \o t) = Len(s) + Len(t)
      /\ \A i \in 1 .. Len(s) + Len(t) : (s \o t)[i] = IF i <= Len(s) THEN s[i] ELSE t[i - Len(s)]
  BY ConcatProperties
<1>2. DOMAIN (s \o t) = 1 .. Len(s) + Len(t)
  BY <1>1
<1>3. ASSUME NEW i \in DOMAIN (s \o t), (s \o t)[i].type = "text"
      PROVE  i \in DOMAIN s /\ (s \o t)[i] = s[i]
  <2>1. CASE i <= Len(s)
    BY <1>1, <1>2, <2>1
  <2>2. CASE i > Len(s)
    <3>1. i - Len(s) \in DOMAIN t /\ (s \o t)[i] = t[i - Len(s)]
      BY <1>1, <1>2, <2>2
    <3> QED BY <1>3, <3>1
  <2> QED BY <1>1, <1>2, <2>1, <2>2
<1>4. \A i \in DOMAIN s : i \in DOMAIN (s \o t) /\ (s \o t)[i] = s[i]
  BY <1>1, <1>2
<1>5. ASSUME NEW x
      PROVE  LettersDef(s \o t, b, x) <=> LettersDef(s, b, x)
  BY <1>3, <1>4 DEF LettersDef
<1> QED BY <1>5, LettersAre

\* A piece of text adds one letter to its block.
LEMMA LettersAdded ==
  ASSUME NEW s \in Seq(Events), NEW b \in Blocks, NEW d \in Blocks
  PROVE  /\ d = b => Letters(s \o <<TextEvent(b, 1)>>, d)
                       = Letters(s, d) \cup {<<Len(s) + 1, 1>>}
         /\ d # b => Letters(s \o <<TextEvent(b, 1)>>, d) = Letters(s, d)
         /\ <<Len(s) + 1, 1>> \notin Letters(s, d)
<1> DEFINE t == <<TextEvent(b, 1)>>
<1>1. TextEvent(b, 1) \in Events /\ t \in Seq(Events) /\ Len(t) = 1 /\ t[1] = TextEvent(b, 1)
  BY ProtocolAssumption DEF TextEvent, Events, Blocks
<1>2. /\ Len(s) \in Nat /\ DOMAIN s = 1 .. Len(s) /\ DOMAIN (s \o t) = 1 .. Len(s) + 1
      /\ \A i \in 1 .. Len(s) : (s \o t)[i] = s[i]
      /\ (s \o t)[Len(s) + 1] = TextEvent(b, 1)
  BY <1>1, ConcatProperties
<1>3. /\ TextEvent(b, 1).type = "text" /\ TextEvent(b, 1).of = b /\ TextEvent(b, 1).length = 1
  BY DEF TextEvent
<1>4. 1 .. 1 = {1} /\ DOMAIN (s \o t) = DOMAIN s \cup {Len(s) + 1}
  BY <1>2
<1> HIDE DEF t
<1>5. ASSUME NEW x
      PROVE  LettersDef(s \o t, d, x) <=>
               LettersDef(s, d, x) \/ (d = b /\ x = <<Len(s) + 1, 1>>)
  BY <1>2, <1>3, <1>4 DEF LettersDef
<1>6. ~LettersDef(s, d, <<Len(s) + 1, 1>>)
  BY <1>2 DEF LettersDef
<1>7. /\ d = b => Letters(s \o t, d) = Letters(s, d) \cup {<<Len(s) + 1, 1>>}
      /\ d # b => Letters(s \o t, d) = Letters(s, d)
  BY <1>5, LettersAre
<1> QED BY <1>6, <1>7, LettersAre DEF t

-----------------------------------------------------------------------------
(* Recursive functions over an interval.                                   *)

\* Every set of natural numbers that has an element has a least one.
LEMMA Least ==
  ASSUME NEW T, T \subseteq Nat, NEW n \in T
  PROVE  \E x \in T : \A y \in T : x <= y
<1>. DEFINE S == FiniteSubsetsOf(0..n)
            U == {0..m : m \in {k \in T : k <= n}}
<1>1. IsWellFoundedOn(StrictSubsetOrdering(0..n), S)
  BY FS_StrictSubsetOrderingWellFounded
<1>2. U \subseteq S
  <2>. SUFFICES ASSUME NEW m \in T, m <= n PROVE 0..m \in S
    OBVIOUS
  <2>1. IsFiniteSet(0..m)
    BY FS_Interval
  <2>. QED BY <2>1 DEF FiniteSubsetsOf
<1>3. U # {}
  OBVIOUS
<1>4. PICK x \in U : \A y \in U : <<y, x>> \notin StrictSubsetOrdering(0..n)
  <2>. HIDE DEF U, S
  <2>. QED BY <1>1, <1>2, <1>3, WFMin
<1>5. PICK m \in T : m <= n /\ x = 0..m
  OBVIOUS
<1>6. SUFFICES ASSUME NEW y \in T, ~(m <= y) PROVE FALSE
  OBVIOUS
<1>7. y <= n /\ 0..y \subseteq 0..m /\ 0..y # 0..m /\ 0..y \subseteq 0..n /\ 0..m \subseteq 0..n
  <2>. y \in Nat /\ m \in Nat /\ n \in Nat
    OBVIOUS
  <2>. m \in 0..m /\ m \notin 0..y
    BY <1>6
  <2>. QED BY <1>5, <1>6
<1>8. <<0..y, 0..m>> \in StrictSubsetOrdering(0..n)
  <2>. HIDE DEF U, S
  <2>. QED BY <1>7 DEF StrictSubsetOrdering
<1>. QED BY <1>4, <1>5, <1>7, <1>8

\* g lists the operations of the tools that are due, up to each place before n.
Lists(g, tools, due, n) ==
  g = [i \in 0 .. n |-> IF i = 0 THEN <<>>
                        ELSE IF tools[i] \in due THEN Append(g[i - 1], OperationEvent(tools[i]))
                        ELSE g[i - 1]]

\* The equation that defines OperationsOf has a solution.
LEMMA ListExists ==
  ASSUME NEW tools \in Seq(Tools), NEW due, NEW n \in 0 .. Len(tools)
  PROVE  \E g : Lists(g, tools, due, n)
<1> DEFINE Bad == {m \in 0 .. Len(tools) : ~\E g : Lists(g, tools, due, m)}
<1> Len(tools) \in Nat
  OBVIOUS
<1>1. SUFFICES ASSUME n \in Bad PROVE FALSE
  OBVIOUS
<1>2. PICK m \in Bad : \A k \in Bad : m <= k
  <2>1. Bad \subseteq Nat
    OBVIOUS
  <2> HIDE DEF Bad
  <2> QED BY <1>1, <2>1, Least
<1>3. m # 0
  <2>1. Lists([i \in 0 .. 0 |-> <<>>], tools, due, 0)
    BY DEF Lists
  <2> QED BY <2>1, <1>2
<1>4. m - 1 \in 0 .. Len(tools) /\ m - 1 \notin Bad
  <2> m \in 0 .. Len(tools)
    OBVIOUS
  <2> HIDE DEF Bad
  <2> QED BY <1>2, <1>3
<1>5. PICK g : Lists(g, tools, due, m - 1)
  BY <1>4
<1> DEFINE Entry(f, i) == IF tools[i] \in due THEN Append(f[i - 1], OperationEvent(tools[i]))
                          ELSE f[i - 1]
           h == [i \in 0 .. m |-> IF i < m THEN g[i] ELSE Entry(g, i)]
<1>6. ASSUME NEW i \in 0 .. m
      PROVE  h[i] = IF i = 0 THEN <<>> ELSE Entry(h, i)
  <2>1. CASE i < m
    <3>1. i \in 0 .. m - 1 /\ h[i] = g[i]
      BY <2>1
    <3>2. i # 0 => h[i - 1] = g[i - 1]
      BY <2>1
    <3>3. g[i] = IF i = 0 THEN <<>> ELSE Entry(g, i)
      <4> HIDE DEF h
      <4> QED BY <3>1, <1>5 DEF Lists
    <3> HIDE DEF h
    <3> QED BY <3>1, <3>2, <3>3
  <2>2. CASE i = m
    BY <2>2, <1>3
  <2> QED BY <2>1, <2>2
<1>7. Lists(h, tools, due, m)
  BY <1>6 DEF Lists
<1> QED BY <1>7, <1>2

LEMMA OperationsOfAre ==
  ASSUME NEW tools \in Seq(Tools), NEW due
  PROVE  OperationsOf(tools, due) \in Seq({OperationEvent(tool) : tool \in due})
<1> DEFINE A == {OperationEvent(tool) : tool \in due}
<1> Len(tools) \in Nat /\ Len(tools) \in 0 .. Len(tools)
  OBVIOUS
<1>1. PICK g : Lists(g, tools, due, Len(tools)) /\ OperationsOf(tools, due) = g[Len(tools)]
  <2>1. \E g : Lists(g, tools, due, Len(tools))
    BY ListExists
  <2> QED BY <2>1 DEF OperationsOf, Lists
<1> DEFINE Bad == {m \in 0 .. Len(tools) : g[m] \notin Seq(A)}
<1>2. SUFFICES ASSUME Len(tools) \in Bad PROVE FALSE
  BY <1>1
<1>3. PICK m \in Bad : \A k \in Bad : m <= k
  <2>1. Bad \subseteq Nat
    OBVIOUS
  <2> HIDE DEF Bad
  <2> QED BY <1>2, <2>1, Least
<1>4. g[m] = IF m = 0 THEN <<>>
             ELSE IF tools[m] \in due THEN Append(g[m - 1], OperationEvent(tools[m])) ELSE g[m - 1]
  BY <1>1 DEF Lists
<1>5. m \in 0 .. Len(tools) /\ g[m] \notin Seq(A)
  OBVIOUS
<1>6. m # 0
  BY <1>4, <1>5
<1>7. m - 1 \in 0 .. Len(tools) /\ m - 1 \notin Bad
  <2> HIDE DEF Bad
  <2> QED BY <1>3, <1>5, <1>6
<1>8. g[m - 1] \in Seq(A)
  BY <1>7
<1>9. tools[m] \in due => OperationEvent(tools[m]) \in A
  OBVIOUS
<1> HIDE DEF A
<1> QED BY <1>4, <1>5, <1>6, <1>8, <1>9

-----------------------------------------------------------------------------
(* What a frame gives.                                                     *)

Results == [p : Protocol, events : Seq(Events), ok : BOOLEAN]

NoEnds(s) == \A i \in DOMAIN s : s[i] \notin Ends /\ ~IsChild(s[i], 0, Ended)

\* What has ended leaves no operation behind it.
NothingBehind(x) ==
  \A k \in Tasks : Has(x.events, k, Ended) => \A tool \in x.p.dirty : Holder(tool) # k

\* A frame that is not refused, after the events told before it
FrameTold(pre, c, x) ==
  /\ WellFramed(pre \o x.events) /\ OperationsFirst(x.events)
  /\ TasksTold(x.p, pre \o x.events)
  /\ TextsKept(x.p, c) /\ TextTold(c, pre \o x.events)

ResultInv(pre, c, x) ==
  /\ x \in Results
  /\ x.ok => FrameTold(pre, c, x) /\ NoEnds(x.events) /\ NothingBehind(x)

LEMMA OperationIsEvent ==
  ASSUME NEW tool \in Tools
  PROVE  /\ OperationEvent(tool) \in Events /\ OperationEvent(tool).type = "operation"
         /\ OperationEvent(tool).of = Holder(tool) /\ Holder(tool) \in {0} \cup Tasks
BY ProtocolAssumption DEF OperationEvent, Events, Tools, Holder, Tasks

LEMMA NoOperationEnds ==
  ASSUME NEW e, e.type = "operation"
  PROVE  e \notin Ends /\ \A k : ~IsChild(e, k, {"running"}) /\ ~IsChild(e, k, Ended)
BY DEF Ends, RootEvent, IsChild, Ended

\* The operations that are due and may be told
Due(p) == {tool \in p.dirty : Registered(p, tool)}

\* The fields that Operations leaves alone
LEMMA OperationsFields ==
  ASSUME NEW x \in Results
  PROVE  Operations(x) = [p |-> [x.p EXCEPT !.dirty = @ \ Due(x.p)],
                          events |-> x.events \o OperationsOf(x.p.tools, Due(x.p)),
                          ok |-> x.ok]
<1>1. x = [p |-> x.p, events |-> x.events, ok |-> x.ok]
  BY DEF Results
<1>2. Operations(x) = [x EXCEPT !.events = @ \o OperationsOf(x.p.tools, Due(x.p)),
                                !.p.dirty = @ \ Due(x.p)]
  BY DEF Operations, Due
<1> HIDE DEF Results
<1> QED BY <1>1, <1>2

LEMMA DirtyFields ==
  ASSUME NEW p \in Protocol, NEW due
  PROVE  LET q == [p EXCEPT !.dirty = @ \ due]
         IN /\ q \in Protocol /\ q.dirty = p.dirty \ due
            /\ q.emitted = p.emitted /\ q.status = p.status /\ q.update = p.update
            /\ q.tools = p.tools /\ q.named = p.named /\ q.success = p.success
            /\ q.stream = p.stream /\ q.mapped = p.mapped /\ q.frames = p.frames
            /\ q.texts = p.texts
BY DEF Protocol

LEMMA ConcatPlaces ==
  ASSUME NEW s \in Seq(Events), NEW t \in Seq(Events)
  PROVE  /\ Len(s) \in Nat /\ Len(t) \in Nat
         /\ DOMAIN s = 1 .. Len(s) /\ DOMAIN t = 1 .. Len(t)
         /\ s \o t \in Seq(Events) /\ Len(s \o t) = Len(s) + Len(t)
         /\ DOMAIN (s \o t) = 1 .. Len(s) + Len(t)
         /\ \A i \in 1 .. Len(s) : (s \o t)[i] = s[i]
         /\ \A i \in Len(s) + 1 .. Len(s) + Len(t) :
              i - Len(s) \in 1 .. Len(t) /\ (s \o t)[i] = t[i - Len(s)]
<1>1. /\ Len(s) \in Nat /\ Len(t) \in Nat /\ DOMAIN s = 1 .. Len(s) /\ DOMAIN t = 1 .. Len(t)
      /\ s \o t \in Seq(Events) /\ Len(s \o t) = Len(s) + Len(t)
      /\ \A i \in 1 .. Len(s) + Len(t) : (s \o t)[i] = IF i <= Len(s) THEN s[i] ELSE t[i - Len(s)]
  BY ConcatProperties
<1>2. DOMAIN (s \o t) = 1 .. Len(s) + Len(t)
  BY <1>1
<1>3. \A i \in 1 .. Len(s) : (s \o t)[i] = s[i]
  BY <1>1
<1>4. \A i \in Len(s) + 1 .. Len(s) + Len(t) :
        i - Len(s) \in 1 .. Len(t) /\ (s \o t)[i] = t[i - Len(s)]
  BY <1>1
<1> QED BY <1>1, <1>2, <1>3, <1>4

LEMMA NoEndsConcat ==
  ASSUME NEW s \in Seq(Events), NEW t \in Seq(Events), NoEnds(s), NoEnds(t)
  PROVE  NoEnds(s \o t)
<1>1. ASSUME NEW i \in 1 .. Len(s) + Len(t)
      PROVE  (s \o t)[i] \notin Ends /\ ~IsChild((s \o t)[i], 0, Ended)
  <2>1. CASE i \in 1 .. Len(s)
    BY <2>1, ConcatPlaces DEF NoEnds
  <2>2. CASE i \in Len(s) + 1 .. Len(s) + Len(t)
    BY <2>2, ConcatPlaces DEF NoEnds
  <2> QED BY <2>1, <2>2, ConcatPlaces
<1> QED BY <1>1, ConcatPlaces DEF NoEnds

\* What is told of a task does not end before an operation that is told of it.
LEMMA OperationsFirstConcat ==
  ASSUME NEW s \in Seq(Events), NEW t \in Seq(Events), OperationsFirst(s), OperationsFirst(t),
         \A j \in DOMAIN t : t[j].type = "operation" => ~Has(s, t[j].of, Ended)
  PROVE  OperationsFirst(s \o t)
<1> SUFFICES ASSUME NEW i \in DOMAIN (s \o t), NEW j \in DOMAIN (s \o t), i < j,
                    (s \o t)[j].type = "operation"
             PROVE  ~IsChild((s \o t)[i], (s \o t)[j].of, Ended)
  BY DEF OperationsFirst
<1>1. CASE j \in 1 .. Len(s)
  <2>1. i \in DOMAIN s /\ j \in DOMAIN s /\ (s \o t)[i] = s[i] /\ (s \o t)[j] = s[j]
    BY <1>1, ConcatPlaces
  <2> QED BY <2>1 DEF OperationsFirst
<1>2. CASE j \in Len(s) + 1 .. Len(s) + Len(t)
  <2>1. j - Len(s) \in DOMAIN t /\ (s \o t)[j] = t[j - Len(s)]
    BY <1>2, ConcatPlaces
  <2>2. CASE i \in 1 .. Len(s)
    <3>1. i \in DOMAIN s /\ (s \o t)[i] = s[i]
      BY <2>2, ConcatPlaces
    <3> QED BY <2>1, <3>1 DEF Has
  <2>3. CASE i \in Len(s) + 1 .. Len(s) + Len(t)
    <3>1. i - Len(s) \in DOMAIN t /\ (s \o t)[i] = t[i - Len(s)]
      BY <2>3, ConcatPlaces
    <3>2. i - Len(s) < j - Len(s)
      BY <1>2, <2>3, ConcatPlaces
    <3> QED BY <2>1, <3>1, <3>2 DEF OperationsFirst
  <2> QED BY <2>2, <2>3, ConcatPlaces
<1> QED BY <1>1, <1>2, ConcatPlaces

LEMMA ConcatThrice ==
  ASSUME NEW pre \in Seq(Events), NEW s \in Seq(Events), NEW t \in Seq(Events)
  PROVE  pre \o (s \o t) = (pre \o s) \o t /\ pre \o s \in Seq(Events) /\ s \o t \in Seq(Events)
<1>1. pre \o s \in Seq(Events) /\ s \o t \in Seq(Events)
  BY ConcatPlaces
<1> QED BY <1>1, ConcatAssociative

\* Operations of registered owners that have not ended in this frame follow.
LEMMA OperationsKeep ==
  ASSUME NEW pre \in Seq(Events), NEW c, NEW x, ResultInv(pre, c, x)
  PROVE  /\ ResultInv(pre, c, Operations(x))
         /\ Operations(x).ok = x.ok /\ Operations(x).p.emitted = x.p.emitted
         /\ Operations(x).p.status = x.p.status
         /\ \A tool \in Operations(x).p.dirty : ~Registered(x.p, tool)
<1> DEFINE ops == OperationsOf(x.p.tools, Due(x.p))
           q   == [x.p EXCEPT !.dirty = @ \ Due(x.p)]
           y   == [p |-> q, events |-> x.events \o ops, ok |-> x.ok]
<1>1. x \in Results /\ x.p \in Protocol /\ x.events \in Seq(Events) /\ x.ok \in BOOLEAN
  BY DEF ResultInv, Results
<1>2. Operations(x) = y
  BY <1>1, OperationsFields
<1>3. Due(x.p) \subseteq x.p.dirty /\ x.p.dirty \subseteq Tools /\ x.p.tools \in Seq(Tools)
  BY <1>1 DEF Due, Protocol
<1>4. ops \in Seq({OperationEvent(tool) : tool \in Due(x.p)})
  BY <1>3, OperationsOfAre
<1>5. ops \in Seq(Events)
  <2>1. {OperationEvent(tool) : tool \in Due(x.p)} \subseteq Events
    BY <1>3, OperationIsEvent
  <2> QED BY <1>4, <2>1, SeqMonotonic
<1>6. ASSUME NEW i \in DOMAIN ops
      PROVE  \E tool \in Due(x.p) : ops[i] = OperationEvent(tool)
  <2>1. i \in 1 .. Len(ops)
    BY <1>5
  <2>2. ops[i] \in {OperationEvent(tool) : tool \in Due(x.p)}
    BY <1>4, <2>1, ElementOfSeq
  <2> QED BY <2>2
<1>7. /\ q \in Protocol /\ q.dirty = x.p.dirty \ Due(x.p)
      /\ q.emitted = x.p.emitted /\ q.status = x.p.status /\ q.stream = x.p.stream
      /\ q.mapped = x.p.mapped /\ q.frames = x.p.frames /\ q.texts = x.p.texts
  <2>1. x.p \in Protocol
    BY <1>1
  <2> QED BY <2>1, DirtyFields, ZenonT(30)
<1> HIDE DEF ops, q
<1>8. y \in Results
  BY <1>1, <1>5, <1>7, ConcatPlaces DEF Results
<1>9. \A tool \in q.dirty : ~Registered(x.p, tool)
  BY <1>7 DEF Due
<1>10. ASSUME x.ok
       PROVE  FrameTold(pre, c, y) /\ NoEnds(y.events) /\ NothingBehind(y)
  <2> DEFINE s == pre \o x.events
  <2>1. FrameTold(pre, c, x) /\ NoEnds(x.events) /\ NothingBehind(x)
    BY <1>10 DEF ResultInv
  <2>2. pre \o (x.events \o ops) = s \o ops /\ s \in Seq(Events)
    <3>1. x.events \in Seq(Events) /\ ops \in Seq(Events)
      BY <1>1, <1>5
    <3> QED BY <3>1, ConcatThrice
  <2>3. ASSUME NEW i \in DOMAIN ops
        PROVE  /\ ops[i].type = "operation"
               /\ ops[i].of # 0 => Has(s, ops[i].of, {"running"})
               /\ ~Has(x.events, ops[i].of, Ended)
    <3>1. PICK tool \in Due(x.p) : ops[i] = OperationEvent(tool)
      BY <1>6
    <3>2. /\ ops[i].type = "operation" /\ ops[i].of = Holder(tool)
          /\ Holder(tool) \in {0} \cup Tasks
          /\ Registered(x.p, tool) /\ tool \in x.p.dirty
      BY <1>3, <3>1, OperationIsEvent DEF Due
    <3>3. Holder(tool) # 0 => Has(s, Holder(tool), {"running"})
      BY <2>1, <3>2 DEF Registered, FrameTold, TasksTold
    <3>4. ~Has(x.events, Holder(tool), Ended)
      <4>1. CASE Holder(tool) = 0
        BY <2>1, <4>1 DEF NoEnds, Has
      <4>2. CASE Holder(tool) \in Tasks
        BY <2>1, <3>2, <4>2 DEF NothingBehind
      <4> QED BY <3>2, <4>1, <4>2
    <3> QED BY <3>2, <3>3, <3>4
  <2> HIDE DEF s
  <2>4. WellFramed(s \o ops)
    BY <1>5, <2>1, <2>2, <2>3, FramedOperations DEF FrameTold, s
  <2>5. OperationsFirst(ops)
    BY <2>3, NoOperationEnds DEF OperationsFirst, IsChild, Ended
  <2>6. OperationsFirst(x.events \o ops)
    BY <1>1, <1>5, <2>1, <2>3, <2>5, OperationsFirstConcat DEF FrameTold
  <2>7. ASSUME NEW k
        PROVE  ~Has(ops, k, {"running"}) /\ ~Has(ops, k, Ended)
    BY <2>3, NoOperationEnds DEF Has
  <2>8. ASSUME NEW k
        PROVE  /\ Has(s \o ops, k, {"running"}) <=> Has(s, k, {"running"})
               /\ Has(s \o ops, k, Ended) <=> Has(s, k, Ended)
               /\ Has(x.events \o ops, k, Ended) <=> Has(x.events, k, Ended)
    BY <1>1, <1>5, <2>2, <2>7, HasInConcat
  <2>9. TasksTold(q, s \o ops)
    BY <1>7, <2>1, <2>8 DEF FrameTold, TasksTold, s
  <2>10. TextsKept(q, c)
    BY <1>7, <2>1 DEF FrameTold, TextsKept
  <2>11. TextTold(c, s \o ops)
    <3>1. \A b \in Blocks : Letters(s \o ops, b) = Letters(s, b)
      BY <1>5, <2>2, <2>3, LettersKept
    <3> QED BY <2>1, <3>1 DEF FrameTold, TextTold, s
  <2>12. NoEnds(x.events \o ops)
    <3>1. NoEnds(ops)
      BY <2>3, NoOperationEnds DEF NoEnds
    <3> QED BY <1>1, <1>5, <2>1, <3>1, NoEndsConcat
  <2>13. NothingBehind(y)
    BY <1>7, <2>1, <2>8 DEF NothingBehind
  <2> QED BY <2>2, <2>4, <2>6, <2>9, <2>10, <2>11, <2>12, <2>13 DEF FrameTold
<1>11. ResultInv(pre, c, y)
  BY <1>8, <1>10 DEF ResultInv
<1> QED BY <1>2, <1>7, <1>9, <1>11

-----------------------------------------------------------------------------
(* Children.                                                               *)

\* The fields that the report of a task leaves alone
LEMMA EmittedFields ==
  ASSUME NEW p \in Protocol, NEW k \in Tasks, NEW status \in {"none", "running"} \cup Ended
  PROVE  LET q == [p EXCEPT !.emitted[k] = status]
         IN /\ q \in Protocol /\ q.emitted = [p.emitted EXCEPT ![k] = status]
            /\ q.dirty = p.dirty /\ q.status = p.status /\ q.update = p.update
            /\ q.tools = p.tools /\ q.named = p.named /\ q.success = p.success
            /\ q.stream = p.stream /\ q.mapped = p.mapped /\ q.frames = p.frames
            /\ q.texts = p.texts
BY DEF Protocol

LEMMA ChildIsEvent ==
  ASSUME NEW k \in Tasks, NEW status \in {"running"} \cup Ended
  PROVE  LET e == ChildEvent(k, status)
         IN /\ e \in Events /\ e.type = status /\ e.of = k /\ e \notin Ends
            /\ ~IsChild(e, 0, Ended) /\ e.type # "text" /\ e.type # "operation"
            /\ e # RootEvent("completed")
            /\ \A j : IsChild(e, j, {"running"}) <=> j = k /\ status = "running"
            /\ \A j : IsChild(e, j, Ended) <=> j = k /\ status \in Ended
BY ProtocolAssumption DEF ChildEvent, Events, Tasks, Ended, Ends, RootEvent, IsChild

\* The report of a task, and what it was told
Reported(x, k, status) == [x EXCEPT !.events = Append(@, ChildEvent(k, status)),
                                    !.p.emitted[k] = status]

LEMMA ReportedFields ==
  ASSUME NEW x \in Results, NEW k \in Tasks, NEW status \in {"running"} \cup Ended
  PROVE  Reported(x, k, status) = [p |-> [x.p EXCEPT !.emitted[k] = status],
                                   events |-> x.events \o <<ChildEvent(k, status)>>,
                                   ok |-> x.ok]
<1>1. x = [p |-> x.p, events |-> x.events, ok |-> x.ok] /\ x.events \in Seq(Events)
  BY DEF Results
<1>2. ChildEvent(k, status) \in Events
  BY ChildIsEvent
<1>3. Append(x.events, ChildEvent(k, status)) = x.events \o <<ChildEvent(k, status)>>
  BY <1>1, <1>2
<1>4. Reported(x, k, status) = [x EXCEPT !.events = Append(@, ChildEvent(k, status)),
                                         !.p = [x.p EXCEPT !.emitted[k] = status]]
  BY DEF Reported
<1> HIDE DEF Results
<1> QED BY <1>1, <1>3, <1>4

\* A child is registered below a registered parent, or ends with nothing left to
\* say.
LEMMA ReportedKeeps ==
  ASSUME NEW pre \in Seq(Events), NEW c, NEW x, ResultInv(pre, c, x), x.ok,
         NEW k \in Tasks, NEW status \in {"running"} \cup Ended,
         status = "running" => /\ x.p.emitted[k] = "none" /\ x.p.status[k] # "none"
                               /\ Above[k] # 0 => x.p.emitted[Above[k]] # "none",
         status \in Ended => /\ x.p.emitted[k] = "running" /\ x.p.status[k] = status
                             /\ \A tool \in x.p.dirty : Holder(tool) # k
  PROVE  ResultInv(pre, c, Reported(x, k, status))
<1> DEFINE e == ChildEvent(k, status)
           one == <<e>>
           q == [x.p EXCEPT !.emitted[k] = status]
           s == pre \o x.events
           y == [p |-> q, events |-> x.events \o one, ok |-> x.ok]
<1>1. x \in Results /\ x.p \in Protocol /\ x.events \in Seq(Events) /\ x.ok \in BOOLEAN
  BY DEF ResultInv, Results
<1>2. Reported(x, k, status) = y
  BY <1>1, ReportedFields
<1>3. FrameTold(pre, c, x) /\ NoEnds(x.events) /\ NothingBehind(x)
  BY DEF ResultInv
<1>4. /\ e \in Events /\ e.type = status /\ e.of = k /\ e \notin Ends
      /\ ~IsChild(e, 0, Ended) /\ e.type # "text" /\ e.type # "operation"
      /\ e # RootEvent("completed")
  BY ChildIsEvent
<1>5. /\ \A j : IsChild(e, j, {"running"}) <=> j = k /\ status = "running"
      /\ \A j : IsChild(e, j, Ended) <=> j = k /\ status \in Ended
  BY ChildIsEvent
<1> HIDE DEF e
<1>6. one \in Seq(Events) /\ Len(one) = 1 /\ one[1] = e /\ DOMAIN one = {1}
  BY <1>4
<1>7. /\ \A j : Has(one, j, {"running"}) <=> j = k /\ status = "running"
      /\ \A j : Has(one, j, Ended) <=> j = k /\ status \in Ended
  BY <1>5, <1>6 DEF Has
<1>8. /\ q \in Protocol /\ q.emitted = [x.p.emitted EXCEPT ![k] = status]
      /\ q.dirty = x.p.dirty /\ q.status = x.p.status /\ q.stream = x.p.stream
      /\ q.mapped = x.p.mapped /\ q.frames = x.p.frames /\ q.texts = x.p.texts
  <2>1. status \in {"none", "running"} \cup Ended
    OBVIOUS
  <2> QED BY <1>1, <2>1, EmittedFields
<1> HIDE DEF one, q
<1>9. s \in Seq(Events) /\ pre \o (x.events \o one) = s \o one /\ x.events \o one \in Seq(Events)
  <2>1. x.events \in Seq(Events) /\ one \in Seq(Events)
    BY <1>1, <1>6
  <2>2. /\ pre \o x.events \in Seq(Events)
        /\ pre \o (x.events \o one) = (pre \o x.events) \o one
        /\ x.events \o one \in Seq(Events)
    BY <2>1, ConcatThrice, ZenonT(30)
  <2> QED BY <2>2 DEF s
<1>10. y \in Results
  BY <1>1, <1>8, <1>9 DEF Results
<1> HIDE DEF s
<1>11. /\ \A j : Has(s \o one, j, {"running"}) <=>
                    Has(s, j, {"running"}) \/ (j = k /\ status = "running")
       /\ \A j : Has(s \o one, j, Ended) <=> Has(s, j, Ended) \/ (j = k /\ status \in Ended)
       /\ \A j : Has(x.events \o one, j, Ended) <=>
                    Has(x.events, j, Ended) \/ (j = k /\ status \in Ended)
  BY <1>1, <1>6, <1>7, <1>9, HasInConcat
<1>12. TasksTold(x.p, s) /\ WellFramed(s)
  BY <1>3 DEF FrameTold, s
<1>13. "running" \notin Ended /\ "none" \notin Ended /\ k # 0
  BY DEF Ended, Tasks
<1>14. Above[k] \in {0} \cup Tasks
  BY ProtocolAssumption
<1>15. WellFramed(s \o one)
  <2>1. EventFits(s, e)
    <3>1. CASE status = "running"
      <4>1. ~Has(s, k, {"running"}) /\ (Above[k] # 0 => Has(s, Above[k], {"running"}))
        BY <1>12, <1>14, <3>1 DEF TasksTold
      <4> QED BY <1>4, <1>13, <3>1, <4>1 DEF EventFits
    <3>2. CASE status \in Ended
      <4>1. Has(s, k, {"running"}) /\ ~Has(s, k, Ended)
        BY <1>12, <1>13, <3>2 DEF TasksTold
      <4> QED BY <1>4, <1>13, <3>2, <4>1 DEF EventFits, Ended
    <3> QED BY <3>1, <3>2
  <2> QED BY <1>4, <1>9, <1>12, <2>1, FramedOne DEF one
<1>16. OperationsFirst(x.events \o one)
  <2>1. OperationsFirst(one)
    BY <1>6 DEF OperationsFirst
  <2> QED BY <1>1, <1>3, <1>4, <1>6, <2>1, OperationsFirstConcat DEF FrameTold
<1>17. TasksTold(q, s \o one)
  <2>1. x.p.emitted \in [Tasks -> {"none", "running"} \cup Ended]
    BY <1>1 DEF Protocol
  <2> HIDE DEF Ended
  <2> QED BY <1>8, <1>11, <1>12, <1>13, <2>1 DEF TasksTold
<1>18. TextsKept(q, c)
  BY <1>3, <1>8 DEF FrameTold, TextsKept
<1>19. TextTold(c, s \o one)
  <2>1. \A b \in Blocks : Letters(s \o one, b) = Letters(s, b)
    BY <1>4, <1>6, <1>9, LettersKept
  <2> QED BY <1>3, <2>1 DEF FrameTold, TextTold, s
<1>20. NoEnds(x.events \o one)
  <2>1. NoEnds(one)
    BY <1>4, <1>6 DEF NoEnds
  <2> QED BY <1>1, <1>3, <1>6, <2>1, NoEndsConcat
<1>21. NothingBehind(y)
  BY <1>3, <1>8, <1>11 DEF NothingBehind
<1>22. FrameTold(pre, c, y)
  BY <1>9, <1>15, <1>16, <1>17, <1>18, <1>19 DEF FrameTold
<1>23. ResultInv(pre, c, y)
  BY <1>10, <1>20, <1>21, <1>22 DEF ResultInv
<1> QED BY <1>2, <1>23

\* Materialize, for a task that it reports
Registration(r, k) == IF r.p.emitted[k] # "none" THEN r ELSE Reported(r, k, "running")

LEMMA MaterializeIs ==
  ASSUME NEW r, NEW k
  PROVE  Materialize(r, k) =
           IF ~r.ok \/ r.p.emitted[k] = r.p.status[k] \/ ~Known(r.p, AgentOf(k)) THEN r
           ELSE IF AgentOf(k) \notin r.p.named THEN Refuse(r.p)
           ELSE IF ~Registered(r.p, AgentOf(k)) THEN r
           ELSE IF r.p.status[k] = "running" THEN Operations(Registration(r, k))
           ELSE Reported(Operations(Registration(r, k)), k, r.p.status[k])
BY DEF Materialize, Registration, Reported, Released

LEMMA RefuseKeeps ==
  ASSUME NEW pre, NEW c, NEW p \in Protocol
  PROVE  ResultInv(pre, c, Refuse(p))
BY DEF ResultInv, Results, Refuse

LEMMA MaterializeKeeps ==
  ASSUME NEW pre \in Seq(Events), NEW c, NEW r, ResultInv(pre, c, r), NEW k \in Tasks
  PROVE  ResultInv(pre, c, Materialize(r, k))
<1>1. r \in Results /\ r.p \in Protocol /\ r.ok \in BOOLEAN
  BY DEF ResultInv, Results
<1>2. /\ r.p.status \in [Tasks -> {"none", "running"} \cup Ended]
      /\ r.p.emitted \in [Tasks -> {"none", "running"} \cup Ended]
  BY <1>1 DEF Protocol
<1>3. CASE ~r.ok \/ r.p.emitted[k] = r.p.status[k] \/ ~Known(r.p, AgentOf(k))
  BY <1>3, MaterializeIs
<1>4. CASE AgentOf(k) \notin r.p.named
  BY <1>1, <1>3, <1>4, MaterializeIs, RefuseKeeps
<1>5. CASE ~Registered(r.p, AgentOf(k)) /\ AgentOf(k) \in r.p.named
  BY <1>3, <1>5, MaterializeIs
<1>6. CASE /\ r.ok /\ r.p.emitted[k] # r.p.status[k] /\ Known(r.p, AgentOf(k))
           /\ AgentOf(k) \in r.p.named /\ Registered(r.p, AgentOf(k))
  <2> DEFINE reg == Registration(r, k)
             rel == Operations(reg)
             status == r.p.status[k]
  <2>1. TasksTold(r.p, pre \o r.events)
    BY <1>6 DEF ResultInv, FrameTold
  <2>2. /\ status # "none" /\ "running" \notin Ended /\ "none" \notin Ended
        /\ r.p.emitted[k] \in {"none", "running"}
    <3>1. "running" \notin Ended /\ "none" \notin Ended
      BY DEF Ended
    <3>2. r.p.emitted[k] \in Ended => r.p.status[k] = r.p.emitted[k]
      BY <2>1 DEF TasksTold
    <3>3. r.p.emitted[k] # "none" => r.p.status[k] # "none"
      BY <2>1 DEF TasksTold
    <3> HIDE DEF Ended
    <3> QED BY <1>2, <1>6, <3>1, <3>2, <3>3
  <2>3. /\ ResultInv(pre, c, reg) /\ reg.ok /\ reg.p.emitted[k] = "running"
        /\ reg.p.status = r.p.status
    <3>1. CASE r.p.emitted[k] # "none"
      <4>1. reg = r
        BY <3>1 DEF Registration
      <4> QED BY <1>6, <2>2, <3>1, <4>1
    <3>2. CASE r.p.emitted[k] = "none"
      <4>1. reg = Reported(r, k, "running")
        BY <3>2 DEF Registration
      <4>2. Above[k] # 0 => r.p.emitted[Above[k]] # "none"
        BY <1>6 DEF Registered, Holder, AgentOf
      <4>3. ResultInv(pre, c, reg)
        BY <1>6, <2>2, <3>2, <4>1, <4>2, ReportedKeeps
      <4>4. /\ reg.ok = r.ok /\ reg.p = [r.p EXCEPT !.emitted[k] = "running"]
        <5>1. "running" \in {"running"} \cup Ended
          OBVIOUS
        <5>2. reg = [p |-> [r.p EXCEPT !.emitted[k] = "running"],
                     events |-> r.events \o <<ChildEvent(k, "running")>>, ok |-> r.ok]
          BY <1>1, <4>1, <5>1, ReportedFields, Zenon
        <5> QED BY <5>2
      <4>5. /\ reg.p.status = r.p.status /\ reg.p.emitted = [r.p.emitted EXCEPT ![k] = "running"]
        BY <1>1, <4>4, EmittedFields
      <4> QED BY <1>2, <1>6, <4>3, <4>4, <4>5
    <3> QED BY <3>1, <3>2
  <2> HIDE DEF reg
  <2>4. /\ ResultInv(pre, c, rel) /\ rel.ok /\ rel.p.emitted[k] = "running"
        /\ rel.p.status[k] = status
        /\ \A tool \in rel.p.dirty : ~Registered(reg.p, tool)
    BY <2>3, OperationsKeep
  <2>5. \A tool \in rel.p.dirty : Holder(tool) # k
    BY <2>3, <2>4 DEF Registered
  <2> HIDE DEF rel
  <2>6. CASE status = "running"
    <3>1. Materialize(r, k) = rel
      BY <1>6, <2>6, MaterializeIs DEF rel, reg
    <3> QED BY <2>4, <3>1
  <2>7. CASE status # "running"
    <3>1. Materialize(r, k) = Reported(rel, k, status)
      BY <1>6, <2>7, MaterializeIs DEF rel, reg
    <3>2. status \in Ended
      BY <1>2, <2>2, <2>7
    <3> HIDE DEF status
    <3>3. ResultInv(pre, c, Reported(rel, k, status))
      BY <2>2, <2>4, <2>5, <3>2, ReportedKeeps
    <3> QED BY <3>1, <3>3
  <2> QED BY <2>6, <2>7
<1> QED BY <1>1, <1>3, <1>4, <1>5, <1>6

-----------------------------------------------------------------------------
(* Every task in turn.                                                     *)

Visited(m) == 1 + ((m - 1) % MaxTasks)

\* f gives what the first m visits of Materialized lead to, up to each m <= n.
Visits(f, r, n) ==
  f = [m \in 0 .. n |-> IF m = 0 THEN r ELSE Materialize(f[m - 1], Visited(m))]

LEMMA VisitedIsTask ==
  ASSUME NEW m \in 1 .. MaxTasks * MaxTasks
  PROVE  Visited(m) \in Tasks
<1>1. MaxTasks \in Nat /\ MaxTasks # 0
  BY ProtocolAssumption
<1>2. m - 1 \in Int
  BY <1>1
<1>3. (m - 1) % MaxTasks \in 0 .. MaxTasks - 1
  BY <1>1, <1>2
<1> QED BY <1>1, <1>3 DEF Visited, Tasks

LEMMA VisitsExist ==
  ASSUME NEW r, NEW n \in Nat
  PROVE  \E f : Visits(f, r, n)
<1> DEFINE Bad == {m \in Nat : ~\E f : Visits(f, r, m)}
<1>1. SUFFICES ASSUME n \in Bad PROVE FALSE
  OBVIOUS
<1>2. PICK m \in Bad : \A k \in Bad : m <= k
  <2>1. Bad \subseteq Nat
    OBVIOUS
  <2> HIDE DEF Bad
  <2> QED BY <1>1, <2>1, Least
<1>3. m # 0
  <2>1. Visits([i \in 0 .. 0 |-> r], r, 0)
    BY DEF Visits
  <2> QED BY <2>1, <1>2
<1>4. m - 1 \in Nat /\ m - 1 \notin Bad
  <2> m \in Nat
    OBVIOUS
  <2> HIDE DEF Bad
  <2> QED BY <1>2, <1>3
<1>5. PICK f : Visits(f, r, m - 1)
  BY <1>4
<1> DEFINE h == [i \in 0 .. m |-> IF i < m THEN f[i] ELSE Materialize(f[i - 1], Visited(i))]
<1>6. ASSUME NEW i \in 0 .. m
      PROVE  h[i] = IF i = 0 THEN r ELSE Materialize(h[i - 1], Visited(i))
  <2>1. CASE i < m
    <3>1. i \in 0 .. m - 1 /\ h[i] = f[i]
      BY <2>1
    <3>2. i # 0 => h[i - 1] = f[i - 1]
      BY <2>1
    <3>3. f[i] = IF i = 0 THEN r ELSE Materialize(f[i - 1], Visited(i))
      <4> HIDE DEF h
      <4> QED BY <3>1, <1>5 DEF Visits
    <3> HIDE DEF h
    <3> QED BY <3>1, <3>2, <3>3
  <2>2. CASE i = m
    <3>1. i - 1 \in 0 .. m /\ i - 1 < m /\ h[i - 1] = f[i - 1]
      BY <1>3, <2>2
    <3>2. h[i] = Materialize(f[i - 1], Visited(i))
      BY <2>2
    <3> HIDE DEF h
    <3> QED BY <1>3, <2>2, <3>1, <3>2
  <2> QED BY <2>1, <2>2
<1>7. Visits(h, r, m)
  BY <1>6 DEF Visits
<1> QED BY <1>7, <1>2

LEMMA MaterializedKeeps ==
  ASSUME NEW pre \in Seq(Events), NEW c, NEW r, ResultInv(pre, c, r)
  PROVE  ResultInv(pre, c, Materialized(r))
<1> DEFINE n == MaxTasks * MaxTasks
<1>1. n \in Nat /\ n \in 0 .. n
  BY ProtocolAssumption
<1>2. PICK f : Visits(f, r, n) /\ Materialized(r) = f[n]
  <2>1. \E f : Visits(f, r, n)
    BY <1>1, VisitsExist
  <2> QED BY <2>1 DEF Materialized, Visits, Visited
<1> DEFINE Bad == {m \in 0 .. n : ~ResultInv(pre, c, f[m])}
<1> HIDE DEF n
<1>3. SUFFICES ASSUME n \in Bad PROVE FALSE
  BY <1>1, <1>2
<1>4. PICK m \in Bad : \A k \in Bad : m <= k
  <2>1. Bad \subseteq Nat
    BY <1>1
  <2> HIDE DEF Bad
  <2> QED BY <1>3, <2>1, Least
<1>5. m \in 0 .. n /\ ~ResultInv(pre, c, f[m])
  OBVIOUS
<1>6. f[m] = IF m = 0 THEN r ELSE Materialize(f[m - 1], Visited(m))
  BY <1>2, <1>5 DEF Visits
<1>7. m # 0
  BY <1>5, <1>6
<1>8. m - 1 \in 0 .. n /\ m - 1 \notin Bad
  <2> HIDE DEF Bad
  <2> QED BY <1>1, <1>4, <1>5, <1>7
<1>9. ResultInv(pre, c, f[m - 1])
  BY <1>8
<1>10. Visited(m) \in Tasks
  BY <1>1, <1>5, <1>7, VisitedIsTask DEF n
<1> QED BY <1>5, <1>6, <1>7, <1>9, <1>10, MaterializeKeeps

-----------------------------------------------------------------------------
(* The turn's own events.                                                  *)

RootTypes == {"started", "ask", "compaction", "completed", "interrupted", "error"}

LEMMA RootIsEvent ==
  ASSUME NEW type \in RootTypes
  PROVE  LET e == RootEvent(type)
         IN /\ e \in Events /\ e.of = 0 /\ e.type = type
            /\ e.type # "text" /\ e.type # "operation" /\ e.type # "running"
            /\ \A k \in Tasks : ~IsChild(e, k, {"running"}) /\ ~IsChild(e, k, Ended)
            /\ e = RootEvent("completed") <=> type = "completed"
            /\ e \in Ends <=> type \in {"completed", "interrupted", "error"}
            /\ e \in Finals <=> type \in {"completed", "interrupted"}
            /\ ~IsChild(e, 0, Ended) <=> type \notin Ended
BY DEF RootTypes, RootEvent, Events, Ended, Tasks, Ends, Finals, IsChild

\* It fits behind what is framed, a completed one behind what has ended.
LEMMA RootFits ==
  ASSUME NEW s \in Seq(Events), WellFramed(s), NEW type \in RootTypes,
         type = "completed" => \A k \in Tasks : Has(s, k, {"running"}) => Has(s, k, Ended)
  PROVE  WellFramed(s \o <<RootEvent(type)>>)
<1> DEFINE e == RootEvent(type)
<1>1. /\ e \in Events /\ e.of = 0 /\ e.type # "operation" /\ e.type # "running"
      /\ e = RootEvent("completed") <=> type = "completed"
  BY RootIsEvent
<1> HIDE DEF e
<1>2. EventFits(s, e)
  BY <1>1 DEF EventFits
<1>3. WellFramed(s \o <<e>>)
  BY <1>1, <1>2, FramedOne
<1> QED BY <1>3 DEF e

\* It says nothing of a task, nor text.
LEMMA RootSilent ==
  ASSUME NEW s \in Seq(Events), NEW type \in RootTypes
  PROVE  LET t == s \o <<RootEvent(type)>>
         IN /\ t \in Seq(Events)
            /\ \A k \in Tasks : /\ Has(t, k, {"running"}) <=> Has(s, k, {"running"})
                                /\ Has(t, k, Ended) <=> Has(s, k, Ended)
            /\ \A b : Letters(t, b) = Letters(s, b)
<1> DEFINE e == RootEvent(type)
           one == <<e>>
<1>1. /\ e \in Events /\ e.type # "text"
      /\ \A k \in Tasks : ~IsChild(e, k, {"running"}) /\ ~IsChild(e, k, Ended)
  BY RootIsEvent
<1> HIDE DEF e
<1>2. /\ one \in Seq(Events) /\ \A i \in DOMAIN one : one[i].type # "text"
      /\ \A k \in Tasks : ~Has(one, k, {"running"}) /\ ~Has(one, k, Ended)
  BY <1>1 DEF Has
<1> HIDE DEF one
<1>3. \A k \in Tasks : /\ Has(s \o one, k, {"running"}) <=> Has(s, k, {"running"})
                       /\ Has(s \o one, k, Ended) <=> Has(s, k, Ended)
  BY <1>2, HasInConcat
<1>4. \A b : Letters(s \o one, b) = Letters(s, b)
  BY <1>2, LettersKept
<1>5. s \o one \in Seq(Events)
  BY <1>2, ConcatPlaces
<1> QED BY <1>3, <1>4, <1>5, Zenon DEF one, e

LEMMA RootTold ==
  ASSUME NEW pre \in Seq(Events), NEW c, NEW x, FrameTold(pre, c, x), x.events \in Seq(Events),
         NEW type \in RootTypes,
         type = "completed" =>
           \A k \in Tasks : Has(pre \o x.events, k, {"running"}) => Has(pre \o x.events, k, Ended),
         NEW y, y.p = x.p, y.events = x.events \o <<RootEvent(type)>>
  PROVE  FrameTold(pre, c, y) /\ y.events \in Seq(Events)
<1> DEFINE e == RootEvent(type)
           one == <<e>>
           s == pre \o x.events
<1>1. e \in Events /\ e.type # "operation"
  BY RootIsEvent
<1> HIDE DEF e
<1>2. one \in Seq(Events) /\ Len(one) = 1 /\ one[1] = e /\ DOMAIN one = {1}
  BY <1>1
<1> HIDE DEF one
<1>3. s \in Seq(Events) /\ pre \o (x.events \o one) = s \o one /\ x.events \o one \in Seq(Events)
  <2>1. x.events \in Seq(Events) /\ one \in Seq(Events)
    BY <1>2
  <2>2. /\ pre \o x.events \in Seq(Events)
        /\ pre \o (x.events \o one) = (pre \o x.events) \o one
        /\ x.events \o one \in Seq(Events)
    BY <2>1, ConcatThrice
  <2> QED BY <2>2 DEF s
<1>4. WellFramed(s) /\ OperationsFirst(x.events) /\ TasksTold(x.p, s) /\ TextsKept(x.p, c)
      /\ TextTold(c, s)
  BY DEF FrameTold, s
<1>5. type = "completed" => \A k \in Tasks : Has(s, k, {"running"}) => Has(s, k, Ended)
  BY DEF s
<1>6. y.events = x.events \o one
  BY DEF one, e
<1> HIDE DEF s
<1>7. WellFramed(s \o one)
  BY <1>3, <1>4, <1>5, RootFits, Zenon DEF one, e
<1>8. /\ \A k \in Tasks : /\ Has(s \o one, k, {"running"}) <=> Has(s, k, {"running"})
                          /\ Has(s \o one, k, Ended) <=> Has(s, k, Ended)
      /\ \A b : Letters(s \o one, b) = Letters(s, b)
  BY <1>3, RootSilent, Zenon DEF one, e
<1>9. OperationsFirst(x.events \o one)
  <2>1. OperationsFirst(one)
    BY <1>2 DEF OperationsFirst
  <2> QED BY <1>1, <1>2, <1>4, <2>1, OperationsFirstConcat
<1>10. TasksTold(y.p, s \o one)
  BY <1>4, <1>8 DEF TasksTold
<1>11. TextTold(c, s \o one)
  BY <1>4, <1>8 DEF TextTold
<1> QED BY <1>3, <1>4, <1>6, <1>7, <1>9, <1>10, <1>11 DEF FrameTold

-----------------------------------------------------------------------------
(* The end of a frame.                                                     *)

EndsLast(s) == \A i \in DOMAIN s : s[i] \in Ends => i = Len(s) /\ s[i] \in Finals

\* A frame whose events may be told
FrameInv(pre, c, x) ==
  /\ x \in Results
  /\ x.ok => FrameTold(pre, c, x) /\ EndsLast(x.events)

\* A terminal may come last.
LEMMA EndsLastOne ==
  ASSUME NEW s \in Seq(Events), NoEnds(s), NEW type \in RootTypes, type # "error"
  PROVE  EndsLast(s \o <<RootEvent(type)>>)
<1> DEFINE e == RootEvent(type)
           one == <<e>>
<1>1. e \in Events /\ (e \in Ends => e \in Finals)
  BY RootIsEvent
<1> HIDE DEF e
<1>2. one \in Seq(Events) /\ Len(one) = 1 /\ one[1] = e
  BY <1>1
<1> HIDE DEF one
<1>3. ASSUME NEW i \in 1 .. Len(s) + 1, (s \o one)[i] \in Ends
      PROVE  i = Len(s \o one) /\ (s \o one)[i] \in Finals
  <2>1. CASE i \in 1 .. Len(s)
    BY <1>2, <1>3, <2>1, ConcatPlaces DEF NoEnds
  <2>2. CASE i \in Len(s) + 1 .. Len(s) + 1
    <3>1. /\ Len(s) \in Nat /\ Len(s \o one) = Len(s) + 1
          /\ \A j \in Len(s) + 1 .. Len(s) + Len(one) : (s \o one)[j] = one[j - Len(s)]
      <4>1. one \in Seq(Events)
        BY <1>2
      <4>2. Len(s) \in Nat /\ Len(s \o one) = Len(s) + Len(one)
        BY <4>1, ConcatPlaces
      <4>3. \A j \in Len(s) + 1 .. Len(s) + Len(one) : (s \o one)[j] = one[j - Len(s)]
        BY <4>1, ConcatPlaces
      <4> QED BY <1>2, <4>2, <4>3
    <3>2. i = Len(s) + 1 /\ i - Len(s) = 1
      BY <2>2, <3>1
    <3>3. (s \o one)[i] = e
      BY <1>2, <3>1, <3>2
    <3> QED BY <1>1, <1>3, <3>1, <3>2, <3>3
  <2> QED BY <2>1, <2>2, ConcatPlaces
<1>4. EndsLast(s \o one)
  BY <1>2, <1>3, ConcatPlaces DEF EndsLast
<1> QED BY <1>4 DEF one, e

LEMMA SettledKeeps ==
  ASSUME NEW pre \in Seq(Events), NEW c, NEW r, ResultInv(pre, c, r)
  PROVE  FrameInv(pre, c, Settled(r))
<1> DEFINE done == Operations(Materialized(Operations(r)))
           end == [done EXCEPT !.events = Append(@, RootEvent("completed"))]
<1>1. ResultInv(pre, c, done)
  BY OperationsKeep, MaterializedKeeps
<1>2. Settled(r) = IF done.ok /\ TurnIsOver(done.p) THEN end ELSE done
  BY DEF Settled
<1> HIDE DEF done
<1>3. done \in Results /\ done.p \in Protocol /\ done.events \in Seq(Events) /\ done.ok \in BOOLEAN
  BY <1>1 DEF ResultInv, Results
<1>4. FrameInv(pre, c, done)
  BY <1>1 DEF ResultInv, FrameInv, NoEnds, EndsLast
<1>5. CASE done.ok /\ TurnIsOver(done.p)
  <2> DEFINE completed == RootEvent("completed")
  <2>1. completed \in Events /\ "completed" \in RootTypes
    BY RootIsEvent DEF RootTypes
  <2>2. /\ end.p = done.p /\ end.ok = done.ok
        /\ end.events = done.events \o <<completed>>
        /\ end = [p |-> end.p, events |-> end.events, ok |-> end.ok]
    <3> HIDE DEF completed
    <3>1. Append(done.events, completed) = done.events \o <<completed>>
      BY <1>3, <2>1
    <3>2. done = [p |-> done.p, events |-> done.events, ok |-> done.ok]
      BY <1>3 DEF Results
    <3>3. end = [done EXCEPT !.events = done.events \o <<completed>>]
      BY <3>1 DEF completed
    <3> HIDE DEF end
    <3>4. end = [p |-> done.p, events |-> done.events \o <<completed>>, ok |-> done.ok]
      BY <3>2, <3>3
    <3> QED BY <3>4
  <2> HIDE DEF completed, end
  <2>3. FrameTold(pre, c, done) /\ NoEnds(done.events)
    BY <1>1, <1>5 DEF ResultInv
  <2>4. ASSUME NEW k \in Tasks, Has(pre \o done.events, k, {"running"})
        PROVE  Has(pre \o done.events, k, Ended)
    <3>1. done.p.emitted[k] # "none" /\ done.p.emitted[k] # "running"
      BY <1>5, <2>3, <2>4 DEF FrameTold, TasksTold, TurnIsOver
    <3>2. done.p.emitted[k] \in Ended
      BY <1>3, <3>1 DEF Protocol
    <3> QED BY <2>3, <3>2 DEF FrameTold, TasksTold
  <2>5. FrameTold(pre, c, end) /\ end.events \in Seq(Events)
    <3>1. end.events = done.events \o <<RootEvent("completed")>>
      BY <2>2 DEF completed
    <3> QED BY <1>3, <2>1, <2>2, <2>3, <2>4, <3>1, RootTold
  <2>6. EndsLast(end.events)
    BY <1>3, <2>1, <2>2, <2>3, EndsLastOne DEF completed
  <2>7. end \in Results
    BY <1>3, <2>2, <2>5 DEF Results
  <2> QED BY <1>2, <1>5, <2>5, <2>6, <2>7 DEF FrameInv
<1> QED BY <1>2, <1>4, <1>5

-----------------------------------------------------------------------------
(* Frames, by kind.                                                        *)

\* What was told before a frame, the protocol and the process agree.
Base(pre, c, p) ==
  /\ p \in Protocol /\ WellFramed(pre)
  /\ TasksTold(p, pre) /\ TextsKept(p, c) /\ TextTold(c, pre)

LEMMA NothingTold ==
  ASSUME NEW pre \in Seq(Events), NEW c, NEW p, Base(pre, c, p)
  PROVE  ResultInv(pre, c, Then(p, <<>>))
<1> DEFINE x == Then(p, <<>>)
<1>1. x.p = p /\ x.events = <<>> /\ x.ok = TRUE /\ x \in Results /\ pre \o x.events = pre
  BY DEF Then, Results, Base
<1>2. \A k, statuses : ~Has(x.events, k, statuses)
  BY <1>1 DEF Has
<1>3. OperationsFirst(x.events) /\ NoEnds(x.events)
  BY <1>1 DEF OperationsFirst, NoEnds
<1> HIDE DEF x
<1>4. FrameTold(pre, c, x)
  BY <1>1, <1>3 DEF FrameTold, Base
<1>5. ResultInv(pre, c, x)
  BY <1>1, <1>2, <1>3, <1>4 DEF ResultInv, NothingBehind
<1> QED BY <1>5 DEF x

\* The turn's own event, at the end or not
LEMMA RootThen ==
  ASSUME NEW pre \in Seq(Events), NEW c, NEW p, Base(pre, c, p),
         NEW type \in {"compaction", "interrupted", "ask"}
  PROVE  /\ type = "compaction" => ResultInv(pre, c, Then(p, <<RootEvent(type)>>))
         /\ FrameInv(pre, c, Then(p, <<RootEvent(type)>>))
<1> DEFINE x == Then(p, <<>>)
           y == Then(p, <<RootEvent(type)>>)
           one == <<RootEvent(type)>>
<1>1. ResultInv(pre, c, x)
  BY NothingTold
<1>2. x.p = p /\ x.events = <<>> /\ x.ok
  BY DEF Then
<1>3. /\ type \in RootTypes /\ type # "completed" /\ type # "error"
      /\ RootEvent(type) \in Events
      /\ \A k \in Tasks : ~IsChild(RootEvent(type), k, Ended)
      /\ type = "compaction" => RootEvent(type) \notin Ends /\ ~IsChild(RootEvent(type), 0, Ended)
  BY RootIsEvent DEF RootTypes, Ended
<1>4. /\ one \in Seq(Events) /\ <<>> \o one = one /\ <<>> \in Seq(Events)
      /\ DOMAIN one = {1} /\ one[1] = RootEvent(type)
  BY <1>3
<1>5. y.p = p /\ y.events = one /\ y.ok /\ y = [p |-> p, events |-> one, ok |-> TRUE]
  BY DEF Then
<1> HIDE DEF x, y
<1>6. FrameTold(pre, c, x)
  BY <1>1, <1>2 DEF ResultInv
<1>7. y.p = x.p /\ y.events = x.events \o <<RootEvent(type)>> /\ x.events \in Seq(Events)
  BY <1>2, <1>4, <1>5
<1>8. FrameTold(pre, c, y)
  BY <1>3, <1>6, <1>7, RootTold
<1>9. EndsLast(one)
  <2>1. NoEnds(<<>>) /\ <<>> \in Seq(Events)
    BY DEF NoEnds
  <2>2. EndsLast(<<>> \o one)
    BY <1>3, <2>1, EndsLastOne
  <2> QED BY <1>4, <2>2
<1>10. y \in Results
  BY <1>4, <1>5 DEF Results, Base
<1>11. type = "compaction" => NoEnds(one)
  BY <1>3, <1>4 DEF NoEnds
<1>12. NothingBehind(y)
  BY <1>3, <1>4, <1>5 DEF NothingBehind, Has
<1>13. FrameInv(pre, c, y)
  BY <1>5, <1>8, <1>9, <1>10 DEF FrameInv
<1>14. type = "compaction" => ResultInv(pre, c, y)
  BY <1>5, <1>8, <1>10, <1>11, <1>12 DEF ResultInv
<1> QED BY <1>13, <1>14 DEF y

\* The text, and what was told, stay; a task that has ended keeps its status.
LEMMA TasksKeepBase ==
  ASSUME NEW pre, NEW c, NEW p, Base(pre, c, p), NEW q \in Protocol,
         q.emitted = p.emitted, q.stream = p.stream, q.mapped = p.mapped,
         q.frames = p.frames, q.texts = p.texts,
         \A k \in Tasks : /\ p.status[k] # "none" => q.status[k] # "none"
                          /\ p.status[k] \in Ended => q.status[k] = p.status[k]
  PROVE  Base(pre, c, q)
<1>1. TasksTold(q, pre)
  BY DEF Base, TasksTold
<1>2. TextsKept(q, c)
  BY DEF Base, TextsKept
<1> QED BY <1>1, <1>2 DEF Base

LEMMA SuccessKeeps ==
  ASSUME NEW pre \in Seq(Events), NEW c, NEW p, Base(pre, c, p)
  PROVE  ResultInv(pre, c, Success(p))
<1> DEFINE q == [p EXCEPT !.success = TRUE]
<1>1. /\ q \in Protocol /\ q.emitted = p.emitted /\ q.stream = p.stream /\ q.mapped = p.mapped
      /\ q.frames = p.frames /\ q.texts = p.texts /\ q.status = p.status
  BY DEF Base, Protocol
<1> HIDE DEF q
<1>2. Base(pre, c, q)
  BY <1>1, TasksKeepBase
<1>3. ResultInv(pre, c, Then(q, <<>>))
  BY <1>2, NothingTold
<1> QED BY <1>3 DEF Success, q

LEMMA ToolKeeps ==
  ASSUME NEW p \in Protocol, NEW tool \in Tools
  PROVE  \A x \in {ToolUse(p, tool), ToolResult(p, tool)} : \E q \in Protocol :
           /\ x = Then(q, <<>>) /\ q.emitted = p.emitted /\ q.status = p.status
           /\ q.stream = p.stream /\ q.mapped = p.mapped /\ q.frames = p.frames
           /\ q.texts = p.texts
<1> DEFINE Set(tools, named) == [p EXCEPT !.tools = tools, !.named = named, !.dirty = @ \cup {tool}]
           added == IF Known(p, tool) THEN p.tools ELSE Append(p.tools, tool)
<1>1. p.tools \in Seq(Tools) /\ \A i, j \in DOMAIN p.tools : p.tools[i] = p.tools[j] => i = j
  BY DEF Protocol
<1>2. added \in Seq(Tools) /\ \A i, j \in DOMAIN added : added[i] = added[j] => i = j
  <2>1. CASE Known(p, tool)
    BY <1>1, <2>1
  <2>2. CASE ~Known(p, tool)
    <3>1. \A i \in DOMAIN p.tools : p.tools[i] # tool
      BY <2>2 DEF Known, ToSet
    <3>2. added = Append(p.tools, tool)
      BY <2>2
    <3> QED BY <1>1, <3>1, <3>2
  <2> QED BY <2>1, <2>2
<1>3. /\ ToolUse(p, tool) = Then(Set(added, p.named \cup {tool}), <<>>)
      /\ ToolResult(p, tool) = Then(Set(added, p.named), <<>>)
  <2>1. p = [tools |-> p.tools, dirty |-> p.dirty, named |-> p.named, status |-> p.status,
             emitted |-> p.emitted, update |-> p.update, success |-> p.success,
             stream |-> p.stream, mapped |-> p.mapped, frames |-> p.frames, texts |-> p.texts]
    BY DEF Protocol
  <2>2. ToolUse(p, tool) = Then(Set(added, p.named \cup {tool}), <<>>)
    <3>1. CASE Known(p, tool)
      <4>1. ToolUse(p, tool)
              = Then([p EXCEPT !.named = @ \cup {tool}, !.dirty = @ \cup {tool}], <<>>)
        BY <3>1 DEF ToolUse
      <4>2. [p EXCEPT !.named = @ \cup {tool}, !.dirty = @ \cup {tool}]
              = Set(p.tools, p.named \cup {tool})
        BY <2>1
      <4> QED BY <3>1, <4>1, <4>2
    <3>2. CASE ~Known(p, tool)
      BY <3>2 DEF ToolUse
    <3> QED BY <3>1, <3>2
  <2>3. ToolResult(p, tool) = Then(Set(added, p.named), <<>>)
    <3>1. ToolResult(p, tool) = Then([p EXCEPT !.tools = added, !.dirty = @ \cup {tool}], <<>>)
      BY DEF ToolResult
    <3> HIDE DEF added
    <3>2. [p EXCEPT !.tools = added, !.dirty = @ \cup {tool}] = Set(added, p.named)
      BY <2>1
    <3> QED BY <3>1, <3>2
  <2> QED BY <2>2, <2>3
<1> HIDE DEF added
<1>4. ASSUME NEW named \in SUBSET Tools
      PROVE  LET q == Set(added, named)
             IN /\ q \in Protocol /\ q.emitted = p.emitted /\ q.status = p.status
                /\ q.stream = p.stream /\ q.mapped = p.mapped /\ q.frames = p.frames
                /\ q.texts = p.texts
  BY <1>2 DEF Protocol
<1>5. p.named \in SUBSET Tools /\ p.named \cup {tool} \in SUBSET Tools
  BY DEF Protocol
<1> HIDE DEF Set
<1> QED BY <1>3, <1>4, <1>5

LEMMA UpdateKeeps ==
  ASSUME NEW p \in Protocol, NEW k \in Tasks, NEW status \in Ended
  PROVE  LET q == [p EXCEPT !.update[k] = status]
         IN /\ q \in Protocol /\ q.emitted = p.emitted /\ q.status = p.status
            /\ q.stream = p.stream /\ q.mapped = p.mapped /\ q.frames = p.frames
            /\ q.texts = p.texts
BY DEF Protocol

LEMMA LifecycleKeeps ==
  ASSUME NEW p \in Protocol, NEW k \in Tasks, NEW status \in {"running"} \cup Ended
  PROVE  LET q == [p EXCEPT !.status[k] = IF @ \in Ended THEN @ ELSE status]
         IN /\ q \in Protocol /\ q.emitted = p.emitted
            /\ q.stream = p.stream /\ q.mapped = p.mapped /\ q.frames = p.frames
            /\ q.texts = p.texts
            /\ \A j \in Tasks : /\ p.status[j] # "none" => q.status[j] # "none"
                                /\ p.status[j] \in Ended => q.status[j] = p.status[j]
<1> DEFINE new == IF p.status[k] \in Ended THEN p.status[k] ELSE status
           q == [p EXCEPT !.status[k] = new]
<1>1. p.status \in [Tasks -> {"none", "running"} \cup Ended]
  BY DEF Protocol
<1>2. new \in {"none", "running"} \cup Ended /\ new # "none"
  BY DEF Ended
<1>3. p.status[k] \in Ended => new = p.status[k]
  OBVIOUS
<1> HIDE DEF new
<1>4. /\ q \in Protocol /\ q.emitted = p.emitted
      /\ q.stream = p.stream /\ q.mapped = p.mapped /\ q.frames = p.frames
      /\ q.texts = p.texts /\ q.status = [p.status EXCEPT ![k] = new]
  BY <1>2 DEF Protocol
<1> HIDE DEF q
<1>5. \A j \in Tasks : /\ p.status[j] # "none" => q.status[j] # "none"
                       /\ p.status[j] \in Ended => q.status[j] = p.status[j]
  BY <1>1, <1>2, <1>3, <1>4
<1> QED BY <1>4, <1>5 DEF q, new

LEMMA FramedKeeps ==
  ASSUME NEW pre \in Seq(Events), NEW c, NEW p, Base(pre, c, p), NEW f \in TaskFrames
  PROVE  ResultInv(pre, c, Framed(p, f))
<1>0. p \in Protocol
  BY DEF Base
<1>1. \/ f.type \in {"use", "result"} /\ f.tool \in Tools
      \/ f.type = "start" /\ f.task \in Tasks /\ f.status = "running"
      \/ f.type \in {"notify", "update"} /\ f.task \in Tasks /\ f.status \in Ended
  BY DEF TaskFrames
<1>2. CASE f.type \in {"use", "result"} /\ f.tool \in Tools
  <2>1. Framed(p, f) \in {ToolUse(p, f.tool), ToolResult(p, f.tool)}
    BY <1>2 DEF Framed
  <2>2. PICK q \in Protocol :
          /\ Framed(p, f) = Then(q, <<>>) /\ q.emitted = p.emitted /\ q.status = p.status
          /\ q.stream = p.stream /\ q.mapped = p.mapped /\ q.frames = p.frames
          /\ q.texts = p.texts
    BY <1>0, <1>2, <2>1, ToolKeeps
  <2>3. Base(pre, c, q)
    BY <2>2, TasksKeepBase
  <2> QED BY <2>2, <2>3, NothingTold
<1>3. CASE f.type = "update" /\ f.task \in Tasks /\ f.status \in Ended
  <2> DEFINE q == [p EXCEPT !.update[f.task] = f.status]
  <2>1. Framed(p, f) = TaskUpdate(p, f.task, f.status)
    BY <1>3 DEF Framed
  <2>2. Framed(p, f) = Refuse(p) \/ Framed(p, f) = Then(q, <<>>)
    BY <2>1 DEF TaskUpdate
  <2>3. /\ q \in Protocol /\ q.emitted = p.emitted /\ q.status = p.status
        /\ q.stream = p.stream /\ q.mapped = p.mapped /\ q.frames = p.frames
        /\ q.texts = p.texts
    BY <1>0, <1>3, UpdateKeeps
  <2> HIDE DEF q
  <2>4. Base(pre, c, q)
    BY <2>3, TasksKeepBase
  <2> QED BY <1>0, <2>2, <2>4, NothingTold, RefuseKeeps
<1>4. CASE f.type \in {"start", "notify"} /\ f.task \in Tasks /\ f.status \in {"running"} \cup Ended
  <2> DEFINE q == [p EXCEPT !.status[f.task] = IF @ \in Ended THEN @ ELSE f.status]
  <2>1. Framed(p, f) = Lifecycle(p, f.task, f.status)
    BY <1>4 DEF Framed
  <2>2. Framed(p, f) = Refuse(p) \/ Framed(p, f) = Then(q, <<>>)
    BY <2>1 DEF Lifecycle
  <2>3. /\ q \in Protocol /\ q.emitted = p.emitted
        /\ q.stream = p.stream /\ q.mapped = p.mapped /\ q.frames = p.frames
        /\ q.texts = p.texts
        /\ \A j \in Tasks : /\ p.status[j] # "none" => q.status[j] # "none"
                            /\ p.status[j] \in Ended => q.status[j] = p.status[j]
    <3>1. p \in Protocol /\ f.task \in Tasks /\ f.status \in {"running"} \cup Ended
      BY <1>0, <1>4
    <3> QED BY <3>1, LifecycleKeeps, ZenonT(30)
  <2> HIDE DEF q
  <2>4. Base(pre, c, q)
    BY <2>3, TasksKeepBase
  <2> QED BY <1>0, <2>2, <2>4, NothingTold, RefuseKeeps
<1> QED BY <1>1, <1>2, <1>3, <1>4

-----------------------------------------------------------------------------
(* Text.                                                                   *)

\* One more letter of a block
LEMMA TextAdded ==
  ASSUME NEW pre \in Seq(Events), NEW c \in Texts, NEW p, Base(pre, c, p),
         NEW q \in Protocol, q.emitted = p.emitted, q.status = p.status,
         NEW b \in Blocks, NEW d, d.length = [c.length EXCEPT ![b] = c.length[b] + 1],
         TextsKept(q, d)
  PROVE  ResultInv(pre, d, Then(q, <<TextEvent(b, 1)>>))
<1> DEFINE e == TextEvent(b, 1)
           one == <<e>>
           y == Then(q, one)
<1>1. /\ e \in Events /\ e.type = "text" /\ e.of = b /\ e \notin Ends /\ b # 0
      /\ \A k : ~IsChild(e, k, {"running"}) /\ ~IsChild(e, k, Ended)
      /\ e # RootEvent("completed")
  BY ProtocolAssumption DEF TextEvent, Events, Blocks, Ends, RootEvent, IsChild, Ended
<1>2. \A a \in Blocks :
        /\ a = b => Letters(pre \o one, a) = Letters(pre, a) \cup {<<Len(pre) + 1, 1>>}
        /\ a # b => Letters(pre \o one, a) = Letters(pre, a)
        /\ <<Len(pre) + 1, 1>> \notin Letters(pre, a)
  BY LettersAdded
<1> HIDE DEF e
<1>3. one \in Seq(Events) /\ DOMAIN one = {1} /\ one[1] = e
  BY <1>1
<1>4. WellFramed(pre \o one)
  <2>1. EventFits(pre, e)
    BY <1>1 DEF EventFits, Ended
  <2> QED BY <1>1, <2>1, FramedOne DEF Base
<1>5. y.p = q /\ y.events = one /\ y.ok /\ y \in Results
  BY <1>3 DEF Then, Results
<1> HIDE DEF one, y
<1>6. \A k : ~Has(one, k, {"running"}) /\ ~Has(one, k, Ended)
  BY <1>1, <1>3 DEF Has
<1>7. OperationsFirst(one) /\ NoEnds(one)
  BY <1>1, <1>3 DEF OperationsFirst, NoEnds, IsChild
<1>8. \A k : /\ Has(pre \o one, k, {"running"}) <=> Has(pre, k, {"running"})
             /\ Has(pre \o one, k, Ended) <=> Has(pre, k, Ended)
  BY <1>3, <1>6, HasInConcat
<1>9. TasksTold(q, pre \o one)
  BY <1>8 DEF Base, TasksTold
<1>10. c.length \in [Blocks -> Nat]
  BY DEF Texts
<1>11. ASSUME NEW a \in Blocks
       PROVE  /\ IsFiniteSet(Letters(pre \o one, a))
              /\ Cardinality(Letters(pre \o one, a)) = d.length[a]
  <2>1. IsFiniteSet(Letters(pre, a)) /\ Cardinality(Letters(pre, a)) = c.length[a]
    BY DEF Base, TextTold
  <2>2. CASE a = b
    <3>1. /\ IsFiniteSet(Letters(pre, a) \cup {<<Len(pre) + 1, 1>>})
          /\ Cardinality(Letters(pre, a) \cup {<<Len(pre) + 1, 1>>})
               = Cardinality(Letters(pre, a)) + 1
      BY <1>2, <2>1, FS_AddElement
    <3>2. d.length[a] = c.length[a] + 1
      BY <1>10, <2>2
    <3> QED BY <1>2, <2>1, <2>2, <3>1, <3>2
  <2>3. CASE a # b
    <3>1. d.length[a] = c.length[a]
      BY <1>10, <2>3
    <3> QED BY <1>2, <2>1, <2>3, <3>1
  <2> QED BY <2>2, <2>3
<1>12. FrameTold(pre, d, y)
  BY <1>4, <1>5, <1>7, <1>9, <1>11 DEF FrameTold, TextTold
<1>13. NothingBehind(y)
  BY <1>5, <1>6 DEF NothingBehind
<1>14. ResultInv(pre, d, y)
  BY <1>5, <1>7, <1>12, <1>13 DEF ResultInv
<1> QED BY <1>14 DEF y, one, e

\* Text that is not new is not told; the process may be at another place of it.
LEMMA NoLetter ==
  ASSUME NEW pre \in Seq(Events), NEW c, NEW p, Base(pre, c, p),
         NEW q \in Protocol, q.emitted = p.emitted, q.status = p.status,
         NEW d, d.length = c.length, TextsKept(q, d)
  PROVE  ResultInv(pre, d, Then(q, <<>>))
<1>1. TasksTold(q, pre) /\ TextTold(d, pre)
  BY DEF Base, TasksTold, TextTold
<1>2. Base(pre, d, q)
  BY <1>1 DEF Base
<1> QED BY <1>2, NothingTold

\* A protocol with other texts
Retold(p, q, mapped, streams, frames, texts) ==
  /\ q \in Protocol /\ q.emitted = p.emitted /\ q.status = p.status
  /\ q.mapped = mapped /\ q.stream = streams /\ q.frames = frames /\ q.texts = texts

LEMMA MessageStarts ==
  ASSUME NEW pre \in Seq(Events), NEW c \in Texts, NEW p, Base(pre, c, p),
         ~c.streams, c.block = 0
  PROVE  LET d == [c EXCEPT !.streams = TRUE]
         IN d \in Texts /\ ResultInv(pre, d, MessageStart(p))
<1> DEFINE d == [c EXCEPT !.streams = TRUE]
           q == [p EXCEPT !.mapped = Unmapped, !.stream = TRUE]
<1>1. /\ d \in Texts /\ d.streams /\ d.length = c.length /\ d.block = c.block
      /\ d.open = c.open /\ d.text = c.text
  BY DEF Texts
<1>2. p \in Protocol /\ TextsKept(p, c)
  BY DEF Base
<1>3. Retold(p, q, Unmapped, TRUE, p.frames, p.texts)
  BY <1>2 DEF Retold, Protocol
<1> HIDE DEF d, q
<1>4. \A b \in Blocks : b > 0
  BY DEF Blocks
<1>5. TextsKept(q, d)
  BY <1>1, <1>2, <1>3, <1>4 DEF TextsKept, Retold
<1>6. ResultInv(pre, d, Then(q, <<>>))
  BY <1>1, <1>3, <1>5, NoLetter DEF Retold
<1> QED BY <1>1, <1>6 DEF MessageStart, d, q

LEMMA BlockStarts ==
  ASSUME NEW pre \in Seq(Events), NEW c \in Texts, NEW p, Base(pre, c, p),
         c.streams, c.block < MaxBlocks, NEW text \in BOOLEAN
  PROVE  LET d == [c EXCEPT !.block = c.block + 1, !.open = TRUE, !.text = text]
         IN d \in Texts /\ ResultInv(pre, d, BlockStart(p, c.block + 1, text))
<1> DEFINE n == c.block + 1
           d == [c EXCEPT !.block = n, !.open = TRUE, !.text = text]
           mapped == IF text THEN n ELSE Unmapped
           q == [p EXCEPT !.mapped = mapped]
<1>0. n \in Blocks /\ n # 0 /\ n \in 0 .. MaxBlocks /\ c.block \in Nat
  BY ProtocolAssumption DEF Texts, Blocks
<1>1. /\ d \in Texts /\ d.streams = c.streams /\ d.length = c.length /\ d.block = n
      /\ d.open /\ d.text = text
  <2> HIDE DEF n
  <2> QED BY <1>0 DEF Texts
<1>2. p \in Protocol /\ TextsKept(p, c) /\ p.stream
  BY DEF Base, TextsKept
<1>3. Retold(p, q, mapped, TRUE, p.frames, p.texts)
  <2> HIDE DEF n
  <2> QED BY <1>0, <1>2 DEF Retold, Protocol
<1>4. BlockStart(p, n, text) = Then(q, <<>>)
  BY <1>2 DEF BlockStart
<1>5. \A b \in Blocks : b > n => b > c.block
  BY <1>0 DEF Blocks
<1> HIDE DEF d, q, n
<1>6. TextsKept(q, d)
  BY <1>0, <1>1, <1>2, <1>3, <1>5 DEF TextsKept, Retold
<1>7. ResultInv(pre, d, Then(q, <<>>))
  BY <1>1, <1>3, <1>6, NoLetter DEF Retold
<1> QED BY <1>1, <1>4, <1>7 DEF d, n

LEMMA BlockStops ==
  ASSUME NEW pre \in Seq(Events), NEW c \in Texts, NEW p, Base(pre, c, p), c.open
  PROVE  LET d == [c EXCEPT !.open = FALSE]
         IN d \in Texts /\ ResultInv(pre, d, BlockStop(p))
<1> DEFINE d == [c EXCEPT !.open = FALSE]
           q == [p EXCEPT !.mapped = Unmapped]
<1>1. /\ d \in Texts /\ d.streams = c.streams /\ d.length = c.length /\ d.block = c.block
      /\ d.open = FALSE /\ d.text = c.text
  BY DEF Texts
<1>2. p \in Protocol /\ TextsKept(p, c) /\ c.streams /\ p.stream
  BY DEF Base, TextsKept, Texts
<1>3. Retold(p, q, Unmapped, TRUE, p.frames, p.texts)
  BY <1>2 DEF Retold, Protocol
<1>4. BlockStop(p) = Then(q, <<>>)
  BY <1>2 DEF BlockStop
<1> HIDE DEF d, q
<1>5. TextsKept(q, d)
  BY <1>1, <1>2, <1>3 DEF TextsKept, Retold
<1>6. ResultInv(pre, d, Then(q, <<>>))
  BY <1>1, <1>3, <1>5, NoLetter DEF Retold
<1> QED BY <1>1, <1>4, <1>6 DEF d

LEMMA Deltas ==
  ASSUME NEW pre \in Seq(Events), NEW c \in Texts, NEW p, Base(pre, c, p),
         c.open, c.text, c.length[c.block] = 0
  PROVE  LET d == [c EXCEPT !.length[c.block] = 1]
         IN d \in Texts /\ ResultInv(pre, d, Delta(p, c.block))
<1> DEFINE b == c.block
           id == [by |-> "block", at |-> b]
           d == [c EXCEPT !.length[b] = 1]
           texts == [p.texts EXCEPT ![id] = p.texts[id] + 1]
           q == [p EXCEPT !.texts[id] = @ + 1]
<1>1. p \in Protocol /\ TextsKept(p, c) /\ c.streams /\ p.stream
  BY DEF Base, TextsKept, Texts
<1>2. b \in Blocks /\ id \in Ids /\ b \in Nat
  BY <1>1, ProtocolAssumption DEF TextsKept, Texts, Blocks, Ids
<1>3. p.texts[id] = 0 /\ p.texts \in [Ids -> Nat]
  BY <1>1, <1>2 DEF TextsKept, Protocol
<1>4. Delta(p, b) = Then(q, <<TextEvent(b, 1)>>)
  BY <1>1 DEF Delta
<1> HIDE DEF b
<1>5. /\ d \in Texts /\ d.streams = c.streams /\ d.length = [c.length EXCEPT ![b] = 1]
      /\ d.block = b /\ d.open = c.open /\ d.text = c.text /\ c.length \in [Blocks -> Nat]
  <2>1. c.block = b
    BY DEF b
  <2> QED BY <1>2, <2>1 DEF Texts
<1>6. \A a \in Blocks : \A by \in {"block", "frame"} :
        /\ [by |-> by, at |-> a] \in Ids
        /\ [by |-> by, at |-> a] = id <=> by = "block" /\ a = b
  BY DEF Ids
<1> HIDE DEF id
<1>7. texts \in [Ids -> Nat] /\ texts[id] = 1 /\ \A i \in Ids : i # id => texts[i] = p.texts[i]
  BY <1>2, <1>3
<1>8. Retold(p, q, p.mapped, p.stream, p.frames, texts)
  BY <1>1, <1>2, <1>3, <1>7 DEF Retold, Protocol
<1> HIDE DEF d, q, texts
<1>9. TextsKept(q, d)
  <2>1. ASSUME NEW a \in Blocks
        PROVE  /\ q.frames[a] \in {Absent, a} /\ q.texts[[by |-> "block", at |-> a]] = d.length[a]
               /\ a > d.block => /\ q.frames[a] = Absent /\ d.length[a] = 0
                                 /\ q.texts[[by |-> "block", at |-> a]] = 0
                                 /\ q.texts[[by |-> "frame", at |-> a]] = 0
    <3>0. b = c.block /\ a \in Nat
      BY DEF b, Blocks
    <3>1. q.texts[[by |-> "frame", at |-> a]] = p.texts[[by |-> "frame", at |-> a]]
      BY <1>6, <1>7, <1>8 DEF Retold
    <3>2. CASE a = b
      <4>0. [by |-> "block", at |-> a] = id
        BY <1>6, <3>2
      <4>1. q.texts[[by |-> "block", at |-> a]] = 1 /\ d.length[a] = 1
        <5>1. q.texts = texts
          BY <1>8 DEF Retold
        <5>2. d.length[a] = 1
          BY <1>5, <3>2
        <5> QED BY <1>7, <4>0, <5>1, <5>2
      <4>2. q.frames[a] \in {Absent, a}
        BY <1>1, <1>8 DEF TextsKept, Retold
      <4>3. ~(a > d.block)
        BY <1>5, <3>0, <3>2
      <4> QED BY <4>1, <4>2, <4>3
    <3>3. CASE a # b
      <4>1. /\ q.texts[[by |-> "block", at |-> a]] = p.texts[[by |-> "block", at |-> a]]
            /\ d.length[a] = c.length[a]
        <5>1. [by |-> "block", at |-> a] \in Ids /\ [by |-> "block", at |-> a] # id
          BY <1>6, <3>3
        <5>2. q.texts = texts
          BY <1>8 DEF Retold
        <5>3. d.length[a] = c.length[a]
          BY <1>5, <3>3
        <5> QED BY <1>7, <5>1, <5>2, <5>3
      <4> QED BY <1>1, <1>5, <1>8, <3>0, <3>1, <4>1 DEF TextsKept, Retold
    <3> QED BY <3>2, <3>3
  <2> QED BY <1>1, <1>5, <1>8, <2>1 DEF TextsKept, Retold, b
<1>10. ResultInv(pre, d, Then(q, <<TextEvent(b, 1)>>))
  <2>1. c.length[b] = 0 /\ d.length = [c.length EXCEPT ![b] = c.length[b] + 1]
    BY <1>5 DEF b
  <2> QED BY <1>2, <1>8, <1>9, <2>1, TextAdded DEF Retold
<1> QED BY <1>4, <1>5, <1>10 DEF d, b

\* Assistant, once the id of the text is known
Whole(p, f, id) == [p EXCEPT !.frames[f] = IF id.by = "frame" THEN Unmapped ELSE id.at]

LEMMA FrameFields ==
  ASSUME NEW p \in Protocol, NEW f \in Blocks, NEW at \in {Absent, Unmapped} \cup Blocks
  PROVE  LET q == [p EXCEPT !.frames[f] = at]
         IN /\ q \in Protocol /\ q.emitted = p.emitted /\ q.status = p.status
            /\ q.mapped = p.mapped /\ q.stream = p.stream
            /\ q.frames = [p.frames EXCEPT ![f] = at] /\ q.texts = p.texts
BY DEF Protocol

\* What Assistant leaves of the protocol, when it does not refuse
LEMMA WholeFields ==
  ASSUME NEW p \in Protocol, NEW f \in Blocks, NEW id \in Ids, NEW n \in Nat
  PROVE  LET frames == [p.frames EXCEPT ![f] = IF id.by = "frame" THEN Unmapped ELSE id.at]
             texts == [p.texts EXCEPT ![id] = n]
             q == [Whole(p, f, id) EXCEPT !.texts[id] = n]
         IN Retold(p, q, p.mapped, p.stream, frames, texts) /\ Whole(p, f, id).texts = p.texts
<1> DEFINE at == IF id.by = "frame" THEN Unmapped ELSE id.at
           frames == [p.frames EXCEPT ![f] = at]
           texts == [p.texts EXCEPT ![id] = n]
           w == Whole(p, f, id)
           q == [w EXCEPT !.texts[id] = n]
<1>1. at \in {Absent, Unmapped} \cup Blocks
  BY DEF Ids
<1>2. Whole(p, f, id) = [p EXCEPT !.frames[f] = at]
  BY DEF Whole
<1> HIDE DEF at
<1>3. /\ w \in Protocol /\ w.emitted = p.emitted /\ w.status = p.status
      /\ w.mapped = p.mapped /\ w.stream = p.stream /\ w.frames = frames /\ w.texts = p.texts
  BY <1>1, <1>2, FrameFields
<1> HIDE DEF w, frames
<1>4. /\ q \in Protocol /\ q.emitted = w.emitted /\ q.status = w.status
      /\ q.mapped = w.mapped /\ q.stream = w.stream /\ q.frames = w.frames
      /\ q.texts = [w.texts EXCEPT ![id] = n]
  BY <1>3 DEF Protocol
<1> HIDE DEF q
<1>5. Retold(p, q, p.mapped, p.stream, frames, texts)
  BY <1>3, <1>4 DEF Retold
<1> QED BY <1>3, <1>5 DEF q, frames, at, w

LEMMA WholeTexts ==
  ASSUME NEW pre \in Seq(Events), NEW c \in Texts, NEW p, Base(pre, c, p),
         c.open, c.text, c.length[c.block] > 0
  PROVE  LET d == [c EXCEPT !.whole[c.block] = TRUE]
         IN /\ d \in Texts
            /\ ResultInv(pre, d, Assistant(p, c.block, c.block, c.length[c.block]))
<1> DEFINE b == c.block
           n == c.length[b]
           id == [by |-> "block", at |-> b]
           d == [c EXCEPT !.whole[b] = TRUE]
           w == Whole(p, b, id)
           q == [w EXCEPT !.texts[id] = n]
           frames == [p.frames EXCEPT ![b] = b]
           texts == [p.texts EXCEPT ![id] = n]
<1>1. p \in Protocol /\ TextsKept(p, c) /\ c.streams /\ p.mapped = b
  BY DEF Base, TextsKept, Texts
<1>2. b \in Blocks /\ id \in Ids /\ b \in Nat /\ b # Unmapped /\ b # Absent
  BY <1>1, ProtocolAssumption DEF TextsKept, Texts, Blocks, Ids, Unmapped, Absent
<1>3. /\ p.texts[id] = n /\ n \in Nat /\ p.texts \in [Ids -> Nat] /\ p.frames[b] \in {Absent, b}
      /\ p.frames \in [Blocks -> {Absent, Unmapped} \cup Blocks]
  BY <1>1, <1>2 DEF TextsKept, Protocol, Texts
<1>4. TextId(p, b, b) = id
  BY <1>1, <1>2, <1>3 DEF TextId
<1>5. Assistant(p, b, b, n) = Suffix(w, id, b, n)
  <2> HIDE DEF id, b, n
  <2>1. ~(p.frames[b] = Absent /\ p.mapped = Unmapped)
    BY <1>1, <1>2
  <2> QED BY <1>4, <2>1 DEF Assistant, Whole
<1>6. /\ Retold(p, q, p.mapped, p.stream, frames, texts) /\ w.texts = p.texts
  <2>1. [p.frames EXCEPT ![b] = IF id.by = "frame" THEN Unmapped ELSE id.at] = frames
    OBVIOUS
  <2> HIDE DEF b, n, frames
  <2> QED BY <1>1, <1>2, <1>3, <2>1, WholeFields, ZenonT(30)
<1>7. Suffix(w, id, b, n) = Then(q, <<>>)
  <2> HIDE DEF w, id, n, b
  <2> QED BY <1>3, <1>6 DEF Suffix
<1>8. texts = p.texts
  <2> HIDE DEF id, n, b
  <2> QED BY <1>2, <1>3
<1>9. /\ d \in Texts /\ d.streams = c.streams /\ d.length = c.length
      /\ d.block = c.block /\ d.open = c.open /\ d.text = c.text
  BY <1>2 DEF Texts
<1> HIDE DEF d, q, w, texts, id, n
<1>10. \A a \in Blocks : frames[a] = IF a = b THEN b ELSE p.frames[a]
  <2> HIDE DEF b
  <2> QED BY <1>2, <1>3
<1> HIDE DEF frames
<1>11. TextsKept(q, d)
  <2>1. \A a \in Blocks : a > c.block => a # b
    BY <1>2 DEF Blocks
  <2> HIDE DEF b
  <2>2. q.frames = frames
    BY <1>6 DEF Retold
  <2>3. \A a \in Blocks : p.frames[a] \in {Absent, a} /\ (a > c.block => p.frames[a] = Absent)
    BY <1>1 DEF TextsKept
  <2>4. \A a \in Blocks : q.frames[a] \in {Absent, a} /\ (a > c.block => q.frames[a] = Absent)
    BY <1>10, <2>1, <2>2, <2>3
  <2> QED BY <1>1, <1>6, <1>8, <1>9, <2>4 DEF TextsKept, Retold
<1>12. ResultInv(pre, d, Then(q, <<>>))
  BY <1>6, <1>9, <1>11, NoLetter DEF Retold
<1> QED BY <1>5, <1>7, <1>9, <1>12 DEF d, n

LEMMA UnstreamedTexts ==
  ASSUME NEW pre \in Seq(Events), NEW c \in Texts, NEW p, Base(pre, c, p),
         ~c.streams, c.block < MaxBlocks
  PROVE  LET b == c.block + 1
             d == [c EXCEPT !.block = b, !.length[b] = 1, !.whole[b] = TRUE]
         IN d \in Texts /\ ResultInv(pre, d, Assistant(p, b, b, 1))
<1> DEFINE b == c.block + 1
           id == [by |-> "frame", at |-> b]
           d == [c EXCEPT !.block = b, !.length[b] = 1, !.whole[b] = TRUE]
           w == Whole(p, b, id)
           q == [w EXCEPT !.texts[id] = 1]
           frames == [p.frames EXCEPT ![b] = Unmapped]
           texts == [p.texts EXCEPT ![id] = 1]
<1>1. p \in Protocol /\ TextsKept(p, c) /\ p.mapped = Absent /\ ~c.open
  BY DEF Base, TextsKept
<1>2. b \in Blocks /\ id \in Ids /\ b \in Nat /\ b > c.block /\ b \in 0 .. MaxBlocks
  BY ProtocolAssumption DEF Texts, Blocks, Ids
<1>3. /\ p.texts[id] = 0 /\ p.texts \in [Ids -> Nat] /\ p.frames[b] = Absent
      /\ p.frames \in [Blocks -> {Absent, Unmapped} \cup Blocks]
      /\ c.length[b] = 0 /\ c.length \in [Blocks -> Nat]
  BY <1>1, <1>2 DEF TextsKept, Protocol, Texts
<1>4. TextId(p, b, b) = id
  BY <1>1, <1>3 DEF TextId
<1>5. Assistant(p, b, b, 1) = Suffix(w, id, b, 1)
  <2> HIDE DEF id, b
  <2>1. ~(p.frames[b] = Absent /\ p.mapped = Unmapped)
    BY <1>1 DEF Absent, Unmapped
  <2> QED BY <1>4, <2>1 DEF Assistant, Whole
<1>6. /\ Retold(p, q, p.mapped, p.stream, frames, texts) /\ w.texts = p.texts
  <2>1. [p.frames EXCEPT ![b] = IF id.by = "frame" THEN Unmapped ELSE id.at] = frames
    OBVIOUS
  <2> HIDE DEF b, frames, texts, q
  <2> QED BY <1>1, <1>2, <1>3, <2>1, WholeFields DEF q, texts
<1>7. Suffix(w, id, b, 1) = Then(q, <<TextEvent(b, 1)>>)
  <2> HIDE DEF w, id, b
  <2>1. w.texts[id] = 0
    BY <1>3, <1>6
  <2> QED BY <2>1 DEF Suffix
<1>8. /\ d \in Texts /\ d.streams = c.streams /\ d.length = [c.length EXCEPT ![b] = 1]
      /\ d.block = b /\ d.open = c.open /\ d.text = c.text
  <2> HIDE DEF b
  <2> QED BY <1>2 DEF Texts
<1>9. \A a \in Blocks : a > b => a > c.block /\ a # b
  BY <1>2 DEF Blocks, Texts
<1> HIDE DEF d, q, w, b
<1>10. \A a \in Blocks : a > b => /\ frames[a] = p.frames[a] /\ d.length[a] = c.length[a]
  BY <1>3, <1>8, <1>9
<1>11. \A a \in Blocks, by \in {"block", "frame"} :
         a > b => texts[[by |-> by, at |-> a]] = p.texts[[by |-> by, at |-> a]]
  <2>1. ASSUME NEW a \in Blocks, NEW by \in {"block", "frame"}, a > b
        PROVE  [by |-> by, at |-> a] \in Ids /\ [by |-> by, at |-> a] # id
    BY <1>9, <2>1 DEF Ids
  <2> HIDE DEF id
  <2> QED BY <1>3, <2>1
<1> HIDE DEF frames, texts, id
<1>12. TextsKept(q, d)
  <2>1. ASSUME NEW a \in Blocks, a > b
        PROVE  /\ q.frames[a] = Absent /\ d.length[a] = 0
               /\ q.texts[[by |-> "block", at |-> a]] = 0
               /\ q.texts[[by |-> "frame", at |-> a]] = 0
    BY <1>1, <1>6, <1>9, <1>10, <1>11, <2>1 DEF TextsKept, Retold
  <2> QED BY <1>1, <1>6, <1>8, <2>1 DEF TextsKept, Retold
<1>13. ResultInv(pre, d, Then(q, <<TextEvent(b, 1)>>))
  <2>1. d.length = [c.length EXCEPT ![b] = c.length[b] + 1]
    BY <1>3, <1>8
  <2> QED BY <1>2, <1>6, <1>12, <2>1, TextAdded DEF Retold
<1> QED BY <1>5, <1>7, <1>8, <1>13 DEF d, b

\* What a frame makes: the process may have written more, and the events may be told.
Makes(g, d, r) ==
  /\ d \in Texts /\ FrameInv(log[g], d, r)
  /\ Normalized(g, r) /\ cli' = [cli EXCEPT ![g] = d]

\* Whatever the process writes: its text stays typed, and what normalize makes of
\* it may be told.
LEMMA ResultFits ==
  ASSUME NEW pre, NEW c, NEW x, ResultInv(pre, c, x)
  PROVE  FrameInv(pre, c, x)
BY DEF ResultInv, FrameInv, NoEnds, EndsLast

LEMMA TextGiven ==
  ASSUME NEW g \in Turns, log[g] \in Seq(Events), cli[g] \in Texts,
         Base(log[g], cli[g], proto[g]), TextFrame(g)
  PROVE  \E d, r : Makes(g, d, r)
<1> DEFINE p == proto[g]
           c == cli[g]
           pre == log[g]
           Given(r, d) == d \in Texts /\ ResultInv(pre, d, r)
<1>1. ASSUME NEW r, NEW d, Given(r, d), Text(g, r, d)
      PROVE  \E e, t : Makes(g, e, t)
  <2>1. FrameInv(pre, d, Settled(r))
    BY <1>1, SettledKeeps
  <2> QED BY <1>1, <2>1 DEF Text, Makes
<1>2. c \in Texts /\ pre \in Seq(Events) /\ Base(pre, c, p)
  OBVIOUS
<1>3. \E r, d : Given(r, d) /\ Text(g, r, d)
  <2>1. ASSUME c.block = 0, ~c.streams, Text(g, MessageStart(p), [c EXCEPT !.streams = TRUE])
        PROVE  \E r, d : Given(r, d) /\ Text(g, r, d)
    <3>1. Given(MessageStart(p), [c EXCEPT !.streams = TRUE])
      BY <2>1, MessageStarts
    <3> HIDE DEF Given
    <3> QED BY <2>1, <3>1
  <2>2. ASSUME c.streams, c.block < MaxBlocks, NEW text \in BOOLEAN,
               Text(g, BlockStart(p, c.block + 1, text),
                    [c EXCEPT !.block = c.block + 1, !.open = TRUE, !.text = text])
        PROVE  \E r, d : Given(r, d) /\ Text(g, r, d)
    <3>1. Given(BlockStart(p, c.block + 1, text),
                [c EXCEPT !.block = c.block + 1, !.open = TRUE, !.text = text])
      BY <2>2, BlockStarts
    <3> HIDE DEF Given
    <3> QED BY <2>2, <3>1
  <2>3. ASSUME c.open, c.text, c.length[c.block] = 0,
               Text(g, Delta(p, c.block), [c EXCEPT !.length[c.block] = 1])
        PROVE  \E r, d : Given(r, d) /\ Text(g, r, d)
    <3>1. Given(Delta(p, c.block), [c EXCEPT !.length[c.block] = 1])
      BY <2>3, Deltas
    <3> HIDE DEF Given
    <3> QED BY <2>3, <3>1
  <2>4. ASSUME c.open, c.text, c.length[c.block] > 0,
               Text(g, Assistant(p, c.block, c.block, c.length[c.block]),
                    [c EXCEPT !.whole[c.block] = TRUE])
        PROVE  \E r, d : Given(r, d) /\ Text(g, r, d)
    <3>1. Given(Assistant(p, c.block, c.block, c.length[c.block]),
                [c EXCEPT !.whole[c.block] = TRUE])
      BY <2>4, WholeTexts
    <3> HIDE DEF Given
    <3> QED BY <2>4, <3>1
  <2>5. ASSUME c.open, Text(g, BlockStop(p), [c EXCEPT !.open = FALSE])
        PROVE  \E r, d : Given(r, d) /\ Text(g, r, d)
    <3>1. Given(BlockStop(p), [c EXCEPT !.open = FALSE])
      BY <2>5, BlockStops
    <3> HIDE DEF Given
    <3> QED BY <2>5, <3>1
  <2>6. ASSUME ~c.streams, c.block < MaxBlocks,
               Text(g, Assistant(p, c.block + 1, c.block + 1, 1),
                    [c EXCEPT !.block = c.block + 1, !.length[c.block + 1] = 1,
                              !.whole[c.block + 1] = TRUE])
        PROVE  \E r, d : Given(r, d) /\ Text(g, r, d)
    <3>1. Given(Assistant(p, c.block + 1, c.block + 1, 1),
                [c EXCEPT !.block = c.block + 1, !.length[c.block + 1] = 1,
                          !.whole[c.block + 1] = TRUE])
      BY <2>6, UnstreamedTexts
    <3> HIDE DEF Given
    <3> QED BY <2>6, <3>1
  <2> HIDE DEF Given
  <2> QED BY <2>1, <2>2, <2>3, <2>4, <2>5, <2>6, Zenon DEF TextFrame
<1> HIDE DEF Given
<1> QED BY <1>1, <1>3

LEMMA FrameGiven ==
  ASSUME NEW g \in Turns, log[g] \in Seq(Events), cli \in [Turns -> Texts],
         Base(log[g], cli[g], proto[g]),
         TaskFrame(g) \/ SystemFrame(g) \/ ResultFrame(g) \/ TextFrame(g)
  PROVE  \E d, r : Makes(g, d, r)
<1> DEFINE Given(r) == FrameInv(log[g], cli[g], r) /\ Normalized(g, r)
<1>1. cli[g] \in Texts /\ (UNCHANGED cli => cli' = [cli EXCEPT ![g] = cli[g]])
  OBVIOUS
<1>2. ASSUME UNCHANGED cli, NEW r, Given(r)
      PROVE  \E d, t : Makes(g, d, t)
  BY <1>1, <1>2 DEF Makes
<1>3. CASE TaskFrame(g)
  <2>1. PICK f \in TaskFrames : Normalized(g, Settled(Framed(proto[g], f)))
    BY <1>3 DEF TaskFrame
  <2>2. Given(Settled(Framed(proto[g], f)))
    BY <2>1, FramedKeeps, SettledKeeps
  <2> HIDE DEF Given
  <2> QED BY <1>2, <1>3, <2>2 DEF TaskFrame
<1>4. CASE SystemFrame(g)
  <2>1. \/ Normalized(g, Settled(Then(proto[g], <<RootEvent("compaction")>>)))
        \/ Normalized(g, Refuse(proto[g]))
    BY <1>4 DEF SystemFrame
  <2>2. FrameInv(log[g], cli[g], Settled(Then(proto[g], <<RootEvent("compaction")>>)))
    BY RootThen, SettledKeeps
  <2>3. FrameInv(log[g], cli[g], Refuse(proto[g]))
    BY RefuseKeeps, ResultFits DEF Base
  <2>4. \E r : Given(r)
    BY <2>1, <2>2, <2>3
  <2> HIDE DEF Given
  <2> QED BY <1>2, <1>4, <2>4 DEF SystemFrame
<1>5. CASE ResultFrame(g)
  <2>1. \/ Normalized(g, Settled(Success(proto[g])))
        \/ Normalized(g, Then(proto[g], <<RootEvent("interrupted")>>))
    BY <1>5 DEF ResultFrame
  <2>2. FrameInv(log[g], cli[g], Settled(Success(proto[g])))
    BY SuccessKeeps, SettledKeeps
  <2>3. FrameInv(log[g], cli[g], Then(proto[g], <<RootEvent("interrupted")>>))
    BY RootThen
  <2>4. \E r : Given(r)
    BY <2>1, <2>2, <2>3
  <2> HIDE DEF Given
  <2> QED BY <1>2, <1>5, <2>4 DEF ResultFrame
<1>6. CASE TextFrame(g)
  BY <1>1, <1>6, TextGiven
<1> QED BY <1>3, <1>4, <1>5, <1>6

-----------------------------------------------------------------------------
(* The stream of a turn, step by step.                                     *)

TurnInv(g) == OutFits(g) /\ EndInv(g) /\ FramesInv(g)

Frame(g) == TaskFrame(g) \/ SystemFrame(g) \/ ResultFrame(g) \/ TextFrame(g)

\* The worker gives the turn up.
GivesUp(g) ==
  \/ Stopped(g) \/ RunFails(g) \/ Unconfigured(g) \/ Refused(g)
  \/ \E q \in Requests : Withdrawn(g, q)

\* What moves the stream of a turn
Moves(g) ==
  \/ Spawned(g) \/ Initialized(g) \/ Configured(g) \/ PromptWritten(g) \/ Terminal(g) \/ Send(g)
  \/ GivesUp(g) \/ Push(g) \/ Close(g) \/ Frame(g)
  \/ \E q \in Requests : Ask(g, q) \/ Replied(g, q)

\* What does not
Same(x) ==
  /\ worker'[x] = worker[x] /\ out'[x] = out[x] /\ log'[x] = log[x]
  /\ proto'[x] = proto[x] /\ cli'[x] = cli[x] /\ terminal'[x] = terminal[x]
  /\ \A q \in Requests : control'[x][q] = "pending" => control[x][q] = "pending"

\* In every step
Forward(x) == (stop[x] => stop'[x]) /\ (Receiver(x)' => Receiver(x))

LEMMA Forwards ==
  ASSUME IInv, Next, NEW x \in Turns
  PROVE  Forward(x)
<1>1. Receiver(x)' => Receiver(x)
  BY CallsEvolve DEF IInv, CallEvolves
<1>2. stop[x] => stop'[x]
  BY Evolution DEF IInv, Spawned, Evolves
<1> QED BY <1>1, <1>2 DEF Forward

LEMMA SameTurn ==
  ASSUME NEW x \in Turns, TurnInv(x), Same(x), Forward(x)
  PROVE  TurnInv(x)'
<1>1. OutFits(x)'
  BY DEF TurnInv, OutFits, Same
<1>2. EndInv(x)'
  BY DEF TurnInv, EndInv, Same, Forward
<1>3. FramesInv(x)'
  BY DEF TurnInv, FramesInv, Same, Told
<1> QED BY <1>1, <1>2, <1>3 DEF TurnInv

\* Every step that is not a move leaves the streams of all turns as they are.
LEMMA MovesOrSame ==
  ASSUME Types, StreamTypes, Next
  PROVE  (\E g \in Turns : Moves(g)) \/ \A x \in Turns : Same(x)
<1> USE DEF Types, RequestTypes
<1>1. ASSUME NEW g \in Turns, StartTurn(g) \/ StartDropped(g) \/ Starting(g)
      PROVE  Moves(g) \/ \A x \in Turns : Same(x)
  <2>1. CASE Spawn(g)
    <3>1. CASE Spawned(g)
      BY <3>1 DEF Moves
    <3>2. CASE ~Spawned(g)
      <4>1. worker' = worker
        BY <2>1, <3>2 DEF Spawn, Spawned, stream, outcome, replies
      <4> QED BY <2>1, <4>1 DEF Spawn, Same, stream, outcome, replies
    <3> QED BY <3>1, <3>2
  <2>2. CASE StartTurn(g) \/ StartDropped(g) \/ JoinPrevious(g) \/ Started(g) \/ StartFails(g)
    BY <2>2 DEF StartTurn, StartDropped, JoinPrevious, Started, StartFails, Same, stream, outcome,
       replies
  <2> QED BY <1>1, <2>1, <2>2 DEF Starting
<1>2. ASSUME NEW g \in Turns, PromptReaches(g) \/ OwnerKills(g) \/ Exits(g)
      PROVE  \A x \in Turns : Same(x)
  BY <1>2 DEF PromptReaches, OwnerKills, Exits, Same, stream, outcome, replies
<1>3. ASSUME NEW g \in Turns,
             Interrupt(g) \/ InterruptStops(g) \/ Interrupted(g) \/ Read(g) \/ Leave(g)
      PROVE  \A x \in Turns : Same(x)
  BY <1>3 DEF Interrupt, InterruptStops, Interrupted, Read, Leave, Same, stream, outcome, replies
<1>4. ASSUME NEW g \in Turns, NEW q \in Requests,
             Respond(g, q) \/ AnswerReaches(g, q) \/ AnswerWritten(g, q) \/ AnswerLost(g, q)
      PROVE  \A x \in Turns : Same(x)
  <2>1. UNCHANGED <<worker, stream, outcome>>
    BY <1>4 DEF Respond, AnswerReaches, AnswerWritten, AnswerLost, replies
  <2>2. \A x \in Turns, y \in Requests : control'[x][y] = "pending" => control[x][y] = "pending"
    <3>1. CASE AnswerReaches(g, q) \/ AnswerLost(g, q)
      BY <3>1 DEF AnswerReaches, AnswerLost, replies
    <3>2. CASE Respond(g, q)
      BY <3>2 DEF Respond
    <3>3. CASE AnswerWritten(g, q)
      <4>1. \E state \in {"written", control[g][q]} :
              control' = [control EXCEPT ![g][q] = state]
        BY <3>3 DEF AnswerWritten
      <4> QED BY <4>1
    <3> QED BY <1>4, <3>1, <3>2, <3>3
  <2> QED BY <2>1, <2>2 DEF Same, stream, outcome
<1>5. CASE Shutdown \/ StopTurns \/ ShutdownDone
  BY <1>5 DEF Shutdown, StopTurns, ShutdownDone, Same, stream, outcome, replies
<1>6. ASSUME NEW g \in Turns,
             \/ Initialized(g) \/ Configured(g) \/ PromptWritten(g) \/ Streaming(g) \/ Closing(g)
             \/ Unconfigured(g) \/ Refused(g) \/ Frame(g)
             \/ \E q \in Requests : Ask(g, q) \/ Replied(g, q) \/ Withdrawn(g, q)
      PROVE  Moves(g)
  BY <1>6, Zenon DEF Moves, GivesUp, Streaming, Closing
<1> QED BY <1>1, <1>2, <1>3, <1>4, <1>5, <1>6, Zenon DEF Next, Prompting, Frame

\* A move is of one turn.
LEMMA MovesOne ==
  ASSUME Types, StreamTypes, NEW g \in Turns, Moves(g), NEW x \in Turns, x # g
  PROVE  Same(x)
<1> USE DEF Types, WorkerTypes, RequestTypes, StreamTypes
<1>1. CASE Spawned(g)
  BY <1>1 DEF Spawned, Same, stream, outcome
<1>2. CASE Initialized(g) \/ Configured(g)
  BY <1>2 DEF Initialized, Configured, Goes, Same, stream, outcome, replies
<1>3. CASE PromptWritten(g)
  BY <1>3 DEF PromptWritten, Goes, Same, outcome, replies
<1>4. CASE Terminal(g)
  BY <1>4 DEF Terminal, Same, stream, replies
<1>5. CASE Send(g)
  BY <1>5 DEF Send, Goes, Same, outcome, replies
<1>6. CASE GivesUp(g)
  BY <1>6 DEF GivesUp, Stopped, RunFails, Unconfigured, Refused, Withdrawn, Fails, Goes, Same,
     replies
<1>7. CASE Push(g)
  <2>1. log'[x] = log[x]
    BY <1>7 DEF Push
  <2> QED BY <1>7, <2>1 DEF Push, Goes, Same, outcome, replies
<1>8. CASE Close(g)
  BY <1>8 DEF Close, Goes, Same, replies
<1>9. CASE Frame(g)
  <2>1. \E r, d : Normalized(g, r) /\ cli' = [cli EXCEPT ![g] = d]
    <3>1. cli' = cli => cli' = [cli EXCEPT ![g] = cli[g]]
      OBVIOUS
    <3>2. CASE TaskFrame(g) \/ SystemFrame(g) \/ ResultFrame(g)
      BY <3>1, <3>2 DEF TaskFrame, SystemFrame, ResultFrame
    <3>3. CASE TextFrame(g)
      <4>1. \E r, d : Text(g, r, d)
        BY <3>3, Zenon DEF TextFrame
      <4> QED BY <4>1 DEF Text
    <3> QED BY <1>9, <3>2, <3>3 DEF Frame
  <2>2. PICK r, d : Normalized(g, r) /\ cli' = [cli EXCEPT ![g] = d]
    BY <2>1
  <2>3. /\ proto' = [proto EXCEPT ![g] = r.p] /\ log' = log /\ UNCHANGED replies
        /\ \E place, events, end : /\ worker' = [worker EXCEPT ![g] = place]
                                   /\ out' = [out EXCEPT ![g] = events]
                                   /\ terminal' = [terminal EXCEPT ![g] = end]
    <3>1. CASE r.ok
      <4>1. terminal' = [terminal EXCEPT ![g] = terminal[g]]
        BY <2>2, <3>1 DEF Normalized
      <4> QED BY <2>2, <3>1, <4>1 DEF Normalized, Goes
    <3>2. CASE ~r.ok
      BY <2>2, <3>2 DEF Normalized, Fails, Goes
    <3> QED BY <3>1, <3>2
  <2> QED BY <2>2, <2>3 DEF Same, replies
<1>10. ASSUME NEW q \in Requests, Ask(g, q) \/ Replied(g, q)
       PROVE  Same(x)
  <2>1. CASE Ask(g, q)
    <3>1. out'[x] = out[x] /\ control'[x] = control[x] /\ worker'[x] = worker[x]
      BY <2>1 DEF Ask, Goes
    <3> QED BY <2>1, <3>1 DEF Ask, Same, outcome
  <2>2. CASE Replied(g, q)
    BY <2>2 DEF Replied, Goes, Same, stream, outcome
  <2> QED BY <1>10, <2>1, <2>2
<1> QED BY <1>1, <1>2, <1>3, <1>4, <1>5, <1>6, <1>7, <1>8, <1>9, <1>10 DEF Moves

LEMMA EventsConcat ==
  ASSUME NEW s \in Seq(Events)
  PROVE  s \o <<>> = s /\ <<>> \o s = s
OBVIOUS

LEMMA ToldIsEvents ==
  ASSUME StreamTypes, NEW g \in Turns
  PROVE  /\ log[g] \in Seq(Events) /\ out[g] \in Seq(Events) /\ Told(g) \in Seq(Events)
         /\ proto[g] \in Protocol /\ cli[g] \in Texts
         /\ terminal[g] \in {"none", "ok", "error"}
         /\ out[g] = <<>> => Told(g) = log[g]
<1>1. log[g] \in Seq(Events) /\ out[g] \in Seq(Events) /\ cli[g] \in Texts /\ proto[g] \in Protocol
      /\ terminal[g] \in {"none", "ok", "error"}
  BY DEF StreamTypes
<1>2. Told(g) \in Seq(Events)
  BY <1>1, ConcatPlaces DEF Told
<1>3. log[g] \o <<>> = log[g]
  BY <1>1, EventsConcat
<1> QED BY <1>1, <1>2, <1>3 DEF Told

\* Before the prompt
Early == {"none", "initialize", "settings", "prompt"}

LEMMA EarlyTurn ==
  ASSUME NEW g \in Turns, TurnInv(g), worker[g] \in Early, worker'[g] \in Early,
         out'[g] = out[g], log'[g] = log[g], proto'[g] = proto[g], cli'[g] = cli[g],
         terminal'[g] = terminal[g], control'[g] = control[g]
  PROVE  TurnInv(g)'
<1>1. OutFits(g)'
  BY DEF TurnInv, OutFits, Early
<1>2. EndInv(g)'
  BY DEF TurnInv, EndInv, OutFits, Early
<1>3. FramesInv(g)'
  BY DEF TurnInv, FramesInv, Early, Told
<1> QED BY <1>1, <1>2, <1>3 DEF TurnInv

LEMMA EarlyMoves ==
  ASSUME IInv, StreamTypes, NEW g \in Turns, TurnInv(g),
         Spawned(g) \/ Initialized(g) \/ Configured(g)
  PROVE  TurnInv(g)'
<1> USE DEF IInv, Types, WorkerTypes
<1>1. /\ worker[g] \in Early /\ worker'[g] \in Early
      /\ UNCHANGED <<stream, terminal, control>>
  <2>1. CASE Spawned(g)
    <3>1. worker[g] = "none"
      BY <2>1 DEF Spawned, SlotIsLast
    <3> QED BY <2>1, <3>1 DEF Spawned, Early, outcome, stream
  <2>2. CASE Initialized(g) \/ Configured(g)
    BY <2>2 DEF Initialized, Configured, Goes, Early, outcome, replies
  <2> QED BY <2>1, <2>2
<1>2. /\ out'[g] = out[g] /\ log'[g] = log[g] /\ proto'[g] = proto[g] /\ cli'[g] = cli[g]
      /\ terminal'[g] = terminal[g] /\ control'[g] = control[g]
  BY <1>1 DEF stream
<1> QED BY <1>1, <1>2, EarlyTurn

LEMMA NothingFramed == WellFramed(<<>>) /\ OperationsFirst(<<>>)
BY DEF WellFramed, OperationsFirst

\* The turn is announced, on its own.
LEMMA StartedIsFramed ==
  LET started == <<RootEvent("started")>>
  IN /\ started \in Seq(Events) /\ WellFramed(started) /\ OperationsFirst(started)
     /\ TasksTold(Empty, started) /\ TextsKept(Empty, Silent) /\ TextTold(Silent, started)
     /\ EndsLast(started)
<1> DEFINE started == <<RootEvent("started")>>
<1>1. "started" \in RootTypes /\ <<>> \in Seq(Events)
  BY DEF RootTypes
<1>2. started = <<>> \o started
  OBVIOUS
<1>3. WellFramed(started)
  BY <1>1, <1>2, NothingFramed, RootFits
<1>4. /\ started \in Seq(Events)
      /\ \A k \in Tasks : /\ Has(started, k, {"running"}) <=> Has(<<>>, k, {"running"})
                          /\ Has(started, k, Ended) <=> Has(<<>>, k, Ended)
      /\ \A b : Letters(started, b) = Letters(<<>>, b)
  <2> DEFINE t == <<>> \o <<RootEvent("started")>>
  <2>1. /\ t \in Seq(Events)
        /\ \A k \in Tasks : /\ Has(t, k, {"running"}) <=> Has(<<>>, k, {"running"})
                            /\ Has(t, k, Ended) <=> Has(<<>>, k, Ended)
        /\ \A b : Letters(t, b) = Letters(<<>>, b)
    BY <1>1, RootSilent, Zenon
  <2>2. t = started
    OBVIOUS
  <2> QED BY <2>1, <2>2, Zenon
<1>5. \A k, statuses : ~Has(<<>>, k, statuses)
  BY DEF Has
<1>6. TasksTold(Empty, started)
  BY <1>4, <1>5 DEF TasksTold, Empty, Ended
<1>7. TextsKept(Empty, Silent)
  BY DEF TextsKept, Empty, Silent, Absent, Unmapped, Ids, Blocks
<1>8. \A b : Letters(<<>>, b) = {}
  BY DEF Letters
<1>9. TextTold(Silent, started)
  BY <1>4, <1>8, FS_EmptySet DEF TextTold, Silent
<1>10. DOMAIN started = {1} /\ started[1] = RootEvent("started") /\ RootEvent("started") \notin Ends
       /\ RootEvent("started").type # "operation"
  BY DEF RootEvent, Ends
<1>11. OperationsFirst(started) /\ EndsLast(started)
  BY <1>10 DEF OperationsFirst, EndsLast
<1> QED BY <1>3, <1>4, <1>6, <1>7, <1>9, <1>11

LEMMA AnnouncedTurn ==
  ASSUME Types, StreamTypes, NEW g \in Turns, TurnInv(g), PromptWritten(g)
  PROVE  TurnInv(g)'
<1> DEFINE started == <<RootEvent("started")>>
<1>1. /\ worker[g] = "prompt" /\ worker'[g] = "announce" /\ out'[g] = started
      /\ log'[g] = log[g] /\ proto'[g] = proto[g] /\ cli'[g] = cli[g]
      /\ terminal'[g] = terminal[g]
  BY DEF PromptWritten, Goes, outcome, Types, WorkerTypes, StreamTypes
<1>2. log[g] = <<>> /\ proto[g] = Empty /\ cli[g] = Silent
  BY <1>1 DEF TurnInv, OutFits
<1>3. started # <<>>
  OBVIOUS
<1>4. Told(g)' = started /\ WellFramed(started) /\ OperationsFirst(started) /\ EndsLast(started)
  BY <1>1, <1>2, StartedIsFramed, EventsConcat DEF Told
<1> HIDE DEF started
<1>5. OutFits(g)'
  BY <1>1, <1>2, <1>3 DEF OutFits, started
<1>6. EndInv(g)'
  BY <1>1, <1>2, <1>4 DEF TurnInv, EndInv, EndsLast
<1>7. FramesInv(g)'
  BY <1>1, <1>4 DEF FramesInv
<1> QED BY <1>5, <1>6, <1>7 DEF TurnInv

LEMMA TerminalTurn ==
  ASSUME Types, StreamTypes, NEW g \in Turns, TurnInv(g), Terminal(g)
  PROVE  TurnInv(g)'
<1>1. /\ worker[g] = "send" /\ Head(out[g]) \in Finals /\ MayEnd(g) /\ terminal[g] = "none"
      /\ worker'[g] = worker[g] /\ UNCHANGED <<stream, control, stop>>
      /\ terminal'[g] = "ok"
  BY DEF Terminal, replies, StreamTypes
<1>2. OutFits(g)'
  BY <1>1 DEF TurnInv, OutFits, stream
<1>3. EndInv(g)'
  <2>1. log[g] # <<>> => Last(log[g]) \notin Ends
    <3>1. log[g] \in Seq(Events)
      BY DEF StreamTypes
    <3>2. log[g] # <<>> => Len(log[g]) \in DOMAIN log[g]
      BY <3>1
    <3> QED BY <1>1, <3>2 DEF TurnInv, EndInv, Last
  <2>2. RootEvent("completed") \in Ends
    BY DEF Ends
  <2> QED BY <1>1, <2>1, <2>2 DEF TurnInv, EndInv, MayEnd, stream
<1>4. FramesInv(g)'
  BY <1>1 DEF TurnInv, FramesInv, stream, Told
<1> QED BY <1>2, <1>3, <1>4 DEF TurnInv

LEMMA HeadMoves ==
  ASSUME NEW s \in Seq(Events), NEW t \in Seq(Events), t # <<>>
  PROVE  /\ Head(t) \in Events /\ Tail(t) \in Seq(Events) /\ t[1] = Head(t) /\ 1 \in DOMAIN t
         /\ Len(t) \in Nat \ {0} /\ Len(Tail(t)) = Len(t) - 1
         /\ \A i \in DOMAIN Tail(t) : i + 1 \in DOMAIN t /\ Tail(t)[i] = t[i + 1]
         /\ Tail(t) = <<>> <=> Len(t) = 1
         /\ Append(s, Head(t)) \in Seq(Events) /\ Append(s, Head(t)) \o Tail(t) = s \o t
<1>1. /\ Head(t) \in Events /\ Tail(t) \in Seq(Events) /\ t[1] = Head(t) /\ 1 \in DOMAIN t
      /\ Len(t) \in Nat \ {0} /\ Len(Tail(t)) = Len(t) - 1
      /\ \A i \in DOMAIN Tail(t) : i + 1 \in DOMAIN t /\ Tail(t)[i] = t[i + 1]
  OBVIOUS
<1>2. Tail(t) = <<>> <=> Len(t) = 1
  <2>1. \A u \in Seq(Events) : u = <<>> <=> Len(u) = 0
    OBVIOUS
  <2>2. Tail(t) = <<>> <=> Len(Tail(t)) = 0
    BY <1>1, <2>1
  <2> QED BY <1>1, <2>2
<1>3. Append(s, Head(t)) \in Seq(Events)
  BY <1>1
<1>4. DOMAIN (s \o t) = 1 .. Len(s) + Len(t)
  BY ConcatPlaces
<1>5. Append(s, Head(t)) \o Tail(t) = s \o t
  BY <1>1, <1>3
<1> QED BY <1>1, <1>2, <1>3, <1>5

\* What follows the events of a log is one more.
LEMMA LogGrows ==
  ASSUME NEW s \in Seq(Events), NEW e \in Events, \A i \in DOMAIN s : s[i] \notin Ends
  PROVE  LET t == Append(s, e)
         IN /\ t \in Seq(Events) /\ t # <<>> /\ Last(t) = e
            /\ \A i \in DOMAIN t : t[i] \in Ends => i = Len(t) /\ t[i] = e
BY DEF Last

LEMMA SentTurn ==
  ASSUME Types, StreamTypes, NEW g \in Turns, TurnInv(g), Send(g)
  PROVE  TurnInv(g)'
<1> DEFINE s == log[g]
           t == out[g]
           e == Head(t)
           last == e \in Finals
<1>1. s \in Seq(Events) /\ t \in Seq(Events)
  BY ToldIsEvents
<1>2. worker[g] \in {"announce", "send"} /\ t # <<>>
  BY DEF Send, TurnInv, OutFits
<1>3. /\ log'[g] = Append(s, e) /\ out'[g] = Tail(t) /\ proto'[g] = proto[g] /\ cli'[g] = cli[g]
      /\ terminal'[g] = terminal[g] /\ UNCHANGED <<control, stop>>
      /\ worker'[g] = IF last THEN "close" ELSE IF Len(t) > 1 THEN "send" ELSE "stream"
      /\ last => terminal[g] # "none"
  BY DEF Send, Goes, outcome, replies, Types, WorkerTypes, StreamTypes
<1>4. /\ e \in Events /\ Tail(t) \in Seq(Events) /\ t[1] = e /\ 1 \in DOMAIN t
      /\ Len(t) \in Nat \ {0} /\ Len(Tail(t)) = Len(t) - 1
      /\ \A i \in DOMAIN Tail(t) : i + 1 \in DOMAIN t /\ Tail(t)[i] = t[i + 1]
      /\ Tail(t) = <<>> <=> Len(t) = 1
      /\ Append(s, e) \o Tail(t) = s \o t
  BY <1>1, <1>2, HeadMoves
<1>5. \A i \in DOMAIN s : s[i] \notin Ends
  BY <1>2 DEF TurnInv, EndInv
<1>6. /\ \A i \in DOMAIN t : t[i] \in Ends => i = Len(t) /\ t[i] \in Finals
      /\ terminal[g] = "ok" => worker[g] = "send" /\ last
      /\ terminal[g] # "error"
  BY <1>2 DEF TurnInv, EndInv
<1>7. e \in Ends => last /\ Len(t) = 1
  BY <1>4, <1>6
<1>8. last => e \in Ends
  BY DEF Finals, Ends
<1>9. /\ Append(s, e) # <<>> /\ Last(Append(s, e)) = e
      /\ \A i \in DOMAIN Append(s, e) : Append(s, e)[i] \in Ends =>
           i = Len(Append(s, e)) /\ Append(s, e)[i] = e
  BY <1>1, <1>4, <1>5, LogGrows
<1>10. worker[g] = "announce" =>
         t = <<RootEvent("started")>> /\ s = <<>> /\ proto[g] = Empty /\ cli[g] = Silent
  BY DEF TurnInv, OutFits
<1>11. Told(g)' = Told(g)
  BY <1>3, <1>4 DEF Told
<1>12. terminal[g] \in {"none", "ok", "error"}
  BY DEF StreamTypes
<1>13. e = RootEvent("completed") => last
  BY DEF Finals
<1> HIDE DEF s, t, e, last
<1>14. OutFits(g)'
  <2>1. worker'[g] = "send" <=> Tail(t) # <<>>
    BY <1>3, <1>4, <1>7, <1>8
  <2>2. worker'[g] \in {"close", "send", "stream"}
    BY <1>3
  <2> QED BY <1>3, <2>1, <2>2 DEF OutFits
<1>15. EndInv(g)'
  <2>1. worker'[g] \notin {"close", "done"} =>
          \A i \in DOMAIN Append(s, e) : Append(s, e)[i] \notin Ends
    BY <1>3, <1>7, <1>9
  <2>2. \A i \in DOMAIN Tail(t) : Tail(t)[i] \in Ends => i = Len(Tail(t)) /\ Tail(t)[i] \in Finals
    <3>1. ASSUME NEW i \in DOMAIN Tail(t), Tail(t)[i] \in Ends
          PROVE  i = Len(Tail(t)) /\ Tail(t)[i] \in Finals
      <4>1. i + 1 \in DOMAIN t /\ Tail(t)[i] = t[i + 1] /\ i \in Int
        BY <1>4, <3>1
      <4>2. t[i + 1] \in Ends
        BY <3>1, <4>1
      <4>3. i + 1 = Len(t) /\ t[i + 1] \in Finals
        BY <1>6, <4>1, <4>2
      <4>4. Len(t) \in Nat /\ Len(Tail(t)) = Len(t) - 1
        BY <1>4
      <4>5. Tail(t)[i] \in Finals
        BY <4>1, <4>3
      <4> QED BY <4>1, <4>3, <4>4, <4>5
    <3> QED BY <3>1
  <2>3. worker'[g] \in {"close", "done"} => last
    BY <1>3
  <2>4. terminal[g] = "ok" => worker'[g] = "close"
    BY <1>3, <1>6
  <2>5. Append(s, e) # <<>> /\ Last(Append(s, e)) = RootEvent("completed") =>
          \A q \in Requests : control[g][q] # "pending"
    <3>1. ASSUME e = RootEvent("completed")
          PROVE  \A q \in Requests : control[g][q] # "pending"
      <4>1. terminal[g] = "ok" /\ worker[g] = "send"
        BY <1>3, <1>6, <1>12, <1>13, <3>1
      <4> QED BY <3>1, <4>1 DEF TurnInv, EndInv, e, t
    <3> QED BY <1>9, <3>1
  <2>6. worker'[g] # "send" \/ terminal'[g] # "ok"
    BY <1>3, <2>4
  <2> QED BY <1>3, <1>6, <1>8, <1>9, <2>1, <2>2, <2>3, <2>4, <2>5, <2>6 DEF EndInv
<1>16. FramesInv(g)'
  <2>1. OperationsFirst(Tail(t))
    <3>1. OperationsFirst(t)
      BY DEF TurnInv, FramesInv, t
    <3>2. ASSUME NEW i \in DOMAIN Tail(t), NEW j \in DOMAIN Tail(t), i < j,
                 Tail(t)[j].type = "operation"
          PROVE  ~IsChild(Tail(t)[i], Tail(t)[j].of, Ended)
      <4>1. /\ i + 1 \in DOMAIN t /\ j + 1 \in DOMAIN t
            /\ Tail(t)[i] = t[i + 1] /\ Tail(t)[j] = t[j + 1] /\ i \in Int /\ j \in Int
        BY <1>4
      <4>2. i + 1 < j + 1
        BY <3>2, <4>1
      <4> QED BY <3>1, <3>2, <4>1, <4>2 DEF OperationsFirst
    <3> QED BY <3>2 DEF OperationsFirst
  <2>2. WellFramed(Told(g))
    BY DEF TurnInv, FramesInv
  <2>3. worker'[g] \in {"stream", "send", "reply"} =>
          /\ TasksTold(proto[g], Told(g)) /\ TextsKept(proto[g], cli[g])
          /\ TextTold(cli[g], Told(g))
    <3>1. CASE worker[g] = "send"
      BY <3>1 DEF TurnInv, FramesInv
    <3>2. CASE worker[g] = "announce"
      <4>1. Told(g) = <<RootEvent("started")>>
        BY <1>10, <3>2, StartedIsFramed, EventsConcat DEF Told, s, t
      <4> QED BY <1>10, <3>2, <4>1, StartedIsFramed
    <3> QED BY <1>2, <3>1, <3>2
  <2> QED BY <1>3, <1>11, <2>1, <2>2, <2>3 DEF FramesInv
<1> QED BY <1>14, <1>15, <1>16 DEF TurnInv

\* Whatever fails, its events are not told.
GaveUp(g) ==
  /\ worker[g] \in Running /\ worker'[g] \in {"push", "close"}
  /\ worker'[g] = "close" => stop'[g]
  /\ out'[g] = <<>> /\ log'[g] = log[g] /\ terminal'[g] = "error"

LEMMA GaveUpTurn ==
  ASSUME StreamTypes, NEW g \in Turns, TurnInv(g), GaveUp(g)
  PROVE  TurnInv(g)'
<1> DEFINE s == log[g]
<1>1. s \in Seq(Events) /\ out[g] \in Seq(Events)
  BY ToldIsEvents
<1>2. \A i \in DOMAIN s : s[i] \notin Ends
  BY DEF TurnInv, EndInv, GaveUp, Running
<1>3. s # <<>> => Last(s) \notin Ends
  <2>1. s # <<>> => Len(s) \in DOMAIN s
    BY <1>1
  <2> QED BY <1>2, <2>1 DEF Last
<1>4. WellFramed(s)
  BY <1>1, FramedPrefix DEF TurnInv, FramesInv, Told
<1>5. Told(g)' = s
  BY <1>1, EventsConcat DEF Told, GaveUp
<1> HIDE DEF s
<1>6. OutFits(g)'
  BY DEF OutFits, GaveUp
<1>7. EndInv(g)'
  <2>1. log'[g] = s
    BY DEF GaveUp, s
  <2>2. RootEvent("completed") \in Ends
    BY DEF Ends
  <2> QED BY <1>2, <1>3, <2>1, <2>2 DEF EndInv, GaveUp
<1>8. FramesInv(g)'
  BY <1>4, <1>5, NothingFramed DEF FramesInv, GaveUp
<1> QED BY <1>6, <1>7, <1>8 DEF TurnInv

LEMMA GivesUpTurn ==
  ASSUME Types, StreamTypes, NEW g \in Turns, TurnInv(g), GivesUp(g)
  PROVE  TurnInv(g)'
<1>1. /\ \A place : Goes(g, place) => worker'[g] = place
      /\ \A s : out' = [out EXCEPT ![g] = s] => out'[g] = s
      /\ \A end : terminal' = [terminal EXCEPT ![g] = end] => terminal'[g] = end
  BY DEF Goes, Types, WorkerTypes, StreamTypes
<1>2. ASSUME worker[g] \in Running, Fails(g), UNCHANGED <<log, stop>>
      PROVE  GaveUp(g)
  <2>1. worker'[g] = IF stop[g] THEN "close" ELSE "push"
    BY <1>1, <1>2 DEF Fails
  <2>2. out'[g] = <<>> /\ terminal'[g] = "error"
    BY <1>1, <1>2 DEF Fails
  <2> QED BY <1>2, <2>1, <2>2 DEF GaveUp
<1>3. ASSUME Stopped(g)
      PROVE  GaveUp(g)
  <2>1. /\ stop[g] /\ worker[g] \in Running /\ UNCHANGED <<log, stop>>
        /\ worker'[g] = "close" /\ out'[g] = <<>> /\ terminal'[g] = "error"
    BY <1>1, <1>3 DEF Stopped
  <2> QED BY <2>1 DEF GaveUp
<1>4. ASSUME RunFails(g) \/ Unconfigured(g) \/ Refused(g)
      PROVE  GaveUp(g)
  <2>1. Fails(g) /\ UNCHANGED <<log, stop>>
    BY <1>4 DEF RunFails, Unconfigured, Refused
  <2>2. worker[g] \in Running
    BY <1>4 DEF RunFails, CannotGoOn, Unconfigured, Refused, Running
  <2> QED BY <1>2, <2>1, <2>2
<1>5. ASSUME NEW q \in Requests, Withdrawn(g, q)
      PROVE  GaveUp(g)
  <2>1. Fails(g) /\ UNCHANGED <<log, stop>> /\ worker[g] \in Running
    BY <1>5 DEF Withdrawn, Running
  <2> QED BY <1>2, <2>1
<1>6. GaveUp(g)
  BY <1>3, <1>4, <1>5 DEF GivesUp
<1> QED BY <1>6, GaveUpTurn

LEMMA PushedTurn ==
  ASSUME Types, StreamTypes, NEW g \in Turns, TurnInv(g), Push(g)
  PROVE  TurnInv(g)'
<1> DEFINE s == log[g]
           e == RootEvent("error")
<1>1. s \in Seq(Events) /\ terminal[g] \in {"none", "ok", "error"}
  BY ToldIsEvents
<1>2. worker[g] = "push" /\ out[g] = <<>>
  BY DEF Push, TurnInv, OutFits
<1>3. /\ worker'[g] = "close" /\ out'[g] = <<>> /\ terminal'[g] = terminal[g]
      /\ UNCHANGED <<control, stop, start, reader>>
      /\ \/ log'[g] = s /\ (stop[g] \/ ~Receiver(g))
         \/ log'[g] = Append(s, e)
  <2>1. \/ log' = log /\ (stop[g] \/ ~Receiver(g))
        \/ log' = [log EXCEPT ![g] = Append(s, e)]
    BY DEF Push
  <2> QED BY <1>2, <2>1 DEF Push, Goes, calls, outcome, replies, Types, WorkerTypes, StreamTypes
<1>4. \A i \in DOMAIN s : s[i] \notin Ends
  BY <1>2 DEF TurnInv, EndInv
<1>5. e \in Events /\ e \in Ends /\ e # RootEvent("completed") /\ "error" \in RootTypes
  BY RootIsEvent DEF RootTypes
<1>6. /\ Append(s, e) \in Seq(Events)
      /\ Append(s, e) # <<>> /\ Last(Append(s, e)) = e
      /\ \A i \in DOMAIN Append(s, e) : Append(s, e)[i] \in Ends =>
           i = Len(Append(s, e)) /\ Append(s, e)[i] = e
  BY <1>1, <1>4, <1>5, LogGrows
<1>7. s # <<>> => Last(s) # RootEvent("completed")
  <2>1. s # <<>> => Len(s) \in DOMAIN s
    BY <1>1
  <2>2. RootEvent("completed") \in Ends
    BY DEF Ends
  <2> QED BY <1>4, <2>1, <2>2 DEF Last
<1>8. WellFramed(s) /\ WellFramed(Append(s, e))
  <2>1. WellFramed(s)
    BY <1>1, <1>2, EventsConcat DEF TurnInv, FramesInv, Told
  <2>2. Append(s, e) = s \o <<e>>
    BY <1>1, <1>5
  <2>3. WellFramed(s \o <<RootEvent("error")>>)
    BY <1>1, <1>5, <2>1, RootFits
  <2> QED BY <2>1, <2>2, <2>3
<1>9. Told(g)' = log'[g]
  BY <1>1, <1>3, <1>6, EventsConcat DEF Told
<1> HIDE DEF s, e
<1>10. OutFits(g)'
  BY <1>3 DEF OutFits
<1>11. EndInv(g)'
  <2>1. terminal[g] = "ok" => FALSE
    BY <1>2 DEF TurnInv, EndInv
  <2>2. CASE log'[g] = s /\ (stop[g] \/ ~Receiver(g))
    <3>1. ~(Receiver(g)' /\ ~stop'[g])
      BY <1>3, <2>2 DEF Receiver
    <3> QED BY <1>3, <1>4, <1>7, <2>1, <2>2, <3>1 DEF EndInv
  <2>3. CASE log'[g] = Append(s, e)
    BY <1>3, <1>5, <1>6, <2>1, <2>3 DEF EndInv
  <2> QED BY <1>3, <2>2, <2>3
<1>12. FramesInv(g)'
  BY <1>3, <1>8, <1>9, NothingFramed DEF FramesInv
<1> QED BY <1>10, <1>11, <1>12 DEF TurnInv

LEMMA ClosedTurn ==
  ASSUME Types, StreamTypes, NEW g \in Turns, TurnInv(g), Close(g)
  PROVE  TurnInv(g)'
<1>1. /\ worker[g] = "close" /\ worker'[g] = "done" /\ out'[g] = out[g] /\ log'[g] = log[g]
      /\ terminal'[g] = terminal[g] /\ UNCHANGED <<control, stop, start, reader>>
  BY DEF Close, Goes, calls, replies, Types, WorkerTypes
<1>2. OutFits(g)'
  BY <1>1 DEF TurnInv, OutFits
<1>3. EndInv(g)'
  BY <1>1 DEF TurnInv, EndInv, Receiver
<1>4. FramesInv(g)'
  BY <1>1 DEF TurnInv, FramesInv, Told
<1> QED BY <1>2, <1>3, <1>4 DEF TurnInv

\* The events of a frame, or a request, are to be sent.
LEMMA GivenTurn ==
  ASSUME StreamTypes, NEW g \in Turns, TurnInv(g), worker[g] = "stream",
         NEW d, NEW r, FrameInv(log[g], d, r), r.ok,
         out'[g] = r.events, proto'[g] = r.p, cli'[g] = d, log'[g] = log[g],
         terminal'[g] = terminal[g],
         worker'[g] = IF r.events = <<>> THEN "stream" ELSE "send",
         \A q \in Requests : control'[g][q] = "pending" => control[g][q] = "pending"
                                                           \/ r.events = <<RootEvent("ask")>>
  PROVE  TurnInv(g)'
<1> DEFINE s == log[g]
<1>1. s \in Seq(Events)
  BY ToldIsEvents
<1>2. \A i \in DOMAIN s : s[i] \notin Ends
  BY DEF TurnInv, EndInv
<1>3. s # <<>> => Last(s) # RootEvent("completed")
  <2>1. s # <<>> => Len(s) \in DOMAIN s
    BY <1>1
  <2>2. RootEvent("completed") \in Ends
    BY DEF Ends
  <2> QED BY <1>2, <2>1, <2>2 DEF Last
<1>4. FrameTold(s, d, r) /\ EndsLast(r.events)
  BY DEF FrameInv
<1>5. Told(g)' = s \o r.events
  BY DEF Told
<1>6. worker'[g] \in {"stream", "send"} /\ terminal[g] # "ok" /\ terminal[g] # "error"
  BY DEF TurnInv, EndInv
<1> HIDE DEF s
<1>7. OutFits(g)'
  BY <1>6 DEF OutFits
<1>8. EndInv(g)'
  <2>1. log'[g] = s
    BY DEF s
  <2> QED BY <1>2, <1>3, <1>4, <1>6, <2>1 DEF EndInv, EndsLast
<1>9. FramesInv(g)'
  BY <1>4, <1>5, <1>6 DEF FramesInv, FrameTold
<1> QED BY <1>7, <1>8, <1>9 DEF TurnInv

\* What the reader was told, before a frame
LEMMA StreamingBase ==
  ASSUME StreamTypes, NEW g \in Turns, TurnInv(g), worker[g] = "stream"
  PROVE  out[g] = <<>> /\ Base(log[g], cli[g], proto[g])
<1>1. out[g] = <<>>
  BY DEF TurnInv, OutFits
<1>2. Told(g) = log[g] /\ proto[g] \in Protocol
  BY <1>1, ToldIsEvents
<1> QED BY <1>1, <1>2 DEF TurnInv, FramesInv, Base

LEMMA FrameTurn ==
  ASSUME Types, StreamTypes, NEW g \in Turns, TurnInv(g), Frame(g)
  PROVE  TurnInv(g)'
<1>1. worker[g] = "stream"
  BY DEF Frame, TaskFrame, SystemFrame, ResultFrame, TextFrame
<1>2. Base(log[g], cli[g], proto[g]) /\ log[g] \in Seq(Events) /\ cli \in [Turns -> Texts]
  BY <1>1, StreamingBase, ToldIsEvents DEF StreamTypes
<1>3. PICK d, r : /\ FrameInv(log[g], d, r)
                  /\ Normalized(g, r) /\ cli' = [cli EXCEPT ![g] = d]
  BY <1>2, FrameGiven DEF Frame, Makes
<1>4. proto'[g] = r.p /\ cli'[g] = d /\ log'[g] = log[g] /\ UNCHANGED <<stop, control>>
  BY <1>2, <1>3 DEF Normalized, replies, StreamTypes
<1>5. CASE r.ok
  <2>1. /\ out'[g] = r.events /\ terminal'[g] = terminal[g]
        /\ worker'[g] = IF r.events = <<>> THEN "stream" ELSE "send"
    BY <1>3, <1>5 DEF Normalized, Goes, Types, WorkerTypes, StreamTypes
  <2> QED BY <1>1, <1>3, <1>4, <1>5, <2>1, GivenTurn
<1>6. CASE ~r.ok
  <2>1. GaveUp(g)
    BY <1>1, <1>3, <1>4, <1>6 DEF Normalized, Fails, Goes, GaveUp, Running, Types, WorkerTypes,
       StreamTypes
  <2> QED BY <2>1, GaveUpTurn
<1> QED BY <1>5, <1>6

LEMMA AskedTurn ==
  ASSUME Types, StreamTypes, NEW g \in Turns, TurnInv(g), NEW q \in Requests,
         Ask(g, q) \/ Replied(g, q)
  PROVE  TurnInv(g)'
<1> USE DEF Types, WorkerTypes, RequestTypes, StreamTypes
<1>1. /\ log'[g] = log[g] /\ proto'[g] = proto[g] /\ cli'[g] = cli[g]
      /\ terminal'[g] = terminal[g]
  BY DEF Ask, Replied, outcome, stream
<1>2. CASE Ask(g, q) /\ worker'[g] = "send"
  <2> DEFINE r == Then(proto[g], <<RootEvent("ask")>>)
  <2>1. worker[g] = "stream"
    BY <1>2 DEF Ask
  <2>2. FrameInv(log[g], cli[g], r)
    BY <2>1, StreamingBase, ToldIsEvents, RootThen
  <2>3. r.ok /\ r.events = <<RootEvent("ask")>> /\ r.p = proto[g] /\ r.events # <<>>
    BY DEF Then
  <2>4. out'[g] = r.events
    BY <1>2, <2>3 DEF Ask, Goes
  <2>5. \A y \in Requests : control'[g][y] = "pending" => control[g][y] = "pending"
                                                           \/ r.events = <<RootEvent("ask")>>
    BY <2>3
  <2> HIDE DEF r
  <2>6. proto'[g] = r.p /\ worker'[g] = IF r.events = <<>> THEN "stream" ELSE "send"
    BY <1>1, <1>2, <2>3
  <2> QED BY <1>1, <2>1, <2>2, <2>3, <2>4, <2>5, <2>6, GivenTurn
<1>3. CASE (Ask(g, q) /\ worker'[g] # "send") \/ Replied(g, q)
  <2>1. /\ worker[g] \in {"stream", "reply"} /\ worker'[g] \in {"stream", "reply"}
        /\ out'[g] = out[g]
        /\ \A y \in Requests : control'[g][y] = "pending" => control[g][y] = "pending"
    <3>1. CASE Ask(g, q) /\ worker'[g] # "send"
      BY <3>1 DEF Ask, Goes
    <3>2. CASE Replied(g, q)
      BY <3>2 DEF Replied, Goes, stream
    <3> QED BY <1>3, <3>1, <3>2
  <2>2. OutFits(g)'
    BY <1>1, <2>1 DEF TurnInv, OutFits
  <2>3. EndInv(g)'
    BY <1>1, <2>1 DEF TurnInv, EndInv
  <2>4. FramesInv(g)'
    BY <1>1, <2>1 DEF TurnInv, FramesInv, Told
  <2> QED BY <2>2, <2>3, <2>4 DEF TurnInv
<1> QED BY <1>2, <1>3

LEMMA TurnStep ==
  ASSUME IInv, StreamTypes, Next, NEW x \in Turns, TurnInv(x)
  PROVE  TurnInv(x)'
<1>1. Types
  BY DEF IInv
<1>2. CASE Same(x)
  BY <1>2, Forwards, SameTurn
<1>3. CASE Moves(x)
  BY <1>1, <1>3, EarlyMoves, AnnouncedTurn, TerminalTurn, SentTurn, GivesUpTurn, PushedTurn,
     ClosedTurn, FrameTurn, AskedTurn DEF Moves
<1> QED BY <1>1, <1>2, <1>3, MovesOrSame, MovesOne

\* The types of streams, by the kind of step
LEMMA MovesKeepTypes ==
  ASSUME Types, StreamTypes, NEW g \in Turns, TurnInv(g), Moves(g)
  PROVE  StreamTypes'
<1> USE DEF StreamTypes
<1>1. CASE Spawned(g) \/ Initialized(g) \/ Configured(g) \/ Terminal(g)
  BY <1>1 DEF Spawned, Initialized, Configured, Terminal, stream, outcome, calls
<1>2. CASE PromptWritten(g)
  <2>1. <<RootEvent("started")>> \in Seq(Events)
    BY DEF RootEvent, Events
  <2> QED BY <1>2, <2>1 DEF PromptWritten, outcome, calls
<1>3. CASE Send(g)
  <2>1. log[g] \in Seq(Events) /\ out[g] \in Seq(Events)
    BY ToldIsEvents
  <2>2. out[g] # <<>>
    BY <1>3 DEF Send, TurnInv, OutFits
  <2>3. Append(log[g], Head(out[g])) \in Seq(Events) /\ Tail(out[g]) \in Seq(Events)
    BY <2>1, <2>2, HeadMoves
  <2>4. /\ log' = [log EXCEPT ![g] = Append(log[g], Head(out[g]))]
        /\ out' = [out EXCEPT ![g] = Tail(out[g])]
        /\ UNCHANGED <<read, proto, cli, outcome, calls>>
    BY <1>3 DEF Send
  <2> QED BY <2>3, <2>4 DEF outcome, calls
<1>4. ASSUME Fails(g), UNCHANGED <<log, read, ended, asked>>,
             proto' \in [Turns -> Protocol], cli' \in [Turns -> Texts]
      PROVE  StreamTypes'
  BY <1>4 DEF Fails
<1>5. CASE GivesUp(g)
  <2>1. CASE Stopped(g)
    BY <2>1 DEF Stopped, calls
  <2>2. CASE RunFails(g) \/ Unconfigured(g) \/ Refused(g)
    BY <1>4, <2>2 DEF RunFails, Unconfigured, Refused, calls
  <2>3. ASSUME NEW q \in Requests, Withdrawn(g, q)
        PROVE  StreamTypes'
    BY <1>4, <2>3 DEF Withdrawn, calls
  <2> QED BY <1>5, <2>1, <2>2, <2>3 DEF GivesUp
<1>6. CASE Push(g)
  <2>1. Append(log[g], RootEvent("error")) \in Seq(Events)
    <3>1. RootEvent("error") \in Events
      BY DEF RootEvent, Events
    <3>2. log[g] \in Seq(Events)
      BY ToldIsEvents
    <3> QED BY <3>1, <3>2
  <2>2. log' = log \/ log' = [log EXCEPT ![g] = Append(log[g], RootEvent("error"))]
    BY <1>6 DEF Push
  <2>3. UNCHANGED <<calls, out, read, proto, cli, outcome>>
    BY <1>6 DEF Push
  <2>4. log' \in [Turns -> Seq(Events)]
    BY <2>1, <2>2
  <2> QED BY <2>3, <2>4 DEF calls, outcome
<1>7. CASE Close(g)
  <2>1. Empty \in Protocol
    BY DEF Empty, Protocol, Absent, Ended
  <2> QED BY <1>7, <2>1 DEF Close, calls
<1>8. CASE Frame(g)
  <2>1. worker[g] = "stream"
    BY <1>8 DEF Frame, TaskFrame, SystemFrame, ResultFrame, TextFrame
  <2>2. Base(log[g], cli[g], proto[g]) /\ log[g] \in Seq(Events)
    BY <2>1, StreamingBase, ToldIsEvents
  <2>3. PICK d, r : /\ d \in Texts /\ FrameInv(log[g], d, r)
                    /\ Normalized(g, r) /\ cli' = [cli EXCEPT ![g] = d]
    BY <1>8, <2>2, FrameGiven DEF Frame, Makes
  <2>4. r.p \in Protocol /\ r.events \in Seq(Events)
    BY <2>3 DEF FrameInv, Results
  <2>5. CASE r.ok
    BY <2>3, <2>4, <2>5 DEF Normalized, calls
  <2>6. CASE ~r.ok
    <3>1. proto' \in [Turns -> Protocol] /\ cli' \in [Turns -> Texts]
      BY <2>3, <2>4 DEF Normalized
    <3>2. Fails(g) /\ UNCHANGED <<log, read, ended, asked>>
      BY <2>3, <2>6 DEF Normalized, calls
    <3> QED BY <1>4, <3>1, <3>2
  <2> QED BY <2>5, <2>6
<1>9. ASSUME NEW q \in Requests, Ask(g, q) \/ Replied(g, q)
      PROVE  StreamTypes'
  <2>1. <<RootEvent("ask")>> \in Seq(Events)
    BY DEF RootEvent, Events
  <2>2. out' = out \/ out' = [out EXCEPT ![g] = <<RootEvent("ask")>>]
    BY <1>9 DEF Ask, Replied, stream
  <2>3. UNCHANGED <<calls, log, read, proto, cli, outcome>>
    BY <1>9 DEF Ask, Replied, stream
  <2>4. out' \in [Turns -> Seq(Events)]
    BY <2>1, <2>2
  <2> QED BY <2>3, <2>4 DEF calls, outcome
<1> QED BY <1>1, <1>2, <1>3, <1>5, <1>6, <1>7, <1>8, <1>9 DEF Moves

LEMMA OthersKeepTypes ==
  ASSUME Types, StreamTypes, Next, ~\E g \in Turns : Moves(g)
  PROVE  StreamTypes'
<1> USE DEF StreamTypes
<1>1. ASSUME NEW g \in Turns, StartTurn(g) \/ StartDropped(g) \/ Starting(g)
      PROVE  StreamTypes'
  <2>1. CASE Spawn(g)
    BY <2>1 DEF Spawn, stream, outcome
  <2>2. CASE StartTurn(g) \/ StartDropped(g) \/ Started(g)
    BY <2>2 DEF StartTurn, StartDropped, Started, stream, outcome
  <2>3. CASE JoinPrevious(g)
    BY <2>3 DEF JoinPrevious, Joined, stream
  <2>4. CASE StartFails(g)
    BY <2>4 DEF StartFails, stream
  <2> QED BY <1>1, <2>1, <2>2, <2>3, <2>4 DEF Starting
<1>2. ASSUME NEW g \in Turns, PromptReaches(g) \/ OwnerKills(g) \/ Exits(g)
      PROVE  StreamTypes'
  BY <1>2 DEF PromptReaches, OwnerKills, Exits, stream, outcome, calls
<1>3. ASSUME NEW g \in Turns,
             Interrupt(g) \/ InterruptStops(g) \/ Interrupted(g) \/ Read(g) \/ Leave(g)
      PROVE  StreamTypes'
  <2>1. CASE Interrupt(g) \/ InterruptStops(g) \/ Leave(g)
    BY <2>1 DEF Interrupt, InterruptStops, Leave, stream, outcome
  <2>2. CASE Interrupted(g)
    BY <2>2 DEF Interrupted, Joined, stream
  <2>3. CASE Read(g)
    BY <2>3 DEF Read, outcome, calls
  <2> QED BY <1>3, <2>1, <2>2, <2>3
<1>4. ASSUME NEW g \in Turns, NEW q \in Requests,
             Respond(g, q) \/ AnswerReaches(g, q) \/ AnswerWritten(g, q) \/ AnswerLost(g, q)
      PROVE  StreamTypes'
  BY <1>4 DEF Respond, AnswerReaches, AnswerWritten, AnswerLost, stream, outcome
<1>5. CASE Shutdown \/ StopTurns \/ ShutdownDone
  BY <1>5 DEF Shutdown, StopTurns, ShutdownDone, Joined, stream, outcome, calls
<1>6. ASSUME NEW g \in Turns,
             \/ Initialized(g) \/ Configured(g) \/ PromptWritten(g) \/ Streaming(g) \/ Closing(g)
             \/ Unconfigured(g) \/ Refused(g) \/ Frame(g)
             \/ \E q \in Requests : Ask(g, q) \/ Replied(g, q) \/ Withdrawn(g, q)
      PROVE  Moves(g)
  BY <1>6, Zenon DEF Moves, GivesUp, Streaming, Closing
<1> QED BY <1>1, <1>2, <1>3, <1>4, <1>5, <1>6, Zenon DEF Next, Prompting, Frame

-----------------------------------------------------------------------------

LEMMA StreamInit ==
  ASSUME Init
  PROVE  StreamInv
<1>1. Empty \in Protocol
  BY DEF Empty, Protocol, Absent, Ended
<1>2. Silent \in Texts
  BY ProtocolAssumption DEF Silent, Texts
<1>3. StreamTypes
  BY <1>1, <1>2 DEF Init, StreamTypes
<1>4. ASSUME NEW g \in Turns
      PROVE  OutFits(g) /\ EndInv(g) /\ FramesInv(g)
  <2>1. /\ worker[g] = "none" /\ out[g] = <<>> /\ log[g] = <<>> /\ proto[g] = Empty
        /\ cli[g] = Silent /\ terminal[g] = "none"
    BY DEF Init
  <2>2. Told(g) = <<>>
    BY <2>1 DEF Told
  <2> QED BY <2>1, <2>2, NothingFramed DEF OutFits, EndInv, FramesInv
<1> QED BY <1>3, <1>4 DEF StreamInv

LEMMA StreamStutters ==
  ASSUME StreamInv, UNCHANGED vars
  PROVE  StreamInv'
<1> USE DEF vars, process, session, calls, stream, outcome, replies
<1>1. StreamTypes'
  BY DEF StreamInv, StreamTypes
<1>2. ASSUME NEW g \in Turns
      PROVE  (OutFits(g) /\ EndInv(g) /\ FramesInv(g))'
  BY DEF StreamInv, OutFits, EndInv, FramesInv, Told, Receiver
<1> QED BY <1>1, <1>2 DEF StreamInv

\* What a turn tells, and what it still has to, fits what its protocol knows.
THEOREM StreamInvariant == Spec => []StreamInv
<1>1. Init => StreamInv
  BY StreamInit
<1>2. IInv /\ StreamInv /\ [Next]_vars => StreamInv'
  <2>1. ASSUME IInv, StreamInv, Next
        PROVE  StreamInv'
    <3>1. StreamTypes /\ Types /\ \A g \in Turns : TurnInv(g)
      BY <2>1 DEF StreamInv, IInv, TurnInv
    <3>2. StreamTypes'
      BY <2>1, <3>1, MovesKeepTypes, OthersKeepTypes
    <3>3. \A g \in Turns : TurnInv(g)'
      BY <2>1, <3>1, TurnStep
    <3> QED BY <3>2, <3>3 DEF StreamInv, TurnInv
  <2> QED BY <2>1, StreamStutters
<1> QED BY <1>1, <1>2, InductiveInvariant, PTL DEF Spec

\* However the frames of a turn, its end, its reader, its requests and a stop come
\* together: nothing follows the end of a stream, one that nobody stopped has an
\* end, and a turn is completed with every request answered; its children are
\* framed; and its text is told once (protocol.rs, run_turn, TurnState).
THEOREM TurnsAreFaithful == Spec => []TurnIsFaithful
<1>1. ASSUME IInv, StreamInv
      PROVE  TypeOK
  <2>1. \A g \in Turns : worker[g] = "send" <=> out[g] # <<>> /\ worker[g] # "announce"
    BY <1>1 DEF StreamInv, OutFits
  <2> QED BY <1>1, <2>1 DEF IInv, Types, CallTypes, WorkerTypes, RequestTypes, StreamInv,
         StreamTypes, TypeOK
<1>2. ASSUME IInv, StreamInv
      PROVE  EndIsExplained
  <2>1. ASSUME NEW g \in Turns
        PROVE  /\ \A i \in DOMAIN log[g] : log[g][i] \in Ends => i = Len(log[g])
               /\ worker[g] \in {"close", "done"} /\ reader[g] = "reading" /\ ~stop[g] =>
                    Last(log[g]) \in Ends
               /\ log[g] # <<>> /\ Last(log[g]) = RootEvent("completed") =>
                    \A q \in Requests : control[g][q] # "pending"
    <3>1. reader[g] = "reading" => Receiver(g)
      BY <1>2 DEF IInv, CallsInOrder, Receiver
    <3> QED BY <1>2, <3>1 DEF StreamInv, EndInv
  <2> QED BY <2>1 DEF EndIsExplained
<1>3. ASSUME IInv, StreamInv
      PROVE  ChildrenAreFramed
  BY <1>3 DEF StreamInv, FramesInv, ChildrenAreFramed
<1>4. ASSUME IInv, StreamInv
      PROVE  TextOnce
  BY <1>4 DEF StreamInv, FramesInv, TextTold, TextOnce
<1>5. IInv => ControlsSettle
  BY DEF IInv, AnswersInv, OneWriter, ControlsSettle
<1>6. IInv /\ StreamInv => TurnIsFaithful
  BY <1>1, <1>2, <1>3, <1>4, <1>5 DEF TurnIsFaithful
<1> QED BY <1>6, InductiveInvariant, StreamInvariant, PTL
=============================================================================
