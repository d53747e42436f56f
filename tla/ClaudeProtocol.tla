--------------------------- MODULE ClaudeProtocol ---------------------------
(* What the Claude adapter makes of the frames of one turn                  *)
(* (claude/protocol.rs): blocks of text, streamed and whole; tools, with     *)
(* their operations; tasks, the child agents that Agent tools start.  An     *)
(* operator takes the state to [p, events, ok]; a frame that is not ok fails *)
(* the turn.  One streamed message stands for all: their ids differ.         *)
EXTENDS Integers, Sequences, FiniteSets, SequencesExt

CONSTANTS
  MaxTasks,   \* tasks, numbered in the order of their ids
  Above,      \* the task whose Agent tool holds the Agent tool of a task, or 0
  MaxBlocks   \* content blocks of the message

Tasks == 1 .. MaxTasks
ASSUME ProtocolAssumption ==
  /\ MaxBlocks \in Nat
  /\ MaxTasks \in Nat
  /\ Above \in [Tasks -> {0} \cup Tasks]

\* Every task has its Agent tool, and one other tool of its own.
Tools == [kind : {"agent", "other"}, of : Tasks]
AgentOf(k) == [kind |-> "agent", of |-> k]
Holder(tool) == IF tool.kind = "agent" THEN Above[tool.of] ELSE tool.of

Ended == {"completed", "interrupted"}
Blocks == 1 .. MaxBlocks
\* The ids texts are kept under: the native index, or the frame it came in.
Ids == [by : {"block", "frame"}, at : Blocks]

\* of a message that is not streamed, and between its blocks
Absent == -1
Unmapped == 0

Protocol == [tools   : {s \in Seq(Tools) : \A i, j \in DOMAIN s : s[i] = s[j] => i = j},
             dirty   : SUBSET Tools,
             named   : SUBSET Tools,                 \* identified
             status  : [Tasks -> {"none", "running"} \cup Ended],
             emitted : [Tasks -> {"none", "running"} \cup Ended],
             update  : [Tasks -> {"none"} \cup Ended],
             success : BOOLEAN,                      \* root_success
             stream  : BOOLEAN,                      \* stream_message
             mapped  : {Absent, Unmapped} \cup Blocks,
             frames  : [Blocks -> {Absent, Unmapped} \cup Blocks],
             texts   : [Ids -> Nat]]

\* Protocol::new
Empty == [tools |-> <<>>, dirty |-> {}, named |-> {},
          status |-> [k \in Tasks |-> "none"], emitted |-> [k \in Tasks |-> "none"],
          update |-> [k \in Tasks |-> "none"], success |-> FALSE, stream |-> FALSE,
          mapped |-> Absent, frames |-> [b \in Blocks |-> Absent], texts |-> [i \in Ids |-> 0]]

Then(p, events) == [p |-> p, events |-> events, ok |-> TRUE]
Refuse(p) == [p |-> p, events |-> <<>>, ok |-> FALSE]

ChildEvent(k, status) == [type |-> status, of |-> k, length |-> 0]
OperationEvent(tool) == [type |-> "operation", of |-> Holder(tool), length |-> 0]
TextEvent(b, n) == [type |-> "text", of |-> b, length |-> n]
RootEvent(type) == [type |-> type, of |-> 0, length |-> 0]

-----------------------------------------------------------------------------
(* Text.                                                                    *)

\* text_frame and the id of the text: a frame that is seen again keeps its
\* block, a streamed message lends the block it is in.
TextId(p, b, f) ==
  LET native == IF p.frames[f] # Absent THEN p.frames[f]
                ELSE IF p.mapped = Absent THEN Unmapped ELSE p.mapped
  IN IF native = Unmapped THEN [by |-> "frame", at |-> f] ELSE [by |-> "block", at |-> native]

\* text: what goes beyond the text already seen
Suffix(p, id, b, n) ==
  IF n < p.texts[id] THEN Refuse(p)
  ELSE Then([p EXCEPT !.texts[id] = n],
            IF n > p.texts[id] THEN <<TextEvent(b, n - p.texts[id])>> ELSE <<>>)

\* an assistant frame: the whole text, n, of block b, in frame f
Assistant(p, b, f, n) ==
  IF p.frames[f] = Absent /\ p.mapped = Unmapped THEN Refuse(p)
  ELSE LET id == TextId(p, b, f) IN
       Suffix([p EXCEPT !.frames[f] = IF id.by = "frame" THEN Unmapped ELSE id.at], id, b, n)

\* stream
MessageStart(p) == Then([p EXCEPT !.mapped = Unmapped, !.stream = TRUE], <<>>)
BlockStart(p, b, text) ==
  IF ~p.stream THEN Refuse(p)
  ELSE Then([p EXCEPT !.mapped = IF text THEN b ELSE Unmapped], <<>>)
Delta(p, b) ==
  IF ~p.stream THEN Refuse(p)
  ELSE LET id == [by |-> "block", at |-> b] IN
       Then([p EXCEPT !.texts[id] = @ + 1], <<TextEvent(b, 1)>>)
BlockStop(p) == Then(IF p.stream THEN [p EXCEPT !.mapped = Unmapped] ELSE p, <<>>)

-----------------------------------------------------------------------------
(* Tools and tasks.                                                         *)

Known(p, tool) == tool \in ToSet(p.tools)

\* the task that owns what a tool does is registered
Registered(p, tool) == Holder(tool) = 0 \/ p.emitted[Holder(tool)] # "none"

\* the operations of some tools, in the order the tools were seen
OperationsOf(tools, due) ==
  LET Seen[n \in 0 .. Len(tools)] ==
        IF n = 0 THEN <<>>
        ELSE IF tools[n] \in due THEN Append(Seen[n - 1], OperationEvent(tools[n]))
        ELSE Seen[n - 1]
  IN Seen[Len(tools)]

\* emit_operations
Operations(r) ==
  LET due == {tool \in r.p.dirty : Registered(r.p, tool)}
  IN [r EXCEPT !.events = @ \o OperationsOf(r.p.tools, due), !.p.dirty = @ \ due]

\* tool
ToolUse(p, tool) ==
  IF Known(p, tool)
  THEN Then([p EXCEPT !.named = @ \cup {tool}, !.dirty = @ \cup {tool}], <<>>)
  ELSE Then([p EXCEPT !.tools = Append(@, tool), !.named = @ \cup {tool},
                      !.dirty = @ \cup {tool}], <<>>)

\* a tool_result: a tool nobody named yet is kept without its name
ToolResult(p, tool) ==
  Then([p EXCEPT !.tools = IF Known(p, tool) THEN @ ELSE Append(@, tool),
                 !.dirty = @ \cup {tool}], <<>>)

\* task_update: evidence only, the notification ends the task
TaskUpdate(p, k, status) ==
  IF \/ p.status[k] = "none"
     \/ p.update[k] \notin {"none", status}
     \/ p.status[k] \in Ended /\ p.status[k] # status
  THEN Refuse(p)
  ELSE Then([p EXCEPT !.update[k] = status], <<>>)

\* lifecycle: task_started and task_notification
Lifecycle(p, k, status) ==
  IF /\ status \in Ended
     /\ \/ p.update[k] \notin {"none", status}
        \/ p.status[k] \in Ended /\ p.status[k] # status
  THEN Refuse(p)
  ELSE Then([p EXCEPT !.status[k] = IF @ \in Ended THEN @ ELSE status], <<>>)

(* Mutant: the operations of a child that is just registered wait for the    *)
(* end of the frame.                                                         *)
RegisteredLate(r, k) == r

\* what waited for the registration of its owner goes before its end
Released(r, k) == Operations(r)

\* the body of materialize for one task
Materialize(r, k) ==
  LET p == r.p
      registered == IF p.emitted[k] # "none" THEN r
                    ELSE [r EXCEPT !.events = Append(@, ChildEvent(k, "running")),
                                   !.p.emitted[k] = "running"]
      released == Released(registered, k)
  IN IF ~r.ok \/ p.emitted[k] = p.status[k] \/ ~Known(p, AgentOf(k)) THEN r
     ELSE IF AgentOf(k) \notin p.named THEN Refuse(p)
     ELSE IF ~Registered(p, AgentOf(k)) THEN r
     ELSE IF p.status[k] = "running" THEN released
     ELSE [released EXCEPT !.events = Append(@, ChildEvent(k, p.status[k])),
                           !.p.emitted[k] = p.status[k]]

\* materialize: passes in the order of the ids until nothing changes
Materialized(r) ==
  LET Visit[n \in 0 .. MaxTasks * MaxTasks] ==
        IF n = 0 THEN r ELSE Materialize(Visit[n - 1], 1 + ((n - 1) % MaxTasks))
  IN Visit[MaxTasks * MaxTasks]

\* the turn is over once every task it knows is, and was reported
TurnIsOver(p) ==
  p.success /\ \A k \in Tasks : p.status[k] = p.emitted[k] /\ p.status[k] # "running"

\* the tail of normalize
Settled(r) ==
  LET done == Operations(Materialized(Operations(r))) IN
  IF done.ok /\ TurnIsOver(done.p)
  THEN [done EXCEPT !.events = Append(@, RootEvent("completed"))] ELSE done

\* a result frame
Success(p) == Then([p EXCEPT !.success = TRUE], <<>>)

\* what a frame about a tool or a task leads to
TaskFrames == [type : {"use", "result"}, tool : Tools]
              \cup [type : {"start"}, task : Tasks, status : {"running"}]
              \cup [type : {"notify", "update"}, task : Tasks, status : Ended]

Framed(p, f) ==
  CASE f.type = "use"    -> ToolUse(p, f.tool)
    [] f.type = "result" -> ToolResult(p, f.tool)
    [] f.type = "update" -> TaskUpdate(p, f.task, f.status)
    [] OTHER             -> Lifecycle(p, f.task, f.status)
=============================================================================
