-------------------------- MODULE Workspace_proofs --------------------------
(***************************************************************************)
(* Proofs about Workspace for any number of conversations and any number   *)
(* of attempts, removals, writes, swaps, faults and crashes: no removal or *)
(* rollback destroys what exists nowhere else, and what the application    *)
(* made is accounted for.                                                  *)
(***************************************************************************)
EXTENDS Workspace, FiniteSetTheorems, TLAPS

-----------------------------------------------------------------------------
(* The inductive invariant, conversation by conversation.                  *)

Removing == {"inventory", "quarantine", "check", "restore", "delete", "metadata"}
Positions == {"resolve", "record", "add", "deliver", "offer", "branch",
              "deleteBranch", "verifyNone"} \cup Removing

Callers == {"idle", "waiting", "resolving", "awaiting", "offered", "stored", "done",
            "rejected", "failed", "dropped"}

Jobs == [kind : {"none", "prepare", "remove"}, c : Conversations \cup {NoOne},
         pc : Positions \cup {"none"}, foreign : BOOLEAN]

Allowances == {"attempts", "removals", "writes", "swaps", "faults", "crashes"}

TypeInv ==
  /\ kind \in [Conversations -> {"isolated", "projectless"}]
  /\ disk \in [Conversations -> Places]
  /\ job \in Jobs
  /\ job = Idle \/ /\ job.kind # "none" /\ job.c \in Conversations
                   /\ job.pc # "none"
  /\ caller \in [Conversations -> Callers]
  /\ persisted \subseteq Conversations
  /\ procs \in [Conversations -> Nat]
  /\ left \in [Allowances -> Nat]
  /\ touched \subseteq Conversations

\* What the task does for a conversation, and where it is with it
Doing(c) == IF job.c = c THEN job.kind ELSE "none"
At(c)    == IF job.c = c THEN job.pc ELSE "none"

\* Where the future that creates a conversation is while the task prepares for it
CreatorAt(pc) ==
  CASE pc = "resolve" -> {"resolving"}
    [] pc \in {"record", "add", "deliver"} -> {"awaiting", "dropped"}
    [] pc = "offer" -> {"offered", "stored", "dropped", "rejected"}
    [] OTHER -> {"awaiting", "dropped", "rejected"}

\* Who waits for whom: the future that creates a conversation against the task
\* and the store.  No process is registered while its workspace is prepared.
CallerInv(c) ==
  /\ caller[c] \in {"stored", "done"} => c \in persisted
  /\ caller[c] \in {"waiting", "resolving", "awaiting", "offered", "rejected",
                    "failed"} => c \notin persisted
  /\ procs[c] > 0 => c \in persisted
  /\ kind[c] = "projectless" => /\ Doing(c) = "none"
                                /\ caller[c] \notin {"resolving", "awaiting", "rejected"}
  /\ kind[c] = "isolated" /\ Doing(c) = "none" =>
       caller[c] \notin {"resolving", "awaiting", "offered", "stored", "rejected"}
  /\ Doing(c) = "remove" => /\ c \in persisted /\ At(c) \in Removing
                            /\ caller[c] \in {"idle", "done", "dropped"}
  /\ Doing(c) = "prepare" => caller[c] \in CreatorAt(At(c)) /\ procs[c] = 0

Single(place) == \A t, u \in place : t = u

Mine(k) == HasOurs(k.dir) \/ HasOurs(k.quarantine) \/ HasOurs(k.aside)

\* Whatever others do to the disk: one tree is the application's own, Git lists
\* it while it exists, the marker outlives the entry.
Sound(what, k) ==
  /\ Single(k.dir) /\ Single(k.quarantine) /\ Single(k.aside)
  /\ ~(HasOurs(k.dir) /\ HasOurs(k.quarantine))
  /\ ~(HasOurs(k.dir) /\ HasOurs(k.aside))
  /\ ~(HasOurs(k.quarantine) /\ HasOurs(k.aside))
  /\ what = "projectless" => k.quarantine = {} /\ k.aside = {}
  /\ what = "isolated" => (Mine(k) => k.listed) /\ (k.listed => k.base)

\* What the task has made sure of; what it is about to delete is empty of work
\* and of processes.
Ensured(pc, k, processes) ==
  /\ pc = "add" => k.base
  /\ pc \in {"branch", "deleteBranch", "verifyNone"} => ~k.listed
  /\ pc = "metadata" => ~Mine(k)
  /\ pc = "delete" =>
       /\ processes = 0
       /\ HasOurs(k.quarantine) => \A t \in k.quarantine : t.work = {}

DiskInv(c) == Sound(kind[c], disk[c]) /\ Ensured(At(c), disk[c], procs[c])

\* The disk of a conversation that nobody touched, by where the task is with it
Row(base, branch, listed, dir, quarantine) ==
  [base |-> base, branch |-> branch, listed |-> listed, dir |-> dir,
   quarantine |-> quarantine, aside |-> {}]

Marked  == Row(TRUE, "none", FALSE, {}, {})
Whole   == Row(TRUE, "base", TRUE, Tree(TRUE, {}), {})
Moved   == Row(TRUE, "base", TRUE, {}, Tree(TRUE, {}))
Bare    == Row(TRUE, "base", TRUE, {}, {})
Kept    == Row(TRUE, "base", FALSE, {}, {})
Scratch == Row(FALSE, "none", FALSE, Tree(TRUE, {}), {})

Prepared(pc) ==
  CASE pc \in {"resolve", "record"}   -> {Nothing}
    [] pc \in {"add", "verifyNone"}   -> {Marked}
    [] pc \in {"deliver", "offer", "quarantine"} -> {Whole}
    [] pc = "inventory"               -> {Marked, Whole}
    [] pc \in {"check", "delete"}     -> {Moved}
    [] pc = "metadata"                -> {Bare}
    [] pc = "branch"                  -> {Marked, Kept}
    [] pc = "deleteBranch"            -> {Kept}
    [] OTHER                          -> {}

BeingRemoved(pc) ==
  CASE pc = "inventory"  -> {Whole, Kept}
    [] pc = "quarantine" -> {Whole}
    [] pc = "metadata"   -> {Bare}
    [] OTHER             -> {Moved}

\* In the store, and not abandoned
Keeps(c) == c \in persisted /\ ~Abandoned(c)

OutcomeInv(c) ==
  c \notin touched =>
    CASE kind[c] = "projectless" ->
           disk[c] = IF Keeps(c) \/ caller[c] = "offered" THEN Scratch ELSE Nothing
      [] kind[c] = "isolated" /\ Doing(c) = "none" ->
           IF Keeps(c) THEN disk[c] \in {Whole, Kept} ELSE disk[c] = Nothing
      [] kind[c] = "isolated" /\ Doing(c) = "prepare" -> disk[c] \in Prepared(At(c))
      [] kind[c] = "isolated" /\ Doing(c) = "remove"  ->
           IF Keeps(c) THEN disk[c] \in BeingRemoved(At(c))
                       ELSE At(c) = "inventory" /\ disk[c] = Nothing

ConversationInv(c) == CallerInv(c) /\ DiskInv(c) /\ OutcomeInv(c)

IInv == /\ TypeInv
        /\ \A c \in Conversations : ConversationInv(c)
        /\ destroyed \subseteq {"scratch"}

-----------------------------------------------------------------------------
(* What a step leaves alone.                                               *)

\* A step changes what belongs to one conversation, and the task works for
\* that one or for the same one as before.
Only(c) ==
  /\ kind' = kind
  /\ touched \subseteq touched'
  /\ \A d \in Conversations \ {c} :
       /\ disk'[d] = disk[d] /\ caller'[d] = caller[d] /\ procs'[d] = procs[d]
       /\ d \in persisted' <=> d \in persisted
  /\ \/ job' = job
     \/ (job = Idle \/ job.c = c) /\ (job' = Idle \/ job'.c = c)

\* The others keep their invariant.
LEMMA OthersKept ==
  ASSUME IInv, NEW c \in Conversations, Only(c)
  PROVE  \A d \in Conversations \ {c} : ConversationInv(d)'
  <1>. TAKE d \in Conversations \ {c}
  <1>1. Doing(d)' = Doing(d) /\ At(d)' = At(d)
    BY DEF Only, Doing, At, Idle
  <1>2. CallerInv(d)'
    BY <1>1 DEF Only, IInv, ConversationInv, CallerInv
  <1>3. DiskInv(d)'
    BY <1>1 DEF Only, IInv, ConversationInv, DiskInv
  <1>4. OutcomeInv(d)'
    BY <1>1 DEF Only, IInv, ConversationInv, OutcomeInv, Keeps, Abandoned
  <1>. QED  BY <1>2, <1>3, <1>4 DEF ConversationInv

\* So a step is judged by the conversation it is about.
LEMMA StepKeeps ==
  ASSUME IInv, NEW c \in Conversations, Only(c), TypeInv',
         CallerInv(c)', DiskInv(c)', OutcomeInv(c)', destroyed' \subseteq {"scratch"}
  PROVE  IInv'
  BY OthersKept DEF IInv, ConversationInv

\* The task that has the gate, and its conversation
LEMMA TaskHas ==
  ASSUME IInv, job.pc # "none", NEW c, c = job.c
  PROVE  /\ c \in Conversations /\ disk[c] \in Places
         /\ job.kind \in {"prepare", "remove"} /\ kind[c] = "isolated"
         /\ Doing(c) = job.kind /\ At(c) = job.pc
         /\ ConversationInv(c)
         /\ destroyed \subseteq {"scratch"} /\ TypeInv
  <1>1. c \in Conversations /\ job.kind \in {"prepare", "remove"}
    BY DEF IInv, TypeInv, Jobs, Idle
  <1>2. Doing(c) = job.kind /\ At(c) = job.pc
    BY DEF Doing, At
  <1>3. ConversationInv(c) /\ destroyed \subseteq {"scratch"} /\ TypeInv
    BY <1>1 DEF IInv
  <1>4. kind[c] = "isolated" /\ disk[c] \in Places
    BY <1>1, <1>2, <1>3 DEF ConversationInv, CallerInv, TypeInv
  <1>. QED  BY <1>1, <1>2, <1>3, <1>4

\* Faults and the rest are counted.
LEMMA Counted ==
  ASSUME TypeInv, NEW what \in Allowances, Spends(what) \/ UNCHANGED left
  PROVE  left' \in [Allowances -> Nat]
  BY DEF TypeInv, Spends

\* A step of the task that goes on with its conversation ...
LEMMA TaskGoes ==
  ASSUME IInv, job.pc # "none", NEW c, c = job.c, NEW pc \in Positions,
         job' \in Jobs, job'.kind = job.kind, job'.c = c, job'.pc = pc,
         UNCHANGED <<kind, persisted, procs>>, destroyed' \subseteq {"scratch"},
         Spends("faults") \/ UNCHANGED left,
         touched' \in {touched, touched \cup {c}},
         caller' \in [Conversations -> Callers], disk' \in [Conversations -> Places],
         \A d \in Conversations \ {c} : caller'[d] = caller[d] /\ disk'[d] = disk[d],
         \/ caller'[c] = caller[c]
         \/ /\ job.kind = "prepare" /\ caller[c] \in {"resolving", "awaiting"}
            /\ caller'[c] \in {"awaiting", "offered"},
         Sound("isolated", disk'[c]), Ensured(pc, disk'[c], procs[c]),
         job.kind = "prepare" => /\ caller'[c] \in CreatorAt(pc)
                                 /\ c \notin touched' => disk'[c] \in Prepared(pc),
         job.kind = "remove" => /\ pc \in Removing
                                /\ c \notin touched' => /\ Keeps(c)
                                                       /\ disk'[c] \in BeingRemoved(pc)
  PROVE  IInv'
  <1>0. /\ c \in Conversations /\ kind[c] = "isolated" /\ job.kind \in {"prepare", "remove"}
        /\ Doing(c) = job.kind /\ ConversationInv(c) /\ TypeInv
    BY TaskHas
  <1>1. TypeInv'
    <2>1. left' \in [Allowances -> Nat]
      BY <1>0, Counted DEF Allowances
    <2>2. pc # "none"
      BY DEF Positions, Removing
    <2>. QED  BY <1>0, <2>1, <2>2 DEF TypeInv
  <1>2. Only(c)
    BY DEF Only
  <1>3. Doing(c)' = job.kind /\ At(c)' = pc
    BY DEF Doing, At
  <1>4. CallerInv(c)'
    BY <1>0, <1>3 DEF ConversationInv, CallerInv
  <1>5. DiskInv(c)'
    BY <1>0, <1>3 DEF DiskInv
  <1>6. OutcomeInv(c)'
    BY <1>0, <1>3 DEF OutcomeInv, Keeps, Abandoned
  <1>. QED  BY <1>0, <1>1, <1>2, <1>4, <1>5, <1>6, StepKeeps

\* ... or is done with it.
LEMMA TaskEnds ==
  ASSUME IInv, job.pc # "none", NEW c, c = job.c, Ends,
         UNCHANGED <<kind, persisted, procs, destroyed>>,
         Spends("faults") \/ UNCHANGED left,
         touched' \in {touched, touched \cup {c}},
         job.pc # "resolve", job.pc = "offer" => FALSE,
         disk' \in [Conversations -> Places],
         \A d \in Conversations \ {c} : disk'[d] = disk[d],
         Sound("isolated", disk'[c]),
         c \notin touched' =>
           IF Keeps(c) THEN disk'[c] \in {Whole, Kept} ELSE disk'[c] = Nothing
  PROVE  IInv'
  <1>0. /\ c \in Conversations /\ kind[c] = "isolated" /\ job.kind \in {"prepare", "remove"}
        /\ Doing(c) = job.kind /\ At(c) = job.pc /\ ConversationInv(c) /\ TypeInv
        /\ destroyed \subseteq {"scratch"}
    BY TaskHas
  <1>1. /\ caller' \in [Conversations -> Callers]
        /\ caller'[c] = IF caller[c] \in {"awaiting", "rejected"} THEN "failed" ELSE caller[c]
        /\ \A d \in Conversations \ {c} : caller'[d] = caller[d]
    BY <1>0 DEF Ends, TypeInv, Callers
  <1>2. TypeInv'
    <2>1. left' \in [Allowances -> Nat]
      BY <1>0, Counted DEF Allowances
    <2>. QED  BY <1>0, <1>1, <2>1 DEF TypeInv, Ends, Jobs, Idle
  <1>3. Only(c)
    BY <1>1 DEF Only, Ends
  <1>4. Doing(c)' = "none" /\ At(c)' = "none"
    BY DEF Doing, At, Ends, Idle
  <1>5. CallerInv(c)'
    BY <1>0, <1>1, <1>4 DEF ConversationInv, CallerInv, CreatorAt
  <1>6. DiskInv(c)'
    BY <1>0, <1>4 DEF DiskInv, Ensured
  <1>7. OutcomeInv(c)'
    <2>1. Keeps(c)' <=> Keeps(c)
      BY <1>1 DEF Keeps, Abandoned
    <2>. QED  BY <1>0, <1>4, <2>1 DEF OutcomeInv
  <1>. QED  BY <1>0, <1>2, <1>3, <1>5, <1>6, <1>7, StepKeeps

\* What Goes says of the task
LEMMA GoesOn ==
  ASSUME IInv, job.pc # "none", NEW c, c = job.c, NEW pc \in Positions, Goes(pc)
  PROVE  job' \in Jobs /\ job'.kind = job.kind /\ job'.c = c /\ job'.pc = pc
  BY DEF Goes, IInv, TypeInv, Jobs

\* Nothing on disk changes: what was sound stays so.
LEMMA DiskStays ==
  ASSUME IInv, NEW c \in Conversations, UNCHANGED disk
  PROVE  /\ disk' \in [Conversations -> Places]
         /\ \A d \in Conversations : disk'[d] = disk[d]
         /\ Sound(kind[c], disk'[c])
  BY DEF IInv, TypeInv, ConversationInv, DiskInv

\* The tables, place by place
LEMMA Creators ==
  /\ \A pc \in {"record", "add", "deliver"} : CreatorAt(pc) = {"awaiting", "dropped"}
  /\ CreatorAt("resolve") = {"resolving"}
  /\ CreatorAt("offer") = {"offered", "stored", "dropped", "rejected"}
  /\ \A pc \in Removing \cup {"branch", "deleteBranch", "verifyNone"} :
       CreatorAt(pc) = {"awaiting", "dropped", "rejected"}
  BY DEF CreatorAt, Removing

\* ... and what is on the disk at each
LEMMA Disks ==
  /\ Prepared("resolve") = {Nothing} /\ Prepared("record") = {Nothing}
  /\ Prepared("add") = {Marked} /\ Prepared("verifyNone") = {Marked}
  /\ Prepared("deliver") = {Whole} /\ Prepared("offer") = {Whole}
  /\ Prepared("quarantine") = {Whole} /\ Prepared("inventory") = {Marked, Whole}
  /\ Prepared("check") = {Moved} /\ Prepared("delete") = {Moved}
  /\ Prepared("restore") = {} /\ Prepared("metadata") = {Bare}
  /\ Prepared("branch") = {Marked, Kept} /\ Prepared("deleteBranch") = {Kept}
  /\ BeingRemoved("inventory") = {Whole, Kept} /\ BeingRemoved("quarantine") = {Whole}
  /\ BeingRemoved("check") = {Moved} /\ BeingRemoved("delete") = {Moved}
  /\ BeingRemoved("restore") = {Moved} /\ BeingRemoved("metadata") = {Bare}
  BY DEF Prepared, BeingRemoved

-----------------------------------------------------------------------------
(* The task prepares a worktree.                                           *)

\* The marker and the inventory are read and change nothing.
LEMMA ResolveKeeps ==
  ASSUME IInv, Resolve
  PROVE  IInv'
  <1>. SUFFICES ASSUME NEW c, c = job.c PROVE IInv'
    OBVIOUS
  <1>0. /\ c \in Conversations /\ disk[c] \in Places /\ kind[c] = "isolated"
        /\ job.kind = "prepare" /\ Doing(c) = "prepare" /\ At(c) = "resolve"
        /\ ConversationInv(c) /\ destroyed \subseteq {"scratch"} /\ TypeInv /\ job.pc = "resolve"
        /\ caller[c] = "resolving"
    BY TaskHas DEF Resolve, ConversationInv, CallerInv, Removing, CreatorAt
  <1>1. \/ Goes("record") /\ Becomes("awaiting") /\ ~disk[c].base
        \/ Goes("offer") /\ Becomes("offered") /\ Owned(c)
        \/ Goes("add") /\ Becomes("awaiting") /\ Stranded(c)
        \/ job' = Idle /\ Becomes("failed") /\ (disk[c].base \/ c \in touched')
    BY DEF Resolve, Fault, Touches
  <1>2. /\ UNCHANGED <<kind, disk, persisted, procs, destroyed>>
        /\ touched' \in {touched, touched \cup {c}}
        /\ Spends("faults") \/ UNCHANGED left
    BY DEF Resolve, Fault, Touches
  <1>3. c \notin touched => disk[c] = Nothing
    BY <1>0 DEF ConversationInv, OutcomeInv, Prepared
  <1>4. /\ disk' \in [Conversations -> Places]
        /\ \A d \in Conversations : disk'[d] = disk[d]
        /\ Sound("isolated", disk'[c])
    BY <1>0, <1>2, DiskStays
  <1>5. CASE job' = Idle /\ Becomes("failed")
    <2>1. c \in touched'
      BY <1>0, <1>1, <1>2, <1>3, <1>5 DEF Nothing, Goes, Idle
    <2>2. /\ caller' \in [Conversations -> Callers] /\ caller'[c] = "failed"
          /\ \A d \in Conversations \ {c} : caller'[d] = caller[d]
      BY <1>0, <1>5 DEF Becomes, TypeInv, Callers
    <2>3. Doing(c)' = "none" /\ At(c)' = "none"
      BY <1>5 DEF Doing, At, Idle
    <2>4. TypeInv'
      <3>1. left' \in [Allowances -> Nat]
        BY <1>0, <1>2, Counted DEF Allowances
      <3>. QED  BY <1>0, <1>2, <1>4, <1>5, <2>2, <3>1 DEF TypeInv, Jobs, Idle
    <2>5. Only(c)
      BY <1>2, <1>5, <2>2 DEF Only
    <2>6. CallerInv(c)' /\ DiskInv(c)' /\ OutcomeInv(c)'
      BY <1>0, <1>2, <1>4, <2>1, <2>2, <2>3
         DEF ConversationInv, CallerInv, DiskInv, Ensured, OutcomeInv
    <2>. QED  BY <1>0, <1>2, <2>4, <2>5, <2>6, StepKeeps
  <1>6. ASSUME NEW pc \in {"record", "offer", "add"}, Goes(pc),
               Becomes(IF pc = "offer" THEN "offered" ELSE "awaiting"),
               disk[c] = Nothing => pc = "record", pc = "add" => disk[c].base
        PROVE  IInv'
    <2>1. /\ caller' \in [Conversations -> Callers]
          /\ caller'[c] = IF pc = "offer" THEN "offered" ELSE "awaiting"
          /\ \A d \in Conversations \ {c} : caller'[d] = caller[d]
      BY <1>0, <1>6 DEF Becomes, TypeInv, Callers
    <2>2. caller'[c] \in CreatorAt(pc) /\ Ensured(pc, disk'[c], procs[c])
      BY <1>0, <1>4, <1>6, <2>1, Creators DEF Ensured
    <2>3. pc \in Positions /\ (disk[c] = Nothing => disk[c] \in Prepared(pc))
      BY <1>6, Disks DEF Positions
    <2>4. job' \in Jobs /\ job'.kind = job.kind /\ job'.c = c /\ job'.pc = pc
      BY <1>0, <1>6, <2>3, GoesOn
    <2>. QED  BY <1>0, <1>2, <1>3, <1>4, <2>1, <2>2, <2>3, <2>4, TaskGoes
  <1>7. Owned(c) => disk[c] # Nothing
    BY DEF Owned, Registered, Nothing
  <1>8. Stranded(c) => disk[c] # Nothing /\ disk[c].base
    <2>1. Stranded(c) => disk[c].base
      BY DEF Stranded, Nothing
    <2>. QED  BY <2>1 DEF Nothing
  <1>. QED  BY <1>1, <1>5, <1>6, <1>7, <1>8

\* The marker comes before the worktree.
LEMMA RecordBaseKeeps ==
  ASSUME IInv, RecordBase
  PROVE  IInv'
  <1>. SUFFICES ASSUME NEW c, c = job.c PROVE IInv'
    OBVIOUS
  <1>0. /\ c \in Conversations /\ disk[c] \in Places /\ kind[c] = "isolated"
        /\ job.kind = "prepare" /\ Doing(c) = "prepare" /\ At(c) = "record"
        /\ ConversationInv(c) /\ destroyed \subseteq {"scratch"} /\ TypeInv /\ job.pc = "record"
        /\ caller[c] \in {"awaiting", "dropped"}
    BY TaskHas DEF RecordBase, ConversationInv, CallerInv, Removing, CreatorAt
  <1>1. CASE Fault /\ Ends /\ UNCHANGED disk
    <2>1. c \in touched' /\ touched' \in {touched, touched \cup {c}} /\ Spends("faults")
      BY <1>1 DEF Fault, Touches
    <2>2. /\ disk' \in [Conversations -> Places]
          /\ \A d \in Conversations : disk'[d] = disk[d]
          /\ Sound("isolated", disk'[c])
      BY <1>0, <1>1, DiskStays
    <2>3. UNCHANGED <<kind, persisted, procs, destroyed>>
      BY DEF RecordBase
    <2>. QED  BY <1>0, <1>1, <2>1, <2>2, <2>3, TaskEnds
  <1>2. CASE /\ disk' = [disk EXCEPT ![job.c].base = TRUE] /\ Goes("add")
             /\ UNCHANGED <<caller, left, touched>>
    <2>1. /\ disk' \in [Conversations -> Places]
          /\ \A d \in Conversations \ {c} : disk'[d] = disk[d]
          /\ disk'[c] = [disk[c] EXCEPT !.base = TRUE]
      BY <1>0, <1>2 DEF TypeInv, Places
    <2>2. Sound("isolated", disk'[c]) /\ disk'[c].base
      BY <1>0, <2>1 DEF ConversationInv, DiskInv, Sound, Mine, Places
    <2>3. c \notin touched => disk'[c] \in Prepared("add")
      <3>1. c \notin touched => disk[c] = Nothing
        BY <1>0, Disks DEF ConversationInv, OutcomeInv
      <3>. QED  BY <2>1, <3>1, Disks DEF Nothing, Marked, Row
    <2>4. job' \in Jobs /\ job'.kind = job.kind /\ job'.c = c /\ job'.pc = "add"
      BY <1>0, <1>2, GoesOn DEF Positions
    <2>5. /\ caller[c] \in CreatorAt("add") /\ Ensured("add", disk'[c], procs[c])
          /\ "add" \in Positions
      BY <1>0, <2>2 DEF CreatorAt, Ensured, Positions
    <2>6. UNCHANGED <<kind, persisted, procs, destroyed>> /\ caller' = caller
      BY <1>2 DEF RecordBase
    <2>7. caller' \in [Conversations -> Callers]
      BY <1>0, <2>6 DEF TypeInv
    <2>. QED  BY <1>0, <1>2, <2>1, <2>2, <2>3, <2>4, <2>5, <2>6, <2>7, TaskGoes
  <1>. QED  BY <1>1, <1>2 DEF RecordBase

\* Whatever Git did when a command failed, the worktree is added as a whole, half
\* of its checkout missing, or not at all.
LEMMA AddWorktreeKeeps ==
  ASSUME IInv, AddWorktree
  PROVE  IInv'
  <1>. SUFFICES ASSUME NEW c, c = job.c PROVE IInv'
    OBVIOUS
  <1>. DEFINE k == disk[c]
              free == k.branch = "none" /\ ~k.listed /\ k.dir = {}
              Made(work) == [disk EXCEPT ![c] = [@ EXCEPT !.branch = "base", !.listed = TRUE,
                                                          !.dir = Tree(TRUE, work)]]
  <1>0. /\ c \in Conversations /\ k \in Places /\ kind[c] = "isolated"
        /\ job.kind = "prepare" /\ Doing(c) = "prepare" /\ At(c) = "add"
        /\ ConversationInv(c) /\ destroyed \subseteq {"scratch"} /\ TypeInv /\ job.pc = "add"
        /\ caller[c] \in {"awaiting", "dropped"} /\ caller \in [Conversations -> Callers]
    BY TaskHas, Creators DEF AddWorktree, ConversationInv, CallerInv, Removing, TypeInv
  <1>1. k.base /\ Sound("isolated", k) /\ (c \notin touched => k = Marked)
    BY <1>0, Disks DEF ConversationInv, DiskInv, Ensured, OutcomeInv
  <1>2. /\ UNCHANGED <<kind, caller, persisted, procs, destroyed>>
        /\ touched' \in {touched, touched \cup {c}}
        /\ Spends("faults") \/ UNCHANGED left
    BY DEF AddWorktree, Touches
  <1>3. \/ UNCHANGED disk /\ Goes("inventory")
        \/ free /\ disk' = Made({}) /\ Goes("deliver")
        \/ free /\ disk' = Made({}) /\ Goes("inventory")
        \/ free /\ disk' = Made({"modified"}) /\ Goes("inventory") /\ c \in touched'
    BY DEF AddWorktree, Touches
  <1>4. ASSUME NEW pc \in {"deliver", "inventory"}, Goes(pc)
        PROVE  /\ job' \in Jobs /\ job'.kind = job.kind /\ job'.c = c /\ job'.pc = pc
               /\ pc \in Positions
               /\ caller'[c] \in CreatorAt(pc) /\ Ensured(pc, disk'[c], procs[c])
    <2>1. pc \in Positions
      BY DEF Positions, Removing
    <2>2. caller'[c] \in CreatorAt(pc) /\ Ensured(pc, disk'[c], procs[c])
      BY <1>0, <1>2, <1>4, Creators DEF Ensured, Removing
    <2>. QED  BY <1>0, <1>4, <2>1, <2>2, GoesOn
  <1>7. CASE UNCHANGED disk /\ Goes("inventory")
    <2>1. /\ disk' \in [Conversations -> Places]
          /\ \A d \in Conversations : disk'[d] = disk[d]
          /\ Sound("isolated", disk'[c])
      BY <1>0, <1>7, DiskStays
    <2>2. c \notin touched' => disk'[c] \in Prepared("inventory")
      BY <1>0, <1>1, <1>2, <1>7, <2>1, Disks
    <2>. QED  BY <1>0, <1>2, <1>4, <1>7, <2>1, <2>2, TaskGoes
  <1>8. ASSUME NEW work \in SUBSET Work, free, disk' = Made(work),
               NEW pc \in {"deliver", "inventory"}, Goes(pc), work # {} => c \in touched'
        PROVE  IInv'
    <2>1. Tree(TRUE, work) \in SUBSET [ours : BOOLEAN, work : SUBSET Work]
      BY DEF Tree
    <2>2. /\ disk' \in [Conversations -> Places]
          /\ \A d \in Conversations \ {c} : disk'[d] = disk[d]
          /\ disk'[c] = [k EXCEPT !.branch = "base", !.listed = TRUE, !.dir = Tree(TRUE, work)]
      BY <1>0, <1>8, <2>1 DEF TypeInv, Places
    <2>3. Sound("isolated", disk'[c])
      <3>1. ~Mine(k)
        BY <1>1, <1>8 DEF Sound
      <3>2. Single(Tree(TRUE, work)) /\ HasOurs(Tree(TRUE, work))
        BY DEF Single, HasOurs, Tree
      <3>3. /\ disk'[c].dir = Tree(TRUE, work) /\ disk'[c].listed /\ disk'[c].base
            /\ disk'[c].quarantine = k.quarantine /\ disk'[c].aside = k.aside
        BY <1>0, <1>1, <2>2 DEF Places
      <3>. QED  BY <1>1, <3>1, <3>2, <3>3 DEF Sound, Mine
    <2>4. c \notin touched' => disk'[c] \in Prepared(pc)
      <3>1. c \notin touched' => k = Marked /\ work = {}
        BY <1>1, <1>2, <1>8
      <3>2. ASSUME k = Marked, work = {}
            PROVE  /\ disk'[c].base = TRUE /\ disk'[c].branch = "base"
                   /\ disk'[c].listed = TRUE /\ disk'[c].dir = Tree(TRUE, {})
                   /\ disk'[c].quarantine = {} /\ disk'[c].aside = {}
        BY <1>0, <2>2, <3>2 DEF Marked, Row, Places
      <3>3. c \notin touched' => disk'[c] = Whole
        <4>1. SUFFICES ASSUME c \notin touched' PROVE disk'[c] = Whole
          OBVIOUS
        <4>2. k = Marked /\ work = {}
          BY <3>1, <4>1
        <4>3. Tree(TRUE, {}) \in SUBSET [ours : BOOLEAN, work : SUBSET Work]
          BY <2>1, <4>2
        <4>4. disk'[c] \in Places
          BY <1>0, <2>2
        <4>5. disk'[c] = Row(TRUE, "base", TRUE, Tree(TRUE, {}), {})
          BY <3>2, <4>2, <4>4 DEF Places, Row
        <4>. QED  BY <4>5 DEF Whole
      <3>. QED  BY <1>8, <3>3, Disks
    <2>. QED  BY <1>0, <1>2, <1>4, <1>8, <2>2, <2>3, <2>4, TaskGoes
  <1>9. {} \in SUBSET Work /\ {"modified"} \in SUBSET Work
    BY DEF Work
  <1>. QED  BY <1>3, <1>7, <1>8, <1>9

\* The task offers what it made, or rolls back because nobody waits.
LEMMA DeliverKeeps ==
  ASSUME IInv, Deliver
  PROVE  IInv'
  <1>. SUFFICES ASSUME NEW c, c = job.c PROVE IInv'
    OBVIOUS
  <1>0. /\ c \in Conversations /\ disk[c] \in Places /\ kind[c] = "isolated"
        /\ job.kind = "prepare" /\ Doing(c) = "prepare" /\ At(c) = "deliver"
        /\ ConversationInv(c) /\ destroyed \subseteq {"scratch"} /\ TypeInv /\ job.pc = "deliver"
        /\ caller[c] \in {"awaiting", "dropped"} /\ caller \in [Conversations -> Callers]
    BY TaskHas, Creators DEF Deliver, ConversationInv, CallerInv, Removing, TypeInv
  <1>1. UNCHANGED <<kind, disk, persisted, procs, left, touched, destroyed>>
    BY DEF Deliver
  <1>2. /\ disk' \in [Conversations -> Places]
        /\ \A d \in Conversations : disk'[d] = disk[d]
        /\ Sound("isolated", disk'[c])
    BY <1>0, <1>1, DiskStays
  <1>3. c \notin touched => disk[c] = Whole
    BY <1>0, Disks DEF ConversationInv, OutcomeInv
  <1>4. ASSUME NEW pc \in {"offer", "inventory"}, Goes(pc),
               \/ pc = "offer" /\ Becomes("offered") /\ caller[c] = "awaiting"
               \/ pc = "inventory" /\ UNCHANGED caller
        PROVE  IInv'
    <2>1. /\ caller' \in [Conversations -> Callers]
          /\ caller'[c] = IF pc = "offer" THEN "offered" ELSE caller[c]
          /\ \A d \in Conversations \ {c} : caller'[d] = caller[d]
      BY <1>0, <1>4 DEF Becomes, Callers
    <2>2. /\ job' \in Jobs /\ job'.kind = job.kind /\ job'.c = c /\ job'.pc = pc
          /\ pc \in Positions
      BY <1>0, <1>4, GoesOn DEF Positions, Removing
    <2>3. caller'[c] \in CreatorAt(pc) /\ Ensured(pc, disk'[c], procs[c])
      BY <1>0, <1>4, <2>1, Creators DEF Ensured, Removing
    <2>4. c \notin touched' => disk'[c] \in Prepared(pc)
      BY <1>0, <1>1, <1>2, <1>3, <1>4, Disks
    <2>. QED  BY <1>0, <1>1, <1>2, <1>4, <2>1, <2>2, <2>3, <2>4, TaskGoes
  <1>. QED  BY <1>0, <1>4 DEF Deliver

\* Nobody keeps the workspace.
LEMMA UnacknowledgedKeeps ==
  ASSUME IInv, Unacknowledged
  PROVE  IInv'
  <1>. SUFFICES ASSUME NEW c, c = job.c PROVE IInv'
    OBVIOUS
  <1>0. /\ c \in Conversations /\ disk[c] \in Places /\ kind[c] = "isolated"
        /\ job.kind = "prepare" /\ Doing(c) = "prepare" /\ At(c) = "offer"
        /\ ConversationInv(c) /\ destroyed \subseteq {"scratch"} /\ TypeInv /\ job.pc = "offer"
        /\ caller[c] \in {"dropped", "rejected"} /\ caller \in [Conversations -> Callers]
    BY TaskHas, Creators DEF Unacknowledged, ConversationInv, CallerInv, Removing, TypeInv
  <1>1. UNCHANGED <<kind, disk, caller, persisted, procs, left, touched, destroyed>>
    BY DEF Unacknowledged
  <1>2. /\ disk' \in [Conversations -> Places]
        /\ \A d \in Conversations : disk'[d] = disk[d]
        /\ Sound("isolated", disk'[c])
    BY <1>0, <1>1, DiskStays
  <1>3. c \notin touched => disk[c] \in Prepared("inventory")
    BY <1>0, Disks DEF ConversationInv, OutcomeInv
  <1>4. /\ job' \in Jobs /\ job'.kind = job.kind /\ job'.c = c /\ job'.pc = "inventory"
        /\ "inventory" \in Positions
    BY <1>0, GoesOn DEF Positions, Removing, Unacknowledged
  <1>5. caller'[c] \in CreatorAt("inventory") /\ Ensured("inventory", disk'[c], procs[c])
    BY <1>0, <1>1, Creators DEF Ensured, Removing
  <1>. QED  BY <1>0, <1>1, <1>2, <1>3, <1>4, <1>5, TaskGoes

-----------------------------------------------------------------------------
(* The task rolls back or removes.                                         *)

RollingBack == Removing \cup {"branch", "deleteBranch", "verifyNone"}

\* What a rollback or a removal starts from at each of its steps
LEMMA RollbackHas ==
  ASSUME IInv, NEW c, c = job.c, job.pc \in RollingBack
  PROVE  /\ c \in Conversations /\ disk[c] \in Places /\ kind[c] = "isolated"
         /\ job.kind \in {"prepare", "remove"} /\ job.pc # "none"
         /\ ConversationInv(c) /\ destroyed \subseteq {"scratch"} /\ TypeInv
         /\ job.kind = "prepare" => /\ caller[c] \in {"awaiting", "dropped", "rejected"}
                                    /\ ~Keeps(c) /\ procs[c] = 0
         /\ job.kind = "remove" => job.pc \in Removing
         /\ Sound("isolated", disk[c]) /\ Ensured(job.pc, disk[c], procs[c])
         /\ c \notin touched /\ job.kind = "remove" =>
              Keeps(c) \/ (job.pc = "inventory" /\ disk[c] = Nothing)
         /\ c \notin touched /\ (job.kind = "remove" => Keeps(c)) =>
              disk[c] \in IF job.kind = "prepare" THEN Prepared(job.pc)
                          ELSE BeingRemoved(job.pc)
  <1>1. job.pc # "none"
    BY DEF RollingBack, Removing
  <1>2. /\ c \in Conversations /\ disk[c] \in Places /\ kind[c] = "isolated"
        /\ job.kind \in {"prepare", "remove"} /\ Doing(c) = job.kind /\ At(c) = job.pc
        /\ ConversationInv(c) /\ destroyed \subseteq {"scratch"} /\ TypeInv /\ procs[c] \in Nat
    BY <1>1, TaskHas DEF TypeInv
  <1>3. job.kind = "prepare" => caller[c] \in {"awaiting", "dropped", "rejected"}
    BY <1>2, Creators DEF ConversationInv, CallerInv, RollingBack
  <1>4. /\ job.kind = "prepare" => ~Keeps(c) /\ procs[c] = 0
        /\ job.kind = "remove" => job.pc \in Removing
    BY <1>2, <1>3 DEF ConversationInv, CallerInv, Keeps, Abandoned
  <1>5. Sound("isolated", disk[c]) /\ Ensured(job.pc, disk[c], procs[c])
    BY <1>2 DEF ConversationInv, DiskInv
  <1>6. /\ c \notin touched /\ job.kind = "remove" =>
             Keeps(c) \/ (job.pc = "inventory" /\ disk[c] = Nothing)
        /\ c \notin touched /\ (job.kind = "remove" => Keeps(c)) =>
             disk[c] \in IF job.kind = "prepare" THEN Prepared(job.pc) ELSE BeingRemoved(job.pc)
    <2>1. CASE job.kind = "prepare"
      BY <1>2, <2>1 DEF ConversationInv, OutcomeInv
    <2>2. CASE job.kind = "remove"
      <3>1. OutcomeInv(c)
        BY <1>2 DEF ConversationInv
      <3>2. c \notin touched => IF Keeps(c) THEN disk[c] \in BeingRemoved(job.pc)
                                ELSE job.pc = "inventory" /\ disk[c] = Nothing
        BY <1>2, <2>2, <3>1 DEF OutcomeInv
      <3>. QED  BY <2>2, <3>2
    <2>. QED  BY <1>2, <2>1, <2>2
  <1>. QED  BY <1>1, <1>2, <1>3, <1>4, <1>5, <1>6

\* A rollback or a removal goes on; its caller hears nothing yet.
LEMMA RollbackGoes ==
  ASSUME IInv, NEW c, c = job.c, job.pc \in RollingBack, NEW pc \in RollingBack,
         job' \in Jobs, job'.kind = job.kind, job'.c = c, job'.pc = pc,
         job.kind = "remove" => pc \in Removing,
         UNCHANGED <<kind, caller, persisted, procs>>, destroyed' \subseteq {"scratch"},
         Spends("faults") \/ UNCHANGED left,
         touched' \in {touched, touched \cup {c}},
         disk' \in [Conversations -> Places],
         \A d \in Conversations \ {c} : disk'[d] = disk[d],
         Sound("isolated", disk'[c]), Ensured(pc, disk'[c], procs[c]),
         c \notin touched' =>
           /\ job.kind = "remove" => Keeps(c)
           /\ disk'[c] \in IF job.kind = "prepare" THEN Prepared(pc) ELSE BeingRemoved(pc)
  PROVE  IInv'
  <1>1. pc \in Positions /\ caller' \in [Conversations -> Callers]
    BY RollbackHas DEF RollingBack, Positions, TypeInv
  <1>2. job.kind = "prepare" => caller'[c] \in CreatorAt(pc)
    BY RollbackHas, Creators DEF RollingBack
  <1>. QED  BY <1>1, <1>2, RollbackHas, TaskGoes

\* What Goes says in a rollback
LEMMA RollbackMoves ==
  ASSUME IInv, NEW c, c = job.c, job.pc \in RollingBack, NEW pc \in RollingBack, Goes(pc)
  PROVE  job' \in Jobs /\ job'.kind = job.kind /\ job'.c = c /\ job'.pc = pc
  BY RollbackHas, GoesOn DEF RollingBack, Positions

\* A step that fails ends the task where it is.
LEMMA FaultKeeps ==
  ASSUME IInv, job.pc \in RollingBack, Fault, Ends,
         UNCHANGED <<kind, disk, persisted, procs, destroyed>>
  PROVE  IInv'
  <1>. SUFFICES ASSUME NEW c, c = job.c PROVE IInv'
    OBVIOUS
  <1>1. /\ c \in Conversations /\ kind[c] = "isolated" /\ job.pc # "none"
        /\ job.pc # "resolve" /\ job.pc # "offer"
    BY RollbackHas DEF RollingBack, Removing
  <1>2. /\ disk' \in [Conversations -> Places]
        /\ \A d \in Conversations : disk'[d] = disk[d]
        /\ Sound("isolated", disk'[c])
    BY <1>1, DiskStays
  <1>3. c \in touched' /\ touched' = touched \cup {c} /\ Spends("faults")
    BY DEF Fault, Touches
  <1>. QED  BY <1>1, <1>2, <1>3, TaskEnds

\* The rows of the table, field by field
LEMMA RowsAre ==
  /\ Whole.base = TRUE /\ Whole.branch = "base" /\ Whole.listed = TRUE
  /\ Whole.dir = Tree(TRUE, {}) /\ Whole.quarantine = {} /\ Whole.aside = {}
  /\ Moved.base = TRUE /\ Moved.branch = "base" /\ Moved.listed = TRUE
  /\ Moved.dir = {} /\ Moved.quarantine = Tree(TRUE, {}) /\ Moved.aside = {}
  /\ Bare.base = TRUE /\ Bare.branch = "base" /\ Bare.listed = TRUE
  /\ Bare.dir = {} /\ Bare.quarantine = {} /\ Bare.aside = {}
  /\ Kept.base = TRUE /\ Kept.branch = "base" /\ Kept.listed = FALSE
  /\ Kept.dir = {} /\ Kept.quarantine = {} /\ Kept.aside = {}
  /\ Marked.base = TRUE /\ Marked.branch = "none" /\ Marked.listed = FALSE
  /\ Marked.dir = {} /\ Marked.quarantine = {} /\ Marked.aside = {}
  BY DEF Whole, Moved, Bare, Kept, Marked, Row

\* The tree of an untouched workspace
LEMMA TreeIs ==
  /\ HasOurs(Tree(TRUE, {})) /\ Single(Tree(TRUE, {})) /\ Tree(TRUE, {}) # {}
  /\ \A t \in Tree(TRUE, {}) : t.ours /\ t.work = {}
  /\ ~HasOurs({}) /\ Single({})
  BY DEF HasOurs, Single, Tree

\* What is not the conversation's own is left alone.
LEMMA InventoryKeeps ==
  ASSUME IInv, Inventory
  PROVE  IInv'
  <1>. SUFFICES ASSUME NEW c, c = job.c PROVE IInv'
    OBVIOUS
  <1>0. /\ job.pc = "inventory" /\ job.pc \in RollingBack
        /\ UNCHANGED <<kind, disk, persisted, procs, destroyed>>
    BY DEF Inventory, RollingBack, Removing
  <1>1. /\ c \in Conversations /\ disk[c] \in Places /\ kind[c] = "isolated"
        /\ job.kind \in {"prepare", "remove"} /\ destroyed \subseteq {"scratch"}
        /\ job.kind = "prepare" => ~Keeps(c)
        /\ c \notin touched => disk[c] \in IF job.kind = "prepare" THEN {Marked, Whole}
                                           ELSE IF Keeps(c) THEN {Whole, Kept} ELSE {Nothing}
    BY <1>0, RollbackHas, Disks
  <1>2. /\ disk' \in [Conversations -> Places]
        /\ \A d \in Conversations : disk'[d] = disk[d]
        /\ Sound("isolated", disk'[c])
    BY <1>0, <1>1, DiskStays
  <1>3. Owned(c) => disk[c] # Marked /\ disk[c] # Kept /\ disk[c] # Nothing
    BY DEF Owned, Registered, Marked, Kept, Row, Nothing
  <1>4. disk[c] = Whole => Owned(c)
    BY RowsAre, TreeIs DEF Owned, Registered
  <1>5. disk[c] = Marked /\ job.kind = "prepare" => Unmade(c)
    BY DEF Unmade, Registered, Marked, Row
  <1>6. Unmade(c) => ~disk[c].listed /\ disk[c] # Whole /\ job.kind = "prepare"
    BY DEF Unmade, Registered, Whole, Row
  <1>7. CASE Owned(c) /\ Goes("quarantine") /\ UNCHANGED <<caller, left, touched>>
    <2>1. "quarantine" \in RollingBack /\ "quarantine" \in Removing
      BY DEF RollingBack, Removing
    <2>2. Ensured("quarantine", disk'[c], procs[c])
      BY DEF Ensured
    <2>3. c \notin touched' =>
            /\ job.kind = "remove" => Keeps(c)
            /\ disk'[c] \in IF job.kind = "prepare" THEN Prepared("quarantine")
                            ELSE BeingRemoved("quarantine")
      BY <1>1, <1>2, <1>3, <1>7, Disks
    <2>. QED  BY <1>0, <1>1, <1>2, <1>7, <2>1, <2>2, <2>3, RollbackMoves, RollbackGoes
  <1>8. CASE Unmade(c) /\ Goes("branch") /\ UNCHANGED <<caller, left, touched>>
    <2>1. "branch" \in RollingBack
      BY DEF RollingBack
    <2>2. Ensured("branch", disk'[c], procs[c])
      BY <1>1, <1>2, <1>6, <1>8 DEF Ensured
    <2>3. c \notin touched' => disk'[c] \in Prepared("branch")
      BY <1>1, <1>2, <1>6, <1>8, Disks
    <2>. QED  BY <1>0, <1>1, <1>2, <1>6, <1>8, <2>1, <2>2, <2>3, RollbackMoves, RollbackGoes
  <1>9. CASE ~Owned(c) /\ ~Unmade(c) /\ Ends /\ UNCHANGED <<left, touched>>
    <2>1. c \notin touched' =>
            IF Keeps(c) THEN disk'[c] \in {Whole, Kept} ELSE disk'[c] = Nothing
      BY <1>1, <1>2, <1>4, <1>5, <1>9
    <2>. QED  BY <1>0, <1>1, <1>2, <1>9, <2>1, TaskEnds
  <1>10. CASE Fault /\ Ends
    BY <1>0, <1>10, FaultKeeps
  <1>. QED  BY <1>7, <1>8, <1>9, <1>10 DEF Inventory

\* The tree is moved out of the way, or what has its path is.
LEMMA QuarantineKeeps ==
  ASSUME IInv, Quarantine
  PROVE  IInv'
  <1>. SUFFICES ASSUME NEW c, c = job.c, NEW k, k = disk[c] PROVE IInv'
    OBVIOUS
  <1>0. /\ job.pc = "quarantine" /\ job.pc \in RollingBack /\ job.pc # "none"
        /\ UNCHANGED <<kind, persisted, procs, left, touched, destroyed>>
    BY DEF Quarantine, RollingBack, Removing
  <1>1. /\ c \in Conversations /\ k \in Places /\ kind[c] = "isolated" /\ TypeInv
        /\ job.kind \in {"prepare", "remove"} /\ destroyed \subseteq {"scratch"}
        /\ Sound("isolated", k)
        /\ c \notin touched => k = Whole /\ (job.kind = "remove" => Keeps(c))
    BY <1>0, RollbackHas, Disks
  <1>2. CASE (k.dir = {} \/ k.quarantine # {}) /\ Ends /\ UNCHANGED disk
    <2>1. /\ disk' \in [Conversations -> Places]
          /\ \A d \in Conversations : disk'[d] = disk[d]
          /\ Sound("isolated", disk'[c])
      BY <1>1, <1>2, DiskStays
    <2>2. c \in touched
      BY <1>1, <1>2, RowsAre, TreeIs
    <2>. QED  BY <1>0, <1>1, <1>2, <2>1, <2>2, TaskEnds
  <1>3. ASSUME k.dir # {}, k.quarantine = {}, UNCHANGED caller,
               disk' = [disk EXCEPT ![c] = [@ EXCEPT !.dir = {}, !.quarantine = k.dir]],
               NEW pc, pc = IF HasOurs(k.dir) THEN "check" ELSE "restore",
               job' = [job EXCEPT !.pc = pc, !.foreign = ~HasOurs(k.dir)]
        PROVE  IInv'
    <2>1. pc \in RollingBack /\ pc \in Removing /\ Ensured(pc, disk'[c], procs[c])
      BY <1>3 DEF RollingBack, Removing, Ensured
    <2>2. job' \in Jobs /\ job'.kind = job.kind /\ job'.c = c /\ job'.pc = pc
      BY <1>1, <1>3, <2>1 DEF TypeInv, Jobs, Positions
    <2>3. /\ disk' \in [Conversations -> Places]
          /\ \A d \in Conversations \ {c} : disk'[d] = disk[d]
      BY <1>1, <1>3 DEF TypeInv, Places
    <2>4. /\ disk'[c].base = k.base /\ disk'[c].branch = k.branch
          /\ disk'[c].listed = k.listed /\ disk'[c].dir = {}
          /\ disk'[c].quarantine = k.dir /\ disk'[c].aside = k.aside
      BY <1>1, <1>3 DEF TypeInv, Places
    <2>5. Sound("isolated", disk'[c])
      BY <1>1, <1>3, <2>4, TreeIs DEF Sound, Mine
    <2>6. c \notin touched => pc = "check" /\ disk'[c] = Moved
      <3>1. SUFFICES ASSUME k = Whole PROVE pc = "check" /\ disk'[c] = Moved
        BY <1>1
      <3>2. disk'[c] \in Places
        BY <1>1, <2>3
      <3>3. /\ disk'[c].base = TRUE /\ disk'[c].branch = "base" /\ disk'[c].listed = TRUE
            /\ disk'[c].dir = {} /\ disk'[c].quarantine = Tree(TRUE, {}) /\ disk'[c].aside = {}
        BY <2>4, <3>1, RowsAre
      <3>4. disk'[c] = Row(TRUE, "base", TRUE, {}, Tree(TRUE, {}))
        BY <3>2, <3>3 DEF Places, Row
      <3>. QED  BY <1>3, <3>1, <3>4, RowsAre, TreeIs DEF Moved
    <2>7. c \notin touched' =>
            /\ job.kind = "remove" => Keeps(c)
            /\ disk'[c] \in IF job.kind = "prepare" THEN Prepared(pc) ELSE BeingRemoved(pc)
      BY <1>0, <1>1, <2>6, Disks
    <2>8. /\ UNCHANGED <<kind, caller, persisted, procs>> /\ destroyed' \subseteq {"scratch"}
          /\ UNCHANGED left /\ touched' \in {touched, touched \cup {c}}
      BY <1>0, <1>1, <1>3
    <2>9. job.kind = "remove" => pc \in Removing
      BY <2>1
    <2>. QED  BY <1>0, <2>1, <2>2, <2>3, <2>5, <2>7, <2>8, <2>9, RollbackGoes
  <1>. QED  BY <1>2, <1>3 DEF Quarantine

\* There is one tree that is the conversation's own.
LEMMA OursIsThere ==
  ASSUME NEW k \in Places, Sound("isolated", k), HasOurs(k.quarantine)
  PROVE  \A t \in k.quarantine : t = OursOf(k)
  <1>1. \E t \in k.dir \cup k.quarantine \cup k.aside : t.ours
    BY DEF HasOurs
  <1>2. /\ OursOf(k) \in k.dir \cup k.quarantine \cup k.aside
        /\ OursOf(k).ours
    BY <1>1 DEF OursOf
  <1>3. OursOf(k) \in k.quarantine
    BY <1>2 DEF Sound, HasOurs
  <1>. QED  BY <1>3 DEF Sound, Single

\* Only a tree without work, processes or commits goes on to be deleted.
LEMMA FinalCheckKeeps ==
  ASSUME IInv, FinalCheck
  PROVE  IInv'
  <1>. SUFFICES ASSUME NEW c, c = job.c, NEW k, k = disk[c] PROVE IInv'
    OBVIOUS
  <1>0. /\ job.pc = "check" /\ job.pc \in RollingBack /\ job.pc # "none"
        /\ UNCHANGED <<kind, disk, caller, persisted, procs, destroyed>>
    BY DEF FinalCheck, RollingBack, Removing
  <1>1. /\ c \in Conversations /\ k \in Places /\ kind[c] = "isolated" /\ TypeInv
        /\ job.kind \in {"prepare", "remove"} /\ destroyed \subseteq {"scratch"}
        /\ Sound("isolated", k) /\ procs[c] \in Nat
        /\ job.kind = "prepare" => procs[c] = 0
        /\ c \notin touched => k = Moved /\ (job.kind = "remove" => Keeps(c))
    BY <1>0, RollbackHas, Disks DEF TypeInv
  <1>2. /\ disk' \in [Conversations -> Places]
        /\ \A d \in Conversations : disk'[d] = disk[d]
    BY <1>0, <1>1, DiskStays
  <1>. DEFINE blocked == Blocked(c, job.kind = "remove" /\ procs[c] > 0)
  <1>3. \A pc \in {"restore", "delete"} : pc \in RollingBack /\ pc \in Removing
    BY DEF RollingBack, Removing
  <1>4. CASE Goes("restore")
    <2>1. touched' \in {touched, touched \cup {c}} /\ (Spends("faults") \/ UNCHANGED left)
      BY DEF FinalCheck, Fault, Touches
    <2>2. Ensured("restore", disk'[c], procs[c])
      BY DEF Ensured
    <2>3. c \notin touched' => blocked
      <3>1. Goes("delete") => job'.pc = "delete" /\ FALSE
        BY <1>0, <1>1, <1>3, <1>4, RollbackMoves
      <3>. QED  BY <3>1 DEF FinalCheck, Fault, Touches
    <2>4. k = Moved /\ blocked => job.kind = "remove"
      <3>1. SUFFICES ASSUME k = Moved, job.kind = "prepare" PROVE ~blocked
        BY <1>1
      <3>2. [ours |-> TRUE, work |-> {}] \in k.quarantine /\ HasOurs(k.quarantine)
        BY <3>1, RowsAre, TreeIs DEF Tree
      <3>3. OursOf(k).work = {}
        BY <1>1, <3>1, <3>2, OursIsThere
      <3>4. k.base = TRUE /\ k.branch = "base"
        BY <3>1, RowsAre
      <3>. QED  BY <3>1, <3>3, <3>4 DEF Blocked
    <2>5. c \notin touched' => k = Moved /\ job.kind = "remove" /\ Keeps(c)
      BY <1>1, <2>1, <2>3, <2>4
    <2>. QED  BY <1>0, <1>1, <1>2, <1>3, <1>4, <2>1, <2>2, <2>5, Disks,
                 RollbackMoves, RollbackGoes
  <1>5. CASE Goes("delete") /\ ~blocked /\ UNCHANGED <<left, touched>>
    <2>1. procs[c] = 0
      BY <1>1, <1>5 DEF Blocked
    <2>2. HasOurs(k.quarantine) => \A t \in k.quarantine : t.work = {}
      BY <1>1, <1>5, OursIsThere DEF Blocked
    <2>3. Ensured("delete", disk'[c], procs[c])
      BY <1>1, <1>2, <2>1, <2>2 DEF Ensured
    <2>. QED  BY <1>0, <1>1, <1>2, <1>3, <1>5, <2>3, Disks, RollbackMoves, RollbackGoes
  <1>. QED  BY <1>4, <1>5 DEF FinalCheck

\* What was moved goes back where its place is free.
LEMMA RestoreKeeps ==
  ASSUME IInv, Restore
  PROVE  IInv'
  <1>. SUFFICES ASSUME NEW c, c = job.c, NEW k, k = disk[c] PROVE IInv'
    OBVIOUS
  <1>0. /\ job.pc = "restore" /\ job.pc \in RollingBack /\ job.pc # "none" /\ Ends
        /\ UNCHANGED <<kind, persisted, procs, left, touched, destroyed>>
    BY DEF Restore, RollingBack, Removing
  <1>1. /\ c \in Conversations /\ k \in Places /\ kind[c] = "isolated" /\ TypeInv
        /\ Sound("isolated", k)
        /\ c \notin touched => k = Moved /\ Keeps(c)
    BY <1>0, RollbackHas, Disks
  <1>2. CASE /\ k.dir = {}
             /\ disk' = [disk EXCEPT ![c] = [@ EXCEPT !.dir = k.quarantine, !.quarantine = {}]]
    <2>1. /\ disk' \in [Conversations -> Places]
          /\ \A d \in Conversations \ {c} : disk'[d] = disk[d]
      BY <1>1, <1>2 DEF TypeInv, Places
    <2>2. /\ disk'[c].base = k.base /\ disk'[c].branch = k.branch
          /\ disk'[c].listed = k.listed /\ disk'[c].dir = k.quarantine
          /\ disk'[c].quarantine = {} /\ disk'[c].aside = k.aside
      BY <1>1, <1>2 DEF TypeInv, Places
    <2>3. Sound("isolated", disk'[c])
      BY <1>1, <1>2, <2>2, TreeIs DEF Sound, Mine
    <2>4. c \notin touched => disk'[c] = Whole
      <3>1. SUFFICES ASSUME k = Moved PROVE disk'[c] = Whole
        BY <1>1
      <3>2. disk'[c] \in Places
        BY <1>1, <2>1
      <3>3. /\ disk'[c].base = TRUE /\ disk'[c].branch = "base" /\ disk'[c].listed = TRUE
            /\ disk'[c].dir = Tree(TRUE, {}) /\ disk'[c].quarantine = {} /\ disk'[c].aside = {}
        BY <2>2, <3>1, RowsAre
      <3>4. disk'[c] = Row(TRUE, "base", TRUE, Tree(TRUE, {}), {})
        BY <3>2, <3>3 DEF Places, Row
      <3>. QED  BY <3>4 DEF Whole
    <2>. QED  BY <1>0, <1>1, <2>1, <2>3, <2>4, TaskEnds
  <1>3. CASE ~(HasOurs(k.quarantine) /\ k.dir = {}) /\ UNCHANGED disk
    <2>1. /\ disk' \in [Conversations -> Places]
          /\ \A d \in Conversations : disk'[d] = disk[d]
          /\ Sound("isolated", disk'[c])
      BY <1>1, <1>3, DiskStays
    <2>2. c \in touched
      BY <1>1, <1>3, RowsAre, TreeIs
    <2>. QED  BY <1>0, <1>1, <2>1, <2>2, TaskEnds
  <1>. QED  BY <1>2, <1>3 DEF Restore

\* What is deleted is the tree that was inspected: there is no work in it and no
\* process.
LEMMA DeleteKeeps ==
  ASSUME IInv, Delete
  PROVE  IInv'
  <1>. SUFFICES ASSUME NEW c, c = job.c, NEW k, k = disk[c] PROVE IInv'
    OBVIOUS
  <1>0. /\ job.pc = "delete" /\ job.pc \in RollingBack /\ job.pc # "none"
        /\ UNCHANGED <<kind, persisted, procs, left, touched>>
    BY DEF Delete, RollingBack, Removing
  <1>1. /\ c \in Conversations /\ k \in Places /\ kind[c] = "isolated" /\ TypeInv
        /\ job.kind \in {"prepare", "remove"} /\ destroyed \subseteq {"scratch"}
        /\ Sound("isolated", k) /\ Ensured("delete", k, procs[c])
        /\ c \notin touched => k = Moved /\ (job.kind = "remove" => Keeps(c))
    BY <1>0, RollbackHas, Disks
  <1>2. ASSUME HasOurs(k.quarantine), disk' = [disk EXCEPT ![c].quarantine = {}],
               destroyed' = destroyed \cup UNION {t.work : t \in k.quarantine}
                                      \cup (IF procs[c] > 0 THEN {"running"} ELSE {}),
               Goes("metadata"), UNCHANGED caller
        PROVE  IInv'
    <2>1. destroyed' \subseteq {"scratch"}
      <3>1. procs[c] = 0 /\ \A t \in k.quarantine : t.work = {}
        BY <1>1, <1>2 DEF Ensured
      <3>2. UNION {t.work : t \in k.quarantine} = {}
        BY <3>1
      <3>. QED  BY <1>1, <1>2, <3>1, <3>2
    <2>2. /\ disk' \in [Conversations -> Places]
          /\ \A d \in Conversations \ {c} : disk'[d] = disk[d]
      BY <1>1, <1>2 DEF TypeInv, Places
    <2>3. /\ disk'[c].base = k.base /\ disk'[c].branch = k.branch
          /\ disk'[c].listed = k.listed /\ disk'[c].dir = k.dir
          /\ disk'[c].quarantine = {} /\ disk'[c].aside = k.aside
      BY <1>1, <1>2 DEF TypeInv, Places
    <2>4. Sound("isolated", disk'[c]) /\ ~Mine(disk'[c])
      BY <1>1, <1>2, <2>3, TreeIs DEF Sound, Mine
    <2>5. /\ "metadata" \in RollingBack /\ "metadata" \in Removing
          /\ Ensured("metadata", disk'[c], procs[c])
      BY <2>4 DEF RollingBack, Removing, Ensured
    <2>6. c \notin touched => disk'[c] = Bare
      <3>1. SUFFICES ASSUME k = Moved PROVE disk'[c] = Bare
        BY <1>1
      <3>2. disk'[c] \in Places
        BY <1>1, <2>2
      <3>3. /\ disk'[c].base = TRUE /\ disk'[c].branch = "base" /\ disk'[c].listed = TRUE
            /\ disk'[c].dir = {} /\ disk'[c].quarantine = {} /\ disk'[c].aside = {}
        BY <2>3, <3>1, RowsAre
      <3>4. disk'[c] = Row(TRUE, "base", TRUE, {}, {})
        BY <3>2, <3>3 DEF Places, Row
      <3>. QED  BY <3>4 DEF Bare
    <2>7. job' \in Jobs /\ job'.kind = job.kind /\ job'.c = c /\ job'.pc = "metadata"
      BY <1>0, <1>2, <2>5, RollbackMoves
    <2>. QED  BY <1>0, <1>1, <1>2, <2>1, <2>2, <2>4, <2>5, <2>6, <2>7, Disks, RollbackGoes
  <1>3. CASE ~HasOurs(k.quarantine) /\ Ends /\ UNCHANGED <<disk, destroyed>>
    <2>1. /\ disk' \in [Conversations -> Places]
          /\ \A d \in Conversations : disk'[d] = disk[d]
          /\ Sound("isolated", disk'[c])
      BY <1>1, <1>3, DiskStays
    <2>2. c \in touched
      BY <1>1, <1>3, RowsAre, TreeIs
    <2>. QED  BY <1>0, <1>1, <1>3, <2>1, <2>2, TaskEnds
  <1>. QED  BY <1>2, <1>3 DEF Delete

\* Git forgets a worktree only after its tree is gone.
LEMMA RemoveMetadataKeeps ==
  ASSUME IInv, RemoveMetadata
  PROVE  IInv'
  <1>. SUFFICES ASSUME NEW c, c = job.c, NEW k, k = disk[c] PROVE IInv'
    OBVIOUS
  <1>0. /\ job.pc = "metadata" /\ job.pc \in RollingBack /\ job.pc # "none"
        /\ UNCHANGED <<kind, persisted, procs, destroyed>>
    BY DEF RemoveMetadata, RollingBack, Removing
  <1>1. /\ c \in Conversations /\ k \in Places /\ kind[c] = "isolated" /\ TypeInv
        /\ job.kind \in {"prepare", "remove"} /\ destroyed \subseteq {"scratch"}
        /\ Sound("isolated", k) /\ ~Mine(k)
        /\ c \notin touched => k = Bare /\ (job.kind = "remove" => Keeps(c))
    BY <1>0, RollbackHas, Disks DEF Ensured
  <1>2. ASSUME disk' = [disk EXCEPT ![c].listed = FALSE], UNCHANGED <<left, touched>>,
               IF job.kind = "remove" THEN Ends ELSE Goes("branch") /\ UNCHANGED caller
        PROVE  IInv'
    <2>1. /\ disk' \in [Conversations -> Places]
          /\ \A d \in Conversations \ {c} : disk'[d] = disk[d]
      BY <1>1, <1>2 DEF TypeInv, Places
    <2>2. /\ disk'[c].base = k.base /\ disk'[c].branch = k.branch
          /\ disk'[c].listed = FALSE /\ disk'[c].dir = k.dir
          /\ disk'[c].quarantine = k.quarantine /\ disk'[c].aside = k.aside
      BY <1>1, <1>2 DEF TypeInv, Places
    <2>3. Sound("isolated", disk'[c])
      BY <1>1, <2>2 DEF Sound, Mine
    <2>4. c \notin touched => disk'[c] = Kept
      <3>1. SUFFICES ASSUME k = Bare PROVE disk'[c] = Kept
        BY <1>1
      <3>2. disk'[c] \in Places
        BY <1>1, <2>1
      <3>3. /\ disk'[c].base = TRUE /\ disk'[c].branch = "base" /\ disk'[c].listed = FALSE
            /\ disk'[c].dir = {} /\ disk'[c].quarantine = {} /\ disk'[c].aside = {}
        BY <2>2, <3>1, RowsAre
      <3>4. disk'[c] = Row(TRUE, "base", FALSE, {}, {})
        BY <3>2, <3>3 DEF Places, Row
      <3>. QED  BY <3>4 DEF Kept
    <2>5. CASE job.kind = "remove"
      BY <1>0, <1>1, <1>2, <2>1, <2>3, <2>4, <2>5, TaskEnds
    <2>6. CASE job.kind = "prepare"
      <3>1. "branch" \in RollingBack /\ Ensured("branch", disk'[c], procs[c])
        BY <2>2 DEF RollingBack, Ensured
      <3>2. c \notin touched' => disk'[c] \in Prepared("branch")
        BY <1>2, <2>4, Disks
      <3>3. job' \in Jobs /\ job'.kind = job.kind /\ job'.c = c /\ job'.pc = "branch"
        BY <1>0, <1>2, <2>6, <3>1, RollbackMoves
      <3>. QED  BY <1>0, <1>1, <1>2, <2>1, <2>3, <2>6, <3>1, <3>2, <3>3, RollbackGoes
    <2>. QED  BY <1>1, <2>5, <2>6
  <1>3. CASE Fault /\ Ends /\ UNCHANGED disk
    BY <1>0, <1>3, FaultKeeps
  <1>. QED  BY <1>2, <1>3 DEF RemoveMetadata

\* The rollback looks at the branch.
LEMMA ReadBranchKeeps ==
  ASSUME IInv, ReadBranch
  PROVE  IInv'
  <1>. SUFFICES ASSUME NEW c, c = job.c, NEW k, k = disk[c] PROVE IInv'
    OBVIOUS
  <1>0. /\ job.pc = "branch" /\ job.pc \in RollingBack /\ job.pc # "none"
        /\ "branch" \notin Removing
        /\ UNCHANGED <<kind, disk, persisted, procs, destroyed>>
    BY DEF ReadBranch, RollingBack, Removing
  <1>1. /\ c \in Conversations /\ k \in Places /\ kind[c] = "isolated" /\ TypeInv
        /\ job.kind = "prepare" /\ destroyed \subseteq {"scratch"} /\ ~k.listed
        /\ c \notin touched => k \in {Marked, Kept}
    BY <1>0, RollbackHas, Disks DEF Ensured
  <1>2. /\ disk' \in [Conversations -> Places]
        /\ \A d \in Conversations : disk'[d] = disk[d]
        /\ Sound("isolated", disk'[c])
    BY <1>0, <1>1, DiskStays
  <1>3. CASE k.branch = "moved" /\ Ends /\ UNCHANGED <<left, touched>>
    <2>1. c \in touched
      BY <1>1, <1>3, RowsAre
    <2>. QED  BY <1>0, <1>1, <1>2, <1>3, <2>1, TaskEnds
  <1>4. ASSUME NEW pc \in {"deleteBranch", "verifyNone"}, Goes(pc),
               k.branch = IF pc = "deleteBranch" THEN "base" ELSE "none",
               UNCHANGED <<caller, left, touched>>
        PROVE  IInv'
    <2>1. pc \in RollingBack /\ Ensured(pc, disk'[c], procs[c])
      BY <1>1, <1>2 DEF RollingBack, Ensured
    <2>2. c \notin touched => disk'[c] \in Prepared(pc)
      BY <1>1, <1>2, <1>4, RowsAre, Disks
    <2>. QED  BY <1>0, <1>1, <1>2, <1>4, <2>1, <2>2, RollbackMoves, RollbackGoes
  <1>5. CASE Fault /\ Ends
    BY <1>0, <1>5, FaultKeeps
  <1>. QED  BY <1>3, <1>4, <1>5 DEF ReadBranch

\* The references go together, and only when they are what was read.
LEMMA DeleteReferencesKeeps ==
  ASSUME IInv, DeleteReferences
  PROVE  IInv'
  <1>. SUFFICES ASSUME NEW c, c = job.c, NEW k, k = disk[c],
                       NEW expected,
                       expected = IF job.pc = "deleteBranch" THEN "base" ELSE "none"
                PROVE  IInv'
    OBVIOUS
  <1>0. /\ job.pc \in {"deleteBranch", "verifyNone"} /\ job.pc \in RollingBack
        /\ job.pc # "none" /\ job.pc \notin Removing /\ Ends
        /\ UNCHANGED <<kind, persisted, procs, destroyed>>
    BY DEF DeleteReferences, RollingBack, Removing
  <1>1. /\ c \in Conversations /\ k \in Places /\ kind[c] = "isolated" /\ TypeInv
        /\ job.kind = "prepare" /\ ~Keeps(c)
        /\ ~k.listed /\ Sound("isolated", k)
        /\ c \notin touched => k = IF job.pc = "deleteBranch" THEN Kept ELSE Marked
    BY <1>0, RollbackHas, Disks DEF Ensured
  <1>2. CASE /\ disk' = [disk EXCEPT ![c] = [@ EXCEPT !.base = FALSE, !.branch = "none"]]
             /\ UNCHANGED <<left, touched>>
    <2>1. /\ disk' \in [Conversations -> Places]
          /\ \A d \in Conversations \ {c} : disk'[d] = disk[d]
      BY <1>1, <1>2 DEF TypeInv, Places
    <2>2. /\ disk'[c].base = FALSE /\ disk'[c].branch = "none"
          /\ disk'[c].listed = k.listed /\ disk'[c].dir = k.dir
          /\ disk'[c].quarantine = k.quarantine /\ disk'[c].aside = k.aside
      BY <1>1, <1>2 DEF TypeInv, Places
    <2>3. Sound("isolated", disk'[c])
      BY <1>1, <2>2 DEF Sound, Mine
    <2>4. c \notin touched => disk'[c] = Nothing
      <3>1. SUFFICES ASSUME k \in {Kept, Marked} PROVE disk'[c] = Nothing
        BY <1>1
      <3>2. disk'[c] \in Places
        BY <1>1, <2>1
      <3>3. /\ disk'[c].base = FALSE /\ disk'[c].branch = "none" /\ disk'[c].listed = FALSE
            /\ disk'[c].dir = {} /\ disk'[c].quarantine = {} /\ disk'[c].aside = {}
        BY <2>2, <3>1, RowsAre
      <3>4. disk'[c] = Row(FALSE, "none", FALSE, {}, {})
        BY <3>2, <3>3 DEF Places, Row
      <3>. QED  BY <3>4 DEF Nothing, Row
    <2>. QED  BY <1>0, <1>1, <1>2, <2>1, <2>3, <2>4, TaskEnds
  <1>3. CASE k.branch # expected /\ UNCHANGED <<disk, left, touched>>
    <2>1. /\ disk' \in [Conversations -> Places]
          /\ \A d \in Conversations : disk'[d] = disk[d]
          /\ Sound("isolated", disk'[c])
      BY <1>1, <1>3, DiskStays
    <2>2. c \in touched
      BY <1>0, <1>1, <1>3, RowsAre
    <2>. QED  BY <1>0, <1>1, <1>3, <2>1, <2>2, TaskEnds
  <1>4. CASE Fault /\ UNCHANGED disk
    BY <1>0, <1>4, FaultKeeps
  <1>. QED  BY <1>2, <1>3, <1>4 DEF DeleteReferences

-----------------------------------------------------------------------------
(* The callers, the processes and everyone else.                           *)

\* What is known of any conversation
LEMMA IInvHas ==
  ASSUME IInv, NEW c \in Conversations
  PROVE  /\ TypeInv /\ destroyed \subseteq {"scratch"}
         /\ CallerInv(c) /\ DiskInv(c) /\ OutcomeInv(c)
         /\ disk[c] \in Places /\ procs[c] \in Nat /\ caller[c] \in Callers
         /\ kind[c] \in {"isolated", "projectless"}
         /\ Doing(c) \in {"none", "prepare", "remove"}
         /\ Doing(c) # "none" => job.c = c /\ job # Idle /\ At(c) = job.pc
         /\ Doing(c) = "none" => job.c # c \/ job = Idle
         /\ job = Idle => Doing(c) = "none"
         /\ Doing(c) = "none" => At(c) = "none"
  <1>1. TypeInv /\ destroyed \subseteq {"scratch"} /\ ConversationInv(c)
    BY DEF IInv
  <1>2. /\ disk[c] \in Places /\ procs[c] \in Nat /\ caller[c] \in Callers
        /\ kind[c] \in {"isolated", "projectless"} /\ job.kind \in {"none", "prepare", "remove"}
        /\ job = Idle \/ job.kind # "none"
    BY <1>1 DEF TypeInv, Jobs
  <1>3. CallerInv(c) /\ DiskInv(c) /\ OutcomeInv(c)
    BY <1>1 DEF ConversationInv
  <1>. QED  BY <1>1, <1>2, <1>3 DEF Doing, At, Idle

\* A step that leaves the task alone
LEMMA OutsideKeeps ==
  ASSUME IInv, NEW c \in Conversations, UNCHANGED <<kind, job>>,
         destroyed' \in {destroyed, destroyed \cup {"scratch"}},
         left' \in [Allowances -> Nat],
         touched' \in {touched, touched \cup {c}},
         persisted' \in {persisted, persisted \cup {c}},
         caller' \in [Conversations -> Callers],
         disk' \in [Conversations -> Places],
         procs' \in [Conversations -> Nat],
         \A d \in Conversations \ {c} :
           caller'[d] = caller[d] /\ disk'[d] = disk[d] /\ procs'[d] = procs[d],
         CallerInv(c)', Sound(kind[c], disk'[c]), Ensured(At(c), disk'[c], procs'[c]),
         OutcomeInv(c)'
  PROVE  IInv'
  <1>1. TypeInv'
    BY DEF IInv, TypeInv
  <1>2. Only(c)
    BY DEF Only
  <1>3. DiskInv(c)'
    BY DEF DiskInv, At
  <1>4. destroyed' \subseteq {"scratch"}
    BY DEF IInv
  <1>. QED  BY <1>1, <1>2, <1>3, <1>4, StepKeeps

\* The same task is at the same place.
LEMMA TaskStays ==
  ASSUME UNCHANGED job, NEW c
  PROVE  Doing(c)' = Doing(c) /\ At(c)' = At(c)
  BY DEF Doing, At

\* Somebody asks for a conversation, once its last task has ended.
LEMMA BeginKeeps ==
  ASSUME IInv, NEW c \in Conversations, Begin(c)
  PROVE  IInv'
  <1>0. /\ c \notin persisted /\ caller[c] \in {"idle", "failed", "dropped"} /\ job.c # c
        /\ caller' = [caller EXCEPT ![c] = "waiting"]
        /\ UNCHANGED <<kind, disk, job, persisted, procs, touched, destroyed>>
    BY DEF Begin
  <1>1. left' \in [Allowances -> Nat]
    <2>1. Spends("attempts") /\ "attempts" \in Allowances
      BY DEF Begin, Allowances
    <2>. QED  BY <2>1, Counted DEF IInv
  <1>2. /\ caller' \in [Conversations -> Callers] /\ caller'[c] = "waiting"
        /\ \A d \in Conversations \ {c} : caller'[d] = caller[d]
    BY <1>0 DEF IInv, TypeInv, Callers
  <1>3. Doing(c)' = "none" /\ Doing(c) = "none" /\ At(c) = "none"
    BY <1>0 DEF Doing, At
  <1>4. CallerInv(c)'
    BY <1>0, <1>2, <1>3, IInvHas DEF CallerInv
  <1>5. OutcomeInv(c)'
    BY <1>0, <1>2, <1>3, IInvHas DEF OutcomeInv, Keeps, Abandoned
  <1>6. Sound(kind[c], disk'[c]) /\ Ensured(At(c), disk'[c], procs'[c])
    BY <1>0, <1>3, IInvHas DEF DiskInv
  <1>7. disk' \in [Conversations -> Places] /\ procs' \in [Conversations -> Nat]
    BY <1>0 DEF IInv, TypeInv
  <1>. QED  BY <1>0, <1>1, <1>2, <1>4, <1>5, <1>6, <1>7, OutsideKeeps

\* The scratch directory is made where nothing is.
LEMMA CreateScratchKeeps ==
  ASSUME IInv, NEW c \in Conversations, CreateScratch(c)
  PROVE  IInv'
  <1>0. /\ kind[c] = "projectless" /\ caller[c] = "waiting" /\ job = Idle
        /\ UNCHANGED <<kind, job, persisted, procs, left, touched, destroyed>>
    BY DEF CreateScratch
  <1>1. /\ disk[c] \in Places /\ Doing(c) = "none" /\ At(c) = "none" /\ c \notin persisted
        /\ Sound("projectless", disk[c]) /\ OutcomeInv(c) /\ CallerInv(c)
    BY <1>0, IInvHas DEF DiskInv, CallerInv
  <1>2. Doing(c)' = "none" /\ At(c)' = "none"
    BY <1>0, <1>1, TaskStays
  <1>3. /\ left' \in [Allowances -> Nat] /\ procs' \in [Conversations -> Nat]
        /\ TypeInv
    BY <1>0 DEF IInv, TypeInv
  <1>4. c \notin touched => disk[c] = Nothing
    BY <1>0, <1>1 DEF OutcomeInv, Keeps
  <1>5. CASE /\ disk' = [disk EXCEPT ![c].dir = Tree(TRUE, {})]
             /\ caller' = [caller EXCEPT ![c] = "offered"]
    <2>1. Tree(TRUE, {}) \in SUBSET [ours : BOOLEAN, work : SUBSET Work]
      BY DEF Tree
    <2>2. /\ disk' \in [Conversations -> Places] /\ disk'[c] \in Places
          /\ \A d \in Conversations \ {c} : disk'[d] = disk[d]
      <3>. DEFINE row == [disk[c] EXCEPT !.dir = Tree(TRUE, {})]
      <3>1. row \in Places
        BY <1>1, <2>1 DEF Places
      <3>2. disk' = [disk EXCEPT ![c] = row] /\ disk \in [Conversations -> Places]
        BY <1>3, <1>5 DEF TypeInv
      <3>. HIDE DEF row
      <3>. QED BY <3>1, <3>2
    <2>3. /\ disk'[c].base = disk[c].base /\ disk'[c].branch = disk[c].branch
          /\ disk'[c].listed = disk[c].listed /\ disk'[c].dir = Tree(TRUE, {})
          /\ disk'[c].quarantine = disk[c].quarantine /\ disk'[c].aside = disk[c].aside
      BY <1>1, <1>3, <1>5 DEF TypeInv, Places
    <2>4. /\ caller' \in [Conversations -> Callers] /\ caller'[c] = "offered"
          /\ \A d \in Conversations \ {c} : caller'[d] = caller[d]
      BY <1>3, <1>5 DEF TypeInv, Callers
    <2>5. CallerInv(c)'
      BY <1>0, <1>1, <1>2, <2>4 DEF CallerInv
    <2>6. Sound(kind[c], disk'[c]) /\ Ensured(At(c), disk'[c], procs'[c])
      BY <1>0, <1>1, <2>3, TreeIs DEF Sound, Ensured
    <2>7. c \notin touched => disk'[c] = Scratch
      <3>1. SUFFICES ASSUME disk[c] = Nothing PROVE disk'[c] = Scratch
        BY <1>4
      <3>2. /\ disk'[c].base = FALSE /\ disk'[c].branch = "none"
            /\ disk'[c].listed = FALSE /\ disk'[c].dir = Tree(TRUE, {})
            /\ disk'[c].quarantine = {} /\ disk'[c].aside = {}
        BY <2>3, <3>1 DEF Nothing
      <3>3. disk'[c] = Row(FALSE, "none", FALSE, Tree(TRUE, {}), {})
        BY <2>2, <3>2 DEF Places, Row
      <3>. QED  BY <3>3 DEF Scratch
    <2>8. OutcomeInv(c)'
      BY <1>0, <2>4, <2>7 DEF OutcomeInv
    <2>. QED  BY <1>0, <1>3, <2>2, <2>4, <2>5, <2>6, <2>8, OutsideKeeps
  <1>6. CASE /\ caller' = [caller EXCEPT ![c] = "failed"]
             /\ UNCHANGED disk
    <2>1. /\ caller' \in [Conversations -> Callers] /\ caller'[c] = "failed"
          /\ \A d \in Conversations \ {c} : caller'[d] = caller[d]
      BY <1>3, <1>6 DEF TypeInv, Callers
    <2>2. CallerInv(c)'
      BY <1>0, <1>1, <1>2, <2>1 DEF CallerInv
    <2>3. OutcomeInv(c)'
      BY <1>0, <1>1, <1>4, <1>6, <2>1 DEF OutcomeInv, Keeps, Abandoned
    <2>4. Sound(kind[c], disk'[c]) /\ Ensured(At(c), disk'[c], procs'[c])
      BY <1>0, <1>1, <1>6 DEF Ensured
    <2>5. disk' \in [Conversations -> Places]
      BY <1>3, <1>6 DEF TypeInv
    <2>. QED  BY <1>0, <1>3, <1>6, <2>1, <2>2, <2>3, <2>4, <2>5, OutsideKeeps
  <1>. QED  BY <1>5, <1>6 DEF CreateScratch

\* The task starts where nothing is under way.
LEMMA StartPreparationKeeps ==
  ASSUME IInv, NEW c \in Conversations, StartPreparation(c)
  PROVE  IInv'
  <1>0. /\ kind[c] = "isolated" /\ caller[c] = "waiting" /\ job = Idle
        /\ job' = [kind |-> "prepare", c |-> c, pc |-> "resolve", foreign |-> FALSE]
        /\ caller' = [caller EXCEPT ![c] = "resolving"]
        /\ UNCHANGED <<kind, disk, persisted, procs, left, touched, destroyed>>
    BY DEF StartPreparation, Idle
  <1>1. /\ Doing(c) = "none" /\ c \notin persisted /\ procs[c] = 0
        /\ destroyed \subseteq {"scratch"}
        /\ Sound("isolated", disk[c]) /\ OutcomeInv(c) /\ CallerInv(c) /\ TypeInv
    BY <1>0, IInvHas DEF DiskInv, CallerInv
  <1>2. /\ caller' \in [Conversations -> Callers] /\ caller'[c] = "resolving"
        /\ \A d \in Conversations \ {c} : caller'[d] = caller[d]
    BY <1>0, <1>1 DEF TypeInv, Callers
  <1>3. Doing(c)' = "prepare" /\ At(c)' = "resolve"
    BY <1>0 DEF Doing, At
  <1>4. TypeInv'
    BY <1>0, <1>1, <1>2 DEF TypeInv, Jobs, Positions, Idle
  <1>5. Only(c)
    BY <1>0, <1>2 DEF Only
  <1>6. CallerInv(c)'
    BY <1>0, <1>1, <1>2, <1>3, Creators DEF CallerInv
  <1>7. DiskInv(c)'
    BY <1>0, <1>1, <1>3 DEF DiskInv, Ensured
  <1>8. OutcomeInv(c)'
    BY <1>0, <1>1, <1>3, Disks DEF OutcomeInv, Keeps, Abandoned
  <1>. QED  BY <1>0, <1>1, <1>4, <1>5, <1>6, <1>7, <1>8, StepKeeps

\* A removal starts where nothing is under way.
LEMMA StartRemovalKeeps ==
  ASSUME IInv, NEW c \in Conversations, StartRemoval(c)
  PROVE  IInv'
  <1>0. /\ kind[c] = "isolated" /\ c \in persisted /\ job = Idle
        /\ job' = [kind |-> "remove", c |-> c, pc |-> "inventory", foreign |-> FALSE]
        /\ UNCHANGED <<kind, disk, caller, persisted, procs, touched, destroyed>>
    BY DEF StartRemoval, Idle
  <1>1. /\ Doing(c) = "none" /\ destroyed \subseteq {"scratch"} /\ caller[c] \in Callers
        /\ Sound("isolated", disk[c]) /\ OutcomeInv(c) /\ CallerInv(c) /\ TypeInv
    BY <1>0, IInvHas DEF DiskInv
  <1>2. left' \in [Allowances -> Nat]
    <2>1. Spends("removals") /\ "removals" \in Allowances
      BY DEF StartRemoval, Allowances
    <2>. QED  BY <1>1, <2>1, Counted
  <1>3. Doing(c)' = "remove" /\ At(c)' = "inventory" /\ "inventory" \in Removing
    BY <1>0 DEF Doing, At, Removing
  <1>4. TypeInv'
    BY <1>0, <1>1, <1>2 DEF TypeInv, Jobs, Positions, Removing, Idle
  <1>5. Only(c)
    BY <1>0 DEF Only
  <1>6. CallerInv(c)'
    BY <1>0, <1>1, <1>3 DEF CallerInv, Callers
  <1>7. DiskInv(c)'
    BY <1>0, <1>1, <1>3 DEF DiskInv, Ensured
  <1>8. OutcomeInv(c)'
    BY <1>0, <1>1, <1>3, Disks DEF OutcomeInv, Keeps, Abandoned
  <1>. QED  BY <1>0, <1>1, <1>4, <1>5, <1>6, <1>7, <1>8, StepKeeps

\* The store has the conversation; the task still waits at its offer.
LEMMA PersistKeeps ==
  ASSUME IInv, NEW c \in Conversations, Persist(c)
  PROVE  IInv'
  <1>0. /\ caller[c] = "offered" /\ persisted' = persisted \cup {c}
        /\ caller' = [caller EXCEPT ![c] = "stored"]
        /\ UNCHANGED <<kind, disk, job, procs, left, touched, destroyed>>
    BY DEF Persist
  <1>1. /\ kind[c] \in {"isolated", "projectless"}
        /\ DiskInv(c) /\ OutcomeInv(c) /\ CallerInv(c) /\ TypeInv
        /\ Doing(c) \in {"none", "prepare", "remove"}
    BY IInvHas
  <1>2. /\ caller' \in [Conversations -> Callers] /\ caller'[c] = "stored"
        /\ \A d \in Conversations \ {c} : caller'[d] = caller[d]
    BY <1>0, <1>1 DEF TypeInv, Callers
  <1>3. /\ Doing(c)' = Doing(c) /\ At(c)' = At(c)
        /\ kind[c] = "isolated" => Doing(c) = "prepare" /\ At(c) = "offer"
    BY <1>0, <1>1, TaskStays DEF CallerInv, CreatorAt
  <1>4. CallerInv(c)'
    BY <1>0, <1>1, <1>2, <1>3, Creators DEF CallerInv
  <1>5. OutcomeInv(c)'
    BY <1>0, <1>1, <1>2, <1>3 DEF OutcomeInv, Keeps, Abandoned
  <1>6. Sound(kind[c], disk'[c]) /\ Ensured(At(c), disk'[c], procs'[c])
    BY <1>0, <1>1 DEF DiskInv
  <1>7. /\ disk' \in [Conversations -> Places] /\ procs' \in [Conversations -> Nat]
        /\ left' \in [Allowances -> Nat]
    BY <1>0, <1>1 DEF TypeInv
  <1>. QED  BY <1>0, <1>2, <1>4, <1>5, <1>6, <1>7, OutsideKeeps

\* The task learns that the workspace is kept.
LEMMA CommitKeeps ==
  ASSUME IInv, NEW c \in Conversations, Commit(c)
  PROVE  IInv'
  <1>0. /\ caller[c] = "stored" /\ caller' = [caller EXCEPT ![c] = "done"]
        /\ job' = IF job.c = c THEN Idle ELSE job
        /\ UNCHANGED <<kind, disk, persisted, procs, left, touched, destroyed>>
    BY DEF Commit
  <1>1. /\ kind[c] \in {"isolated", "projectless"} /\ destroyed \subseteq {"scratch"}
        /\ DiskInv(c) /\ OutcomeInv(c) /\ CallerInv(c) /\ TypeInv
        /\ Doing(c) \in {"none", "prepare", "remove"}
        /\ Doing(c) # "none" => job.c = c
        /\ Doing(c) = "none" => job.c # c \/ job = Idle
    BY IInvHas
  <1>2. /\ caller' \in [Conversations -> Callers] /\ caller'[c] = "done"
        /\ \A d \in Conversations \ {c} : caller'[d] = caller[d]
    BY <1>0, <1>1 DEF TypeInv, Callers
  <1>3. /\ kind[c] = "isolated" => Doing(c) = "prepare" /\ At(c) = "offer"
        /\ c \in persisted
    BY <1>1, <1>0 DEF CallerInv, CreatorAt
  <1>4. Doing(c)' = "none" /\ At(c)' = "none"
    BY <1>0 DEF Doing, At, Idle
  <1>5. TypeInv'
    BY <1>0, <1>1, <1>2 DEF TypeInv, Jobs, Idle
  <1>6. Only(c)
    BY <1>0, <1>2 DEF Only
  <1>7. CallerInv(c)'
    BY <1>0, <1>1, <1>2, <1>3, <1>4 DEF CallerInv
  <1>8. DiskInv(c)'
    BY <1>0, <1>1, <1>4 DEF DiskInv, Ensured
  <1>9. OutcomeInv(c)'
    BY <1>0, <1>1, <1>2, <1>3, <1>4, Disks DEF OutcomeInv, Keeps, Abandoned
  <1>. QED  BY <1>0, <1>1, <1>5, <1>6, <1>7, <1>8, <1>9, StepKeeps

\* The scratch directory of a conversation that is not kept goes.
LEMMA ScratchGoes ==
  ASSUME IInv, NEW c \in Conversations, caller[c] \in {"offered", "stored"},
         ScratchRemoved(c), UNCHANGED <<kind, job>>
  PROVE  /\ disk' \in [Conversations -> Places]
         /\ \A d \in Conversations \ {c} : disk'[d] = disk[d]
         /\ Sound(kind[c], disk'[c]) /\ Ensured(At(c), disk'[c], procs[c])
         /\ kind[c] = "isolated" => disk'[c] = disk[c]
         /\ kind[c] = "projectless" /\ c \notin touched => disk'[c] = Nothing
         /\ destroyed' \in {destroyed, destroyed \cup {"scratch"}}
  <1>1. /\ kind[c] \in {"isolated", "projectless"} /\ disk[c] \in Places /\ TypeInv
        /\ Sound(kind[c], disk[c]) /\ Ensured(At(c), disk[c], procs[c])
        /\ CallerInv(c) /\ OutcomeInv(c)
        /\ Doing(c) = "none" => At(c) = "none"
    BY IInvHas DEF DiskInv
  <1>2. CASE kind[c] = "isolated"
    <2>1. UNCHANGED <<disk, destroyed>>
      BY <1>2 DEF ScratchRemoved
    <2>. QED  BY <1>1, <1>2, <2>1 DEF TypeInv
  <1>3. CASE kind[c] = "projectless"
    <2>0. /\ disk' = [disk EXCEPT ![c].dir = {}]
          /\ destroyed' \in {destroyed, destroyed \cup {"scratch"}}
      BY <1>3 DEF ScratchRemoved
    <2>1. /\ disk' \in [Conversations -> Places] /\ disk'[c] \in Places
          /\ \A d \in Conversations \ {c} : disk'[d] = disk[d]
      BY <1>1, <2>0 DEF TypeInv, Places
    <2>2. /\ disk'[c].base = disk[c].base /\ disk'[c].branch = disk[c].branch
          /\ disk'[c].listed = disk[c].listed /\ disk'[c].dir = {}
          /\ disk'[c].quarantine = disk[c].quarantine /\ disk'[c].aside = disk[c].aside
      BY <1>1, <2>0 DEF TypeInv, Places
    <2>3. Sound("projectless", disk'[c])
      BY <1>1, <1>3, <2>2, TreeIs DEF Sound
    <2>4. Ensured(At(c), disk'[c], procs[c])
      <3>1. At(c) = "none"
        BY <1>1, <1>3 DEF CallerInv
      <3>. QED  BY <3>1 DEF Ensured
    <2>5. c \notin touched => disk'[c] = Nothing
      <3>1. SUFFICES ASSUME c \notin touched PROVE disk'[c] = Nothing
        OBVIOUS
      <3>2. disk[c] = Scratch
        BY <1>1, <1>3, <3>1 DEF OutcomeInv, CallerInv, Keeps, Abandoned
      <3>3. /\ disk'[c].base = FALSE /\ disk'[c].branch = "none"
            /\ disk'[c].listed = FALSE /\ disk'[c].dir = {}
            /\ disk'[c].quarantine = {} /\ disk'[c].aside = {}
        BY <2>2, <3>2 DEF Scratch, Row
      <3>. QED  BY <2>1, <3>3 DEF Places, Nothing
    <2>. QED  BY <1>3, <2>0, <2>1, <2>3, <2>4, <2>5
  <1>. QED  BY <1>1, <1>2, <1>3

\* A refusal: the scratch directory goes, the task that offered is told.
LEMMA RejectKeeps ==
  ASSUME IInv, NEW c \in Conversations, Reject(c)
  PROVE  IInv'
  <1>0. /\ caller[c] = "offered" /\ ScratchRemoved(c)
        /\ caller' = [caller EXCEPT ![c] = IF kind[c] = "isolated" THEN "rejected" ELSE "failed"]
        /\ UNCHANGED <<kind, job, persisted, procs, left, touched>>
    BY DEF Reject
  <1>1. /\ kind[c] \in {"isolated", "projectless"}
        /\ OutcomeInv(c) /\ CallerInv(c) /\ TypeInv
        /\ Doing(c) \in {"none", "prepare", "remove"}
    BY IInvHas
  <1>2. /\ caller' \in [Conversations -> Callers]
        /\ caller'[c] = IF kind[c] = "isolated" THEN "rejected" ELSE "failed"
        /\ \A d \in Conversations \ {c} : caller'[d] = caller[d]
    BY <1>0, <1>1 DEF TypeInv, Callers
  <1>3. /\ Doing(c)' = Doing(c) /\ At(c)' = At(c)
        /\ kind[c] = "isolated" => Doing(c) = "prepare" /\ At(c) = "offer"
        /\ kind[c] = "projectless" => Doing(c) = "none"
        /\ c \notin persisted
    BY <1>0, <1>1, TaskStays DEF CallerInv, CreatorAt
  <1>4. CallerInv(c)'
    BY <1>0, <1>1, <1>2, <1>3, Creators DEF CallerInv
  <1>5. OutcomeInv(c)'
    BY <1>0, <1>1, <1>2, <1>3, ScratchGoes DEF OutcomeInv, Keeps, Abandoned
  <1>6. procs' \in [Conversations -> Nat] /\ left' \in [Allowances -> Nat]
    BY <1>0, <1>1 DEF TypeInv
  <1>. QED  BY <1>0, <1>2, <1>4, <1>5, <1>6, ScratchGoes, OutsideKeeps

\* The future is dropped: the task stays, unless the future itself was at work.
LEMMA DropKeeps ==
  ASSUME IInv, NEW c \in Conversations, Drop(c)
  PROVE  IInv'
  <1>0. /\ caller[c] \in {"waiting", "resolving", "awaiting", "offered", "stored"}
        /\ caller' = [caller EXCEPT ![c] = "dropped"]
        /\ job' = IF caller[c] = "resolving" THEN Idle ELSE job
        /\ IF caller[c] \in {"offered", "stored"}
           THEN ScratchRemoved(c) ELSE UNCHANGED <<disk, destroyed>>
        /\ UNCHANGED <<kind, persisted, procs, left, touched>>
    BY DEF Drop
  <1>1. /\ kind[c] \in {"isolated", "projectless"} /\ destroyed \subseteq {"scratch"}
        /\ OutcomeInv(c) /\ CallerInv(c) /\ DiskInv(c) /\ TypeInv
        /\ Doing(c) \in {"none", "prepare", "remove"}
        /\ Doing(c) # "none" => job.c = c /\ At(c) = job.pc
        /\ Doing(c) = "none" => At(c) = "none"
        /\ caller[c] # "stored" => c \notin persisted
        /\ Doing(c) # "remove"
    BY <1>0, IInvHas DEF CallerInv
  <1>2. /\ caller' \in [Conversations -> Callers] /\ caller'[c] = "dropped"
        /\ \A d \in Conversations \ {c} : caller'[d] = caller[d]
        /\ ~Keeps(c)'
    BY <1>0, <1>1 DEF TypeInv, Callers, Keeps, Abandoned
  <1>3. CASE caller[c] = "resolving"
    <2>1. Doing(c) = "prepare" /\ At(c) = "resolve" /\ job.c = c /\ kind[c] = "isolated"
      BY <1>1, <1>3 DEF CallerInv, CreatorAt
    <2>2. Doing(c)' = "none" /\ At(c)' = "none"
      BY <1>0, <1>3 DEF Doing, At, Idle
    <2>3. TypeInv'
      BY <1>0, <1>1, <1>2, <1>3 DEF TypeInv, Jobs, Idle
    <2>4. Only(c)
      BY <1>0, <1>2, <1>3, <2>1 DEF Only
    <2>5. CallerInv(c)'
      BY <1>0, <1>1, <1>2, <2>1, <2>2 DEF CallerInv
    <2>6. DiskInv(c)'
      BY <1>0, <1>1, <1>3, <2>2 DEF DiskInv, Ensured
    <2>7. OutcomeInv(c)'
      BY <1>0, <1>1, <1>2, <1>3, <2>1, <2>2, Disks DEF OutcomeInv, Keeps, Abandoned
    <2>8. UNCHANGED destroyed
      BY <1>0, <1>3
    <2>. QED  BY <1>0, <1>1, <2>3, <2>4, <2>5, <2>6, <2>7, <2>8, StepKeeps
  <1>4. CASE caller[c] # "resolving"
    <2>1. UNCHANGED job /\ Doing(c)' = Doing(c) /\ At(c)' = At(c)
      BY <1>0, <1>4, TaskStays
    <2>2. CallerInv(c)'
      <3>1. Doing(c) = "prepare" => "dropped" \in CreatorAt(At(c))
        BY <1>0, <1>1, <1>4 DEF CallerInv, CreatorAt
      <3>2. Doing(c) # "remove"
        BY <1>0, <1>1 DEF CallerInv
      <3>. QED  BY <1>0, <1>1, <1>2, <2>1, <3>1, <3>2 DEF CallerInv
    <2>3. /\ disk' \in [Conversations -> Places]
          /\ \A d \in Conversations \ {c} : disk'[d] = disk[d]
          /\ Sound(kind[c], disk'[c]) /\ Ensured(At(c), disk'[c], procs[c])
          /\ kind[c] = "isolated" => disk'[c] = disk[c]
          /\ kind[c] = "projectless" /\ c \notin touched => disk'[c] = Nothing
          /\ destroyed' \in {destroyed, destroyed \cup {"scratch"}}
      <3>1. CASE caller[c] \in {"offered", "stored"}
        BY <1>0, <2>1, <3>1, ScratchGoes
      <3>2. CASE caller[c] \notin {"offered", "stored"}
        BY <1>0, <1>1, <3>2 DEF TypeInv, DiskInv, OutcomeInv, Keeps
      <3>. QED  BY <3>1, <3>2
    <2>4. OutcomeInv(c)'
      <3>1. CASE kind[c] = "projectless"
        BY <1>0, <1>2, <2>3, <3>1 DEF OutcomeInv
      <3>2. CASE kind[c] = "isolated" /\ Doing(c) = "none"
        <4>1. caller[c] = "waiting" /\ c \notin persisted
          BY <1>0, <1>1, <1>4, <3>2 DEF CallerInv
        <4>. QED  BY <1>0, <1>1, <1>2, <2>1, <2>3, <3>2, <4>1 DEF OutcomeInv, Keeps
      <3>3. CASE kind[c] = "isolated" /\ Doing(c) = "prepare"
        BY <1>0, <1>1, <2>1, <2>3, <3>3 DEF OutcomeInv
      <3>. QED  BY <1>1, <3>1, <3>2, <3>3
    <2>5. procs' \in [Conversations -> Nat] /\ left' \in [Allowances -> Nat]
      BY <1>0, <1>1 DEF TypeInv
    <2>. QED  BY <1>0, <1>2, <2>1, <2>2, <2>3, <2>4, <2>5, OutsideKeeps
  <1>. QED  BY <1>3, <1>4

\* Processes come and go while nothing works on the worktree, or go during it.
LEMMA ProcessKeeps ==
  ASSUME IInv, NEW c \in Conversations, Register(c) \/ Unregister(c)
  PROVE  IInv'
  <1>0. /\ UNCHANGED <<kind, disk, job, caller, persisted, left, touched, destroyed>>
        /\ \/ job = Idle /\ c \in persisted /\ procs' = [procs EXCEPT ![c] = @ + 1]
           \/ procs[c] > 0 /\ procs' = [procs EXCEPT ![c] = @ - 1]
    BY DEF Register, Unregister
  <1>1. /\ OutcomeInv(c) /\ CallerInv(c) /\ DiskInv(c) /\ TypeInv
        /\ procs[c] \in Nat
        /\ job = Idle => Doing(c) = "none" /\ At(c) = "none"
    BY IInvHas
  <1>2. /\ procs' \in [Conversations -> Nat] /\ procs'[c] \in Nat
        /\ \A d \in Conversations \ {c} : procs'[d] = procs[d]
    BY <1>0, <1>1 DEF TypeInv
  <1>3. Doing(c)' = Doing(c) /\ At(c)' = At(c)
    BY <1>0, TaskStays
  <1>4. CallerInv(c)'
    BY <1>0, <1>1, <1>2, <1>3 DEF CallerInv
  <1>5. OutcomeInv(c)'
    BY <1>0, <1>1, <1>3 DEF OutcomeInv, Keeps, Abandoned
  <1>6. Ensured(At(c), disk'[c], procs'[c])
    <2>1. CASE job = Idle
      BY <1>1, <2>1 DEF Ensured
    <2>2. CASE procs[c] > 0
      BY <1>0, <1>1, <2>2 DEF DiskInv, Ensured
    <2>. QED  BY <1>0, <2>1, <2>2
  <1>7. /\ Sound(kind[c], disk'[c]) /\ disk' \in [Conversations -> Places]
        /\ caller' \in [Conversations -> Callers] /\ left' \in [Allowances -> Nat]
    BY <1>0, <1>1 DEF TypeInv, DiskInv
  <1>. QED  BY <1>0, <1>2, <1>4, <1>5, <1>6, <1>7, OutsideKeeps

\* Somebody else changes the disk of a conversation: it is touched, and nothing
\* but its soundness is promised.
LEMMA OthersTouch ==
  ASSUME IInv, NEW c \in Conversations,
         UNCHANGED <<kind, job, caller, persisted, procs, destroyed>>,
         Spends("writes") \/ Spends("swaps"), Touches(c),
         disk' \in [Conversations -> Places],
         \A d \in Conversations \ {c} : disk'[d] = disk[d],
         Sound(kind[c], disk'[c]), Ensured(At(c), disk'[c], procs[c])
  PROVE  IInv'
  <1>1. /\ CallerInv(c) /\ TypeInv
        /\ Doing(c)' = Doing(c) /\ At(c)' = At(c)
    BY IInvHas, TaskStays
  <1>2. left' \in [Allowances -> Nat]
    BY <1>1, Counted DEF Allowances
  <1>3. CallerInv(c)'
    BY <1>1 DEF CallerInv
  <1>4. OutcomeInv(c)' /\ touched' = touched \cup {c}
    BY DEF OutcomeInv, Touches
  <1>5. /\ procs' \in [Conversations -> Nat] /\ procs'[c] = procs[c]
        /\ caller' \in [Conversations -> Callers]
    BY <1>1 DEF TypeInv
  <1>. QED  BY <1>2, <1>3, <1>4, <1>5, OutsideKeeps

\* A write makes no tree another's, and none more than there was.
LEMMA DirtiedIs ==
  ASSUME NEW place \in SUBSET [ours : BOOLEAN, work : SUBSET Work], NEW w \in Work
  PROVE  /\ Dirtied(place, w) \in SUBSET [ours : BOOLEAN, work : SUBSET Work]
         /\ HasOurs(Dirtied(place, w)) <=> HasOurs(place)
         /\ Single(place) => Single(Dirtied(place, w))
  <1>1. \A t \in place : /\ [t EXCEPT !.work = @ \cup {w}] \in [ours : BOOLEAN, work : SUBSET Work]
                         /\ [t EXCEPT !.work = @ \cup {w}].ours = t.ours
    OBVIOUS
  <1>2. \A u \in Dirtied(place, w) : \E t \in place : u = [t EXCEPT !.work = @ \cup {w}]
    BY DEF Dirtied
  <1>3. \A t \in place : [t EXCEPT !.work = @ \cup {w}] \in Dirtied(place, w)
    BY DEF Dirtied
  <1>4. Dirtied(place, w) \in SUBSET [ours : BOOLEAN, work : SUBSET Work]
    BY <1>1, <1>2
  <1>5. HasOurs(Dirtied(place, w)) <=> HasOurs(place)
    BY <1>1, <1>2, <1>3 DEF HasOurs
  <1>6. Single(place) => Single(Dirtied(place, w))
    BY <1>2 DEF Single
  <1>. QED  BY <1>4, <1>5, <1>6

\* A tree without a process is not written to where it is quarantined.
LEMMA WriteKeeps ==
  ASSUME IInv, NEW c \in Conversations, Write(c)
  PROVE  IInv'
  <1>0. /\ UNCHANGED <<kind, job, caller, persisted, procs, destroyed>>
        /\ Spends("writes") /\ Touches(c)
    BY DEF Write
  <1>1. /\ disk[c] \in Places /\ TypeInv /\ procs[c] \in Nat
        /\ Sound(kind[c], disk[c]) /\ Ensured(At(c), disk[c], procs[c])
    BY IInvHas DEF DiskInv
  <1>2. PICK w \in Work, place \in {"dir"} \cup (IF procs[c] > 0 THEN {"quarantine"} ELSE {}) :
          /\ disk[c][place] # {}
          /\ disk' = [disk EXCEPT ![c][place] = Dirtied(@, w)]
    BY DEF Write
  <1>. DEFINE k == disk[c]
              n == disk'[c]
  <1>3. CASE place = "dir"
    <2>1. /\ Dirtied(k.dir, w) \in SUBSET [ours : BOOLEAN, work : SUBSET Work]
          /\ HasOurs(Dirtied(k.dir, w)) <=> HasOurs(k.dir)
          /\ Single(k.dir) => Single(Dirtied(k.dir, w))
      BY <1>1, DirtiedIs DEF Places
    <2>2. disk' = [disk EXCEPT ![c].dir = Dirtied(@, w)]
      BY <1>2, <1>3
    <2>3. /\ disk' \in [Conversations -> Places]
          /\ \A d \in Conversations \ {c} : disk'[d] = disk[d]
      BY <1>1, <2>1, <2>2 DEF TypeInv, Places
    <2>4. /\ n.base = k.base /\ n.listed = k.listed /\ n.dir = Dirtied(k.dir, w)
          /\ n.quarantine = k.quarantine /\ n.aside = k.aside
      BY <1>1, <2>2 DEF TypeInv, Places
    <2>5. Sound(kind[c], n)
      BY <1>1, <2>1, <2>4 DEF Sound, Mine
    <2>6. Ensured(At(c), n, procs[c])
      BY <1>1, <2>1, <2>4 DEF Ensured, Mine
    <2>. QED  BY <1>0, <2>3, <2>5, <2>6, OthersTouch
  <1>4. CASE place = "quarantine"
    <2>0. procs[c] > 0 /\ k.quarantine # {}
      BY <1>2, <1>4
    <2>1. /\ Dirtied(k.quarantine, w) \in SUBSET [ours : BOOLEAN, work : SUBSET Work]
          /\ HasOurs(Dirtied(k.quarantine, w)) <=> HasOurs(k.quarantine)
          /\ Single(k.quarantine) => Single(Dirtied(k.quarantine, w))
      BY <1>1, DirtiedIs DEF Places
    <2>2. disk' = [disk EXCEPT ![c].quarantine = Dirtied(@, w)]
      BY <1>2, <1>4
    <2>3. /\ disk' \in [Conversations -> Places]
          /\ \A d \in Conversations \ {c} : disk'[d] = disk[d]
      BY <1>1, <2>1, <2>2 DEF TypeInv, Places
    <2>4. /\ n.base = k.base /\ n.listed = k.listed /\ n.dir = k.dir
          /\ n.quarantine = Dirtied(k.quarantine, w) /\ n.aside = k.aside
      BY <1>1, <2>2 DEF TypeInv, Places
    <2>5. Sound(kind[c], n)
      BY <1>1, <2>0, <2>1, <2>4 DEF Sound, Mine
    <2>6. Ensured(At(c), n, procs[c])
      BY <1>1, <2>0, <2>1, <2>4 DEF Ensured, Mine
    <2>. QED  BY <1>0, <2>3, <2>5, <2>6, OthersTouch
  <1>. QED  BY <1>2, <1>3, <1>4

\* A commit moves the branch, which is read again before it is deleted.
LEMMA CommitToBranchKeeps ==
  ASSUME IInv, NEW c \in Conversations, CommitToBranch(c)
  PROVE  IInv'
  <1>0. /\ UNCHANGED <<kind, job, caller, persisted, procs, destroyed>>
        /\ Spends("writes") /\ Touches(c)
        /\ disk' = [disk EXCEPT ![c].branch = "moved"]
    BY DEF CommitToBranch
  <1>1. /\ disk[c] \in Places /\ TypeInv
        /\ Sound(kind[c], disk[c]) /\ Ensured(At(c), disk[c], procs[c])
    BY IInvHas DEF DiskInv
  <1>2. /\ disk' \in [Conversations -> Places]
        /\ \A d \in Conversations \ {c} : disk'[d] = disk[d]
    BY <1>0, <1>1 DEF TypeInv, Places
  <1>3. /\ disk'[c].base = disk[c].base /\ disk'[c].listed = disk[c].listed
        /\ disk'[c].dir = disk[c].dir /\ disk'[c].quarantine = disk[c].quarantine
        /\ disk'[c].aside = disk[c].aside
    BY <1>0, <1>1 DEF TypeInv, Places
  <1>4. Sound(kind[c], disk'[c]) /\ Ensured(At(c), disk'[c], procs[c])
    BY <1>1, <1>3 DEF Sound, Ensured, Mine
  <1>. QED  BY <1>0, <1>2, <1>4, OthersTouch

\* A directory that takes the place of the tree is not the conversation's.
LEMMA SwapKeeps ==
  ASSUME IInv, NEW c \in Conversations, Swap(c, "dir") \/ Swap(c, "quarantine")
  PROVE  IInv'
  <1>0. /\ UNCHANGED <<kind, job, caller, persisted, procs, destroyed>>
        /\ Spends("swaps") /\ Touches(c) /\ kind[c] = "isolated" /\ disk[c].aside = {}
    BY DEF Swap
  <1>1. /\ disk[c] \in Places /\ TypeInv
        /\ Sound(kind[c], disk[c]) /\ Ensured(At(c), disk[c], procs[c])
    BY IInvHas DEF DiskInv
  <1>. DEFINE k == disk[c]
              n == disk'[c]
  <1>2. \A other \in {{}, Tree(FALSE, {"untracked"})} :
          /\ other \in SUBSET [ours : BOOLEAN, work : SUBSET Work]
          /\ ~HasOurs(other) /\ Single(other)
    <2>1. {} \in SUBSET [ours : BOOLEAN, work : SUBSET Work] /\ ~HasOurs({}) /\ Single({})
      BY DEF HasOurs, Single
    <2>2. [ours |-> FALSE, work |-> {"untracked"}] \in [ours : BOOLEAN, work : SUBSET Work]
      BY DEF Work
    <2>3. \A t \in Tree(FALSE, {"untracked"}) :
            t = [ours |-> FALSE, work |-> {"untracked"}]
      BY DEF Tree
    <2>4. /\ Tree(FALSE, {"untracked"}) \in SUBSET [ours : BOOLEAN, work : SUBSET Work]
          /\ ~HasOurs(Tree(FALSE, {"untracked"})) /\ Single(Tree(FALSE, {"untracked"}))
      BY <2>2, <2>3 DEF HasOurs, Single
    <2>. QED  BY <2>1, <2>4
  <1>3. CASE Swap(c, "dir")
    <2>1. PICK other \in {{}, Tree(FALSE, {"untracked"})} :
            disk' = [disk EXCEPT ![c] = [@ EXCEPT !.dir = other, !.aside = k.dir]]
      BY <1>3 DEF Swap
    <2>2. HasOurs(k.dir)
      BY <1>3 DEF Swap
    <2>3. /\ disk' \in [Conversations -> Places]
          /\ \A d \in Conversations \ {c} : disk'[d] = disk[d]
      BY <1>1, <1>2, <2>1 DEF TypeInv, Places
    <2>4. /\ n.base = k.base /\ n.listed = k.listed /\ n.dir = other
          /\ n.quarantine = k.quarantine /\ n.aside = k.dir
      BY <1>1, <2>1 DEF TypeInv, Places
    <2>5. Sound(kind[c], n)
      BY <1>0, <1>1, <1>2, <2>2, <2>4 DEF Sound, Mine
    <2>6. Ensured(At(c), n, procs[c])
      BY <1>1, <2>2, <2>4 DEF Ensured, Mine
    <2>. QED  BY <1>0, <2>3, <2>5, <2>6, OthersTouch
  <1>4. CASE Swap(c, "quarantine")
    <2>1. PICK other \in {{}, Tree(FALSE, {"untracked"})} :
            disk' = [disk EXCEPT ![c] = [@ EXCEPT !.quarantine = other, !.aside = k.quarantine]]
      BY <1>4 DEF Swap
    <2>2. HasOurs(k.quarantine)
      BY <1>4 DEF Swap
    <2>3. /\ disk' \in [Conversations -> Places]
          /\ \A d \in Conversations \ {c} : disk'[d] = disk[d]
      BY <1>1, <1>2, <2>1 DEF TypeInv, Places
    <2>4. /\ n.base = k.base /\ n.listed = k.listed /\ n.dir = k.dir
          /\ n.quarantine = other /\ n.aside = k.quarantine
      BY <1>1, <2>1 DEF TypeInv, Places
    <2>5. Sound(kind[c], n)
      BY <1>0, <1>1, <1>2, <2>2, <2>4 DEF Sound, Mine
    <2>6. Ensured(At(c), n, procs[c])
      BY <1>1, <1>2, <2>2, <2>4 DEF Ensured, Mine
    <2>. QED  BY <1>0, <2>3, <2>5, <2>6, OthersTouch
  <1>. QED  BY <1>3, <1>4

\* A crash leaves the disk as it is, and nobody at work.
LEMMA CrashKeeps ==
  ASSUME IInv, Crash
  PROVE  IInv'
  <1>0. /\ job' = Idle /\ caller' = [c \in Conversations |-> "idle"]
        /\ procs' = [c \in Conversations |-> 0] /\ touched' = Conversations
        /\ UNCHANGED <<kind, disk, persisted, destroyed>>
        /\ TypeInv /\ destroyed \subseteq {"scratch"}
    BY DEF Crash, IInv
  <1>1. left' \in [Allowances -> Nat]
    <2>1. Spends("crashes") /\ "crashes" \in Allowances
      BY DEF Crash, Allowances
    <2>. QED  BY <1>0, <2>1, Counted
  <1>2. TypeInv'
    BY <1>0, <1>1 DEF TypeInv, Jobs, Idle, Callers
  <1>3. ASSUME NEW c \in Conversations
        PROVE  ConversationInv(c)'
    <2>1. Doing(c)' = "none" /\ At(c)' = "none"
      BY <1>0 DEF Doing, At, Idle
    <2>2. Sound(kind[c], disk[c])
      BY IInvHas DEF DiskInv
    <2>3. CallerInv(c)'
      BY <1>0, <2>1 DEF CallerInv
    <2>4. DiskInv(c)'
      BY <1>0, <2>1, <2>2 DEF DiskInv, Ensured
    <2>5. OutcomeInv(c)'
      BY <1>0 DEF OutcomeInv
    <2>. QED  BY <2>3, <2>4, <2>5 DEF ConversationInv
  <1>. QED  BY <1>0, <1>2, <1>3 DEF IInv

-----------------------------------------------------------------------------
(* The invariant.                                                          *)

\* Nothing has been made, nobody has asked.
LEMMA InitHolds ==
  ASSUME Init
  PROVE  IInv
  <1>0. /\ disk = [c \in Conversations |-> Nothing] /\ job = Idle
        /\ caller = [c \in Conversations |-> "idle"] /\ persisted = {}
        /\ procs = [c \in Conversations |-> 0] /\ touched = {} /\ destroyed = {}
    BY DEF Init
  <1>1. /\ kind \in [Conversations -> {"isolated", "projectless"}]
        /\ left \in [Allowances -> Nat]
    BY ScopesAssumption DEF Init, Allowances
  <1>2. Nothing \in Places
    BY DEF Nothing, Places
  <1>3. TypeInv
    BY <1>0, <1>1, <1>2 DEF TypeInv, Jobs, Idle, Callers
  <1>4. ASSUME NEW c \in Conversations
        PROVE  ConversationInv(c)
    <2>1. Doing(c) = "none" /\ At(c) = "none" /\ kind[c] \in {"isolated", "projectless"}
      BY <1>0, <1>1 DEF Doing, At, Idle
    <2>2. CallerInv(c)
      BY <1>0, <2>1 DEF CallerInv
    <2>3. DiskInv(c)
      <3>1. Sound(kind[c], Nothing)
        BY TreeIs DEF Sound, Mine, Nothing
      <3>. QED  BY <1>0, <2>1, <3>1 DEF DiskInv, Ensured
    <2>4. OutcomeInv(c)
      BY <1>0, <2>1 DEF OutcomeInv, Keeps, Abandoned
    <2>. QED  BY <2>2, <2>3, <2>4 DEF ConversationInv
  <1>. QED  BY <1>0, <1>3, <1>4 DEF IInv

\* Every step keeps it.
LEMMA NextKeeps ==
  ASSUME IInv, [Next]_vars
  PROVE  IInv'
  <1>1. CASE Task
    BY <1>1, ResolveKeeps, RecordBaseKeeps, AddWorktreeKeeps, DeliverKeeps,
       UnacknowledgedKeeps, InventoryKeeps, QuarantineKeeps, FinalCheckKeeps,
       RestoreKeeps, DeleteKeeps, RemoveMetadataKeeps, ReadBranchKeeps,
       DeleteReferencesKeeps DEF Task
  <1>2. ASSUME NEW c \in Conversations,
               \/ Begin(c) \/ CreateScratch(c) \/ StartPreparation(c) \/ Caller(c)
               \/ Drop(c) \/ StartRemoval(c)
        PROVE  IInv'
    BY <1>2, BeginKeeps, CreateScratchKeeps, StartPreparationKeeps, PersistKeeps,
       CommitKeeps, RejectKeeps, DropKeeps, StartRemovalKeeps DEF Caller
  <1>3. ASSUME NEW c \in Conversations,
               \/ Register(c) \/ Unregister(c) \/ Write(c) \/ CommitToBranch(c)
               \/ Swap(c, "dir") \/ Swap(c, "quarantine")
        PROVE  IInv'
    BY <1>3, ProcessKeeps, WriteKeeps, CommitToBranchKeeps, SwapKeeps
  <1>4. CASE Crash
    BY <1>4, CrashKeeps
  <1>5. CASE UNCHANGED vars
    <2>1. TypeInv' /\ destroyed' \subseteq {"scratch"}
      BY <1>5 DEF vars, IInv, TypeInv
    <2>2. ASSUME NEW c \in Conversations
          PROVE  ConversationInv(c)'
      <3>1. CallerInv(c) /\ DiskInv(c) /\ OutcomeInv(c)
        BY IInvHas
      <3>2. Doing(c)' = Doing(c) /\ At(c)' = At(c)
        BY <1>5, TaskStays DEF vars
      <3>3. CallerInv(c)'
        BY <1>5, <3>1, <3>2 DEF vars, CallerInv
      <3>4. DiskInv(c)' /\ OutcomeInv(c)'
        BY <1>5, <3>1, <3>2 DEF vars, DiskInv, OutcomeInv, Keeps, Abandoned
      <3>. QED  BY <3>3, <3>4 DEF ConversationInv
    <2>. QED  BY <2>1, <2>2 DEF IInv
  <1>. QED  BY <1>1, <1>2, <1>3, <1>4, <1>5 DEF Next

\* What holds of every reachable state: types, who waits for whom, one tree per
\* conversation that Git lists and the marker names, and what the task that
\* holds the gate has made sure of.
THEOREM InductiveInvariant == Spec => []IInv
  BY InitHolds, NextKeeps, PTL DEF Spec

\* No removal or rollback destroys a change, a file or a commit that exists
\* nowhere else, or the directory of a registered process (remove_owned,
\* rollback_cancelled_worktree).
THEOREM WorkKept == Spec => []WorkIsKept
  <1>1. IInv => WorkIsKept
    BY DEF IInv, WorkIsKept
  <1>. QED  BY <1>1, InductiveInvariant, PTL

\* One tree at most is the conversation's own.
LEMMA TypesFollow ==
  ASSUME IInv
  PROVE  TypeOK
  <1>1. /\ disk \in [Conversations -> Places] /\ job.c \in Conversations \cup {NoOne}
        /\ persisted \subseteq Conversations
    BY DEF IInv, TypeInv, Jobs
  <1>2. ASSUME NEW c \in Conversations,
               NEW own, own = {place \in {"dir", "quarantine", "aside"} : HasOurs(disk[c][place])}
        PROVE  Cardinality(own) <= 1
    <2>1. /\ ~(HasOurs(disk[c].dir) /\ HasOurs(disk[c].quarantine))
          /\ ~(HasOurs(disk[c].dir) /\ HasOurs(disk[c].aside))
          /\ ~(HasOurs(disk[c].quarantine) /\ HasOurs(disk[c].aside))
      BY IInvHas DEF DiskInv, Sound
    <2>2. CASE own = {}
      BY <2>2, FS_EmptySet
    <2>3. CASE \E place : own = {place}
      BY <2>3, FS_Singleton
    <2>4. /\ HasOurs(disk[c].dir) => own = {"dir"}
          /\ HasOurs(disk[c].quarantine) => own = {"quarantine"}
          /\ HasOurs(disk[c].aside) => own = {"aside"}
      BY <1>2, <2>1
    <2>5. own = {} \/ \E place : own = {place}
      BY <1>2, <2>4
    <2>. QED  BY <2>2, <2>3, <2>5
  <1>. QED  BY <1>1, <1>2 DEF TypeOK

\* The marker and the branch, and nothing else
LEMMA KeptIs == Kept = [Nothing EXCEPT !.base = TRUE, !.branch = "base"]
  <1>1. ASSUME NEW k \in Places, k.listed = FALSE, k.dir = {}, k.quarantine = {}, k.aside = {},
               NEW n, n = [k EXCEPT !.base = TRUE, !.branch = "base"]
        PROVE  n = Kept
    <2>1. n \in Places
      BY <1>1 DEF Places
    <2>2. /\ n.base = TRUE /\ n.branch = "base" /\ n.listed = FALSE
          /\ n.dir = {} /\ n.quarantine = {} /\ n.aside = {}
      BY <1>1 DEF Places
    <2>. QED  BY <2>1, <2>2 DEF Places, Kept, Row
  <1>2. /\ Nothing \in Places /\ Nothing.listed = FALSE /\ Nothing.dir = {}
        /\ Nothing.quarantine = {} /\ Nothing.aside = {}
    BY DEF Nothing, Places
  <1>. QED  BY <1>1, <1>2

\* Whatever the application made is accounted for, after a crash too: the marker
\* outlives the tree, what was not kept leaves nothing behind, and a conversation
\* in the store has its workspace until that is removed whole (prepare_for_persistence,
\* PreparedWorkspace, remove_owned).
THEOREM DiskAccounted == Spec => []DiskIsAccountedFor
  <1>1. ASSUME IInv PROVE EvidenceOutlivesTheTree
    <2>1. ASSUME NEW c \in Conversations, kind[c] = "isolated",
                 disk[c].listed \/ HasOurs(disk[c].dir)
          PROVE  disk[c].base
      BY <1>1, <2>1, IInvHas DEF DiskInv, Sound, Mine
    <2>. QED  BY <2>1 DEF EvidenceOutlivesTheTree
  <1>2. ASSUME IInv PROVE OutcomeMatchesDisk
    <2>1. ASSUME NEW c \in Conversations, Settled(c)
          PROVE  /\ caller[c] \in {"failed", "dropped"} => disk[c] = Nothing
                 /\ c \in persisted /\ ~Abandoned(c) =>
                      CASE kind[c] = "isolated"    -> Owned(c) \/ Removed(c)
                        [] kind[c] = "projectless" -> HasOurs(disk[c].dir)
      <3>1. /\ Doing(c) = "none" /\ c \notin touched
            /\ OutcomeInv(c) /\ CallerInv(c) /\ kind[c] \in {"isolated", "projectless"}
            /\ Keeps(c) <=> c \in persisted /\ ~Abandoned(c)
            /\ caller[c] \in {"failed", "dropped"} => ~Keeps(c) /\ caller[c] # "offered"
        BY <1>2, <2>1, IInvHas DEF Settled, Doing, Keeps, Abandoned, CallerInv
      <3>2. CASE kind[c] = "isolated"
        <4>1. IF Keeps(c) THEN disk[c] \in {Whole, Kept} ELSE disk[c] = Nothing
          BY <3>1, <3>2 DEF OutcomeInv
        <4>2. disk[c] = Whole => Owned(c)
          BY RowsAre, TreeIs DEF Owned, Registered
        <4>3. disk[c] = Kept => Removed(c)
          <5>1. Kept = [Nothing EXCEPT !.base = TRUE, !.branch = "base"]
            BY KeptIs
          <5>. QED  BY <5>1 DEF Removed
        <4>. QED  BY <3>1, <3>2, <4>1, <4>2, <4>3
      <3>3. CASE kind[c] = "projectless"
        <4>1. Scratch.dir = Tree(TRUE, {})
          BY DEF Scratch, Row
        <4>. QED  BY <3>1, <3>3, <4>1, TreeIs DEF OutcomeInv
      <3>. QED  BY <3>1, <3>2, <3>3
    <2>. QED  BY <2>1 DEF OutcomeMatchesDisk
  <1>3. IInv => DiskIsAccountedFor
    BY <1>1, <1>2, TypesFollow DEF DiskIsAccountedFor
  <1>. QED  BY <1>3, InductiveInvariant, PTL
=============================================================================
