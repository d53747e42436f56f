------------------------------ MODULE Workspace ------------------------------
(* The workspaces of conversations (workspace.rs, workspace/owned_fs.rs): an  *)
(* isolated conversation gets a Git worktree of its own, a projectless one a   *)
(* scratch directory.  A preparation is offered to its caller and rolled back  *)
(* when the caller does not keep it; an owned worktree is removed only when    *)
(* nothing in it can be lost.  Preparations, rollbacks and removals exclude    *)
(* each other and the registration of processes through one gate.             *)
(*                                                                          *)
(* Everyone else may write to the worktree, commit to its branch and put other *)
(* directories in the place of those the application opened; the application  *)
(* may crash between any two steps.                                         *)
EXTENDS Naturals, FiniteSets

CONSTANTS
  Conversations,
  NoOne,
  Scopes   \* what may happen: attempts, removals, writes, swaps, faults, crashes

ASSUME ScopesAssumption ==
  Scopes \subseteq [Conversations -> {"isolated", "projectless"}]
                   \X [{"attempts", "removals", "writes", "swaps", "faults", "crashes"} -> Nat]

VARIABLES
  kind,       \* the kind of workspace a conversation asks for
  disk,       \* what Git and the file system hold for a conversation
  job,        \* the task that has the gate for writing
  caller,     \* the future that creates the conversation
  persisted,  \* conversations in the store
  procs,      \* registered processes of a workspace
  left,       \* what may still happen
  touched,    \* conversations whose disk somebody else or a failure changed
  destroyed   \* what was lost

vars == <<kind, disk, job, caller, persisted, procs, left, touched, destroyed>>

-----------------------------------------------------------------------------
(* A place on disk holds no tree or one.                                    *)

Work == {"modified", "untracked"}

Tree(ours, work) == {[ours |-> ours, work |-> work]}

HasOurs(place) == \E t \in place : t.ours

\* base: refs/prompting-time/bases/<conversation>; branch: where the branch of
\* the worktree is; listed: the entry of `git worktree list`.
Nothing == [base |-> FALSE, branch |-> "none", listed |-> FALSE,
            dir |-> {}, quarantine |-> {}, aside |-> {}]

\* worktree_registration
Registered(c) == disk[c].listed

\* Registered, with the marker of its base, and the directory that has the path
\* is the one that Git's records of the worktree are bound to.
Owned(c) == Registered(c) /\ HasOurs(disk[c].dir) /\ disk[c].base

Idle == [kind |-> "none", c |-> NoOne, pc |-> "none", foreign |-> FALSE]

Goes(pc) == job' = [job EXCEPT !.pc = pc]

\* The task ends and drops its reservation; a caller that awaits it learns that
\* it failed.
Ends ==
  /\ job' = Idle
  /\ caller' = [caller EXCEPT ![job.c] = IF @ \in {"awaiting", "rejected"} THEN "failed" ELSE @]

Spends(what) == left[what] > 0 /\ left' = [left EXCEPT ![what] = @ - 1]

Touches(c) == touched' = touched \cup {c}

\* A Git command or a file operation fails.
Fault == Spends("faults") /\ Touches(job.c)

-----------------------------------------------------------------------------
(* Preparation.                                                             *)

\* prepare_for_persistence waits for the gate.  Behind a task of its own
\* conversation it would do nothing else, so it begins after it.
Begin(c) ==
  /\ job.c # c
  /\ caller[c] \in {"idle", "failed", "dropped"}
  /\ c \notin persisted
  /\ Spends("attempts")
  /\ caller' = [caller EXCEPT ![c] = "waiting"]
  /\ UNCHANGED <<kind, disk, job, persisted, procs, touched, destroyed>>

\* create_scratch_workspace_nofollow; the gate is free again when it returns.
CreateScratch(c) ==
  /\ caller[c] = "waiting"
  /\ kind[c] = "projectless"
  /\ job = Idle
  /\ IF disk[c].dir = {}
     THEN /\ disk' = [disk EXCEPT ![c].dir = Tree(TRUE, {})]
          /\ caller' = [caller EXCEPT ![c] = "offered"]
     ELSE /\ caller' = [caller EXCEPT ![c] = "failed"]
          /\ UNCHANGED disk
  /\ UNCHANGED <<kind, job, persisted, procs, left, touched, destroyed>>

StartPreparation(c) ==
  /\ caller[c] = "waiting"
  /\ kind[c] = "isolated"
  /\ job = Idle
  /\ job' = [Idle EXCEPT !.kind = "prepare", !.c = c, !.pc = "resolve"]
  /\ caller' = [caller EXCEPT ![c] = "resolving"]
  /\ UNCHANGED <<kind, disk, persisted, procs, left, touched, destroyed>>

Becomes(state) == caller' = [caller EXCEPT ![job.c] = state]

\* A marker whose worktree was never added
Stranded(c) == disk[c] = [Nothing EXCEPT !.base = TRUE, !.aside = disk[c].aside,
                                        !.quarantine = disk[c].quarantine]

\* What the marker and the inventory say: nothing yet, an owned worktree to
\* recover, a marker that was stranded, or a conflict.
Resolve ==
  LET marked == disk[job.c].base IN
  /\ job.pc = "resolve"
  /\ \/ ~marked /\ Goes("record") /\ Becomes("awaiting") /\ UNCHANGED <<left, touched>>
     \/ Owned(job.c) /\ Goes("offer") /\ Becomes("offered") /\ UNCHANGED <<left, touched>>
     \/ Stranded(job.c) /\ Goes("add") /\ Becomes("awaiting") /\ UNCHANGED <<left, touched>>
     \/ /\ marked /\ ~Owned(job.c) /\ ~Stranded(job.c)
        /\ job' = Idle /\ Becomes("failed") /\ UNCHANGED <<left, touched>>
     \/ Fault /\ job' = Idle /\ Becomes("failed")
  /\ UNCHANGED <<kind, disk, persisted, procs, destroyed>>

\* create_owned_worktree, in the task: first the marker ...
RecordBase ==
  /\ job.pc = "record"
  /\ \/ disk' = [disk EXCEPT ![job.c].base = TRUE] /\ Goes("add")
        /\ UNCHANGED <<caller, left, touched>>
     \/ Fault /\ Ends /\ UNCHANGED disk
  /\ UNCHANGED <<kind, persisted, procs, destroyed>>

\* ... then the worktree with its branch.  A command that fails or is killed at
\* its deadline may have done nothing, everything, or half of the checkout.
AddWorktree ==
  LET k == disk[job.c]
      free == k.branch = "none" /\ ~k.listed /\ k.dir = {}
      Made(work) == [disk EXCEPT ![job.c] = [@ EXCEPT !.branch = "base", !.listed = TRUE,
                                                      !.dir = Tree(TRUE, work)]]
  IN /\ job.pc = "add"
     /\ \/ free /\ disk' = Made({}) /\ Goes("deliver") /\ UNCHANGED <<left, touched>>
        \/ ~free /\ Goes("inventory") /\ UNCHANGED <<disk, left, touched>>
        \/ /\ Spends("faults") /\ Goes("inventory")
           /\ \/ UNCHANGED <<disk, touched>>
              \/ free /\ disk' = Made({}) /\ UNCHANGED touched
              \/ free /\ disk' = Made({"modified"}) /\ Touches(job.c)
     /\ UNCHANGED <<kind, caller, persisted, procs, destroyed>>

\* deliver_prepared_worktree: some directory has the path, and the result is sent.
Deliver ==
  /\ job.pc = "deliver"
  /\ IF disk[job.c].dir # {} /\ caller[job.c] = "awaiting"
     THEN Goes("offer") /\ Becomes("offered")
     ELSE Goes("inventory") /\ UNCHANGED caller
  /\ UNCHANGED <<kind, disk, persisted, procs, left, touched, destroyed>>

(* Mutant: only an explicit refusal ends the wait for the acknowledgment. *)
OnlyRejected ==
  /\ job.pc = "offer"
  /\ caller[job.c] = "rejected"
  /\ Goes("inventory")
  /\ UNCHANGED <<kind, disk, caller, persisted, procs, left, touched, destroyed>>

\* The acknowledgment is dropped.
Unacknowledged ==
  /\ job.pc = "offer"
  /\ caller[job.c] \in {"dropped", "rejected"}
  /\ Goes("inventory")
  /\ UNCHANGED <<kind, disk, caller, persisted, procs, left, touched, destroyed>>

-----------------------------------------------------------------------------
(* The caller: create_conversation_with_workspace.                           *)

\* remove_scratch_workspace_nofollow: the directory goes with what is in it.
ScratchRemoved(c) ==
  LET lost == procs[c] > 0 \/ \E t \in disk[c].dir : t.work # {} IN
  IF kind[c] = "projectless"
  THEN /\ disk' = [disk EXCEPT ![c].dir = {}]
       /\ destroyed' = destroyed \cup (IF lost THEN {"scratch"} ELSE {})
  ELSE UNCHANGED <<disk, destroyed>>

\* COMMIT takes effect in the store; the future that waits for it does not know
\* it before it runs again, and others may use the conversation meanwhile.
Persist(c) ==
  /\ caller[c] = "offered"
  /\ persisted' = persisted \cup {c}
  /\ caller' = [caller EXCEPT ![c] = "stored"]
  /\ UNCHANGED <<kind, disk, job, procs, left, touched, destroyed>>

\* The future runs again: PreparedWorkspace::commit
Commit(c) ==
  /\ caller[c] = "stored"
  /\ caller' = [caller EXCEPT ![c] = "done"]
  /\ job' = IF job.c = c THEN Idle ELSE job
  /\ UNCHANGED <<kind, disk, persisted, procs, left, touched, destroyed>>

\* The store refuses: PreparedWorkspace::rollback.
Reject(c) ==
  /\ caller[c] = "offered"
  /\ caller' = [caller EXCEPT ![c] = IF kind[c] = "isolated" THEN "rejected" ELSE "failed"]
  /\ ScratchRemoved(c)
  /\ UNCHANGED <<kind, job, persisted, procs, left, touched>>

\* The future is dropped: while it resolves it holds the gate itself; later the
\* task does, and finds nobody (PreparedWorkspace::drop).  The store may have
\* committed, or commit yet what waits in its queue, which is the same: nothing
\* here asks the store.
Drop(c) ==
  /\ caller[c] \in {"waiting", "resolving", "awaiting", "offered", "stored"}
  /\ caller' = [caller EXCEPT ![c] = "dropped"]
  /\ job' = IF caller[c] = "resolving" THEN Idle ELSE job
  /\ IF caller[c] \in {"offered", "stored"}
     THEN ScratchRemoved(c)
     ELSE UNCHANGED <<disk, destroyed>>
  /\ UNCHANGED <<kind, persisted, procs, left, touched>>

-----------------------------------------------------------------------------
(* Rollback and removal: rollback_cancelled_worktree and remove_owned.       *)

StartRemoval(c) ==
  /\ c \in persisted
  /\ kind[c] = "isolated"
  /\ job = Idle
  /\ Spends("removals")
  /\ job' = [Idle EXCEPT !.kind = "remove", !.c = c, !.pc = "inventory"]
  /\ UNCHANGED <<kind, disk, caller, persisted, procs, touched, destroyed>>

\* What a rollback finds when there is no worktree to remove
Unmade(c) == job.kind = "prepare" /\ disk[c].dir = {} /\ ~Registered(c)

\* What is not this conversation's is left alone: removal_target and the
\* validation of the rollback, which also clears a marker without a worktree.
Inventory ==
  /\ job.pc = "inventory"
  /\ \/ Owned(job.c) /\ Goes("quarantine") /\ UNCHANGED <<caller, left, touched>>
     \/ Unmade(job.c) /\ Goes("branch") /\ UNCHANGED <<caller, left, touched>>
     \/ ~Owned(job.c) /\ ~Unmade(job.c) /\ Ends /\ UNCHANGED <<left, touched>>
     \/ Fault /\ Ends
  /\ UNCHANGED <<kind, disk, persisted, procs, destroyed>>

\* quarantine_owned_tree: a rename that replaces nothing; what turns out to be
\* another directory than the one that was validated goes back.
Quarantine ==
  LET k == disk[job.c] IN
  /\ job.pc = "quarantine"
  /\ IF k.dir = {} \/ k.quarantine # {}
     THEN Ends /\ UNCHANGED disk
     ELSE /\ disk' = [disk EXCEPT ![job.c] = [@ EXCEPT !.dir = {}, !.quarantine = k.dir]]
          /\ job' = [job EXCEPT !.pc = IF HasOurs(k.dir) THEN "check" ELSE "restore",
                                !.foreign = ~HasOurs(k.dir)]
          /\ UNCHANGED caller
  /\ UNCHANGED <<kind, persisted, procs, left, touched, destroyed>>

\* The tree that was opened, wherever it is now.
OursOf(k) == CHOOSE t \in k.dir \cup k.quarantine \cup k.aside : t.ours

\* descriptor_bound_cleanup_eligibility, with inspect_indexed_contents
Blocked(c, active) ==
  LET k == disk[c] IN
  ~k.base \/ OursOf(k).work # {} \/ k.branch # "base" \/ active

\* Only a removal asks for registered processes.
FinalCheck ==
  /\ job.pc = "check"
  /\ \/ /\ Goes(IF Blocked(job.c, job.kind = "remove" /\ procs[job.c] > 0) THEN "restore" ELSE "delete")
        /\ UNCHANGED <<left, touched>>
     \/ Fault /\ Goes("restore")
  /\ UNCHANGED <<kind, disk, caller, persisted, procs, destroyed>>

\* QuarantinedOwnedDirectory::restore, restore_quarantined_entry: the tree stays
\* in quarantine when it or its place was taken.
Restore ==
  LET k == disk[job.c] IN
  /\ job.pc = "restore"
  /\ IF (job.foreign \/ HasOurs(k.quarantine)) /\ k.dir = {}
     THEN disk' = [disk EXCEPT ![job.c] = [@ EXCEPT !.dir = k.quarantine, !.quarantine = {}]]
     ELSE UNCHANGED disk
  /\ Ends
  /\ UNCHANGED <<kind, persisted, procs, left, touched, destroyed>>

\* QuarantinedOwnedDirectory::remove, for the tree that was inspected
Delete ==
  LET k == disk[job.c] IN
  /\ job.pc = "delete"
  /\ IF HasOurs(k.quarantine)
     THEN /\ disk' = [disk EXCEPT ![job.c].quarantine = {}]
          /\ destroyed' = destroyed \cup UNION {t.work : t \in k.quarantine}
                                    \cup (IF procs[job.c] > 0 THEN {"running"} ELSE {})
          /\ Goes("metadata")
          /\ UNCHANGED caller
     ELSE Ends /\ UNCHANGED <<disk, destroyed>>
  /\ UNCHANGED <<kind, persisted, procs, left, touched>>

(* Mutant: a rollback forgets the branch and the marker. *)
RemoveMetadataOnly ==
  /\ job.pc = "metadata"
  /\ disk' = [disk EXCEPT ![job.c].listed = FALSE]
  /\ Ends
  /\ UNCHANGED <<kind, persisted, procs, left, touched, destroyed>>

\* remove_worktree_metadata_nofollow; a removal keeps the branch and the marker.
RemoveMetadata ==
  /\ job.pc = "metadata"
  /\ \/ /\ disk' = [disk EXCEPT ![job.c].listed = FALSE]
        /\ IF job.kind = "remove" THEN Ends ELSE Goes("branch") /\ UNCHANGED caller
        /\ UNCHANGED <<left, touched>>
     \/ Fault /\ Ends /\ UNCHANGED disk
  /\ UNCHANGED <<kind, persisted, procs, destroyed>>

\* The branch that is still at the base is discarded with the marker.
ReadBranch ==
  /\ job.pc = "branch"
  /\ \/ disk[job.c].branch = "moved" /\ Ends /\ UNCHANGED <<left, touched>>
     \/ disk[job.c].branch = "base" /\ Goes("deleteBranch") /\ UNCHANGED <<caller, left, touched>>
     \/ disk[job.c].branch = "none" /\ Goes("verifyNone") /\ UNCHANGED <<caller, left, touched>>
     \/ Fault /\ Ends
  /\ UNCHANGED <<kind, disk, persisted, procs, destroyed>>

(* Mutant: the references are deleted whatever they have become. *)
DeleteReferencesBlindly ==
  /\ job.pc \in {"deleteBranch", "verifyNone"}
  /\ disk' = [disk EXCEPT ![job.c] = [@ EXCEPT !.base = FALSE, !.branch = "none"]]
  /\ destroyed' = destroyed \cup (IF disk[job.c].branch = "moved" THEN {"commits"} ELSE {})
  /\ Ends
  /\ UNCHANGED <<kind, persisted, procs, left, touched>>

\* cancelled_reference_transaction: all or nothing, against the values read
DeleteReferences ==
  LET expected == IF job.pc = "deleteBranch" THEN "base" ELSE "none" IN
  /\ job.pc \in {"deleteBranch", "verifyNone"}
  /\ \/ /\ disk[job.c].branch = expected
        /\ disk' = [disk EXCEPT ![job.c] = [@ EXCEPT !.base = FALSE, !.branch = "none"]]
        /\ UNCHANGED <<left, touched>>
     \/ disk[job.c].branch # expected /\ UNCHANGED <<disk, left, touched>>
     \/ Fault /\ UNCHANGED disk
  /\ Ends
  /\ UNCHANGED <<kind, persisted, procs, destroyed>>

-----------------------------------------------------------------------------
(* Processes.                                                               *)

\* OwnedProcessRegistry::register: not while the gate is held for writing
Register(c) ==
  /\ job = Idle
  /\ c \in persisted
  /\ disk[c].dir # {}
  /\ procs[c] = 0
  /\ procs' = [procs EXCEPT ![c] = @ + 1]
  /\ UNCHANGED <<kind, disk, job, caller, persisted, left, touched, destroyed>>

\* OwnedProcessRegistration::drop
Unregister(c) ==
  /\ procs[c] > 0
  /\ procs' = [procs EXCEPT ![c] = @ - 1]
  /\ UNCHANGED <<kind, disk, job, caller, persisted, left, touched, destroyed>>

-----------------------------------------------------------------------------
(* Everyone else.                                                           *)

Dirtied(place, w) == {[t EXCEPT !.work = @ \cup {w}] : t \in place}

\* A registered process works in the tree wherever it is, others through its
\* path.
Write(c) ==
  /\ kind[c] = "projectless" => c \in persisted
  /\ \E w \in Work, place \in {"dir"} \cup (IF procs[c] > 0 THEN {"quarantine"} ELSE {}) :
       /\ disk[c][place] # {}
       /\ w \notin UNION {t.work : t \in disk[c][place]}
       /\ disk' = [disk EXCEPT ![c][place] = Dirtied(@, w)]
  /\ Spends("writes")
  /\ Touches(c)
  /\ UNCHANGED <<kind, job, caller, persisted, procs, destroyed>>

\* A commit in the worktree or in another checkout of its branch
CommitToBranch(c) ==
  /\ disk[c].branch = "base"
  /\ disk' = [disk EXCEPT ![c].branch = "moved"]
  /\ Spends("writes")
  /\ Touches(c)
  /\ UNCHANGED <<kind, job, caller, persisted, procs, destroyed>>

\* Another directory takes the place of the tree, which is put aside.
Swap(c, place) ==
  /\ kind[c] = "isolated"
  /\ HasOurs(disk[c][place])
  /\ disk[c].aside = {}
  /\ \E other \in {{}, Tree(FALSE, {"untracked"})} :
       disk' = [disk EXCEPT ![c] = [@ EXCEPT ![place] = other, !.aside = disk[c][place]]]
  /\ Spends("swaps")
  /\ Touches(c)
  /\ UNCHANGED <<kind, job, caller, persisted, procs, destroyed>>

Crash ==
  /\ Spends("crashes")
  /\ job' = Idle
  /\ caller' = [c \in Conversations |-> "idle"]
  /\ procs' = [c \in Conversations |-> 0]
  /\ touched' = Conversations
  /\ UNCHANGED <<kind, disk, persisted, destroyed>>

-----------------------------------------------------------------------------
Init ==
  /\ \E scope \in Scopes : kind = scope[1] /\ left = scope[2]
  /\ disk = [c \in Conversations |-> Nothing]
  /\ job = Idle
  /\ caller = [c \in Conversations |-> "idle"]
  /\ persisted = {}
  /\ procs = [c \in Conversations |-> 0]
  /\ touched = {}
  /\ destroyed = {}

\* The steps of the task that holds the gate
Task ==
  \/ Resolve \/ RecordBase \/ AddWorktree \/ Deliver \/ Unacknowledged
  \/ Inventory \/ Quarantine \/ FinalCheck \/ Restore \/ Delete \/ RemoveMetadata
  \/ ReadBranch \/ DeleteReferences

Caller(c) == Persist(c) \/ Commit(c) \/ Reject(c)

Next ==
  \/ Task
  \/ \E c \in Conversations :
       \/ Begin(c) \/ CreateScratch(c) \/ StartPreparation(c) \/ Caller(c) \/ Drop(c)
       \/ StartRemoval(c) \/ Register(c) \/ Unregister(c)
       \/ Write(c) \/ CommitToBranch(c) \/ Swap(c, "dir") \/ Swap(c, "quarantine")
  \/ Crash

Spec == Init /\ [][Next]_vars

\* The runtime polls the task, and a caller that was offered a workspace asks
\* the store, which answers.
FairSpec == Spec /\ WF_vars(Task) /\ \A c \in Conversations : WF_vars(Caller(c))

-----------------------------------------------------------------------------
(* Properties.                                                              *)

Places == [base : BOOLEAN, branch : {"none", "base", "moved"}, listed : BOOLEAN,
           dir : SUBSET [ours : BOOLEAN, work : SUBSET Work],
           quarantine : SUBSET [ours : BOOLEAN, work : SUBSET Work],
           aside : SUBSET [ours : BOOLEAN, work : SUBSET Work]]

TypeOK ==
  /\ disk \in [Conversations -> Places]
  /\ \A c \in Conversations :
       Cardinality({place \in {"dir", "quarantine", "aside"} : HasOurs(disk[c][place])}) <= 1
  /\ job.c \in Conversations \cup {NoOne}
  /\ persisted \subseteq Conversations

\* Whatever happens, no removal or rollback of a worktree destroys a change, a
\* file or a commit that exists nowhere else, or the directory of a registered
\* process.  What can be lost is a scratch directory used before its creator
\* learned that the conversation was stored, when that creator is dropped.
WorkIsKept == destroyed \subseteq {"scratch"}

\* The marker of the base outlives the worktree, so that what a crash or a
\* failure leaves can be recognised as the application's own.
EvidenceOutlivesTheTree ==
  \A c \in Conversations :
    kind[c] = "isolated" /\ (disk[c].listed \/ HasOurs(disk[c].dir)) => disk[c].base

Settled(c) == job.c # c /\ c \notin touched

\* A removal keeps the marker and the branch.
Removed(c) == disk[c] = [Nothing EXCEPT !.base = TRUE, !.branch = "base"]

\* Stored, but its creator was dropped before it learned of it: the workspace is
\* taken back from under the conversation.
Abandoned(c) == c \in persisted /\ caller[c] = "dropped"

\* When nobody interferes, a preparation that was not kept leaves nothing behind,
\* and a conversation in the store that is not abandoned has its workspace until
\* that is removed whole.
OutcomeMatchesDisk ==
  \A c \in Conversations : Settled(c) =>
    /\ caller[c] \in {"failed", "dropped"} => disk[c] = Nothing
    /\ c \in persisted /\ ~Abandoned(c) =>
         CASE kind[c] = "isolated"    -> Owned(c) \/ Removed(c)
           [] kind[c] = "projectless" -> HasOurs(disk[c].dir)

\* Both, of well-typed places: whatever the application made is accounted for,
\* after a crash too.
DiskIsAccountedFor == TypeOK /\ EvidenceOutlivesTheTree /\ OutcomeMatchesDisk

\* The gate comes free again: nothing that is prepared, rolled back or removed
\* keeps the others waiting for ever.
GateIsReleased == job # Idle ~> job = Idle
=============================================================================
