-------------------------------- MODULE View --------------------------------
(* The way from a committed change to the sidebar: the broadcast channel of    *)
(* the store, the forwarding task of the shell (state.rs), which numbers the   *)
(* invalidations and keeps the notification tracker, and the front-end store   *)
(* (store.ts), which answers them with targeted and full reads.  A handler of  *)
(* the front end runs to its end before another starts; everything it awaits   *)
(* is a step of its own.  Children, drafts and the inspector are left out.     *)
EXTENDS Integers, Sequences, FiniteSets, FiniteSetsExt, SequencesExt, Functions, TLC

CONSTANTS
  Conv,
  Listed,        \* the conversations at the start, oldest first
  Nothing,
  Capacity,      \* STORE_CHANGE_CHANNEL_CAPACITY
  PageSize,      \* PAGE_SIZE, NOTIFICATION_RESYNC_PAGE_SIZE
  MaxSequence,   \* u64::MAX
  MaxChanges,    \* bound: changes of the store after the start
  MaxExtras      \* bound: calls that fail, events that cannot be emitted, and
                 \* refreshes that a mutation of the composer asks for

ASSUME ViewAssumption ==
  /\ Nothing \notin Conv
  /\ Listed \in Seq(Conv) /\ IsInjective(Listed)
  /\ Capacity \in Nat \ {0} /\ PageSize \in Nat \ {0}
  /\ MaxChanges \in Nat /\ MaxExtras \in Nat /\ MaxSequence \in Nat
  /\ MaxSequence > MaxExtras + 1      \* never is a whole round of events lost

VARIABLES
  core,        \* a conversation in the store; at is updated_at, 0 before it exists
  clock,       \* the changes so far
  channel,     \* the changes the forwarding task has not received
  lagged,      \* the channel dropped one of them
  forwarder,   \* what the forwarding task awaits
  sequence,    \* next_sequence
  seen,        \* observed, the notification tracker: the state last looked at
  events,      \* emitted, not yet handled by the front end
  ui,          \* the front-end store
  call,        \* a mutation the user waits for
  acked,       \* the newest preference acknowledged while the conversation was shown
  sent,        \* the sequence of the last event emitted to a listener
  behind,      \* conversations the tracker failed to look at
  extras       \* the number of those so far

shell == <<forwarder, sequence, seen, behind>>
vars == <<core, clock, channel, lagged, shell, events, ui, call, acked, sent, extras>>

Active == {c \in Conv : core[c].at > 0 /\ ~core[c].archived}
LastChange == Len(Listed) + MaxChanges
Top == LastChange + 1

(* list_active_conversations: newest first, below the cursor.                 *)
Page(cursor) ==
  LET below == {c \in Active : core[c].at < cursor}
  IN  {c \in below : Cardinality({d \in below : core[d].at > core[c].at}) < PageSize}
Oldest(page) == CHOOSE c \in page : \A d \in page : core[c].at <= core[d].at
HasMore(cursor) == Cardinality({c \in Active : core[c].at < cursor}) > PageSize

-----------------------------------------------------------------------------
(* The front-end store.  full.stale stands for an eventRevision that moved     *)
(* since the scan began, batch.fenced for such a fullRefreshEpoch.             *)

NoScan == [on |-> FALSE, stale |-> FALSE, cursor |-> Top, got |-> <<>>, whole |-> FALSE]
NoBatch == [ids |-> {}, versions |-> <<>>, got |-> <<>>, fenced |-> FALSE]

InitialUi ==
  [phase |-> "loading", listening |-> FALSE, last |-> 0, rollover |-> FALSE,
   view |-> <<>>, selected |-> Nothing, versions |-> [c \in Conv |-> 0],
   pending |-> {}, batch |-> NoBatch, full |-> NoScan, requested |-> FALSE]

(* Mutant: a scan that begins again keeps the revision of the first one.       *)
SynchronizeOnce(s) ==
  [s EXCEPT !.full = [NoScan EXCEPT !.on = TRUE, !.stale = s.full.stale],
            !.requested = FALSE, !.batch.fenced = s.batch.ids # {}]

Synchronize(s) ==
  [s EXCEPT !.full = [NoScan EXCEPT !.on = TRUE],
            !.requested = FALSE,
            !.batch.fenced = s.batch.ids # {}]

RequestRefresh(s) ==
  IF s.full.on THEN [s EXCEPT !.requested = TRUE] ELSE Synchronize(s)

(* eventRevision += 1                                                          *)
Revise(s) == [s EXCEPT !.full.stale = s.full.on]

RequestConversation(s, c) ==
  [s EXCEPT !.versions[c] = @ + 1, !.pending = @ \cup {c}]

(* drainTargetedRefreshes takes what is pending once it is idle; a batch of    *)
(* REFRESH_BATCH_SIZE holds every conversation.                                *)
Drain(s) ==
  IF s.batch.ids # {} \/ s.pending = {} THEN s
  ELSE [s EXCEPT !.batch = [NoBatch EXCEPT !.ids = s.pending,
                                           !.versions = Restrict(s.versions, s.pending)],
                 !.pending = {}]

(* The selection falls to the first conversation that is listed.               *)
Reselect(view, selected) ==
  IF selected \in DOMAIN view \/ DOMAIN view = {} THEN
    IF selected \in DOMAIN view THEN selected ELSE Nothing
  ELSE CHOOSE c \in DOMAIN view : \A d \in DOMAIN view : view[c].at >= view[d].at

RemoveConversation(s, c) ==
  IF c \notin DOMAIN s.view THEN s
  ELSE LET view == Restrict(s.view, DOMAIN s.view \ {c})
       IN  [Revise(s) EXCEPT !.view = view, !.versions[c] = 0, !.pending = @ \ {c},
                             !.selected = Reselect(view, @)]

MergeConversation(s, c, summary) ==
  IF summary.archived THEN RemoveConversation(s, c)
  ELSE [s EXCEPT !.view = (c :> summary) @@ @,
                 !.selected = IF @ = Nothing THEN c ELSE @]

(* receiveEvent                                                                *)
RolloverReset(s, e) == s.rollover /\ s.last = MaxSequence /\ e.seq < MaxSequence
Known(s, e) == ~RolloverReset(s, e) /\ s.last # 0 /\ e.seq <= s.last

Gap(s, e) ==
  IF RolloverReset(s, e) THEN e.seq # 1 ELSE s.last # 0 /\ e.seq # s.last + 1

Heard(s, e) ==
  [Revise(s) EXCEPT !.last = e.seq,
                    !.rollover = \/ e.conv = Nothing /\ e.seq = MaxSequence
                                 \/ s.rollover /\ ~RolloverReset(s, e)]

Receive(s, e) ==
  IF ~s.listening \/ Known(s, e) THEN s
  ELSE IF e.conv = Nothing \/ Gap(s, e) \/ s.phase # "ready"
       THEN RequestRefresh(Heard(s, e))
       ELSE Drain(RequestConversation(Heard(s, e), e.conv))

(* The loop of requestRefresh, once synchronize has returned.                  *)
Loop(s) == IF s.requested THEN Synchronize(s) ELSE [s EXCEPT !.full = NoScan]

Published(s) ==
  [s EXCEPT !.phase = "ready", !.view = s.full.got, !.selected = Reselect(s.full.got, @)]

Scanned(s) == Loop(IF s.full.stale THEN [s EXCEPT !.requested = TRUE] ELSE Published(s))

ScanFailed(s) == Loop([s EXCEPT !.phase = "error"])

SameVersion(s, c) == s.batch.versions[c] = s.versions[c]

(* Mutant: a batch that a full read overtook is merged all the same.           *)
BatchMergedAnyway(s) ==
  LET merged == FoldSet(LAMBDA c, t : IF SameVersion(t, c) THEN MergeConversation(t, c, s.batch.got[c]) ELSE t,
                        s, s.batch.ids)
  IN  Drain([merged EXCEPT !.batch = NoBatch])

BatchMerged(s) ==
  LET merged == IF s.batch.fenced THEN s
                ELSE FoldSet(LAMBDA c, t : IF SameVersion(t, c)
                                           THEN MergeConversation(t, c, s.batch.got[c]) ELSE t,
                             s, s.batch.ids)
  IN  Drain([merged EXCEPT !.batch = NoBatch])

BatchFailed(s) == Drain([RequestRefresh(s) EXCEPT !.batch = NoBatch])

(* Mutant: a save that was acknowledged does not outdate the reads under way.  *)
PreferencePatched(s, c, preference) ==
  IF c \notin DOMAIN s.view THEN s
  ELSE Drain([s EXCEPT !.pending = @ \cup {c}, !.versions[c] = IF @ = 0 THEN 1 ELSE @,
                       !.view[c].preference = preference])

PreferenceSaved(s, c, preference) ==
  IF c \notin DOMAIN s.view THEN s
  ELSE Drain([RequestConversation(Revise(s), c) EXCEPT !.view[c].preference = preference])

-----------------------------------------------------------------------------
NoCall == [kind |-> "none", conv |-> Nothing, at |-> 0, step |-> "none"]
Idle == [step |-> "idle", conv |-> Nothing, cursor |-> Top, listed |-> {}]
Resync == [Idle EXCEPT !.step = "resync"]

(* The window opens; the forwarding task has run for a while, and has looked  *)
(* at every conversation.                                                      *)
Init ==
  /\ core = [c \in Conv |-> [at |-> IF \E i \in DOMAIN Listed : Listed[i] = c
                                    THEN CHOOSE i \in DOMAIN Listed : Listed[i] = c ELSE 0,
                             preference |-> 0, archived |-> FALSE]]
  /\ clock = Len(Listed)
  /\ channel = <<>> /\ lagged = FALSE
  /\ forwarder = Idle /\ sequence \in 1 .. MaxSequence /\ behind = {}
  /\ seen = [c \in Active |-> core[c].at]
  /\ events = <<>> /\ ui = InitialUi /\ call = NoCall
  /\ acked = [c \in Conv |-> 0] /\ sent = 0 /\ extras = 0

-----------------------------------------------------------------------------
(* The store: every mutation stamps the conversation and then sends the change *)
(* to the channel, which drops the oldest one when it is full.                 *)

Commit(c, next) ==
  /\ clock' = clock + 1
  /\ core' = [core EXCEPT ![c] = next]
  /\ channel' = IF Len(channel) < Capacity THEN Append(channel, c) ELSE Append(Tail(channel), c)
  /\ lagged' = (lagged \/ Len(channel) = Capacity)

(* A run of the conversation changes.  Nobody can send to a conversation whose *)
(* creation the dialog still waits for.                                        *)
RunChanges(c) ==
  /\ c \in Active /\ ~(call.kind = "create" /\ call.conv = c)
  /\ clock < IF call.step = "sent" THEN LastChange - 1 ELSE LastChange
  /\ Commit(c, [core[c] EXCEPT !.at = clock + 1])
  /\ UNCHANGED <<shell, events, ui, call, acked, sent, extras>>

(* The user creates a conversation, archives one that is shown, or saves a     *)
(* thinking preference or a context budget; App shows those controls only when *)
(* the phase is ready.                                                         *)
Ask(kind, c) ==
  /\ call = NoCall /\ ui.phase = "ready"
  /\ IF kind = "create" THEN core[c].at = 0 ELSE c \in DOMAIN ui.view
  /\ IF kind = "prefer" /\ core[c].archived
     THEN extras < MaxExtras /\ extras' = extras + 1
     ELSE clock < LastChange /\ UNCHANGED extras
  /\ call' = [NoCall EXCEPT !.kind = kind, !.conv = c, !.step = "sent"]
  /\ UNCHANGED <<core, clock, channel, lagged, shell, events, ui, acked, sent>>

(* The command commits; a save is refused once the conversation is archived.   *)
Serve ==
  /\ call.step = "sent"
  /\ LET c == call.conv
         saves == call.kind = "prefer"
     IN  IF saves /\ core[c].archived
         THEN /\ call' = [call EXCEPT !.step = "refused"]
              /\ UNCHANGED <<core, clock, channel, lagged>>
         ELSE /\ call' = [call EXCEPT !.step = "served", !.at = IF saves THEN clock + 1 ELSE 0]
              /\ Commit(c, [core[c] EXCEPT !.at = clock + 1,
                                           !.archived = @ \/ call.kind = "archive",
                                           !.preference = IF saves THEN clock + 1 ELSE @])
  /\ UNCHANGED <<shell, events, ui, acked, sent, extras>>

(* The reply reaches the front end: createConversation, archiveConversation    *)
(* and setThinkingPreference after their await.                                *)
Reply ==
  /\ call.step = "served"
  /\ LET c == call.conv
     IN  /\ ui' = CASE call.kind = "create"  -> [MergeConversation(ui, c, core[c]) EXCEPT !.selected = c]
                    [] call.kind = "archive" -> RemoveConversation(ui, c)
                    [] OTHER                 -> PreferenceSaved(ui, c, call.at)
         /\ acked' = IF call.kind = "prefer" /\ c \in DOMAIN ui.view
                     THEN [acked EXCEPT ![c] = call.at] ELSE acked
  /\ call' = NoCall
  /\ UNCHANGED <<core, clock, channel, lagged, shell, events, sent, extras>>

(* The call was refused: the front end shows an error.                         *)
Refused ==
  /\ call.step = "refused"
  /\ call' = NoCall
  /\ UNCHANGED <<core, clock, channel, lagged, shell, events, ui, acked, sent, extras>>

(* The command fails, or its reply is lost.                                    *)
ReplyFails ==
  /\ call.step \in {"sent", "served"} /\ extras < MaxExtras
  /\ extras' = extras + 1
  /\ call' = NoCall
  /\ UNCHANGED <<core, clock, channel, lagged, shell, events, ui, acked, sent>>

-----------------------------------------------------------------------------
(* The forwarding task.                                                        *)

EventOf(c) == [seq |-> sequence, conv |-> IF sequence = MaxSequence THEN Nothing ELSE c]

(* take_sequence, then emit.  An event nobody listens to is gone, and so is one *)
(* that cannot be emitted; nothing tells the front end if that is the first     *)
(* event of all, or the one that announces the rollover, so those are not lost  *)
(* here.                                                                       *)
Emit(c) ==
  /\ sequence' = IF sequence = MaxSequence THEN 1 ELSE sequence + 1
  /\ \/ /\ events' = IF ui.listening THEN Append(events, EventOf(c)) ELSE events
        /\ UNCHANGED extras
     \/ /\ sent # 0 /\ extras < MaxExtras /\ sequence < MaxSequence
        /\ extras' = extras + 1
        /\ UNCHANGED events
  /\ sent' = IF ui.listening THEN sequence ELSE sent

Forward ==
  /\ forwarder.step = "idle" /\ ~lagged /\ channel # <<>>
  /\ Emit(Head(channel))
  /\ channel' = Tail(channel)
  /\ forwarder' = [Idle EXCEPT !.step = "load", !.conv = Head(channel)]
  /\ UNCHANGED <<core, clock, lagged, seen, behind, ui, call, acked>>

(* RecvError::Lagged: the view reloads, and the tracker looks at everything.   *)
ForwardLag ==
  /\ forwarder.step = "idle" /\ lagged
  /\ lagged' = FALSE
  /\ Emit(Nothing)
  /\ forwarder' = Resync
  /\ UNCHANGED <<core, clock, channel, seen, behind, ui, call, acked>>

(* observe_notification                                                        *)
Looked(s, c) == IF core[c].archived THEN Restrict(s, DOMAIN s \ {c}) ELSE (c :> core[c].at) @@ s

Observe ==
  /\ forwarder.step = "load"
  /\ seen' = Looked(seen, forwarder.conv)
  /\ behind' = behind \ {forwarder.conv}
  /\ forwarder' = Idle
  /\ UNCHANGED <<core, clock, channel, lagged, sequence, events, ui, call, acked, sent, extras>>

(* resync_notifications, a page at a time; after the last one whatever was not *)
(* listed is forgotten.                                                        *)
Retained(listed) == listed

ResyncPage ==
  /\ forwarder.step = "resync"
  /\ LET page == Page(forwarder.cursor)
         listed == forwarder.listed \cup page
         looked == [c \in page |-> core[c].at] @@ seen
     IN  IF HasMore(forwarder.cursor)
         THEN /\ forwarder' = [forwarder EXCEPT !.cursor = core[Oldest(page)].at, !.listed = listed]
              /\ seen' = looked /\ behind' = behind \ page
         ELSE /\ forwarder' = Idle
              /\ seen' = Restrict(looked, Retained(listed))
              /\ behind' = {}
  /\ UNCHANGED <<core, clock, channel, lagged, sequence, events, ui, call, acked, sent, extras>>

(* A read of the forwarding task fails and is not tried again.                 *)
LookFails ==
  /\ forwarder.step # "idle" /\ extras < MaxExtras
  /\ extras' = extras + 1
  /\ behind' = IF forwarder.step = "load" THEN behind \cup {forwarder.conv} ELSE Conv
  /\ forwarder' = Idle
  /\ UNCHANGED <<core, clock, channel, lagged, sequence, seen, events, ui, call, acked, sent>>

-----------------------------------------------------------------------------
(* The front end.                                                              *)

Handle(next) ==
  /\ ui' = next
  /\ UNCHANGED <<core, clock, channel, lagged, shell, call, acked, sent>>

(* initialize: the listener is there before the first scan begins.             *)
Listen ==
  /\ ~ui.listening /\ ui.phase = "loading"
  /\ Handle(RequestRefresh([ui EXCEPT !.listening = TRUE]))
  /\ UNCHANGED <<events, extras>>

ListenFails ==
  /\ ~ui.listening /\ ui.phase = "loading" /\ extras < MaxExtras
  /\ Handle([ui EXCEPT !.phase = "error"])
  /\ extras' = extras + 1
  /\ UNCHANGED events

ReceiveEvent ==
  /\ events # <<>>
  /\ Handle(Receive(ui, Head(events)))
  /\ events' = Tail(events)
  /\ UNCHANGED <<extras>>

ScanPage ==
  /\ ui.full.on /\ ~ui.full.whole
  /\ LET page == Page(ui.full.cursor)
         got == [c \in page |-> core[c]] @@ ui.full.got
     IN  Handle([ui EXCEPT !.full.got = got,
                          !.full.whole = ~HasMore(ui.full.cursor),
                          !.full.cursor = IF HasMore(@) THEN core[Oldest(page)].at ELSE Top])
  /\ UNCHANGED <<events, extras>>

ScanEnds ==
  /\ ui.full.on /\ ui.full.whole
  /\ Handle(Scanned(ui))
  /\ UNCHANGED <<events, extras>>

ScanFails ==
  /\ ui.full.on /\ extras < MaxExtras
  /\ Handle(ScanFailed(ui))
  /\ extras' = extras + 1
  /\ UNCHANGED events

LoadOne(c) ==
  /\ c \in ui.batch.ids \ DOMAIN ui.batch.got
  /\ Handle([ui EXCEPT !.batch.got = (c :> core[c]) @@ @])
  /\ UNCHANGED <<events, extras>>

BatchEnds ==
  /\ ui.batch.ids # {} /\ DOMAIN ui.batch.got = ui.batch.ids
  /\ Handle(BatchMerged(ui))
  /\ UNCHANGED <<events, extras>>

BatchFails ==
  /\ ui.batch.ids # {} /\ extras < MaxExtras
  /\ Handle(BatchFailed(ui))
  /\ extras' = extras + 1
  /\ UNCHANGED events

Retry ==
  /\ ui.phase = "error"
  /\ Handle(IF ui.listening THEN RequestRefresh([ui EXCEPT !.phase = "loading"])
            ELSE [ui EXCEPT !.phase = "loading"])
  /\ UNCHANGED <<events, extras>>

(* refreshConversation, after a mutation made in the composer.                 *)
Nudge(c) ==
  /\ c \in DOMAIN ui.view /\ ui.phase = "ready" /\ extras < MaxExtras
  /\ Handle(Drain(RequestConversation(ui, c)))
  /\ extras' = extras + 1
  /\ UNCHANGED events

Progress ==
  \/ Serve \/ Reply \/ Refused \/ Forward \/ ForwardLag \/ Observe \/ ResyncPage
  \/ Listen \/ ReceiveEvent \/ ScanPage \/ ScanEnds \/ BatchEnds
  \/ \E c \in Conv : LoadOne(c)

Next ==
  \/ Progress
  \/ \E c \in Conv : RunChanges(c) \/ Nudge(c)
  \/ \E c \in Conv, kind \in {"create", "archive", "prefer"} : Ask(kind, c)
  \/ ReplyFails \/ LookFails \/ ListenFails \/ ScanFails \/ BatchFails \/ Retry

Spec == Init /\ [][Next]_vars
FairSpec == Spec /\ WF_vars(Progress)

-----------------------------------------------------------------------------
Summaries == [at : 1 .. clock, preference : 0 .. clock, archived : {FALSE}]

(* Every variable keeps its type.  The selection is a conversation that is     *)
(* shown, and there is none only when the sidebar is empty; a request for one   *)
(* conversation waits only behind a batch that is being read.                  *)
TypeOK ==
  /\ core \in [Conv -> [at : 0 .. clock, preference : 0 .. clock, archived : BOOLEAN]]
  /\ channel \in Seq(Conv) /\ Len(channel) <= Capacity /\ lagged \in BOOLEAN
  /\ forwarder.step \in {"idle", "load", "resync"} /\ sequence \in 1 .. MaxSequence
  /\ DOMAIN seen \subseteq Conv /\ behind \subseteq Conv
  /\ \A i \in DOMAIN events : events[i] \in [seq : 1 .. MaxSequence, conv : Conv \cup {Nothing}]
  /\ ui.phase \in {"loading", "ready", "error"} /\ ui.last \in 0 .. MaxSequence
  /\ DOMAIN ui.view \subseteq Conv /\ \A c \in DOMAIN ui.view : ui.view[c] \in Summaries
  /\ IF DOMAIN ui.view = {} THEN ui.selected = Nothing ELSE ui.selected \in DOMAIN ui.view
  /\ ui.pending # {} => ui.batch.ids # {}
  /\ ui.requested => ui.full.on

Quiet ==
  /\ channel = <<>> /\ ~lagged /\ forwarder.step = "idle" /\ events = <<>>
  /\ ui.phase # "loading" /\ (ui.phase = "ready" => ui.listening) /\ ~ui.full.on /\ ui.batch.ids = {} /\ call = NoCall

(* Once nothing is under way, the sidebar shows exactly the conversations that *)
(* are not archived, each as the store has it: whatever the order of events,    *)
(* targeted and full reads, replies and failures was, unless it says that it    *)
(* failed to load or the last event never reached it (store.ts).               *)
ViewConverges ==
  Quiet /\ ui.phase = "ready" /\ ui.last = sent
    => ui.view = [c \in Active |-> core[c]]

(* Once the forwarding task is idle, the notification tracker has looked at    *)
(* the newest state of every conversation it did not fail to read, and knows   *)
(* none that is archived (state.rs).                                           *)
TrackerConverges ==
  channel = <<>> /\ ~lagged /\ forwarder.step = "idle"
    => \A c \in Conv \ behind :
         IF c \in Active THEN c \in DOMAIN seen /\ seen[c] = core[c].at ELSE c \notin DOMAIN seen

(* Both ends that follow the store, the sidebar and the tracker, know its newest *)
(* state whenever nothing is under way to tell them.                           *)
NewestIsKnown == ViewConverges /\ TrackerConverges

(* A preference whose save was acknowledged never gives way to an older one,   *)
(* however late the reads that began before the save are answered (store.ts,   *)
(* setThinkingPreference and setContextBudget).                                *)
AcknowledgedKept ==
  /\ TypeOK
  /\ \A c \in DOMAIN ui.view \cap Active : ui.view[c].preference >= acked[c]

(* Events, reads and replies that set off other reads come to an end.          *)
Settles == <>[]Quiet
=============================================================================
