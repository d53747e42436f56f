------------------------------ MODULE Context ------------------------------
(***************************************************************************)
(* What each provider is told of a conversation.  A submission chooses a   *)
(* provider (Router::route) and prepares what its session is given: the    *)
(* message alone, or a capsule of what the session has not seen            *)
(* (App::submit, build_handoff); the same for the provider that takes over *)
(* when the first rejects the message.  The submission is stored only      *)
(* after all these reads, each of which is an await of its own; a run that *)
(* is active meanwhile goes on writing.  A run binds its native session,   *)
(* starts a turn, and only then moves the boundary up to which its session *)
(* knows the conversation.                                                 *)
(*                                                                         *)
(* One conversation; of the others there are the runs they create, because *)
(* usage is counted over all of them (provider_usage).  Leases, duplicates *)
(* of a command and recovery are in DispatchLease, the rows of one run in  *)
(* Journal.  A message is its place in the sequence and the run it belongs *)
(* to, a capsule the messages it quotes.                                   *)
(***************************************************************************)
EXTENDS Integers, Sequences, SequencesExt, FiniteSets, FiniteSetsExt

CONSTANTS
  Profiles,       \* routing profiles of the conversation
  MaxRuns,        \* bound: provider runs of all conversations
  MaxMessages,    \* bound: messages
  MaxStray,       \* bound: submissions prepared while a run is active, and those
                  \* of other conversations that usage did not decide
  Others          \* number of other conversations

ASSUME ContextAssumption ==
  /\ {MaxRuns, MaxMessages, MaxStray, Others} \subseteq Nat
  /\ Profiles \subseteq {"continuity", "usage_balance"}

VARIABLES
  conversation,  \* routing profile, archived or not
  messages,      \* the runs the messages belong to, by sequence
  runs,          \* provider runs in the order of their creation
  session,       \* per provider: bound native session, context boundary
  draft,         \* the submission that is being prepared
  native,        \* per native session, history: what it was shown for certain,
                 \* and what a capsule for it left out
  elsewhere      \* the other conversations, per provider: runs, and active runs
                 \* that may still fall back to it; history: submissions that
                 \* usage did not decide, or stored while one here was prepared

contextVars == <<conversation, messages, runs, session, draft, native, elsewhere>>

Providers == {"codex", "claude"}
None == "none"

\* A turn to be run: where, in which native session (0: a new one), and which
\* messages its capsule quotes or leaves out.
NewTurn(p) == [provider |-> p, native |-> 0, capsule |-> FALSE, after |-> 0,
               quotes |-> {}, omits |-> {}]

Idle == [at |-> "idle"]

ContextInit ==
  /\ conversation \in [profile : Profiles, archived : {FALSE}]
  /\ messages = <<>> /\ runs = <<>> /\ native = <<>>
  /\ session = [p \in Providers |-> [native |-> 0, through |-> 0]]
  /\ draft = Idle
  /\ elsewhere = [used |-> [p \in Providers |-> 0], open |-> [p \in Providers |-> 0],
                  stray |-> 0]

Active(r) == runs[r].stage # "over"
Quiet == \A r \in DOMAIN runs : ~Active(r)

-----------------------------------------------------------------------------
(* Router::route.                                                          *)

\* Mutant: a run counts once it has had its turn.
UsageOfTurns(p) ==
  Cardinality({r \in DOMAIN runs : runs[r].turn.provider = p /\ runs[r].told})
    + elsewhere.used[p]

\* provider_usage counts every run of every conversation, fallbacks too.
Usage(p) ==
  Cardinality({r \in DOMAIN runs : runs[r].turn.provider = p}) + elsewhere.used[p]

LeastUsed(eligible) ==
  IF "codex" \notin eligible THEN "claude"
  ELSE IF "claude" \in eligible /\ Usage("claude") < Usage("codex") THEN "claude"
  ELSE "codex"

\* latest_provider
Latest == IF runs = <<>> THEN None ELSE Last(runs).turn.provider

\* choose_provider: who has the conversation keeps it, unless usage decides.
Choice(eligible) ==
  IF conversation.profile # "usage_balance" /\ Latest \in eligible THEN Latest
  ELSE LeastUsed(eligible)

\* routing_states, evaluate: who is available and can do what is asked.
Eligible == SUBSET Providers

\* It is an error when the provider asked for, or every one, is unavailable.
Routable(eligible, override) == eligible # {} /\ override \in eligible \cup {None}

\* Bounds.
MayStray ==
  Cardinality({r \in DOMAIN runs : runs[r].missed # {}}) + elsewhere.stray < MaxStray
Room(n) == Len(runs) + elsewhere.used["codex"] + elsewhere.used["claude"] + n <= MaxRuns

\* The submission takes the lock of all submissions.
Route(eligible, override) ==
  /\ draft = Idle
  /\ ~conversation.archived
  /\ Room(2) /\ Len(messages) < MaxMessages
  /\ Quiet \/ MayStray
  /\ Routable(eligible, override)
  /\ LET chosen == IF override # None THEN override ELSE Choice(eligible)
         others == IF override # None THEN {} ELSE eligible \ {chosen}
     IN  draft' = [at |-> "session", attempt |-> 1,
                   turns |-> <<NewTurn(chosen)>> \o SetToSeq({NewTurn(p) : p \in others}),
                   balanced |-> /\ override = None /\ eligible = Providers
                                /\ conversation.profile = "usage_balance",
                   active |-> {r \in DOMAIN runs : Active(r)}, runs |-> Len(runs)]
  /\ UNCHANGED <<conversation, messages, runs, session, native, elsewhere>>

-----------------------------------------------------------------------------
(* What the turns of the submission are given, one read after the other.   *)

Preparing == draft.turns[draft.attempt]

\* On to the fallback's turn, if there is one, or to the store.
Prepared(d) ==
  IF d.attempt < Len(d.turns) THEN [d EXCEPT !.at = "session", !.attempt = @ + 1]
  ELSE [d EXCEPT !.at = "persist"]

\* Mutant: a session that exists is taken to know the conversation.
NeedsCapsuleIfNew(p) == draft.attempt = 2 \/ session[p].native = 0

\* load_provider_session and, again, latest_provider.  A session that had the
\* last turn too needs no capsule; a fallback always gets one.
NeedsCapsule(p) ==
  draft.attempt = 2 \/ session[p].native = 0 \/ Latest \notin {None, p}
ReadSession ==
  /\ draft.at = "session"
  /\ LET p == Preparing.provider
         d == [draft EXCEPT !.turns[draft.attempt].native = session[p].native,
                            !.turns[draft.attempt].capsule = NeedsCapsule(p)]
     IN  draft' = IF NeedsCapsule(p) THEN [d EXCEPT !.at = "boundary"] ELSE Prepared(d)
  /\ UNCHANGED <<conversation, messages, runs, session, native, elsewhere>>

\* build_handoff: provider_context_boundary, then load_messages_after.
ReadBoundary ==
  /\ draft.at = "boundary"
  /\ draft' = [draft EXCEPT !.at = "messages",
                            !.turns[draft.attempt].after = session[Preparing.provider].through]
  /\ UNCHANGED <<conversation, messages, runs, session, native, elsewhere>>

\* load_messages_after
Unseen == Preparing.after + 1 .. Len(messages)

\* HandoffBuilder::build.  The request, the objective and the constraints come
\* first, then as much of the other sections as fits; the newest messages have
\* what is left, up to the first that does not fit.
Capsule(turn, first) ==
  [turn EXCEPT !.quotes = {m \in Unseen : m >= first}, !.omits = {m \in Unseen : m < first}]

LoadMessages(first) ==
  /\ draft.at = "messages"
  /\ first \in Unseen \cup {Len(messages) + 1}
  /\ draft' = Prepared([draft EXCEPT !.turns[draft.attempt] = Capsule(@, first)])
  /\ UNCHANGED <<conversation, messages, runs, session, native, elsewhere>>

\* prepare_submission_inner.
Persist ==
  /\ draft.at = "persist"
  /\ ~conversation.archived /\ Quiet
  /\ Len(messages) < MaxMessages
  /\ messages' = Append(messages, Len(runs) + 1)
  /\ runs' = Append(runs,
       [turn |-> draft.turns[1], next |-> Tail(draft.turns), from |-> 0,
        cut |-> Len(messages) + 1, stage |-> "queued", told |-> FALSE,
        balanced |-> draft.balanced, renewed |-> FALSE,
        missed |-> draft.active \cup (draft.runs + 1 .. Len(runs))])
  /\ draft' = Idle
  /\ UNCHANGED <<conversation, session, native, elsewhere>>

\* A read fails, the request does not fit a capsule, or the conversation is
\* busy or archived by now.
Refuse ==
  /\ draft # Idle
  /\ draft' = Idle
  /\ UNCHANGED <<conversation, messages, runs, session, native, elsewhere>>

\* archive_conversation
Archive ==
  /\ Quiet
  /\ conversation' = [conversation EXCEPT !.archived = TRUE]
  /\ UNCHANGED <<messages, runs, session, draft, native, elsewhere>>

-----------------------------------------------------------------------------
(* The run.                                                                *)

Provider(r) == runs[r].turn.provider

\* The boundary of the session that was bound before stays.
Bound(p, n) == [session EXCEPT ![p].native = n]

\* start_session or resume_session, and bind_native_session_with_group_inner.
StartSession(r) ==
  LET fresh == runs[r].turn.native = 0
      n == IF fresh THEN Len(native) + 1 ELSE runs[r].turn.native
  IN
  /\ runs[r].stage = "queued"
  /\ runs' = [runs EXCEPT ![r].stage = "bound", ![r].turn.native = n,
                           ![r].renewed = fresh /\ session[Provider(r)].native # 0]
  /\ session' = Bound(Provider(r), n)
  /\ native' = IF fresh THEN Append(native, [shown |-> {}, omitted |-> {}]) ELSE native
  /\ UNCHANGED <<conversation, messages, draft, elsewhere>>

\* The provider rejects the session or the turn before it took it: the run
\* fails and its fallback is created in one transaction
\* (fail_and_create_owned_fallback, insert_atomic_fallback).
FallBack(r) ==
  LET run == runs[r] IN
  /\ run.stage \in {"queued", "bound"}
  /\ run.next # <<>>
  /\ ~conversation.archived
  /\ Head(run.next).native \in {0, session[Head(run.next).provider].native}
  /\ runs' = Append([runs EXCEPT ![r].stage = "over"],
                    [run EXCEPT !.turn = Head(run.next), !.next = <<>>, !.from = r,
                                !.stage = "queued"])
  /\ UNCHANGED <<conversation, messages, session, draft, native, elsewhere>>

\* Rejected for good, interrupted before the turn, failed with nobody knowing
\* whether the provider took it, or the boundary could not be moved.
EndUnstarted(r) ==
  /\ runs[r].stage \in {"queued", "bound", "started"}
  /\ runs' = [runs EXCEPT ![r].stage = "over"]
  /\ UNCHANGED <<conversation, messages, session, draft, native, elsewhere>>

\* The provider's TurnStarted is recorded.
TurnStarted(r) ==
  /\ runs[r].stage = "bound"
  /\ runs' = [runs EXCEPT ![r].stage = "started"]
  /\ UNCHANGED <<conversation, messages, session, draft, native, elsewhere>>

\* Mutant: what is said during a turn does not move the boundary.
ThroughCut(p, m) == IF m \in DOMAIN messages THEN [session EXCEPT ![p].through = m] ELSE session

Through(p, m) == [session EXCEPT ![p].through = Max({@, m})]

\* advance_provider_context_inner, the next transaction.
AdvanceContext(r) ==
  LET run == runs[r] IN
  /\ run.stage = "started"
  /\ runs' = [runs EXCEPT ![r].stage = "running", ![r].told = TRUE]
  /\ session' = Through(Provider(r), run.cut)
  /\ native' = [native EXCEPT ![run.turn.native] =
       [shown   |-> @.shown \cup run.turn.quotes \cup {run.cut},
        omitted |-> @.omitted \cup run.turn.omits]]
  /\ UNCHANGED <<conversation, messages, draft, elsewhere>>

\* A message of the turn: the assistant's (persist_assistant_message), or a
\* steering text or an answer the provider accepted
\* (persist_user_control_message).
Message(r) ==
  /\ runs[r].stage = "running"
  /\ Len(messages) < MaxMessages
  /\ messages' = Append(messages, r)
  /\ session' = Through(Provider(r), Len(messages) + 1)
  /\ native' = [native EXCEPT ![runs[r].turn.native].shown = @ \cup {Len(messages) + 1}]
  /\ UNCHANGED <<conversation, runs, draft, elsewhere>>

Finish(r) ==
  /\ runs[r].stage = "running"
  /\ runs' = [runs EXCEPT ![r].stage = "over"]
  /\ UNCHANGED <<conversation, messages, session, draft, native, elsewhere>>

-----------------------------------------------------------------------------
(* The other conversations, each with one active run at most.              *)

Rival(p) == IF p = "codex" THEN "claude" ELSE "codex"

\* A submission by usage waits for the lock of all submissions; one with an
\* override or another profile goes anywhere, one of another process does not
\* wait.
SubmitElsewhere(p, falls) ==
  LET decided == draft = Idle /\ p = LeastUsed(Providers) IN
  /\ elsewhere.open["codex"] + elsewhere.open["claude"] < Others
  /\ Room(2) /\ (decided \/ MayStray)
  /\ elsewhere' = [elsewhere EXCEPT
       !.used[p] = @ + 1,
       !.open[Rival(p)] = IF falls THEN @ + 1 ELSE @,
       !.stray = IF decided THEN @ ELSE @ + 1]
  /\ UNCHANGED <<conversation, messages, runs, session, draft, native>>

FallBackElsewhere(p) ==
  /\ elsewhere.open[p] > 0
  /\ elsewhere' = [elsewhere EXCEPT !.open[p] = @ - 1, !.used[p] = @ + 1]
  /\ UNCHANGED <<conversation, messages, runs, session, draft, native>>

EndElsewhere(p) ==
  /\ elsewhere.open[p] > 0
  /\ elsewhere' = [elsewhere EXCEPT !.open[p] = @ - 1]
  /\ UNCHANGED <<conversation, messages, runs, session, draft, native>>

-----------------------------------------------------------------------------

Submission ==
  \/ \E eligible \in Eligible, override \in Providers \cup {None} :
       Route(eligible, override)
  \/ ReadSession \/ ReadBoundary
  \/ \E first \in 1 .. MaxMessages + 1 : LoadMessages(first)
  \/ Persist \/ Refuse \/ Archive

RunStep ==
  \E r \in DOMAIN runs :
    \/ StartSession(r) \/ FallBack(r) \/ EndUnstarted(r) \/ TurnStarted(r)
    \/ AdvanceContext(r) \/ Message(r) \/ Finish(r)

Elsewhere ==
  \E p \in Providers :
    \/ \E falls \in BOOLEAN : SubmitElsewhere(p, falls)
    \/ FallBackElsewhere(p) \/ EndElsewhere(p)

ContextNext == Submission \/ RunStep \/ Elsewhere

ContextSpec == ContextInit /\ [][ContextNext]_contextVars

-----------------------------------------------------------------------------
(* Properties.                                                             *)

\* The type invariant; one run is active at a time, and a boundary belongs to
\* messages that exist.
ContextTypeOK ==
  /\ conversation.archived \in BOOLEAN
  /\ \A r \in DOMAIN runs :
       /\ runs[r].from \in 0 .. r - 1
       /\ runs[r].cut \in DOMAIN messages
       /\ runs[r].stage \notin {"queued", "over"} => runs[r].turn.native \in DOMAIN native
  /\ Cardinality({r \in DOMAIN runs : Active(r)}) <= 1
  /\ \A p \in Providers :
       /\ session[p].native \in 0 .. Len(native)
       /\ session[p].through \in 0 .. Len(messages)

\* A session is not told again what it was told: a submission prepared while
\* nothing ran quotes only what its session was never shown, on whichever of
\* the two providers it ends up (provider_context_boundary, advance_provider_context).
OnlyUnseen ==
  \A r \in DOMAIN runs :
    LET run == runs[r] IN
    run.stage = "bound" /\ run.missed = {} =>
      (run.turn.quotes \cup {run.cut}) \cap native[run.turn.native].shown = {}

\* The last attempt at a message, on p, ended without its turn, and took the
\* capsule with what p had not seen until then along.
LostWith(m, p) ==
  \E r \in DOMAIN runs :
    /\ Provider(r) = p /\ runs[r].stage = "over" /\ ~runs[r].told
    /\ m <= runs[r].cut
    /\ \A f \in DOMAIN runs : runs[f].from # r

\* A submission that was prepared while a run was active took the session of p
\* past the message: its reads are not of one moment.
PassedOver(m, p) ==
  \E r \in DOMAIN runs : runs[r].missed # {} /\ Provider(r) = p /\ m <= runs[r].cut

\* What lies behind the boundary of a session, and is never told it any more,
\* it was shown, or it did not fit its capsule; the exceptions are what an
\* attempt took along that never became a turn, and what a submission passed
\* over that was prepared while a run was active.  Only such a submission
\* replaces a session.
ContextIsAccountedFor ==
  /\ ContextTypeOK
  /\ Quiet => \A p \in Providers :
       LET n == session[p].native IN
       n # 0 => \A m \in 1 .. session[p].through :
         \/ m \in native[n].shown \cup native[n].omitted
         \/ LostWith(m, p) \/ PassedOver(m, p)
  /\ \A r \in DOMAIN runs : runs[r].renewed => runs[r].missed # {}

\* Submissions that usage did not decide between two available providers, or
\* that counted the runs while another one could still be added.
Undecided ==
  Cardinality({r \in DOMAIN runs : runs[r].from = 0 /\ (~runs[r].balanced \/ runs[r].missed # {})})
    + elsewhere.stray

\* Usage is counted over all conversations and before a submission is stored,
\* and a rejected message moves to the provider that has the most.  Still the
\* runs of the two providers never differ by more than the number of
\* conversations, each of which has one fallback to give, and one for each
\* submission that usage did not decide (provider_usage, submissions lock).
UsageIsBalanced ==
  Usage("codex") - Usage("claude")
    \in -(1 + Others + Undecided) .. 1 + Others + Undecided

=============================================================================
