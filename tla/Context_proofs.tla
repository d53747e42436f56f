--------------------------- MODULE Context_proofs ---------------------------
(***************************************************************************)
(* Proofs about Context for any number of runs, messages and submissions:  *)
(* a session is told nothing twice, nothing that it does not know is       *)
(* forgotten without a reason, and runs are spread evenly.                 *)
(***************************************************************************)
EXTENDS Context, SequenceTheorems, FiniteSetTheorems, TLAPS

-----------------------------------------------------------------------------
(* The inductive invariant.                                                *)

Stages == {"queued", "bound", "started", "running", "over"}
Untold == {"queued", "bound", "started"}

Turn == [provider : Providers, native : Nat, capsule : BOOLEAN, after : Nat,
         quotes : SUBSET Nat, omits : SUBSET Nat]

Run == [turn : Turn, next : Seq(Turn), from : Nat, cut : Nat, stage : Stages,
        told : BOOLEAN, balanced : BOOLEAN, renewed : BOOLEAN, missed : SUBSET Nat]

Draft == [at : {"session", "boundary", "messages", "persist"}, attempt : {1, 2},
          turns : Seq(Turn), balanced : BOOLEAN, active : SUBSET Nat, runs : Nat]

Elsewheres == [used : [Providers -> Nat], open : [Providers -> Nat], stray : Nat]

TypeInv ==
  /\ conversation \in [profile : {"continuity", "usage_balance"}, archived : BOOLEAN]
  /\ messages \in Seq(Nat)
  /\ runs \in Seq(Run)
  /\ session \in [Providers -> [native : Nat, through : Nat]]
  /\ native \in Seq([shown : SUBSET Nat, omitted : SUBSET Nat])
  /\ draft # Idle => draft \in Draft
  /\ elsewhere \in Elsewheres

\* The first turn of a submission or a run, and that of its fallback.
OnePlan(t, next) ==
  /\ Len(next) \in {0, 1}
  /\ \A i \in DOMAIN next : next[i].provider # t.provider

\* Run r, the last of which is top, with n messages, and the session of its
\* provider.  It knows every message from its turn on, and until then its own
\* message is the last one.
RunRow(run, r, top, n, bound) ==
  /\ run.from \in 0 .. r - 1
  /\ run.cut \in 1 .. n
  /\ OnePlan(run.turn, run.next)
  /\ run.turn.quotes \subseteq 1 .. run.cut
  /\ \A i \in DOMAIN run.next : run.next[i].quotes \subseteq 1 .. run.cut
  /\ run.renewed => run.missed # {}
  /\ run.stage # "over" => r = top
  /\ run.stage \in Untold => ~run.told
  /\ run.stage = "running" => run.told
  /\ run.stage \notin {"queued", "over"} => run.turn.native = bound.native /\ bound.native # 0
  /\ r = top => IF run.told THEN bound.through = n ELSE run.cut = n

\* Only the last run can be active.
RunInv ==
  /\ runs = <<>> => messages = <<>>
  /\ \A r \in DOMAIN runs :
       RunRow(runs[r], r, Len(runs), Len(messages), session[runs[r].turn.provider])

\* The turns that were planned, and what they and the provider take for its
\* native session.
RunPlans == {runs[r].turn : r \in DOMAIN runs} \cup UNION {ToSet(runs[r].next) : r \in DOMAIN runs}
DraftPlans == IF draft = Idle THEN {} ELSE ToSet(draft.turns)
Planned == RunPlans \cup DraftPlans

Held == [p \in Providers |->
  {session[p].native} \cup {t.native : t \in {u \in Planned : u.provider = p}}]

\* A native session belongs to one provider, and was shown nothing that lies
\* beyond the boundary of it.
NativeInv ==
  /\ \A p \in Providers : \A n \in Held[p] :
       /\ n \in 0 .. Len(native)
       /\ n # 0 => native[n].shown \subseteq 1 .. session[p].through
  /\ Held["codex"] \cap Held["claude"] \subseteq {0}

\* What an attempt on the provider took along that never became a turn.
Lost == [p \in Providers |-> {m \in Nat : LostWith(m, p)}]

\* A turn repeats nothing that its session knows, and says the rest.
Covers(t, known, lost, upto) ==
  /\ t.quotes \subseteq known + 1 .. upto
  /\ known + 1 .. upto \subseteq t.quotes \cup t.omits \cup lost

IsCovered(t, upto) == Covers(t, session[t.provider].through, Lost[t.provider], upto)
IsBound(t) == t.native = session[t.provider].native

\* The plans of a run, given the sessions and what was lost.
Plans(run, bound, lost) ==
  run.stage \in Untold /\ run.missed = {} =>
    /\ \A t \in {run.turn} \cup ToSet(run.next) :
         /\ Covers(t, bound[t.provider].through, lost[t.provider], run.cut - 1)
         /\ bound[t.provider].through < run.cut
    /\ run.stage = "queued" => run.turn.native = bound[run.turn.provider].native
    /\ \A t \in ToSet(run.next) : t.native = bound[t.provider].native

\* The plans of a run whose submission was prepared while nothing ran hold until
\* its turn is told.
PlanInv == \A r \in DOMAIN runs : Plans(runs[r], session, Lost)

QuietDraft == draft # Idle /\ draft.active = {} /\ draft.runs = Len(runs)

IsRead(i) == i < draft.attempt \/ (i = draft.attempt /\ draft.at # "session")
IsDone(i) == i < draft.attempt \/ draft.at = "persist"

\* While nothing runs, what the submission in preparation has read stays true.
DraftInv ==
  draft # Idle =>
    /\ draft.runs <= Len(runs)
    /\ draft.attempt <= Len(draft.turns) /\ Len(draft.turns) \in {1, 2}
    /\ draft.at = "persist" => draft.attempt = Len(draft.turns)
    /\ Len(draft.turns) = 2 => draft.turns[2].provider # draft.turns[1].provider
    /\ \A i \in DOMAIN draft.turns : draft.turns[i].quotes \subseteq 1 .. Len(messages)
    /\ QuietDraft =>
         /\ Quiet
         /\ draft.at = "messages" =>
              Preparing.after = session[Preparing.provider].through
         /\ \A i \in DOMAIN draft.turns :
              /\ IsRead(i) => IsBound(draft.turns[i])
              /\ IF IsDone(i) THEN IsCovered(draft.turns[i], Len(messages))
                              ELSE draft.turns[i].quotes = {}

\* What a submission passed over that was prepared while a run was active.
Passed == [p \in Providers |-> {m \in Nat : PassedOver(m, p)}]

Told(p) == native[session[p].native].shown \cup native[session[p].native].omitted
Known == [p \in Providers |-> Told(p) \cup Lost[p] \cup Passed[p]]

\* ContextIsAccountedFor, while a run is active, too.
KnownInv ==
  \A p \in Providers :
    IF session[p].native = 0 THEN session[p].through = 0
    ELSE session[p].through <= Len(messages) /\ 1 .. session[p].through \subseteq Known[p]

Few == 1 + Others + Undecided

\* By how much p leads if all other conversations fall back to it that can.
Reach(p) == Usage(p) - Usage(Rival(p)) + elsewhere.open[p]

\* The difference is in bounds whichever conversations fall back, this one
\* included, and after the submission in preparation.
BalanceInv ==
  /\ elsewhere.open["codex"] + elsewhere.open["claude"] <= Others
  /\ \A p \in Providers : Reach(p) <= Few
  /\ \A r \in DOMAIN runs : Active(r) /\ runs[r].next # <<>> =>
       Reach(Rival(Provider(r))) + 1 <= Few
  /\ QuietDraft /\ draft.balanced => Reach(draft.turns[1].provider) + 1 <= Few

IInv == TypeInv /\ RunInv /\ NativeInv /\ PlanInv /\ DraftInv /\ KnownInv /\ BalanceInv

-----------------------------------------------------------------------------
(* Facts used in several places.                                           *)

\* Replacing one element of a sequence.
LEMMA Replaced ==
  ASSUME NEW S, NEW s \in Seq(S), NEW r \in DOMAIN s, NEW x \in S,
         NEW t, t = [s EXCEPT ![r] = x]
  PROVE  /\ t \in Seq(S) /\ Len(t) = Len(s) /\ DOMAIN t = DOMAIN s
         /\ t[r] = x /\ \A i \in DOMAIN s : i # r => t[i] = s[i]
<1>1. r \in 1 .. Len(s) /\ DOMAIN s = 1 .. Len(s)
  BY LenProperties
<1>2. /\ t \in Seq(S) /\ Len(t) = Len(s)
      /\ \A j \in 1 .. Len(s) : t[j] = IF j = r THEN x ELSE s[j]
  BY <1>1, ExceptSeq
<1>3. DOMAIN t = 1 .. Len(t)
  BY <1>2, LenProperties
<1>. QED BY <1>1, <1>2, <1>3

LEMMA Appended ==
  ASSUME NEW S, NEW s \in Seq(S), NEW x \in S
  PROVE  /\ Append(s, x) \in Seq(S) /\ Len(Append(s, x)) = Len(s) + 1
         /\ Len(s) \in Nat /\ DOMAIN s = 1 .. Len(s)
         /\ DOMAIN Append(s, x) = 1 .. Len(s) + 1
         /\ Append(s, x)[Len(s) + 1] = x
         /\ \A i \in DOMAIN s : Append(s, x)[i] = s[i]
<1>1. /\ Len(s) \in Nat /\ DOMAIN s = 1 .. Len(s)
  BY LenProperties
<1>2. /\ Append(s, x) \in Seq(S) /\ Len(Append(s, x)) = Len(s) + 1
      /\ \A i \in 1 .. Len(s) + 1 : Append(s, x)[i] = IF i <= Len(s) THEN s[i] ELSE x
  OBVIOUS
<1>3. DOMAIN Append(s, x) = 1 .. Len(s) + 1
  BY <1>2, LenProperties
<1>. QED BY <1>1, <1>2, <1>3

LEMMA Shapes ==
  ASSUME TypeInv
  PROVE  /\ Len(runs) \in Nat /\ DOMAIN runs = 1 .. Len(runs)
         /\ \A r \in DOMAIN runs : runs[r] \in Run
         /\ Len(messages) \in Nat /\ DOMAIN messages = 1 .. Len(messages)
         /\ Len(native) \in Nat /\ DOMAIN native = 1 .. Len(native)
         /\ \A n \in DOMAIN native : native[n] \in [shown : SUBSET Nat, omitted : SUBSET Nat]
         /\ runs = <<>> <=> Len(runs) = 0
<1>. USE DEF TypeInv
<1>1. /\ Len(runs) \in Nat /\ DOMAIN runs = 1 .. Len(runs)
      /\ Len(messages) \in Nat /\ DOMAIN messages = 1 .. Len(messages)
      /\ Len(native) \in Nat /\ DOMAIN native = 1 .. Len(native)
  BY LenProperties
<1>2. \A r \in 1 .. Len(runs) : runs[r] \in Run
  BY ElementOfSeq
<1>3. \A n \in 1 .. Len(native) : native[n] \in [shown : SUBSET Nat, omitted : SUBSET Nat]
  BY ElementOfSeq
<1>4. runs = <<>> <=> Len(runs) = 0
  BY EmptySeq
<1>. QED BY <1>1, <1>2, <1>3, <1>4

\* The turns of a plan, or of the submission in preparation.
LEMMA TurnShapes ==
  ASSUME NEW s \in Seq(Turn)
  PROVE  /\ Len(s) \in Nat /\ DOMAIN s = 1 .. Len(s) /\ s = <<>> <=> Len(s) = 0
         /\ \A i \in DOMAIN s : s[i] \in Turn
         /\ s # <<>> => Head(s) = s[1]
<1>1. Len(s) \in Nat /\ DOMAIN s = 1 .. Len(s)
  BY LenProperties
<1>2. \A i \in 1 .. Len(s) : s[i] \in Turn
  BY ElementOfSeq
<1>. QED BY <1>1, <1>2, EmptySeq

\* What somebody plans with is held.
LEMMA PlannedIsHeld ==
  ASSUME NEW t \in Planned, t.provider \in Providers
  PROVE  t.native \in Held[t.provider]
BY DEF Held

LEMMA DraftIsHeld ==
  ASSUME TypeInv, draft # Idle, NEW i \in DOMAIN draft.turns
  PROVE  /\ draft.turns[i] \in Turn
         /\ draft.turns[i].native \in Held[draft.turns[i].provider]
<1>1. draft.turns[i] \in Turn
  BY TurnShapes DEF TypeInv, Draft
<1>2. draft.turns[i] \in Planned
  BY DEF Planned, DraftPlans, ToSet
<1>3. draft.turns[i].provider \in Providers
  BY <1>1 DEF Turn
<1>. QED BY <1>1, <1>2, <1>3, PlannedIsHeld

-----------------------------------------------------------------------------
(* What a step never takes back.                                           *)

\* What the runs of a step have in common with those before it: a run that is
\* over stays as it is, and nobody takes over from it.
Grows ==
  /\ DOMAIN runs \subseteq DOMAIN runs'
  /\ \A r \in DOMAIN runs :
       /\ runs'[r].turn.provider = runs[r].turn.provider
       /\ runs'[r].cut = runs[r].cut /\ runs'[r].missed = runs[r].missed
       /\ runs'[r].from = runs[r].from /\ runs'[r].balanced = runs[r].balanced
       /\ runs[r].stage = "over" => runs'[r] = runs[r]
  /\ \A f \in DOMAIN runs' \ DOMAIN runs :
       runs'[f].from = 0 \/ (runs'[f].from \in DOMAIN runs /\ Active(runs'[f].from))

LEMMA LostGrows ==
  ASSUME TypeInv, Grows
  PROVE  \A p \in Providers : Lost[p] \subseteq Lost'[p]
<1>. SUFFICES ASSUME NEW p \in Providers, NEW m \in Nat, LostWith(m, p)
              PROVE  LostWith(m, p)'
  BY DEF Lost
<1>1. PICK r \in DOMAIN runs :
        /\ runs[r].turn.provider = p /\ runs[r].stage = "over" /\ ~runs[r].told
        /\ m <= runs[r].cut
        /\ \A f \in DOMAIN runs : runs[f].from # r
  BY DEF LostWith, Provider
<1>2. runs'[r] = runs[r] /\ r \in DOMAIN runs' /\ r # 0
  BY <1>1, Shapes DEF Grows
<1>3. \A f \in DOMAIN runs' : runs'[f].from # r
  BY <1>1, <1>2 DEF Grows, Active
<1>. QED BY <1>1, <1>2, <1>3 DEF LostWith, Provider

LEMMA PassedGrows ==
  ASSUME Grows
  PROVE  \A p \in Providers : Passed[p] \subseteq Passed'[p]
<1>. SUFFICES ASSUME NEW p \in Providers, NEW m \in Nat, PassedOver(m, p)
              PROVE  PassedOver(m, p)'
  BY DEF Passed
<1>. QED BY DEF Grows, PassedOver, Provider

LEMMA KnownGrows ==
  ASSUME TypeInv, Grows, NEW p \in Providers,
         session'[p].native = session[p].native,
         native[session[p].native].shown \subseteq native'[session[p].native].shown,
         native[session[p].native].omitted \subseteq native'[session[p].native].omitted
  PROVE  Known[p] \subseteq Known'[p]
<1>1. Lost[p] \subseteq Lost'[p] /\ Passed[p] \subseteq Passed'[p]
  BY LostGrows, PassedGrows
<1>2. /\ Known[p] = native[session[p].native].shown \cup native[session[p].native].omitted
                    \cup Lost[p] \cup Passed[p]
      /\ Known'[p] = native'[session'[p].native].shown \cup native'[session'[p].native].omitted
                    \cup Lost'[p] \cup Passed'[p]
  BY DEF Known, Told
<1>. QED BY <1>1, <1>2

\* A step of a run leaves the submission in preparation alone, and no
\* submission is prepared while nothing runs.
LEMMA DraftKeeps ==
  ASSUME IInv, NEW r \in DOMAIN runs, Active(r), UNCHANGED <<draft, elsewhere>>,
         Len(runs') \in Nat, Len(runs') >= Len(runs),
         Len(messages') \in Nat, Len(messages') >= Len(messages)
  PROVE  DraftInv' /\ ~QuietDraft'
<1>. USE DEF IInv
<1>1. ~QuietDraft
  BY DEF DraftInv, QuietDraft, Quiet
<1>2. ~QuietDraft'
  <2>1. draft # Idle => draft.runs \in Nat /\ draft.runs <= Len(runs)
    BY DEF TypeInv, Draft, DraftInv
  <2>. QED BY <1>1, <2>1, Shapes DEF QuietDraft
<1>3. draft # Idle => \A i \in DOMAIN draft.turns : draft.turns[i].quotes \subseteq 1 .. Len(messages')
  BY Shapes DEF DraftInv
<1>4. draft # Idle => draft.runs <= Len(runs')
  BY Shapes DEF TypeInv, Draft, DraftInv
<1>. QED BY <1>2, <1>3, <1>4 DEF DraftInv

\* A session stays that of its provider.
LEMMA NativeKeeps ==
  ASSUME TypeInv, NativeInv, Len(native') \in Nat, Len(native') >= Len(native),
         \A p \in Providers : \A n \in Held'[p] \ {0} :
           n \in Held[p] /\ native'[n].shown \subseteq 1 .. session'[p].through
  PROVE  NativeInv'
BY Shapes DEF NativeInv, Providers

-----------------------------------------------------------------------------
(* The submission in preparation.                                          *)

\* A step of the submission alone.
LEMMA SubmissionKeeps ==
  ASSUME IInv, UNCHANGED <<messages, runs, session, native, elsewhere>>,
         conversation' \in [profile : {"continuity", "usage_balance"}, archived : BOOLEAN],
         conversation'.profile = conversation.profile,
         draft' # Idle => /\ draft' \in Draft
                          /\ \A i \in DOMAIN draft'.turns :
                               draft'.turns[i].native \in Held[draft'.turns[i].provider] \cup {0},
         DraftInv',
         QuietDraft' /\ draft'.balanced => Reach(draft'.turns[1].provider) + 1 <= Few
  PROVE  IInv'
<1>1. TypeInv /\ RunInv /\ NativeInv /\ PlanInv /\ KnownInv /\ BalanceInv
  BY DEF IInv
<1>2. TypeInv'
  BY <1>1 DEF TypeInv
<1>3. RunInv'
  BY <1>1 DEF RunInv
<1>4. Lost' = Lost /\ Passed' = Passed /\ Known' = Known
  BY DEF Lost, LostWith, Passed, PassedOver, Known, Told, Provider
<1>5. PlanInv'
  BY <1>1, <1>4 DEF PlanInv
<1>6. KnownInv'
  BY <1>1, <1>4 DEF KnownInv
<1>7. NativeInv'
  <2>1. \A t \in Planned' : t \in Planned \/ (draft' # Idle /\ t \in ToSet(draft'.turns))
    <3>1. RunPlans' = RunPlans
      BY DEF RunPlans, ToSet
    <3>2. DraftPlans' = IF draft' = Idle THEN {} ELSE ToSet(draft'.turns)
      BY DEF DraftPlans, ToSet
    <3>. QED BY <3>1, <3>2 DEF Planned
  <2>2. ASSUME NEW p \in Providers, NEW n \in Held'[p] \ {0}  PROVE n \in Held[p]
    <3>1. CASE n = session[p].native
      BY <3>1 DEF Held
    <3>2. CASE \E t \in Planned : t.provider = p /\ t.native = n
      BY <3>2 DEF Held
    <3>3. CASE draft' # Idle /\ \E t \in ToSet(draft'.turns) : t.provider = p /\ t.native = n
      BY <3>3 DEF ToSet
    <3>4. n \in {session[p].native} \cup {t.native : t \in {u \in Planned' : u.provider = p}}
      BY DEF Held
    <3>. QED BY <2>1, <3>1, <3>2, <3>3, <3>4
  <2>3. \A p \in Providers : \A n \in Held[p] \ {0} : native'[n].shown \subseteq 1 .. session'[p].through
    BY <1>1 DEF NativeInv
  <2>4. Len(native') \in Nat /\ Len(native') >= Len(native)
    BY <1>1, Shapes
  <2>. QED BY <1>1, <2>2, <2>3, <2>4, NativeKeeps
<1>8. BalanceInv'
  <2>1. Few' = Few /\ \A p : Reach(p)' = Reach(p)
    BY DEF Few, Undecided, Reach, Usage
  <2>2. \A r \in DOMAIN runs : (Active(r)' <=> Active(r)) /\ Provider(r)' = Provider(r)
    BY DEF Active, Provider
  <2>. QED BY <1>1, <2>1, <2>2 DEF BalanceInv
<1>. QED BY <1>2, <1>3, <1>5, <1>6, <1>7, <1>8 DEF IInv

LEMMA RefuseKeeps ==
  ASSUME IInv, Refuse
  PROVE  IInv'
<1>1. draft' = Idle /\ conversation' = conversation
  BY DEF Refuse
<1>2. DraftInv' /\ ~QuietDraft'
  BY <1>1 DEF DraftInv, QuietDraft
<1>. QED BY <1>1, <1>2, SubmissionKeeps DEF Refuse, IInv, TypeInv

\* A step of the conversation alone, or none.
LEMMA ConversationKeeps ==
  ASSUME IInv, UNCHANGED <<messages, runs, session, draft, native, elsewhere>>,
         conversation' \in [profile : {"continuity", "usage_balance"}, archived : BOOLEAN],
         conversation'.profile = conversation.profile
  PROVE  IInv'
<1>1. TypeInv /\ DraftInv /\ BalanceInv
  BY DEF IInv
<1>2. Lost' = Lost
  BY DEF Lost, LostWith, Provider
<1>3. DraftInv'
  BY <1>1, <1>2 DEF DraftInv, QuietDraft, Quiet, Active, Preparing, IsRead, IsDone, IsBound,
     IsCovered
<1>4. draft # Idle => \A i \in DOMAIN draft.turns :
        draft.turns[i].native \in Held[draft.turns[i].provider]
  BY <1>1, DraftIsHeld
<1>5. QuietDraft' = QuietDraft
  BY DEF QuietDraft
<1>. QED BY <1>1, <1>3, <1>4, <1>5, SubmissionKeeps DEF TypeInv, BalanceInv

LEMMA ArchiveKeeps ==
  ASSUME IInv, Archive
  PROVE  IInv'
BY ConversationKeeps DEF IInv, TypeInv, Archive

LEMMA FirstOfTwo == \A i, n : i \in {1, 2} /\ n \in {1, 2} /\ i < n => i = 1
OBVIOUS

\* What a read of the submission does: the turn it prepares becomes x, and it
\* goes on with this turn, the fallback's or the store.
LEMMA TurnKeeps ==
  ASSUME IInv, draft # Idle, draft.at # "persist",
         UNCHANGED <<conversation, messages, runs, session, native, elsewhere>>,
         NEW x \in Turn, x.provider = Preparing.provider,
         x.native \in {Preparing.native, session[x.provider].native},
         x.quotes \subseteq 1 .. Len(messages),
         draft' \in Draft,
         draft'.turns = [draft.turns EXCEPT ![draft.attempt] = x],
         draft'.runs = draft.runs, draft'.active = draft.active, draft'.balanced = draft.balanced,
         \/ draft'.at \in {"boundary", "messages"} /\ draft'.attempt = draft.attempt
         \/ draft'.at = "session" /\ draft.attempt < Len(draft.turns) /\ draft'.attempt = 2
         \/ draft'.at = "persist" /\ draft.attempt = Len(draft.turns) /\ draft'.attempt = draft.attempt,
         QuietDraft =>
           /\ x.native = session[x.provider].native
           /\ draft'.at = "messages" => x.after = session[x.provider].through
           /\ IF draft'.at \in {"session", "persist"}
              THEN Covers(x, session[x.provider].through, Lost[x.provider], Len(messages))
              ELSE x.quotes = {}
  PROVE  IInv'
<1>1. TypeInv /\ DraftInv /\ BalanceInv
  BY DEF IInv
<1>. DEFINE a == draft.attempt
<1>2. /\ draft \in Draft /\ draft.turns \in Seq(Turn) /\ a \in {1, 2}
      /\ Len(draft.turns) \in {1, 2} /\ a <= Len(draft.turns)
      /\ DOMAIN draft.turns = 1 .. Len(draft.turns)
      /\ a \in DOMAIN draft.turns
  BY <1>1, TurnShapes DEF TypeInv, DraftInv, Draft
<1>3. /\ draft'.turns \in Seq(Turn) /\ Len(draft'.turns) = Len(draft.turns)
      /\ DOMAIN draft'.turns = DOMAIN draft.turns
      /\ draft'.turns[a] = x
      /\ \A i \in DOMAIN draft.turns : i # a => draft'.turns[i] = draft.turns[i]
  BY <1>2, Replaced
<1>4. \A i \in DOMAIN draft.turns : draft'.turns[i].provider = draft.turns[i].provider
  BY <1>3 DEF Preparing
<1>5. draft' # Idle
  <2>1. "active" \in DOMAIN draft' /\ "active" \notin DOMAIN Idle
    BY DEF Draft, Idle
  <2>. QED BY <2>1
<1>6. QuietDraft' = QuietDraft
  BY <1>5 DEF QuietDraft
<1>7. Lost' = Lost
  BY DEF Lost, LostWith, Provider
<1>8. ASSUME QuietDraft
      PROVE  /\ Quiet'
             /\ draft'.at = "messages" => Preparing'.after = session'[Preparing'.provider].through
             /\ \A i \in DOMAIN draft'.turns :
                  /\ IsRead(i)' => draft'.turns[i].native = session'[draft'.turns[i].provider].native
                  /\ IF IsDone(i)'
                     THEN Covers(draft'.turns[i], session'[draft'.turns[i].provider].through,
                                 Lost'[draft'.turns[i].provider], Len(messages'))
                     ELSE draft'.turns[i].quotes = {}
  <2>1. Quiet'
    BY <1>1, <1>8 DEF DraftInv, Quiet, Active
  <2>2. draft'.at = "messages" => Preparing'.after = session'[Preparing'.provider].through
    BY <1>3, <1>8 DEF Preparing
  <2>3. ASSUME NEW i \in DOMAIN draft.turns, i # a
        PROVE  /\ IsRead(i)' => IsRead(i)
               /\ IsDone(i)' <=> IsDone(i)
    BY <1>2, <2>3 DEF IsRead, IsDone
  <2>4. \A i \in DOMAIN draft.turns :
          /\ IsRead(i) => draft.turns[i].native = session[draft.turns[i].provider].native
          /\ IF IsDone(i)
             THEN Covers(draft.turns[i], session[draft.turns[i].provider].through,
                         Lost[draft.turns[i].provider], Len(messages))
             ELSE draft.turns[i].quotes = {}
    BY <1>1, <1>8 DEF DraftInv, IsBound, IsCovered
  <2>5. ASSUME NEW i \in DOMAIN draft.turns, i = a
        PROVE  IsDone(i)' <=> draft'.at \in {"session", "persist"}
    <3>1. a \in {1, 2} /\ Len(draft.turns) \in {1, 2} /\ i = a
      BY <1>2, <2>5
    <3>2. CASE draft'.at \in {"boundary", "messages"} /\ draft'.attempt = a
      BY <3>1, <3>2 DEF IsDone
    <3>3. CASE draft'.at = "session" /\ a < Len(draft.turns) /\ draft'.attempt = 2
      <4>1. a = 1
        BY <3>1, <3>3, FirstOfTwo, Zenon
      <4>2. i < draft'.attempt
        BY <3>1, <3>3, <4>1
      <4>. QED BY <3>3, <4>2 DEF IsDone
    <3>4. CASE draft'.at = "persist"
      BY <3>4 DEF IsDone
    <3>. QED BY <3>2, <3>3, <3>4
  <2>6. ASSUME NEW i \in DOMAIN draft.turns, i # a
        PROVE  /\ IsRead(i)' => draft'.turns[i].native = session'[draft'.turns[i].provider].native
               /\ IF IsDone(i)'
                  THEN Covers(draft'.turns[i], session'[draft'.turns[i].provider].through,
                              Lost'[draft'.turns[i].provider], Len(messages'))
                  ELSE draft'.turns[i].quotes = {}
    BY <1>3, <1>7, <2>3, <2>4, <2>6
  <2>7. ASSUME NEW i \in DOMAIN draft.turns, i = a
        PROVE  /\ draft'.turns[i].native = session'[draft'.turns[i].provider].native
               /\ IF IsDone(i)'
                  THEN Covers(draft'.turns[i], session'[draft'.turns[i].provider].through,
                              Lost'[draft'.turns[i].provider], Len(messages'))
                  ELSE draft'.turns[i].quotes = {}
    <3>1. draft'.turns[i] = x
      BY <1>3, <2>7
    <3>2. IsDone(i)' <=> draft'.at \in {"session", "persist"}
      BY <2>5, <2>7
    <3>. QED BY <1>7, <1>8, <3>1, <3>2
  <2>. QED BY <1>3, <2>1, <2>2, <2>6, <2>7
<1>9. DraftInv'
  <2>1. /\ draft'.runs <= Len(runs')
        /\ draft'.attempt <= Len(draft'.turns) /\ Len(draft'.turns) \in {1, 2}
        /\ draft'.at = "persist" => draft'.attempt = Len(draft'.turns)
        /\ Len(draft'.turns) = 2 => draft'.turns[2].provider # draft'.turns[1].provider
    BY <1>1, <1>2, <1>3, <1>4 DEF DraftInv
  <2>2. \A i \in DOMAIN draft'.turns : draft'.turns[i].quotes \subseteq 1 .. Len(messages')
    BY <1>1, <1>3 DEF DraftInv
  <2>. QED BY <1>6, <1>8, <2>1, <2>2 DEF DraftInv, IsCovered, IsBound
<1>10. \A i \in DOMAIN draft'.turns :
         draft'.turns[i].native \in Held[draft'.turns[i].provider] \cup {0}
  <2>1. \A i \in DOMAIN draft.turns :
          draft.turns[i] \in Turn /\ draft.turns[i].native \in Held[draft.turns[i].provider]
    BY <1>1, DraftIsHeld
  <2>2. x.native \in Held[x.provider]
    BY <1>2, <2>1 DEF Preparing, Held, Turn
  <2>. QED BY <1>3, <2>1, <2>2
<1>11. QuietDraft' /\ draft'.balanced => Reach(draft'.turns[1].provider) + 1 <= Few
  BY <1>1, <1>2, <1>4, <1>6 DEF BalanceInv
<1>. QED BY <1>1, <1>9, <1>10, <1>11, SubmissionKeeps DEF TypeInv

\* A session that had the last turn knows every message, or that turn was lost.
LEMMA SessionKnows ==
  ASSUME IInv, Quiet, NEW p \in Providers, Latest \in {None, p}
  PROVE  session[p].through + 1 .. Len(messages) \subseteq Lost[p]
<1>1. TypeInv /\ RunInv /\ session[p].through \in Nat /\ None \notin Providers
  BY DEF IInv, TypeInv, None, Providers
<1>2. CASE runs = <<>>
  <2>1. Len(messages) = 0
    BY <1>1, <1>2 DEF RunInv
  <2>. QED BY <1>1, <2>1
<1>3. CASE runs # <<>>
  <2>. DEFINE r == Len(runs)
  <2>1. /\ r \in DOMAIN runs /\ r \in Nat \ {0} /\ DOMAIN runs = 1 .. r
        /\ runs[r] \in Run /\ runs[r].turn.provider \in Providers
    <3>1. Len(runs) \in Nat \ {0} /\ DOMAIN runs = 1 .. Len(runs)
      BY <1>1, <1>3, Shapes
    <3>2. runs[r] \in Run
      BY <1>1, <3>1, Shapes
    <3>. QED BY <3>1, <3>2 DEF Run, Turn
  <2>2. Latest = runs[r].turn.provider
    BY <1>3 DEF Latest, Last
  <2>3. runs[r].turn.provider = p /\ runs[r].stage = "over"
    BY <1>1, <2>1, <2>2 DEF Quiet, Active
  <2>4. CASE runs[r].told
    <3>1. session[p].through = Len(messages)
      BY <1>1, <2>1, <2>3, <2>4 DEF RunInv, RunRow
    <3>. QED BY <1>1, <3>1, Shapes
  <2>5. CASE ~runs[r].told
    <3>1. runs[r].cut = Len(messages)
      BY <1>1, <2>1, <2>3, <2>5 DEF RunInv, RunRow
    <3>2. \A f \in DOMAIN runs : runs[f].from # r
      BY <1>1, <2>1 DEF RunInv, RunRow
    <3>3. ASSUME NEW m \in session[p].through + 1 .. Len(messages)
          PROVE  m \in Nat /\ LostWith(m, p)
      <4>1. m \in Nat /\ m <= runs[r].cut
        BY <1>1, <3>1, Shapes
      <4>. QED BY <2>1, <2>3, <2>5, <3>2, <4>1 DEF LostWith, Provider
    <3>. QED BY <3>3 DEF Lost
  <2>. QED BY <2>4, <2>5
<1>. QED BY <1>2, <1>3

LEMMA PreparingShape ==
  ASSUME IInv, draft # Idle
  PROVE  /\ draft \in Draft /\ Preparing \in Turn /\ Preparing.provider \in Providers
         /\ draft.attempt \in {1, 2} /\ Len(draft.turns) \in {1, 2}
         /\ draft.attempt <= Len(draft.turns) /\ draft.attempt \in DOMAIN draft.turns
         /\ draft.turns \in Seq(Turn)
         /\ Preparing.quotes \subseteq 1 .. Len(messages)
         /\ session[Preparing.provider] \in [native : Nat, through : Nat]
         /\ QuietDraft /\ draft.at # "persist" => Preparing.quotes = {}
<1>1. /\ draft \in Draft /\ draft.turns \in Seq(Turn) /\ draft.attempt \in {1, 2}
      /\ Len(draft.turns) \in {1, 2} /\ draft.attempt <= Len(draft.turns)
      /\ session \in [Providers -> [native : Nat, through : Nat]]
  BY DEF IInv, TypeInv, DraftInv, Draft
<1>2. draft.attempt \in DOMAIN draft.turns
  BY <1>1, TurnShapes
<1>3. Preparing \in Turn /\ Preparing.provider \in Providers
  BY <1>1, <1>2, TurnShapes DEF Preparing, Turn
<1>4. Preparing.quotes \subseteq 1 .. Len(messages)
  BY <1>2 DEF Preparing, IInv, DraftInv
<1>5. QuietDraft /\ draft.at # "persist" => Preparing.quotes = {}
  BY <1>1, <1>2 DEF Preparing, IInv, DraftInv, IsDone
<1>. QED BY <1>1, <1>2, <1>3, <1>4, <1>5

\* Where the submission goes on after the turn it prepares.
LEMMA PreparedShape ==
  ASSUME NEW d \in Draft, d.attempt <= Len(d.turns), Len(d.turns) \in {1, 2}
  PROVE  LET e == Prepared(d) IN
         /\ e \in Draft /\ e.turns = d.turns /\ e.runs = d.runs
         /\ e.active = d.active /\ e.balanced = d.balanced
         /\ \/ e.at = "session" /\ d.attempt < Len(d.turns) /\ e.attempt = 2
            \/ e.at = "persist" /\ d.attempt = Len(d.turns) /\ e.attempt = d.attempt
<1>1. CASE d.attempt < Len(d.turns)
  <2>1. d.attempt = 1
    BY <1>1, FirstOfTwo DEF Draft
  <2>2. Prepared(d) = [d EXCEPT !.at = "session", !.attempt = 2]
    BY <1>1, <2>1 DEF Prepared
  <2>. QED BY <1>1, <2>2 DEF Draft
<1>2. CASE ~(d.attempt < Len(d.turns))
  <2>1. Prepared(d) = [d EXCEPT !.at = "persist"]
    BY <1>2 DEF Prepared
  <2>2. d.attempt = Len(d.turns)
    BY <1>2 DEF Draft
  <2>. QED BY <2>1, <2>2 DEF Draft
<1>. QED BY <1>1, <1>2

LEMMA ReadSessionKeeps ==
  ASSUME IInv, ReadSession
  PROVE  IInv'
<1>. DEFINE p == Preparing.provider
            x == [Preparing EXCEPT !.native = session[p].native, !.capsule = NeedsCapsule(p)]
            d == [draft EXCEPT !.turns = [draft.turns EXCEPT ![draft.attempt] = x]]
<1>1. /\ draft.at = "session" /\ draft # Idle
      /\ UNCHANGED <<conversation, messages, runs, session, native, elsewhere>>
      /\ NeedsCapsule(p) \in BOOLEAN
  BY DEF ReadSession, Idle, NeedsCapsule
<1>2. /\ draft \in Draft /\ Preparing \in Turn /\ p \in Providers
      /\ draft.attempt \in {1, 2} /\ Len(draft.turns) \in {1, 2}
      /\ draft.attempt <= Len(draft.turns) /\ draft.attempt \in DOMAIN draft.turns
      /\ draft.turns \in Seq(Turn)
      /\ Preparing.quotes \subseteq 1 .. Len(messages)
      /\ session[p] \in [native : Nat, through : Nat]
      /\ QuietDraft => Preparing.quotes = {}
  BY <1>1, PreparingShape
<1>3. /\ x \in Turn /\ x.provider = p /\ x.native = session[p].native
      /\ x.quotes = Preparing.quotes
  BY <1>1, <1>2 DEF Turn
<1>4. draft' = IF NeedsCapsule(p) THEN [d EXCEPT !.at = "boundary"] ELSE Prepared(d)
  <2>1. d = [draft EXCEPT !.turns[draft.attempt].native = session[p].native,
                          !.turns[draft.attempt].capsule = NeedsCapsule(p)]
    <3>1. draft.turns[draft.attempt] = Preparing
      BY DEF Preparing
    <3>. HIDE DEF p
    <3>. QED BY <1>2, <3>1 DEF Draft, Turn
  <2>. HIDE DEF d
  <2>. QED BY <2>1 DEF ReadSession
<1>5. /\ d \in Draft /\ d.turns = [draft.turns EXCEPT ![draft.attempt] = x]
      /\ Len(d.turns) = Len(draft.turns)
      /\ d.attempt = draft.attempt /\ d.runs = draft.runs /\ d.active = draft.active
      /\ d.balanced = draft.balanced
  <2>1. /\ [draft.turns EXCEPT ![draft.attempt] = x] \in Seq(Turn)
        /\ Len([draft.turns EXCEPT ![draft.attempt] = x]) = Len(draft.turns)
    BY <1>2, <1>3, Replaced
  <2>. HIDE DEF x
  <2>. QED BY <1>2, <2>1 DEF Draft
<1>. HIDE DEF x, d
<1>6. CASE NeedsCapsule(p)
  <2>1. draft' = [d EXCEPT !.at = "boundary"]
    BY <1>4, <1>6
  <2>2. /\ draft' \in Draft /\ draft'.at = "boundary" /\ draft'.attempt = draft.attempt
        /\ draft'.turns = d.turns /\ draft'.runs = d.runs /\ draft'.active = d.active
        /\ draft'.balanced = d.balanced
    BY <1>5, <2>1 DEF Draft
  <2>. QED BY <1>1, <1>2, <1>3, <1>5, <2>2, TurnKeeps
<1>7. CASE ~NeedsCapsule(p)
  <2>1. draft' = Prepared(d)
    BY <1>4, <1>7
  <2>2. /\ draft' \in Draft /\ draft'.turns = d.turns /\ draft'.runs = d.runs
        /\ draft'.active = d.active /\ draft'.balanced = d.balanced
        /\ \/ draft'.at = "session" /\ d.attempt < Len(d.turns) /\ draft'.attempt = 2
           \/ draft'.at = "persist" /\ d.attempt = Len(d.turns) /\ draft'.attempt = d.attempt
    BY <1>2, <1>5, <2>1, PreparedShape
  <2>3. QuietDraft => Covers(x, session[p].through, Lost[p], Len(messages))
    <3>1. SUFFICES ASSUME QuietDraft PROVE Covers(x, session[p].through, Lost[p], Len(messages))
      OBVIOUS
    <3>2. Quiet /\ x.quotes = {}
      BY <1>1, <1>2, <1>3, <3>1 DEF IInv, DraftInv
    <3>3. Latest \in {None, p}
      BY <1>7 DEF NeedsCapsule
    <3>4. session[p].through + 1 .. Len(messages) \subseteq Lost[p]
      BY <1>2, <3>2, <3>3, SessionKnows
    <3>. QED BY <3>2, <3>4 DEF Covers
  <2>. QED BY <1>1, <1>2, <1>3, <1>5, <2>2, <2>3, TurnKeeps
<1>. QED BY <1>6, <1>7

LEMMA ReadBoundaryKeeps ==
  ASSUME IInv, ReadBoundary
  PROVE  IInv'
<1>. DEFINE p == Preparing.provider
            x == [Preparing EXCEPT !.after = session[p].through]
<1>1. /\ draft.at = "boundary" /\ draft # Idle
      /\ UNCHANGED <<conversation, messages, runs, session, native, elsewhere>>
  BY DEF ReadBoundary, Idle
<1>2. /\ draft \in Draft /\ Preparing \in Turn /\ p \in Providers
      /\ draft.attempt \in {1, 2} /\ Len(draft.turns) \in {1, 2}
      /\ draft.attempt <= Len(draft.turns) /\ draft.attempt \in DOMAIN draft.turns
      /\ draft.turns \in Seq(Turn)
      /\ Preparing.quotes \subseteq 1 .. Len(messages)
      /\ session[p] \in [native : Nat, through : Nat]
      /\ QuietDraft => Preparing.quotes = {}
  BY <1>1, PreparingShape
<1>3. /\ x \in Turn /\ x.provider = p /\ x.native = Preparing.native
      /\ x.quotes = Preparing.quotes /\ x.after = session[p].through
  BY <1>1, <1>2 DEF Turn
<1>4. draft' = [draft EXCEPT !.at = "messages",
                             !.turns = [draft.turns EXCEPT ![draft.attempt] = x]]
  BY <1>1, <1>2 DEF ReadBoundary, Draft, Preparing, Turn
<1>5. /\ [draft.turns EXCEPT ![draft.attempt] = x] \in Seq(Turn)
  BY <1>2, <1>3, Replaced
<1>. HIDE DEF x
<1>6. /\ draft' \in Draft /\ draft'.at = "messages" /\ draft'.attempt = draft.attempt
      /\ draft'.turns = [draft.turns EXCEPT ![draft.attempt] = x]
      /\ draft'.runs = draft.runs /\ draft'.active = draft.active
      /\ draft'.balanced = draft.balanced
  BY <1>2, <1>4, <1>5 DEF Draft
<1>7. QuietDraft => Preparing.native = session[p].native
  BY <1>1, <1>2 DEF IInv, DraftInv, Preparing, IsRead, IsBound
<1>. QED BY <1>1, <1>2, <1>3, <1>6, <1>7, TurnKeeps

LEMMA LoadMessagesKeeps ==
  ASSUME IInv, NEW first, LoadMessages(first)
  PROVE  IInv'
<1>. DEFINE p == Preparing.provider
            x == Capsule(Preparing, first)
            d == [draft EXCEPT !.turns = [draft.turns EXCEPT ![draft.attempt] = x]]
<1>1. /\ draft.at = "messages" /\ draft # Idle
      /\ UNCHANGED <<conversation, messages, runs, session, native, elsewhere>>
      /\ first \in Unseen \cup {Len(messages) + 1}
  BY DEF LoadMessages, Idle
<1>2. /\ draft \in Draft /\ Preparing \in Turn /\ p \in Providers
      /\ draft.attempt \in {1, 2} /\ Len(draft.turns) \in {1, 2}
      /\ draft.attempt <= Len(draft.turns) /\ draft.attempt \in DOMAIN draft.turns
      /\ draft.turns \in Seq(Turn)
      /\ session[p] \in [native : Nat, through : Nat]
  BY <1>1, PreparingShape
<1>3. /\ Preparing.after \in Nat /\ Len(messages) \in Nat /\ first \in Nat
      /\ Unseen = Preparing.after + 1 .. Len(messages)
  <2>1. Preparing.after \in Nat /\ Len(messages) \in Nat
    BY <1>2, Shapes DEF IInv, Turn
  <2>. QED BY <1>1, <2>1 DEF Unseen
<1>4. /\ x \in Turn /\ x.provider = p /\ x.native = Preparing.native
      /\ x.quotes = {m \in Unseen : m >= first} /\ x.omits = {m \in Unseen : m < first}
  <2>. DEFINE q == {m \in Unseen : m >= first}
              o == {m \in Unseen : m < first}
  <2>1. q \in SUBSET Nat /\ o \in SUBSET Nat
    BY <1>3
  <2>2. x = [Preparing EXCEPT !.quotes = q, !.omits = o]
    BY DEF Capsule
  <2>3. x.quotes = q /\ x.omits = o /\ x.provider = p /\ x.native = Preparing.native
        /\ x \in Turn
    <3>. HIDE DEF q, o, x
    <3>. QED BY <1>2, <2>1, <2>2 DEF Turn
  <2>. QED BY <2>3
<1>5. x.quotes \subseteq 1 .. Len(messages) /\ x.quotes \cup x.omits = Unseen
      /\ x.quotes \subseteq Unseen
  BY <1>3, <1>4
<1>6. draft' = Prepared(d)
  BY <1>1, <1>2 DEF LoadMessages, Draft, Preparing
<1>7. /\ d \in Draft /\ d.turns = [draft.turns EXCEPT ![draft.attempt] = x]
      /\ Len(d.turns) = Len(draft.turns)
      /\ d.attempt = draft.attempt /\ d.runs = draft.runs /\ d.active = draft.active
      /\ d.balanced = draft.balanced
  <2>1. /\ [draft.turns EXCEPT ![draft.attempt] = x] \in Seq(Turn)
        /\ Len([draft.turns EXCEPT ![draft.attempt] = x]) = Len(draft.turns)
    BY <1>2, <1>4, Replaced
  <2>. HIDE DEF x
  <2>. QED BY <1>2, <2>1 DEF Draft
<1>. HIDE DEF x, d
<1>8. /\ draft' \in Draft /\ draft'.turns = d.turns /\ draft'.runs = d.runs
      /\ draft'.active = d.active /\ draft'.balanced = d.balanced
      /\ \/ draft'.at = "session" /\ d.attempt < Len(d.turns) /\ draft'.attempt = 2
         \/ draft'.at = "persist" /\ d.attempt = Len(d.turns) /\ draft'.attempt = d.attempt
  BY <1>2, <1>6, <1>7, PreparedShape
<1>9. QuietDraft => /\ Preparing.native = session[p].native
                    /\ Covers(x, session[p].through, Lost[p], Len(messages))
  <2>1. SUFFICES ASSUME QuietDraft
                 PROVE  /\ Preparing.native = session[p].native
                        /\ Covers(x, session[p].through, Lost[p], Len(messages))
    OBVIOUS
  <2>2. Preparing.native = session[p].native
    BY <1>1, <1>2, <2>1 DEF IInv, DraftInv, Preparing, IsRead, IsBound
  <2>3. Preparing.after = session[p].through
    BY <1>1, <2>1 DEF IInv, DraftInv
  <2>. QED BY <1>3, <1>5, <2>2, <2>3 DEF Covers
<1>. QED BY <1>1, <1>2, <1>4, <1>5, <1>7, <1>8, <1>9, TurnKeeps

-----------------------------------------------------------------------------
(* Router::route.                                                          *)

LEMMA CountIsNat ==
  ASSUME NEW n \in Nat, NEW S \in SUBSET (1 .. n)
  PROVE  IsFiniteSet(S) /\ Cardinality(S) \in Nat
<1>1. IsFiniteSet(1 .. n)
  BY FS_Interval
<1>. QED BY <1>1, FS_Subset, FS_CardinalityType

LEMMA CountsAreNat ==
  ASSUME TypeInv
  PROVE  /\ \A p \in Providers : /\ Usage(p) \in Nat /\ Rival(p) \in Providers \ {p}
                                 /\ elsewhere.open[p] \in Nat /\ Reach(p) \in Int
         /\ Undecided \in Nat /\ Few \in Nat /\ Others \in Nat
<1>1. ASSUME NEW p \in Providers
      PROVE  /\ Usage(p) \in Nat /\ Rival(p) \in Providers \ {p} /\ elsewhere.open[p] \in Nat
  <2>. DEFINE S == {r \in DOMAIN runs : runs[r].turn.provider = p}
  <2>1. S \in SUBSET (1 .. Len(runs)) /\ Len(runs) \in Nat
    BY Shapes
  <2>. HIDE DEF S
  <2>2. Cardinality(S) \in Nat
    BY <2>1, CountIsNat
  <2>3. elsewhere.used[p] \in Nat /\ elsewhere.open[p] \in Nat
    BY DEF TypeInv, Elsewheres
  <2>4. Rival(p) \in Providers \ {p}
    BY DEF Rival, Providers
  <2>. QED BY <2>2, <2>3, <2>4 DEF Usage, S
<1>2. \A p \in Providers : Reach(p) \in Int
  BY <1>1 DEF Reach
<1>3. Undecided \in Nat
  <2>. DEFINE S == {r \in DOMAIN runs :
                      runs[r].from = 0 /\ (~runs[r].balanced \/ runs[r].missed # {})}
  <2>1. S \in SUBSET (1 .. Len(runs)) /\ Len(runs) \in Nat
    BY Shapes
  <2>. HIDE DEF S
  <2>2. Cardinality(S) \in Nat
    BY <2>1, CountIsNat
  <2>3. elsewhere.stray \in Nat
    BY DEF TypeInv, Elsewheres
  <2>. QED BY <2>2, <2>3 DEF Undecided, S
<1>4. Others \in Nat
  BY ContextAssumption
<1>. QED BY <1>1, <1>2, <1>3, <1>4 DEF Few

\* The least used provider does not lead.
LEMMA LeastUsedIs ==
  ASSUME TypeInv, NEW eligible \in SUBSET Providers, eligible # {}
  PROVE  /\ LeastUsed(eligible) \in eligible
         /\ eligible = Providers =>
              Usage(LeastUsed(eligible)) <= Usage(Rival(LeastUsed(eligible)))
<1>1. LeastUsed(eligible) \in eligible
  BY DEF LeastUsed, Providers
<1>2. /\ "codex" \in Providers /\ "claude" \in Providers
      /\ Rival("codex") = "claude" /\ Rival("claude") = "codex"
  BY DEF Providers, Rival
<1>3. Usage("claude") \in Nat /\ Usage("codex") \in Nat
  BY <1>2, CountsAreNat
<1>4. ASSUME eligible = Providers
      PROVE  Usage(LeastUsed(eligible)) <= Usage(Rival(LeastUsed(eligible)))
  <2>1. LeastUsed(eligible) = IF Usage("claude") < Usage("codex") THEN "claude" ELSE "codex"
    BY <1>2, <1>4 DEF LeastUsed
  <2>2. CASE Usage("claude") < Usage("codex")
    BY <1>2, <1>3, <2>1, <2>2
  <2>3. CASE ~(Usage("claude") < Usage("codex"))
    BY <1>2, <1>3, <2>1, <2>3
  <2>. QED BY <2>2, <2>3
<1>. QED BY <1>1, <1>4

\* A provider that does not lead has room for a run, and for a fallback.
LEMMA NoLead ==
  ASSUME TypeInv, BalanceInv, NEW p \in Providers, Usage(p) <= Usage(Rival(p))
  PROVE  Reach(p) + 1 <= Few
<1>1. /\ Usage(p) \in Nat /\ Usage(Rival(p)) \in Nat /\ elsewhere.open[p] \in Nat
      /\ Undecided \in Nat /\ Others \in Nat
  BY CountsAreNat
<1>2. elsewhere.open[p] <= Others
  <2>1. "codex" \in Providers /\ "claude" \in Providers /\ p \in {"codex", "claude"}
    BY DEF Providers
  <2>2. elsewhere.open["codex"] \in Nat /\ elsewhere.open["claude"] \in Nat
    BY <2>1, CountsAreNat
  <2>. QED BY <1>1, <2>1, <2>2 DEF BalanceInv
<1>. QED BY <1>1, <1>2 DEF Reach, Few

\* The turns of a submission: of the provider it chose, and of its fallback.
LEMMA PlansOfRoute ==
  ASSUME NEW chosen \in Providers, NEW others \in SUBSET (Providers \ {chosen})
  PROVE  LET turns == <<NewTurn(chosen)>> \o SetToSeq({NewTurn(p) : p \in others}) IN
         /\ turns \in Seq(Turn) /\ Len(turns) \in {1, 2} /\ DOMAIN turns = 1 .. Len(turns)
         /\ turns[1].provider = chosen
         /\ Len(turns) = 2 => turns[2].provider # chosen
         /\ \A i \in DOMAIN turns : turns[i].native = 0 /\ turns[i].quotes = {}
<1>. DEFINE S == {NewTurn(p) : p \in others}
            s == SetToSeq(S)
            turns == <<NewTurn(chosen)>> \o s
<1>1. ASSUME NEW p \in Providers
      PROVE  /\ NewTurn(p) \in Turn /\ NewTurn(p).provider = p
             /\ NewTurn(p).native = 0 /\ NewTurn(p).quotes = {}
  BY DEF NewTurn, Turn
<1>2. s \in Seq(S) /\ Len(s) \in {0, 1}
  <2>1. CASE others = {}
    <3>1. S = {} /\ Cardinality(S) = 0
      BY <2>1, FS_EmptySet
    <3>2. <<>> \in [1 .. 0 -> S] /\ IsInjective(<<>>)
      BY DEF IsInjective
    <3>3. s \in [1 .. 0 -> S]
      BY <3>1, <3>2 DEF SetToSeq
    <3>4. s = <<>>
      BY <3>3
    <3>. QED BY <3>4, EmptySeq
  <2>2. CASE others # {}
    <3>1. PICK q \in Providers : others = {q}
      BY <2>2 DEF Providers
    <3>2. S = {NewTurn(q)} /\ Cardinality(S) = 1
      BY <3>1, FS_Singleton
    <3>3. /\ [i \in 1 .. 1 |-> NewTurn(q)] \in [1 .. 1 -> S]
          /\ IsInjective([i \in 1 .. 1 |-> NewTurn(q)])
      BY <3>2 DEF IsInjective
    <3>4. s \in [1 .. 1 -> S]
      BY <3>2, <3>3 DEF SetToSeq
    <3>. HIDE DEF s, S
    <3>5. s[1] \in S /\ s = <<s[1]>>
      BY <3>4
    <3>6. \A e \in S : <<e>> \in Seq(S) /\ Len(<<e>>) = 1
      OBVIOUS
    <3>. QED BY <3>5, <3>6
  <2>. QED BY <2>1, <2>2
<1>3. S \subseteq Turn /\ \A t \in S : t.provider # chosen /\ t.native = 0 /\ t.quotes = {}
  BY <1>1
<1>. HIDE DEF S, s
<1>4. s \in Seq(Turn) /\ \A i \in 1 .. Len(s) : s[i] \in S
  BY <1>2, <1>3, SeqMonotonic, ElementOfSeq
<1>5. <<NewTurn(chosen)>> \in Seq(Turn) /\ Len(<<NewTurn(chosen)>>) = 1
      /\ <<NewTurn(chosen)>>[1] = NewTurn(chosen)
  BY <1>1
<1>6. /\ turns \in Seq(Turn) /\ Len(turns) = 1 + Len(s)
      /\ \A i \in 1 .. 1 + Len(s) : turns[i] = IF i <= 1 THEN NewTurn(chosen) ELSE s[i - 1]
  <2>. DEFINE one == <<NewTurn(chosen)>>
  <2>1. /\ one \o s \in Seq(Turn) /\ Len(one \o s) = Len(one) + Len(s)
        /\ \A i \in 1 .. Len(one) + Len(s) : (one \o s)[i] = IF i <= Len(one) THEN one[i] ELSE s[i - Len(one)]
    BY <1>4, <1>5, ConcatProperties
  <2>. QED BY <1>5, <2>1
<1>. HIDE DEF turns
<1>7. DOMAIN turns = 1 .. Len(turns) /\ Len(turns) \in {1, 2}
  BY <1>2, <1>6, LenProperties
<1>8. turns[1] = NewTurn(chosen) /\ (Len(turns) = 2 => turns[2] \in S)
  BY <1>2, <1>4, <1>6
<1>9. \A i \in DOMAIN turns : i = 1 \/ (i = 2 /\ Len(turns) = 2)
  BY <1>7
<1>10. /\ turns \in Seq(Turn) /\ turns[1].provider = chosen
       /\ Len(turns) = 2 => turns[2].provider # chosen
       /\ \A i \in DOMAIN turns : turns[i].native = 0 /\ turns[i].quotes = {}
  BY <1>1, <1>3, <1>6, <1>8, <1>9
<1>. QED BY <1>7, <1>10 DEF turns, s, S

LEMMA RouteKeeps ==
  ASSUME IInv, NEW eligible \in Eligible, NEW override \in Providers \cup {None},
         Route(eligible, override)
  PROVE  IInv'
<1>. DEFINE chosen == IF override # None THEN override ELSE Choice(eligible)
            others == IF override # None THEN {} ELSE eligible \ {chosen}
            turns == <<NewTurn(chosen)>> \o SetToSeq({NewTurn(p) : p \in others})
            active == {r \in DOMAIN runs : Active(r)}
            balanced == /\ override = None /\ eligible = Providers
                        /\ conversation.profile = "usage_balance"
<1>1. /\ TypeInv /\ UNCHANGED <<conversation, messages, runs, session, native, elsewhere>>
      /\ eligible \in SUBSET Providers /\ eligible # {}
      /\ override \in eligible \cup {None}
  BY DEF IInv, Route, Routable, Eligible
<1>2. Choice(eligible) \in eligible
  BY <1>1, LeastUsedIs DEF Choice
<1>3. chosen \in Providers /\ others \in SUBSET (Providers \ {chosen})
  BY <1>1, <1>2
<1>4. balanced => Reach(chosen) + 1 <= Few
  <2>1. balanced => chosen = LeastUsed(Providers)
    BY DEF Choice
  <2>2. /\ LeastUsed(Providers) \in Providers
        /\ Usage(LeastUsed(Providers)) <= Usage(Rival(LeastUsed(Providers)))
    BY <1>1, LeastUsedIs DEF Providers
  <2>. QED BY <1>1, <2>1, <2>2, NoLead DEF IInv
<1>5. draft' = [at |-> "session", attempt |-> 1, turns |-> turns, balanced |-> balanced,
                active |-> active, runs |-> Len(runs)]
  BY DEF Route
<1>. HIDE DEF chosen, others
<1>6. /\ turns \in Seq(Turn) /\ Len(turns) \in {1, 2} /\ DOMAIN turns = 1 .. Len(turns)
      /\ turns[1].provider = chosen
      /\ Len(turns) = 2 => turns[2].provider # chosen
      /\ \A i \in DOMAIN turns : turns[i].native = 0 /\ turns[i].quotes = {}
  BY <1>3, PlansOfRoute
<1>7. active \in SUBSET Nat /\ Len(runs) \in Nat /\ balanced \in BOOLEAN
  BY <1>1, Shapes
<1>8. active = {} => Quiet
  BY DEF Quiet
<1>. HIDE DEF turns, active, balanced
<1>9. /\ draft' \in Draft /\ draft' # Idle
      /\ draft'.at = "session" /\ draft'.attempt = 1 /\ draft'.turns = turns
      /\ draft'.balanced = balanced /\ draft'.active = active /\ draft'.runs = Len(runs)
  <2>1. draft' \in Draft
    BY <1>5, <1>6, <1>7 DEF Draft
  <2>2. draft'.at = "session" /\ Idle.at = "idle"
    BY <1>5 DEF Idle
  <2>. QED BY <1>5, <2>1, <2>2
<1>10. DraftInv'
  <2>1. QuietDraft' => Quiet'
    BY <1>1, <1>8, <1>9 DEF QuietDraft, Quiet, Active
  <2>2. \A i \in DOMAIN draft'.turns : ~IsRead(i)' /\ ~IsDone(i)' /\ draft'.turns[i].quotes = {}
    BY <1>6, <1>9 DEF IsRead, IsDone
  <2>. QED BY <1>1, <1>6, <1>7, <1>9, <2>1, <2>2 DEF DraftInv
<1>11. QuietDraft' /\ draft'.balanced => Reach(draft'.turns[1].provider) + 1 <= Few
  BY <1>4, <1>6, <1>9
<1>12. conversation' \in [profile : {"continuity", "usage_balance"}, archived : BOOLEAN]
  BY <1>1 DEF TypeInv
<1>13. \A i \in DOMAIN draft'.turns :
         draft'.turns[i].native \in Held[draft'.turns[i].provider] \cup {0}
  BY <1>6, <1>9
<1>. QED BY <1>1, <1>9, <1>10, <1>11, <1>12, <1>13, SubmissionKeeps

-----------------------------------------------------------------------------
(* A step of the active run.                                               *)

\* The active run is the last.
LEMMA ActiveIsLast ==
  ASSUME IInv, NEW r \in DOMAIN runs, Active(r)
  PROVE  /\ r = Len(runs) /\ r \in Nat \ {0} /\ Provider(r) \in Providers
         /\ \A i \in DOMAIN runs : i # r => runs[i].stage = "over"
         /\ runs[r] \in Run /\ runs[r].turn \in Turn /\ runs[r].next \in Seq(Turn)
         /\ runs[r].cut \in Nat /\ runs[r].missed \in SUBSET Nat
         /\ session[Provider(r)] \in [native : Nat, through : Nat]
         /\ RunRow(runs[r], r, Len(runs), Len(messages), session[Provider(r)])
         /\ Plans(runs[r], session, Lost)
         /\ Len(runs) \in Nat /\ Len(messages) \in Nat /\ Len(native) \in Nat
<1>1. TypeInv /\ RunInv /\ PlanInv
  BY DEF IInv
<1>2. \A i \in DOMAIN runs :
        RunRow(runs[i], i, Len(runs), Len(messages), session[runs[i].turn.provider])
  BY <1>1 DEF RunInv
<1>3. /\ r = Len(runs) /\ \A i \in DOMAIN runs : i # r => runs[i].stage = "over"
  BY <1>2 DEF RunRow, Active
<1>4. runs[r] \in Run /\ r \in Nat \ {0} /\ Len(runs) \in Nat /\ Len(messages) \in Nat
      /\ Len(native) \in Nat
  BY <1>1, Shapes
<1>5. /\ runs[r].turn \in Turn /\ runs[r].next \in Seq(Turn) /\ Provider(r) \in Providers
      /\ runs[r].cut \in Nat /\ runs[r].missed \in SUBSET Nat
  BY <1>4 DEF Run, Turn, Provider
<1>6. session[Provider(r)] \in [native : Nat, through : Nat]
  BY <1>1, <1>5 DEF TypeInv
<1>7. /\ RunRow(runs[r], r, Len(runs), Len(messages), session[Provider(r)])
      /\ Plans(runs[r], session, Lost)
  BY <1>1, <1>2 DEF PlanInv, Provider
<1>. QED BY <1>3, <1>4, <1>5, <1>6, <1>7

\* What was lost only grows, so that plans hold on.
LEMMA PlansHold ==
  ASSUME NEW run \in Run, NEW bound, NEW lost, NEW more,
         \A p \in Providers : lost[p] \subseteq more[p], Plans(run, bound, lost)
  PROVE  Plans(run, bound, more)
<1>1. \A t \in {run.turn} \cup ToSet(run.next) : t.provider \in Providers
  BY TurnShapes DEF Run, Turn, ToSet
<1>. QED BY <1>1 DEF Plans, Covers

\* A run that is over and is not the last stays right.
LEMMA RunRowOver ==
  ASSUME NEW run, NEW r, NEW top, NEW m, NEW bound, RunRow(run, r, top, m, bound),
         run.stage = "over", NEW last, r # last, NEW n, run.cut \in 1 .. n, NEW other
  PROVE  RunRow(run, r, last, n, other)
BY DEF RunRow, Untold

\* The active run r becomes x, which has its provider, message and fallback.
LEMMA RunKeeps ==
  ASSUME IInv, NEW r \in DOMAIN runs, Active(r),
         NEW x \in Run, runs' = [runs EXCEPT ![r] = x],
         x.turn.provider = runs[r].turn.provider, x.next = runs[r].next, x.cut = runs[r].cut,
         x.missed = runs[r].missed, x.from = runs[r].from, x.balanced = runs[r].balanced,
         UNCHANGED <<conversation, draft, elsewhere>>,
         messages' \in Seq(Nat), Len(messages') >= Len(messages),
         session' \in [Providers -> [native : Nat, through : Nat]],
         native' \in Seq([shown : SUBSET Nat, omitted : SUBSET Nat]),
         RunRow(x, r, Len(runs), Len(messages'), session'[x.turn.provider]),
         Plans(x, session', Lost)
  PROVE  /\ TypeInv' /\ RunInv' /\ PlanInv' /\ DraftInv' /\ BalanceInv' /\ Grows
         /\ Planned' \subseteq Planned \cup {x.turn}
         /\ DOMAIN runs' = DOMAIN runs /\ runs'[r] = x
<1>1. /\ TypeInv /\ RunInv /\ PlanInv /\ BalanceInv
      /\ r = Len(runs) /\ \A i \in DOMAIN runs : i # r => runs[i].stage = "over"
      /\ Len(runs) \in Nat /\ Len(messages) \in Nat /\ r # 0
  BY ActiveIsLast DEF IInv
<1>2. /\ runs' \in Seq(Run) /\ Len(runs') = Len(runs) /\ DOMAIN runs' = DOMAIN runs
      /\ runs'[r] = x /\ \A i \in DOMAIN runs : i # r => runs'[i] = runs[i]
  BY <1>1, Replaced DEF TypeInv
<1>3. Len(messages') \in Nat
  BY LenProperties
<1>4. TypeInv'
  BY <1>1, <1>2 DEF TypeInv
<1>5. Grows
  BY <1>2 DEF Grows, Active
<1>6. RunInv'
  <2>1. runs' # <<>>
    BY <1>1, <1>2, EmptySeq
  <2>2. ASSUME NEW i \in DOMAIN runs, i # r
        PROVE  RunRow(runs[i], i, Len(runs), Len(messages'), session'[runs[i].turn.provider])
    <3>1. RunRow(runs[i], i, Len(runs), Len(messages), session[runs[i].turn.provider])
      BY <1>1 DEF RunInv
    <3>2. runs[i].stage = "over"
      BY <1>1, <2>2
    <3>3. runs[i].cut \in 1 .. Len(messages')
      BY <1>1, <1>3, <3>1 DEF RunRow
    <3>4. i # Len(runs)
      BY <1>1, <2>2
    <3>. QED BY <3>1, <3>2, <3>3, <3>4, RunRowOver
  <2>. QED BY <1>1, <1>2, <2>1, <2>2 DEF RunInv
<1>7. PlanInv'
  <2>1. \A p \in Providers : Lost[p] \subseteq Lost'[p]
    BY <1>1, <1>5, LostGrows
  <2>2. Plans(x, session', Lost')
    BY <2>1, PlansHold
  <2>3. ASSUME NEW i \in DOMAIN runs, i # r  PROVE Plans(runs'[i], session', Lost')
    BY <1>1, <1>2, <2>3 DEF Plans, Untold
  <2>. QED BY <1>2, <2>2, <2>3 DEF PlanInv
<1>8. DraftInv' /\ ~QuietDraft'
  BY <1>1, <1>2, <1>3, DraftKeeps
<1>9. BalanceInv'
  <2>1. /\ \A i \in DOMAIN runs :
             /\ runs'[i].turn.provider = runs[i].turn.provider
             /\ runs'[i].missed = runs[i].missed /\ runs'[i].from = runs[i].from
             /\ runs'[i].balanced = runs[i].balanced /\ runs'[i].next = runs[i].next
    BY <1>2
  <2>2. \A p : Usage(p)' = Usage(p)
    BY <1>2, <2>1 DEF Usage
  <2>3. Few' = Few
    <3>. DEFINE strays == {i \in DOMAIN runs :
                             runs[i].from = 0 /\ (~runs[i].balanced \/ runs[i].missed # {})}
    <3>1. strays' = strays
      BY <1>2, <2>1
    <3>2. Cardinality(strays)' = Cardinality(strays)
      BY <3>1, Zenon
    <3>3. elsewhere' = elsewhere
      BY <1>2
    <3>. QED BY <3>2, <3>3 DEF Few, Undecided
  <2>4. \A p : Reach(p)' = Reach(p)
    BY <2>2 DEF Reach
  <2>5. \A i \in DOMAIN runs' : Active(i)' => Active(i)
    BY <1>2 DEF Active
  <2>. QED BY <1>1, <1>2, <1>8, <2>1, <2>3, <2>4, <2>5 DEF BalanceInv, Provider
<1>10. Planned' \subseteq Planned \cup {x.turn}
  <2>1. RunPlans' = {runs'[i].turn : i \in DOMAIN runs'} \cup UNION {ToSet(runs'[i].next) : i \in DOMAIN runs'}
    BY DEF RunPlans, ToSet
  <2>2. \A i \in DOMAIN runs : runs'[i].next = runs[i].next
    BY <1>2
  <2>3. RunPlans' \subseteq RunPlans \cup {x.turn}
    BY <1>2, <2>1, <2>2 DEF RunPlans
  <2>4. DraftPlans' = DraftPlans
    BY DEF DraftPlans, ToSet
  <2>. QED BY <2>3, <2>4 DEF Planned
<1>. QED BY <1>2, <1>4, <1>5, <1>6, <1>7, <1>8, <1>9, <1>10

\* The sessions stay as they are.
LEMMA SessionsKeep ==
  ASSUME IInv, Grows, UNCHANGED <<session, native, elsewhere>>,
         Len(messages') \in Nat, Len(messages') >= Len(messages), Planned' \subseteq Planned
  PROVE  NativeInv' /\ KnownInv'
<1>1. TypeInv /\ NativeInv /\ KnownInv /\ Len(native) \in Nat /\ Len(messages) \in Nat
      /\ \A p \in Providers : session[p].through \in Nat
  BY Shapes DEF IInv, TypeInv
<1>2. NativeInv'
  <2>1. \A p \in Providers : Held'[p] \subseteq Held[p]
    BY DEF Held
  <2>2. \A p \in Providers : \A n \in Held[p] \ {0} : native[n].shown \subseteq 1 .. session[p].through
    BY <1>1 DEF NativeInv
  <2>. QED BY <1>1, <2>1, <2>2, NativeKeeps
<1>3. \A p \in Providers : Known[p] \subseteq Known'[p]
  BY <1>1, KnownGrows
<1>4. KnownInv'
  BY <1>1, <1>3 DEF KnownInv
<1>. QED BY <1>2, <1>4

LEMMA StageKeeps ==
  ASSUME IInv, NEW r \in DOMAIN runs, NEW st \in {"started", "over"},
         Active(r), st = "started" => runs[r].stage = "bound",
         runs' = [runs EXCEPT ![r].stage = st],
         UNCHANGED <<conversation, messages, session, draft, native, elsewhere>>
  PROVE  IInv'
<1>. DEFINE x == [runs[r] EXCEPT !.stage = st]
<1>1. /\ TypeInv /\ runs[r] \in Run /\ runs[r].turn \in Turn /\ Provider(r) \in Providers
      /\ RunRow(runs[r], r, Len(runs), Len(messages), session[Provider(r)])
      /\ Plans(runs[r], session, Lost)
      /\ Len(messages) \in Nat
  BY ActiveIsLast DEF IInv
<1>2. /\ x \in Run /\ x.turn = runs[r].turn /\ x.next = runs[r].next /\ x.cut = runs[r].cut
      /\ x.missed = runs[r].missed /\ x.from = runs[r].from /\ x.balanced = runs[r].balanced
      /\ x.told = runs[r].told /\ x.renewed = runs[r].renewed /\ x.stage = st
  BY <1>1 DEF Run, Stages
<1>3. runs' = [runs EXCEPT ![r] = x]
  BY <1>1 DEF Run
<1>. HIDE DEF x
<1>4. RunRow(x, r, Len(runs), Len(messages), session[x.turn.provider])
  <2>1. st \in Untold => st = "started"
    BY DEF Untold
  <2>2. st = "started" => ~runs[r].told
    BY <1>1 DEF RunRow, Untold
  <2>3. st = "started" => /\ runs[r].turn.native = session[Provider(r)].native
                         /\ session[Provider(r)].native # 0
    BY <1>1 DEF RunRow
  <2>. QED BY <1>1, <1>2, <2>1, <2>2, <2>3, ActiveIsLast DEF RunRow, Provider
<1>5. Plans(x, session, Lost)
  BY <1>1, <1>2 DEF Plans, Untold
<1>6. /\ TypeInv' /\ RunInv' /\ PlanInv' /\ DraftInv' /\ BalanceInv' /\ Grows
      /\ Planned' \subseteq Planned \cup {x.turn}
  <2>1. /\ messages' \in Seq(Nat) /\ Len(messages') >= Len(messages)
        /\ session' \in [Providers -> [native : Nat, through : Nat]]
        /\ native' \in Seq([shown : SUBSET Nat, omitted : SUBSET Nat])
    BY <1>1 DEF TypeInv
  <2>2. /\ RunRow(x, r, Len(runs), Len(messages'), session'[x.turn.provider])
        /\ Plans(x, session', Lost)
    BY <1>4, <1>5
  <2>3. x.turn.provider = runs[r].turn.provider
    BY <1>2
  <2>. QED BY <1>2, <1>3, <2>1, <2>2, <2>3, RunKeeps
<1>7. x.turn \in Planned
  BY <1>2 DEF Planned, RunPlans
<1>8. NativeInv' /\ KnownInv'
  BY <1>1, <1>6, <1>7, SessionsKeep
<1>. QED BY <1>6, <1>8 DEF IInv

LEMMA TurnStartedKeeps ==
  ASSUME IInv, NEW r \in DOMAIN runs, TurnStarted(r)
  PROVE  IInv'
BY StageKeeps DEF TurnStarted, Active

LEMMA EndUnstartedKeeps ==
  ASSUME IInv, NEW r \in DOMAIN runs, EndUnstarted(r)
  PROVE  IInv'
BY StageKeeps DEF EndUnstarted, Active

LEMMA FinishKeeps ==
  ASSUME IInv, NEW r \in DOMAIN runs, Finish(r)
  PROVE  IInv'
BY StageKeeps DEF Finish, Active

\* Everything up to its message is passed over by a run that was not prepared
\* while nothing ran.
LEMMA PassedBy ==
  ASSUME NEW r \in DOMAIN runs', runs'[r].missed # {}, runs'[r].cut \in Nat,
         NEW p \in Providers, runs'[r].turn.provider = p,
         NEW n \in Nat, n <= runs'[r].cut
  PROVE  1 .. n \subseteq Known'[p]
<1>1. ASSUME NEW m \in 1 .. n  PROVE m \in Nat /\ PassedOver(m, p)'
  <2>1. m \in Nat /\ m <= runs'[r].cut
    OBVIOUS
  <2>. QED BY <2>1 DEF PassedOver, Provider
<1>2. 1 .. n \subseteq Passed'[p]
  BY <1>1 DEF Passed
<1>3. Known'[p] = Told(p)' \cup Lost'[p] \cup Passed'[p]
  BY DEF Known
<1>. QED BY <1>2, <1>3

LEMMA StartSessionKeeps ==
  ASSUME IInv, NEW r \in DOMAIN runs, StartSession(r)
  PROVE  IInv'
<1>. DEFINE p == Provider(r)
            fresh == runs[r].turn.native = 0
            n == IF fresh THEN Len(native) + 1 ELSE runs[r].turn.native
            again == fresh /\ session[p].native # 0
            y == [runs[r].turn EXCEPT !.native = n]
            x == [runs[r] EXCEPT !.stage = "bound", !.turn = y, !.renewed = again]
            blank == [shown |-> {}, omitted |-> {}]
<1>1. /\ TypeInv /\ NativeInv /\ KnownInv
      /\ runs[r] \in Run /\ runs[r].turn \in Turn /\ p \in Providers
      /\ runs[r].next \in Seq(Turn) /\ runs[r].cut \in Nat /\ r = Len(runs)
      /\ RunRow(runs[r], r, Len(runs), Len(messages), session[p])
      /\ Plans(runs[r], session, Lost)
      /\ Len(messages) \in Nat /\ Len(native) \in Nat /\ Active(r)
      /\ session[p] \in [native : Nat, through : Nat]
      /\ session \in [Providers -> [native : Nat, through : Nat]]
  BY ActiveIsLast DEF IInv, StartSession, Active, TypeInv
<1>2. /\ runs[r].stage = "queued" /\ UNCHANGED <<conversation, messages, draft, elsewhere>>
      /\ session' = [session EXCEPT ![p].native = n]
      /\ native' = IF fresh THEN Append(native, blank) ELSE native
  BY DEF StartSession, Bound
<1>3. n \in Nat \ {0} /\ again \in BOOLEAN
  BY <1>1 DEF Turn
<1>4. runs' = [runs EXCEPT ![r] = x]
  BY <1>1 DEF StartSession, Run, Turn
<1>. HIDE DEF fresh, n, again
<1>5. /\ y \in Turn /\ y.provider = p /\ y.native = n /\ y.quotes = runs[r].turn.quotes
      /\ y.omits = runs[r].turn.omits
  BY <1>1, <1>3 DEF Turn, Provider
<1>. HIDE DEF y
<1>6. /\ x \in Run /\ x.turn = y /\ x.next = runs[r].next /\ x.cut = runs[r].cut
      /\ x.missed = runs[r].missed /\ x.from = runs[r].from /\ x.balanced = runs[r].balanced
      /\ x.told = runs[r].told /\ x.renewed = again /\ x.stage = "bound"
  BY <1>1, <1>3, <1>5 DEF Run, Stages
<1>. HIDE DEF x
<1>7. /\ session' \in [Providers -> [native : Nat, through : Nat]]
      /\ session'[p].native = n
      /\ \A q \in Providers : session'[q].through = session[q].through
      /\ \A q \in Providers : q # p => session'[q] = session[q]
  BY <1>1, <1>2, <1>3
<1>8. /\ native' \in Seq([shown : SUBSET Nat, omitted : SUBSET Nat])
      /\ Len(native') \in Nat /\ Len(native') >= Len(native)
      /\ \A k \in 1 .. Len(native) : native'[k] = native[k]
      /\ fresh => Len(native') = Len(native) + 1 /\ native'[Len(native) + 1].shown = {}
  <2>1. blank \in [shown : SUBSET Nat, omitted : SUBSET Nat] /\ blank.shown = {}
    OBVIOUS
  <2>2. native \in Seq([shown : SUBSET Nat, omitted : SUBSET Nat])
    BY <1>1 DEF TypeInv
  <2>. DEFINE S == [shown : SUBSET Nat, omitted : SUBSET Nat]
              longer == Append(native, blank)
  <2>. HIDE DEF blank, S
  <2>3. /\ longer \in Seq(S) /\ Len(longer) = Len(native) + 1
        /\ longer[Len(native) + 1] = blank
        /\ \A k \in 1 .. Len(native) : longer[k] = native[k]
    BY <2>1, <2>2, Appended DEF S
  <2>. HIDE DEF longer
  <2>4. CASE fresh
    BY <1>1, <1>2, <2>1, <2>3, <2>4 DEF S, longer
  <2>5. CASE ~fresh
    BY <1>1, <1>2, <2>2, <2>5
  <2>. QED BY <2>4, <2>5
<1>9. runs[r].missed = {} => runs[r].turn.native = session[p].native
  BY <1>1, <1>2 DEF Plans, Untold, Provider
<1>10. \A t \in ToSet(runs[r].next) : t.provider \in Providers /\ t.provider # p
  <2>1. \A i \in DOMAIN runs[r].next :
          runs[r].next[i] \in Turn /\ runs[r].next[i].provider # p
    BY <1>1, TurnShapes DEF RunRow, OnePlan, Provider
  <2>. QED BY <2>1 DEF ToSet, Turn
<1>11. RunRow(x, r, Len(runs), Len(messages'), session'[x.turn.provider])
  <2>1. again => runs[r].missed # {}
    BY <1>1, <1>9 DEF again, fresh
  <2>2. ~runs[r].told /\ runs[r].cut = Len(messages)
    BY <1>1, <1>2 DEF RunRow, Untold
  <2>3. OnePlan(x.turn, x.next)
    BY <1>1, <1>5, <1>6 DEF RunRow, OnePlan, Provider
  <2>4. /\ runs[r].from \in 0 .. r - 1 /\ runs[r].cut \in 1 .. Len(messages)
        /\ runs[r].turn.quotes \subseteq 1 .. runs[r].cut
        /\ \A i \in DOMAIN runs[r].next : runs[r].next[i].quotes \subseteq 1 .. runs[r].cut
    BY <1>1 DEF RunRow
  <2>5. /\ messages' = messages /\ r = Len(runs) /\ x.turn.provider = p
        /\ x.turn.native = n /\ session'[p].native = n /\ n # 0
        /\ x.turn.quotes = runs[r].turn.quotes
    BY <1>1, <1>2, <1>3, <1>5, <1>6, <1>7
  <2>. HIDE DEF p
  <2>. QED BY <1>6, <2>1, <2>2, <2>3, <2>4, <2>5 DEF RunRow, Untold
<1>12. Plans(x, session', Lost)
  <2>1. SUFFICES ASSUME runs[r].missed = {} PROVE Plans(x, session', Lost)
    BY <1>6 DEF Plans
  <2>2. /\ \A t \in {runs[r].turn} \cup ToSet(runs[r].next) :
             /\ Covers(t, session[t.provider].through, Lost[t.provider], runs[r].cut - 1)
             /\ session[t.provider].through < runs[r].cut
        /\ \A t \in ToSet(runs[r].next) : t.native = session[t.provider].native
    BY <1>1, <1>2, <2>1 DEF Plans, Untold
  <2>3. /\ Covers(y, session'[y.provider].through, Lost[y.provider], runs[r].cut - 1)
        /\ session'[y.provider].through < runs[r].cut
    BY <1>1, <1>5, <1>7, <2>2 DEF Covers, Provider
  <2>4. \A t \in ToSet(runs[r].next) :
          /\ Covers(t, session'[t.provider].through, Lost[t.provider], runs[r].cut - 1)
          /\ session'[t.provider].through < runs[r].cut
          /\ t.native = session'[t.provider].native
    BY <1>7, <1>10, <2>2
  <2>. QED BY <1>6, <2>3, <2>4 DEF Plans
<1>13. /\ TypeInv' /\ RunInv' /\ PlanInv' /\ DraftInv' /\ BalanceInv' /\ Grows
       /\ Planned' \subseteq Planned \cup {y} /\ DOMAIN runs' = DOMAIN runs /\ runs'[r] = x
  <2>1. messages' \in Seq(Nat) /\ Len(messages') >= Len(messages)
    BY <1>1, <1>2 DEF TypeInv
  <2>2. x.turn.provider = runs[r].turn.provider
    BY <1>5, <1>6 DEF Provider
  <2>. QED BY <1>1, <1>2, <1>4, <1>6, <1>7, <1>8, <1>11, <1>12, <2>1, <2>2, RunKeeps
<1>14. NativeInv'
  <2>1. \A q \in Providers : Held'[q] \subseteq Held[q] \cup (IF q = p THEN {n} ELSE {})
    BY <1>5, <1>7, <1>13 DEF Held
  <2>2. \A q \in Providers : \A k \in Held[q] :
          k \in 0 .. Len(native) /\ (k # 0 => native[k].shown \subseteq 1 .. session[q].through)
    BY <1>1 DEF NativeInv
  <2>3. CASE fresh
    <3>1. n = Len(native) + 1
      BY <2>3 DEF n
    <3>2. n \notin Held["codex"] /\ n \notin Held["claude"]
      BY <1>1, <2>2, <3>1 DEF Providers
    <3>3. \A q \in Providers : \A k \in Held'[q] :
            k \in 0 .. Len(native') /\ (k # 0 => native'[k].shown \subseteq 1 .. session'[q].through)
      <4>1. ASSUME NEW q \in Providers, NEW k \in Held[q]
            PROVE  k \in 0 .. Len(native') /\ (k # 0 => native'[k].shown \subseteq 1 .. session'[q].through)
        <5>1. k \in 0 .. Len(native) /\ (k # 0 => native[k].shown \subseteq 1 .. session[q].through)
          BY <2>2
        <5>2. k # 0 => native'[k] = native[k]
          BY <1>1, <1>8, <5>1
        <5>3. session'[q].through = session[q].through
          BY <1>7
        <5>4. k \in 0 .. Len(native')
          BY <1>1, <1>8, <5>1
        <5>. QED BY <5>1, <5>2, <5>3, <5>4
      <4>2. n \in 0 .. Len(native') /\ native'[n].shown = {}
        BY <1>1, <1>8, <2>3, <3>1
      <4>. QED BY <2>1, <4>1, <4>2
    <3>4. Held'["codex"] \cap Held'["claude"] \subseteq {0}
      BY <1>1, <2>1, <3>2 DEF NativeInv, Providers
    <3>. QED BY <3>3, <3>4 DEF NativeInv
  <2>4. CASE ~fresh
    <3>1. n = runs[r].turn.native
      BY <2>4 DEF n
    <3>2. n \in Held[p]
      BY <1>1, <3>1, PlannedIsHeld DEF Planned, RunPlans, Provider
    <3>3. \A q \in Providers : Held'[q] \subseteq Held[q]
      BY <2>1, <3>2
    <3>4. \A q \in Providers : \A k \in Held[q] \ {0} : native'[k].shown \subseteq 1 .. session'[q].through
      <4>1. ASSUME NEW q \in Providers, NEW k \in Held[q] \ {0}
            PROVE  native'[k].shown \subseteq 1 .. session'[q].through
        <5>1. k \in 1 .. Len(native) /\ native[k].shown \subseteq 1 .. session[q].through
          BY <1>1, <2>2
        <5>2. native'[k] = native[k]
          BY <1>8, <5>1
        <5>. QED BY <1>7, <5>1, <5>2
      <4>. QED BY <4>1
    <3>. QED BY <1>1, <1>8, <3>3, <3>4, NativeKeeps
  <2>. QED BY <2>3, <2>4
<1>15. KnownInv'
  <2>1. ASSUME NEW q \in Providers, session'[q].native = session[q].native, session[q].native # 0
        PROVE  Known[q] \subseteq Known'[q]
    <3>1. session[q].native \in 1 .. Len(native)
      BY <1>1, <2>1 DEF NativeInv, Held
    <3>2. native'[session[q].native] = native[session[q].native]
      BY <1>8, <3>1
    <3>. QED BY <1>1, <1>13, <2>1, <3>2, KnownGrows
  <2>2. ASSUME NEW q \in Providers, q # p
        PROVE  IF session'[q].native = 0 THEN session'[q].through = 0
               ELSE session'[q].through <= Len(messages') /\ 1 .. session'[q].through \subseteq Known'[q]
    <3>1. session'[q] = session[q] /\ messages' = messages
      BY <1>2, <1>7, <2>2
    <3>2. IF session[q].native = 0 THEN session[q].through = 0
          ELSE session[q].through <= Len(messages) /\ 1 .. session[q].through \subseteq Known[q]
      BY <1>1 DEF KnownInv
    <3>. QED BY <2>1, <3>1, <3>2
  <2>3. /\ session[p].through <= Len(messages)
        /\ 1 .. session[p].through \subseteq Known'[p]
    <3>1. IF session[p].native = 0 THEN session[p].through = 0
          ELSE session[p].through <= Len(messages) /\ 1 .. session[p].through \subseteq Known[p]
      BY <1>1 DEF KnownInv
    <3>2. session[p].through <= Len(messages) /\ session[p].through \in Nat
      BY <1>1, <3>1
    <3>3. CASE runs[r].missed # {}
      <4>1. runs[r].cut = Len(messages)
        BY <1>1, <1>2 DEF RunRow, Untold
      <4>2. /\ r \in DOMAIN runs' /\ runs'[r].missed # {} /\ runs'[r].cut = Len(messages)
            /\ runs'[r].turn.provider = p
        BY <1>5, <1>6, <1>13, <3>3, <4>1
      <4>3. 1 .. session[p].through \subseteq Known'[p]
        <5>. HIDE DEF p
        <5>. QED BY <1>1, <3>2, <4>2, PassedBy
      <4>. QED BY <3>2, <4>3
    <3>4. CASE runs[r].missed = {} /\ session[p].native = 0
      BY <3>1, <3>2, <3>4
    <3>5. CASE runs[r].missed = {} /\ session[p].native # 0
      <4>1. n = session[p].native
        BY <1>9, <3>5 DEF n, fresh
      <4>. QED BY <1>1, <1>7, <2>1, <3>1, <3>2, <3>5, <4>1
    <3>. QED BY <3>2, <3>3, <3>4, <3>5
  <2>4. IF session'[p].native = 0 THEN session'[p].through = 0
        ELSE session'[p].through <= Len(messages') /\ 1 .. session'[p].through \subseteq Known'[p]
    BY <1>1, <1>2, <1>3, <1>7, <2>3
  <2>. QED BY <2>2, <2>4 DEF KnownInv
<1>. QED BY <1>13, <1>14, <1>15 DEF IInv

\* The greater of two numbers is the second if that is not less.
LEMMA MaxOfOrdered ==
  ASSUME NEW a \in Nat, NEW b \in Nat, a <= b
  PROVE  Max({a, b}) = b
<1>1. b \in {a, b} /\ \A w \in {a, b} : b >= w
  OBVIOUS
<1>2. \A z \in {a, b} : (\A w \in {a, b} : z >= w) => z = b
  OBVIOUS
<1>3. Max({a, b}) \in {a, b} /\ \A w \in {a, b} : Max({a, b}) >= w
  BY <1>1 DEF Max
<1>. QED BY <1>2, <1>3

\* The session of p is shown more, and its boundary moves to upto.
LEMMA ShowKeeps ==
  ASSUME IInv, Grows, NEW p \in Providers, session[p].native # 0,
         NEW upto \in Nat, session[p].through <= upto,
         session' = [session EXCEPT ![p].through = upto],
         NEW shown \in SUBSET (1 .. upto), NEW omitted \in SUBSET Nat,
         native' = [native EXCEPT ![session[p].native] =
                      [shown |-> @.shown \cup shown, omitted |-> @.omitted \cup omitted]],
         Len(messages') \in Nat, Len(messages') >= Len(messages), Planned' \subseteq Planned,
         upto <= Len(messages'),
         session[p].through + 1 .. upto \subseteq shown \cup omitted \cup Lost'[p] \cup Passed'[p]
  PROVE  /\ NativeInv' /\ KnownInv'
         /\ session' \in [Providers -> [native : Nat, through : Nat]]
         /\ native' \in Seq([shown : SUBSET Nat, omitted : SUBSET Nat])
<1>. DEFINE k == session[p].native
            S == [shown : SUBSET Nat, omitted : SUBSET Nat]
            new == [shown |-> native[k].shown \cup shown, omitted |-> native[k].omitted \cup omitted]
<1>1. /\ TypeInv /\ NativeInv /\ KnownInv /\ Len(native) \in Nat /\ Len(messages) \in Nat
      /\ session \in [Providers -> [native : Nat, through : Nat]]
      /\ native \in Seq(S) /\ DOMAIN native = 1 .. Len(native)
  BY Shapes DEF IInv, TypeInv
<1>2. \A q \in Providers : \A j \in Held[q] :
        j \in 0 .. Len(native) /\ (j # 0 => native[j].shown \subseteq 1 .. session[q].through)
  BY <1>1 DEF NativeInv
<1>3. /\ \A q \in Providers : session[q].native \in Held[q]
      /\ k \in 1 .. Len(native)
      /\ \A q \in Providers : q # p => k \notin Held[q]
  <2>1. \A q \in Providers : session[q].native \in Held[q]
    BY DEF Held
  <2>2. k \in 1 .. Len(native)
    BY <1>1, <1>2, <2>1
  <2>3. \A q \in Providers : q # p => k \notin Held[q]
    BY <1>1, <2>1, <2>2 DEF NativeInv, Providers
  <2>. QED BY <2>1, <2>2, <2>3
<1>4. /\ session' \in [Providers -> [native : Nat, through : Nat]]
      /\ session'[p].through = upto
      /\ \A q \in Providers : session'[q].native = session[q].native
      /\ \A q \in Providers : q # p => session'[q] = session[q]
  BY <1>1
<1>5. native[k] \in S /\ new \in S
  <2>1. native[k] \in S
    BY <1>1, <1>3, Shapes
  <2>2. shown \subseteq Nat
    OBVIOUS
  <2>. QED BY <2>1, <2>2
<1>6. /\ native' \in Seq(S) /\ Len(native') = Len(native)
      /\ native'[k] = new
      /\ \A j \in 1 .. Len(native) : j # k => native'[j] = native[j]
  <2>1. native' = [native EXCEPT ![k] = new]
    OBVIOUS
  <2>2. native \in Seq(S) /\ k \in DOMAIN native /\ new \in S
    BY <1>1, <1>3, <1>5
  <2>. HIDE DEF new, S, k
  <2>. DEFINE next == [native EXCEPT ![k] = new]
  <2>3. /\ next \in Seq(S) /\ Len(next) = Len(native)
        /\ next[k] = new
        /\ \A j \in DOMAIN native : j # k => next[j] = native[j]
    BY <2>2, Replaced
  <2>4. native' = next
    BY <2>1
  <2>. HIDE DEF next
  <2>. QED BY <1>1, <2>3, <2>4
<1>7. native'[k].shown = native[k].shown \cup shown
      /\ native'[k].omitted = native[k].omitted \cup omitted
  BY <1>6
<1>. HIDE DEF k, S, new
<1>8. NativeInv'
  <2>1. \A q \in Providers : Held'[q] = {session[q].native} \cup {t.native : t \in {u \in Planned' : u.provider = q}}
    BY <1>4 DEF Held
  <2>2. \A q \in Providers : Held'[q] \subseteq Held[q]
    BY <2>1 DEF Held
  <2>3. ASSUME NEW q \in Providers, NEW j \in Held[q] \ {0}
        PROVE  native'[j].shown \subseteq 1 .. session'[q].through
    <3>1. j \in 1 .. Len(native) /\ native[j].shown \subseteq 1 .. session[q].through
      BY <1>1, <1>2
    <3>2. CASE q # p
      <4>1. j # k /\ session'[q] = session[q]
        BY <1>3, <1>4, <3>2
      <4>. QED BY <1>6, <3>1, <4>1
    <3>3. CASE q = p
      <4>1. native'[j].shown \subseteq native[j].shown \cup (1 .. upto)
        BY <1>6, <1>7, <3>1
      <4>2. session[p].through \in Nat /\ session'[q].through = upto
        BY <1>1, <1>4, <3>3
      <4>3. 1 .. session[p].through \subseteq 1 .. upto
        BY <4>2
      <4>. QED BY <3>1, <3>3, <4>1, <4>2, <4>3
    <3>. QED BY <3>2, <3>3
  <2>. QED BY <1>1, <1>6, <2>2, <2>3, NativeKeeps
<1>9. KnownInv'
  <2>1. ASSUME NEW q \in Providers, session[q].native # 0  PROVE Known[q] \subseteq Known'[q]
    <3>1. session[q].native \in 1 .. Len(native)
      <4>1. session[q].native \in 0 .. Len(native)
        BY <1>2, <1>3, Zenon
      <4>2. \A j \in 0 .. Len(native) : j # 0 => j \in 1 .. Len(native)
        BY <1>1
      <4>. QED BY <2>1, <4>1, <4>2
    <3>2. /\ native[session[q].native].shown \subseteq native'[session[q].native].shown
          /\ native[session[q].native].omitted \subseteq native'[session[q].native].omitted
      BY <1>6, <1>7, <3>1
    <3>. QED BY <1>1, <1>4, <3>2, KnownGrows
  <2>2. \A q \in Providers :
          IF session[q].native = 0 THEN session[q].through = 0
          ELSE session[q].through <= Len(messages) /\ 1 .. session[q].through \subseteq Known[q]
    BY <1>1 DEF KnownInv
  <2>3. ASSUME NEW q \in Providers, q # p
        PROVE  IF session'[q].native = 0 THEN session'[q].through = 0
               ELSE session'[q].through <= Len(messages') /\ 1 .. session'[q].through \subseteq Known'[q]
    <3>1. session'[q] = session[q] /\ session[q].through \in Nat
      BY <1>1, <1>4, <2>3
    <3>. QED BY <1>1, <2>1, <2>2, <3>1
  <2>4. 1 .. upto \subseteq Known'[p]
    <3>1. Known'[p] = native'[k].shown \cup native'[k].omitted \cup Lost'[p] \cup Passed'[p]
      BY <1>4 DEF Known, Told, k
    <3>2. 1 .. session[p].through \subseteq Known'[p]
      BY <2>1, <2>2
    <3>3. session[p].through + 1 .. upto \subseteq Known'[p]
      BY <1>7, <3>1
    <3>4. session[p].through \in Nat
      BY <1>1
    <3>5. \A m \in 1 .. upto : m \in 1 .. session[p].through \/ m \in session[p].through + 1 .. upto
      BY <3>4
    <3>. QED BY <3>2, <3>3, <3>5
  <2>5. IF session'[p].native = 0 THEN session'[p].through = 0
        ELSE session'[p].through <= Len(messages') /\ 1 .. session'[p].through \subseteq Known'[p]
    BY <1>4, <2>4
  <2>. QED BY <2>3, <2>5 DEF KnownInv
<1>. QED BY <1>4, <1>6, <1>8, <1>9 DEF S

\* The session of a run that has started knows no message beyond the last.
LEMMA SessionOfRun ==
  ASSUME IInv, NEW r \in DOMAIN runs, runs[r].stage \in {"bound", "started", "running"}
  PROVE  LET p == Provider(r) IN
         /\ runs[r].turn.native = session[p].native /\ session[p].native # 0
         /\ session[p].through \in Nat /\ session[p].through <= Len(messages)
<1>1. /\ Provider(r) \in Providers /\ KnownInv
      /\ RunRow(runs[r], r, Len(runs), Len(messages), session[Provider(r)])
      /\ session[Provider(r)] \in [native : Nat, through : Nat]
  BY ActiveIsLast DEF Active, IInv
<1>2. runs[r].turn.native = session[Provider(r)].native /\ session[Provider(r)].native # 0
  BY <1>1 DEF RunRow
<1>. QED BY <1>1, <1>2 DEF KnownInv

LEMMA AdvanceContextKeeps ==
  ASSUME IInv, NEW r \in DOMAIN runs, AdvanceContext(r)
  PROVE  IInv'
<1>. DEFINE p == Provider(r)
            x == [runs[r] EXCEPT !.stage = "running", !.told = TRUE]
            t == runs[r].turn
            cut == runs[r].cut
<1>1. /\ TypeInv /\ KnownInv
      /\ runs[r] \in Run /\ t \in Turn /\ p \in Providers /\ r = Len(runs)
      /\ cut \in Nat
      /\ RunRow(runs[r], r, Len(runs), Len(messages), session[p])
      /\ Plans(runs[r], session, Lost)
      /\ Len(messages) \in Nat /\ Active(r)
      /\ session \in [Providers -> [native : Nat, through : Nat]]
      /\ t.native = session[p].native /\ session[p].native # 0
      /\ session[p].through \in Nat /\ session[p].through <= Len(messages)
      /\ runs[r].stage = "started"
  BY ActiveIsLast, SessionOfRun DEF IInv, AdvanceContext, Active, TypeInv
<1>2. UNCHANGED <<conversation, messages, draft, elsewhere>>
  BY DEF AdvanceContext
<1>3. cut = Len(messages) /\ cut \in 1 .. Len(messages) /\ t.quotes \subseteq 1 .. cut
  BY <1>1 DEF RunRow, Untold
<1>4. session' = [session EXCEPT ![p].through = cut]
  <2>1. Max({session[p].through, cut}) = cut
    BY <1>1, <1>3, MaxOfOrdered
  <2>2. session' = [session EXCEPT ![p].through = Max({session[p].through, cut})]
    BY DEF AdvanceContext, Through
  <2>. QED BY <2>1, <2>2
<1>5. /\ x \in Run /\ x.turn = t /\ x.next = runs[r].next /\ x.cut = cut
      /\ x.missed = runs[r].missed /\ x.from = runs[r].from /\ x.balanced = runs[r].balanced
      /\ x.told /\ x.renewed = runs[r].renewed /\ x.stage = "running"
  BY <1>1 DEF Run, Stages
<1>6. runs' = [runs EXCEPT ![r] = x]
  BY <1>1 DEF AdvanceContext, Run
<1>7. native' = [native EXCEPT ![session[p].native] =
                   [shown |-> @.shown \cup (t.quotes \cup {cut}), omitted |-> @.omitted \cup t.omits]]
  BY <1>1 DEF AdvanceContext
<1>. HIDE DEF x, t, cut, p
<1>8. Grows
  <2>1. runs \in Seq(Run)
    BY <1>1 DEF TypeInv
  <2>2. DOMAIN runs' = DOMAIN runs /\ runs'[r] = x /\ \A i \in DOMAIN runs : i # r => runs'[i] = runs[i]
    BY <1>5, <1>6, <2>1, Replaced
  <2>. QED BY <1>1, <1>5, <2>2 DEF Grows, t, cut, Active
<1>9. Planned' \subseteq Planned
  <2>1. runs \in Seq(Run)
    BY <1>1 DEF TypeInv
  <2>2. DOMAIN runs' = DOMAIN runs /\ runs'[r] = x /\ \A i \in DOMAIN runs : i # r => runs'[i] = runs[i]
    BY <1>5, <1>6, <2>1, Replaced
  <2>3. \A i \in DOMAIN runs : runs'[i].turn = runs[i].turn /\ runs'[i].next = runs[i].next
    BY <1>5, <2>2 DEF t
  <2>4. RunPlans' = {runs'[i].turn : i \in DOMAIN runs'} \cup UNION {ToSet(runs'[i].next) : i \in DOMAIN runs'}
    BY DEF RunPlans, ToSet
  <2>5. RunPlans' = RunPlans
    BY <2>2, <2>3, <2>4 DEF RunPlans
  <2>6. DraftPlans' = DraftPlans
    BY <1>2 DEF DraftPlans, ToSet
  <2>. QED BY <2>5, <2>6 DEF Planned
<1>10. session[p].through + 1 .. cut \subseteq t.quotes \cup {cut} \cup t.omits \cup Lost'[p] \cup Passed'[p]
  <2>1. \A q \in Providers : Lost[q] \subseteq Lost'[q]
    BY <1>1, <1>8, LostGrows
  <2>2. CASE runs[r].missed = {}
    <3>1. session[p].through + 1 .. cut - 1 \subseteq t.quotes \cup t.omits \cup Lost[p]
      BY <1>1, <2>2 DEF Plans, Untold, Covers, Provider, p, t, cut
    <3>2. \A m \in session[p].through + 1 .. cut : m = cut \/ m \in session[p].through + 1 .. cut - 1
      BY <1>1
    <3>. QED BY <1>1, <2>1, <3>1, <3>2
  <2>3. CASE runs[r].missed # {}
    <3>1. \A m \in session[p].through + 1 .. cut : m \in Nat /\ m <= cut
      BY <1>1
    <3>2. \A m \in Nat : m <= cut => PassedOver(m, p)
      BY <2>3 DEF PassedOver, p, cut
    <3>3. session[p].through + 1 .. cut \subseteq Passed[p]
      BY <1>1, <3>1, <3>2 DEF Passed
    <3>. QED BY <1>1, <1>8, <3>3, PassedGrows
  <2>. QED BY <2>2, <2>3
<1>11. /\ NativeInv' /\ KnownInv'
       /\ session' \in [Providers -> [native : Nat, through : Nat]]
       /\ native' \in Seq([shown : SUBSET Nat, omitted : SUBSET Nat])
  <2>1. /\ t.quotes \cup {cut} \in SUBSET (1 .. cut) /\ t.omits \in SUBSET Nat
        /\ session[p].through <= cut
    BY <1>1, <1>3 DEF Turn
  <2>. DEFINE shown == t.quotes \cup {cut}
              omitted == t.omits
  <2>2. session[p].through + 1 .. cut \subseteq shown \cup omitted \cup Lost'[p] \cup Passed'[p]
    BY <1>10
  <2>3. native' = [native EXCEPT ![session[p].native] =
                     [shown |-> @.shown \cup shown, omitted |-> @.omitted \cup omitted]]
    BY <1>7
  <2>4. /\ Len(messages') \in Nat /\ Len(messages') >= Len(messages) /\ cut <= Len(messages')
    BY <1>1, <1>2, <1>3
  <2>5. shown \in SUBSET (1 .. cut) /\ omitted \in SUBSET Nat
    BY <2>1
  <2>. HIDE DEF shown, omitted
  <2>6. p \in Providers /\ session[p].native # 0 /\ cut \in Nat
    BY <1>1
  <2>. QED BY <1>4, <1>8, <1>9, <2>1, <2>2, <2>3, <2>4, <2>5, <2>6, ShowKeeps, ZenonT(60)
<1>12. RunRow(x, r, Len(runs), Len(messages'), session'[x.turn.provider])
  <2>1. x.turn.provider = p
    BY <1>5 DEF p, t, Provider
  <2>2. session'[p].through = Len(messages) /\ session'[p].native = session[p].native
    BY <1>1, <1>3, <1>4
  <2>3. OnePlan(x.turn, x.next)
    BY <1>1, <1>5 DEF RunRow, t
  <2>. QED BY <1>1, <1>2, <1>3, <1>5, <2>1, <2>2, <2>3 DEF RunRow, Untold, t, cut
<1>13. TypeInv' /\ RunInv' /\ PlanInv' /\ DraftInv' /\ BalanceInv'
  <2>1. messages' \in Seq(Nat) /\ Len(messages') >= Len(messages)
    BY <1>1, <1>2 DEF TypeInv
  <2>2. Plans(x, session', Lost)
    BY <1>5 DEF Plans, Untold
  <2>. QED BY <1>1, <1>2, <1>5, <1>6, <1>11, <1>12, <2>1, <2>2, RunKeeps DEF t, cut
<1>. QED BY <1>11, <1>13 DEF IInv

\* A running run's session knows every message: the next one is all it lacks.
LEMMA MessageKeeps ==
  ASSUME IInv, NEW r \in DOMAIN runs, Message(r)
  PROVE  IInv'
<1>. DEFINE p == Provider(r)
            x == runs[r]
            top == Len(messages) + 1
            shown == {top}
            omitted == {}
<1>1. /\ TypeInv /\ x \in Run /\ x.turn \in Turn /\ p \in Providers /\ r = Len(runs)
      /\ x.turn.provider = p
      /\ RunRow(x, r, Len(runs), Len(messages), session[p])
      /\ Plans(x, session, Lost)
      /\ Len(messages) \in Nat /\ Active(r) /\ r \in Nat \ {0}
      /\ session \in [Providers -> [native : Nat, through : Nat]]
      /\ x.turn.native = session[p].native /\ session[p].native # 0
      /\ x.stage = "running"
      /\ messages \in Seq(Nat)
  BY ActiveIsLast, SessionOfRun DEF IInv, Message, Active, TypeInv, Provider
<1>2. UNCHANGED <<conversation, runs, draft, elsewhere>> /\ messages' = Append(messages, r)
  BY DEF Message
<1>3. messages' \in Seq(Nat) /\ Len(messages') = top /\ top \in Nat
      /\ Len(messages') \in Nat /\ Len(messages') >= Len(messages)
  BY <1>1, <1>2, Appended
<1>4. session[p].through = Len(messages)
  BY <1>1 DEF RunRow
<1>5. session' = [session EXCEPT ![p].through = top]
  <2>1. Max({session[p].through, top}) = top
    BY <1>1, <1>3, <1>4, MaxOfOrdered
  <2>2. session' = [session EXCEPT ![p].through = Max({session[p].through, top})]
    BY DEF Message, Through
  <2>. QED BY <2>1, <2>2
<1>6. native' = [native EXCEPT ![session[p].native] =
                   [shown |-> @.shown \cup shown, omitted |-> @.omitted \cup omitted]]
  <2>1. native' = [native EXCEPT ![session[p].native].shown = @ \cup shown]
    BY <1>1 DEF Message
  <2>2. ASSUME NEW k \in DOMAIN native
        PROVE  [native[k] EXCEPT !.shown = @ \cup shown]
                 = [shown |-> native[k].shown \cup shown, omitted |-> native[k].omitted \cup omitted]
    <3>1. native[k] \in [shown : SUBSET Nat, omitted : SUBSET Nat]
      BY <1>1, Shapes
    <3>2. \A e \in [shown : SUBSET Nat, omitted : SUBSET Nat] :
            [e EXCEPT !.shown = e.shown \cup shown] =
               [shown |-> e.shown \cup shown, omitted |-> e.omitted]
      <4>. HIDE DEF shown
      <4>. QED OBVIOUS
    <3>3. native[k].omitted \cup omitted = native[k].omitted
      OBVIOUS
    <3>. QED BY <3>1, <3>2, <3>3
  <2>3. native = [k \in DOMAIN native |-> native[k]]
    BY <1>1 DEF TypeInv
  <2>. HIDE DEF shown, omitted, p
  <2>. QED BY <2>1, <2>2, <2>3
<1>7. runs' = [runs EXCEPT ![r] = x]
  BY <1>1, <1>2 DEF TypeInv
<1>. HIDE DEF x
<1>8. Grows
  BY <1>2 DEF Grows
<1>9. Planned' \subseteq Planned
  <2>1. RunPlans' = RunPlans /\ DraftPlans' = DraftPlans
    BY <1>2 DEF RunPlans, DraftPlans, ToSet
  <2>. QED BY <2>1 DEF Planned
<1>10. session[p].through + 1 .. top \subseteq shown \cup omitted \cup Lost'[p] \cup Passed'[p]
  BY <1>1, <1>4
<1>11. /\ NativeInv' /\ KnownInv'
       /\ session' \in [Providers -> [native : Nat, through : Nat]]
       /\ native' \in Seq([shown : SUBSET Nat, omitted : SUBSET Nat])
  <2>1. shown \in SUBSET (1 .. top) /\ omitted \in SUBSET Nat /\ session[p].through <= top
        /\ top <= Len(messages')
    BY <1>1, <1>3, <1>4
  <2>. HIDE DEF shown, omitted, top, p
  <2>2. p \in Providers /\ session[p].native # 0
    BY <1>1
  <2>. QED BY <1>3, <1>5, <1>6, <1>8, <1>9, <1>10, <2>1, <2>2, ShowKeeps, ZenonT(60)
<1>12. RunRow(x, r, Len(runs), Len(messages'), session'[x.turn.provider])
  <2>1. session'[p].through = top /\ session'[p].native = session[p].native
    BY <1>1, <1>5
  <2>. HIDE DEF p
  <2>2. x.told
    BY <1>1 DEF RunRow
  <2>3. x.cut \in 1 .. Len(messages')
    BY <1>1, <1>3 DEF RunRow
  <2>. QED BY <1>1, <1>3, <2>1, <2>2, <2>3 DEF RunRow, Untold
<1>13. TypeInv' /\ RunInv' /\ PlanInv' /\ DraftInv' /\ BalanceInv'
  <2>1. Plans(x, session', Lost)
    BY <1>1 DEF Plans, Untold
  <2>. QED BY <1>1, <1>2, <1>3, <1>7, <1>11, <1>12, <2>1, RunKeeps DEF x
<1>. QED BY <1>11, <1>13 DEF IInv

-----------------------------------------------------------------------------
(* A run is added.                                                         *)

\* The runs before it are over now, and did not change otherwise.
Joined(y) ==
  /\ runs' \in Seq(Run) /\ Len(runs') = Len(runs) + 1
  /\ runs'[Len(runs) + 1] = y
  /\ \A i \in DOMAIN runs :
       /\ runs'[i].turn = runs[i].turn /\ runs'[i].next = runs[i].next
       /\ runs'[i].cut = runs[i].cut /\ runs'[i].missed = runs[i].missed
       /\ runs'[i].from = runs[i].from /\ runs'[i].balanced = runs[i].balanced
       /\ runs'[i].told = runs[i].told /\ runs'[i].renewed = runs[i].renewed
       /\ runs'[i].stage = "over"
       /\ runs[i].stage = "over" => runs'[i] = runs[i]

LEMMA JoinedDomain ==
  ASSUME TypeInv, NEW y, Joined(y)
  PROVE  /\ Len(runs) \in Nat /\ DOMAIN runs = 1 .. Len(runs)
         /\ DOMAIN runs' = 1 .. Len(runs) + 1
         /\ \A i \in DOMAIN runs' : i \in DOMAIN runs \/ i = Len(runs) + 1
<1>1. Len(runs) \in Nat /\ DOMAIN runs = 1 .. Len(runs)
  BY Shapes
<1>2. DOMAIN runs' = 1 .. Len(runs')
  BY LenProperties DEF Joined
<1>. QED BY <1>1, <1>2 DEF Joined

LEMMA JoinedGrows ==
  ASSUME TypeInv, NEW y, Joined(y),
         y.from = 0 \/ (y.from \in DOMAIN runs /\ Active(y.from))
  PROVE  Grows
<1>1. \A i \in DOMAIN runs' : i \in DOMAIN runs \/ i = Len(runs) + 1
  BY JoinedDomain
<1>2. DOMAIN runs \subseteq DOMAIN runs'
  BY JoinedDomain
<1>3. \A f \in DOMAIN runs' \ DOMAIN runs :
        runs'[f].from = 0 \/ (runs'[f].from \in DOMAIN runs /\ Active(runs'[f].from))
  BY <1>1 DEF Joined
<1>. QED BY <1>2, <1>3 DEF Grows, Joined

LEMMA JoinKeeps ==
  ASSUME IInv, NEW y \in Run, Joined(y),
         y.from = 0 \/ (y.from \in DOMAIN runs /\ Active(y.from)),
         UNCHANGED <<conversation, session, native, elsewhere>>,
         draft' = draft \/ draft' = Idle,
         messages' \in Seq(Nat), Len(messages') >= Len(messages),
         RunRow(y, Len(runs) + 1, Len(runs) + 1, Len(messages'), session[y.turn.provider]),
         Plans(y, session, Lost),
         {y.turn} \cup ToSet(y.next) \subseteq Planned
  PROVE  TypeInv' /\ RunInv' /\ NativeInv' /\ PlanInv' /\ KnownInv'
<1>1. /\ TypeInv /\ RunInv /\ PlanInv /\ Len(messages) \in Nat
      /\ Len(runs) \in Nat /\ DOMAIN runs = 1 .. Len(runs)
      /\ DOMAIN runs' = 1 .. Len(runs) + 1
      /\ \A i \in DOMAIN runs' : i \in DOMAIN runs \/ i = Len(runs) + 1
      /\ Grows
  BY Shapes, JoinedDomain, JoinedGrows DEF IInv
<1>2. Len(messages') \in Nat
  BY LenProperties
<1>3. TypeInv'
  BY <1>1 DEF TypeInv, Joined
<1>4. RunInv'
  <2>1. runs' # <<>>
    BY <1>1, EmptySeq DEF Joined
  <2>2. ASSUME NEW i \in DOMAIN runs
        PROVE  RunRow(runs'[i], i, Len(runs) + 1, Len(messages'), session[runs'[i].turn.provider])
    <3>1. RunRow(runs[i], i, Len(runs), Len(messages), session[runs[i].turn.provider])
      BY <1>1 DEF RunInv
    <3>2. runs'[i].cut \in 1 .. Len(messages')
      BY <1>1, <1>2, <3>1 DEF RunRow, Joined
    <3>3. i # Len(runs) + 1
      BY <1>1
    <3>. QED BY <3>1, <3>2, <3>3 DEF RunRow, Untold, Joined
  <2>. QED BY <1>1, <2>1, <2>2 DEF RunInv, Joined
<1>5. PlanInv'
  <2>1. \A p \in Providers : Lost[p] \subseteq Lost'[p]
    BY <1>1, LostGrows
  <2>2. Plans(y, session', Lost')
    BY <2>1, PlansHold
  <2>3. ASSUME NEW i \in DOMAIN runs  PROVE Plans(runs'[i], session', Lost')
    BY DEF Plans, Untold, Joined
  <2>. QED BY <1>1, <2>2, <2>3 DEF PlanInv, Joined
<1>6. Planned' \subseteq Planned
  <2>1. RunPlans' = {runs'[i].turn : i \in DOMAIN runs'} \cup UNION {ToSet(runs'[i].next) : i \in DOMAIN runs'}
    BY DEF RunPlans, ToSet
  <2>2. RunPlans' \subseteq RunPlans \cup {y.turn} \cup ToSet(y.next)
    <3>1. \A i \in DOMAIN runs :
            /\ runs'[i].turn \in RunPlans
            /\ \A t \in ToSet(runs'[i].next) : t \in RunPlans
      BY DEF RunPlans, Joined
    <3>2. \A i \in DOMAIN runs' : i \in DOMAIN runs \/ runs'[i] = y
      BY <1>1 DEF Joined
    <3>. QED BY <2>1, <3>1, <3>2
  <2>3. DraftPlans' \subseteq DraftPlans
    BY DEF DraftPlans, ToSet
  <2>. QED BY <2>2, <2>3 DEF Planned
<1>7. NativeInv' /\ KnownInv'
  BY <1>1, <1>2, <1>6, SessionsKeep
<1>. QED BY <1>3, <1>4, <1>5, <1>7

\* One number more is counted, or not.
LEMMA OneMore ==
  ASSUME NEW n \in Nat, NEW S \in SUBSET (1 .. n), NEW T \in SUBSET (1 .. n + 1),
         \A i \in 1 .. n : i \in T <=> i \in S
  PROVE  Cardinality(T) = IF n + 1 \in T THEN Cardinality(S) + 1 ELSE Cardinality(S)
<1>1. IsFiniteSet(S)
  BY CountIsNat
<1>2. /\ n + 1 \notin 1 .. n
      /\ \A i \in 1 .. n + 1 : i \in 1 .. n \/ i = n + 1
  OBVIOUS
<1>3. /\ n + 1 \notin S
      /\ \A i \in T : i \in S \/ i = n + 1
      /\ \A i \in S : i \in T
  BY <1>2
<1>4. CASE n + 1 \in T
  <2>1. T = S \cup {n + 1}
    BY <1>4, <1>3
  <2>. QED BY <1>1, <1>4, <1>3, <2>1, FS_AddElement
<1>5. CASE n + 1 \notin T
  <2>1. T = S
    BY <1>5, <1>3
  <2>. QED BY <1>5, <2>1
<1>. QED BY <1>4, <1>5

LEMMA JoinedReach ==
  ASSUME TypeInv, NEW y \in Run, Joined(y), UNCHANGED elsewhere
  PROVE  /\ \A p \in Providers :
              Reach(p)' = IF y.turn.provider = p THEN Reach(p) + 1 ELSE Reach(p) - 1
         /\ Few' = IF y.from = 0 /\ (~y.balanced \/ y.missed # {}) THEN Few + 1 ELSE Few
<1>. DEFINE n == Len(runs)
<1>1. /\ n \in Nat /\ DOMAIN runs = 1 .. n /\ DOMAIN runs' = 1 .. n + 1
      /\ \A i \in 1 .. n : /\ runs'[i].turn = runs[i].turn /\ runs'[i].balanced = runs[i].balanced
                           /\ runs'[i].missed = runs[i].missed /\ runs'[i].from = runs[i].from
      /\ runs'[n + 1] = y
  BY JoinedDomain DEF Joined
<1>2. ASSUME NEW p \in Providers
      PROVE  Usage(p)' = IF y.turn.provider = p THEN Usage(p) + 1 ELSE Usage(p)
  <2>. DEFINE S == {r \in DOMAIN runs : runs[r].turn.provider = p}
              T == {r \in DOMAIN runs' : runs'[r].turn.provider = p}
  <2>1. /\ S \in SUBSET (1 .. n) /\ T \in SUBSET (1 .. n + 1)
        /\ \A i \in 1 .. n : i \in T <=> i \in S
        /\ n + 1 \in T <=> y.turn.provider = p
    BY <1>1
  <2>2. Usage(p) = Cardinality(S) + elsewhere.used[p]
        /\ Usage(p)' = Cardinality(T) + elsewhere.used[p]
    BY DEF Usage
  <2>3. elsewhere.used[p] \in Nat
    BY DEF TypeInv, Elsewheres
  <2>. HIDE DEF S, T, n
  <2>4. Cardinality(T) = IF n + 1 \in T THEN Cardinality(S) + 1 ELSE Cardinality(S)
    BY <1>1, <2>1, OneMore
  <2>5. Cardinality(S) \in Nat
    BY <1>1, <2>1, CountIsNat
  <2>. QED BY <2>1, <2>2, <2>3, <2>4, <2>5
<1>3. Few' = IF y.from = 0 /\ (~y.balanced \/ y.missed # {}) THEN Few + 1 ELSE Few
  <2>. DEFINE S == {r \in DOMAIN runs :
                      runs[r].from = 0 /\ (~runs[r].balanced \/ runs[r].missed # {})}
              T == {r \in DOMAIN runs' :
                      runs'[r].from = 0 /\ (~runs'[r].balanced \/ runs'[r].missed # {})}
  <2>1. /\ S \in SUBSET (1 .. n) /\ T \in SUBSET (1 .. n + 1)
        /\ \A i \in 1 .. n : i \in T <=> i \in S
        /\ n + 1 \in T <=> (y.from = 0 /\ (~y.balanced \/ y.missed # {}))
    BY <1>1
  <2>2. /\ Few = 1 + Others + (Cardinality(S) + elsewhere.stray)
        /\ Few' = 1 + Others + (Cardinality(T) + elsewhere.stray)
    BY DEF Few, Undecided
  <2>3. elsewhere.stray \in Nat /\ Others \in Nat
    BY ContextAssumption DEF TypeInv, Elsewheres
  <2>. HIDE DEF S, T, n
  <2>4. Cardinality(T) = IF n + 1 \in T THEN Cardinality(S) + 1 ELSE Cardinality(S)
    BY <1>1, <2>1, OneMore
  <2>5. Cardinality(S) \in Nat
    BY <1>1, <2>1, CountIsNat
  <2>. QED BY <2>1, <2>2, <2>3, <2>4, <2>5
<1>4. ASSUME NEW p \in Providers
      PROVE  Reach(p)' = IF y.turn.provider = p THEN Reach(p) + 1 ELSE Reach(p) - 1
  <2>1. /\ Rival(p) \in Providers \ {p} /\ Usage(p) \in Nat /\ Usage(Rival(p)) \in Nat
        /\ elsewhere.open[p] \in Nat
    BY CountsAreNat
  <2>2. y.turn.provider = p <=> y.turn.provider # Rival(p)
    BY <2>1 DEF Run, Turn, Providers
  <2>3. /\ Usage(p)' = IF y.turn.provider = p THEN Usage(p) + 1 ELSE Usage(p)
        /\ Usage(Rival(p))'
             = IF y.turn.provider = p THEN Usage(Rival(p)) ELSE Usage(Rival(p)) + 1
    <3>1. Usage(Rival(p))'
            = IF y.turn.provider = Rival(p) THEN Usage(Rival(p)) + 1 ELSE Usage(Rival(p))
      BY <1>2, <2>1 DEF Rival
    <3>. QED BY <1>2, <2>2, <3>1
  <2>4. Reach(p)' = Usage(p)' - Usage(Rival(p))' + elsewhere.open[p]
    BY DEF Reach
  <2>. QED BY <2>1, <2>3, <2>4 DEF Reach
<1>. QED BY <1>3, <1>4

\* What is left of one or two turns after the first.
LEMMA RestOfTurns ==
  ASSUME NEW s \in Seq(Turn), Len(s) \in {1, 2}
  PROVE  /\ s[1] \in Turn /\ Tail(s) \in Seq(Turn) /\ Len(Tail(s)) = Len(s) - 1
         /\ DOMAIN Tail(s) = 1 .. Len(s) - 1
         /\ \A i \in DOMAIN Tail(s) : i + 1 \in DOMAIN s /\ i + 1 = 2 /\ Tail(s)[i] = s[2]
         /\ Len(s) = 2 <=> DOMAIN Tail(s) # {}
<1>1. s # <<>> /\ DOMAIN s = 1 .. Len(s) /\ s[1] \in Turn
  BY TurnShapes
<1>2. /\ Tail(s) \in Seq(Turn) /\ Len(Tail(s)) = Len(s) - 1
      /\ \A i \in 1 .. Len(Tail(s)) : Tail(s)[i] = s[i + 1]
  BY <1>1, HeadTailProperties
<1>3. DOMAIN Tail(s) = 1 .. Len(s) - 1
  BY <1>2, LenProperties
<1>4. \A n \in {1, 2} : \A i \in 1 .. n - 1 : i = 1 /\ n = 2
  OBVIOUS
<1>. QED BY <1>1, <1>2, <1>3, <1>4

LEMMA PersistKeeps ==
  ASSUME IInv, Persist
  PROVE  IInv'
<1>. DEFINE turns == draft.turns
            n == Len(messages)
            missed == draft.active \cup (draft.runs + 1 .. Len(runs))
            y == [turn |-> turns[1], next |-> Tail(turns), from |-> 0,
                  cut |-> n + 1, stage |-> "queued", told |-> FALSE,
                  balanced |-> draft.balanced, renewed |-> FALSE, missed |-> missed]
<1>1. /\ draft # Idle /\ draft.at = "persist" /\ Quiet /\ draft' = Idle
      /\ UNCHANGED <<conversation, session, native, elsewhere>>
      /\ messages' = Append(messages, Len(runs) + 1)
      /\ runs' = Append(runs, y)
  BY DEF Persist, Idle
<1>2. /\ TypeInv /\ DraftInv /\ BalanceInv
      /\ n \in Nat /\ messages \in Seq(Nat)
      /\ Len(runs) \in Nat /\ DOMAIN runs = 1 .. Len(runs) /\ runs \in Seq(Run)
      /\ draft \in Draft /\ turns \in Seq(Turn) /\ Len(turns) \in {1, 2}
      /\ draft.attempt = Len(turns) /\ DOMAIN turns = 1 .. Len(turns)
      /\ draft.runs \in Nat /\ draft.runs <= Len(runs) /\ draft.active \in SUBSET Nat
      /\ draft.balanced \in BOOLEAN
      /\ Len(turns) = 2 => turns[2].provider # turns[1].provider
      /\ \A i \in DOMAIN turns : turns[i].quotes \subseteq 1 .. n
  <2>1. /\ TypeInv /\ DraftInv /\ BalanceInv
    BY DEF IInv
  <2>2. /\ n \in Nat /\ messages \in Seq(Nat)
        /\ Len(runs) \in Nat /\ DOMAIN runs = 1 .. Len(runs) /\ runs \in Seq(Run)
    BY <2>1, Shapes DEF TypeInv
  <2>3. /\ draft \in Draft /\ turns \in Seq(Turn)
        /\ draft.runs \in Nat /\ draft.active \in SUBSET Nat /\ draft.balanced \in BOOLEAN
    BY <1>1, <2>1 DEF TypeInv, Draft
  <2>4. DOMAIN turns = 1 .. Len(turns)
    BY <2>3, TurnShapes
  <2>5. /\ Len(turns) \in {1, 2} /\ draft.attempt = Len(turns) /\ draft.runs <= Len(runs)
        /\ Len(turns) = 2 => turns[2].provider # turns[1].provider
        /\ \A i \in DOMAIN turns : turns[i].quotes \subseteq 1 .. n
    BY <1>1, <2>1 DEF DraftInv
  <2>. QED BY <2>1, <2>2, <2>3, <2>4, <2>5
<1>3. /\ turns[1] \in Turn /\ Tail(turns) \in Seq(Turn) /\ Len(Tail(turns)) = Len(turns) - 1
      /\ \A i \in DOMAIN Tail(turns) : 2 \in DOMAIN turns /\ Tail(turns)[i] = turns[2]
      /\ 1 \in DOMAIN turns
  <2>1. 1 \in DOMAIN turns
    BY <1>2
  <2>. QED BY <1>2, <2>1, RestOfTurns
<1>4. missed \in SUBSET Nat
  BY <1>2
<1>5. missed = {} <=> QuietDraft
  <2>1. \A a, b \in Nat : a <= b => (a + 1 .. b = {} <=> a = b)
    <3>1. \A a, b \in Nat : a < b => b \in a + 1 .. b
      OBVIOUS
    <3>2. \A a \in Nat : a + 1 .. a = {}
      OBVIOUS
    <3>. QED BY <3>1, <3>2
  <2>2. draft.runs + 1 .. Len(runs) = {} <=> draft.runs = Len(runs)
    BY <1>2, <2>1
  <2>. QED BY <1>1, <2>2 DEF QuietDraft
<1>. HIDE DEF turns, missed
<1>6. /\ y \in Run /\ y.turn = turns[1] /\ y.next = Tail(turns) /\ y.from = 0
      /\ y.cut = n + 1 /\ y.stage = "queued" /\ ~y.told /\ y.balanced = draft.balanced
      /\ ~y.renewed /\ y.missed = missed
  BY <1>2, <1>3, <1>4 DEF Run, Stages
<1>. HIDE DEF y
<1>7. messages' \in Seq(Nat) /\ Len(messages') = n + 1 /\ Len(messages') >= Len(messages)
  BY <1>1, <1>2, Appended
<1>8. Joined(y)
  <2>1. /\ runs' \in Seq(Run) /\ Len(runs') = Len(runs) + 1
        /\ runs'[Len(runs) + 1] = y /\ \A i \in DOMAIN runs : runs'[i] = runs[i]
    BY <1>1, <1>2, <1>6, Appended
  <2>2. \A i \in DOMAIN runs : runs[i].stage = "over"
    BY <1>1 DEF Quiet, Active
  <2>. QED BY <2>1, <2>2 DEF Joined
<1>9. RunRow(y, Len(runs) + 1, Len(runs) + 1, Len(messages'), session[y.turn.provider])
  <2>1. OnePlan(turns[1], Tail(turns))
    BY <1>2, <1>3 DEF OnePlan
  <2>2. /\ turns[1].quotes \subseteq 1 .. n + 1
        /\ \A i \in DOMAIN Tail(turns) : Tail(turns)[i].quotes \subseteq 1 .. n + 1
    <3>1. \A k \in 1 .. n : k \in 1 .. n + 1
      BY <1>2
    <3>. QED BY <1>2, <1>3, <3>1
  <2>3. 0 \in 0 .. Len(runs) + 1 - 1 /\ n + 1 \in 1 .. n + 1
    BY <1>2
  <2>. QED BY <1>6, <1>7, <2>1, <2>2, <2>3 DEF RunRow
<1>10. Plans(y, session, Lost)
  <2>1. SUFFICES ASSUME QuietDraft
                 PROVE  \A t \in {turns[1]} \cup ToSet(Tail(turns)) :
                          /\ Covers(t, session[t.provider].through, Lost[t.provider], n)
                          /\ session[t.provider].through < n + 1
                          /\ t.native = session[t.provider].native
    <3>1. n + 1 - 1 = n
      BY <1>2
    <3>. QED BY <1>5, <1>6, <3>1 DEF Plans, Untold
  <2>2. \A i \in DOMAIN turns : IsBound(turns[i]) /\ IsCovered(turns[i], n)
    <3>1. \A i \in DOMAIN turns : IsRead(i) /\ IsDone(i)
      BY <1>1, <1>2 DEF IsRead, IsDone, turns
    <3>. QED BY <1>1, <1>2, <2>1, <3>1 DEF DraftInv, turns
  <2>3. \A t \in {turns[1]} \cup ToSet(Tail(turns)) : \E i \in DOMAIN turns : t = turns[i]
    BY <1>3 DEF ToSet
  <2>4. \A i \in DOMAIN turns : session[turns[i].provider].through < n + 1
    <3>1. \A p \in Providers : session[p].through \in Nat /\ session[p].through <= n
      BY <1>2 DEF IInv, TypeInv, KnownInv
    <3>2. \A i \in DOMAIN turns : turns[i].provider \in Providers
      BY <1>2, TurnShapes DEF Turn
    <3>. QED BY <1>2, <3>1, <3>2
  <2>. QED BY <2>2, <2>3, <2>4 DEF IsBound, IsCovered
<1>11. {y.turn} \cup ToSet(y.next) \subseteq Planned
  <2>1. \A i \in DOMAIN turns : turns[i] \in Planned
    BY <1>1 DEF Planned, DraftPlans, ToSet, turns
  <2>. QED BY <1>3, <1>6, <2>1 DEF ToSet
<1>12. TypeInv' /\ RunInv' /\ NativeInv' /\ PlanInv' /\ KnownInv'
  BY <1>1, <1>6, <1>7, <1>8, <1>9, <1>10, <1>11, JoinKeeps
<1>13. DraftInv' /\ ~QuietDraft'
  BY <1>1 DEF DraftInv, QuietDraft
<1>14. BalanceInv'
  <2>0. PICK p \in Providers : p = turns[1].provider
    BY <1>3 DEF Turn
  <2>1. /\ p \in Providers /\ Rival(p) \in Providers \ {p} /\ Few \in Nat
        /\ \A q \in Providers : Reach(q) \in Int /\ Reach(q) <= Few
        /\ \A q \in Providers \ {p} : q = Rival(p)
    <3>1. \A q \in Providers \ {p} : q = Rival(p)
      BY DEF Rival, Providers
    <3>. QED BY <1>2, <3>1, CountsAreNat DEF BalanceInv
  <2>2. /\ \A q \in Providers : Reach(q)' = IF p = q THEN Reach(q) + 1 ELSE Reach(q) - 1
        /\ Few' = IF ~draft.balanced \/ missed # {} THEN Few + 1 ELSE Few
    BY <1>1, <1>2, <1>6, <1>8, <2>0, JoinedReach
  <2>3. Reach(p)' <= Few'
    <3>1. CASE draft.balanced /\ missed = {}
      <4>1. Reach(p) + 1 <= Few
        BY <1>2, <1>5, <2>0, <3>1 DEF BalanceInv, turns
      <4>. QED BY <2>1, <2>2, <3>1, <4>1
    <3>2. CASE ~draft.balanced \/ missed # {}
      BY <2>1, <2>2, <3>2
    <3>. QED BY <3>1, <3>2
  <2>4. Reach(Rival(p))' + 1 <= Few'
    <3>1. PICK q \in Providers : q = Rival(p)
      BY <2>1
    <3>2. Reach(q)' = Reach(q) - 1 /\ Reach(q) \in Int /\ Reach(q) <= Few
      BY <2>1, <2>2, <3>1
    <3>3. Reach(q)' + 1 <= Few'
      BY <2>1, <2>2, <3>2
    <3>. QED BY <3>1, <3>3
  <2>5. \A q \in Providers : Reach(q)' <= Few'
    <3>1. ASSUME NEW q \in Providers \ {p}  PROVE Reach(q)' <= Few'
      BY <2>1, <2>2
    <3>. QED BY <2>3, <3>1
  <2>6. ASSUME NEW r \in DOMAIN runs', Active(r)'
        PROVE  Provider(r)' = p
    <3>1. runs'[r] = y
      BY <1>2, <1>8, <2>6, JoinedDomain DEF Joined, Active
    <3>. QED BY <1>6, <2>0, <3>1 DEF Provider
  <2>7. \A r \in DOMAIN runs' : Active(r)' => Reach(Rival(Provider(r)))' + 1 <= Few'
    <3>1. ASSUME NEW r \in DOMAIN runs', Active(r)'
          PROVE  Reach(Rival(Provider(r)))' = Reach(Rival(p))'
      <4>1. Provider(r)' = p
        BY <2>6, <3>1
      <4>. QED BY <4>1 DEF Reach, Rival
    <3>. QED BY <2>4, <3>1
  <2>. QED BY <1>1, <1>2, <1>13, <2>5, <2>7 DEF BalanceInv
<1>. QED BY <1>12, <1>13, <1>14 DEF IInv

LEMMA FallBackKeeps ==
  ASSUME IInv, NEW r \in DOMAIN runs, FallBack(r)
  PROVE  IInv'
<1>. DEFINE run == runs[r]
            t == Head(run.next)
            y == [run EXCEPT !.turn = t, !.next = <<>>, !.from = r, !.stage = "queued"]
            over == [run EXCEPT !.stage = "over"]
            ended == [runs EXCEPT ![r] = over]
<1>1. /\ run.stage \in {"queued", "bound"} /\ run.next # <<>>
      /\ UNCHANGED <<conversation, messages, session, draft, native, elsewhere>>
      /\ Active(r)
  BY DEF FallBack, Active
<1>2. /\ TypeInv /\ BalanceInv /\ run \in Run /\ run.next \in Seq(Turn) /\ r = Len(runs)
      /\ r \in Nat \ {0} /\ Provider(r) \in Providers /\ run.cut \in Nat
      /\ RunRow(run, r, Len(runs), Len(messages), session[Provider(r)])
      /\ Plans(run, session, Lost)
      /\ Len(messages) \in Nat /\ messages \in Seq(Nat) /\ runs \in Seq(Run)
      /\ DOMAIN runs = 1 .. Len(runs)
      /\ \A i \in DOMAIN runs : i # r => runs[i].stage = "over"
  BY <1>1, ActiveIsLast, Shapes DEF IInv, TypeInv
<1>3. /\ t = run.next[1] /\ 1 \in DOMAIN run.next /\ t \in Turn /\ t \in ToSet(run.next)
  <2>1. t = run.next[1] /\ Len(run.next) \in Nat /\ Len(run.next) # 0
        /\ DOMAIN run.next = 1 .. Len(run.next)
    BY <1>1, <1>2, TurnShapes
  <2>2. 1 \in DOMAIN run.next
    BY <2>1
  <2>. QED BY <1>2, <2>1, <2>2, TurnShapes DEF ToSet
<1>4. runs' = Append(ended, y)
  BY <1>2 DEF FallBack, Run
<1>. HIDE DEF t
<1>5. /\ y \in Run /\ y.turn = t /\ y.next = <<>> /\ y.from = r
      /\ y.cut = run.cut /\ y.stage = "queued" /\ y.told = run.told /\ y.balanced = run.balanced
      /\ y.renewed = run.renewed /\ y.missed = run.missed
  <2>1. <<>> \in Seq(Turn)
    OBVIOUS
  <2>. QED BY <1>2, <1>3, <2>1 DEF Run, Stages
<1>6. /\ over \in Run /\ over.turn = run.turn /\ over.next = run.next /\ over.cut = run.cut
      /\ over.missed = run.missed /\ over.from = run.from /\ over.balanced = run.balanced
      /\ over.told = run.told /\ over.renewed = run.renewed /\ over.stage = "over"
  BY <1>2 DEF Run, Stages
<1>. HIDE DEF y, over
<1>7. /\ ended \in Seq(Run) /\ Len(ended) = Len(runs) /\ DOMAIN ended = DOMAIN runs
      /\ ended[r] = over /\ \A i \in DOMAIN runs : i # r => ended[i] = runs[i]
  BY <1>2, <1>6, Replaced
<1>. HIDE DEF ended
<1>8. Joined(y)
  <2>1. /\ runs' \in Seq(Run) /\ Len(runs') = Len(runs) + 1
        /\ runs'[Len(runs) + 1] = y /\ \A i \in DOMAIN runs : runs'[i] = ended[i]
    BY <1>4, <1>5, <1>7, Appended
  <2>2. ASSUME NEW i \in DOMAIN runs
        PROVE  /\ runs'[i].turn = runs[i].turn /\ runs'[i].next = runs[i].next
               /\ runs'[i].cut = runs[i].cut /\ runs'[i].missed = runs[i].missed
               /\ runs'[i].from = runs[i].from /\ runs'[i].balanced = runs[i].balanced
               /\ runs'[i].told = runs[i].told /\ runs'[i].renewed = runs[i].renewed
               /\ runs'[i].stage = "over"
               /\ runs[i].stage = "over" => runs'[i] = runs[i]
    <3>1. CASE i = r
      BY <1>1, <1>6, <1>7, <2>1, <3>1
    <3>2. CASE i # r
      BY <1>2, <1>7, <2>1, <3>2
    <3>. QED BY <3>1, <3>2
  <2>. QED BY <2>1, <2>2 DEF Joined
<1>9. /\ t.provider # Provider(r) /\ t.quotes \subseteq 1 .. run.cut
      /\ run.cut = Len(messages) /\ run.cut \in 1 .. Len(messages)
      /\ ~run.told /\ (run.renewed => run.missed # {})
  BY <1>1, <1>2, <1>3 DEF RunRow, OnePlan, Untold, Provider
<1>10. RunRow(y, Len(runs) + 1, Len(runs) + 1, Len(messages'), session[y.turn.provider])
  <2>1. OnePlan(t, <<>>)
    BY DEF OnePlan
  <2>2. r \in 0 .. Len(runs) + 1 - 1
    BY <1>2
  <2>. QED BY <1>1, <1>5, <1>9, <2>1, <2>2 DEF RunRow
<1>11. Plans(y, session, Lost)
  <2>1. run.missed = {} =>
          /\ Covers(t, session[t.provider].through, Lost[t.provider], run.cut - 1)
          /\ session[t.provider].through < run.cut
          /\ t.native = session[t.provider].native
    BY <1>1, <1>2, <1>3 DEF Plans, Untold
  <2>2. ToSet(y.next) = {}
    BY <1>5 DEF ToSet
  <2>. QED BY <1>5, <2>1, <2>2 DEF Plans
<1>12. {y.turn} \cup ToSet(y.next) \subseteq Planned
  <2>1. t \in Planned
    BY <1>3 DEF Planned, RunPlans
  <2>. QED BY <1>5, <2>1 DEF ToSet
<1>13. TypeInv' /\ RunInv' /\ NativeInv' /\ PlanInv' /\ KnownInv'
  <2>1. y.from \in DOMAIN runs /\ Active(y.from)
    BY <1>1, <1>5
  <2>2. messages' \in Seq(Nat) /\ Len(messages') >= Len(messages)
    BY <1>1, <1>2
  <2>. QED BY <1>1, <1>5, <1>8, <1>10, <1>11, <1>12, <2>1, <2>2, JoinKeeps
<1>14. DraftInv' /\ ~QuietDraft'
  <2>1. /\ Len(runs') \in Nat /\ Len(runs') >= Len(runs)
        /\ Len(messages') \in Nat /\ Len(messages') >= Len(messages)
    BY <1>1, <1>2, <1>8 DEF Joined
  <2>. QED BY <1>1, <2>1, DraftKeeps
<1>15. BalanceInv'
  <2>1. \A i \in DOMAIN runs' : Active(i)' => runs'[i].next = <<>>
    BY <1>2, <1>5, <1>8, JoinedDomain DEF Joined, Active
  <2>2. /\ t.provider \in Providers /\ Rival(Provider(r)) = t.provider /\ Few \in Nat
        /\ \A q \in Providers : Reach(q) \in Int /\ Reach(q) <= Few
        /\ Reach(t.provider) + 1 <= Few
    <3>1. t.provider \in Providers
      BY <1>3 DEF Turn
    <3>2. Rival(Provider(r)) = t.provider
      BY <1>2, <1>9, <3>1 DEF Rival, Providers
    <3>. QED BY <1>1, <1>2, <3>1, <3>2, CountsAreNat DEF BalanceInv
  <2>3. /\ \A q \in Providers : Reach(q)' = IF t.provider = q THEN Reach(q) + 1 ELSE Reach(q) - 1
        /\ Few' = Few
    BY <1>1, <1>2, <1>5, <1>8, JoinedReach
  <2>4. \A q \in Providers : Reach(q)' <= Few'
    BY <2>2, <2>3
  <2>. QED BY <1>1, <1>2, <1>14, <2>1, <2>4 DEF BalanceInv
<1>. QED BY <1>13, <1>14, <1>15 DEF IInv

-----------------------------------------------------------------------------
(* The other conversations.                                                *)

\* They change the counts, and nothing else.
LEMMA ElsewhereKeeps ==
  ASSUME IInv, UNCHANGED <<conversation, messages, runs, session, draft, native>>,
         elsewhere' \in Elsewheres, BalanceInv'
  PROVE  IInv'
<1>1. TypeInv /\ RunInv /\ NativeInv /\ PlanInv /\ DraftInv /\ KnownInv
  BY DEF IInv
<1>2. TypeInv' /\ RunInv'
  BY <1>1 DEF TypeInv, RunInv
<1>3. Lost' = Lost /\ Passed' = Passed /\ Known' = Known
  BY DEF Lost, LostWith, Passed, PassedOver, Known, Told, Provider
<1>4. PlanInv' /\ KnownInv'
  BY <1>1, <1>3 DEF PlanInv, KnownInv
<1>5. DraftInv'
  BY <1>1, <1>3 DEF DraftInv, QuietDraft, Quiet, Active, Preparing, IsRead, IsDone, IsBound,
     IsCovered
<1>6. NativeInv'
  <2>1. Held' = Held
    BY DEF Held, Planned, RunPlans, DraftPlans, ToSet
  <2>. QED BY <1>1, <2>1 DEF NativeInv
<1>. QED BY <1>2, <1>4, <1>5, <1>6 DEF IInv

\* The counts after a step elsewhere: of p there are a runs more, and d and e
\* more fallbacks left to it and to the other.
LEMMA CountedElsewhere ==
  ASSUME TypeInv, UNCHANGED runs, elsewhere' \in Elsewheres, NEW p \in Providers,
         NEW a \in Int, NEW d \in Int, NEW e \in Int,
         elsewhere'.used[p] = elsewhere.used[p] + a,
         elsewhere'.used[Rival(p)] = elsewhere.used[Rival(p)],
         elsewhere'.open[p] = elsewhere.open[p] + d,
         elsewhere'.open[Rival(p)] = elsewhere.open[Rival(p)] + e
  PROVE  /\ Reach(p)' = Reach(p) + a + d
         /\ Reach(Rival(p))' = Reach(Rival(p)) - a + e
         /\ Few' = Few + elsewhere'.stray - elsewhere.stray
<1>. DEFINE q == Rival(p)
<1>1. /\ q \in Providers /\ Rival(q) = p
      /\ Usage(p) \in Nat /\ Usage(q) \in Nat /\ elsewhere.open[p] \in Nat /\ elsewhere.open[q] \in Nat
      /\ Undecided \in Nat /\ Others \in Nat
  <2>1. Rival(q) = p
    BY DEF Rival, Providers
  <2>. QED BY <2>1, CountsAreNat
<1>2. Usage(p)' = Usage(p) + a /\ Usage(q)' = Usage(q)
  <2>. DEFINE Here(u) == Cardinality({r \in DOMAIN runs : runs[r].turn.provider = u})
  <2>1. Here(p) \in Nat /\ Here(q) \in Nat
    <3>1. \A u : {r \in DOMAIN runs : runs[r].turn.provider = u} \in SUBSET (1 .. Len(runs))
      BY Shapes
    <3>. QED BY <3>1, CountIsNat, Shapes
  <2>2. /\ Usage(p) = Here(p) + elsewhere.used[p] /\ Usage(p)' = Here(p) + elsewhere'.used[p]
        /\ Usage(q) = Here(q) + elsewhere.used[q] /\ Usage(q)' = Here(q) + elsewhere'.used[q]
    BY DEF Usage
  <2>3. elsewhere.used[p] \in Nat /\ elsewhere.used[q] \in Nat
    BY <1>1 DEF TypeInv, Elsewheres
  <2>. HIDE DEF Here, q
  <2>. QED BY <2>1, <2>2, <2>3 DEF q
<1>3. /\ Reach(p)' = Usage(p)' - Usage(q)' + elsewhere'.open[p]
      /\ Reach(q)' = Usage(q)' - Usage(p)' + elsewhere'.open[q]
      /\ Reach(p) = Usage(p) - Usage(q) + elsewhere.open[p]
      /\ Reach(q) = Usage(q) - Usage(p) + elsewhere.open[q]
  BY <1>1 DEF Reach, Rival
<1>4. Reach(p)' = Reach(p) + a + d /\ Reach(q)' = Reach(q) - a + e
  <2>. HIDE DEF q
  <2>1. elsewhere'.open[q] = elsewhere.open[q] + e
    BY DEF q
  <2>. QED BY <1>1, <1>2, <1>3, <2>1
<1>5. Few' = Few + elsewhere'.stray - elsewhere.stray
  <2>. DEFINE S == {r \in DOMAIN runs :
                      runs[r].from = 0 /\ (~runs[r].balanced \/ runs[r].missed # {})}
  <2>1. /\ Few = 1 + Others + (Cardinality(S) + elsewhere.stray)
        /\ Few' = 1 + Others + (Cardinality(S) + elsewhere'.stray)
    BY DEF Few, Undecided
  <2>2. S \in SUBSET (1 .. Len(runs)) /\ Len(runs) \in Nat
    BY Shapes
  <2>. HIDE DEF S
  <2>3. Cardinality(S) \in Nat /\ elsewhere.stray \in Nat /\ elsewhere'.stray \in Nat
    BY <2>2, CountIsNat DEF TypeInv, Elsewheres
  <2>. QED BY <1>1, <2>1, <2>3
<1>. QED BY <1>4, <1>5 DEF q

LEMMA BothProviders ==
  ASSUME NEW p \in Providers
  PROVE  /\ Rival(p) \in Providers \ {p} /\ Providers = {p, Rival(p)}
         /\ \A r \in DOMAIN runs : Rival(Provider(r)) \in {p, Rival(p)}
BY DEF Rival, Providers

LEMMA ElsewhereStep ==
  ASSUME IInv, Elsewhere
  PROVE  IInv'
<1>1. PICK p \in Providers :
        \/ \E falls \in BOOLEAN : SubmitElsewhere(p, falls)
        \/ FallBackElsewhere(p) \/ EndElsewhere(p)
  BY DEF Elsewhere
<1>. DEFINE q == Rival(p)
<1>2. /\ TypeInv /\ BalanceInv /\ elsewhere \in Elsewheres
      /\ q \in Providers /\ q # p /\ Providers = {p, q} /\ Rival(q) = p
      /\ UNCHANGED <<conversation, messages, runs, session, draft, native>>
      /\ elsewhere.open[p] \in Nat /\ elsewhere.open[q] \in Nat /\ elsewhere.stray \in Nat
      /\ elsewhere.used[p] \in Nat /\ elsewhere.used[q] \in Nat
  <2>1. Rival(q) = p
    BY DEF Rival, Providers
  <2>2. TypeInv /\ BalanceInv /\ elsewhere \in Elsewheres
    BY DEF IInv, TypeInv
  <2>3. UNCHANGED <<conversation, messages, runs, session, draft, native>>
    BY <1>1 DEF SubmitElsewhere, FallBackElsewhere, EndElsewhere
  <2>4. q \in Providers /\ q # p /\ Providers = {p, q}
    BY BothProviders
  <2>. QED BY <2>1, <2>2, <2>3, <2>4 DEF Elsewheres
<1>3. /\ Reach(p) \in Int /\ Reach(q) \in Int /\ Few \in Nat /\ Others \in Nat
      /\ Reach(p) <= Few /\ Reach(q) <= Few
      /\ elsewhere.open[p] + elsewhere.open[q] <= Others
      /\ Few = 1 + Others + Undecided /\ Undecided \in Nat
  <2>1. elsewhere.open[p] + elsewhere.open[q] <= Others
    BY <1>2 DEF BalanceInv, Providers, Rival
  <2>. QED BY <1>2, <2>1, CountsAreNat DEF BalanceInv, Few
<1>4. elsewhere'.open["codex"] + elsewhere'.open["claude"]
        = elsewhere'.open[p] + elsewhere'.open[q] \/ elsewhere' \notin Elsewheres
  BY <1>2 DEF Providers, Elsewheres, Rival
<1>. HIDE DEF q
<1>5. ASSUME elsewhere' \in Elsewheres, elsewhere'.open[p] + elsewhere'.open[q] <= Others,
             Reach(p)' <= Few', Reach(q)' <= Few',
             \A r \in DOMAIN runs : Active(r) /\ runs[r].next # <<>> =>
               Reach(Rival(Provider(r)))' + 1 <= Few',
             QuietDraft /\ draft.balanced => Reach(draft.turns[1].provider)' + 1 <= Few'
      PROVE  IInv'
  <2>1. BalanceInv'
    BY <1>2, <1>4, <1>5 DEF BalanceInv, Active, Provider, QuietDraft, Rival
  <2>. QED BY <1>2, <1>5, <2>1, ElsewhereKeeps
<1>6. QuietDraft => draft # Idle /\ draft.turns[1].provider \in {p, q}
  <2>1. QuietDraft => draft \in Draft /\ Len(draft.turns) \in {1, 2}
    BY DEF QuietDraft, IInv, TypeInv, DraftInv
  <2>2. QuietDraft => draft.turns[1] \in Turn
    BY <2>1, RestOfTurns DEF Draft
  <2>. QED BY <1>2, <2>2 DEF QuietDraft, Turn
<1>7. \A r \in DOMAIN runs : Rival(Provider(r))' = Rival(Provider(r)) /\ Rival(Provider(r)) \in {p, q}
  BY <1>2, BothProviders DEF Rival, Provider, q
<1>8. ASSUME elsewhere' \in Elsewheres, elsewhere'.open[p] + elsewhere'.open[q] <= Others,
              Reach(p)' <= Few', Reach(q)' <= Few',
              Reach(p) + 1 <= Few => Reach(p)' + 1 <= Few',
              Reach(q) + 1 <= Few => Reach(q)' + 1 <= Few'
       PROVE  IInv'
  <2>1. ASSUME NEW r \in DOMAIN runs, Active(r), runs[r].next # <<>>
        PROVE  Reach(Rival(Provider(r)))' + 1 <= Few'
    <3>1. Reach(Rival(Provider(r))) + 1 <= Few
      BY <1>2, <2>1 DEF BalanceInv
    <3>2. PICK u \in {p, q} : u = Rival(Provider(r))
      BY <1>7
    <3>3. Reach(u)' + 1 <= Few'
      BY <1>8, <3>1, <3>2
    <3>4. Rival(Provider(r))' = u
      BY <1>7, <3>2
    <3>. QED BY <3>3, <3>4 DEF Reach, Rival
  <2>2. ASSUME QuietDraft, draft.balanced
        PROVE  Reach(draft.turns[1].provider)' + 1 <= Few'
    <3>1. Reach(draft.turns[1].provider) + 1 <= Few
      BY <1>2, <2>2 DEF BalanceInv
    <3>2. PICK u \in {p, q} : u = draft.turns[1].provider
      BY <1>6, <2>2
    <3>3. Reach(u)' + 1 <= Few'
      BY <1>8, <3>1, <3>2
    <3>4. (draft.turns[1].provider)' = u
      BY <1>2, <3>2
    <3>. QED BY <3>3, <3>4 DEF Reach, Rival
  <2>. QED BY <1>5, <1>8, <2>1, <2>2
<1>9. ASSUME NEW falls \in BOOLEAN, SubmitElsewhere(p, falls)  PROVE IInv'
  <2>. DEFINE decided == draft = Idle /\ p = LeastUsed(Providers)
              e == IF falls THEN 1 ELSE 0
              w == IF decided THEN 0 ELSE 1
  <2>1. /\ elsewhere.open[p] + elsewhere.open[q] < Others
        /\ elsewhere' = [elsewhere EXCEPT
             !.used[p] = @ + 1, !.open[q] = IF falls THEN @ + 1 ELSE @,
             !.stray = IF decided THEN @ ELSE @ + 1]
    BY <1>2, <1>9 DEF SubmitElsewhere, q, Providers, Rival
  <2>2. /\ elsewhere' \in Elsewheres
        /\ elsewhere'.used[p] = elsewhere.used[p] + 1 /\ elsewhere'.used[q] = elsewhere.used[q]
        /\ elsewhere'.open[p] = elsewhere.open[p] + 0
        /\ elsewhere'.open[q] = elsewhere.open[q] + e
        /\ elsewhere'.stray = elsewhere.stray + w
    <3>. DEFINE opened == IF falls THEN elsewhere.open[q] + 1 ELSE elsewhere.open[q]
                strays == IF decided THEN elsewhere.stray ELSE elsewhere.stray + 1
    <3>1. opened = elsewhere.open[q] + e /\ strays = elsewhere.stray + w
          /\ opened \in Nat /\ strays \in Nat
      BY <1>2
    <3>. HIDE DEF decided, e, w
    <3>2. elsewhere' = [used |-> [elsewhere.used EXCEPT ![p] = @ + 1],
                        open |-> [elsewhere.open EXCEPT ![q] = opened], stray |-> strays]
      BY <1>2, <2>1 DEF Elsewheres
    <3>. HIDE DEF opened, strays
    <3>3. elsewhere.used \in [Providers -> Nat] /\ elsewhere.open \in [Providers -> Nat]
      BY <1>2 DEF Elsewheres
    <3>. QED BY <1>2, <3>1, <3>2, <3>3 DEF Elsewheres
  <2>3. e \in {0, 1} /\ w \in {0, 1} /\ (w = 0 <=> decided)
    OBVIOUS
  <2>. HIDE DEF e, w, decided
  <2>4. /\ Reach(p)' = Reach(p) + 1 + 0 /\ Reach(q)' = Reach(q) - 1 + e
        /\ Few' = Few + elsewhere'.stray - elsewhere.stray
    <3>1. e \in Int /\ 1 \in Int /\ 0 \in Int
      BY <2>3
    <3>2. /\ UNCHANGED runs /\ elsewhere' \in Elsewheres
          /\ elsewhere'.used[Rival(p)] = elsewhere.used[Rival(p)]
          /\ elsewhere'.open[Rival(p)] = elsewhere.open[Rival(p)] + e
      BY <1>2, <2>2 DEF q
    <3>. QED BY <1>2, <2>2, <3>1, <3>2, CountedElsewhere DEF q
  <2>5. Few' = Few + w
    BY <1>2, <1>3, <2>2, <2>3, <2>4
  <2>6. elsewhere'.open[p] + elsewhere'.open[q] <= Others
    BY <1>2, <1>3, <2>1, <2>2, <2>3
  <2>7. CASE w = 0
    <3>1. draft = Idle /\ Usage(p) <= Usage(q) /\ Usage(p) \in Nat /\ Usage(q) \in Nat
      <4>1. draft = Idle /\ p = LeastUsed(Providers)
        BY <2>3, <2>7 DEF decided
      <4>2. Usage(p) <= Usage(q)
        BY <1>2, <4>1, LeastUsedIs DEF q
      <4>. QED BY <1>2, <4>1, <4>2, CountsAreNat
    <3>2. Reach(p) + 2 <= Few
      <4>1. Reach(p) = Usage(p) - Usage(q) + elsewhere.open[p]
        BY DEF Reach, q
      <4>. QED BY <1>2, <1>3, <2>1, <3>1, <4>1
    <3>3. Reach(p)' + 1 <= Few' /\ Reach(p)' <= Few' /\ Reach(q)' <= Few'
          /\ Reach(q)' <= Reach(q) /\ Few' = Few /\ Reach(q)' \in Int
      BY <1>3, <2>3, <2>4, <2>5, <2>7, <3>2
    <3>4. \A r \in DOMAIN runs : Active(r) /\ runs[r].next # <<>> =>
            Reach(Rival(Provider(r)))' + 1 <= Few'
      <4>1. ASSUME NEW r \in DOMAIN runs, Active(r), runs[r].next # <<>>
            PROVE  Reach(Rival(Provider(r)))' + 1 <= Few'
        <5>1. CASE Rival(Provider(r)) = p
          BY <1>7, <3>3, <5>1 DEF Reach, Rival
        <5>2. CASE Rival(Provider(r)) = q
          <6>1. Reach(q) + 1 <= Few
            BY <1>2, <4>1, <5>2 DEF BalanceInv
          <6>2. Reach(q)' + 1 <= Few'
            BY <1>3, <3>3, <6>1
          <6>. QED BY <1>2, <1>7, <5>2, <6>2 DEF Reach, Rival, q
        <5>. QED BY <1>7, <5>1, <5>2
      <4>. QED BY <4>1
    <3>. QED BY <1>5, <1>6, <2>2, <2>6, <3>1, <3>3, <3>4
  <2>8. CASE w = 1
    <3>1. /\ Few' = Few + 1 /\ Reach(p)' = Reach(p) + 1
          /\ Reach(q)' <= Reach(q) /\ Reach(q)' \in Int
      BY <1>3, <2>3, <2>4, <2>5, <2>8
    <3>2. Reach(p)' <= Few' /\ Reach(q)' <= Few'
      BY <1>3, <3>1
    <3>3. /\ Reach(p) + 1 <= Few => Reach(p)' + 1 <= Few'
          /\ Reach(q) + 1 <= Few => Reach(q)' + 1 <= Few'
      BY <1>3, <3>1
    <3>. QED BY <1>8, <2>2, <2>6, <3>2, <3>3
  <2>. QED BY <2>3, <2>7, <2>8
<1>10. CASE FallBackElsewhere(p)
  <2>1. elsewhere' = [elsewhere EXCEPT !.open[p] = @ - 1, !.used[p] = @ + 1] /\ elsewhere.open[p] > 0
    BY <1>10 DEF FallBackElsewhere
  <2>2. /\ elsewhere' \in Elsewheres
        /\ elsewhere'.used[p] = elsewhere.used[p] + 1 /\ elsewhere'.used[q] = elsewhere.used[q]
        /\ elsewhere'.open[p] = elsewhere.open[p] + -1
        /\ elsewhere'.open[q] = elsewhere.open[q] + 0
        /\ elsewhere'.stray = elsewhere.stray
    <3>1. elsewhere.used \in [Providers -> Nat] /\ elsewhere.open \in [Providers -> Nat]
      BY <1>2 DEF Elsewheres
    <3>2. elsewhere.open[p] - 1 \in Nat /\ elsewhere.used[p] + 1 \in Nat
      BY <1>2, <2>1
    <3>3. elsewhere' = [used |-> [elsewhere.used EXCEPT ![p] = elsewhere.used[p] + 1],
                        open |-> [elsewhere.open EXCEPT ![p] = elsewhere.open[p] - 1],
                        stray |-> elsewhere.stray]
      BY <1>2, <2>1 DEF Elsewheres
    <3>. QED BY <1>2, <3>1, <3>2, <3>3 DEF Elsewheres
  <2>3. /\ Reach(p)' = Reach(p) + 1 + -1 /\ Reach(q)' = Reach(q) - 1 + 0
        /\ Few' = Few + elsewhere'.stray - elsewhere.stray
    BY <1>2, <2>2, CountedElsewhere DEF q
  <2>4. /\ Reach(p)' <= Few' /\ Reach(q)' <= Few'
        /\ Reach(p) + 1 <= Few => Reach(p)' + 1 <= Few'
        /\ Reach(q) + 1 <= Few => Reach(q)' + 1 <= Few'
    BY <1>2, <1>3, <2>2, <2>3
  <2>5. elsewhere'.open[p] + elsewhere'.open[q] <= Others
    BY <1>2, <1>3, <2>2
  <2>. QED BY <1>8, <2>2, <2>4, <2>5
<1>11. CASE EndElsewhere(p)
  <2>1. elsewhere' = [elsewhere EXCEPT !.open[p] = @ - 1] /\ elsewhere.open[p] > 0
    BY <1>11 DEF EndElsewhere
  <2>2. /\ elsewhere' \in Elsewheres
        /\ elsewhere'.used[p] = elsewhere.used[p] + 0 /\ elsewhere'.used[q] = elsewhere.used[q]
        /\ elsewhere'.open[p] = elsewhere.open[p] + -1
        /\ elsewhere'.open[q] = elsewhere.open[q] + 0
        /\ elsewhere'.stray = elsewhere.stray
    BY <1>2, <2>1 DEF Elsewheres
  <2>3. /\ Reach(p)' = Reach(p) + 0 + -1 /\ Reach(q)' = Reach(q) - 0 + 0
        /\ Few' = Few + elsewhere'.stray - elsewhere.stray
    BY <1>2, <2>2, CountedElsewhere DEF q
  <2>4. /\ Reach(p)' <= Few' /\ Reach(q)' <= Few'
        /\ Reach(p) + 1 <= Few => Reach(p)' + 1 <= Few'
        /\ Reach(q) + 1 <= Few => Reach(q)' + 1 <= Few'
    BY <1>2, <1>3, <2>2, <2>3
  <2>5. elsewhere'.open[p] + elsewhere'.open[q] <= Others
    BY <1>2, <1>3, <2>2
  <2>. QED BY <1>8, <2>2, <2>4, <2>5
<1>. QED BY <1>1, <1>9, <1>10, <1>11

-----------------------------------------------------------------------------
(* The invariant, and what follows from it.                                *)

LEMMA InitIInv == ContextInit => IInv
<1>. SUFFICES ASSUME ContextInit PROVE IInv
  OBVIOUS
<1>1. /\ conversation \in [profile : {"continuity", "usage_balance"}, archived : BOOLEAN]
      /\ messages = <<>> /\ runs = <<>> /\ native = <<>> /\ draft = Idle
      /\ session = [p \in Providers |-> [native |-> 0, through |-> 0]]
      /\ elsewhere \in Elsewheres /\ elsewhere.stray = 0
      /\ \A p \in Providers : elsewhere.used[p] = 0 /\ elsewhere.open[p] = 0
  BY ContextAssumption DEF ContextInit, Elsewheres
<1>2. /\ DOMAIN runs = {} /\ Len(messages) = 0 /\ Len(native) = 0 /\ Len(runs) = 0
      /\ runs \in Seq(Run) /\ messages \in Seq(Nat)
      /\ native \in Seq([shown : SUBSET Nat, omitted : SUBSET Nat])
  BY <1>1
<1>3. TypeInv
  BY <1>1, <1>2 DEF TypeInv
<1>4. RunInv /\ PlanInv /\ DraftInv /\ ~QuietDraft
  BY <1>1, <1>2 DEF RunInv, PlanInv, DraftInv, QuietDraft
<1>5. KnownInv
  BY <1>1 DEF KnownInv
<1>6. NativeInv
  <2>1. Planned = {}
    BY <1>1, <1>2 DEF Planned, RunPlans, DraftPlans
  <2>2. \A p \in Providers : Held[p] = {0}
    BY <1>1, <2>1 DEF Held
  <2>. QED BY <1>2, <2>2 DEF NativeInv, Providers
<1>7. BalanceInv
  <2>1. \A p \in Providers : Usage(p) = 0
    BY <1>1, <1>2, FS_EmptySet DEF Usage
  <2>2. Few \in Nat /\ Few >= 1 /\ Others \in Nat /\ \A p \in Providers : Rival(p) \in Providers
    BY <1>3, CountsAreNat DEF Few
  <2>3. \A p \in Providers : Reach(p) = 0
    BY <1>1, <2>1, <2>2 DEF Reach
  <2>. QED BY <1>1, <1>2, <1>4, <2>2, <2>3 DEF BalanceInv, Providers
<1>. QED BY <1>3, <1>4, <1>5, <1>6, <1>7 DEF IInv

LEMMA SubmissionStep ==
  ASSUME IInv, Submission
  PROVE  IInv'
<1>1. ASSUME NEW eligible \in Eligible, NEW override \in Providers \cup {None},
             Route(eligible, override)
      PROVE  IInv'
  BY <1>1, RouteKeeps
<1>2. ASSUME NEW first \in 1 .. MaxMessages + 1, LoadMessages(first)
      PROVE  IInv'
  BY <1>2, LoadMessagesKeeps
<1>3. CASE ReadSession
  BY <1>3, ReadSessionKeeps
<1>4. CASE ReadBoundary
  BY <1>4, ReadBoundaryKeeps
<1>5. CASE Persist
  BY <1>5, PersistKeeps
<1>6. CASE Refuse
  BY <1>6, RefuseKeeps
<1>7. CASE Archive
  BY <1>7, ArchiveKeeps
<1>. QED BY <1>1, <1>2, <1>3, <1>4, <1>5, <1>6, <1>7 DEF Submission

LEMMA RunStepKeeps ==
  ASSUME IInv, NEW r \in DOMAIN runs,
         \/ StartSession(r) \/ FallBack(r) \/ EndUnstarted(r) \/ TurnStarted(r)
         \/ AdvanceContext(r) \/ Message(r) \/ Finish(r)
  PROVE  IInv'
<1>1. CASE StartSession(r)
  BY <1>1, StartSessionKeeps
<1>2. CASE FallBack(r)
  BY <1>2, FallBackKeeps
<1>3. CASE EndUnstarted(r)
  BY <1>3, EndUnstartedKeeps
<1>4. CASE TurnStarted(r)
  BY <1>4, TurnStartedKeeps
<1>5. CASE AdvanceContext(r)
  BY <1>5, AdvanceContextKeeps
<1>6. CASE Message(r)
  BY <1>6, MessageKeeps
<1>7. CASE Finish(r)
  BY <1>7, FinishKeeps
<1>. QED BY <1>1, <1>2, <1>3, <1>4, <1>5, <1>6, <1>7

LEMMA NextIInv == IInv /\ [ContextNext]_contextVars => IInv'
<1>. SUFFICES ASSUME IInv, [ContextNext]_contextVars PROVE IInv'
  OBVIOUS
<1>1. CASE Submission
  BY <1>1, SubmissionStep
<1>2. CASE RunStep
  BY <1>2, RunStepKeeps DEF RunStep
<1>3. CASE Elsewhere
  BY <1>3, ElsewhereStep
<1>4. CASE UNCHANGED contextVars
  BY <1>4, ConversationKeeps DEF contextVars, IInv, TypeInv
<1>. QED BY <1>1, <1>2, <1>3, <1>4 DEF ContextNext

\* Every state: the runs are in order, a native session belongs to one provider
\* and was shown nothing beyond its boundary, what a submission read while
\* nothing ran stays true until its turn is told (App::submit, build_handoff,
\* provider_context_boundary).
THEOREM InductiveInvariant == ContextSpec => []IInv
<1>1. ContextInit => IInv
  BY InitIInv
<1>2. IInv /\ [ContextNext]_contextVars => IInv'
  BY NextIInv
<1>. QED BY <1>1, <1>2, PTL DEF ContextSpec

LEMMA UnseenFollows == IInv => OnlyUnseen
<1>. SUFFICES ASSUME IInv, NEW r \in DOMAIN runs,
                     runs[r].stage = "bound", runs[r].missed = {}
              PROVE  (runs[r].turn.quotes \cup {runs[r].cut})
                       \cap native[runs[r].turn.native].shown = {}
  BY DEF OnlyUnseen
<1>. DEFINE p == Provider(r)
            known == session[p].through
<1>1. /\ runs[r].turn.native = session[p].native /\ session[p].native # 0
      /\ known \in Nat /\ p \in Providers /\ runs[r].cut \in Nat
      /\ Plans(runs[r], session, Lost)
  BY SessionOfRun, ActiveIsLast DEF Active
<1>2. native[runs[r].turn.native].shown \subseteq 1 .. known
  BY <1>1 DEF IInv, NativeInv, Held
<1>3. runs[r].turn.quotes \subseteq known + 1 .. runs[r].cut - 1 /\ known < runs[r].cut
  BY <1>1 DEF Plans, Untold, Covers, Provider
<1>4. \A m \in runs[r].turn.quotes \cup {runs[r].cut} : m \notin 1 .. known
  BY <1>1, <1>3
<1>. QED BY <1>2, <1>4

\* A session is not told again what it was told: a submission prepared while
\* nothing ran quotes only what its session was never shown, on whichever
\* provider it ends up (build_handoff, advance_provider_context), for any
\* number of runs, fallbacks and messages.
THEOREM NothingIsToldTwice == ContextSpec => []OnlyUnseen
BY InductiveInvariant, UnseenFollows, PTL

LEMMA ContextTypeFollows == IInv => ContextTypeOK
<1>. SUFFICES ASSUME IInv PROVE ContextTypeOK
  OBVIOUS
<1>1. /\ TypeInv /\ RunInv /\ NativeInv /\ KnownInv
      /\ Len(messages) \in Nat /\ DOMAIN messages = 1 .. Len(messages)
      /\ Len(native) \in Nat /\ DOMAIN native = 1 .. Len(native)
      /\ session \in [Providers -> [native : Nat, through : Nat]]
  BY Shapes DEF IInv, TypeInv
<1>2. conversation.archived \in BOOLEAN
  BY <1>1 DEF TypeInv
<1>3. \A p \in Providers :
        session[p].native \in 0 .. Len(native) /\ session[p].through \in 0 .. Len(messages)
  <2>1. \A p \in Providers : session[p].native \in 0 .. Len(native)
    BY <1>1 DEF NativeInv, Held
  <2>2. \A p \in Providers : session[p].through \in Nat /\ session[p].through <= Len(messages)
    BY <1>1 DEF KnownInv
  <2>. QED BY <1>1, <2>1, <2>2
<1>4. ASSUME NEW r \in DOMAIN runs
      PROVE  /\ runs[r].from \in 0 .. r - 1
             /\ runs[r].cut \in DOMAIN messages
             /\ runs[r].stage \notin {"queued", "over"} => runs[r].turn.native \in DOMAIN native
  <2>1. RunRow(runs[r], r, Len(runs), Len(messages), session[runs[r].turn.provider])
    BY <1>1 DEF RunInv
  <2>2. runs[r].turn.provider \in Providers
    BY <1>1, Shapes DEF Run, Turn
  <2>3. runs[r].stage \notin {"queued", "over"} => runs[r].turn.native \in DOMAIN native
    BY <1>1, <1>3, <2>1, <2>2 DEF RunRow
  <2>. QED BY <1>1, <2>1, <2>3 DEF RunRow
<1>5. Cardinality({r \in DOMAIN runs : Active(r)}) <= 1
  <2>. DEFINE A == {r \in DOMAIN runs : Active(r)}
  <2>1. A \subseteq {Len(runs)}
    BY <1>1 DEF RunInv, RunRow, Active
  <2>2. A = {} \/ A = {Len(runs)}
    BY <2>1
  <2>3. Cardinality({}) = 0 /\ Cardinality({Len(runs)}) = 1
    BY FS_EmptySet, FS_Singleton
  <2>. HIDE DEF A
  <2>4. Cardinality(A) = 0 \/ Cardinality(A) = 1
    BY <2>2, <2>3, Zenon
  <2>5. Cardinality(A) <= 1
    BY <2>4
  <2>. QED BY <2>5 DEF A
<1>. QED BY <1>2, <1>3, <1>4, <1>5 DEF ContextTypeOK

LEMMA AccountFollows == IInv => ContextIsAccountedFor
<1>. SUFFICES ASSUME IInv PROVE ContextIsAccountedFor
  OBVIOUS
<1>1. ContextTypeOK
  BY ContextTypeFollows
<1>2. ASSUME NEW p \in Providers, session[p].native # 0, NEW m \in 1 .. session[p].through
      PROVE  \/ m \in native[session[p].native].shown \cup native[session[p].native].omitted
             \/ LostWith(m, p) \/ PassedOver(m, p)
  <2>1. m \in Known[p]
    BY <1>2 DEF IInv, KnownInv
  <2>2. m \in Told(p) \cup {k \in Nat : LostWith(k, p)} \cup {k \in Nat : PassedOver(k, p)}
    BY <2>1 DEF Known, Lost, Passed
  <2>. QED BY <2>2 DEF Told
<1>3. \A r \in DOMAIN runs : runs[r].renewed => runs[r].missed # {}
  BY DEF IInv, RunInv, RunRow
<1>. QED BY <1>1, <1>2, <1>3 DEF ContextIsAccountedFor

\* What lies behind the boundary of a session, and is never told it any more, it
\* was shown, did not fit its capsule, went with an attempt that never became a
\* turn, or was passed over by a submission prepared while a run was active;
\* only such a submission replaces a session (advance_provider_context_inner,
\* bind_native_session_with_group_inner).
THEOREM ContextAccounted == ContextSpec => []ContextIsAccountedFor
BY InductiveInvariant, AccountFollows, PTL

LEMMA BalanceFollows == IInv => UsageIsBalanced
<1>. SUFFICES ASSUME IInv  PROVE UsageIsBalanced
  OBVIOUS
<1>1. /\ "codex" \in Providers /\ "claude" \in Providers
      /\ Rival("codex") = "claude" /\ Rival("claude") = "codex"
  BY DEF Providers, Rival
<1>2. /\ Usage("codex") \in Nat /\ Usage("claude") \in Nat /\ Few \in Nat
      /\ elsewhere.open["codex"] \in Nat /\ elsewhere.open["claude"] \in Nat
  BY <1>1, CountsAreNat DEF IInv
<1>3. Reach("codex") <= Few /\ Reach("claude") <= Few
  BY <1>1 DEF IInv, BalanceInv
<1>4. /\ Reach("codex") = Usage("codex") - Usage("claude") + elsewhere.open["codex"]
      /\ Reach("claude") = Usage("claude") - Usage("codex") + elsewhere.open["claude"]
  BY <1>1 DEF Reach
<1>5. Usage("codex") - Usage("claude") \in -Few .. Few
  BY <1>2, <1>3, <1>4
<1>. QED BY <1>5 DEF UsageIsBalanced, Few

\* Whatever this conversation and the others submit, and whichever of them fall
\* back, the runs of the two providers differ by at most the number of
\* conversations, and one for each submission that usage did not decide
\* (choose_provider, provider_usage, insert_atomic_fallback).
THEOREM RunsAreSpread == ContextSpec => []UsageIsBalanced
BY InductiveInvariant, BalanceFollows, PTL

=============================================================================
