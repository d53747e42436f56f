------------------------ MODULE DispatchLease_proofs ------------------------
(***************************************************************************)
(* Proofs about DispatchLease for any number of incarnations, runs,        *)
(* messages, stalls and faults.                                            *)
(***************************************************************************)
EXTENDS DispatchLease, TLAPS

(* A row nobody inserted says nothing *)
AbsentIsBlank ==
    \A r \in Runs : run[r].status = "absent" =>
        /\ run[r].certainty = "null" /\ run[r].origin = NoRun
        /\ run[r].command = NoCommand /\ effects[r] = 0

(* NotDispatched is recorded only with the failure of a run no provider    *)
(* has received.                                                           *)
NotMeansFailed ==
    \A r \in Runs : run[r].certainty = "not" =>
        run[r].status = "failed" /\ effects[r] = 0

(* Whoever works on a run has recorded that it may be dispatched; only a   *)
(* task handing over to the fallback works for a row that says otherwise.  *)
TaskIsClaimed ==
    \A i \in Instances, r \in Runs :
        /\ att[i][r] # "none" =>
              \/ run[r].certainty = "may"
              \/ run[r].certainty = "not" /\ att[i][r] = "handover"
        /\ att[i][r] = "handover" => run[r].certainty = "not"

TurnsAreCounted ==
    /\ \A r \in Runs : effects[r] <= 1
    /\ \A i \in Instances, r \in Runs :
          att[i][r] \in BeforeTurn => effects[r] = 0

(* A row that may be started again has not been started *)
ReentryIsFirst ==
    \A r \in Runs :
        run[r].status = "queued" /\ run[r].certainty = "null" /\ ~run[r].session
            => effects[r] = 0

(* Runs that answer one message: a primary and at most one fallback, whose *)
(* primary no provider received.                                           *)
FallbackOfUndispatched ==
    \A f \in Runs : run[f].origin # NoRun =>
        /\ run[run[f].origin].certainty = "not"
        /\ run[run[f].origin].origin = NoRun
        /\ run[run[f].origin].command = run[f].command

OneFallback ==
    \A f, g \in Runs :
        run[f].origin # NoRun /\ run[f].origin = run[g].origin => f = g

OnePrimary ==
    \A r, s \in Runs :
        /\ run[r].status # "absent" /\ run[s].status # "absent"
        /\ run[r].origin = NoRun /\ run[s].origin = NoRun
        /\ run[r].command = run[s].command
        => r = s

PresentHasCommand ==
    \A r \in Runs : run[r].status # "absent" => run[r].command \in Commands

(* The fallback of a task that is handing over has not been touched *)
HandoverIsFresh ==
    \A i \in Instances, r, f \in Runs :
        att[i][r] = "handover" /\ run[f].origin = r =>
            /\ run[f].certainty = "may" /\ effects[f] = 0
            /\ \A j \in Instances : att[j][f] = "none"

(* What the rows say of each other, and what the tasks do about them *)
RowInv ==
    /\ AbsentIsBlank /\ NotMeansFailed /\ ReentryIsFirst
    /\ FallbackOfUndispatched /\ OneFallback /\ OnePrimary
    /\ PresentHasCommand /\ OneActiveRunPerConversation

TaskInv == TaskIsClaimed /\ OneExecutor /\ TurnsAreCounted /\ HandoverIsFresh

IInv == TypeOK /\ RowInv /\ TaskInv

-----------------------------------------------------------------------------
(* Types *)

LEMMA RowUpdate ==
    ASSUME TypeOK, NEW r \in Runs, NEW row \in Row, Update(r, row)
    PROVE  run' \in [Runs -> Row]
  BY DEF TypeOK, Update

LEMMA OwnersMade ==
    /\ \A i \in Instances : Supervisor(i) \in Owners
    /\ \A i \in Instances, k \in ClaimIds : <<i, k>> \in Owners
    /\ NoOwner \in Owners
  BY DEF Owners, Supervisor

LEMMA BlankRow == NoRow \in Row
  BY OwnersMade DEF NoRow, Row

LEMMA ClaimedRowType ==
    ASSUME NEW i \in Instances, NEW o \in Runs \cup {NoRun},
           NEW c \in Commands \cup {NoCommand}, NEW b \in BOOLEAN
    PROVE  ClaimedRow(i, o, c, b) \in Row
  BY OwnersMade DEF ClaimedRow, NoRow, Row, ActiveStatus

LEMMA ClosedRowType ==
    ASSUME TypeOK, NEW r \in Runs, NEW st \in TerminalStatus
    PROVE  ClosedRow(r, st) \in Row
  <1>1. run[r] \in Row
    BY DEF TypeOK
  <1>2. [run[r] EXCEPT !.status = st] \in Row
    BY <1>1 DEF Row
  <1>. QED  BY <1>2 DEF ClosedRow

LEMMA FailedRowType ==
    ASSUME TypeOK, NEW r \in Runs, NEW c \in {"not", "may"}
    PROVE  FailedRow(r, c) \in Row
  <1>1. run[r] \in Row
    BY DEF TypeOK
  <1>2. \A m \in {"none", "maybe"} :
          [run[r] EXCEPT !.status = "failed", !.certainty = c,
                         !.mutation = m] \in Row
    BY <1>1 DEF Row, TerminalStatus
  <1>3. run[r].mutation \in {"none", "maybe"}
    BY <1>1 DEF Row
  <1>. QED  BY <1>2, <1>3 DEF FailedRow

LEMMA PromotedRow ==
    ASSUME TypeOK, NEW i \in Instances, NEW r \in Runs
    PROVE  /\ Promoted(i, r) \in Row
           /\ Promoted(i, r).command = run[r].command
           /\ Promoted(i, r).origin = run[r].origin
           /\ Promoted(i, r).certainty = "may"
           /\ Promoted(i, r).status = run[r].status
           /\ Promoted(i, r).session = run[r].session
  <1>1. run[r] \in Row
    BY DEF TypeOK
  <1>. QED  BY <1>1, OwnersMade DEF Promoted, Row

LEMMA AttemptEnds ==
    ASSUME TypeOK, NEW i \in Instances, NEW r \in Runs, EndAttempt(i, r)
    PROVE  /\ att' \in [Instances -> [Runs -> AttemptPc]]
           /\ stop' \in [Instances -> SUBSET Runs]
           /\ \A j \in Instances : \A s \in stop'[j] : att'[j][s] # "none"
  BY DEF TypeOK, EndAttempt, Goto, AttemptPc

LEMMA AttemptMoves ==
    ASSUME TypeOK, NEW i \in Instances, NEW r \in Runs,
           NEW pc \in AttemptPc \ {"none"}, Goto(i, r, pc), UNCHANGED stop
    PROVE  /\ att' \in [Instances -> [Runs -> AttemptPc]]
           /\ stop' \in [Instances -> SUBSET Runs]
           /\ \A j \in Instances : \A s \in stop'[j] : att'[j][s] # "none"
  BY DEF TypeOK, Goto

LEMMA PassType ==
    /\ NoPlan \in [Runs -> Plans]
    /\ IdlePass \in Pass
    /\ \A ph \in {"idle", "ambiguous", "queued"}, p \in [Runs -> Plans] :
          [IdlePass EXCEPT !.phase = ph, !.plan = p] \in Pass
  <1>1. NoPlan \in [Runs -> Plans]
    BY DEF NoPlan, Plans
  <1>2. "none" \in Plans
    BY DEF Plans
  <1>. QED  BY <1>1, <1>2 DEF IdlePass, Pass

LEMMA SetPassType ==
    ASSUME TypeOK, NEW i \in Instances, NEW p \in Pass, SetPass(i, p)
    PROVE  rec' \in [Instances -> Pass]
  BY DEF TypeOK, SetPass

LEMMA LetGoType ==
    ASSUME TypeOK, NEW i \in Instances, LetGo(i)
    PROVE  rec' \in [Instances -> Pass]
  <1>1. rec[i] \in Pass
    BY DEF TypeOK
  <1>2. [rec[i] EXCEPT !.held = NoRun, !.held_plan = "none", !.claim = 0]
            \in Pass
    BY <1>1 DEF Pass, Plans
  <1>. QED  BY <1>2, SetPassType DEF LetGo

LEMMA AbandonPassType ==
    ASSUME TypeOK, NEW i \in Instances, AbandonPass(i), UNCHANGED att
    PROVE  /\ rec' \in [Instances -> Pass]
           /\ proc' \in [Instances ->
                 {"new", "starting", "open", "closing", "down"}]
           /\ stop' \in [Instances -> SUBSET Runs]
           /\ \A j \in Instances : \A s \in stop'[j] : att'[j][s] # "none"
  <1>1. rec' \in [Instances -> Pass]
    BY PassType, SetPassType DEF AbandonPass
  <1>2. proc' \in [Instances ->
                     {"new", "starting", "open", "closing", "down"}]
    BY DEF TypeOK, AbandonPass
  <1>3. /\ stop' \in [Instances -> SUBSET Runs]
        /\ \A j \in Instances : \A s \in stop'[j] : att'[j][s] # "none"
    BY DEF TypeOK, AbandonPass
  <1>. QED  BY <1>1, <1>2, <1>3

LEMMA CloseOwnedType ==
    ASSUME TypeOK, NEW i \in Instances, NEW r \in Runs,
           NEW st \in TerminalStatus, CloseOwned(i, r, st)
    PROVE  /\ run' \in [Runs -> Row]
           /\ att' \in [Instances -> [Runs -> AttemptPc]]
           /\ stop' \in [Instances -> SUBSET Runs]
           /\ \A j \in Instances : \A s \in stop'[j] : att'[j][s] # "none"
  <1>1. CASE Owns(i, r) /\ Active(r)
    BY <1>1, ClosedRowType, RowUpdate, AttemptEnds DEF CloseOwned
  <1>2. CASE ~(Owns(i, r) /\ Active(r))
    BY <1>2, AttemptMoves DEF CloseOwned, TypeOK, AttemptPc
  <1>. QED  BY <1>1, <1>2

LEMMA InitType == Init => TypeOK
  <1>. SUFFICES ASSUME Init PROVE TypeOK
    OBVIOUS
  <1>1. run \in [Runs -> Row]
    <2>0. PICK legacy \in SUBSET LegacyRuns :
            \E shape \in [legacy -> LegacyShape], sent \in [legacy -> Commands] :
              run = [r \in Runs |-> IF r \in legacy
                                    THEN [shape[r] EXCEPT !.command = sent[r]]
                                    ELSE NoRow]
      BY DEF Init
    <2>1. PICK shape \in [legacy -> LegacyShape], sent \in [legacy -> Commands] :
            run = [r \in Runs |-> IF r \in legacy
                                  THEN [shape[r] EXCEPT !.command = sent[r]]
                                  ELSE NoRow]
      BY <2>0
    <2>2. \A row \in LegacyShape : row \in Row
      BY OwnersMade DEF LegacyShape, LegacyRows, Row, ActiveStatus
    <2>3. ASSUME NEW r \in legacy
          PROVE  [shape[r] EXCEPT !.command = sent[r]] \in Row
      <3>1. shape[r] \in Row /\ sent[r] \in Commands
        BY <2>2
      <3>. QED  BY <3>1 DEF Row
    <2>. QED  BY <2>1, <2>3, BlankRow
  <1>2. rec \in [Instances -> Pass]
    BY PassType DEF Init
  <1>. QED  BY <1>1, <1>2, DispatchConstants DEF Init, TypeOK, AttemptPc

LEMMA ProcessTypes ==
    ASSUME TypeOK, NEW i \in Instances,
           Boot(i) \/ Crash(i) \/ BeginShutdown(i) \/ Exit(i)
    PROVE  TypeOK'
  <1>1. CASE Boot(i)
    BY <1>1 DEF TypeOK, Boot
  <1>2. CASE Crash(i)
    <2>1. "none" \in AttemptPc
      BY DEF AttemptPc
    <2>. QED  BY <1>2, <2>1, PassType DEF TypeOK, Crash
  <1>3. CASE BeginShutdown(i)
    BY <1>3 DEF TypeOK, BeginShutdown
  <1>4. CASE Exit(i)
    BY <1>4, PassType DEF TypeOK, Exit
  <1>. QED  BY <1>1, <1>2, <1>3, <1>4

LEMMA LapseType ==
    ASSUME TypeOK, NEW r \in Runs, Lapse(r)
    PROVE  TypeOK'
  <1>. run[r] \in Row
    BY DEF TypeOK
  <1>1. [run[r] EXCEPT !.stale = TRUE] \in Row
    BY DEF Row
  <1>2. run' \in [Runs -> Row]
    BY <1>1, RowUpdate DEF Lapse
  <1>3. mishaps' \in 0..MaxMishaps
    BY DispatchConstants DEF Lapse, TypeOK
  <1>. QED  BY <1>2, <1>3 DEF Lapse, TypeOK

LEMMA RequestTypes ==
    ASSUME TypeOK, NEW i \in Instances, NEW r \in Runs,
           \/ \E c \in Commands : Submit(i, r, c)
           \/ RequestStop(i, r) \/ RenewalFails(i, r)
    PROVE  TypeOK'
  <1>1. ASSUME NEW c \in Commands, Submit(i, r, c)
        PROVE  TypeOK'
    <2>1. run' \in [Runs -> Row]
      BY <1>1, ClaimedRowType, RowUpdate DEF Submit
    <2>2. "queued" \in AttemptPc \ {"none"}
      BY DEF AttemptPc, BeforeTurn
    <2>. QED  BY <1>1, <2>1, <2>2, AttemptMoves DEF Submit, TypeOK
  <1>2. CASE RequestStop(i, r)
    BY <1>2 DEF TypeOK, RequestStop
  <1>3. CASE RenewalFails(i, r)
    BY <1>3 DEF TypeOK, RenewalFails
  <1>. QED  BY <1>1, <1>2, <1>3

LEMMA CallTypes ==
    ASSUME TypeOK, NEW i \in Instances, NEW r \in Runs,
           \/ Begin(i, r) \/ FenceSession(i, r) \/ CallSession(i, r)
           \/ BindSession(i, r) \/ FenceTurn(i, r) \/ CallTurn(i, r)
           \/ TurnAccepted(i, r)
    PROVE  TypeOK'
  <1>1. \A pc \in {"starting", "sessionFenced", "sessionCall", "bound",
                   "turnFenced", "turnCall", "turnReached", "live",
                   "reconcile"} : pc \in AttemptPc \ {"none"}
    BY DEF AttemptPc, BeforeTurn
  <1>2. CASE Begin(i, r)
    BY <1>1, <1>2, AttemptMoves DEF TypeOK, Begin
  <1>3. CASE FenceSession(i, r)
    BY <1>1, <1>3, AttemptMoves DEF TypeOK, FenceSession, Fence
  <1>4. CASE CallSession(i, r)
    BY <1>1, <1>4, AttemptMoves DEF TypeOK, CallSession
  <1>5. CASE BindSession(i, r)
    <2>. run[r] \in Row
      BY DEF TypeOK
    <2>1. [run[r] EXCEPT !.session = TRUE] \in Row
      BY DEF Row
    <2>2. run' \in [Runs -> Row]
      BY <1>5, <2>1, RowUpdate DEF BindSession, TypeOK
    <2>. QED  BY <1>1, <1>5, <2>2, AttemptMoves DEF TypeOK, BindSession
  <1>6. CASE FenceTurn(i, r)
    BY <1>1, <1>6, AttemptMoves DEF TypeOK, FenceTurn, Fence
  <1>7. CASE CallTurn(i, r)
    <2>1. effects' \in [Runs -> Nat]
      BY <1>7 DEF CallTurn, TypeOK
    <2>. QED  BY <1>1, <1>7, <2>1, AttemptMoves DEF TypeOK, CallTurn
  <1>8. CASE TurnAccepted(i, r)
    BY <1>1, <1>8, AttemptMoves DEF TypeOK, TurnAccepted
  <1>. QED  BY <1>2, <1>3, <1>4, <1>5, <1>6, <1>7, <1>8

LEMMA EndTypes ==
    ASSUME TypeOK, NEW i \in Instances, NEW r \in Runs,
           \/ InterruptQueued(i, r) \/ CancelCall(i, r) \/ Finalize(i, r)
           \/ \E certainty \in {"not", "may"} : CallFails(i, r, certainty)
           \/ Reconcile(i, r) \/ ReconcileFails(i, r) \/ TaskFails(i, r)
    PROVE  TypeOK'
  <1>1. "interrupted" \in TerminalStatus /\ "completed" \in TerminalStatus
    BY DEF TerminalStatus
  <1>2. "reconcile" \in AttemptPc \ {"none"}
    BY DEF AttemptPc
  <1>3. CASE InterruptQueued(i, r)
    <2>1. CASE CloseOwned(i, r, "interrupted")
      BY <1>1, <1>3, <2>1, CloseOwnedType DEF InterruptQueued, TypeOK
    <2>2. CASE EndAttempt(i, r) /\ UNCHANGED run
      BY <1>3, <2>2, AttemptEnds DEF InterruptQueued, TypeOK
    <2>. QED  BY <1>3, <2>1, <2>2 DEF InterruptQueued
  <1>4. CASE CancelCall(i, r)
    BY <1>1, <1>4, CloseOwnedType DEF CancelCall, TypeOK
  <1>5. CASE Finalize(i, r)
    <2>1. CASE CloseOwned(i, r, "completed") \/ CloseOwned(i, r, "interrupted")
      BY <1>1, <1>5, <2>1, CloseOwnedType DEF Finalize, TypeOK
    <2>2. CASE Update(r, FailedRow(r, "may")) /\ EndAttempt(i, r)
      BY <1>5, <2>2, FailedRowType, RowUpdate, AttemptEnds
         DEF Finalize, TypeOK
    <2>. QED  BY <1>5, <2>1, <2>2 DEF Finalize
  <1>6. ASSUME NEW c \in {"not", "may"}, CallFails(i, r, c)
        PROVE  TypeOK'
    <2>1. CASE Owns(i, r) /\ Active(r)
      BY <1>6, <2>1, FailedRowType, RowUpdate, AttemptEnds
         DEF CallFails, TypeOK
    <2>2. CASE ~(Owns(i, r) /\ Active(r))
      BY <1>2, <1>6, <2>2, AttemptMoves DEF CallFails, TypeOK
    <2>. QED  BY <2>1, <2>2
  <1>7. CASE Reconcile(i, r)
    <2>1. run' \in [Runs -> Row]
      BY <1>7, FailedRowType, RowUpdate DEF Reconcile, TypeOK
    <2>. QED  BY <1>7, <2>1, AttemptEnds DEF Reconcile, TypeOK
  <1>8. mishaps < MaxMishaps => mishaps + 1 \in 0..MaxMishaps
    BY DispatchConstants DEF TypeOK
  <1>9. CASE ReconcileFails(i, r)
    BY <1>8, <1>9, AttemptEnds DEF ReconcileFails, TypeOK
  <1>10. CASE TaskFails(i, r)
    BY <1>2, <1>8, <1>10, AttemptMoves DEF TaskFails, TypeOK
  <1>. QED  BY <1>3, <1>4, <1>5, <1>6, <1>7, <1>9, <1>10

LEMMA LiveTypes ==
    ASSUME TypeOK, NEW i \in Instances, NEW r \in Runs,
           \/ RecordEvent(i, r)
           \/ \E f \in Runs : FallBack(i, r, f) \/ StartFallback(i, r, f)
    PROVE  TypeOK'
  <1>1. run[r] \in Row
    BY DEF TypeOK
  <1>2. CASE RecordEvent(i, r)
    <2>1. /\ \A st \in {"running", "waiting"} :
                [run[r] EXCEPT !.status = st] \in Row
          /\ [run[r] EXCEPT !.mutation = "maybe"] \in Row
      BY <1>1 DEF Row, ActiveStatus
    <2>2. run' \in [Runs -> Row]
      BY <1>2, <2>1, RowUpdate DEF RecordEvent
    <2>. QED  BY <1>2, <2>2 DEF RecordEvent, TypeOK
  <1>3. ASSUME NEW f \in Runs, FallBack(i, r, f)
        PROVE  TypeOK'
    <2>1. FailedRow(r, "not") \in Row
      BY FailedRowType
    <2>2. ClaimedRow(i, r, run[r].command, FALSE) \in Row
      BY <1>1, ClaimedRowType DEF Row
    <2>3. run' \in [Runs -> Row]
      BY <1>3, <2>1, <2>2 DEF FallBack, TypeOK
    <2>4. {"handover", "reconcile"} \subseteq AttemptPc \ {"none"}
      BY DEF AttemptPc
    <2>. QED  BY <1>3, <2>3, <2>4, AttemptMoves DEF FallBack, TypeOK
  <1>4. ASSUME NEW f \in Runs, StartFallback(i, r, f)
        PROVE  TypeOK'
    <2>1. "none" \in AttemptPc /\ "queued" \in AttemptPc
      BY DEF AttemptPc, BeforeTurn
    <2>2. att' \in [Instances -> [Runs -> AttemptPc]]
      BY <1>4, <2>1 DEF StartFallback, TypeOK
    <2>3. stop' \in [Instances -> SUBSET Runs]
      BY <1>4 DEF StartFallback, TypeOK
    <2>4. \A j \in Instances : \A s \in stop'[j] : att'[j][s] # "none"
      BY <1>4 DEF StartFallback, TypeOK
    <2>. QED  BY <1>4, <2>2, <2>3, <2>4 DEF StartFallback, TypeOK
  <1>. QED  BY <1>2, <1>3, <1>4

LEMMA PassTypes ==
    ASSUME TypeOK, NEW i \in Instances,
           StartPass(i) \/ ListQueued(i) \/ EndPass(i) \/ PassFails(i)
    PROVE  TypeOK'
  <1>1. CASE StartPass(i)
    <2>. DEFINE p == [r \in Runs |->
              IF run[r].status \in {"running", "waiting"} THEN "interrupt"
                                                          ELSE "none"]
    <2>1. p \in [Runs -> Plans]
      BY DEF Plans
    <2>2. rec' \in [Instances -> Pass]
      BY <1>1, <2>1, PassType, SetPassType DEF StartPass
    <2>. QED  BY <1>1, <2>2 DEF StartPass, TypeOK
  <1>2. CASE ListQueued(i)
    <2>. DEFINE p == [r \in Runs |->
              IF run[r].status # "queued" THEN "none"
              ELSE IF SafeToReenter(run[r]) THEN "reenter" ELSE "interrupt"]
    <2>1. p \in [Runs -> Plans]
      BY DEF Plans
    <2>2. rec' \in [Instances -> Pass]
      BY <1>2, <2>1, PassType, SetPassType DEF ListQueued
    <2>. QED  BY <1>2, <2>2 DEF ListQueued, TypeOK
  <1>3. CASE EndPass(i)
    <2>1. rec' \in [Instances -> Pass]
      BY <1>3, PassType, SetPassType DEF EndPass
    <2>. QED  BY <1>3, <2>1 DEF EndPass, TypeOK
  <1>4. CASE PassFails(i)
    <2>1. mishaps' \in 0..MaxMishaps
      BY <1>4, DispatchConstants DEF PassFails, TypeOK
    <2>. QED  BY <1>4, <2>1, AbandonPassType DEF PassFails, TypeOK
  <1>. QED  BY <1>1, <1>2, <1>3, <1>4

LEMMA RecoveryTypes ==
    ASSUME TypeOK, NEW i \in Instances, NEW r \in Runs,
           \/ ClaimForRecovery(i, r) \/ InterruptOwnedRecovery(i, r)
           \/ RecoverPersisted(i, r) \/ RecoveryQueueFull(i, r)
           \/ PromotionLost(i, r)
    PROVE  TypeOK'
  <1>1. rec[i] \in Pass /\ run[r] \in Row
    BY DEF TypeOK
  <1>2. CASE ClaimForRecovery(i, r)
    <2>1. "none" \in Plans
      BY DEF Plans
    <2>2. [rec[i] EXCEPT !.plan[r] = "none"] \in Pass
      BY <1>1, <2>1 DEF Pass
    <2>3. ASSUME NEW k \in ClaimIds
          PROVE  /\ [run[r] EXCEPT !.owner = <<i, k>>, !.stale = FALSE]
                        \in Row
                 /\ [rec[i] EXCEPT !.plan[r] = "none", !.held = r,
                                   !.held_plan = rec[i].plan[r],
                                   !.claim = k] \in Pass
      <3>1. [run[r] EXCEPT !.owner = <<i, k>>, !.stale = FALSE] \in Row
        BY <1>1, OwnersMade DEF Row
      <3>2. [rec[i] EXCEPT !.plan[r] = "none", !.held = r,
                           !.held_plan = rec[i].plan[r],
                           !.claim = k] \in Pass
        BY <1>1, <2>1 DEF Pass
      <3>. QED  BY <3>1, <3>2
    <2>4. run' \in [Runs -> Row]
      BY <1>2, <2>3, RowUpdate DEF ClaimForRecovery, TypeOK
    <2>5. rec' \in [Instances -> Pass]
      BY <1>2, <2>2, <2>3, SetPassType DEF ClaimForRecovery
    <2>. QED  BY <1>2, <2>4, <2>5 DEF ClaimForRecovery, TypeOK
  <1>3. CASE InterruptOwnedRecovery(i, r)
    <2>1. CASE LetGo(i) /\ UNCHANGED <<run, proc, stop>>
      BY <1>3, <2>1, LetGoType DEF InterruptOwnedRecovery, TypeOK
    <2>2. CASE /\ Update(r, ClosedRow(r, "interrupted"))
               /\ LetGo(i) /\ UNCHANGED <<proc, stop>>
      <3>1. run' \in [Runs -> Row]
        BY <2>2, ClosedRowType, RowUpdate DEF TerminalStatus
      <3>. QED  BY <1>3, <2>2, <3>1, LetGoType
                DEF InterruptOwnedRecovery, TypeOK
    <2>3. CASE AbandonPass(i) /\ UNCHANGED run
      BY <1>3, <2>3, AbandonPassType DEF InterruptOwnedRecovery, TypeOK
    <2>. QED  BY <1>3, <2>1, <2>2, <2>3 DEF InterruptOwnedRecovery
  <1>4. CASE RecoverPersisted(i, r)
    <2>1. run' \in [Runs -> Row]
      BY <1>4, PromotedRow, RowUpdate DEF RecoverPersisted, TypeOK
    <2>2. rec' \in [Instances -> Pass]
      BY <1>4, LetGoType DEF RecoverPersisted
    <2>3. "queued" \in AttemptPc \ {"none"}
      BY DEF AttemptPc, BeforeTurn
    <2>. QED  BY <1>4, <2>1, <2>2, <2>3, AttemptMoves
              DEF RecoverPersisted, TypeOK
  <1>5. CASE RecoveryQueueFull(i, r)
    <2>1. [rec[i] EXCEPT !.held_plan = "interrupt"] \in Pass
      BY <1>1 DEF Pass, Plans
    <2>2. rec' \in [Instances -> Pass]
      BY <1>5, <2>1, SetPassType DEF RecoveryQueueFull
    <2>. QED  BY <1>5, <2>2 DEF RecoveryQueueFull, TypeOK
  <1>6. CASE PromotionLost(i, r)
    <2>1. run' \in [Runs -> Row]
      BY <1>6, PromotedRow, RowUpdate DEF PromotionLost
    <2>2. mishaps' \in 0..MaxMishaps
      BY <1>6, DispatchConstants DEF PromotionLost, TypeOK
    <2>. QED  BY <1>6, <2>1, <2>2, AbandonPassType DEF PromotionLost, TypeOK
  <1>. QED  BY <1>2, <1>3, <1>4, <1>5, <1>6

LEMMA TypeStep == TypeOK /\ [Next]_vars => TypeOK'
  <1>. SUFFICES ASSUME TypeOK, [Next]_vars PROVE TypeOK'
    OBVIOUS
  <1>1. CASE UNCHANGED vars
    BY <1>1 DEF vars, TypeOK
  <1>2. ASSUME NEW r \in Runs, Lapse(r) PROVE TypeOK'
    BY <1>2, LapseType
  <1>3. ASSUME NEW i \in Instances,
               \/ Boot(i) \/ Crash(i) \/ BeginShutdown(i) \/ Exit(i)
               \/ PassStep(i) \/ PassFails(i)
        PROVE  TypeOK'
    BY <1>3, ProcessTypes, PassTypes, RecoveryTypes DEF PassStep
  <1>4. ASSUME NEW i \in Instances, NEW r \in Runs,
               \/ \E c \in Commands : Submit(i, r, c)
               \/ RequestStop(i, r) \/ RenewalFails(i, r)
        PROVE  TypeOK'
    BY <1>4, RequestTypes
  <1>5. ASSUME NEW i \in Instances, NEW r \in Runs,
               AttemptStep(i, r) \/ PromotionLost(i, r)
        PROVE  TypeOK'
    BY <1>5, CallTypes, EndTypes, LiveTypes, RecoveryTypes DEF AttemptStep
  <1>. QED  BY <1>1, <1>2, <1>3, <1>4, <1>5 DEF Next

(* Every reachable state is well typed: rows, tasks and recovery passes    *)
(* stay in their ranges, and a cancellation flag exists only for a run     *)
(* some root task works on.                                                *)
THEOREM TypeCorrect == Spec => []TypeOK
  BY InitType, TypeStep, PTL DEF Spec
-----------------------------------------------------------------------------
(* The inductive invariant *)

(* Rows keep their message and their place in the fallback relation, and   *)
(* their evidence only ever grows to "may".                                *)
RowsGrow ==
    \A s \in Runs :
        /\ run'[s].command = run[s].command /\ run'[s].origin = run[s].origin
        /\ \/ run'[s].certainty = run[s].certainty
           \/ run'[s].certainty = "may" /\ run[s].certainty # "not"
        /\ run'[s].status = "absent" <=> run[s].status = "absent"

(* Tasks stay where they are, end, or go on without reaching the provider  *)
(* and without a handover.                                                 *)
TasksMove ==
    \A j \in Instances, s \in Runs :
        \/ att'[j][s] = att[j][s]
        \/ att'[j][s] = "none"
        \/ /\ att[j][s] \notin {"none", "handover"}
           /\ att'[j][s] # "handover"
           /\ att'[j][s] \in BeforeTurn => att[j][s] \in BeforeTurn

LEMMA RowsKept ==
    ASSUME RowInv, UNCHANGED <<run, effects>>
    PROVE  RowInv' /\ RowsGrow
  BY DEF RowInv, AbsentIsBlank, NotMeansFailed, ReentryIsFirst,
         FallbackOfUndispatched, OneFallback, OnePrimary, PresentHasCommand,
         OneActiveRunPerConversation, Active, RowsGrow

(* One active row changes, towards a status that is not "absent" *)
LEMMA RowEvolves ==
    ASSUME TypeOK, RowInv, UNCHANGED effects,
           NEW r \in Runs, NEW row \in Row, Update(r, row), Active(r),
           row.command = run[r].command, row.origin = run[r].origin,
           row.certainty \in {run[r].certainty, "may"},
           row.status # "absent",
           row.status = "queued" /\ ~row.session =>
                run[r].status = "queued" /\ ~run[r].session
    PROVE  RowInv' /\ RowsGrow
  <1>1. /\ run'[r] = row
        /\ \A s \in Runs : s # r => run'[s] = run[s]
    BY DEF TypeOK, Update
  <1>2. run[r].certainty # "not" /\ run[r].status # "absent"
    BY DEF RowInv, NotMeansFailed, Active, ActiveStatus
  <1>3. RowsGrow
    BY <1>1, <1>2 DEF RowsGrow
  <1>4. AbsentIsBlank'
    BY <1>1 DEF RowInv, AbsentIsBlank
  <1>5. NotMeansFailed'
    BY <1>1, <1>2 DEF RowInv, NotMeansFailed
  <1>6. ReentryIsFirst'
    BY <1>1 DEF RowInv, ReentryIsFirst
  <1>7. FallbackOfUndispatched'
    <2>1. \A f \in Runs : run[f].origin \in Runs \cup {NoRun}
      BY DEF TypeOK, Row
    <2>2. \A f \in Runs : run[f].origin # NoRun =>
              /\ run[f].origin \in Runs /\ run[f].origin # r
              /\ run[run[f].origin].certainty = "not"
              /\ run[run[f].origin].origin = NoRun
              /\ run[run[f].origin].command = run[f].command
      BY <1>2, <2>1 DEF RowInv, FallbackOfUndispatched
    <2>. QED  BY <1>1, <2>2 DEF FallbackOfUndispatched
  <1>8. OneFallback' /\ OnePrimary' /\ PresentHasCommand'
    BY <1>1, <1>2 DEF RowInv, OneFallback, OnePrimary, PresentHasCommand
  <1>9. OneActiveRunPerConversation'
    BY <1>1 DEF RowInv, OneActiveRunPerConversation, Active
  <1>. QED  BY <1>3, <1>4, <1>5, <1>6, <1>7, <1>8, <1>9 DEF RowInv

LEMMA TasksKept ==
    ASSUME TaskInv, UNCHANGED effects, RowsGrow, TasksMove
    PROVE  TaskInv'
  <1>1. TaskIsClaimed'
    BY DEF TaskInv, TaskIsClaimed, RowsGrow, TasksMove
  <1>2. OneExecutor'
    BY DEF TaskInv, OneExecutor, TasksMove
  <1>3. TurnsAreCounted'
    BY DEF TaskInv, TurnsAreCounted, TasksMove, BeforeTurn
  <1>4. HandoverIsFresh'
    BY DEF TaskInv, HandoverIsFresh, RowsGrow, TasksMove
  <1>. QED  BY <1>1, <1>2, <1>3, <1>4 DEF TaskInv

(* The two moves of a single task *)
LEMMA TaskEnds ==
    ASSUME TypeOK, NEW i \in Instances, NEW r \in Runs, EndAttempt(i, r)
    PROVE  TasksMove
  BY DEF TypeOK, EndAttempt, Goto, TasksMove

LEMMA TaskAdvances ==
    ASSUME TypeOK, NEW i \in Instances, NEW r \in Runs,
           NEW pc \in AttemptPc \ {"handover"}, Goto(i, r, pc),
           att[i][r] \notin {"none", "handover"},
           pc \in BeforeTurn => att[i][r] \in BeforeTurn
    PROVE  TasksMove
  BY DEF TypeOK, Goto, TasksMove

LEMMA TasksStay == ASSUME UNCHANGED att PROVE TasksMove
  BY DEF TasksMove

(* The writes that close a row *)
LEMMA RowCloses ==
    ASSUME TypeOK, RowInv, UNCHANGED effects, NEW r \in Runs, Active(r),
           \/ \E st \in TerminalStatus : Update(r, ClosedRow(r, st))
           \/ Update(r, FailedRow(r, "may"))
    PROVE  RowInv' /\ RowsGrow
  <1>1. run[r] \in Row
    BY DEF TypeOK
  <1>2. ASSUME NEW st \in TerminalStatus, Update(r, ClosedRow(r, st))
        PROVE  RowInv' /\ RowsGrow
    <2>1. ClosedRow(r, st) \in Row
      BY ClosedRowType
    <2>2. /\ ClosedRow(r, st).status = st
          /\ ClosedRow(r, st).command = run[r].command
          /\ ClosedRow(r, st).origin = run[r].origin
          /\ ClosedRow(r, st).certainty = run[r].certainty
      BY <1>1 DEF ClosedRow, Row
    <2>3. st \notin {"absent", "queued"}
      BY DEF TerminalStatus
    <2>. QED  BY <1>2, <2>1, <2>2, <2>3, RowEvolves
  <1>3. CASE Update(r, FailedRow(r, "may"))
    <2>1. FailedRow(r, "may") \in Row
      BY FailedRowType
    <2>2. /\ FailedRow(r, "may").status = "failed"
          /\ FailedRow(r, "may").command = run[r].command
          /\ FailedRow(r, "may").origin = run[r].origin
          /\ FailedRow(r, "may").certainty = "may"
      BY <1>1 DEF FailedRow, Row
    <2>. QED  BY <1>3, <2>1, <2>2, RowEvolves
  <1>. QED  BY <1>2, <1>3

LEMMA CloseOwnedKeeps ==
    ASSUME TypeOK, RowInv, TaskInv, UNCHANGED effects,
           NEW i \in Instances, NEW r \in Runs, NEW st \in TerminalStatus,
           CloseOwned(i, r, st), att[i][r] \notin {"none", "handover"}
    PROVE  RowInv' /\ TaskInv'
  <1>1. CASE Owns(i, r) /\ Active(r)
    BY <1>1, RowCloses, TaskEnds, TasksKept DEF CloseOwned
  <1>2. CASE ~(Owns(i, r) /\ Active(r))
    <2>1. "reconcile" \in AttemptPc \ {"handover"}
          /\ "reconcile" \notin BeforeTurn
      BY DEF AttemptPc, BeforeTurn
    <2>2. TasksMove
      BY <1>2, <2>1, TaskAdvances DEF CloseOwned
    <2>. QED  BY <1>2, <2>2, RowsKept, TasksKept DEF CloseOwned
  <1>. QED  BY <1>1, <1>2

LEMMA QuietKeeps ==
    ASSUME TypeOK, RowInv, TaskInv, UNCHANGED <<run, effects>>, TasksMove
    PROVE  RowInv' /\ TaskInv'
  BY RowsKept, TasksKept

LEMMA ProcessKeeps ==
    ASSUME TypeOK, RowInv, TaskInv, NEW i \in Instances,
           \/ Boot(i) \/ Crash(i) \/ BeginShutdown(i) \/ Exit(i)
           \/ StartPass(i) \/ ListQueued(i) \/ EndPass(i) \/ PassFails(i)
    PROVE  RowInv' /\ TaskInv'
  <1>1. TasksMove
    <2>1. CASE Crash(i)
      BY <2>1 DEF Crash, TasksMove, TypeOK
    <2>2. CASE UNCHANGED att
      BY <2>2 DEF TasksMove
    <2>3. Crash(i) \/ UNCHANGED att
      BY DEF Boot, BeginShutdown, Exit, StartPass, ListQueued, EndPass,
             PassFails
    <2>. QED  BY <2>1, <2>2, <2>3
  <1>2. UNCHANGED <<run, effects>>
    BY DEF Boot, Crash, BeginShutdown, Exit, StartPass, ListQueued, EndPass,
           PassFails
  <1>. QED  BY <1>1, <1>2, QuietKeeps

LEMMA LapseKeeps ==
    ASSUME TypeOK, RowInv, TaskInv, NEW r \in Runs, Lapse(r)
    PROVE  RowInv' /\ TaskInv'
  <1>. DEFINE row == [run[r] EXCEPT !.stale = TRUE]
  <1>. run[r] \in Row
    BY DEF TypeOK
  <1>1. /\ row \in Row /\ row.command = run[r].command
        /\ row.origin = run[r].origin /\ row.certainty = run[r].certainty
        /\ row.status = run[r].status /\ row.session = run[r].session
    BY DEF Row
  <1>2. Update(r, row) /\ Active(r) /\ UNCHANGED <<att, effects>>
    BY DEF Lapse
  <1>3. row.status # "absent"
    BY <1>1, <1>2 DEF Active, ActiveStatus
  <1>4. RowInv' /\ RowsGrow
    BY <1>1, <1>2, <1>3, RowEvolves
  <1>. QED  BY <1>2, <1>4, TasksStay, TasksKept

(* A new row is claimed for the task that is about to run it *)
LEMMA SubmitKeeps ==
    ASSUME TypeOK, RowInv, TaskInv, NEW i \in Instances, NEW r \in Runs,
           NEW c \in Commands, Submit(i, r, c)
    PROVE  RowInv' /\ TaskInv'
  <1>1. PICK b \in BOOLEAN : Update(r, ClaimedRow(i, NoRun, c, b))
    BY DEF Submit
  <1>2. /\ run[r].status = "absent" /\ run[r].certainty = "null"
        /\ effects[r] = 0 /\ UNCHANGED effects
        /\ \A j \in Instances : att[j][r] = "none"
    BY DEF Submit, RowInv, AbsentIsBlank, TaskInv, TaskIsClaimed
  <1>3. /\ run'[r].status = "queued" /\ run'[r].certainty = "may"
        /\ run'[r].origin = NoRun /\ run'[r].command = c
        /\ \A s \in Runs : s # r => run'[s] = run[s]
    BY <1>1 DEF TypeOK, Update, ClaimedRow, NoRow
  <1>4. /\ att'[i][r] = "queued"
        /\ \A j \in Instances, s \in Runs :
              j # i \/ s # r => att'[j][s] = att[j][s]
    BY DEF Submit, Goto, TypeOK
  <1>5. \A f \in Runs : run[f].origin # r
    <2>1. r # NoRun
      BY DispatchConstants
    <2>. QED  BY <1>2, <2>1 DEF RowInv, FallbackOfUndispatched
  <1>6. \A f \in Runs : run[f].origin \in Runs \cup {NoRun}
    BY DEF TypeOK, Row
  <1>7. AbsentIsBlank' /\ NotMeansFailed' /\ ReentryIsFirst'
    BY <1>2, <1>3 DEF RowInv, AbsentIsBlank, NotMeansFailed, ReentryIsFirst
  <1>8. FallbackOfUndispatched'
    BY <1>3, <1>5, <1>6 DEF RowInv, FallbackOfUndispatched
  <1>9. OneFallback'
    BY <1>3 DEF RowInv, OneFallback
  <1>10. OnePrimary' /\ PresentHasCommand'
    BY <1>3 DEF RowInv, OnePrimary, PresentHasCommand, Submit, CommandStored
  <1>11. OneActiveRunPerConversation'
    BY <1>3 DEF RowInv, OneActiveRunPerConversation, Submit,
                ConversationBusy, Active
  <1>12. TaskIsClaimed' /\ OneExecutor'
    BY <1>2, <1>3, <1>4 DEF TaskInv, TaskIsClaimed, OneExecutor
  <1>13. TurnsAreCounted'
    BY <1>2, <1>4 DEF TaskInv, TurnsAreCounted
  <1>14. HandoverIsFresh'
    <2>1. \A j \in Instances, s \in Runs :
              att'[j][s] = "handover" => att[j][s] = "handover" /\ s # r
      BY <1>2, <1>4
    <2>2. \A s, f \in Runs : run'[f].origin = s => f # r /\ run[f].origin = s
      BY <1>3, DispatchConstants
    <2>3. \A f \in Runs : f # r =>
              /\ run'[f] = run[f] /\ effects'[f] = effects[f]
              /\ \A j \in Instances : att'[j][f] = att[j][f]
      BY <1>2, <1>3, <1>4
    <2>. QED  BY <2>1, <2>2, <2>3 DEF TaskInv, HandoverIsFresh
  <1>. QED  BY <1>7, <1>8, <1>9, <1>10, <1>11, <1>12, <1>13, <1>14
            DEF RowInv, TaskInv

LEMMA RequestKeeps ==
    ASSUME TypeOK, RowInv, TaskInv, NEW i \in Instances, NEW r \in Runs,
           RequestStop(i, r) \/ RenewalFails(i, r)
    PROVE  RowInv' /\ TaskInv'
  BY QuietKeeps, TasksStay DEF RequestStop, RenewalFails

LEMMA CallKeeps ==
    ASSUME TypeOK, RowInv, TaskInv, NEW i \in Instances, NEW r \in Runs,
           \/ Begin(i, r) \/ FenceSession(i, r) \/ CallSession(i, r)
           \/ BindSession(i, r) \/ FenceTurn(i, r) \/ TurnAccepted(i, r)
    PROVE  RowInv' /\ TaskInv'
  <1>1. \A pc \in {"starting", "sessionFenced", "sessionCall", "bound",
                   "turnFenced", "reconcile", "live"} :
            pc \in AttemptPc \ {"handover"}
    BY DEF AttemptPc, BeforeTurn
  <1>2. TasksMove
    BY <1>1, TaskAdvances
       DEF Begin, FenceSession, CallSession, BindSession, FenceTurn, Fence,
           TurnAccepted, BeforeTurn
  <1>3. CASE BindSession(i, r) /\ Update(r, [run[r] EXCEPT !.session = TRUE])
                               /\ Owns(i, r) /\ run[r].status = "queued"
    <2>. DEFINE row == [run[r] EXCEPT !.session = TRUE]
    <2>. run[r] \in Row
      BY DEF TypeOK
    <2>1. /\ row \in Row /\ row.command = run[r].command
          /\ row.origin = run[r].origin /\ row.certainty = run[r].certainty
          /\ row.status = run[r].status /\ row.session
      BY DEF Row
    <2>2. Active(r)
      BY <1>3 DEF Active, ActiveStatus
    <2>3. Update(r, row) /\ UNCHANGED effects
      BY <1>3 DEF BindSession
    <2>4. RowInv' /\ RowsGrow
      BY <1>3, <2>1, <2>2, <2>3, RowEvolves
    <2>. QED  BY <1>2, <2>3, <2>4, TasksKept
  <1>4. CASE UNCHANGED <<run, effects>>
    BY <1>2, <1>4, QuietKeeps
  <1>. QED  BY <1>3, <1>4
            DEF Begin, FenceSession, CallSession, BindSession, FenceTurn,
                Fence, TurnAccepted

(* The one step that reaches a provider *)
LEMMA CallTurnKeeps ==
    ASSUME TypeOK, RowInv, TaskInv, NEW i \in Instances, NEW r \in Runs,
           CallTurn(i, r)
    PROVE  RowInv' /\ TaskInv'
  <1>1. /\ att[i][r] = "turnFenced" /\ effects[r] = 0
        /\ run[r].certainty = "may" /\ UNCHANGED run
    BY DEF CallTurn, TaskInv, TaskIsClaimed, TurnsAreCounted, BeforeTurn
  <1>2. CASE Goto(i, r, "turnCall") /\ UNCHANGED effects
    <2>1. "turnCall" \in AttemptPc \ {"handover"} /\ "turnFenced" \in BeforeTurn
      BY DEF AttemptPc, BeforeTurn
    <2>. QED  BY <1>1, <1>2, <2>1, TaskAdvances, QuietKeeps
  <1>3. CASE Goto(i, r, "turnReached") /\ effects' = [effects EXCEPT ![r] = @ + 1]
    <2>1. effects'[r] = 1 /\ \A s \in Runs : s # r => effects'[s] = effects[s]
      BY <1>1, <1>3 DEF TypeOK
    <2>2. /\ att'[i][r] = "turnReached"
          /\ \A j \in Instances, s \in Runs :
                j # i \/ s # r => att'[j][s] = att[j][s]
      BY <1>3 DEF Goto, TypeOK
    <2>3. AbsentIsBlank' /\ NotMeansFailed' /\ ReentryIsFirst'
      BY <1>1, <2>1 DEF RowInv, AbsentIsBlank, NotMeansFailed, ReentryIsFirst
    <2>4. /\ FallbackOfUndispatched' /\ OneFallback' /\ OnePrimary'
          /\ PresentHasCommand' /\ OneActiveRunPerConversation'
      BY <1>1 DEF RowInv, FallbackOfUndispatched, OneFallback, OnePrimary,
                  PresentHasCommand, OneActiveRunPerConversation, Active
    <2>5. \A j \in Instances : j # i => att[j][r] = "none"
      BY <1>1 DEF TaskInv, OneExecutor
    <2>6. TaskIsClaimed' /\ OneExecutor'
      BY <1>1, <2>2 DEF TaskInv, TaskIsClaimed, OneExecutor
    <2>7. TurnsAreCounted'
      BY <2>1, <2>2, <2>5 DEF TaskInv, TurnsAreCounted, BeforeTurn
    <2>8. HandoverIsFresh'
      BY <1>1, <2>1, <2>2 DEF TaskInv, HandoverIsFresh
    <2>. QED  BY <2>3, <2>4, <2>6, <2>7, <2>8 DEF RowInv, TaskInv
  <1>. QED  BY <1>2, <1>3 DEF CallTurn

LEMMA EndKeeps ==
    ASSUME TypeOK, RowInv, TaskInv, NEW i \in Instances, NEW r \in Runs,
           \/ InterruptQueued(i, r) \/ CancelCall(i, r) \/ Finalize(i, r)
           \/ CallFails(i, r, "may") \/ RecordEvent(i, r)
           \/ Reconcile(i, r) \/ ReconcileFails(i, r) \/ TaskFails(i, r)
    PROVE  RowInv' /\ TaskInv'
  <1>1. "interrupted" \in TerminalStatus /\ "completed" \in TerminalStatus
    BY DEF TerminalStatus
  <1>2. "reconcile" \in AttemptPc \ {"handover"} /\ "reconcile" \notin BeforeTurn
    BY DEF AttemptPc, BeforeTurn
  <1>3. UNCHANGED effects
    BY DEF InterruptQueued, CancelCall, Finalize, CallFails, RecordEvent,
           Reconcile, ReconcileFails, TaskFails
  <1>4. CASE InterruptQueued(i, r)
    BY <1>1, <1>3, <1>4, CloseOwnedKeeps, TaskEnds, QuietKeeps
       DEF InterruptQueued
  <1>5. CASE CancelCall(i, r)
    BY <1>1, <1>3, <1>5, CloseOwnedKeeps DEF CancelCall
  <1>6. CASE Finalize(i, r)
    BY <1>1, <1>3, <1>6, CloseOwnedKeeps, RowCloses, TaskEnds, TasksKept
       DEF Finalize
  <1>7. CASE CallFails(i, r, "may")
    <2>1. att[i][r] \notin {"none", "handover"}
      BY <1>7 DEF CallFails, MayReport
    <2>2. CASE Owns(i, r) /\ Active(r)
      BY <1>3, <1>7, <2>2, RowCloses, TaskEnds, TasksKept DEF CallFails
    <2>3. CASE ~(Owns(i, r) /\ Active(r))
      BY <1>2, <1>3, <1>7, <2>1, <2>3, TaskAdvances, QuietKeeps DEF CallFails
    <2>. QED  BY <2>2, <2>3
  <1>8. CASE RecordEvent(i, r)
    <2>. run[r] \in Row
      BY DEF TypeOK
    <2>1. ASSUME NEW row \in Row, Update(r, row), Active(r),
                 row.command = run[r].command, row.origin = run[r].origin,
                 row.certainty = run[r].certainty,
                 row.status \in {"running", "waiting"}
          PROVE  RowInv' /\ RowsGrow
      BY <1>3, <2>1, RowEvolves
    <2>2. ASSUME Update(r, [run[r] EXCEPT !.mutation = "maybe"]),
                 run[r].status = "running"
          PROVE  RowInv' /\ RowsGrow
      <3>1. run[r].status = "running" /\ Active(r)
        BY <2>2 DEF Active, ActiveStatus
      <3>. DEFINE row == [run[r] EXCEPT !.mutation = "maybe"]
      <3>2. /\ row \in Row /\ row.command = run[r].command
            /\ row.origin = run[r].origin
            /\ row.certainty = run[r].certainty /\ row.status = run[r].status
        BY DEF Row
      <3>3. Update(r, row)
        BY <2>2
      <3>. HIDE DEF row
      <3>. QED  BY <2>1, <3>1, <3>2, <3>3
    <2>3. RowInv' /\ RowsGrow
      <3>1. ASSUME NEW st \in {"running", "waiting"}, Active(r),
                   Update(r, [run[r] EXCEPT !.status = st])
            PROVE  RowInv' /\ RowsGrow
        <4>. DEFINE row == [run[r] EXCEPT !.status = st]
        <4>1. /\ row \in Row /\ row.command = run[r].command
              /\ row.origin = run[r].origin
              /\ row.certainty = run[r].certainty /\ row.status = st
          BY DEF Row, ActiveStatus
        <4>2. Update(r, row)
          BY <3>1
        <4>. HIDE DEF row
        <4>. QED  BY <2>1, <3>1, <4>1, <4>2
      <3>. QED  BY <1>8, <2>2, <3>1 DEF RecordEvent, Active, ActiveStatus
    <2>. QED  BY <1>3, <1>8, <2>3, TasksStay, TasksKept DEF RecordEvent
  <1>9. CASE Reconcile(i, r)
    <2>1. TasksMove
      BY <1>9, TaskEnds DEF Reconcile
    <2>2. CASE Owns(i, r) /\ Active(r)
      BY <1>3, <1>9, <2>1, <2>2, RowCloses, TasksKept DEF Reconcile
    <2>3. CASE ~(Owns(i, r) /\ Active(r))
      BY <1>3, <1>9, <2>1, <2>3, QuietKeeps DEF Reconcile
    <2>. QED  BY <2>2, <2>3
  <1>10. CASE ReconcileFails(i, r)
    BY <1>10, TaskEnds, QuietKeeps DEF ReconcileFails
  <1>11. CASE TaskFails(i, r)
    BY <1>2, <1>11, TaskAdvances, QuietKeeps DEF TaskFails
  <1>. QED  BY <1>4, <1>5, <1>6, <1>7, <1>8, <1>9, <1>10, <1>11

(* NotDispatched: the task is over or hands over, and nobody was reached *)
LEMMA UndispatchedFails ==
    ASSUME TypeOK, RowInv, TaskInv, NEW i \in Instances, NEW r \in Runs,
           MayReport(i, r, "not"), Active(r)
    PROVE  /\ effects[r] = 0 /\ run[r].certainty = "may"
           /\ \A j \in Instances : j # i => att[j][r] = "none"
           /\ \A f \in Runs : run[f].origin # r
  <1>1. att[i][r] \in BeforeTurn /\ att[i][r] \notin {"none", "handover"}
    BY DEF MayReport, BeforeTurn
  <1>2. effects[r] = 0 /\ run[r].certainty = "may"
    BY <1>1 DEF TaskInv, TurnsAreCounted, TaskIsClaimed
  <1>3. \A j \in Instances : j # i => att[j][r] = "none"
    BY <1>1 DEF TaskInv, OneExecutor
  <1>4. \A f \in Runs : run[f].origin # r
    BY <1>2, DispatchConstants DEF RowInv, FallbackOfUndispatched
  <1>. QED  BY <1>2, <1>3, <1>4

LEMMA CallFailsKeeps ==
    ASSUME TypeOK, RowInv, TaskInv, NEW i \in Instances, NEW r \in Runs,
           CallFails(i, r, "not")
    PROVE  RowInv' /\ TaskInv'
  <1>1. att[i][r] \notin {"none", "handover"} /\ UNCHANGED effects
    BY DEF CallFails, MayReport
  <1>2. CASE ~(Owns(i, r) /\ Active(r))
    <2>1. "reconcile" \in AttemptPc \ {"handover"} /\ "reconcile" \notin BeforeTurn
      BY DEF AttemptPc, BeforeTurn
    <2>. QED  BY <1>1, <1>2, <2>1, TaskAdvances, QuietKeeps DEF CallFails
  <1>3. CASE Owns(i, r) /\ Active(r)
    <2>1. /\ effects[r] = 0 /\ run[r].certainty = "may"
          /\ \A j \in Instances : j # i => att[j][r] = "none"
          /\ \A f \in Runs : run[f].origin # r
      BY <1>3, UndispatchedFails DEF CallFails
    <2>2. /\ run'[r].status = "failed" /\ run'[r].certainty = "not"
          /\ run'[r].origin = run[r].origin /\ run'[r].command = run[r].command
          /\ \A s \in Runs : s # r => run'[s] = run[s]
      <3>1. run[r] \in Row
        BY DEF TypeOK
      <3>2. run' = [run EXCEPT ![r] = FailedRow(r, "not")]
        BY <1>3 DEF CallFails, Update
      <3>3. /\ run'[r] = FailedRow(r, "not")
            /\ \A s \in Runs : s # r => run'[s] = run[s]
        BY <3>2 DEF TypeOK
      <3>. QED  BY <3>1, <3>3 DEF FailedRow, Row
    <2>3. /\ att'[i][r] = "none"
          /\ \A j \in Instances, s \in Runs :
                j # i \/ s # r => att'[j][s] = att[j][s]
      BY <1>3 DEF CallFails, EndAttempt, Goto, TypeOK
    <2>4. \A f \in Runs : run[f].origin \in Runs \cup {NoRun}
      BY DEF TypeOK, Row
    <2>5. AbsentIsBlank' /\ NotMeansFailed' /\ ReentryIsFirst'
      BY <1>1, <2>1, <2>2
         DEF RowInv, AbsentIsBlank, NotMeansFailed, ReentryIsFirst
    <2>6. FallbackOfUndispatched'
      BY <2>1, <2>2, <2>4 DEF RowInv, FallbackOfUndispatched
    <2>7. OneFallback' /\ OnePrimary' /\ PresentHasCommand'
      BY <1>3, <2>2 DEF RowInv, OneFallback, OnePrimary, PresentHasCommand,
                        Active, ActiveStatus
    <2>8. OneActiveRunPerConversation'
      BY <1>3, <2>2 DEF RowInv, OneActiveRunPerConversation, Active
    <2>9. TaskIsClaimed' /\ OneExecutor'
      BY <2>1, <2>2, <2>3 DEF TaskInv, TaskIsClaimed, OneExecutor
    <2>10. TurnsAreCounted'
      BY <1>1, <2>3 DEF TaskInv, TurnsAreCounted, BeforeTurn
    <2>11. HandoverIsFresh'
      <3>1. \A j \in Instances, s, f \in Runs :
                att[j][s] = "handover" /\ run[f].origin = s => f # r
        BY <1>1 DEF TaskInv, HandoverIsFresh
      <3>. QED  BY <1>1, <2>2, <2>3, <3>1 DEF TaskInv, HandoverIsFresh
    <2>. QED  BY <2>5, <2>6, <2>7, <2>8, <2>9, <2>10, <2>11 DEF RowInv, TaskInv
  <1>. QED  BY <1>2, <1>3

LEMMA FallBackKeeps ==
    ASSUME TypeOK, RowInv, TaskInv, NEW i \in Instances, NEW r \in Runs,
           NEW f \in Runs, FallBack(i, r, f)
    PROVE  RowInv' /\ TaskInv'
  <1>. DEFINE granted == /\ Owns(i, r) /\ Active(r)
                         /\ run[r].mutation = "none" /\ run[r].origin = NoRun
                         /\ \A s \in Runs : run[s].origin # r
  <1>1. att[i][r] \notin {"none", "handover"} /\ UNCHANGED effects
    BY DEF FallBack, MayReport
  <1>2. CASE ~granted
    <2>1. "reconcile" \in AttemptPc \ {"handover"} /\ "reconcile" \notin BeforeTurn
      BY DEF AttemptPc, BeforeTurn
    <2>2. Goto(i, r, "reconcile") /\ UNCHANGED run
      BY <1>2 DEF FallBack
    <2>. QED  BY <1>1, <2>1, <2>2, TaskAdvances, QuietKeeps
  <1>3. CASE granted
    <2>1. /\ effects[r] = 0 /\ run[r].certainty = "may"
          /\ \A j \in Instances : j # i => att[j][r] = "none"
          /\ \A g \in Runs : run[g].origin # r
      BY <1>3, UndispatchedFails DEF FallBack
    <2>2. /\ run[f].status = "absent" /\ run[f].certainty = "null"
          /\ effects[f] = 0 /\ f # r
          /\ \A j \in Instances : att[j][f] = "none"
      BY <1>3 DEF FallBack, RowInv, AbsentIsBlank, TaskInv, TaskIsClaimed,
                  Active, ActiveStatus
    <2>3. /\ run'[r].status = "failed" /\ run'[r].certainty = "not"
          /\ run'[r].origin = NoRun /\ run'[r].command = run[r].command
          /\ run'[f].status = "queued" /\ run'[f].certainty = "may"
          /\ run'[f].origin = r /\ run'[f].command = run[r].command
          /\ \A s \in Runs : s # r /\ s # f => run'[s] = run[s]
      <3>1. run[r] \in Row
        BY DEF TypeOK
      <3>2. run' = [run EXCEPT ![r] = FailedRow(r, "not"),
                       ![f] = ClaimedRow(i, r, run[r].command, FALSE)]
        BY <1>3 DEF FallBack
      <3>3. /\ run'[r] = FailedRow(r, "not")
            /\ run'[f] = ClaimedRow(i, r, run[r].command, FALSE)
            /\ \A s \in Runs : s # r /\ s # f => run'[s] = run[s]
        BY <2>2, <3>2 DEF TypeOK
      <3>4. /\ run'[r].status = "failed" /\ run'[r].certainty = "not"
            /\ run'[r].origin = NoRun /\ run'[r].command = run[r].command
        BY <1>3, <3>1, <3>3 DEF FailedRow, Row
      <3>5. /\ run'[f].status = "queued" /\ run'[f].certainty = "may"
            /\ run'[f].origin = r /\ run'[f].command = run[r].command
        BY <3>3 DEF ClaimedRow, NoRow
      <3>. QED  BY <3>3, <3>4, <3>5
    <2>4. /\ att'[i][r] = "handover"
          /\ \A j \in Instances, s \in Runs :
                j # i \/ s # r => att'[j][s] = att[j][s]
      <3>1. Goto(i, r, "handover")
        BY <1>3 DEF FallBack
      <3>. QED  BY <3>1 DEF Goto, TypeOK
    <2>5. /\ r # NoRun
          /\ \A g \in Runs : run[g].origin \in Runs \cup {NoRun}
          /\ \A g \in Runs : run[g].origin # f
      <3>1. f # NoRun /\ r # NoRun
        BY DispatchConstants
      <3>. QED  BY <2>2, <3>1
                DEF TypeOK, Row, RowInv, FallbackOfUndispatched
    <2>6. AbsentIsBlank' /\ NotMeansFailed' /\ ReentryIsFirst'
      BY <1>1, <2>1, <2>2, <2>3
         DEF RowInv, AbsentIsBlank, NotMeansFailed, ReentryIsFirst
    <2>7. FallbackOfUndispatched'
      BY <2>1, <2>3, <2>5 DEF RowInv, FallbackOfUndispatched
    <2>8. OneFallback'
      BY <2>1, <2>3, <2>5 DEF RowInv, OneFallback
    <2>9. OnePrimary' /\ PresentHasCommand'
      BY <1>3, <2>3, <2>5
         DEF RowInv, OnePrimary, PresentHasCommand, Active, ActiveStatus
    <2>10. OneActiveRunPerConversation'
      BY <1>3, <2>2, <2>3 DEF RowInv, OneActiveRunPerConversation, Active,
                              ActiveStatus
    <2>11. TaskIsClaimed' /\ OneExecutor'
      BY <2>1, <2>2, <2>3, <2>4 DEF TaskInv, TaskIsClaimed, OneExecutor
    <2>12. TurnsAreCounted'
      BY <1>1, <2>4 DEF TaskInv, TurnsAreCounted, BeforeTurn
    <2>13. HandoverIsFresh'
      <3>1. \A j \in Instances, s, g \in Runs :
                att[j][s] = "handover" /\ run[g].origin = s => g # r /\ g # f
        BY <1>1, <2>2 DEF TaskInv, HandoverIsFresh
      <3>2. \A j \in Instances, s \in Runs :
                att'[j][s] = "handover" /\ (j # i \/ s # r) =>
                    att[j][s] = "handover" /\ s # r
        BY <2>1, <2>4
      <3>3. \A g \in Runs : g # r /\ g # f =>
                /\ run'[g] = run[g] /\ effects'[g] = effects[g]
                /\ \A j \in Instances : att'[j][g] = att[j][g]
        BY <1>1, <2>3, <2>4
      <3>4. ASSUME NEW j \in Instances, NEW s \in Runs, NEW g \in Runs,
                   att'[j][s] = "handover", run'[g].origin = s
            PROVE  /\ run'[g].certainty = "may" /\ effects'[g] = 0
                   /\ \A k \in Instances : att'[k][g] = "none"
        <4>1. CASE j = i /\ s = r
          <5>1. g = f
            BY <2>1, <2>3, <2>5, <3>4, <4>1
          <5>. QED  BY <1>1, <2>2, <2>3, <2>4, <5>1
        <4>2. CASE j # i \/ s # r
          <5>1. att[j][s] = "handover" /\ s # r
            BY <3>2, <3>4, <4>2
          <5>2. g # f /\ g # r
            BY <1>3, <2>3, <2>5, <3>4, <5>1, DispatchConstants
          <5>. QED  BY <3>3, <3>4, <5>1, <5>2 DEF TaskInv, HandoverIsFresh
        <4>. QED  BY <4>1, <4>2
      <3>. QED  BY <3>4 DEF HandoverIsFresh
    <2>. QED  BY <2>6, <2>7, <2>8, <2>9, <2>10, <2>11, <2>12, <2>13
              DEF RowInv, TaskInv
  <1>. QED  BY <1>2, <1>3

LEMMA StartFallbackKeeps ==
    ASSUME TypeOK, RowInv, TaskInv, NEW i \in Instances, NEW r \in Runs,
           NEW f \in Runs, StartFallback(i, r, f)
    PROVE  RowInv' /\ TaskInv'
  <1>1. /\ run[f].certainty = "may" /\ effects[f] = 0
        /\ \A j \in Instances : att[j][f] = "none"
        /\ att[i][r] = "handover" /\ r # f
        /\ UNCHANGED <<run, effects>>
    BY DEF StartFallback, TaskInv, HandoverIsFresh
  <1>2. /\ att'[i][r] = "none" /\ att'[i][f] = "queued"
        /\ \A j \in Instances, s \in Runs :
              j # i \/ (s # r /\ s # f) => att'[j][s] = att[j][s]
    BY <1>1 DEF StartFallback, TypeOK
  <1>3. \A j \in Instances : j # i => att[j][r] = "none"
    BY <1>1 DEF TaskInv, OneExecutor
  <1>4. TaskIsClaimed'
    <2>. SUFFICES ASSUME NEW j \in Instances, NEW s \in Runs
                  PROVE  /\ att'[j][s] # "none" =>
                               \/ run[s].certainty = "may"
                               \/ /\ run[s].certainty = "not"
                                  /\ att'[j][s] = "handover"
                         /\ att'[j][s] = "handover" => run[s].certainty = "not"
      BY <1>1 DEF TaskIsClaimed
    <2>1. att'[j][s] = att[j][s] \/ att'[j][s] = "none"
             \/ (s = f /\ att'[j][s] = "queued")
      BY <1>2
    <2>. QED  BY <1>1, <2>1 DEF TaskInv, TaskIsClaimed
  <1>5. OneExecutor' /\ TurnsAreCounted'
    <2>1. \A j \in Instances, s \in Runs :
              \/ att'[j][s] = att[j][s] /\ s # f
              \/ att'[j][s] = "none"
              \/ j = i /\ s = f
      BY <1>1, <1>2
    <2>2. OneExecutor'
      BY <1>1, <2>1 DEF TaskInv, OneExecutor
    <2>3. TurnsAreCounted'
      BY <1>1, <2>1 DEF TaskInv, TurnsAreCounted, BeforeTurn
    <2>. QED  BY <2>2, <2>3
  <1>6. HandoverIsFresh'
    <2>1. \A j \in Instances, s \in Runs :
              att'[j][s] = "handover" => att[j][s] = "handover" /\ s # r
      BY <1>2, <1>3
    <2>2. run[f].origin = r
      BY DEF StartFallback
    <2>. QED  BY <1>1, <1>2, <2>1, <2>2 DEF TaskInv, HandoverIsFresh
  <1>. QED  BY <1>1, <1>4, <1>5, <1>6, RowsKept DEF TaskInv

LEMMA ClaimKeeps ==
    ASSUME TypeOK, RowInv, TaskInv, NEW i \in Instances, NEW r \in Runs,
           ClaimForRecovery(i, r)
    PROVE  RowInv' /\ TaskInv'
  <1>1. UNCHANGED <<att, effects>>
    BY DEF ClaimForRecovery
  <1>2. CASE Claimable(i, r)
    <2>1. PICK k \in ClaimIds :
              Update(r, [run[r] EXCEPT !.owner = <<i, k>>, !.stale = FALSE])
      BY <1>2 DEF ClaimForRecovery
    <2>. DEFINE row == [run[r] EXCEPT !.owner = <<i, k>>, !.stale = FALSE]
    <2>2. Active(r)
      BY <1>2 DEF Claimable
    <2>3. run[r] \in Row
      BY DEF TypeOK
    <2>4. /\ row \in Row /\ row.command = run[r].command
          /\ row.origin = run[r].origin /\ row.certainty = run[r].certainty
          /\ row.status = run[r].status /\ row.session = run[r].session
      BY <2>3, OwnersMade DEF Row
    <2>5. row.status # "absent"
      BY <2>2, <2>4 DEF Active, ActiveStatus
    <2>6. Update(r, row)
      BY <2>1
    <2>. HIDE DEF row
    <2>7. RowInv' /\ RowsGrow
      BY <1>1, <2>2, <2>4, <2>5, <2>6, RowEvolves
    <2>. QED  BY <1>1, <2>7, TasksStay, TasksKept
  <1>3. CASE ~Claimable(i, r)
    BY <1>1, <1>3, TasksStay, QuietKeeps DEF ClaimForRecovery
  <1>. QED  BY <1>2, <1>3

LEMMA RecoveryInterruptKeeps ==
    ASSUME TypeOK, RowInv, TaskInv, NEW i \in Instances, NEW r \in Runs,
           InterruptOwnedRecovery(i, r) \/ RecoveryQueueFull(i, r)
    PROVE  RowInv' /\ TaskInv'
  <1>1. UNCHANGED <<att, effects>>
    BY DEF InterruptOwnedRecovery, RecoveryQueueFull
  <1>2. CASE Active(r) /\ Update(r, ClosedRow(r, "interrupted"))
    <2>1. "interrupted" \in TerminalStatus
      BY DEF TerminalStatus
    <2>. QED  BY <1>1, <1>2, <2>1, RowCloses, TasksStay, TasksKept
  <1>3. CASE UNCHANGED run
    BY <1>1, <1>3, TasksStay, QuietKeeps
  <1>. QED  BY <1>2, <1>3 DEF InterruptOwnedRecovery, RecoveryQueueFull

(* A re-entry: the row proves that nobody was reached, and by the claim no *)
(* task works on it.                                                       *)
LEMMA RecoverPersistedKeeps ==
    ASSUME TypeOK, RowInv, TaskInv, NEW i \in Instances, NEW r \in Runs,
           RecoverPersisted(i, r)
    PROVE  RowInv' /\ TaskInv'
  <1>. DEFINE row == Promoted(i, r)
  <1>1. UNCHANGED effects
    BY DEF RecoverPersisted
  <1>2. CASE UNCHANGED <<run, att>>
    BY <1>1, <1>2, TasksStay, QuietKeeps
  <1>3. CASE /\ run[r].status = "queued" /\ run[r].certainty # "may"
             /\ ~run[r].session
             /\ Update(r, row) /\ Goto(i, r, "queued")
    <2>1. run[r] \in Row /\ Active(r)
      BY <1>3 DEF TypeOK, Active, ActiveStatus
    <2>2. /\ run[r].certainty = "null" /\ effects[r] = 0
          /\ \A j \in Instances : att[j][r] = "none"
      BY <1>3, <2>1 DEF Row, RowInv, NotMeansFailed, ReentryIsFirst,
                        TaskInv, TaskIsClaimed
    <2>3. /\ row \in Row /\ row.command = run[r].command
          /\ row.origin = run[r].origin /\ row.certainty = "may"
          /\ row.status = "queued" /\ row.session = run[r].session
      BY <1>3, PromotedRow
    <2>4. Update(r, row)
      BY <1>3
    <2>5. /\ att'[i][r] = "queued"
          /\ \A j \in Instances, s \in Runs :
                j # i \/ s # r => att'[j][s] = att[j][s]
      BY <1>3 DEF Goto, TypeOK
    <2>. HIDE DEF row
    <2>6. RowInv' /\ RowsGrow
      BY <1>1, <1>3, <2>1, <2>3, <2>4, RowEvolves
    <2>7. run'[r].certainty = "may"
      BY <2>3, <2>4 DEF Update, TypeOK
    <2>8. TaskIsClaimed'
      BY <2>5, <2>6, <2>7 DEF TaskInv, TaskIsClaimed, RowsGrow
    <2>9. OneExecutor'
      BY <2>2, <2>5 DEF TaskInv, OneExecutor
    <2>10. TurnsAreCounted'
      BY <1>1, <2>2, <2>5 DEF TaskInv, TurnsAreCounted
    <2>11. HandoverIsFresh'
      <3>1. \A j \in Instances, s \in Runs :
                att'[j][s] = "handover" => att[j][s] = "handover"
        BY <2>5
      <3>2. ASSUME NEW j \in Instances, NEW s \in Runs, NEW f \in Runs,
                   att'[j][s] = "handover", run'[f].origin = s
            PROVE  /\ run'[f].certainty = "may" /\ effects'[f] = 0
                   /\ \A k \in Instances : att'[k][f] = "none"
        <4>1. /\ run[f].certainty = "may" /\ effects[f] = 0
              /\ \A k \in Instances : att[k][f] = "none"
          BY <2>6, <3>1, <3>2 DEF TaskInv, HandoverIsFresh, RowsGrow
        <4>2. f # r
          BY <2>2, <4>1
        <4>. QED  BY <1>1, <2>5, <2>6, <4>1, <4>2 DEF RowsGrow
      <3>. QED  BY <3>2 DEF HandoverIsFresh
    <2>. QED  BY <2>6, <2>8, <2>9, <2>10, <2>11 DEF TaskInv
  <1>. QED  BY <1>2, <1>3 DEF RecoverPersisted, Promotable

LEMMA PromotionLostKeeps ==
    ASSUME TypeOK, RowInv, TaskInv, NEW i \in Instances, NEW r \in Runs,
           PromotionLost(i, r)
    PROVE  RowInv' /\ TaskInv'
  <1>1. /\ UNCHANGED <<att, effects>> /\ Update(r, Promoted(i, r))
        /\ run[r].status = "queued" /\ ~run[r].session
    BY DEF PromotionLost, Promotable
  <1>2. Active(r)
    BY <1>1 DEF Active, ActiveStatus
  <1>3. RowInv' /\ RowsGrow
    BY <1>1, <1>2, PromotedRow, RowEvolves
  <1>. QED  BY <1>1, <1>3, TasksStay, TasksKept

LEMMA InitInv == Init => IInv
  <1>. SUFFICES ASSUME Init PROVE IInv
    OBVIOUS
  <1>1. TypeOK
    BY InitType
  <1>0. PICK legacy \in SUBSET LegacyRuns :
          \E shape \in [legacy -> LegacyShape], sent \in [legacy -> Commands] :
            /\ \A r, s \in legacy : r # s =>
                  ConversationOf[sent[r]] # ConversationOf[sent[s]]
            /\ run = [r \in Runs |-> IF r \in legacy
                                     THEN [shape[r] EXCEPT !.command = sent[r]]
                                     ELSE NoRow]
    BY DEF Init
  <1>2. PICK shape \in [legacy -> LegacyShape], sent \in [legacy -> Commands] :
            /\ \A r, s \in legacy : r # s =>
                  ConversationOf[sent[r]] # ConversationOf[sent[s]]
            /\ run = [r \in Runs |-> IF r \in legacy
                                     THEN [shape[r] EXCEPT !.command = sent[r]]
                                     ELSE NoRow]
    BY <1>0
  <1>3. \A row \in LegacyShape :
            /\ row.certainty = "null" /\ row.origin = NoRun
            /\ row.status \in ActiveStatus
            /\ DOMAIN row = {"status", "mutation", "certainty", "owner",
                             "stale", "session", "intent", "fallback",
                             "origin", "command"}
    BY DEF LegacyShape, LegacyRows, ActiveStatus
  <1>4. ASSUME NEW r \in legacy
        PROVE  /\ run[r].certainty = "null" /\ run[r].origin = NoRun
               /\ run[r].status \in ActiveStatus /\ run[r].command = sent[r]
    <2>1. run[r] = [shape[r] EXCEPT !.command = sent[r]]
      BY <1>2, DispatchConstants
    <2>2. shape[r] \in LegacyShape
      OBVIOUS
    <2>. QED  BY <1>3, <2>1, <2>2
  <1>5. ASSUME NEW r \in Runs \ legacy
        PROVE  /\ run[r].status = "absent" /\ run[r].certainty = "null"
               /\ run[r].origin = NoRun /\ run[r].command = NoCommand
    BY <1>2 DEF NoRow
  <1>6. "absent" \notin ActiveStatus
    BY DEF ActiveStatus
  <1>7. \A r \in Runs : effects[r] \in LegacyEffects(run[r])
    BY DEF Init
  <1>8. AbsentIsBlank
    BY <1>4, <1>5, <1>6, <1>7 DEF AbsentIsBlank, LegacyEffects
  <1>9. NotMeansFailed /\ FallbackOfUndispatched /\ OneFallback
    BY <1>4, <1>5 DEF NotMeansFailed, FallbackOfUndispatched, OneFallback
  <1>10. ReentryIsFirst
    BY <1>7 DEF ReentryIsFirst, LegacyEffects
  <1>11. OnePrimary /\ PresentHasCommand /\ OneActiveRunPerConversation
    BY <1>2, <1>4, <1>5, <1>6
       DEF OnePrimary, PresentHasCommand, OneActiveRunPerConversation, Active
  <1>12. TaskInv
    BY DEF Init, TaskInv, TaskIsClaimed, OneExecutor, TurnsAreCounted,
           HandoverIsFresh, BeforeTurn
  <1>. QED  BY <1>1, <1>8, <1>9, <1>10, <1>11, <1>12 DEF IInv, RowInv

LEMMA StepInv == IInv /\ [Next]_vars => IInv'
  <1>. SUFFICES ASSUME IInv, [Next]_vars PROVE IInv'
    OBVIOUS
  <1>. USE DEF IInv
  <1>1. TypeOK'
    BY TypeStep
  <1>2. CASE UNCHANGED vars
    BY <1>1, <1>2, TasksStay, QuietKeeps DEF vars
  <1>3. ASSUME NEW r \in Runs, Lapse(r) PROVE IInv'
    BY <1>1, <1>3, LapseKeeps
  <1>4. ASSUME NEW i \in Instances,
               \/ Boot(i) \/ Crash(i) \/ BeginShutdown(i) \/ Exit(i)
               \/ PassStep(i) \/ PassFails(i)
        PROVE  IInv'
    BY <1>1, <1>4, ProcessKeeps, ClaimKeeps, RecoveryInterruptKeeps,
       RecoverPersistedKeeps DEF PassStep
  <1>5. ASSUME NEW i \in Instances, NEW r \in Runs,
               \/ \E c \in Commands : Submit(i, r, c)
               \/ RequestStop(i, r) \/ RenewalFails(i, r)
        PROVE  IInv'
    BY <1>1, <1>5, SubmitKeeps, RequestKeeps
  <1>6. ASSUME NEW i \in Instances, NEW r \in Runs,
               AttemptStep(i, r) \/ PromotionLost(i, r)
        PROVE  IInv'
    BY <1>1, <1>6, CallKeeps, CallTurnKeeps, EndKeeps, CallFailsKeeps,
       FallBackKeeps, StartFallbackKeeps, PromotionLostKeeps DEF AttemptStep
  <1>. QED  BY <1>2, <1>3, <1>4, <1>5, <1>6 DEF Next

THEOREM InductiveInvariant == Spec => []IInv
  BY InitInv, StepInv, PTL DEF Spec

LEMMA TurnsAreUnique == IInv => OneTurnPerMessage
  <1>. SUFFICES ASSUME IInv, NEW r \in Runs, NEW s \in Runs,
                       effects[r] > 0, effects[s] > 0,
                       run[r].command = run[s].command
                PROVE  r = s
    BY DEF IInv, TaskInv, TurnsAreCounted, OneTurnPerMessage
  <1>1. /\ effects[r] # 0 /\ effects[s] # 0
        /\ run[r].status # "absent" /\ run[s].status # "absent"
    BY DEF IInv, TypeOK, RowInv, AbsentIsBlank
  <1>2. ASSUME NEW f \in Runs, run[f].origin # NoRun
        PROVE  /\ run[f].origin \in Runs
               /\ effects[run[f].origin] = 0
               /\ run[run[f].origin].status # "absent"
               /\ run[run[f].origin].origin = NoRun
               /\ run[run[f].origin].command = run[f].command
    <2>1. run[f].origin \in Runs
      BY <1>2 DEF IInv, TypeOK, Row
    <2>. QED  BY <1>2, <2>1 DEF IInv, RowInv, FallbackOfUndispatched,
                                NotMeansFailed
  <1>3. CASE run[r].origin = NoRun /\ run[s].origin = NoRun
    BY <1>1, <1>3 DEF IInv, RowInv, OnePrimary
  <1>4. CASE run[r].origin # NoRun /\ run[s].origin # NoRun
    <2>1. run[r].origin = run[s].origin
      BY <1>2, <1>4 DEF IInv, RowInv, OnePrimary
    <2>. QED  BY <1>4, <2>1 DEF IInv, RowInv, OneFallback
  <1>5. ASSUME NEW p \in {r, s}, NEW f \in {r, s},
               run[p].origin = NoRun, run[f].origin # NoRun
        PROVE  FALSE
    <2>1. p = run[f].origin
      BY <1>1, <1>2, <1>5 DEF IInv, RowInv, OnePrimary
    <2>. QED  BY <1>1, <1>2, <1>5, <2>1
  <1>. QED  BY <1>3, <1>4, <1>5

(* The message is never replayed: over all runs of a command, in whatever  *)
(* incarnation, at most one provider turn starts.                          *)
THEOREM NeverReplayed == Spec => []OneTurnPerMessage
  BY InductiveInvariant, TurnsAreUnique, PTL

(* Evidence that nothing was dispatched is never wrong: only from it does  *)
(* the code fall back or start a run again.                                *)
THEOREM EvidenceSound == Spec => []EvidenceIsSound
  <1>1. IInv => EvidenceIsSound
    BY DEF IInv, TypeOK, Row, RowInv, NotMeansFailed, ReentryIsFirst,
           EvidenceIsSound, SafeToReenter
  <1>. QED  BY <1>1, InductiveInvariant, PTL

(* One root task in one incarnation executes a run *)
THEOREM ExecutedOnce == Spec => []OneExecutor
  <1>1. IInv => OneExecutor
    BY DEF IInv, TaskInv
  <1>. QED  BY <1>1, InductiveInvariant, PTL

(* A conversation has at most one active run *)
THEOREM TurnsAreSerialized == Spec => []OneActiveRunPerConversation
  <1>1. IInv => OneActiveRunPerConversation
    BY DEF IInv, RowInv
  <1>. QED  BY <1>1, InductiveInvariant, PTL

(* The dispatch protocol is safe for any number of incarnations, runs and  *)
(* messages: no message is replayed, evidence is never understated, a run  *)
(* has one executor and a conversation one active run.                     *)
THEOREM DispatchSafe == Spec => []DispatchIsSafe
  <1>1. OneTurnPerMessage /\ EvidenceIsSound /\ OneExecutor
          /\ OneActiveRunPerConversation => DispatchIsSafe
    BY DEF DispatchIsSafe
  <1>. QED  BY <1>1, NeverReplayed, EvidenceSound, ExecutedOnce,
               TurnsAreSerialized, PTL

-----------------------------------------------------------------------------
(* What a step may never do *)

LEMMA ActiveNotTerminal == \A r \in Runs : Active(r) => ~Terminal(r)
  BY DEF Active, Terminal, ActiveStatus, TerminalStatus

LEMMA TerminalKept ==
    ASSUME TypeOK, NEW r \in Runs, ~Terminal(r),
           NEW row, Update(r, row)
    PROVE  \A s \in Runs : Terminal(s) => run'[s] = run[s]
  BY DEF TypeOK, Update

LEMMA FinalStep == TypeOK /\ [Next]_vars =>
                     \A r \in Runs : Terminal(r) => run'[r] = run[r]
  <1>. SUFFICES ASSUME TypeOK, [Next]_vars, NEW s \in Runs, Terminal(s)
                PROVE  run'[s] = run[s]
    OBVIOUS
  <1>1. CASE UNCHANGED run
    BY <1>1
  <1>2. ASSUME NEW r \in Runs, NEW row, Update(r, row), ~Terminal(r)
        PROVE  run'[s] = run[s]
    BY <1>2, TerminalKept
  <1>3. ASSUME NEW r \in Runs, NEW row, Update(r, row), Active(r)
        PROVE  run'[s] = run[s]
    BY <1>2, <1>3, ActiveNotTerminal
  <1>4. ASSUME NEW i \in Instances, NEW r \in Runs, NEW st,
               CloseOwned(i, r, st)
        PROVE  run'[s] = run[s]
    BY <1>3, <1>4 DEF CloseOwned
  <1>5. ASSUME NEW r \in Runs, Lapse(r) PROVE run'[s] = run[s]
    BY <1>3, <1>5 DEF Lapse
  <1>6. ASSUME NEW i \in Instances,
               \/ Boot(i) \/ Crash(i) \/ BeginShutdown(i) \/ Exit(i)
               \/ StartPass(i) \/ ListQueued(i) \/ EndPass(i) \/ PassFails(i)
        PROVE  run'[s] = run[s]
    BY <1>6 DEF Boot, Crash, BeginShutdown, Exit, StartPass, ListQueued,
                EndPass, PassFails
  <1>7. ASSUME NEW i \in Instances, NEW r \in Runs,
               \/ \E c \in Commands : Submit(i, r, c)
               \/ RequestStop(i, r) \/ RenewalFails(i, r)
        PROVE  run'[s] = run[s]
    BY <1>2, <1>7 DEF Submit, RequestStop, RenewalFails, Terminal,
                      TerminalStatus
  <1>8. ASSUME NEW i \in Instances, NEW r \in Runs,
               \/ ClaimForRecovery(i, r) \/ InterruptOwnedRecovery(i, r)
               \/ RecoverPersisted(i, r) \/ RecoveryQueueFull(i, r)
               \/ PromotionLost(i, r)
        PROVE  run'[s] = run[s]
    BY <1>3, <1>8 DEF ClaimForRecovery, Claimable, InterruptOwnedRecovery,
                      RecoverPersisted, PromotionLost, Promotable,
                      RecoveryQueueFull, Active, ActiveStatus
  <1>9. ASSUME NEW i \in Instances, NEW r \in Runs,
               \/ Begin(i, r) \/ FenceSession(i, r) \/ CallSession(i, r)
               \/ BindSession(i, r) \/ FenceTurn(i, r) \/ CallTurn(i, r)
               \/ TurnAccepted(i, r) \/ RecordEvent(i, r)
        PROVE  run'[s] = run[s]
    BY <1>3, <1>9 DEF Begin, FenceSession, CallSession, BindSession,
                      FenceTurn, Fence, CallTurn, TurnAccepted, RecordEvent,
                      Active, ActiveStatus
  <1>10. ASSUME NEW i \in Instances, NEW r \in Runs,
               \/ InterruptQueued(i, r) \/ CancelCall(i, r) \/ Finalize(i, r)
               \/ \E c \in {"not", "may"} : CallFails(i, r, c)
               \/ Reconcile(i, r) \/ ReconcileFails(i, r) \/ TaskFails(i, r)
        PROVE  run'[s] = run[s]
    BY <1>3, <1>4, <1>10 DEF InterruptQueued, CancelCall, Finalize, CallFails,
                             Reconcile, ReconcileFails, TaskFails
  <1>11. ASSUME NEW i \in Instances, NEW r \in Runs, NEW f \in Runs,
                FallBack(i, r, f) \/ StartFallback(i, r, f)
         PROVE  run'[s] = run[s]
    <2>1. CASE UNCHANGED run
      BY <2>1
    <2>2. CASE /\ Active(r) /\ run[f].status = "absent"
               /\ run' = [run EXCEPT
                      ![r] = FailedRow(r, "not"),
                      ![f] = ClaimedRow(i, r, run[r].command, FALSE)]
      <3>1. s # r /\ s # f
        BY <2>2, ActiveNotTerminal DEF Terminal, TerminalStatus
      <3>. QED  BY <2>2, <3>1 DEF TypeOK
    <2>. QED  BY <1>11, <2>1, <2>2 DEF FallBack, StartFallback
  <1>. QED  BY <1>1, <1>5, <1>6, <1>7, <1>8, <1>9, <1>10, <1>11
            DEF Next, PassStep, AttemptStep, vars

(* No late task, reconciler, recovery claim or fallback rewrites a         *)
(* terminal outcome.                                                       *)
THEOREM OutcomesAreFinal == Spec => OutcomeIsFinal
  BY TypeCorrect, FinalStep, PTL DEF Spec, OutcomeIsFinal

(* Whether a task may have moved, and what its step wrote *)
LEMMA OneTaskMoves ==
    ASSUME TypeOK, NEW i \in Instances, NEW r \in Runs, NEW pc \in AttemptPc,
           Goto(i, r, pc)
    PROVE  \A j \in Instances, s \in Runs :
               j # i \/ s # r => att'[j][s] = att[j][s]
  BY DEF TypeOK, Goto

LEMMA FencedStep ==
    ASSUME IInv, [Next]_vars, NEW j \in Instances, NEW s \in Runs,
           att[j][s] # "none", att'[j][s] # att[j][s], ~Owns(j, s)
    PROVE  run' = run
  <1>. SUFFICES ASSUME run' # run PROVE FALSE
    OBVIOUS
  <1>. TypeOK
    BY DEF IInv
  <1>1. ASSUME UNCHANGED run \/ UNCHANGED att PROVE FALSE
    BY <1>1
  <1>2. ASSUME NEW i \in Instances, NEW r \in Runs, NEW pc \in AttemptPc,
               Goto(i, r, pc), Owns(i, r) \/ att[i][r] = "none"
        PROVE  FALSE
    BY <1>2, OneTaskMoves
  <1>3. "none" \in AttemptPc /\ "queued" \in AttemptPc /\ "handover" \in AttemptPc
    BY DEF AttemptPc, BeforeTurn
  <1>4. ASSUME NEW i \in Instances, NEW r \in Runs, EndAttempt(i, r), Owns(i, r)
        PROVE  FALSE
    BY <1>2, <1>3, <1>4 DEF EndAttempt
  <1>5. ASSUME NEW i \in Instances, NEW r \in Runs, NEW st,
               CloseOwned(i, r, st)
        PROVE  FALSE
    BY <1>1, <1>4, <1>5 DEF CloseOwned
  <1>6. ASSUME NEW r \in Runs, Lapse(r) PROVE FALSE
    BY <1>1, <1>6 DEF Lapse
  <1>7. ASSUME NEW i \in Instances,
               \/ Boot(i) \/ Crash(i) \/ BeginShutdown(i) \/ Exit(i)
               \/ StartPass(i) \/ ListQueued(i) \/ EndPass(i) \/ PassFails(i)
        PROVE  FALSE
    BY <1>1, <1>7 DEF Boot, Crash, BeginShutdown, Exit, StartPass, ListQueued,
                      EndPass, PassFails
  <1>8. ASSUME NEW i \in Instances, NEW r \in Runs,
               \/ \E c \in Commands : Submit(i, r, c)
               \/ RequestStop(i, r) \/ RenewalFails(i, r)
        PROVE  FALSE
    <2>1. ASSUME NEW c \in Commands, Submit(i, r, c) PROVE FALSE
      <3>1. att[i][r] = "none"
        BY <2>1 DEF Submit, IInv, RowInv, AbsentIsBlank, TaskInv, TaskIsClaimed
      <3>. QED  BY <1>2, <1>3, <2>1, <3>1 DEF Submit
    <2>. QED  BY <1>1, <1>8, <2>1 DEF RequestStop, RenewalFails
  <1>9. ASSUME NEW i \in Instances, NEW r \in Runs,
               \/ ClaimForRecovery(i, r) \/ InterruptOwnedRecovery(i, r)
               \/ RecoverPersisted(i, r) \/ RecoveryQueueFull(i, r)
               \/ PromotionLost(i, r)
        PROVE  FALSE
    <2>1. CASE RecoverPersisted(i, r) /\ run[r].status = "queued"
               /\ run[r].certainty # "may" /\ Goto(i, r, "queued")
      <3>1. att[i][r] = "none"
        BY <2>1 DEF IInv, RowInv, NotMeansFailed, TaskInv, TaskIsClaimed
      <3>. QED  BY <1>2, <1>3, <2>1, <3>1
    <2>. QED  BY <1>1, <1>9, <2>1
              DEF ClaimForRecovery, InterruptOwnedRecovery, RecoverPersisted,
                  Promotable, RecoveryQueueFull, PromotionLost
  <1>10. ASSUME NEW i \in Instances, NEW r \in Runs,
               \/ Begin(i, r) \/ FenceSession(i, r) \/ CallSession(i, r)
               \/ BindSession(i, r) \/ FenceTurn(i, r) \/ CallTurn(i, r)
               \/ TurnAccepted(i, r) \/ RecordEvent(i, r)
         PROVE  FALSE
    <2>1. CASE BindSession(i, r) /\ Owns(i, r) /\ Goto(i, r, "bound")
      <3>1. "bound" \in AttemptPc
        BY DEF AttemptPc, BeforeTurn
      <3>. QED  BY <1>2, <2>1, <3>1
    <2>. QED  BY <1>1, <1>10, <2>1
              DEF Begin, FenceSession, CallSession, BindSession, FenceTurn,
                  Fence, CallTurn, TurnAccepted, RecordEvent
  <1>11. ASSUME NEW i \in Instances, NEW r \in Runs,
               \/ InterruptQueued(i, r) \/ CancelCall(i, r) \/ Finalize(i, r)
               \/ \E c \in {"not", "may"} : CallFails(i, r, c)
               \/ Reconcile(i, r) \/ ReconcileFails(i, r) \/ TaskFails(i, r)
         PROVE  FALSE
    BY <1>1, <1>4, <1>5, <1>11
       DEF InterruptQueued, CancelCall, Finalize, CallFails, Reconcile,
           ReconcileFails, TaskFails
  <1>12. ASSUME NEW i \in Instances, NEW r \in Runs, NEW f \in Runs,
                FallBack(i, r, f) \/ StartFallback(i, r, f)
         PROVE  FALSE
    <2>1. CASE Owns(i, r) /\ Goto(i, r, "handover")
      BY <1>2, <1>3, <2>1
    <2>. QED  BY <1>1, <1>12, <2>1 DEF FallBack, StartFallback
  <1>. QED  BY <1>1, <1>6, <1>7, <1>8, <1>9, <1>10, <1>11, <1>12
            DEF Next, PassStep, AttemptStep, vars

(* Whoever lost its row to recovery changes nothing durable *)
THEOREM FormerOwnersAreFenced == Spec => FormerOwnerIsFenced
  <1>1. IInv /\ [Next]_vars =>
            [\A i \in Instances, r \in Runs :
                /\ att[i][r] # "none" /\ att'[i][r] # att[i][r]
                /\ Running(i) /\ ~Owns(i, r)
                => run' = run]_vars
    BY FencedStep
  <1>. QED  BY <1>1, InductiveInvariant, PTL DEF Spec, FormerOwnerIsFenced

-----------------------------------------------------------------------------
(* The ledger *)

LEMMA InitLedger == Init => Ledger!Init
  <1>. SUFFICES ASSUME Init PROVE Ledger!Init
    OBVIOUS
  <1>1. IInv
    BY InitInv
  <1>2. AcceptedCommands \subseteq Commands
    BY <1>1 DEF IInv, TypeOK, Row, RowInv, AbsentIsBlank, PresentHasCommand,
                AcceptedCommands
  <1>3. StartedCommands \subseteq AcceptedCommands
    <2>1. \A r \in Runs : effects[r] > 0 => run[r].command \in Commands
      BY <1>1 DEF IInv, TypeOK, RowInv, AbsentIsBlank, PresentHasCommand
    <2>. QED  BY <2>1, DispatchConstants DEF StartedCommands, AcceptedCommands
  <1>4. \A r \in Runs : ~Terminal(r)
    <2>1. \A row \in LegacyShape : row.status \in ActiveStatus
      BY DEF LegacyShape, LegacyRows, ActiveStatus
    <2>0. PICK legacy \in SUBSET LegacyRuns :
            \E shape \in [legacy -> LegacyShape], sent \in [legacy -> Commands] :
              run = [r \in Runs |-> IF r \in legacy
                                    THEN [shape[r] EXCEPT !.command = sent[r]]
                                    ELSE NoRow]
      BY DEF Init
    <2>2. PICK shape \in [legacy -> LegacyShape], sent \in [legacy -> Commands] :
              run = [r \in Runs |-> IF r \in legacy
                                    THEN [shape[r] EXCEPT !.command = sent[r]]
                                    ELSE NoRow]
      BY <2>0
    <2>3. \A row \in LegacyShape, c \in Commands :
              [row EXCEPT !.command = c].status = row.status
      BY DEF LegacyShape, LegacyRows
    <2>4. \A r \in Runs : run[r].status \in ActiveStatus \cup {"absent"}
      BY <2>1, <2>2, <2>3 DEF NoRow
    <2>. QED  BY <2>4 DEF Terminal, TerminalStatus, ActiveStatus
  <1>5. ClosedCommands = {}
    BY <1>4 DEF ClosedCommands, AcceptedCommands
  <1>. QED  BY <1>2, <1>3, <1>5 DEF Ledger!Init

(* A step that inserts nothing and starts nothing, and after which only    *)
(* one message can be newly closed.                                        *)
LEMMA ClosingStep ==
    ASSUME IInv, IInv', NEW r \in Runs, UNCHANGED effects,
           \A s \in Runs : run'[s].command = run[s].command,
           \A s \in Runs : s # r => run'[s] = run[s],
           ~Terminal(r)
    PROVE  [Ledger!Next]_<<AcceptedCommands, StartedCommands, ClosedCommands>>
  <1>. DEFINE c == run[r].command
  <1>1. AcceptedCommands' = AcceptedCommands
    BY DEF AcceptedCommands
  <1>2. StartedCommands' = StartedCommands
    BY DEF StartedCommands
  <1>3. \A d \in AcceptedCommands \ {c} :
            d \in ClosedCommands' <=> d \in ClosedCommands
    BY <1>1 DEF ClosedCommands, Terminal
  <1>4. c \notin ClosedCommands
    BY DEF ClosedCommands
  <1>5. ClosedCommands \subseteq AcceptedCommands
        /\ ClosedCommands' \subseteq AcceptedCommands
    BY <1>1 DEF ClosedCommands
  <1>6. CASE c \in ClosedCommands'
    <2>1. ClosedCommands' = ClosedCommands \cup {c}
      BY <1>3, <1>5, <1>6
    <2>2. c \in Commands
      BY <1>5, <1>6 DEF IInv, TypeOK, Row, RowInv, AbsentIsBlank,
                        PresentHasCommand, AcceptedCommands
    <2>. QED  BY <1>1, <1>2, <1>4, <1>5, <1>6, <2>1, <2>2
              DEF Ledger!Next, Ledger!Close
  <1>7. CASE c \notin ClosedCommands'
    <2>1. ClosedCommands' = ClosedCommands
      BY <1>3, <1>4, <1>5, <1>7
    <2>. QED  BY <1>1, <1>2, <2>1
  <1>. QED  BY <1>6, <1>7

LEMMA SubmitAccepts ==
    ASSUME IInv, NEW i \in Instances, NEW r \in Runs, NEW c \in Commands,
           Submit(i, r, c)
    PROVE  Ledger!Accept(c)
  <1>1. /\ run[r].status = "absent" /\ run[r].command = NoCommand
        /\ effects[r] = 0 /\ UNCHANGED effects
    BY DEF Submit, IInv, RowInv, AbsentIsBlank
  <1>2. /\ run'[r].status = "queued" /\ run'[r].command = c
        /\ \A s \in Runs : s # r => run'[s] = run[s]
    BY DEF Submit, IInv, TypeOK, Update, ClaimedRow, NoRow
  <1>3. c # NoCommand /\ \A s \in Runs : run[s].command # c
    BY DispatchConstants DEF Submit, CommandStored
  <1>4. c \notin AcceptedCommands /\ AcceptedCommands' = AcceptedCommands \cup {c}
    BY <1>1, <1>2, <1>3 DEF AcceptedCommands
  <1>5. StartedCommands' = StartedCommands
    BY <1>1, <1>2 DEF StartedCommands
  <1>6. ClosedCommands' = ClosedCommands
    <2>1. c \notin ClosedCommands'
      BY <1>2 DEF ClosedCommands, Terminal, TerminalStatus
    <2>2. \A d \in AcceptedCommands : d # c /\ d # NoCommand
      BY <1>4 DEF AcceptedCommands
    <2>3. \A d \in AcceptedCommands :
              d \in ClosedCommands' <=> d \in ClosedCommands
      BY <1>1, <1>2, <1>4, <2>2 DEF ClosedCommands, Terminal
    <2>. QED  BY <1>4, <2>1, <2>3 DEF ClosedCommands
  <1>. QED  BY <1>4, <1>5, <1>6 DEF Ledger!Accept

LEMMA TurnStarts ==
    ASSUME IInv, NEW i \in Instances, NEW r \in Runs, CallTurn(i, r)
    PROVE  [Ledger!Next]_<<AcceptedCommands, StartedCommands, ClosedCommands>>
  <1>1. AcceptedCommands' = AcceptedCommands /\ ClosedCommands' = ClosedCommands
    BY DEF CallTurn, AcceptedCommands, ClosedCommands, Terminal
  <1>2. CASE UNCHANGED effects
    BY <1>1, <1>2 DEF CallTurn, StartedCommands
  <1>3. CASE effects' = [effects EXCEPT ![r] = @ + 1]
    <2>. DEFINE c == run[r].command
    <2>1. IInv'
      BY StepInv DEF Next, AttemptStep
    <2>2. OneTurnPerMessage'
      BY <2>1, TurnsAreUnique, PTL
    <2>3. effects[r] = 0 /\ effects'[r] = 1 /\ run' = run
          /\ \A s \in Runs : s # r => effects'[s] = effects[s]
      BY <1>3 DEF CallTurn, IInv, TypeOK, TaskInv, TurnsAreCounted, BeforeTurn
    <2>4. c \notin StartedCommands
      <3>1. ASSUME NEW s \in Runs, effects[s] > 0, run[s].command = c
            PROVE  FALSE
        <4>1. s # r
          BY <2>3, <3>1
        <4>2. effects'[s] > 0 /\ effects'[r] > 0
          BY <2>3, <3>1, <4>1
        <4>. QED  BY <2>2, <2>3, <3>1, <4>1, <4>2 DEF OneTurnPerMessage
      <3>. QED  BY <3>1 DEF StartedCommands
    <2>5. StartedCommands' = StartedCommands \cup {c}
      BY <2>3 DEF StartedCommands
    <2>6. c \in Commands /\ c \in AcceptedCommands
      <3>1. run[r].status # "absent"
        BY DEF CallTurn, IInv, RowInv, AbsentIsBlank, TaskInv, TaskIsClaimed
      <3>. QED  BY <3>1, DispatchConstants
                DEF IInv, RowInv, PresentHasCommand, AcceptedCommands
    <2>. QED  BY <1>1, <2>4, <2>5, <2>6 DEF Ledger!Next, Ledger!Start
  <1>. QED  BY <1>2, <1>3 DEF CallTurn

(* A primary that falls back hands its message to the fallback: the ledger *)
(* does not notice.                                                        *)
LEMMA FallBackStutters ==
    ASSUME IInv, NEW i \in Instances, NEW r \in Runs, NEW f \in Runs,
           FallBack(i, r, f)
    PROVE  UNCHANGED <<AcceptedCommands, StartedCommands, ClosedCommands>>
  <1>1. CASE UNCHANGED run
    BY <1>1 DEF FallBack, AcceptedCommands, StartedCommands, ClosedCommands,
                Terminal
  <1>2. CASE /\ Active(r)
             /\ run' = [run EXCEPT
                    ![r] = FailedRow(r, "not"),
                    ![f] = ClaimedRow(i, r, run[r].command, FALSE)]
    <2>. DEFINE c == run[r].command
    <2>1. /\ run[f].status = "absent" /\ effects[f] = 0 /\ f # r
          /\ run[f].command = NoCommand /\ UNCHANGED effects
      BY <1>2 DEF FallBack, IInv, RowInv, AbsentIsBlank, Active, ActiveStatus
    <2>2. /\ run'[r] = FailedRow(r, "not")
          /\ run'[f] = ClaimedRow(i, r, c, FALSE)
          /\ \A s \in Runs : s # r /\ s # f => run'[s] = run[s]
      BY <1>2, <2>1 DEF IInv, TypeOK
    <2>3. /\ run'[r].command = c
          /\ run'[f].command = c /\ run'[f].status = "queued"
      <3>1. run[r] \in Row
        BY DEF IInv, TypeOK
      <3>. QED  BY <2>2, <3>1 DEF FailedRow, ClaimedRow, NoRow, Row
    <2>4. AcceptedCommands' = AcceptedCommands
      BY <2>1, <2>2, <2>3 DEF AcceptedCommands
    <2>5. StartedCommands' = StartedCommands
      BY <2>1, <2>2, <2>3 DEF StartedCommands
    <2>6. c \notin ClosedCommands /\ c \notin ClosedCommands'
      BY <1>2, <2>3, ActiveNotTerminal
         DEF ClosedCommands, Terminal, TerminalStatus
    <2>7. \A d \in AcceptedCommands \ {c} :
              d \in ClosedCommands' <=> d \in ClosedCommands
      <3>1. \A d \in AcceptedCommands : d # NoCommand
        BY DEF AcceptedCommands
      <3>. QED  BY <2>1, <2>2, <2>3, <2>4, <3>1 DEF ClosedCommands, Terminal
    <2>8. ClosedCommands' = ClosedCommands
      BY <2>4, <2>6, <2>7 DEF ClosedCommands
    <2>. QED  BY <2>4, <2>5, <2>8
  <1>. QED  BY <1>1, <1>2 DEF FallBack

LEMMA QuietStutters ==
    ASSUME UNCHANGED <<run, effects>>
    PROVE  UNCHANGED <<AcceptedCommands, StartedCommands, ClosedCommands>>
  BY DEF AcceptedCommands, StartedCommands, ClosedCommands, Terminal

LEMMA StepLedger ==
    IInv /\ [Next]_vars =>
        [Ledger!Next]_<<AcceptedCommands, StartedCommands, ClosedCommands>>
  <1>. SUFFICES ASSUME IInv, [Next]_vars
                PROVE  [Ledger!Next]_<<AcceptedCommands, StartedCommands,
                                       ClosedCommands>>
    OBVIOUS
  <1>. DEFINE Goal == [Ledger!Next]_<<AcceptedCommands, StartedCommands,
                                      ClosedCommands>>
  <1>. TypeOK /\ IInv'
    BY StepInv DEF IInv
  <1>1. ASSUME UNCHANGED <<run, effects>> PROVE Goal
    BY <1>1, QuietStutters
  <1>2. ASSUME NEW r \in Runs, NEW row, Update(r, row), Active(r),
               row.command = run[r].command, UNCHANGED effects
        PROVE  Goal
    <2>1. /\ ~Terminal(r) /\ run'[r] = row
          /\ \A s \in Runs : s # r => run'[s] = run[s]
      BY <1>2, ActiveNotTerminal DEF Update, TypeOK
    <2>2. \A s \in Runs : run'[s].command = run[s].command
      BY <1>2, <2>1
    <2>. QED  BY <1>2, <2>1, <2>2, ClosingStep
  <1>3. \A r \in Runs : run[r] \in Row
    BY DEF TypeOK
  <1>4. \A r \in Runs :
            /\ \A st : ClosedRow(r, st).command = run[r].command
            /\ \A ce : FailedRow(r, ce).command = run[r].command
            /\ \A b : /\ [run[r] EXCEPT !.stale = b].command = run[r].command
                      /\ [run[r] EXCEPT !.session = b].command = run[r].command
                      /\ [run[r] EXCEPT !.status = b].command = run[r].command
                      /\ [run[r] EXCEPT !.mutation = b].command
                            = run[r].command
    BY <1>3 DEF ClosedRow, FailedRow, Row
  <1>5. ASSUME NEW i \in Instances, NEW r \in Runs, NEW st,
               CloseOwned(i, r, st), UNCHANGED effects
        PROVE  Goal
    BY <1>1, <1>2, <1>4, <1>5 DEF CloseOwned
  <1>6. ASSUME NEW r \in Runs, Lapse(r) PROVE Goal
    BY <1>2, <1>4, <1>6 DEF Lapse
  <1>7. ASSUME NEW i \in Instances,
               \/ Boot(i) \/ Crash(i) \/ BeginShutdown(i) \/ Exit(i)
               \/ StartPass(i) \/ ListQueued(i) \/ EndPass(i) \/ PassFails(i)
        PROVE  Goal
    BY <1>1, <1>7 DEF Boot, Crash, BeginShutdown, Exit, StartPass, ListQueued,
                      EndPass, PassFails
  <1>8. ASSUME NEW i \in Instances, NEW r \in Runs,
               \/ \E c \in Commands : Submit(i, r, c)
               \/ RequestStop(i, r) \/ RenewalFails(i, r)
        PROVE  Goal
    BY <1>1, <1>8, SubmitAccepts DEF RequestStop, RenewalFails, Ledger!Next
  <1>9. ASSUME NEW i \in Instances, NEW r \in Runs,
               \/ ClaimForRecovery(i, r) \/ InterruptOwnedRecovery(i, r)
               \/ RecoverPersisted(i, r) \/ RecoveryQueueFull(i, r)
               \/ PromotionLost(i, r)
        PROVE  Goal
    <2>1. run[r] \in Row
      BY <1>3
    <2>2. CASE ClaimForRecovery(i, r)
      <3>1. ASSUME NEW k \in ClaimIds, Claimable(i, r),
                   Update(r, [run[r] EXCEPT !.owner = <<i, k>>,
                                            !.stale = FALSE])
            PROVE  Goal
        <4>. DEFINE row == [run[r] EXCEPT !.owner = <<i, k>>, !.stale = FALSE]
        <4>1. row.command = run[r].command
          BY <2>1 DEF Row
        <4>2. Update(r, row) /\ Active(r) /\ UNCHANGED effects
          BY <2>2, <3>1 DEF ClaimForRecovery, Claimable
        <4>. HIDE DEF row
        <4>. QED  BY <1>2, <4>1, <4>2
      <3>. QED  BY <1>1, <2>2, <3>1 DEF ClaimForRecovery
    <2>3. CASE InterruptOwnedRecovery(i, r)
      BY <1>1, <1>2, <1>4, <2>3 DEF InterruptOwnedRecovery
    <2>4. CASE RecoverPersisted(i, r) \/ PromotionLost(i, r)
      <3>1. \/ UNCHANGED <<run, effects>>
            \/ Update(r, Promoted(i, r)) /\ Active(r) /\ UNCHANGED effects
        BY <2>4 DEF RecoverPersisted, PromotionLost, Promotable, Active,
                    ActiveStatus
      <3>. QED  BY <1>1, <1>2, <3>1, PromotedRow
    <2>5. CASE RecoveryQueueFull(i, r)
      BY <1>1, <2>5 DEF RecoveryQueueFull
    <2>. QED  BY <1>9, <2>2, <2>3, <2>4, <2>5
  <1>10. ASSUME NEW i \in Instances, NEW r \in Runs,
               \/ Begin(i, r) \/ FenceSession(i, r) \/ CallSession(i, r)
               \/ FenceTurn(i, r) \/ CallTurn(i, r) \/ TurnAccepted(i, r)
         PROVE  Goal
    BY <1>1, <1>10, TurnStarts
       DEF Begin, FenceSession, CallSession, FenceTurn, Fence, TurnAccepted
  <1>11. ASSUME NEW i \in Instances, NEW r \in Runs,
                BindSession(i, r) \/ RecordEvent(i, r)
         PROVE  Goal
    BY <1>1, <1>2, <1>4, <1>11
       DEF BindSession, RecordEvent, Active, ActiveStatus
  <1>12. ASSUME NEW i \in Instances, NEW r \in Runs,
               \/ InterruptQueued(i, r) \/ CancelCall(i, r) \/ Finalize(i, r)
               \/ \E c \in {"not", "may"} : CallFails(i, r, c)
               \/ Reconcile(i, r) \/ ReconcileFails(i, r) \/ TaskFails(i, r)
         PROVE  Goal
    BY <1>1, <1>2, <1>4, <1>5, <1>12
       DEF InterruptQueued, CancelCall, Finalize, CallFails, Reconcile,
           ReconcileFails, TaskFails
  <1>13. ASSUME NEW i \in Instances, NEW r \in Runs, NEW f \in Runs,
                FallBack(i, r, f) \/ StartFallback(i, r, f)
         PROVE  Goal
    BY <1>1, <1>13, FallBackStutters DEF StartFallback
  <1>14. ASSUME UNCHANGED vars PROVE Goal
    BY <1>1, <1>14 DEF vars
  <1>. HIDE DEF Goal
  <1>15. Goal
    BY <1>6, <1>7, <1>8, <1>9, <1>10, <1>11, <1>12, <1>13, <1>14
       DEF Next, PassStep, AttemptStep
  <1>. QED  BY <1>15 DEF Goal

(* The application implements the ledger: every message is accepted once,  *)
(* starts at most one provider turn and, once closed, stays closed.        *)
THEOREM LedgerImplemented == Spec => ImplementsLedger
  <1>1. IInv /\ [Next]_vars => [Ledger!Next]_Ledger!ledger
    BY StepLedger DEF Ledger!ledger
  <1>. QED  BY <1>1, InitLedger, InductiveInvariant, PTL
            DEF Spec, ImplementsLedger, Ledger!Spec
=============================================================================
