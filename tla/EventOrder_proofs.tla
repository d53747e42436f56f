-------------------------- MODULE EventOrder_proofs --------------------------
(***************************************************************************)
(* Proofs about EventOrder for any number of children, events and turns    *)
(* and for queues of any length: the root task and the store agree on the  *)
(* one request the run waits for.                                          *)
(***************************************************************************)
EXTENDS EventOrder, FiniteSetTheorems, TLAPS

-----------------------------------------------------------------------------
(* The inductive invariant.  It speaks of the attempt until it is finished: *)
(* what the queues hold after that is never read.                          *)

Outputs == {"message", "operation"}
OfChildren == {"operation", "start", "end"}

Queued == Seq(DOMAIN sent)
Requests == {None} \cup DOMAIN sent
Queues == [buffered : Queued, prefix : Nat, deferred : Queued, controls : Queued,
           pending : Requests, hand : Requests, displaced : BOOLEAN]

\* What is queued was received, and what only a child sends came from one.
QueueInv ==
  /\ sent \in Seq(Event)
  /\ \A n \in DOMAIN sent : Kind(n) \in OfChildren => Owner(n) \in Children
  /\ mem \in Queues
  /\ job \in [req : Requests, reply : {"none", "sent", "ok", "refused"}]

\* The staged prefix is a part of the buffer, behind nothing the parked loop
\* would take from it.
PrefixFits(m) ==
  /\ m.prefix <= Len(m.buffered)
  /\ m.prefix > 0 => Kind(Head(m.buffered)) \in Outputs

PrefixInv ==
  /\ PrefixFits(mem)
  /\ root.pc \in {"received", "gate"} => mem.hand # None
  /\ root.pc = "gate" => Kind(mem.hand) \notin Terminals
  /\ root.pc \in {"received", "gate"} /\ Kind(mem.hand) \in Outputs =>
       mem.buffered = <<>> \/ Kind(Head(mem.buffered)) \in Outputs

Fields == {"run", "agent", "turn", "live", "approvals", "log", "staged"}

RowInv ==
  /\ DOMAIN db = Fields
  /\ db.run \in {"running", "waiting"}
  /\ db.agent \in [Agents -> {"running", "waiting", "ended"}]
  /\ db.turn \in [Children -> Nat]
  /\ db.live \in [Children -> BOOLEAN]
  /\ db.agent[Root] # "ended"
  /\ \A c \in Children : db.live[c] <=> db.agent[c] # "ended"

\* Exactly the owner of the selected request waits, in the turn that asked.
WaitInv ==
  /\ db.approvals = {mem.pending} \ {None}
  /\ db.run = "waiting" <=> mem.pending # None
  /\ \A a \in Agents :
       db.agent[a] = "waiting" <=> mem.pending # None /\ Owner(mem.pending) = a
  /\ PendingChild => LiveTurn(db, mem.pending)

Active == root.pc # "done"

Positions == [pc : {"loop", "received", "gate", "done"},
              finish : {"none", "terminal", "capacity", "error", "broken"}]

IInv ==
  /\ root \in Positions
  /\ Active => QueueInv /\ PrefixInv /\ RowInv /\ WaitInv

-----------------------------------------------------------------------------
(* A sifted queue is a queue.                                              *)

\* Every set of natural numbers that has an element has a least one.
LEMMA Least ==
  ASSUME NEW T, T \subseteq Nat, NEW n \in T
  PROVE  \E x \in T : \A y \in T : x <= y
<1>. DEFINE S == FiniteSubsetsOf(0..n)
            U == {0..m : m \in {k \in T : k <= n}}
<1>1. IsWellFoundedOn(StrictSubsetOrdering(0..n), S)
  BY FS_StrictSubsetOrderingWellFounded
<1>2. U \subseteq S
  <2>. SUFFICES ASSUME NEW m \in T, m <= n PROVE 0..m \in S
    OBVIOUS
  <2>1. IsFiniteSet(0..m)
    BY FS_Interval
  <2>. QED BY <2>1 DEF FiniteSubsetsOf
<1>3. U # {}
  OBVIOUS
<1>4. PICK x \in U : \A y \in U : <<y, x>> \notin StrictSubsetOrdering(0..n)
  <2>. HIDE DEF U, S
  <2>. QED BY <1>1, <1>2, <1>3, WFMin
<1>5. PICK m \in T : m <= n /\ x = 0..m
  OBVIOUS
<1>6. SUFFICES ASSUME NEW y \in T, ~(m <= y) PROVE FALSE
  OBVIOUS
<1>7. y <= n /\ 0..y \subseteq 0..m /\ 0..y # 0..m /\ 0..y \subseteq 0..n /\ 0..m \subseteq 0..n
  <2>. y \in Nat /\ m \in Nat /\ n \in Nat
    OBVIOUS
  <2>. m \in 0..m /\ m \notin 0..y
    BY <1>6
  <2>. QED BY <1>5, <1>6
<1>8. <<0..y, 0..m>> \in StrictSubsetOrdering(0..n)
  <2>. HIDE DEF U, S
  <2>. QED BY <1>7 DEF StrictSubsetOrdering
<1>. QED BY <1>4, <1>5, <1>7, <1>8

\* g lists what Sifted keeps of s up to each place before n.
Keeps(g, s, S, n) ==
  g = [i \in 0..n |-> IF i = 0 THEN <<>>
                      ELSE IF s[i] \in S THEN Append(g[i - 1], s[i]) ELSE g[i - 1]]

\* The equation that defines Sifted has a solution.
LEMMA SiftedExists ==
  ASSUME NEW A, NEW s \in Seq(A), NEW S, NEW n \in 0..Len(s)
  PROVE  \E g : Keeps(g, s, S, n)
<1>. DEFINE Bad == {m \in 0..Len(s) : ~\E g : Keeps(g, s, S, m)}
<1>. Len(s) \in Nat
  OBVIOUS
<1>1. SUFFICES ASSUME n \in Bad PROVE FALSE
  OBVIOUS
<1>2. PICK m \in Bad : \A k \in Bad : m <= k
  <2>1. Bad \subseteq Nat
    OBVIOUS
  <2>. HIDE DEF Bad
  <2>. QED BY <1>1, <2>1, Least
<1>3. m # 0
  <2>1. Keeps([i \in 0..0 |-> <<>>], s, S, 0)
    BY DEF Keeps
  <2>. QED BY <2>1, <1>2
<1>4. m - 1 \in 0..Len(s) /\ m - 1 \notin Bad
  <2>. m \in 0..Len(s)
    OBVIOUS
  <2>. HIDE DEF Bad
  <2>. QED BY <1>2, <1>3
<1>5. PICK g : Keeps(g, s, S, m - 1)
  BY <1>4
<1>. DEFINE h == [i \in 0..m |-> IF i < m THEN g[i]
                    ELSE IF s[i] \in S THEN Append(g[i - 1], s[i]) ELSE g[i - 1]]
<1>6. ASSUME NEW i \in 0..m
      PROVE  h[i] = IF i = 0 THEN <<>>
                    ELSE IF s[i] \in S THEN Append(h[i - 1], s[i]) ELSE h[i - 1]
  <2>1. CASE i < m
    <3>1. i \in 0..m - 1 /\ h[i] = g[i]
      BY <2>1
    <3>2. i # 0 => h[i - 1] = g[i - 1]
      BY <2>1
    <3>3. g[i] = IF i = 0 THEN <<>>
                 ELSE IF s[i] \in S THEN Append(g[i - 1], s[i]) ELSE g[i - 1]
      <4>. HIDE DEF h
      <4>. QED BY <3>1, <1>5 DEF Keeps
    <3>. HIDE DEF h
    <3>. QED BY <3>1, <3>2, <3>3
  <2>2. CASE i = m
    BY <2>2, <1>3
  <2>. QED BY <2>1, <2>2
<1>7. Keeps(h, s, S, m)
  BY <1>6 DEF Keeps
<1>. QED BY <1>7, <1>2

LEMMA SiftedIsQueue ==
  ASSUME NEW A, NEW s \in Seq(A), NEW S
  PROVE  Sifted(s, S) \in Seq(A)
<1>. Len(s) \in Nat /\ Len(s) \in 0..Len(s)
  OBVIOUS
<1>1. PICK g : Keeps(g, s, S, Len(s)) /\ Sifted(s, S) = g[Len(s)]
  <2>1. \E g : Keeps(g, s, S, Len(s))
    BY SiftedExists
  <2>. QED BY <2>1 DEF Sifted, Keeps
<1>. DEFINE Bad == {m \in 0..Len(s) : g[m] \notin Seq(A)}
<1>2. SUFFICES ASSUME Len(s) \in Bad PROVE FALSE
  BY <1>1
<1>3. PICK m \in Bad : \A k \in Bad : m <= k
  <2>1. Bad \subseteq Nat
    OBVIOUS
  <2>. HIDE DEF Bad
  <2>. QED BY <1>2, <2>1, Least
<1>4. g[m] = IF m = 0 THEN <<>>
             ELSE IF s[m] \in S THEN Append(g[m - 1], s[m]) ELSE g[m - 1]
  BY <1>1 DEF Keeps
<1>5. m \in 0..Len(s) /\ g[m] \notin Seq(A)
  OBVIOUS
<1>6. m # 0
  BY <1>4, <1>5
<1>7. m - 1 \in 0..Len(s) /\ m - 1 \notin Bad
  <2>. HIDE DEF Bad
  <2>. QED BY <1>3, <1>5, <1>6
<1>8. g[m - 1] \in Seq(A) /\ s[m] \in A
  BY <1>5, <1>6, <1>7
<1>. QED BY <1>4, <1>5, <1>6, <1>8

-----------------------------------------------------------------------------
(* What the writes to the store leave of the rows.                         *)

LEMMA DrainedRows ==
  ASSUME NEW d, DOMAIN d = Fields, NEW agents
  PROVE  /\ DOMAIN Drained(d, agents) = Fields
         /\ \A f \in Fields \ {"log", "staged"} : Drained(d, agents)[f] = d[f]
BY DEF Drained, Fields

LEMMA LoggedRows ==
  ASSUME NEW d, DOMAIN d = Fields, NEW n
  PROVE  /\ DOMAIN Logged(d, n) = Fields
         /\ \A f \in Fields \ {"log"} : Logged(d, n)[f] = d[f]
BY DEF Logged, Fields

LEMMA RequestRecordedRows ==
  ASSUME NEW d, DOMAIN d = Fields, NEW q, d.agent \in [Agents -> {"running", "waiting", "ended"}]
  PROVE  LET e == RequestRecorded(d, q) IN
         /\ DOMAIN e = Fields
         /\ e.run = "waiting"
         /\ e.agent = [d.agent EXCEPT ![Owner(q)] = "waiting"]
         /\ e.approvals = d.approvals \cup {q}
         /\ e.turn = d.turn
         /\ e.live = d.live
<1>. DEFINE l == Logged(d, q)
<1>1. DOMAIN l = Fields /\ \A f \in Fields \ {"log"} : l[f] = d[f]
  BY LoggedRows
<1>2. RequestRecorded(d, q) =
        [l EXCEPT !.run = "waiting", !.agent[Owner(q)] = "waiting",
                  !.approvals = @ \cup {q}]
  BY DEF RequestRecorded
<1>. HIDE DEF l
<1>. QED BY <1>1, <1>2 DEF Fields

LEMMA StartRecordedRows ==
  ASSUME NEW d, DOMAIN d = Fields, NEW n
  PROVE  LET e == [Logged(d, n) EXCEPT !.turn[Owner(n)] = sent[n].turn,
                                       !.live[Owner(n)] = TRUE,
                                       !.agent[Owner(n)] = "running"]
         IN
         /\ DOMAIN e = Fields
         /\ e.run = d.run
         /\ e.agent = [d.agent EXCEPT ![Owner(n)] = "running"]
         /\ e.approvals = d.approvals
         /\ e.turn = [d.turn EXCEPT ![Owner(n)] = sent[n].turn]
         /\ e.live = [d.live EXCEPT ![Owner(n)] = TRUE]
<1>. DEFINE l == Logged(d, n)
<1>1. DOMAIN l = Fields /\ \A f \in Fields \ {"log"} : l[f] = d[f]
  BY LoggedRows
<1>. HIDE DEF l
<1>. QED BY <1>1 DEF Fields, l

LEMMA EndRecordedRows ==
  ASSUME NEW d, DOMAIN d = Fields, NEW n,
         d.agent \in [Agents -> {"running", "waiting", "ended"}], Owner(n) \in Children
  PROVE  LET e == EndRecorded(d, n)
             left == d.approvals \ OwnedBy(d.approvals, Owner(n))
         IN
         /\ DOMAIN e = Fields
         /\ e.run = IF d.run = "waiting" /\ left = {} /\ d.agent[Root] = "running"
                    THEN "running" ELSE d.run
         /\ e.agent = [d.agent EXCEPT ![Owner(n)] = "ended"]
         /\ e.approvals = left
         /\ e.turn = d.turn
         /\ e.live = [d.live EXCEPT ![Owner(n)] = FALSE]
<1>. DEFINE c == Owner(n)
            s == Drained(d, {c})
            e == [s EXCEPT !.agent[c] = "ended", !.live[c] = FALSE,
                           !.approvals = @ \ OwnedBy(@, c)]
            g == IF e.run = "waiting" /\ e.approvals = {} /\ e.agent[Root] = "running"
                 THEN [e EXCEPT !.run = "running"] ELSE e
<1>1. DOMAIN s = Fields /\ \A f \in Fields \ {"log", "staged"} : s[f] = d[f]
  BY DrainedRows
<1>2. EndRecorded(d, n) = Logged(g, n)
  BY DEF EndRecorded, ChildEnded
<1>3. /\ DOMAIN e = Fields
      /\ e.run = d.run
      /\ e.agent = [d.agent EXCEPT ![c] = "ended"]
      /\ e.live = [d.live EXCEPT ![c] = FALSE]
      /\ e.approvals = d.approvals \ OwnedBy(d.approvals, c)
      /\ e.turn = d.turn
  <2>. HIDE DEF s, c
  <2>. QED BY <1>1 DEF Fields
<1>4. e.agent[Root] = d.agent[Root]
  <2>1. Root \in Agents /\ c # Root
    BY EventOrderAssumption DEF Agents
  <2>2. e.agent = [d.agent EXCEPT ![c] = "ended"]
    BY <1>3
  <2>. HIDE DEF e, c
  <2>. QED BY <2>1, <2>2
<1>5. /\ DOMAIN g = Fields
      /\ g.run = IF d.run = "waiting" /\ e.approvals = {} /\ d.agent[Root] = "running"
                 THEN "running" ELSE d.run
      /\ g.agent = e.agent
      /\ g.live = e.live
      /\ g.approvals = e.approvals
      /\ g.turn = e.turn
  <2>. HIDE DEF e
  <2>. QED BY <1>3, <1>4 DEF Fields
<1>. HIDE DEF e, g
<1>6. DOMAIN Logged(g, n) = Fields /\ \A f \in Fields \ {"log"} : Logged(g, n)[f] = g[f]
  BY <1>5, LoggedRows
<1>. QED BY <1>2, <1>3, <1>5, <1>6 DEF Fields

LEMMA AcknowledgedRows ==
  ASSUME NEW d, DOMAIN d = Fields, NEW q,
         d.agent \in [Agents -> {"running", "waiting", "ended"}]
  PROVE  LET e == Acknowledged(d, q)
             left == d.approvals \ {q}
             agent == [d.agent EXCEPT ![Owner(q)] = "running"]
         IN
         /\ DOMAIN e = Fields
         /\ e.run = IF left # {} \/ (Owner(q) # Root /\ agent[Root] = "waiting")
                    THEN d.run ELSE "running"
         /\ e.agent = agent
         /\ e.approvals = left
         /\ e.turn = d.turn
         /\ e.live = d.live
<1>. DEFINE b == [d EXCEPT !.approvals = @ \ {q}, !.agent[Owner(q)] = "running"]
            e == Drained(b, {Owner(q)})
<1>1. /\ DOMAIN b = Fields
      /\ b.approvals = d.approvals \ {q}
      /\ b.agent = [d.agent EXCEPT ![Owner(q)] = "running"]
      /\ b.run = d.run /\ b.turn = d.turn /\ b.live = d.live
  BY DEF Fields
<1>. HIDE DEF b
<1>2. DOMAIN e = Fields /\ \A f \in Fields \ {"log", "staged"} : e[f] = b[f]
  BY <1>1, DrainedRows
<1>3. Acknowledged(d, q) =
        IF e.approvals # {} \/ (Owner(q) # Root /\ b.agent[Root] = "waiting")
        THEN e ELSE [e EXCEPT !.run = "running"]
  <2>1. e.agent = b.agent
    BY <1>2 DEF Fields
  <2>2. Acknowledged(d, q) =
        IF e.approvals # {} \/ (Owner(q) # Root /\ d.agent[Root] = "waiting")
        THEN e ELSE [e EXCEPT !.run = "running"]
    BY DEF Acknowledged, b
  <2>3. Owner(q) # Root => b.agent[Root] = d.agent[Root]
    BY <1>1 DEF Agents
  <2>. HIDE DEF e
  <2>. QED BY <2>1, <2>2, <2>3
<1>. HIDE DEF e
<1>. QED BY <1>1, <1>2, <1>3 DEF Fields

-----------------------------------------------------------------------------
(* The steps that end the attempt, and those of the queues.                *)

LEMMA FinishKeeps ==
  ASSUME NEW finish \in {"none", "terminal", "capacity", "error", "broken"},
         root' = [pc |-> "done", finish |-> finish]
  PROVE  IInv'
BY DEF IInv, Active, Positions

LEMMA ContinuesKeeps ==
  ASSUME IInv, Continues
  PROVE  root' \in Positions /\ root'.pc = "loop"
BY DEF IInv, Continues, Positions

\* What a received event adds to the events before it.
LEMMA SentGrows ==
  ASSUME QueueInv, NEW e \in Event, Sends(e)
  PROVE  /\ sent' \in Seq(Event)
         /\ DOMAIN sent \subseteq DOMAIN sent'
         /\ Len(sent) + 1 \in DOMAIN sent'
         /\ \A n \in DOMAIN sent : sent'[n] = sent[n]
         /\ \A n \in DOMAIN sent' : sent'[n].kind \in OfChildren => sent'[n].agent \in Children
         /\ None \notin DOMAIN sent
<1>1. sent \in Seq(Event) /\ sent' = Append(sent, e)
  BY DEF QueueInv, Sends, Queues
<1>2. e.kind \in OfChildren => e.agent \in Children
  BY DEF Sends, MaySend, OfChildren, Terminals
<1>3. /\ sent' \in Seq(Event)
      /\ Len(sent) \in Nat
      /\ DOMAIN sent = 1..Len(sent)
      /\ DOMAIN sent' = 1..Len(sent) + 1
      /\ \A n \in DOMAIN sent : sent'[n] = sent[n]
      /\ sent'[Len(sent) + 1] = e
  BY <1>1
<1>4. ASSUME NEW n \in DOMAIN sent', sent'[n].kind \in OfChildren
      PROVE  sent'[n].agent \in Children
  <2>1. CASE n \in DOMAIN sent
    BY <2>1, <1>3, <1>4 DEF QueueInv, Kind, Owner, Queues
  <2>2. CASE n = Len(sent) + 1
    BY <2>2, <1>2, <1>3, <1>4
  <2>. QED BY <1>3, <2>1, <2>2
<1>. QED BY <1>3, <1>4 DEF None

LEMMA QueueGrows ==
  ASSUME NEW S, NEW T, S \subseteq T, NEW q \in Seq(S)
  PROVE  q \in Seq(T)
OBVIOUS

LEMMA QueueTail ==
  ASSUME NEW S, NEW q \in Seq(S), q # <<>>
  PROVE  Head(q) \in S /\ Tail(q) \in Seq(S) /\ Len(Tail(q)) \in Nat
OBVIOUS

\* The rows and the request do not depend on the events received meanwhile.
LEMMA RowsKeep ==
  ASSUME QueueInv, RowInv, WaitInv, NEW e \in Event, Sends(e),
         UNCHANGED db, mem'.pending = mem.pending
  PROVE  RowInv' /\ WaitInv'
<1>1. \A n \in DOMAIN sent : sent'[n] = sent[n]
  BY SentGrows
<1>2. RowInv'
  BY DEF RowInv, Fields
<1>3. mem.pending # None => sent'[mem.pending] = sent[mem.pending]
  BY <1>1 DEF QueueInv, Requests, Queues
<1>4. WaitInv'
  BY <1>3 DEF WaitInv, PendingChild, LiveTurn, Owner
<1>. QED BY <1>2, <1>4

LEMMA ReceiveKeeps ==
  ASSUME IInv, ReceiveWaiting \/ ReceiveRunning
  PROVE  IInv'
<1>1. root.pc = "loop" /\ Active /\ QueueInv /\ PrefixInv /\ RowInv /\ WaitInv
  BY DEF IInv, ReceiveWaiting, ReceiveRunning, Parked, Listening, Active
<1>2. PICK e \in Event : Sends(e)
  BY DEF ReceiveWaiting, ReceiveRunning
<1>3. /\ sent' \in Seq(Event)
      /\ DOMAIN sent \subseteq DOMAIN sent'
      /\ Len(sent) + 1 \in DOMAIN sent'
      /\ \A n \in DOMAIN sent : sent'[n] = sent[n]
      /\ \A n \in DOMAIN sent' : sent'[n].kind \in OfChildren => sent'[n].agent \in Children
      /\ None \notin DOMAIN sent
  BY <1>1, <1>2, SentGrows
<1>4. \A q \in Queued : q \in Queued'
  BY <1>3, QueueGrows DEF Queued
<1>5. UNCHANGED <<job, db>> /\ mem'.pending = mem.pending
  BY <1>1 DEF ReceiveWaiting, ReceiveRunning, QueueInv, Queues
<1>6. RowInv' /\ WaitInv'
  BY <1>1, <1>2, <1>5, RowsKeep
<1>7. QueueInv'
  <2>1. mem' \in Queues'
    <3>1. CASE ReceiveWaiting
      BY <3>1, <1>1, <1>3, <1>4 DEF ReceiveWaiting, QueueInv, Requests, Queues
    <3>2. CASE ReceiveRunning
      <4>1. <<Len(sent) + 1>> \in Queued'
        BY <1>3 DEF Queued
      <4>. QED BY <3>2, <4>1, <1>1, <1>3, <1>4 DEF ReceiveRunning, QueueInv, Requests, Queues
    <3>. QED BY <3>1, <3>2
  <2>2. job' \in [req : Requests', reply : {"none", "sent", "ok", "refused"}]
    BY <1>1, <1>3, <1>5 DEF QueueInv, Requests, Queues
  <2>. QED BY <1>3, <2>1, <2>2 DEF QueueInv, Kind, Owner, Queues
<1>8. root' \in Positions /\ PrefixInv'
  <2>1. CASE ReceiveWaiting
    <3>1. /\ root' = [root EXCEPT !.pc = "received"]
          /\ mem' = [mem EXCEPT !.hand = Len(sent) + 1]
          /\ ~Due
      BY <2>1 DEF ReceiveWaiting
    <3>2. /\ mem'.buffered = mem.buffered /\ mem'.prefix = mem.prefix
          /\ mem'.hand = Len(sent) + 1
      BY <3>1, <1>1 DEF QueueInv, Queues
    <3>3. mem.buffered # <<>> =>
            Head(mem.buffered) \in DOMAIN sent /\ Kind(Head(mem.buffered)) \in Outputs
      BY <3>1, <1>1 DEF QueueInv, Queued, Due, IsOutput, Outputs, Queues
    <3>4. Len(sent) + 1 # None
      BY <1>1 DEF QueueInv, None, Queues
    <3>5. mem.prefix > 0 => mem.buffered # <<>>
      BY <1>1 DEF PrefixInv, QueueInv, Queues, PrefixFits
    <3>6. root' \in Positions /\ root'.pc = "received"
      BY <3>1 DEF IInv, Positions
    <3>. QED BY <3>2, <3>3, <3>4, <3>5, <3>6, <1>1, <1>3 DEF PrefixInv, Kind, PrefixFits
  <2>2. CASE ReceiveRunning
    BY <2>2, <1>1 DEF ReceiveRunning, Listening, IInv, PrefixInv, QueueInv, Queues, PrefixFits
  <2>. QED BY <2>1, <2>2
<1>. QED BY <1>6, <1>7, <1>8 DEF IInv

LEMMA ReplayKeeps ==
  ASSUME IInv, ReplayDeferred
  PROVE  IInv'
<1>1. root.pc = "loop" /\ QueueInv /\ PrefixInv /\ RowInv /\ WaitInv
  BY DEF IInv, ReplayDeferred, Active
<1>. DEFINE staged == SubSeq(mem.buffered, 1, mem.prefix)
            rest == SubSeq(mem.buffered, mem.prefix + 1, Len(mem.buffered))
            b == staged \o mem.deferred \o rest
            overtaken == \E n \in Range(rest) :
                           IsOutput(n) /\ \E m \in Range(mem.deferred) : n < m
            d == mem.displaced \/ overtaken
<1>2. /\ mem.buffered \in Seq(DOMAIN sent) /\ mem.deferred \in Seq(DOMAIN sent)
      /\ mem.prefix \in 0..Len(mem.buffered)
  BY <1>1 DEF QueueInv, PrefixInv, Queued, Queues, PrefixFits
<1>3. staged \in Seq(DOMAIN sent) /\ Len(staged) = mem.prefix
      /\ \A i \in 1..mem.prefix : staged[i] = mem.buffered[i]
  BY <1>2
<1>4. rest \in Seq(DOMAIN sent)
  BY <1>2
<1>5. /\ b \in Seq(DOMAIN sent)
      /\ mem.prefix <= Len(b)
      /\ mem.prefix > 0 => b # <<>> /\ mem.buffered # <<>> /\ b[1] = mem.buffered[1]
  <2>. HIDE DEF staged, rest
  <2>. QED BY <1>2, <1>3, <1>4
<1>6. /\ mem' = [mem EXCEPT !.buffered = b, !.deferred = <<>>, !.displaced = d]
      /\ UNCHANGED <<sent, adapter, job, db, root>>
  BY DEF ReplayDeferred
<1>. HIDE DEF overtaken
<1>. d \in BOOLEAN
  BY <1>1 DEF QueueInv, Queues, overtaken
<1>. HIDE DEF b, d
<1>7. /\ mem' \in Queues
      /\ mem'.buffered = b /\ mem'.prefix = mem.prefix /\ mem'.pending = mem.pending
  <2>. <<>> \in Queued
    BY DEF Queued
  <2>. QED BY <1>1, <1>5, <1>6 DEF QueueInv, Queued, Queues
<1>8. QueueInv'
  BY <1>1, <1>6, <1>7 DEF QueueInv, Queued, Requests, Kind, Owner, Queues
<1>9. PrefixInv'
  BY <1>1, <1>5, <1>6, <1>7 DEF PrefixInv, Kind, PrefixFits
<1>10. RowInv' /\ WaitInv'
  BY <1>1, <1>6, <1>7 DEF RowInv, WaitInv, PendingChild, LiveTurn, Owner
<1>. QED BY <1>6, <1>8, <1>9, <1>10 DEF IInv, Active

LEMMA DiscardKeeps ==
  ASSUME IInv, DiscardPrefix
  PROVE  IInv'
<1>1. root.pc = "loop" /\ QueueInv /\ PrefixInv /\ RowInv /\ WaitInv
  BY DEF IInv, DiscardPrefix, Active
<1>. DEFINE b == SubSeq(mem.buffered, mem.prefix + 1, Len(mem.buffered))
<1>2. mem.buffered \in Seq(DOMAIN sent) /\ mem.prefix \in 0..Len(mem.buffered)
  BY <1>1 DEF QueueInv, PrefixInv, Queued, Queues, PrefixFits
<1>3. b \in Seq(DOMAIN sent)
  BY <1>2
<1>4. mem' = [mem EXCEPT !.buffered = b, !.prefix = 0] /\ UNCHANGED <<sent, adapter, job, db, root>>
  BY DEF DiscardPrefix
<1>. HIDE DEF b
<1>5. /\ mem' \in Queues
      /\ mem'.buffered = b /\ mem'.prefix = 0 /\ mem'.pending = mem.pending
  BY <1>1, <1>3, <1>4 DEF QueueInv, Queued, Queues
<1>6. QueueInv'
  BY <1>1, <1>4, <1>5 DEF QueueInv, Queued, Requests, Kind, Owner, Queues
<1>7. PrefixInv'
  <2>1. Len(b) \in Nat
    BY <1>3
  <2>. QED BY <1>1, <1>4, <1>5, <2>1 DEF PrefixInv, PrefixFits
<1>8. RowInv' /\ WaitInv'
  BY <1>1, <1>4, <1>5 DEF RowInv, WaitInv, PendingChild, LiveTurn, Owner
<1>. QED BY <1>4, <1>6, <1>7, <1>8 DEF IInv, Active

LEMMA TakeDueKeeps ==
  ASSUME IInv, TakeDue
  PROVE  IInv'
<1>1. root.pc = "loop" /\ QueueInv /\ PrefixInv /\ RowInv /\ WaitInv
  BY DEF IInv, TakeDue, Parked, Active
<1>2. /\ mem.buffered \in Seq(DOMAIN sent) /\ mem.buffered # <<>>
      /\ Kind(Head(mem.buffered)) \notin Outputs
  BY <1>1 DEF QueueInv, Queued, TakeDue, Due, IsOutput, Outputs, Queues
<1>3. Head(mem.buffered) \in DOMAIN sent /\ Tail(mem.buffered) \in Seq(DOMAIN sent)
      /\ Len(Tail(mem.buffered)) \in Nat
  BY <1>2, QueueTail
<1>4. mem' = [mem EXCEPT !.hand = Head(mem.buffered), !.buffered = Tail(@)]
      /\ root' = [root EXCEPT !.pc = "received"]
      /\ UNCHANGED <<sent, adapter, job, db>>
  BY DEF TakeDue
<1>5. /\ mem' \in Queues
      /\ mem'.hand = Head(mem.buffered) /\ mem'.buffered = Tail(mem.buffered)
      /\ mem'.prefix = mem.prefix /\ mem'.pending = mem.pending
  BY <1>1, <1>3, <1>4 DEF QueueInv, Queued, Requests, Queues
<1>6. QueueInv'
  BY <1>1, <1>4, <1>5 DEF QueueInv, Queued, Requests, Kind, Owner, Queues
<1>7. root' \in Positions /\ root'.pc = "received"
  BY <1>4 DEF IInv, Positions
<1>8. PrefixInv'
  <2>1. mem.prefix = 0
    BY <1>1, <1>2 DEF PrefixInv, QueueInv, Queues, PrefixFits
  <2>2. Head(mem.buffered) # None
    BY <1>1, <1>3 DEF QueueInv, None, Queues
  <2>. QED BY <1>2, <1>3, <1>4, <1>5, <1>7, <2>1, <2>2 DEF PrefixInv, Kind, PrefixFits
<1>9. RowInv' /\ WaitInv'
  BY <1>1, <1>4, <1>5 DEF RowInv, WaitInv, PendingChild, LiveTurn, Owner
<1>. QED BY <1>6, <1>7, <1>8, <1>9 DEF IInv

-----------------------------------------------------------------------------
(* The steps that record an event.                                         *)

\* What a step that goes on with the loop has to keep.
LEMMA LoopKeeps ==
  ASSUME root' \in Positions, root'.pc = "loop", QueueInv', PrefixFits(mem)',
         RowInv', WaitInv'
  PROVE  IInv'
BY DEF IInv, PrefixInv

LEMMA QueueKeeps ==
  ASSUME QueueInv, UNCHANGED sent, mem' \in Queues,
         job' \in [req : Requests, reply : {"none", "sent", "ok", "refused"}]
  PROVE  QueueInv'
BY DEF QueueInv, Queues, Queued, Requests, Kind, Owner

LEMMA ReceivedIsTyped ==
  ASSUME QueueInv, NEW n \in DOMAIN sent
  PROVE  /\ n # None
         /\ Owner(n) \in Agents
         /\ Kind(n) \in Outputs \cup {"start", "end", "request"} \cup Terminals
         /\ sent[n].turn \in Nat
<1>1. n \in 1..Len(sent) /\ Len(sent) \in Nat /\ sent[n] \in Event
  BY DEF QueueInv
<1>2. MaxTurns \in Nat
  BY EventOrderAssumption
<1>. QED BY <1>1, <1>2 DEF Event, None, Owner, Kind, Outputs

LEMMA WithoutControlsIsQueue ==
  ASSUME NEW q \in Queued, NEW n
  PROVE  WithoutControls(q, n) \in Queued
BY SiftedIsQueue DEF WithoutControls, Queued

\* A write that only appends rows, and the step goes on.
LEMMA LogKeeps ==
  ASSUME IInv, Active, NEW m \in Queues, m.pending = mem.pending, PrefixFits(m),
         mem' = m, Continues, UNCHANGED <<sent, job>>,
         DOMAIN db' = Fields,
         \A f \in Fields \ {"log", "staged"} : db'[f] = db[f]
  PROVE  IInv'
<1>1. QueueInv /\ RowInv /\ WaitInv
  BY DEF IInv
<1>2. QueueInv'
  BY <1>1, QueueKeeps DEF QueueInv
<1>3. PrefixFits(mem)'
  BY DEF PrefixFits, Kind
<1>4. /\ db'.run = db.run /\ db'.agent = db.agent /\ db'.turn = db.turn
      /\ db'.live = db.live /\ db'.approvals = db.approvals
  BY DEF Fields
<1>5. RowInv'
  BY <1>1, <1>4 DEF RowInv
<1>6. WaitInv'
  BY <1>1, <1>4 DEF WaitInv, PendingChild, LiveTurn, Owner
<1>. QED BY <1>2, <1>3, <1>5, <1>6, ContinuesKeeps, LoopKeeps

LEMMA AppendKeeps ==
  ASSUME IInv, Active, NEW n, NEW m \in Queues, m.pending = mem.pending, PrefixFits(m),
         AppendOutput(n, m), UNCHANGED sent
  PROVE  IInv'
<1>1. DOMAIN db = Fields
  BY DEF IInv, RowInv
<1>2. CASE Fails("error")
  BY <1>2, FinishKeeps DEF Fails, Finish
<1>3. CASE Continues /\ mem' = m /\ UNCHANGED <<db, job>>
  BY <1>1, <1>3, LogKeeps
<1>4. CASE db' = Logged(db, n) /\ mem' = m /\ Continues /\ UNCHANGED job
  <2>1. DOMAIN db' = Fields /\ \A f \in Fields \ {"log"} : db'[f] = db[f]
    BY <1>1, <1>4, LoggedRows
  <2>. QED BY <1>4, <2>1, LogKeeps
<1>. QED BY <1>2, <1>3, <1>4 DEF AppendOutput

LEMMA StageKeeps ==
  ASSUME IInv, Active, NEW n \in DOMAIN sent, NEW m \in Queues, m.pending = mem.pending,
         PrefixFits(m), Kind(n) \in Outputs,
         m.buffered = <<>> \/ Kind(Head(m.buffered)) \in Outputs,
         StageOutput(n, m), UNCHANGED sent
  PROVE  IInv'
<1>1. DOMAIN db = Fields
  BY DEF IInv, RowInv
<1>2. CASE Fails("error")
  BY <1>2, FinishKeeps DEF Fails, Finish
<1>3. CASE root' = [pc |-> "done", finish |-> "capacity"]
  BY <1>3, FinishKeeps
<1>4. CASE Continues /\ mem' = m /\ UNCHANGED <<db, job>>
  BY <1>1, <1>4, LogKeeps
<1>5. CASE /\ db' = [db EXCEPT !.staged = Append(@, n)]
           /\ mem' = [m EXCEPT !.buffered = Append(@, n), !.prefix = @ + 1]
           /\ Continues
           /\ UNCHANGED job
  <2>. DEFINE o == [m EXCEPT !.buffered = Append(@, n), !.prefix = @ + 1]
  <2>1. m.buffered \in Seq(DOMAIN sent) /\ m.prefix \in Nat
    BY DEF Queues, Queued
  <2>2. /\ Append(m.buffered, n) \in Seq(DOMAIN sent)
        /\ Len(Append(m.buffered, n)) = Len(m.buffered) + 1
        /\ Head(Append(m.buffered, n)) = IF m.buffered = <<>> THEN n ELSE Head(m.buffered)
    BY <2>1
  <2>3. /\ o \in Queues /\ o.pending = m.pending
        /\ o.buffered = Append(m.buffered, n) /\ o.prefix = m.prefix + 1
    <3>1. Append(m.buffered, n) \in Queued /\ m.prefix + 1 \in Nat
      BY <2>1, <2>2 DEF Queued
    <3>. QED BY <3>1 DEF Queues
  <2>4. PrefixFits(o)
    <3>. HIDE DEF o
    <3>. QED BY <2>1, <2>2, <2>3 DEF PrefixFits
  <2>5. DOMAIN db' = Fields /\ \A f \in Fields \ {"log", "staged"} : db'[f] = db[f]
    BY <1>1, <1>5 DEF Fields
  <2>. HIDE DEF o
  <2>. QED BY <1>5, <2>3, <2>4, <2>5, LogKeeps DEF o
<1>. QED BY <1>2, <1>3, <1>4, <1>5 DEF StageOutput

\* A request is recorded and becomes the one the run waits for.
LEMMA RequestKeeps ==
  ASSUME IInv, Active, NEW n \in DOMAIN sent, NEW m \in Queues, PrefixFits(m),
         mem.pending = None, MayRecordRequest(db, n), db' = RequestRecorded(db, n),
         mem' = Selects(m, n), Continues, UNCHANGED <<sent, job>>
  PROVE  IInv'
<1>1. QueueInv /\ RowInv /\ WaitInv
  BY DEF IInv
<1>2. n # None /\ Owner(n) \in Agents
  BY <1>1, ReceivedIsTyped
<1>3. /\ mem' \in Queues /\ mem'.pending = n
      /\ mem'.prefix = m.prefix /\ mem'.buffered = m.buffered
  <2>1. PICK d \in BOOLEAN : mem' = [m EXCEPT !.pending = n, !.displaced = d]
    BY DEF Selects, Queues
  <2>. QED BY <2>1 DEF Queues, Requests
<1>4. QueueInv'
  BY <1>1, <1>3, QueueKeeps DEF QueueInv
<1>5. PrefixFits(mem)'
  BY <1>3 DEF PrefixFits, Kind
<1>6. /\ DOMAIN db' = Fields
      /\ db'.run = "waiting"
      /\ db'.agent = [db.agent EXCEPT ![Owner(n)] = "waiting"]
      /\ db'.approvals = db.approvals \cup {n}
      /\ db'.turn = db.turn
      /\ db'.live = db.live
  <2>1. DOMAIN db = Fields /\ db.agent \in [Agents -> {"running", "waiting", "ended"}]
    BY <1>1 DEF RowInv
  <2>. DEFINE e == RequestRecorded(db, n)
  <2>2. /\ DOMAIN e = Fields
        /\ e.run = "waiting"
        /\ e.agent = [db.agent EXCEPT ![Owner(n)] = "waiting"]
        /\ e.approvals = db.approvals \cup {n}
        /\ e.turn = db.turn
        /\ e.live = db.live
    BY <2>1, RequestRecordedRows, Zenon
  <2>3. db' = e
    OBVIOUS
  <2>. HIDE DEF e
  <2>. QED BY <2>2, <2>3, Zenon
<1>7. db.agent[Owner(n)] = "running" /\ (Owner(n) \in Children => LiveTurn(db, n))
  BY EventOrderAssumption DEF MayRecordRequest
<1>8. RowInv'
  BY <1>1, <1>2, <1>6, <1>7 DEF RowInv, Agents
<1>9. WaitInv'
  <2>1. db'.approvals = {mem'.pending} \ {None}
    BY <1>1, <1>2, <1>3, <1>6 DEF WaitInv
  <2>2. \A a \in Agents : db'.agent[a] = "waiting" <=> Owner(n) = a
    BY <1>1, <1>2, <1>6 DEF WaitInv, RowInv
  <2>3. Owner(n) \in Children => LiveTurn(db', n)
    BY <1>6, <1>7 DEF LiveTurn
  <2>. QED BY <1>2, <1>3, <1>6, <2>1, <2>2, <2>3 DEF WaitInv, PendingChild, LiveTurn, Owner
<1>. QED BY <1>4, <1>5, <1>8, <1>9, ContinuesKeeps, LoopKeeps

\* A child starts its next turn.
LEMMA StartKeeps ==
  ASSUME IInv, Active, NEW n \in DOMAIN sent, NEW m \in Queues, PrefixFits(m),
         m.pending = mem.pending, Owner(n) \in Children,
         ~db.live[Owner(n)], db.agent[Owner(n)] # "waiting",
         DOMAIN db' = Fields,
         db'.run = db.run,
         db'.agent = [db.agent EXCEPT ![Owner(n)] = "running"],
         db'.approvals = db.approvals,
         db'.turn = [db.turn EXCEPT ![Owner(n)] = sent[n].turn],
         db'.live = [db.live EXCEPT ![Owner(n)] = TRUE],
         mem' = m, Continues, UNCHANGED <<sent, job>>
  PROVE  IInv'
<1>. DEFINE c == Owner(n)
<1>1. QueueInv /\ RowInv /\ WaitInv
  BY DEF IInv
<1>2. QueueInv'
  BY <1>1, QueueKeeps DEF QueueInv
<1>3. PrefixFits(mem)'
  BY DEF PrefixFits, Kind
<1>4. c \in Agents /\ c \in Children /\ c # Root /\ sent[n].turn \in Nat
  BY <1>1, EventOrderAssumption, ReceivedIsTyped DEF Agents
<1>5. PendingChild => Owner(mem.pending) # c
  BY <1>1 DEF WaitInv, LiveTurn
<1>6. RowInv'
  <2>1. /\ db'.agent \in [Agents -> {"running", "waiting", "ended"}]
        /\ db'.agent[Root] # "ended"
        /\ db'.turn \in [Children -> Nat]
        /\ db'.live \in [Children -> BOOLEAN]
    <3>1. Root \in Agents
      BY DEF Agents
    <3>2. db'.live \in [Children -> BOOLEAN]
      BY <1>1, <1>4 DEF RowInv
    <3>. QED BY <1>1, <1>4, <3>1, <3>2 DEF RowInv
  <2>2. ASSUME NEW x \in Children PROVE db'.live[x] <=> db'.agent[x] # "ended"
    <3>1. CASE x = c
      BY <3>1, <1>1, <1>4 DEF RowInv
    <3>2. CASE x # c
      BY <3>2, <1>1, <1>5 DEF RowInv, Agents
    <3>. QED BY <3>1, <3>2
  <2>. QED BY <1>1, <2>1, <2>2 DEF RowInv
<1>7. WaitInv'
  <2>1. \A a \in Agents : db'.agent[a] = "waiting" <=> db.agent[a] = "waiting"
    BY <1>1, <1>4 DEF RowInv
  <2>2. PendingChild => LiveTurn(db', mem.pending)
    <3>. HIDE DEF c
    <3>. QED BY <1>1, <1>5 DEF WaitInv, LiveTurn, RowInv, PendingChild
  <2>. QED BY <1>1, <2>1, <2>2 DEF WaitInv, PendingChild, LiveTurn, Owner
<1>. QED BY <1>2, <1>3, <1>6, <1>7, ContinuesKeeps, LoopKeeps

\* A child's turn ends, with the request it has open or without one.
LEMMA EndKeeps ==
  ASSUME IInv, Active, NEW n \in DOMAIN sent, NEW m \in Queues, PrefixFits(m),
         Owner(n) \in Children, LiveTurn(db, n),
         NEW selected, selected = (mem.pending # None /\ SameTurn(mem.pending, n)),
         selected \/ OwnedBy(db.approvals, Owner(n)) = {},
         db' = EndRecorded(db, n),
         mem' = m, m.pending = IF selected THEN None ELSE mem.pending,
         Continues, UNCHANGED <<sent, job>>
  PROVE  IInv'
<1>. DEFINE c == Owner(n)
            left == db.approvals \ OwnedBy(db.approvals, c)
<1>1. QueueInv /\ RowInv /\ WaitInv
  BY DEF IInv
<1>2. QueueInv'
  BY <1>1, QueueKeeps DEF QueueInv
<1>3. PrefixFits(mem)'
  BY DEF PrefixFits, Kind
<1>4. c \in Agents /\ c # Root
  BY EventOrderAssumption DEF Agents
<1>5. /\ DOMAIN db' = Fields
      /\ db'.run = IF db.run = "waiting" /\ left = {} /\ db.agent[Root] = "running"
                   THEN "running" ELSE db.run
      /\ db'.agent = [db.agent EXCEPT ![c] = "ended"]
      /\ db'.approvals = left
      /\ db'.turn = db.turn
      /\ db'.live = [db.live EXCEPT ![c] = FALSE]
  BY <1>1, EndRecordedRows, SMTT(30) DEF RowInv
<1>. HIDE DEF c
<1>6. RowInv'
  BY <1>1, <1>4, <1>5 DEF RowInv, Agents, c
<1>7. Owner(mem.pending) = c /\ mem.pending # None <=> selected
  <2>1. selected => Owner(mem.pending) = c /\ mem.pending # None
    BY DEF SameTurn, c
  <2>2. ASSUME Owner(mem.pending) = c, mem.pending # None PROVE selected
    BY <1>1, <2>2 DEF WaitInv, PendingChild, LiveTurn, SameTurn, c
  <2>. QED BY <2>1, <2>2
<1>8. left = {m.pending} \ {None}
  BY <1>1, <1>7 DEF WaitInv, OwnedBy
<1>9. \A a \in Agents : db'.agent[a] = "waiting" <=> m.pending # None /\ Owner(m.pending) = a
  BY <1>1, <1>4, <1>5, <1>7 DEF WaitInv, RowInv
<1>10. db'.run = "waiting" <=> m.pending # None
  <2>1. CASE selected
    <3>1. db.agent[Root] = "running"
      BY <1>1, <1>4, <1>7, <2>1 DEF WaitInv, RowInv, Agents
    <3>. QED BY <1>1, <1>5, <1>8, <2>1, <3>1 DEF WaitInv
  <2>2. CASE ~selected
    BY <1>1, <1>5, <1>8, <2>2 DEF WaitInv
  <2>. QED BY <2>1, <2>2
<1>11. m.pending # None /\ Owner(m.pending) \in Children => LiveTurn(db', m.pending)
  <2>. HIDE DEF left
  <2>. QED BY <1>1, <1>5, <1>7 DEF WaitInv, PendingChild, LiveTurn, RowInv
<1>12. WaitInv'
  BY <1>5, <1>8, <1>9, <1>10, <1>11 DEF WaitInv, PendingChild, LiveTurn, Owner
<1>. QED BY <1>2, <1>3, <1>6, <1>12, ContinuesKeeps, LoopKeeps

LEMMA PersistKeeps ==
  ASSUME IInv, Active, NEW n \in DOMAIN sent, NEW m \in Queues, PrefixFits(m),
         m.pending = mem.pending, Owner(n) \in Children,
         Kind(n) \in {"start", "end", "request"},
         Kind(n) = "request" => mem.pending = None,
         PersistChildEvent(n, m), UNCHANGED sent
  PROVE  IInv'
<1>. DEFINE selected == m.pending # None /\ SameTurn(m.pending, n)
            rest == [m EXCEPT !.controls = WithoutControls(@, n)]
<1>1. /\ rest \in Queues /\ rest.pending = m.pending
      /\ rest.prefix = m.prefix /\ rest.buffered = m.buffered
  <2>1. WithoutControls(m.controls, n) \in Queued
    BY WithoutControlsIsQueue DEF Queues
  <2>. QED BY <2>1 DEF Queues
<1>2. PrefixFits(rest)
  BY <1>1 DEF PrefixFits
<1>3. CASE Fails("error")
  BY <1>3, FinishKeeps DEF Fails, Finish
<1>4. CASE ~Fails("error")
  <2>1. Continues /\ UNCHANGED job
    BY <1>4 DEF PersistChildEvent
  <2>2. CASE Kind(n) = "start"
    <3>1. /\ ~db.live[Owner(n)] /\ db.agent[Owner(n)] # "waiting"
          /\ db' = [Logged(db, n) EXCEPT !.turn[Owner(n)] = sent[n].turn,
                                         !.live[Owner(n)] = TRUE,
                                         !.agent[Owner(n)] = "running"]
          /\ mem' = rest
      BY <1>4, <2>2 DEF PersistChildEvent
    <3>. HIDE DEF rest
    <3>2. /\ DOMAIN db' = Fields
          /\ db'.run = db.run
          /\ db'.agent = [db.agent EXCEPT ![Owner(n)] = "running"]
          /\ db'.approvals = db.approvals
          /\ db'.turn = [db.turn EXCEPT ![Owner(n)] = sent[n].turn]
          /\ db'.live = [db.live EXCEPT ![Owner(n)] = TRUE]
      <4>1. DOMAIN db = Fields
        BY DEF IInv, RowInv
      <4>. QED BY <3>1, <4>1, StartRecordedRows
    <3>. QED BY <1>1, <1>2, <2>1, <3>1, <3>2, StartKeeps
  <2>3. CASE Kind(n) = "end"
    <3>1. /\ LiveTurn(db, n)
          /\ selected \/ OwnedBy(db.approvals, Owner(n)) = {}
          /\ db' = EndRecorded(db, n)
          /\ mem' = IF selected THEN [rest EXCEPT !.pending = None] ELSE rest
      BY <1>4, <2>3 DEF PersistChildEvent
    <3>. DEFINE o == IF selected THEN [rest EXCEPT !.pending = None] ELSE rest
    <3>2. /\ o \in Queues /\ o.pending = IF selected THEN None ELSE mem.pending
          /\ o.prefix = m.prefix /\ o.buffered = m.buffered
      <4>. HIDE DEF selected, rest
      <4>. QED BY <1>1 DEF Queues, Requests
    <3>3. PrefixFits(o)
      BY <3>2 DEF PrefixFits
    <3>4. selected = (mem.pending # None /\ SameTurn(mem.pending, n))
      OBVIOUS
    <3>. HIDE DEF rest, selected, o
    <3>5. mem' = o
      BY <3>1 DEF o
    <3>. QED BY <2>1, <3>1, <3>2, <3>3, <3>4, <3>5, EndKeeps
  <2>4. CASE Kind(n) = "request"
    <3>1. /\ MayRecordRequest(db, n)
          /\ db' = RequestRecorded(db, n)
          /\ mem' = Selects(rest, n)
      BY <1>4, <2>4 DEF PersistChildEvent
    <3>. HIDE DEF rest
    <3>. QED BY <1>1, <1>2, <2>1, <2>4, <3>1, RequestKeeps
  <2>. QED BY <2>2, <2>3, <2>4
<1>. QED BY <1>3, <1>4

-----------------------------------------------------------------------------
(* The actions of the loop that handle an event.                           *)

LEMMA ClassifyKeeps ==
  ASSUME IInv, Classify
  PROVE  IInv'
<1>1. root.pc = "received" /\ Active /\ QueueInv /\ PrefixInv /\ RowInv /\ WaitInv
  BY DEF IInv, Classify, Active
<1>2. mem.hand \in DOMAIN sent /\ UNCHANGED sent
  BY <1>1 DEF QueueInv, PrefixInv, Queues, Requests, Classify
<1>3. CASE Fails("capacity")
  BY <1>3, FinishKeeps DEF Fails, Finish
<1>4. CASE /\ mem' = [mem EXCEPT !.deferred = Append(@, mem.hand), !.hand = None]
           /\ Continues
           /\ UNCHANGED <<job, db>>
  <2>1. Append(mem.deferred, mem.hand) \in Queued
    BY <1>1, <1>2 DEF QueueInv, Queues, Queued
  <2>2. /\ mem' \in Queues /\ mem'.pending = mem.pending
        /\ mem'.prefix = mem.prefix /\ mem'.buffered = mem.buffered
    BY <1>1, <1>4, <2>1 DEF QueueInv, Queues, Requests
  <2>3. PrefixFits(mem')
    BY <1>1, <2>2 DEF PrefixInv, PrefixFits
  <2>. QED BY <1>1, <1>2, <1>4, <2>2, <2>3, LogKeeps DEF RowInv
<1>5. CASE EndsRun(mem.hand, <<>>)
  BY <1>5, FinishKeeps DEF EndsRun, Finish
<1>6. CASE /\ Kind(mem.hand) \notin Terminals
           /\ mem' = [mem EXCEPT !.deferred = WithoutControls(@, mem.hand)]
           /\ root' = [root EXCEPT !.pc = "gate"]
           /\ UNCHANGED <<job, db>>
  <2>1. WithoutControls(mem.deferred, mem.hand) \in Queued
    BY <1>1, WithoutControlsIsQueue DEF QueueInv, Queues
  <2>2. /\ mem' \in Queues /\ mem'.pending = mem.pending /\ mem'.hand = mem.hand
        /\ mem'.prefix = mem.prefix /\ mem'.buffered = mem.buffered
    BY <1>1, <1>6, <2>1 DEF QueueInv, Queues
  <2>3. root' \in Positions /\ root'.pc = "gate"
    BY <1>6 DEF IInv, Positions
  <2>4. QueueInv'
    BY <1>1, <1>2, <1>6, <2>2, QueueKeeps DEF QueueInv
  <2>5. PrefixInv'
    BY <1>1, <1>2, <1>6, <2>2, <2>3 DEF PrefixInv, PrefixFits, Kind
  <2>6. RowInv' /\ WaitInv'
    BY <1>1, <1>2, <1>6, <2>2 DEF RowInv, WaitInv, PendingChild, LiveTurn, Owner
  <2>. QED BY <2>3, <2>4, <2>5, <2>6 DEF IInv
<1>. QED BY <1>3, <1>4, <1>5, <1>6 DEF Classify

LEMMA HandleWaitingKeeps ==
  ASSUME IInv, HandleWaiting
  PROVE  IInv'
<1>. DEFINE n == mem.hand
            m == [mem EXCEPT !.hand = None]
<1>1. root.pc = "gate" /\ Active /\ QueueInv /\ PrefixInv /\ RowInv /\ WaitInv
  BY DEF IInv, HandleWaiting, Active
<1>2. n \in DOMAIN sent /\ UNCHANGED sent
  BY <1>1 DEF QueueInv, PrefixInv, Queues, Requests, HandleWaiting
<1>3. /\ m \in Queues /\ m.pending = mem.pending /\ m.prefix = mem.prefix
      /\ m.buffered = mem.buffered /\ m.controls = mem.controls
  BY <1>1 DEF QueueInv, Queues, Requests
<1>4. PrefixFits(m)
  BY <1>1, <1>3 DEF PrefixInv, PrefixFits
<1>5. ASSUME NEW o \in Queues, o.pending = mem.pending, PrefixFits(o), mem' = o,
             Continues, UNCHANGED <<job, db>>
      PROVE  IInv'
  BY <1>1, <1>2, <1>5, LogKeeps DEF RowInv
<1>6. CASE Kind(n) = "request"
  <2>1. CASE Fails("capacity") \/ Fails("error")
    BY <2>1, FinishKeeps DEF Fails, Finish
  <2>2. CASE /\ mem' = [m EXCEPT !.controls = Append(@, n)]
             /\ Continues /\ UNCHANGED <<job, db>>
    <3>1. Append(m.controls, n) \in Queued
      BY <1>2, <1>3 DEF Queues, Queued
    <3>. HIDE DEF m, n
    <3>2. /\ mem' \in Queues /\ mem'.pending = m.pending
          /\ mem'.prefix = m.prefix /\ mem'.buffered = m.buffered
      BY <2>2, <1>3, <3>1 DEF Queues
    <3>3. PrefixFits(mem')
      BY <1>4, <3>2 DEF PrefixFits
    <3>. QED BY <1>3, <1>5, <2>2, <3>2, <3>3
  <2>. QED BY <1>6, <2>1, <2>2 DEF HandleWaiting
<1>7. CASE Kind(n) \in {"start", "end"}
  <2>1. PersistChildEvent(n, m)
    BY <1>7 DEF HandleWaiting
  <2>2. Owner(n) \in Children
    BY <1>1, <1>2, <1>7 DEF QueueInv, OfChildren
  <2>. QED BY <1>1, <1>2, <1>3, <1>4, <1>7, <2>1, <2>2, PersistKeeps
<1>8. CASE Kind(n) \notin {"start", "end", "request"}
  <2>1. Kind(n) \in Outputs
    BY <1>1, <1>2, <1>8, ReceivedIsTyped DEF PrefixInv
  <2>2. mem.buffered = <<>> \/ Kind(Head(mem.buffered)) \in Outputs
    BY <1>1, <2>1 DEF PrefixInv
  <2>3. CASE mem.pending = None
    <3>1. mem' = [m EXCEPT !.buffered = Append(@, n)] /\ Continues /\ UNCHANGED <<job, db>>
      BY <1>8, <2>3 DEF HandleWaiting
    <3>2. mem.buffered \in Seq(DOMAIN sent) /\ mem.prefix \in Nat
      BY <1>1 DEF QueueInv, Queues, Queued
    <3>3. /\ Append(mem.buffered, n) \in Seq(DOMAIN sent)
          /\ Len(Append(mem.buffered, n)) = Len(mem.buffered) + 1
          /\ Head(Append(mem.buffered, n)) = IF mem.buffered = <<>> THEN n ELSE Head(mem.buffered)
      BY <1>2, <3>2
    <3>4. /\ mem' \in Queues /\ mem'.pending = mem.pending
          /\ mem'.prefix = mem.prefix /\ mem'.buffered = Append(mem.buffered, n)
      <4>1. Append(mem.buffered, n) \in Queued
        BY <3>3 DEF Queued
      <4>. HIDE DEF m, n
      <4>. QED BY <3>1, <1>3, <4>1 DEF Queues
    <3>5. PrefixFits(mem')
      <4>. HIDE DEF n, m
      <4>. QED BY <1>1, <2>1, <3>2, <3>3, <3>4 DEF PrefixInv, PrefixFits
    <3>. QED BY <1>5, <3>1, <3>4, <3>5
  <2>4. CASE mem.pending # None
    <3>1. AppendOutput(n, m) \/ StageOutput(n, m)
      BY <1>8, <2>4 DEF HandleWaiting
    <3>. HIDE DEF n, m
    <3>. QED BY <1>1, <1>2, <1>3, <1>4, <2>1, <2>2, <3>1, AppendKeeps, StageKeeps
  <2>. QED BY <2>3, <2>4
<1>. QED BY <1>6, <1>7, <1>8

LEMMA ProcessKeeps ==
  ASSUME IInv, Active, NEW n \in DOMAIN sent, NEW m \in Queues, PrefixFits(m),
         m.pending = mem.pending, mem.pending = None,
         Process(n, m), UNCHANGED sent
  PROVE  IInv'
<1>1. QueueInv
  BY DEF IInv
<1>2. /\ Owner(n) \in Agents
      /\ Kind(n) \in Outputs \cup {"start", "end", "request"} \cup Terminals
  BY <1>1, ReceivedIsTyped
<1>3. CASE Kind(n) \in Terminals
  <2>1. EndsRun(n, m.buffered)
    BY <1>3 DEF Process, IsOutput, Terminals
  <2>. QED BY <2>1, FinishKeeps DEF EndsRun, Finish
<1>4. CASE Kind(n) = "request" /\ Owner(n) = Root
  <2>1. CASE Fails("error")
    BY <2>1, FinishKeeps DEF Fails, Finish
  <2>2. CASE ~Fails("error")
    <3>1. /\ MayRecordRequest(db, n)
          /\ db' = RequestRecorded(db, n)
          /\ mem' = Selects(m, n)
          /\ Continues
          /\ UNCHANGED job
      BY <1>4, <2>2 DEF Process, IsOutput, Terminals
    <3>. QED BY <3>1, RequestKeeps
  <2>. QED BY <2>1, <2>2
<1>5. CASE Kind(n) \in Outputs
  <2>1. AppendOutput(n, m)
    BY <1>5 DEF Process, IsOutput, Outputs, Terminals
  <2>. QED BY <2>1, AppendKeeps
<1>6. CASE Kind(n) \in {"start", "end"} \/ (Kind(n) = "request" /\ Owner(n) # Root)
  <2>1. PersistChildEvent(n, m)
    BY <1>6 DEF Process, IsOutput, Terminals
  <2>2. Owner(n) \in Children
    BY <1>1, <1>2, <1>6 DEF QueueInv, OfChildren, Agents
  <2>. QED BY <1>6, <2>1, <2>2, PersistKeeps
<1>. QED BY <1>2, <1>3, <1>4, <1>5, <1>6

LEMMA ProcessBufferedKeeps ==
  ASSUME IInv, ProcessBuffered
  PROVE  IInv'
<1>1. Active /\ QueueInv /\ mem.pending = None /\ mem.prefix = 0
  BY DEF IInv, ProcessBuffered, Listening, Active
<1>2. Head(mem.buffered) \in DOMAIN sent /\ Tail(mem.buffered) \in Seq(DOMAIN sent)
      /\ Len(Tail(mem.buffered)) \in Nat
  BY <1>1, QueueTail DEF ProcessBuffered, QueueInv, Queues, Queued
<1>. DEFINE m == [mem EXCEPT !.buffered = Tail(@)]
<1>3. /\ m \in Queues /\ m.pending = mem.pending /\ m.prefix = 0
      /\ m.buffered = Tail(mem.buffered)
  BY <1>1, <1>2 DEF QueueInv, Queues, Queued
<1>4. PrefixFits(m)
  BY <1>2, <1>3 DEF PrefixFits
<1>5. Process(Head(mem.buffered), m) /\ UNCHANGED sent
  BY DEF ProcessBuffered
<1>. HIDE DEF m
<1>. QED BY <1>1, <1>2, <1>3, <1>4, <1>5, ProcessKeeps

LEMMA PublishQueuedKeeps ==
  ASSUME IInv, PublishQueued
  PROVE  IInv'
<1>1. Active /\ QueueInv /\ PrefixInv /\ mem.pending = None
  BY DEF IInv, PublishQueued, Listening, Active
<1>2. Head(mem.controls) \in DOMAIN sent /\ Tail(mem.controls) \in Seq(DOMAIN sent)
  BY <1>1, QueueTail DEF PublishQueued, QueueInv, Queues, Queued
<1>. DEFINE m == [mem EXCEPT !.controls = Tail(@)]
<1>3. /\ m \in Queues /\ m.pending = mem.pending /\ m.prefix = mem.prefix
      /\ m.buffered = mem.buffered
  BY <1>1, <1>2 DEF QueueInv, Queues, Queued
<1>4. PrefixFits(m)
  BY <1>1, <1>3 DEF PrefixInv, PrefixFits
<1>5. CASE Fails("error")
  BY <1>5, FinishKeeps DEF Fails, Finish
<1>6. CASE Process(Head(mem.controls), m)
  <2>1. UNCHANGED sent
    BY DEF PublishQueued
  <2>. HIDE DEF m
  <2>. QED BY <1>1, <1>2, <1>3, <1>4, <1>6, <2>1, ProcessKeeps
<1>. QED BY <1>5, <1>6 DEF PublishQueued

-----------------------------------------------------------------------------
(* The response job.                                                       *)

LEMMA JobKeeps ==
  ASSUME IInv, UNCHANGED <<sent, mem, db, root>>,
         job' \in [req : Requests, reply : {"none", "sent", "ok", "refused"}]
  PROVE  IInv'
<1>1. CASE ~Active
  BY <1>1 DEF IInv, Active, Positions
<1>2. CASE Active
  <2>1. QueueInv /\ PrefixInv /\ RowInv /\ WaitInv
    BY <1>2 DEF IInv
  <2>2. QueueInv'
    BY <2>1, QueueKeeps DEF QueueInv
  <2>3. PrefixInv' /\ RowInv' /\ WaitInv'
    BY <2>1 DEF PrefixInv, PrefixFits, RowInv, WaitInv, PendingChild, LiveTurn, Owner, Kind
  <2>. QED BY <2>2, <2>3 DEF IInv
<1>. QED BY <1>1, <1>2

LEMMA FinishedKeeps ==
  ASSUME IInv, ~Active, UNCHANGED root
  PROVE  IInv'
BY DEF IInv, Active

LEMMA RespondKeeps ==
  ASSUME IInv, Respond
  PROVE  IInv'
<1>1. mem.pending \in Requests
  BY DEF IInv, Respond, Active, QueueInv, Queues
<1>. QED BY <1>1, JobKeeps DEF Respond

LEMMA AdapterRepliesKeeps ==
  ASSUME IInv, AdapterReplies
  PROVE  IInv'
<1>1. CASE ~Active
  BY <1>1, FinishedKeeps DEF AdapterReplies
<1>2. CASE Active
  <2>1. job \in [req : Requests, reply : {"none", "sent", "ok", "refused"}]
    BY <1>2 DEF IInv, QueueInv
  <2>. QED BY <2>1, JobKeeps DEF AdapterReplies
<1>. QED BY <1>1, <1>2

LEMMA ResponseIsRefusedKeeps ==
  ASSUME IInv, ResponseIsRefused
  PROVE  IInv'
BY JobKeeps DEF ResponseIsRefused, Idle, Requests

LEMMA ResponseIsAcknowledgedKeeps ==
  ASSUME IInv, ResponseIsAcknowledged
  PROVE  IInv'
<1>. DEFINE q == job.req
            allowed == /\ q \in db.approvals
                       /\ db.agent[Owner(q)] = "waiting"
                       /\ Owner(q) # Root => LiveTurn(db, q)
<1>1. UNCHANGED <<sent, root>> /\ job' = Idle
  BY DEF ResponseIsAcknowledged
<1>2. CASE ~Active
  BY <1>1, <1>2, FinishedKeeps
<1>3. CASE Active /\ ~allowed
  <2>1. UNCHANGED <<mem, db>>
    BY <1>3 DEF ResponseIsAcknowledged
  <2>. QED BY <1>1, <2>1, JobKeeps DEF Idle, Requests
<1>4. CASE Active /\ allowed
  <2>1. QueueInv /\ PrefixInv /\ RowInv /\ WaitInv
    BY <1>4 DEF IInv
  <2>2. q = mem.pending /\ q # None
    BY <1>4, <2>1 DEF WaitInv
  <2>3. q \in DOMAIN sent
    BY <2>1, <2>2 DEF QueueInv, Queues, Requests
  <2>4. Owner(q) \in Agents
    BY <2>1, <2>3, ReceivedIsTyped
  <2>. HIDE DEF q
  <2>5. /\ db' = Acknowledged(db, q)
        /\ mem' = [mem EXCEPT !.pending = None]
    BY <1>4, <2>2 DEF ResponseIsAcknowledged, q
  <2>6. /\ mem' \in Queues /\ mem'.pending = None /\ mem'.hand = mem.hand
        /\ mem'.prefix = mem.prefix /\ mem'.buffered = mem.buffered
    BY <2>1, <2>5 DEF QueueInv, Queues, Requests
  <2>7. QueueInv'
    BY <1>1, <2>1, <2>6, QueueKeeps DEF Idle, Requests
  <2>8. PrefixInv'
    BY <1>1, <2>1, <2>6 DEF PrefixInv, PrefixFits, Kind
  <2>. DEFINE left == db.approvals \ {q}
              agent == [db.agent EXCEPT ![Owner(q)] = "running"]
  <2>9. /\ DOMAIN db' = Fields
        /\ db'.run = IF left # {} \/ (Owner(q) # Root /\ agent[Root] = "waiting")
                     THEN db.run ELSE "running"
        /\ db'.agent = agent
        /\ db'.approvals = left
        /\ db'.turn = db.turn
        /\ db'.live = db.live
    <3>1. DOMAIN db = Fields /\ db.agent \in [Agents -> {"running", "waiting", "ended"}]
      BY <2>1 DEF RowInv
    <3>. HIDE DEF left, agent
    <3>. QED BY <2>5, <3>1, AcknowledgedRows DEF left, agent
  <2>10. left = {}
    BY <2>1, <2>2 DEF WaitInv
  <2>11. \A a \in Agents : agent[a] # "waiting"
    BY <2>1, <2>2, <2>4 DEF WaitInv, RowInv
  <2>12. RowInv'
    <3>1. db.agent[Owner(q)] = "waiting"
      BY <1>4 DEF q
    <3>. QED BY <2>1, <2>4, <2>9, <2>10, <3>1 DEF RowInv
  <2>13. WaitInv'
    <3>1. db'.run = "running"
      BY <2>4, <2>9, <2>10, <2>11 DEF Agents
    <3>. QED BY <2>6, <2>9, <2>10, <2>11, <3>1 DEF WaitInv, PendingChild
  <2>. QED BY <1>1, <2>7, <2>8, <2>12, <2>13 DEF IInv
<1>. QED BY <1>2, <1>3, <1>4

-----------------------------------------------------------------------------
(* The theorems.                                                           *)

LEMMA InitIInv == Init => IInv
<1>. SUFFICES ASSUME Init PROVE IInv
  OBVIOUS
<1>1. PICK busy \in SUBSET Children :
        /\ sent = <<>>
        /\ mem = [buffered |-> <<>>, prefix |-> 0, deferred |-> <<>>,
                  controls |-> <<>>, pending |-> None, hand |-> None,
                  displaced |-> FALSE]
        /\ job = Idle
        /\ db = [run |-> "running",
                 agent |-> [a \in Agents |-> IF a \in busy \cup {Root} THEN "running"
                                             ELSE "ended"],
                 turn |-> [c \in Children |-> 1],
                 live |-> [c \in Children |-> c \in busy],
                 approvals |-> {}, log |-> <<>>, staged |-> <<>>]
        /\ root = [pc |-> "loop", finish |-> "none"]
  BY EventOrderAssumption DEF Init
<1>2. root \in Positions
  BY <1>1 DEF Positions
<1>3. QueueInv
  <2>1. sent \in Seq(Event) /\ <<>> \in Queued
    BY <1>1 DEF Queued
  <2>2. DOMAIN sent = {}
    BY <1>1
  <2>. QED BY <1>1, <2>1, <2>2 DEF QueueInv, Queues, Requests, Idle
<1>4. PrefixInv
  BY <1>1 DEF PrefixInv, PrefixFits
<1>5. RowInv
  <2>1. /\ DOMAIN db = Fields
        /\ db.run = "running"
        /\ db.agent = [a \in Agents |-> IF a \in busy \cup {Root} THEN "running"
                                        ELSE "ended"]
        /\ db.turn = [c \in Children |-> 1]
        /\ db.live = [c \in Children |-> c \in busy]
    BY <1>1 DEF Fields
  <2>2. \A c \in Children : db.live[c] <=> db.agent[c] # "ended"
    <3>1. \A c \in Children : db.live[c] <=> c \in busy
      BY <2>1
    <3>2. \A c \in Children : db.agent[c] # "ended" <=> c \in busy
      BY <2>1, EventOrderAssumption DEF Agents
    <3>. QED BY <3>1, <3>2
  <2>3. db.live \in [Children -> BOOLEAN]
    BY <2>1
  <2>. QED BY <2>1, <2>2, <2>3 DEF RowInv, Agents
<1>6. WaitInv
  BY <1>1 DEF WaitInv, PendingChild
<1>. QED BY <1>2, <1>3, <1>4, <1>5, <1>6 DEF IInv

LEMMA NextIInv == IInv /\ [Next]_vars => IInv'
<1>. SUFFICES ASSUME IInv, [Next]_vars PROVE IInv'
  OBVIOUS
<1>1. CASE UNCHANGED vars
  <2>1. UNCHANGED <<sent, mem, job, db, root>>
    BY <1>1 DEF vars
  <2>2. CASE ~Active
    BY <2>1, <2>2, FinishedKeeps
  <2>3. CASE Active
    BY <2>1, <2>3, JobKeeps DEF IInv, QueueInv
  <2>. QED BY <2>2, <2>3
<1>2. CASE ReplayDeferred \/ DiscardPrefix \/ TakeDue \/ Classify \/ HandleWaiting
           \/ ProcessBuffered \/ PublishQueued
  BY <1>2, ReplayKeeps, DiscardKeeps, TakeDueKeeps, ClassifyKeeps, HandleWaitingKeeps,
     ProcessBufferedKeeps, PublishQueuedKeeps
<1>3. CASE AdapterReplies \/ ResponseIsRefused \/ ResponseIsAcknowledged \/ Respond
  BY <1>3, AdapterRepliesKeeps, ResponseIsRefusedKeeps, ResponseIsAcknowledgedKeeps,
     RespondKeeps
<1>4. CASE ReceiveWaiting \/ ReceiveRunning
  BY <1>4, ReceiveKeeps
<1>5. CASE TurnBreaks
  BY <1>5, FinishKeeps DEF TurnBreaks, Finish
<1>. QED BY <1>1, <1>2, <1>3, <1>4, <1>5 DEF Next, RootStep, ResponseStep

\* The invariant holds in every reachable state of the loop, for queues of any
\* length and any number of deferred events.
THEOREM InductiveInvariant == Spec => []IInv
<1>1. Init => IInv
  BY InitIInv
<1>2. IInv /\ [Next]_vars => IInv'
  BY NextIInv
<1>. QED BY <1>1, <1>2, PTL DEF Spec

\* The selected request of execute_attempt and the pending approval of the store
\* never disagree, and the run is Waiting exactly while there is one.
THEOREM OneRequest == Spec => []WaitsForOneRequest
<1>1. IInv => WaitsForOneRequest
  <2>. SUFFICES ASSUME IInv, Active PROVE /\ db.approvals = {mem.pending} \ {None}
                                          /\ db.run = "waiting" <=> db.approvals # {}
    BY DEF WaitsForOneRequest, Active
  <2>. QED BY DEF IInv, WaitInv
<1>. QED BY <1>1, InductiveInvariant, PTL

=============================================================================
