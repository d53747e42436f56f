-------------------------- MODULE Supervisor_proofs --------------------------
(***************************************************************************)
(* Proofs about Supervisor for any number of runs and controls and for any *)
(* limits: the accounts of the supervisor are true, and runs start in the  *)
(* order of their commands.                                                *)
(***************************************************************************)
EXTENDS Supervisor, SequenceTheorems, FiniteSetTheorems, TLAPS

-----------------------------------------------------------------------------
(* The inductive invariant.                                                *)

Places == {"sweep", "serve", "drain", "interrupt", "join", "gone", "aborted"}

TypeInv ==
  /\ sub \in [Runs -> {"idle", "storing", "accepted", "refused"}]
  /\ durable \in [Runs -> {"none", "queued", "running", "terminal"}]
  /\ handle \in [Runs -> {"none", "open", "settled", "unreconciled"}]
  /\ ctl \in [Controls -> {"idle", "queued", "running", "ended", "answered"}]
  /\ task \in [Runs -> {"none", "spawned", "running", "ended", "failed"}]
  /\ lifecycle \in {"open", "closing", "closed"}
  /\ queue \in Seq(Runs \cup Controls) /\ pending \in Seq(Runs)
  /\ reserved \subseteq Runs /\ admitted \subseteq Runs /\ active \subseteq Runs
  /\ manager \in [at : Places, scan : Nat \ {0}]
  /\ failed \in BOOLEAN

Distinct(s) == \A i, j \in DOMAIN s : s[i] = s[j] => i = j

Queued == Elements(queue) \cap Runs
Waits  == Elements(pending)

\* A run that holds a permit is in exactly one place, from the reserved place
\* of its submission to its task.
PlaceInv ==
  /\ Distinct(queue) /\ Distinct(pending)
  /\ admitted = reserved \cup Queued \cup Waits \cup Tasks
  /\ reserved \cap Queued = {} /\ reserved \cap Waits = {} /\ reserved \cap Tasks = {}
  /\ Queued \cap Waits = {} /\ Queued \cap Tasks = {} /\ Waits \cap Tasks = {}
  /\ \A k \in Controls : k \in Elements(queue) <=> ctl[k] = "queued"
  /\ \A r \in Runs : /\ r \in reserved <=> sub[r] = "storing"
                     /\ r \in reserved <=> lock = r
                     /\ r \in active => sub[r] = "accepted"
  /\ Queued \cup Waits \cup Tasks \subseteq active
  /\ manager.at # "aborted" => active = Queued \cup Waits \cup Tasks

\* The limits.  A task slot is free at a manager that waits for commands only
\* when no run waits for it.
CountInv ==
  /\ Cardinality(admitted) <= MaxAdmitted
  /\ Cardinality(Tasks) <= MaxConcurrent
  /\ Cardinality(Busy) <= MaxControls
  /\ Open => Len(pending) <= MaxQueued
  /\ manager.at = "serve" /\ pending # <<>> => Cardinality(Tasks) = MaxConcurrent

\* What the handle of a run shows in each of its places.
HandleInv ==
  \A r \in Runs :
    /\ r \in Queued \cup Waits => handle[r] = "open"
    /\ task[r] \in {"spawned", "running", "failed"} => handle[r] = "open"
    /\ task[r] = "ended" => handle[r] = "settled"
    /\ handle[r] = "settled" => durable[r] = "terminal"
    /\ sub[r] = "accepted" /\ r \notin active => handle[r] \in {"settled", "unreconciled"}
    /\ sub[r] # "accepted" => handle[r] = "none"
    /\ handle[r] = "unreconciled" => failed

\* What is left behind at each place of the manager, and what the report of a
\* shutdown rests on.
PhaseInv ==
  /\ manager.at \in {"interrupt", "join", "gone"} => queue = <<>> /\ reserved = {}
  /\ manager.at \in {"join", "gone"} => pending = <<>>
  /\ manager.at = "gone" => Tasks = {}
  /\ manager.at = "aborted" => queue = <<>> /\ pending = <<>> /\ Tasks = {}
  /\ stopper \in {"stopped", "ok"} => manager.at = "gone" /\ ~failed
  /\ stopper = "ok" => lifecycle = "closed"
  /\ lock \in Runs \cup {NoOne}

IInv == TypeInv /\ PlaceInv /\ CountInv /\ HandleInv /\ PhaseInv

-----------------------------------------------------------------------------
(* What the operations of the model on sequences do to their elements.     *)

\* An empty sequence has no elements.
LEMMA EmptyElements == Elements(<<>>) = {} /\ Distinct(<<>>)
  BY DEF Elements, Distinct

\* The elements of a sequence are in its base set.
LEMMA ElementsIn ==
  ASSUME NEW S, NEW s \in Seq(S)
  PROVE  Elements(s) \subseteq S
  BY DEF Elements

\* Appending adds one element, and no duplicate if it is new.
LEMMA AppendElements ==
  ASSUME NEW S, NEW s \in Seq(S), NEW x \in S
  PROVE  /\ Append(s, x) \in Seq(S)
         /\ Elements(Append(s, x)) = Elements(s) \cup {x}
         /\ Distinct(s) /\ x \notin Elements(s) => Distinct(Append(s, x))
  <1>1. /\ Append(s, x) \in Seq(S) /\ DOMAIN s = 1 .. Len(s) /\ Len(s) \in Nat
        /\ DOMAIN Append(s, x) = 1 .. Len(s) + 1
        /\ \A i \in 1 .. Len(s) : Append(s, x)[i] = s[i]
        /\ Append(s, x)[Len(s) + 1] = x
    BY AppendProperties, LenProperties
  <1>2. Elements(Append(s, x)) = Elements(s) \cup {x}
    BY <1>1 DEF Elements
  <1>3. ASSUME Distinct(s), x \notin Elements(s)  PROVE Distinct(Append(s, x))
    BY <1>1, <1>3 DEF Elements, Distinct
  <1>. QED  BY <1>1, <1>2, <1>3

\* Taking the head removes exactly one element of a sequence without duplicates.
LEMMA TailElements ==
  ASSUME NEW S, NEW s \in Seq(S), s # <<>>, Distinct(s)
  PROVE  /\ Tail(s) \in Seq(S) /\ Head(s) \in S /\ Head(s) \in Elements(s)
         /\ Elements(Tail(s)) = Elements(s) \ {Head(s)}
         /\ Distinct(Tail(s))
         /\ Len(s) \in Nat /\ Len(Tail(s)) = Len(s) - 1
  <1>1. /\ Tail(s) \in Seq(S) /\ Head(s) = s[1] /\ DOMAIN s = 1 .. Len(s)
        /\ Len(s) \in Nat \ {0} /\ DOMAIN Tail(s) = 1 .. Len(s) - 1
        /\ Len(Tail(s)) = Len(s) - 1
        /\ \A i \in 1 .. Len(s) - 1 : Tail(s)[i] = s[i + 1]
    BY HeadTailProperties, LenProperties, EmptySeq
  <1>2. Elements(Tail(s)) = Elements(s) \ {Head(s)}
    <2>1. ASSUME NEW i \in 1 .. Len(s) - 1
          PROVE  Tail(s)[i] \in Elements(s) \ {Head(s)}
      BY <1>1 DEF Elements, Distinct
    <2>2. ASSUME NEW i \in 1 .. Len(s), s[i] # Head(s)
          PROVE  s[i] \in Elements(Tail(s))
      <3>1. i - 1 \in 1 .. Len(s) - 1 /\ Tail(s)[i - 1] = s[i]
        BY <1>1, <2>2
      <3>. QED  BY <1>1, <3>1 DEF Elements
    <2>. QED  BY <1>1, <2>1, <2>2 DEF Elements
  <1>3. Distinct(Tail(s))
    BY <1>1 DEF Distinct
  <1>. QED  BY <1>1, <1>2, <1>3 DEF Elements

\* A suffix of a sequence, element by element.
LEMMA SuffixProperties ==
  ASSUME NEW S, NEW s \in Seq(S), NEW n \in 0 .. Len(s)
  PROVE  /\ SubSeq(s, n + 1, Len(s)) \in Seq(S)
         /\ Len(SubSeq(s, n + 1, Len(s))) = Len(s) - n
         /\ \A i \in 1 .. Len(s) - n : SubSeq(s, n + 1, Len(s))[i] = s[n + i]
  <1>1. Len(s) \in Nat /\ n + 1 \in Int /\ \A i \in n + 1 .. Len(s) : s[i] \in S
    BY LenProperties
  <1>2. /\ SubSeq(s, n + 1, Len(s)) \in Seq(S)
        /\ Len(SubSeq(s, n + 1, Len(s)))
             = IF n + 1 <= Len(s) THEN Len(s) - (n + 1) + 1 ELSE 0
        /\ \A i \in 1 .. Len(s) - (n + 1) + 1 :
              SubSeq(s, n + 1, Len(s))[i] = s[(n + 1) + i - 1]
    BY <1>1, SubSeqProperties
  <1>. QED  BY <1>1, <1>2

\* Removing one position of a sequence without duplicates removes one element.
LEMMA WithoutElements ==
  ASSUME NEW S, NEW s \in Seq(S), NEW n \in 1 .. Len(s), Distinct(s)
  PROVE  /\ Without(s, n) \in Seq(S)
         /\ s[n] \in Elements(s)
         /\ Elements(Without(s, n)) = Elements(s) \ {s[n]}
         /\ Distinct(Without(s, n))
         /\ Len(s) \in Nat /\ Len(Without(s, n)) = Len(s) - 1
  <1>1. /\ DOMAIN s = 1 .. Len(s) /\ Len(s) \in Nat
        /\ \A i \in 1 .. Len(s) : s[i] \in S
    BY LenProperties
  <1>a. /\ SubSeq(s, 1, n - 1) \in Seq(S) /\ Len(SubSeq(s, 1, n - 1)) = n - 1
        /\ \A i \in 1 .. n - 1 : SubSeq(s, 1, n - 1)[i] = s[i]
    <2>1. \A i \in 1 .. n - 1 : s[i] \in S
      BY <1>1
    <2>. QED  BY <1>1, <2>1, SubSeqProperties
  <1>b. /\ SubSeq(s, n + 1, Len(s)) \in Seq(S)
        /\ Len(SubSeq(s, n + 1, Len(s))) = Len(s) - n
        /\ \A i \in 1 .. Len(s) - n : SubSeq(s, n + 1, Len(s))[i] = s[n + i]
    BY SuffixProperties
  <1>2. /\ Without(s, n) \in Seq(S)
        /\ Len(Without(s, n)) = Len(s) - 1
        /\ DOMAIN Without(s, n) = 1 .. Len(s) - 1
        /\ \A i \in 1 .. Len(s) - 1 :
              Without(s, n)[i] = IF i < n THEN s[i] ELSE s[i + 1]
    <2>1. /\ Without(s, n) \in Seq(S)
          /\ Len(Without(s, n)) = (n - 1) + (Len(s) - n)
          /\ \A i \in 1 .. (n - 1) + (Len(s) - n) :
                Without(s, n)[i] = IF i <= n - 1 THEN SubSeq(s, 1, n - 1)[i]
                                   ELSE SubSeq(s, n + 1, Len(s))[i - (n - 1)]
      <3>. DEFINE front == SubSeq(s, 1, n - 1)
                  rest == SubSeq(s, n + 1, Len(s))
      <3>1. front \in Seq(S) /\ rest \in Seq(S) /\ Len(front) = n - 1 /\ Len(rest) = Len(s) - n
        BY <1>a, <1>b
      <3>2. Without(s, n) = front \o rest
        BY DEF Without
      <3>. HIDE DEF front, rest
      <3>3. /\ front \o rest \in Seq(S) /\ Len(front \o rest) = Len(front) + Len(rest)
            /\ \A i \in 1 .. Len(front) + Len(rest) :
                 (front \o rest)[i] = IF i <= Len(front) THEN front[i] ELSE rest[i - Len(front)]
        BY <3>1, ConcatProperties
      <3>4. /\ Without(s, n) \in Seq(S)
            /\ Len(Without(s, n)) = (n - 1) + (Len(s) - n)
            /\ \A i \in 1 .. (n - 1) + (Len(s) - n) :
                  Without(s, n)[i] = IF i <= n - 1 THEN front[i] ELSE rest[i - (n - 1)]
        BY <3>1, <3>2, <3>3
      <3>. QED  BY <3>4 DEF front, rest
    <2>2. DOMAIN Without(s, n) = 1 .. Len(Without(s, n))
      BY <2>1, LenProperties
    <2>3. (n - 1) + (Len(s) - n) = Len(s) - 1
      BY <1>1
    <2>4. ASSUME NEW i \in 1 .. Len(s) - 1
          PROVE  Without(s, n)[i] = IF i < n THEN s[i] ELSE s[i + 1]
      <3>1. CASE i < n
        BY <1>1, <1>a, <2>1, <2>3, <3>1
      <3>2. CASE i >= n
        <4>1. i - (n - 1) \in 1 .. Len(s) - n /\ n + (i - (n - 1)) = i + 1 /\ ~(i <= n - 1)
          BY <1>1, <3>2
        <4>2. Without(s, n)[i] = SubSeq(s, n + 1, Len(s))[i - (n - 1)]
          BY <2>1, <2>3, <4>1
        <4>3. SubSeq(s, n + 1, Len(s))[i - (n - 1)] = s[n + (i - (n - 1))]
          BY <1>b, <4>1
        <4>. QED  BY <3>2, <4>1, <4>2, <4>3
      <3>. QED  BY <1>1, <3>1, <3>2
    <2>. QED  BY <2>1, <2>2, <2>3, <2>4
  <1>3. Elements(Without(s, n)) = Elements(s) \ {s[n]}
    <2>1. ASSUME NEW i \in 1 .. Len(s) - 1
          PROVE  Without(s, n)[i] \in Elements(s) \ {s[n]}
      BY <1>1, <1>2 DEF Elements, Distinct
    <2>2. ASSUME NEW i \in 1 .. Len(s), s[i] # s[n]
          PROVE  s[i] \in Elements(Without(s, n))
      <3>1. CASE i < n
        BY <1>1, <1>2, <3>1 DEF Elements
      <3>2. CASE i > n
        <4>1. i - 1 \in 1 .. Len(s) - 1 /\ Without(s, n)[i - 1] = s[i]
          BY <1>1, <1>2, <3>2
        <4>. QED  BY <1>2, <4>1 DEF Elements
      <3>. QED  BY <1>1, <2>2, <3>1, <3>2
    <2>. QED  BY <1>1, <1>2, <2>1, <2>2 DEF Elements
  <1>4. Distinct(Without(s, n))
    <2>. SUFFICES ASSUME NEW i \in 1 .. Len(s) - 1, NEW j \in 1 .. Len(s) - 1,
                         Without(s, n)[i] = Without(s, n)[j]
                  PROVE  i = j
      BY <1>2 DEF Distinct
    <2>. DEFINE place(l) == IF l < n THEN l ELSE l + 1
    <2>1. place(i) \in DOMAIN s /\ place(j) \in DOMAIN s
      BY <1>1
    <2>2. s[place(i)] = s[place(j)]
      BY <1>2
    <2>3. place(i) = place(j)
      BY <2>1, <2>2 DEF Distinct
    <2>. QED  BY <2>3
  <1>. QED  BY <1>1, <1>2, <1>3, <1>4 DEF Elements

\* A line cut in two: what is taken from its front, and what stays.
LEMMA CutElements ==
  ASSUME NEW S, NEW s \in Seq(S), NEW n \in 0 .. Len(s), Distinct(s)
  PROVE  LET front == SubSeq(s, 1, n)  rest == SubSeq(s, n + 1, Len(s)) IN
         /\ front \in Seq(S) /\ Len(front) = n /\ Distinct(front)
         /\ rest \in Seq(S) /\ Len(rest) = Len(s) - n /\ Distinct(rest)
         /\ Elements(s) = Elements(front) \cup Elements(rest)
         /\ Elements(front) \cap Elements(rest) = {}
         /\ \A i \in 1 .. n : front[i] = s[i]
  <1>. DEFINE front == SubSeq(s, 1, n)
              rest == SubSeq(s, n + 1, Len(s))
  <1>1. /\ DOMAIN s = 1 .. Len(s) /\ Len(s) \in Nat
        /\ \A i \in 1 .. Len(s) : s[i] \in S
    BY LenProperties
  <1>2. /\ front \in Seq(S) /\ Len(front) = n /\ DOMAIN front = 1 .. n
        /\ \A i \in 1 .. n : front[i] = s[i]
    <2>1. \A i \in 1 .. n : s[i] \in S
      BY <1>1
    <2>2. front \in Seq(S) /\ Len(front) = n /\ \A i \in 1 .. n : front[i] = s[i]
      BY <1>1, <2>1, SubSeqProperties
    <2>. QED  BY <2>2, LenProperties
  <1>3. /\ rest \in Seq(S) /\ Len(rest) = Len(s) - n /\ DOMAIN rest = 1 .. Len(s) - n
        /\ \A i \in 1 .. Len(s) - n : rest[i] = s[n + i]
    <2>2. /\ rest \in Seq(S) /\ Len(rest) = Len(s) - n
          /\ \A i \in 1 .. Len(s) - n : rest[i] = s[n + i]
      BY SuffixProperties
    <2>. QED  BY <2>2, LenProperties
  <1>. HIDE DEF front, rest
  <1>4. Distinct(front) /\ Distinct(rest)
    <2>1. Distinct(front)
      BY <1>1, <1>2 DEF Distinct
    <2>2. ASSUME NEW i \in 1 .. Len(s) - n, NEW j \in 1 .. Len(s) - n, rest[i] = rest[j]
          PROVE  i = j
      <3>1. n + i \in DOMAIN s /\ n + j \in DOMAIN s /\ s[n + i] = s[n + j]
        BY <1>1, <1>3, <2>2
      <3>2. n + i = n + j
        BY <3>1 DEF Distinct
      <3>. QED  BY <1>1, <3>2
    <2>3. Distinct(rest)
      BY <1>3, <2>2 DEF Distinct
    <2>. QED  BY <2>1, <2>3
  <1>5. Elements(s) = Elements(front) \cup Elements(rest)
    <2>1. ASSUME NEW i \in 1 .. Len(s)  PROVE s[i] \in Elements(front) \cup Elements(rest)
      <3>1. CASE i <= n
        <4>1. i \in 1 .. n /\ front[i] = s[i]
          BY <1>1, <1>2, <3>1
        <4>. QED  BY <1>2, <4>1 DEF Elements
      <3>2. CASE i > n
        <4>1. i - n \in 1 .. Len(s) - n /\ rest[i - n] = s[i]
          BY <1>1, <1>3, <3>2
        <4>. QED  BY <1>3, <4>1 DEF Elements
      <3>. QED  BY <1>1, <3>1, <3>2
    <2>2. ASSUME NEW i \in 1 .. n  PROVE front[i] \in Elements(s)
      <3>1. i \in 1 .. Len(s) /\ front[i] = s[i]
        BY <1>1, <1>2
      <3>. QED  BY <1>1, <3>1 DEF Elements
    <2>3. ASSUME NEW i \in 1 .. Len(s) - n  PROVE rest[i] \in Elements(s)
      <3>1. n + i \in 1 .. Len(s) /\ rest[i] = s[n + i]
        BY <1>1, <1>3
      <3>. QED  BY <1>1, <3>1 DEF Elements
    <2>4. Elements(s) \subseteq Elements(front) \cup Elements(rest)
      <3>. SUFFICES ASSUME NEW x \in Elements(s)
                    PROVE  x \in Elements(front) \cup Elements(rest)
        OBVIOUS
      <3>1. PICK i \in 1 .. Len(s) : x = s[i]
        BY <1>1 DEF Elements
      <3>. QED  BY <2>1, <3>1
    <2>5. Elements(front) \subseteq Elements(s)
      BY <1>2, <2>2 DEF Elements
    <2>6. Elements(rest) \subseteq Elements(s)
      BY <1>3, <2>3 DEF Elements
    <2>. QED  BY <2>4, <2>5, <2>6
  <1>6. Elements(front) \cap Elements(rest) = {}
    <2>1. ASSUME NEW i \in 1 .. n, NEW j \in 1 .. Len(s) - n  PROVE front[i] # rest[j]
      <3>1. front[i] = s[i] /\ rest[j] = s[n + j]
        BY <1>2, <1>3
      <3>2. i \in DOMAIN s /\ n + j \in DOMAIN s /\ i # n + j
        BY <1>1
      <3>. QED  BY <3>1, <3>2 DEF Distinct
    <2>. QED  BY <1>2, <1>3, <2>1 DEF Elements
  <1>. QED  BY <1>2, <1>3, <1>4, <1>5, <1>6 DEF front, rest

\* A line without repetitions is as long as the set of its elements is large.
LEMMA DistinctCardinality ==
  ASSUME NEW S, NEW s \in Seq(S), Distinct(s)
  PROVE  IsFiniteSet(Elements(s)) /\ Cardinality(Elements(s)) = Len(s)
  <1>1. Len(s) \in Nat /\ DOMAIN s = 1 .. Len(s) /\ s \in [1 .. Len(s) -> Elements(s)]
    BY LenProperties DEF Elements
  <1>2. s \in Bijection(1 .. Len(s), Elements(s))
    BY <1>1 DEF Elements, Distinct, Bijection, Injection, Surjection, IsInjective
  <1>3. ExistsBijection(1 .. Len(s), Elements(s))
    BY <1>2 DEF ExistsBijection
  <1>4. IsFiniteSet(1 .. Len(s)) /\ Cardinality(1 .. Len(s)) = Len(s)
    BY <1>1, FS_Interval
  <1>. QED  BY <1>3, <1>4, FS_Bijection

\* Disjoint finite sets are counted by their sum.
LEMMA DisjointUnion ==
  ASSUME NEW S, NEW T, IsFiniteSet(S), IsFiniteSet(T), S \cap T = {}
  PROVE  /\ IsFiniteSet(S \cup T)
         /\ Cardinality(S) \in Nat /\ Cardinality(T) \in Nat
         /\ Cardinality(S \cup T) = Cardinality(S) + Cardinality(T)
  <1>1. Cardinality(S) \in Nat /\ Cardinality(T) \in Nat
    BY FS_CardinalityType
  <1>2. /\ IsFiniteSet(S \cup T)
        /\ Cardinality(S \cup T) = Cardinality(S) + Cardinality(T) - Cardinality(S \cap T)
    BY FS_Union
  <1>3. Cardinality(S \cap T) = 0
    BY FS_EmptySet
  <1>. QED  BY <1>1, <1>2, <1>3

\* A finite set in four disjoint parts.
LEMMA FourParts ==
  ASSUME NEW A, NEW R, NEW Q, NEW P, NEW T,
         IsFiniteSet(A), A = R \cup Q \cup P \cup T,
         R \cap Q = {}, R \cap P = {}, R \cap T = {},
         Q \cap P = {}, Q \cap T = {}, P \cap T = {}
  PROVE  /\ IsFiniteSet(R) /\ IsFiniteSet(Q) /\ IsFiniteSet(P) /\ IsFiniteSet(T)
         /\ Cardinality(R) \in Nat /\ Cardinality(Q) \in Nat
         /\ Cardinality(P) \in Nat /\ Cardinality(T) \in Nat
         /\ Cardinality(A) = Cardinality(R) + Cardinality(Q) + Cardinality(P) + Cardinality(T)
  <1>1. IsFiniteSet(R) /\ IsFiniteSet(Q) /\ IsFiniteSet(P) /\ IsFiniteSet(T)
    BY FS_Subset
  <1>2. IsFiniteSet(R \cup Q) /\ Cardinality(R \cup Q) = Cardinality(R) + Cardinality(Q)
    BY <1>1, DisjointUnion
  <1>3. IsFiniteSet(P \cup T) /\ Cardinality(P \cup T) = Cardinality(P) + Cardinality(T)
    BY <1>1, DisjointUnion
  <1>4. (R \cup Q) \cap (P \cup T) = {} /\ A = (R \cup Q) \cup (P \cup T)
    OBVIOUS
  <1>5. Cardinality(A) = Cardinality(R \cup Q) + Cardinality(P \cup T)
    BY <1>2, <1>3, <1>4, DisjointUnion
  <1>6. /\ Cardinality(R) \in Nat /\ Cardinality(Q) \in Nat
        /\ Cardinality(P) \in Nat /\ Cardinality(T) \in Nat
    BY <1>1, FS_CardinalityType
  <1>. QED  BY <1>1, <1>2, <1>3, <1>5, <1>6

\* The runs are finitely many.
LEMMA FiniteRuns == IsFiniteSet(Runs) /\ \A X \in SUBSET Runs : IsFiniteSet(X)
  <1>1. IsFiniteSet(Runs)
    BY BoundsAssumption, FS_Interval DEF Runs
  <1>. QED  BY <1>1, FS_Subset

\* The controls are finitely many.
LEMMA FiniteControls == IsFiniteSet(Controls) /\ \A X \in SUBSET Controls : IsFiniteSet(X)
  BY ControlsAssumption, FS_Subset

\* The permits that are held, counted place by place, and the channel.
LEMMA Counts ==
  ASSUME TypeInv, PlaceInv
  PROVE  /\ Cardinality(reserved) \in Nat /\ Cardinality(Queued) \in Nat
         /\ Cardinality(Tasks) \in Nat /\ Len(pending) \in Nat /\ Len(queue) \in Nat
         /\ Cardinality(Busy) \in Nat
         /\ Cardinality(admitted) = Cardinality(reserved) + Cardinality(Queued)
                                     + Len(pending) + Cardinality(Tasks)
         /\ Len(queue) <= Cardinality(Queued) + Cardinality(Busy)
         /\ \A r \in Queued : Cardinality(Queued) > 0
  <1>1. Cardinality(Waits) = Len(pending) /\ Len(pending) \in Nat
    BY DistinctCardinality, LenProperties DEF TypeInv, PlaceInv, Waits
  <1>2. IsFiniteSet(admitted)
    BY FiniteRuns DEF TypeInv
  <1>3. /\ Cardinality(reserved) \in Nat /\ Cardinality(Queued) \in Nat
        /\ Cardinality(Tasks) \in Nat /\ IsFiniteSet(Queued)
        /\ Cardinality(admitted) = Cardinality(reserved) + Cardinality(Queued)
                                    + Cardinality(Waits) + Cardinality(Tasks)
    <2>. DEFINE R == reserved  Q == Queued  P == Waits  T == Tasks
    <2>1. /\ admitted = R \cup Q \cup P \cup T
          /\ R \cap Q = {} /\ R \cap P = {} /\ R \cap T = {}
          /\ Q \cap P = {} /\ Q \cap T = {} /\ P \cap T = {}
      BY DEF PlaceInv
    <2>. HIDE DEF R, Q, P, T
    <2>2. /\ IsFiniteSet(Q) /\ Cardinality(R) \in Nat /\ Cardinality(Q) \in Nat
          /\ Cardinality(T) \in Nat
          /\ Cardinality(admitted) = Cardinality(R) + Cardinality(Q) + Cardinality(P)
                                      + Cardinality(T)
      BY <1>2, <2>1, FourParts
    <2>. QED  BY <2>2 DEF R, Q, P, T
  <1>4. Cardinality(Busy) \in Nat /\ IsFiniteSet(Busy)
    BY FiniteControls, FS_CardinalityType DEF Busy
  <1>5. Elements(queue) \subseteq Queued \cup Busy
    BY ElementsIn DEF TypeInv, PlaceInv, Queued, Busy
  <1>6. Len(queue) = Cardinality(Elements(queue)) /\ Len(queue) \in Nat
    BY DistinctCardinality, LenProperties DEF TypeInv, PlaceInv
  <1>7. Queued \cap Busy = {}
    BY ControlsAssumption DEF Queued, Busy
  <1>8. IsFiniteSet(Queued \cup Busy)
        /\ Cardinality(Queued \cup Busy) = Cardinality(Queued) + Cardinality(Busy)
    BY <1>3, <1>4, <1>7, FS_Union, FS_EmptySet
  <1>9. Len(queue) <= Cardinality(Queued) + Cardinality(Busy)
    BY <1>5, <1>6, <1>8, FS_Subset
  <1>10. \A r \in Queued : Cardinality(Queued) > 0
    BY <1>3, FS_EmptySet
  <1>. QED  BY <1>1, <1>3, <1>4, <1>6, <1>9, <1>10

-----------------------------------------------------------------------------
(* The invariant is inductive.                                             *)

\* The supervisor starts in the invariant.
LEMMA InitInv == Init => IInv
  <1>. SUFFICES ASSUME Init  PROVE IInv
    OBVIOUS
  <1>. USE DEF Init
  <1>1. Elements(queue) = {} /\ Elements(pending) = {} /\ Distinct(queue) /\ Distinct(pending)
    BY EmptyElements
  <1>2. Tasks = {} /\ Busy = {}
    BY DEF Tasks, Busy
  <1>3. TypeInv
    <2>1. queue \in Seq(Runs \cup Controls) /\ pending \in Seq(Runs) /\ Len(pending) = 0
      BY EmptySeq
    <2>2. manager \in [at : Places, scan : Nat \ {0}]
      BY DEF Places
    <2>. QED  BY <2>1, <2>2 DEF TypeInv
  <1>4. PlaceInv
    BY <1>1, <1>2, BoundsAssumption DEF PlaceInv, Queued, Waits, Runs, NoOne
  <1>5. CountInv
    BY <1>2, BoundsAssumption, FS_EmptySet, EmptySeq DEF CountInv, Open, MaxAdmitted
  <1>6. HandleInv
    BY <1>1, <1>2 DEF HandleInv, Queued, Waits
  <1>7. PhaseInv
    BY DEF PhaseInv
  <1>. QED  BY <1>3, <1>4, <1>5, <1>6, <1>7 DEF IInv

\* Runs, controls and the value for nobody are distinct.
LEMMA Apart == NoOne \notin Runs /\ Runs \cap Controls = {}
  BY BoundsAssumption, ControlsAssumption DEF Runs, NoOne

\* A step that lets go of permits, tasks and controls keeps within the limits.
LEMMA FewerHeld ==
  ASSUME IInv, admitted' \subseteq admitted, Tasks' \subseteq Tasks, Busy' \subseteq Busy
  PROVE  /\ Cardinality(admitted)' <= MaxAdmitted
         /\ Cardinality(Tasks)' <= MaxConcurrent
         /\ Cardinality(Busy)' <= MaxControls
  <1>1. IsFiniteSet(admitted) /\ IsFiniteSet(Tasks) /\ IsFiniteSet(Busy)
    BY FiniteRuns, FiniteControls DEF IInv, TypeInv, Tasks, Busy
  <1>2. /\ Cardinality(admitted') <= Cardinality(admitted)
        /\ Cardinality(Tasks') <= Cardinality(Tasks)
        /\ Cardinality(Busy') <= Cardinality(Busy)
    BY <1>1, FS_Subset
  <1>3. /\ Cardinality(admitted) \in Nat /\ Cardinality(Tasks) \in Nat
        /\ Cardinality(Busy) \in Nat
        /\ Cardinality(admitted') \in Nat /\ Cardinality(Tasks') \in Nat
        /\ Cardinality(Busy') \in Nat
    BY <1>1, FS_CardinalityType, FS_Subset
  <1>. QED  BY <1>2, <1>3, BoundsAssumption DEF IInv, CountInv, MaxAdmitted

\* The calls of users: a submission is admitted or refused ...
LEMMA SubmitInv ==
  ASSUME IInv, NEW r \in Runs, Submit(r)
  PROVE  IInv'
  <1>1. TypeInv'
    BY Apart DEF IInv, TypeInv, Submit, flags, results
  <1>2. PlaceInv'
    <2>1. CASE sub'[r] = "storing"
      <3>1. reserved = {} /\ r \notin Queued \cup Waits \cup Tasks
        BY Apart DEF IInv, TypeInv, PlaceInv, Submit
      <3>2. /\ lock' = r /\ reserved' = {r} /\ admitted' = admitted \cup {r}
            /\ sub' = [sub EXCEPT ![r] = "storing"]
        BY <2>1, <3>1 DEF IInv, TypeInv, Submit, flags, results
      <3>3. UNCHANGED <<queue, pending, task, active, ctl, manager>>
        BY DEF Submit, flags, results
      <3>. QED  BY <3>1, <3>2, <3>3 DEF IInv, TypeInv, PlaceInv, Queued, Waits, Tasks, Submit
    <2>2. CASE sub'[r] # "storing"
      <3>1. /\ sub' = [sub EXCEPT ![r] = "refused"]
            /\ UNCHANGED <<lock, reserved, admitted, queue, pending, task, active, ctl, manager>>
        BY <2>2 DEF IInv, TypeInv, Submit, flags, results
      <3>. QED  BY <3>1, Apart DEF IInv, TypeInv, PlaceInv, Queued, Waits, Tasks, Submit
    <2>. QED  BY <2>1, <2>2
  <1>3. CountInv'
    <2>1. Tasks' = Tasks /\ Busy' = Busy
      BY DEF Submit, flags, results, Tasks, Busy
    <2>2. UNCHANGED <<pending, manager>>
      BY DEF Submit, flags, results
    <2>3. Cardinality(admitted)' <= MaxAdmitted
      <3>1. IsFiniteSet(admitted) /\ Cardinality(admitted) \in Nat
        BY FiniteRuns, FS_CardinalityType DEF IInv, TypeInv
      <3>2. \/ admitted' = admitted
            \/ admitted' = admitted \cup {r} /\ Cardinality(admitted) < MaxAdmitted
        BY DEF Submit, flags, results
      <3>3. Cardinality(admitted \cup {r})
              = IF r \in admitted THEN Cardinality(admitted) ELSE Cardinality(admitted) + 1
        BY <3>1, FS_AddElement
      <3>4. MaxAdmitted \in Nat
        BY BoundsAssumption DEF MaxAdmitted
      <3>5. CASE admitted' = admitted
        BY <3>5 DEF IInv, CountInv
      <3>6. CASE admitted' = admitted \cup {r} /\ Cardinality(admitted) < MaxAdmitted
        BY <3>1, <3>3, <3>4, <3>6
      <3>. QED  BY <3>2, <3>5, <3>6
    <2>. QED  BY <2>1, <2>2, <2>3 DEF IInv, CountInv, Open
  <1>4. HandleInv'
    BY Apart DEF IInv, HandleInv, TypeInv, PlaceInv, Queued, Waits, Tasks, Submit, flags, results
  <1>5. PhaseInv'
    <2>1. Tasks' = Tasks /\ UNCHANGED <<manager, queue, pending, failed, stopper, lifecycle>>
      BY DEF Tasks, Submit, flags, results
    <2>2. reserved' = reserved \/ Open
      BY DEF Submit
    <2>3. lock' \in Runs \cup {NoOne}
      BY DEF IInv, PhaseInv, Submit
    <2>. QED  BY <2>1, <2>2, <2>3 DEF IInv, PhaseInv, Open
  <1>. QED  BY <1>1, <1>2, <1>3, <1>4, <1>5 DEF IInv

\* ... it takes its place in the channel, or learns that the manager is gone ...
LEMMA EnqueueInv ==
  ASSUME IInv, NEW r \in Runs, Enqueue(r)
  PROVE  IInv'
  <1>. DEFINE place == IF manager.at = "aborted" THEN {} ELSE {r}
  <1>a. /\ queue' \in Seq(Runs \cup Controls) /\ Distinct(queue')
        /\ Elements(queue') = Elements(queue) \cup place
    <2>1. queue \in Seq(Runs \cup Controls) /\ Distinct(queue) /\ r \notin Elements(queue)
      BY DEF IInv, TypeInv, PlaceInv, Queued, Enqueue
    <2>2. /\ Append(queue, r) \in Seq(Runs \cup Controls) /\ Distinct(Append(queue, r))
          /\ Elements(Append(queue, r)) = Elements(queue) \cup {r}
      BY <2>1, AppendElements
    <2>. QED  BY <2>1, <2>2 DEF Enqueue
  <1>b. /\ r \in reserved /\ lock = r
        /\ r \notin Queued /\ r \notin Waits /\ r \notin Tasks
        /\ manager.at \notin {"interrupt", "join", "gone"}
    BY DEF IInv, PlaceInv, PhaseInv, Enqueue
  <1>c. /\ Queued' = Queued \cup place /\ Waits' = Waits /\ Tasks' = Tasks
        /\ reserved' = reserved \ {r} /\ active' = active \cup {r}
        /\ admitted' = IF manager.at = "aborted" THEN admitted \ {r} ELSE admitted
        /\ UNCHANGED <<pending, task, ctl, manager, failed, stopper, lifecycle>>
        /\ lock' = NoOne /\ sub' = [sub EXCEPT ![r] = "accepted"]
        /\ handle' = [handle EXCEPT ![r] = "open"] /\ durable' = [durable EXCEPT ![r] = "queued"]
    BY <1>a DEF Queued, Waits, Tasks, Enqueue, flags
  <1>1. TypeInv'
    BY <1>a, <1>c DEF IInv, TypeInv
  <1>2. PlaceInv'
    <2>1. /\ Queued \cap Waits = {} /\ Queued \cap Tasks = {} /\ Waits \cap Tasks = {}
          /\ admitted = reserved \cup Queued \cup Waits \cup Tasks
          /\ reserved \cap Queued = {} /\ reserved \cap Waits = {} /\ reserved \cap Tasks = {}
      BY DEF IInv, PlaceInv
    <2>2. /\ Distinct(queue') /\ Distinct(pending')
          /\ admitted' = reserved' \cup Queued' \cup Waits' \cup Tasks'
          /\ reserved' \cap Queued' = {} /\ reserved' \cap Waits' = {} /\ reserved' \cap Tasks' = {}
          /\ Queued' \cap Waits' = {} /\ Queued' \cap Tasks' = {} /\ Waits' \cap Tasks' = {}
      BY <1>a, <1>b, <1>c, <2>1 DEF IInv, PlaceInv
    <2>3. \A k \in Controls : k \in Elements(queue') <=> ctl'[k] = "queued"
      BY <1>a, <1>c, Apart DEF IInv, PlaceInv
    <2>4. \A s \in Runs : /\ s \in reserved' <=> sub'[s] = "storing"
                          /\ s \in reserved' <=> lock' = s
                          /\ s \in active' => sub'[s] = "accepted"
      BY <1>b, <1>c, Apart DEF IInv, PlaceInv, TypeInv
    <2>5. /\ Queued' \cup Waits' \cup Tasks' \subseteq active'
          /\ manager'.at # "aborted" => active' = Queued' \cup Waits' \cup Tasks'
      BY <1>c DEF IInv, PlaceInv
    <2>. QED  BY <2>2, <2>3, <2>4, <2>5 DEF PlaceInv
  <1>3. CountInv'
    <2>1. admitted' \subseteq admitted /\ Busy' = Busy
      BY <1>c DEF Busy
    <2>. QED  BY <1>c, <2>1, FewerHeld DEF IInv, CountInv, Open
  <1>4. HandleInv'
    BY <1>b, <1>c DEF IInv, TypeInv, HandleInv, Tasks, Enqueue
  <1>5. PhaseInv'
    BY <1>b, <1>c DEF IInv, PhaseInv, Enqueue
  <1>. QED  BY <1>1, <1>2, <1>3, <1>4, <1>5 DEF IInv

\* ... or its future is dropped and gives the place back.
LEMMA AbandonInv ==
  ASSUME IInv, NEW r \in Runs, Abandon(r)
  PROVE  IInv'
  <1>a. /\ r \in reserved /\ lock = r
        /\ r \notin Queued /\ r \notin Waits /\ r \notin Tasks
    BY DEF IInv, PlaceInv, Abandon
  <1>1. TypeInv'
    BY Apart DEF IInv, TypeInv, Abandon, flags, results
  <1>2. PlaceInv'
    BY <1>a, Apart DEF IInv, PlaceInv, TypeInv, Queued, Waits, Tasks, Abandon, flags, results
  <1>3. CountInv'
    <2>1. admitted' \subseteq admitted /\ Tasks' = Tasks /\ Busy' \subseteq Busy
      BY DEF Abandon, flags, results, Tasks, Busy
    <2>2. (Open => Len(pending) <= MaxQueued)'
      BY DEF IInv, CountInv, Open, Abandon, flags, results
    <2>3. (manager.at = "serve" /\ pending # <<>> => Cardinality(Tasks) = MaxConcurrent)'
      BY <2>1 DEF IInv, CountInv, Abandon, flags, results
    <2>. QED  BY <2>1, <2>2, <2>3, FewerHeld DEF CountInv
  <1>4. HandleInv'
    BY Apart DEF IInv, HandleInv, TypeInv, PlaceInv, Queued, Waits, Tasks, Abandon, flags, results
  <1>5. PhaseInv'
    BY Apart DEF IInv, PhaseInv, TypeInv, PlaceInv, Queued, Tasks, Abandon, flags, results
  <1>. QED  BY <1>1, <1>2, <1>3, <1>4, <1>5 DEF IInv

\* A control is queued within its limit or refused.
LEMMA ControlInv ==
  ASSUME IInv, NEW k \in Controls, Control(k)
  PROVE  IInv'
  <1>. DEFINE joins == ctl'[k] = "queued"
  <1>a. UNCHANGED <<sub, lock, lifecycle, reserved, admitted, active, pending, task, durable, handle,
                    failed, manager, stopper>>
    BY DEF Control, flags, results
  <1>b. /\ ctl' = [ctl EXCEPT ![k] = IF joins THEN "queued" ELSE "answered"]
        /\ ctl[k] = "idle" /\ k \notin Elements(queue)
        /\ joins => Open /\ Cardinality(Busy) < MaxControls
    BY DEF IInv, TypeInv, PlaceInv, Control
  <1>c. /\ queue' \in Seq(Runs \cup Controls) /\ Distinct(queue')
        /\ Elements(queue') = IF joins THEN Elements(queue) \cup {k} ELSE Elements(queue)
        /\ ~Open => queue' = queue
    <2>1. queue \in Seq(Runs \cup Controls) /\ Distinct(queue) /\ k \notin Elements(queue)
      BY <1>b DEF IInv, TypeInv, PlaceInv
    <2>2. /\ Append(queue, k) \in Seq(Runs \cup Controls) /\ Distinct(Append(queue, k))
          /\ Elements(Append(queue, k)) = Elements(queue) \cup {k}
      BY <2>1, AppendElements
    <2>3. IF joins THEN queue' = Append(queue, k) ELSE queue' = queue
      BY <1>b DEF Control, IInv, TypeInv
    <2>. QED  BY <1>b, <2>1, <2>2, <2>3
  <1>d. Queued' = Queued /\ Waits' = Waits /\ Tasks' = Tasks
    BY <1>a, <1>c, Apart DEF Queued, Waits, Tasks
  <1>1. TypeInv'
    BY <1>a, <1>b, <1>c DEF IInv, TypeInv
  <1>2. PlaceInv'
    BY <1>a, <1>b, <1>c, <1>d DEF IInv, TypeInv, PlaceInv
  <1>3. CountInv'
    <2>1. Cardinality(Busy)' <= MaxControls
      <3>1. IsFiniteSet(Busy) /\ Cardinality(Busy) \in Nat
        BY FiniteControls, FS_CardinalityType DEF Busy
      <3>2. Busy' = IF joins THEN Busy \cup {k} ELSE Busy
        BY <1>b DEF Busy, IInv, TypeInv
      <3>3. Cardinality(Busy \cup {k})
              = IF k \in Busy THEN Cardinality(Busy) ELSE Cardinality(Busy) + 1
        BY <3>1, FS_AddElement
      <3>. QED  BY <1>b, <3>1, <3>2, <3>3, BoundsAssumption DEF IInv, CountInv
    <2>. QED  BY <1>a, <1>d, <2>1 DEF IInv, CountInv, Open
  <1>4. HandleInv'
    BY <1>a, <1>d DEF IInv, HandleInv
  <1>5. PhaseInv'
    BY <1>a, <1>c, <1>d DEF IInv, PhaseInv, Open
  <1>. QED  BY <1>1, <1>2, <1>3, <1>4, <1>5 DEF IInv

\* A task begins to work,
LEMMA TaskBeginsInv ==
  ASSUME IInv, NEW r \in Runs, TaskBegins(r)
  PROVE  IInv'
  <1>1. TypeInv'
    BY DEF IInv, TypeInv, TaskBegins, Settles, Fault, callers, flags
  <1>2. PlaceInv'
    BY DEF IInv, PlaceInv, TypeInv, Queued, Waits, Tasks, TaskBegins, Settles, Fault, callers, flags
  <1>3. CountInv'
    <2>1. admitted' \subseteq admitted /\ Tasks' = Tasks /\ Busy' \subseteq Busy
      BY DEF IInv, TypeInv, TaskBegins, Settles, Fault, callers, flags, Tasks, Busy
    <2>2. (Open => Len(pending) <= MaxQueued)'
      BY DEF IInv, CountInv, Open, TaskBegins, Settles, Fault, callers, flags
    <2>3. (manager.at = "serve" /\ pending # <<>> => Cardinality(Tasks) = MaxConcurrent)'
      BY <2>1 DEF IInv, CountInv, TaskBegins, Settles, Fault, callers, flags
    <2>. QED  BY <2>1, <2>2, <2>3, FewerHeld DEF CountInv
  <1>4. HandleInv'
    BY DEF IInv, HandleInv, TypeInv, PlaceInv, Queued, Waits, Tasks, TaskBegins, Settles, Fault,
           callers, flags
  <1>5. PhaseInv'
    BY DEF IInv, PhaseInv, TypeInv, PlaceInv, Queued, Tasks, TaskBegins, Settles, Fault,
           callers, flags
  <1>. QED  BY <1>1, <1>2, <1>3, <1>4, <1>5 DEF IInv

\* settles its run,
LEMMA TaskEndsInv ==
  ASSUME IInv, NEW r \in Runs, TaskEnds(r)
  PROVE  IInv'
  <1>1. TypeInv'
    BY DEF IInv, TypeInv, TaskEnds, Settles, callers, flags
  <1>2. PlaceInv'
    BY DEF IInv, PlaceInv, TypeInv, Queued, Waits, Tasks, TaskEnds, Settles, callers, flags
  <1>3. CountInv'
    <2>1. admitted' \subseteq admitted /\ Tasks' = Tasks /\ Busy' \subseteq Busy
      BY DEF IInv, TypeInv, TaskEnds, Settles, callers, flags, Tasks, Busy
    <2>2. (Open => Len(pending) <= MaxQueued)'
      BY DEF IInv, CountInv, Open, TaskEnds, Settles, callers, flags
    <2>3. (manager.at = "serve" /\ pending # <<>> => Cardinality(Tasks) = MaxConcurrent)'
      BY <2>1 DEF IInv, CountInv, TaskEnds, Settles, callers, flags
    <2>. QED  BY <2>1, <2>2, <2>3, FewerHeld DEF CountInv
  <1>4. HandleInv'
    BY DEF IInv, HandleInv, TypeInv, PlaceInv, Queued, Waits, Tasks, TaskEnds, Settles, callers,
           flags
  <1>5. PhaseInv'
    BY DEF IInv, PhaseInv, TypeInv, PlaceInv, Queued, Tasks, TaskEnds, Settles, callers, flags
  <1>. QED  BY <1>1, <1>2, <1>3, <1>4, <1>5 DEF IInv

\* or leaves it unsettled.
LEMMA TaskFailsInv ==
  ASSUME IInv, NEW r \in Runs, TaskFails(r)
  PROVE  IInv'
  <1>1. TypeInv'
    BY DEF IInv, TypeInv, TaskFails, Fault, callers, flags
  <1>2. PlaceInv'
    BY DEF IInv, PlaceInv, TypeInv, Queued, Waits, Tasks, TaskFails, Fault, callers, flags
  <1>3. CountInv'
    <2>1. admitted' \subseteq admitted /\ Tasks' = Tasks /\ Busy' \subseteq Busy
      BY DEF IInv, TypeInv, TaskFails, Fault, callers, flags, Tasks, Busy
    <2>2. (Open => Len(pending) <= MaxQueued)'
      BY DEF IInv, CountInv, Open, TaskFails, Fault, callers, flags
    <2>3. (manager.at = "serve" /\ pending # <<>> => Cardinality(Tasks) = MaxConcurrent)'
      BY <2>1 DEF IInv, CountInv, TaskFails, Fault, callers, flags
    <2>. QED  BY <2>1, <2>2, <2>3, FewerHeld DEF CountInv
  <1>4. HandleInv'
    BY DEF IInv, HandleInv, TypeInv, PlaceInv, Queued, Waits, Tasks, TaskFails, Fault, callers,
           flags
  <1>5. PhaseInv'
    BY DEF IInv, PhaseInv, TypeInv, PlaceInv, Queued, Tasks, TaskFails, Fault, callers, flags
  <1>. QED  BY <1>1, <1>2, <1>3, <1>4, <1>5 DEF IInv

\* The job of a control ends.
LEMMA ControlEndsInv ==
  ASSUME IInv, NEW k \in Controls, ControlEnds(k)
  PROVE  IInv'
  <1>1. TypeInv'
    BY DEF IInv, TypeInv, ControlEnds, work, flags, results
  <1>2. PlaceInv'
    BY DEF IInv, PlaceInv, TypeInv, Queued, Waits, Tasks, ControlEnds, work, flags, results
  <1>3. CountInv'
    <2>1. admitted' \subseteq admitted /\ Tasks' = Tasks /\ Busy' \subseteq Busy
      BY DEF IInv, TypeInv, ControlEnds, work, flags, results, Tasks, Busy
    <2>2. (Open => Len(pending) <= MaxQueued)'
      BY DEF IInv, CountInv, Open, ControlEnds, work, flags, results
    <2>3. (manager.at = "serve" /\ pending # <<>> => Cardinality(Tasks) = MaxConcurrent)'
      BY <2>1 DEF IInv, CountInv, ControlEnds, work, flags, results
    <2>. QED  BY <2>1, <2>2, <2>3, FewerHeld DEF CountInv
  <1>4. HandleInv'
    BY DEF IInv, HandleInv, TypeInv, PlaceInv, Queued, Waits, Tasks, ControlEnds, work, flags,
           results
  <1>5. PhaseInv'
    BY DEF IInv, PhaseInv, TypeInv, PlaceInv, Queued, Tasks, ControlEnds, work, flags, results
  <1>. QED  BY <1>1, <1>2, <1>3, <1>4, <1>5 DEF IInv

\* A run leaves the line without a task.
LEMMA LeavesLine ==
  ASSUME IInv, NEW r \in Waits, InterruptQueued(r), manager' = manager,
         manager.at # "aborted",
         pending' \in Seq(Runs), Distinct(pending'), Elements(pending') = Waits \ {r},
         UNCHANGED <<sub, ctl, lock, lifecycle, queue, reserved, task>>
  PROVE  /\ TypeInv' /\ PlaceInv' /\ HandleInv' /\ failed' \in {failed, TRUE}
         /\ admitted' = admitted \ {r} /\ Waits' = Waits \ {r}
  <1>1. /\ r \in Runs /\ r \in active /\ sub[r] = "accepted" /\ handle[r] = "open"
        /\ r \notin Queued /\ r \notin Tasks /\ r \notin reserved /\ task[r] = "none"
    BY ElementsIn DEF IInv, TypeInv, PlaceInv, HandleInv, Tasks, Waits
  <1>2. /\ Queued' = Queued /\ Tasks' = Tasks /\ Waits' = Waits \ {r}
        /\ active' = active \ {r} /\ admitted' = admitted \ {r}
    BY DEF Queued, Tasks, Waits, InterruptQueued
  <1>3. \/ /\ durable' = [durable EXCEPT ![r] = "terminal"]
           /\ handle' = [handle EXCEPT ![r] = "settled"] /\ failed' = failed
        \/ /\ durable' = durable
           /\ handle' = [handle EXCEPT ![r] = "unreconciled"] /\ failed' = TRUE
    BY DEF InterruptQueued, Settles, GivesUp, Fault
  <1>4. TypeInv'
    BY <1>1, <1>2, <1>3 DEF IInv, TypeInv
  <1>5. PlaceInv'
    BY <1>1, <1>2 DEF IInv, TypeInv, PlaceInv
  <1>6. HandleInv'
    BY <1>1, <1>2, <1>3 DEF IInv, TypeInv, HandleInv
  <1>. QED  BY <1>2, <1>3, <1>4, <1>5, <1>6

\* The manager drops a cancelled run from the queue in its sweep.
LEMMA SweepInv ==
  ASSUME IInv, Sweep
  PROVE  IInv'
  <1>. DEFINE r == pending[manager.scan]
  <1>a. /\ manager.at = "sweep" /\ manager.scan \in 1 .. Len(pending)
        /\ UNCHANGED <<sub, ctl, lock, lifecycle, queue, reserved, task, stopper>>
    BY LenProperties DEF IInv, TypeInv, Sweep, callers
  <1>b. Tasks' = Tasks /\ Busy' = Busy /\ Queued' = Queued
    BY <1>a DEF Tasks, Busy, Queued
  <1>c. /\ r \in Waits /\ Without(pending, manager.scan) \in Seq(Runs)
        /\ Distinct(Without(pending, manager.scan))
        /\ Elements(Without(pending, manager.scan)) = Waits \ {r}
        /\ Len(pending) \in Nat /\ Len(Without(pending, manager.scan)) = Len(pending) - 1
    BY <1>a, WithoutElements DEF IInv, TypeInv, PlaceInv, Waits
  <1>d. CASE r \in cancelled
    <2>1. /\ InterruptQueued(r) /\ manager' = manager /\ pending' = Without(pending, manager.scan)
      BY <1>d DEF Sweep
    <2>2. /\ TypeInv' /\ PlaceInv' /\ HandleInv' /\ failed' \in {failed, TRUE}
          /\ admitted' = admitted \ {r} /\ Waits' = Waits \ {r}
      BY <1>a, <1>b, <1>c, <2>1, LeavesLine DEF Waits
    <2>3. CountInv'
      BY <1>b, <1>c, <2>1, <2>2, <1>a, FewerHeld, BoundsAssumption DEF IInv, CountInv, Open
    <2>4. PhaseInv'
      BY <1>a, <2>1 DEF IInv, PhaseInv
    <2>. QED  BY <2>2, <2>3, <2>4 DEF IInv
  <1>e. CASE r \notin cancelled
    <2>1. /\ manager' = [manager EXCEPT !.scan = @ + 1]
          /\ UNCHANGED <<pending, active, admitted, durable, handle, failed>>
      BY <1>e DEF Sweep, results
    <2>2. Waits' = Waits /\ manager'.at = manager.at
      BY <2>1 DEF Waits, IInv, TypeInv
    <2>3. TypeInv'
      BY <1>a, <2>1 DEF IInv, TypeInv
    <2>4. PlaceInv' /\ CountInv' /\ HandleInv' /\ PhaseInv'
      BY <1>a, <1>b, <2>1, <2>2 DEF IInv, PlaceInv, CountInv, Open, HandleInv, PhaseInv
    <2>. QED  BY <2>3, <2>4 DEF IInv
  <1>. QED  BY <1>d, <1>e

\* The manager interrupts a run that waits.
LEMMA InterruptPendingInv ==
  ASSUME IInv, InterruptPending
  PROVE  IInv'
  <1>. DEFINE r == Head(pending)
  <1>a. /\ manager.at = "interrupt" /\ pending # <<>> /\ InterruptQueued(r) /\ pending' = Tail(pending)
        /\ UNCHANGED <<sub, ctl, lock, lifecycle, queue, reserved, task, stopper, manager>>
    BY DEF InterruptPending, callers
  <1>b. Tasks' = Tasks /\ Busy' = Busy
    BY <1>a DEF Tasks, Busy
  <1>c. /\ r \in Waits /\ Tail(pending) \in Seq(Runs) /\ Distinct(Tail(pending))
        /\ Elements(Tail(pending)) = Waits \ {r}
    BY <1>a, TailElements DEF IInv, TypeInv, PlaceInv, Waits
  <1>d. /\ TypeInv' /\ PlaceInv' /\ HandleInv' /\ failed' \in {failed, TRUE}
        /\ admitted' = admitted \ {r}
    BY <1>a, <1>c, LeavesLine
  <1>1. TypeInv'
    BY <1>d
  <1>2. PlaceInv'
    BY <1>d
  <1>3. CountInv'
    BY <1>a, <1>b, <1>d, FewerHeld DEF IInv, CountInv, Open
  <1>4. HandleInv'
    BY <1>d
  <1>5. PhaseInv'
    BY <1>a DEF IInv, PhaseInv
  <1>. QED  BY <1>1, <1>2, <1>3, <1>4, <1>5 DEF IInv

\* The manager moves waiting runs to tasks until no slot is free.
LEMMA TopUpInv ==
  ASSUME IInv, TopUp
  PROVE  IInv'
  <1>. DEFINE room == MaxConcurrent - Cardinality(Tasks)
              n == IF Len(pending) < room THEN Len(pending) ELSE room
              front == SubSeq(pending, 1, n)
              rest == SubSeq(pending, n + 1, Len(pending))
  <1>a. /\ manager.at = "sweep" /\ manager' = [at |-> "serve", scan |-> 1] /\ pending' = rest
        /\ task' = [r \in Runs |-> IF r \in Elements(front) THEN "spawned" ELSE task[r]]
        /\ UNCHANGED <<sub, ctl, lock, lifecycle, queue, reserved, admitted, active, durable, handle,
                       failed, stopper>>
    BY DEF TopUp, At, callers, results
  <1>b. /\ Cardinality(Tasks) \in Nat /\ Len(pending) \in Nat
        /\ Cardinality(Tasks) <= MaxConcurrent /\ MaxConcurrent \in Nat
    BY Counts, BoundsAssumption DEF IInv, CountInv
  <1>c. n \in 0 .. Len(pending) /\ n <= room /\ (n < Len(pending) => n = room)
    BY <1>b
  <1>. HIDE DEF n
  <1>d. /\ front \in Seq(Runs) /\ Len(front) = n /\ Distinct(front)
        /\ rest \in Seq(Runs) /\ Len(rest) = Len(pending) - n /\ Distinct(rest)
        /\ Waits = Elements(front) \cup Elements(rest)
        /\ Elements(front) \cap Elements(rest) = {}
    BY <1>c, CutElements DEF IInv, TypeInv, PlaceInv, Waits
  <1>. HIDE DEF front, rest
  <1>e. Elements(front) \subseteq Runs
    BY <1>d, ElementsIn
  <1>f. /\ Tasks' = Tasks \cup Elements(front) /\ Waits' = Elements(rest)
        /\ Queued' = Queued /\ Busy' = Busy
    BY <1>a, <1>e DEF Tasks, Waits, Queued, Busy
  <1>g. Cardinality(Tasks)' = Cardinality(Tasks) + n
    <2>1. Tasks \cap Elements(front) = {}
      BY <1>d DEF IInv, PlaceInv
    <2>2. IsFiniteSet(Elements(front)) /\ Cardinality(Elements(front)) = n /\ IsFiniteSet(Tasks)
      BY <1>d, DistinctCardinality, FiniteRuns DEF Tasks
    <2>3. Cardinality(Tasks \cup Elements(front)) = Cardinality(Tasks) + Cardinality(Elements(front))
      BY <2>1, <2>2, DisjointUnion
    <2>. QED  BY <1>f, <2>2, <2>3
  <1>1. TypeInv'
    BY <1>a, <1>d DEF IInv, TypeInv, Places
  <1>2. PlaceInv'
    BY <1>a, <1>d, <1>f DEF IInv, PlaceInv
  <1>3. CountInv'
    <2>1. Len(rest) \in Nat /\ Len(rest) <= MaxQueued /\ (rest # <<>> => Len(rest) # 0)
      BY <1>a, <1>b, <1>c, <1>d, LenProperties, EmptySeq, BoundsAssumption DEF IInv, CountInv, Open
    <2>2. rest # <<>> => n = room
      BY <1>b, <1>c, <1>d, <2>1
    <2>3. Cardinality(Tasks)' <= MaxConcurrent
          /\ (rest # <<>> => Cardinality(Tasks)' = MaxConcurrent)
      BY <1>b, <1>c, <1>g, <2>2
    <2>. QED  BY <1>a, <1>f, <2>1, <2>3 DEF IInv, CountInv, Open
  <1>4. HandleInv'
    BY <1>a, <1>d, <1>e, <1>f DEF IInv, TypeInv, HandleInv, Tasks, PlaceInv
  <1>5. PhaseInv'
    BY <1>a DEF IInv, PhaseInv
  <1>. QED  BY <1>1, <1>2, <1>3, <1>4, <1>5 DEF IInv

\* The head of the channel is one command, and leaves it.
LEMMA HeadOfQueue ==
  ASSUME IInv, queue # <<>>
  PROVE  /\ Head(queue) \in Runs \cup Controls /\ Head(queue) \in Elements(queue)
         /\ Tail(queue) \in Seq(Runs \cup Controls) /\ Distinct(Tail(queue))
         /\ Elements(Tail(queue)) = Elements(queue) \ {Head(queue)}
         /\ Head(queue) \in Controls => ctl[Head(queue)] = "queued"
         /\ Head(queue) \notin Controls =>
              /\ Head(queue) \in Queued /\ handle[Head(queue)] = "open"
              /\ Head(queue) \notin Waits /\ Head(queue) \notin Tasks
              /\ Append(pending, Head(queue)) \in Seq(Runs)
              /\ Elements(Append(pending, Head(queue))) = Waits \cup {Head(queue)}
              /\ Distinct(Append(pending, Head(queue)))
              /\ Len(Append(pending, Head(queue))) = Len(pending) + 1
  <1>. DEFINE head == Head(queue)
  <1>1. /\ head \in Runs \cup Controls /\ head \in Elements(queue)
        /\ Tail(queue) \in Seq(Runs \cup Controls) /\ Distinct(Tail(queue))
        /\ Elements(Tail(queue)) = Elements(queue) \ {head}
    BY TailElements DEF IInv, TypeInv, PlaceInv
  <1>2. head \in Controls => ctl[head] = "queued"
    BY <1>1 DEF IInv, PlaceInv
  <1>3. head \notin Controls => /\ head \in Runs /\ head \in Queued /\ handle[head] = "open"
                                /\ head \notin Waits /\ head \notin Tasks
    BY <1>1 DEF IInv, PlaceInv, HandleInv, Queued
  <1>4. ASSUME head \notin Controls
        PROVE  /\ Append(pending, head) \in Seq(Runs)
               /\ Elements(Append(pending, head)) = Waits \cup {head}
               /\ Distinct(Append(pending, head))
               /\ Len(Append(pending, head)) = Len(pending) + 1
    BY <1>3, <1>4, AppendElements, AppendProperties DEF IInv, TypeInv, PlaceInv, Waits
  <1>. QED  BY <1>1, <1>2, <1>3, <1>4

\* The manager takes a command: a run goes to a task or to the queue.
LEMMA TakeCommandInv ==
  ASSUME IInv, TakeCommand
  PROVE  IInv'
  <1>. DEFINE head == Head(queue)
  <1>a. /\ manager.at = "serve" /\ manager' = [at |-> "sweep", scan |-> 1] /\ queue # <<>>
        /\ queue' = Tail(queue)
        /\ UNCHANGED <<sub, lock, lifecycle, reserved, admitted, active, durable, handle, failed,
                       stopper>>
    BY DEF TakeCommand, At, results
  <1>b. /\ head \in Runs \cup Controls /\ head \in Elements(queue)
        /\ Tail(queue) \in Seq(Runs \cup Controls) /\ Distinct(Tail(queue))
        /\ Elements(Tail(queue)) = Elements(queue) \ {head}
        /\ head \in Controls => ctl[head] = "queued"
        /\ head \notin Controls =>
             /\ head \in Queued /\ handle[head] = "open" /\ head \notin Waits /\ head \notin Tasks
             /\ Append(pending, head) \in Seq(Runs) /\ Distinct(Append(pending, head))
             /\ Elements(Append(pending, head)) = Waits \cup {head}
             /\ Len(Append(pending, head)) = Len(pending) + 1
    BY <1>a, HeadOfQueue
  <1>c. /\ Cardinality(Tasks) \in Nat /\ Len(pending) \in Nat /\ Cardinality(reserved) \in Nat
        /\ Cardinality(Queued) \in Nat
        /\ Cardinality(admitted) = Cardinality(reserved) + Cardinality(Queued)
                                   + Len(pending) + Cardinality(Tasks)
        /\ \A r \in Queued : Cardinality(Queued) > 0
    BY Counts DEF IInv
  <1>d. CASE head \in Controls
    <2>1. /\ ctl' = [ctl EXCEPT ![head] = "running"] /\ UNCHANGED <<task, pending>>
      BY <1>d DEF TakeCommand
    <2>2. /\ Queued' = Queued /\ Waits' = Waits /\ Tasks' = Tasks /\ Busy' = Busy
      BY <1>a, <1>b, <1>d, <2>1, Apart DEF Queued, Waits, Tasks, Busy, IInv, TypeInv
    <2>3. TypeInv'
      BY <1>a, <1>b, <1>d, <2>1 DEF IInv, TypeInv, Places
    <2>4. PlaceInv'
      BY <1>a, <1>b, <1>d, <2>1, <2>2 DEF IInv, TypeInv, PlaceInv
    <2>5. CountInv' /\ HandleInv' /\ PhaseInv'
      BY <1>a, <2>1, <2>2 DEF IInv, CountInv, HandleInv, PhaseInv, Open
    <2>. QED  BY <2>3, <2>4, <2>5 DEF IInv
  <1>e. CASE head \notin Controls /\ Cardinality(Tasks) < MaxConcurrent
    <2>1. /\ task' = [task EXCEPT ![head] = "spawned"] /\ UNCHANGED <<ctl, pending>>
          /\ head \in Runs
      BY <1>b, <1>e DEF TakeCommand
    <2>2. /\ Queued' = Queued \ {head} /\ Waits' = Waits /\ Tasks' = Tasks \cup {head} /\ Busy' = Busy
      BY <1>a, <1>b, <1>e, <2>1 DEF Queued, Waits, Tasks, Busy, IInv, TypeInv
    <2>3. TypeInv'
      BY <1>a, <1>b, <2>1 DEF IInv, TypeInv, Places
    <2>4. PlaceInv'
      BY <1>a, <1>b, <1>e, <2>1, <2>2, Apart DEF IInv, TypeInv, PlaceInv
    <2>5. Cardinality(Tasks)' <= MaxConcurrent
      <3>1. IsFiniteSet(Tasks)
        BY FiniteRuns DEF Tasks
      <3>2. Cardinality(Tasks \cup {head}) = Cardinality(Tasks) + 1
        BY <1>b, <1>e, <3>1, FS_AddElement
      <3>. QED  BY <1>c, <1>e, <2>2, <3>2, BoundsAssumption
    <2>6. CountInv'
      BY <1>a, <2>1, <2>2, <2>5 DEF IInv, CountInv, Open
    <2>7. HandleInv'
      BY <1>a, <1>b, <1>e, <2>1, <2>2 DEF IInv, TypeInv, HandleInv
    <2>8. PhaseInv'
      BY <1>a DEF IInv, PhaseInv
    <2>. QED  BY <2>3, <2>4, <2>6, <2>7, <2>8 DEF IInv
  <1>f. CASE head \notin Controls /\ ~(Cardinality(Tasks) < MaxConcurrent)
    <2>1. pending' = Append(pending, head) /\ UNCHANGED <<ctl, task>> /\ head \in Runs
      BY <1>b, <1>f DEF TakeCommand
    <2>2. /\ Queued' = Queued \ {head} /\ Waits' = Waits \cup {head} /\ Tasks' = Tasks /\ Busy' = Busy
      BY <1>a, <1>b, <1>f, <2>1 DEF Queued, Waits, Tasks, Busy
    <2>3. TypeInv'
      BY <1>a, <1>b, <1>f, <2>1 DEF IInv, TypeInv, Places
    <2>4. PlaceInv'
      BY <1>a, <1>b, <1>f, <2>1, <2>2, Apart DEF IInv, TypeInv, PlaceInv
    <2>5. Len(pending') <= MaxQueued
      <3>1. Cardinality(Queued) >= 1 /\ Cardinality(Tasks) >= MaxConcurrent
        BY <1>b, <1>c, <1>f, BoundsAssumption
      <3>2. Cardinality(admitted) <= MaxConcurrent + MaxQueued
        BY DEF IInv, CountInv, MaxAdmitted
      <3>. QED  BY <1>b, <1>c, <1>f, <2>1, <3>1, <3>2, BoundsAssumption
    <2>6. CountInv'
      BY <1>a, <2>1, <2>2, <2>5 DEF IInv, CountInv, Open
    <2>7. HandleInv'
      BY <1>a, <1>b, <1>f, <2>1, <2>2 DEF IInv, TypeInv, HandleInv
    <2>8. PhaseInv'
      BY <1>a DEF IInv, PhaseInv
    <2>. QED  BY <2>3, <2>4, <2>6, <2>7, <2>8 DEF IInv
  <1>. QED  BY <1>d, <1>e, <1>f

\* After its loop the manager empties the channel.
LEMMA DrainInv ==
  ASSUME IInv, Drain
  PROVE  IInv'
  <1>. DEFINE head == Head(queue)
  <1>a. /\ manager.at = "drain" /\ queue # <<>> /\ queue' = Tail(queue)
        /\ UNCHANGED <<sub, lock, lifecycle, reserved, admitted, active, task, durable, handle, failed,
                       manager, stopper>>
    BY DEF Drain, results
  <1>b. /\ head \in Runs \cup Controls /\ head \in Elements(queue)
        /\ Tail(queue) \in Seq(Runs \cup Controls) /\ Distinct(Tail(queue))
        /\ Elements(Tail(queue)) = Elements(queue) \ {head}
        /\ head \in Controls => ctl[head] = "queued"
        /\ head \notin Controls =>
             /\ head \in Queued /\ handle[head] = "open" /\ head \notin Waits /\ head \notin Tasks
             /\ Append(pending, head) \in Seq(Runs) /\ Distinct(Append(pending, head))
             /\ Elements(Append(pending, head)) = Waits \cup {head}
    BY <1>a, HeadOfQueue
  <1>c. Tasks' = Tasks
    BY <1>a DEF Tasks
  <1>d. CASE head \in Controls
    <2>1. /\ ctl' = [ctl EXCEPT ![head] = "answered"] /\ pending' = pending
      BY <1>d DEF Drain
    <2>2. /\ Queued' = Queued /\ Waits' = Waits /\ Busy' \subseteq Busy
      BY <1>a, <1>b, <1>d, <2>1, Apart DEF Queued, Waits, Busy, IInv, TypeInv
    <2>3. TypeInv'
      BY <1>a, <1>b, <1>d, <2>1 DEF IInv, TypeInv, Places
    <2>4. PlaceInv'
      BY <1>a, <1>b, <1>c, <1>d, <2>1, <2>2 DEF IInv, TypeInv, PlaceInv
    <2>5. CountInv'
      BY <1>a, <1>c, <2>2, FewerHeld DEF CountInv, Open
    <2>6. HandleInv' /\ PhaseInv'
      BY <1>a, <1>c, <2>1, <2>2 DEF IInv, HandleInv, PhaseInv
    <2>. QED  BY <2>3, <2>4, <2>5, <2>6 DEF IInv
  <1>e. CASE head \notin Controls
    <2>1. pending' = Append(pending, head) /\ ctl' = ctl /\ head \in Runs
      BY <1>b, <1>e DEF Drain
    <2>2. /\ Queued' = Queued \ {head} /\ Waits' = Waits \cup {head} /\ Busy' = Busy
      BY <1>a, <1>b, <1>e, <2>1 DEF Queued, Waits, Busy
    <2>3. TypeInv'
      BY <1>a, <1>b, <1>e, <2>1 DEF IInv, TypeInv, Places
    <2>4. PlaceInv'
      BY <1>a, <1>b, <1>c, <1>e, <2>1, <2>2, Apart DEF IInv, TypeInv, PlaceInv
    <2>5. CountInv'
      BY <1>a, <1>c, <2>2, FewerHeld DEF CountInv, Open
    <2>6. HandleInv'
      BY <1>a, <1>b, <1>e, <2>2 DEF IInv, TypeInv, HandleInv
    <2>7. PhaseInv'
      BY <1>a, <1>c DEF IInv, PhaseInv
    <2>. QED  BY <2>3, <2>4, <2>5, <2>6, <2>7 DEF IInv
  <1>. QED  BY <1>d, <1>e

\* A failed task is reconciled when it is joined.
LEMMA ReconcileInv ==
  ASSUME IInv, NEW r \in Runs, Reconcile(r), manager.at \in {"serve", "join"},
         manager' = IF manager.at = "serve" THEN [at |-> "sweep", scan |-> 1] ELSE manager,
         UNCHANGED <<sub, ctl, lock, lifecycle, queue, reserved, pending, stopper>>
  PROVE  IInv'
  <1>a. /\ r \in Tasks /\ r \in active /\ sub[r] = "accepted"
        /\ r \notin Queued /\ r \notin Waits /\ r \notin reserved
    BY DEF IInv, PlaceInv, Tasks, Reconcile
  <1>b. /\ task' = [task EXCEPT ![r] = "none"] /\ active' = active \ {r} /\ admitted' = admitted \ {r}
        /\ manager' \in [at : Places, scan : Nat \ {0}]
        /\ \/ manager.at = "serve" /\ manager'.at = "sweep"
           \/ manager.at = "join" /\ manager'.at = "join"
    BY DEF Reconcile, IInv, TypeInv, Places
  <1>c. /\ Tasks' = Tasks \ {r} /\ Queued' = Queued /\ Waits' = Waits /\ Busy' = Busy
    BY <1>b DEF Tasks, Queued, Waits, Busy, IInv, TypeInv
  <1>d. \/ /\ task[r] = "ended" /\ UNCHANGED <<durable, handle, failed>>
        \/ /\ task[r] = "failed" /\ failed' = TRUE
           /\ durable' = [durable EXCEPT ![r] = "terminal"] /\ handle' = [handle EXCEPT ![r] = "settled"]
        \/ /\ task[r] = "failed" /\ failed' = TRUE
           /\ durable' = durable /\ handle' = [handle EXCEPT ![r] = "unreconciled"]
    BY DEF Reconcile, Settles, GivesUp
  <1>1. TypeInv'
    BY <1>b, <1>d DEF IInv, TypeInv, Places
  <1>2. PlaceInv'
    BY <1>a, <1>b, <1>c DEF IInv, PlaceInv
  <1>3. CountInv'
    <2>1. (Open => Len(pending) <= MaxQueued)' /\ manager'.at # "serve"
      BY <1>b DEF IInv, CountInv, Open
    <2>. QED  BY <1>b, <1>c, <2>1, FewerHeld DEF CountInv
  <1>4. HandleInv'
    BY <1>a, <1>b, <1>c, <1>d DEF IInv, TypeInv, HandleInv
  <1>5. PhaseInv'
    BY <1>b, <1>c, <1>d DEF IInv, PhaseInv
  <1>. QED  BY <1>1, <1>2, <1>3, <1>4, <1>5 DEF IInv

\* A control is answered and its permit given back.
LEMMA AnswerInv ==
  ASSUME IInv, NEW k \in Controls, Answer(k), manager.at \in {"serve", "join"},
         manager' = IF manager.at = "serve" THEN [at |-> "sweep", scan |-> 1] ELSE manager,
         UNCHANGED <<sub, lock, lifecycle, queue, reserved, pending, stopper, task, active, admitted,
                     durable, handle, failed>>
  PROVE  IInv'
  <1>a. /\ Queued' = Queued /\ Waits' = Waits /\ Tasks' = Tasks /\ Busy' \subseteq Busy
    BY DEF Answer, Queued, Waits, Tasks, Busy, IInv, TypeInv
  <1>b. /\ manager' \in [at : Places, scan : Nat \ {0}]
        /\ \/ manager.at = "serve" /\ manager'.at = "sweep"
           \/ manager.at = "join" /\ manager'.at = "join"
    BY DEF IInv, TypeInv, Places
  <1>1. TypeInv'
    BY <1>b DEF Answer, IInv, TypeInv
  <1>2. PlaceInv'
    BY <1>a, <1>b DEF Answer, IInv, TypeInv, PlaceInv
  <1>3. CountInv'
    <2>1. (Open => Len(pending) <= MaxQueued)' /\ manager'.at # "serve"
      BY <1>b DEF IInv, CountInv, Open
    <2>. QED  BY <1>a, <1>b, <2>1, FewerHeld DEF CountInv
  <1>4. HandleInv'
    BY <1>a DEF IInv, HandleInv
  <1>5. PhaseInv'
    BY <1>a, <1>b DEF IInv, PhaseInv
  <1>. QED  BY <1>1, <1>2, <1>3, <1>4, <1>5 DEF IInv

\* The manager joins whatever has ended.
LEMMA JoinInv ==
  ASSUME IInv, Join
  PROVE  IInv'
  <1>1. CASE \E r \in Runs : Reconcile(r) /\ UNCHANGED ctl
    <2>1. PICK r \in Runs : Reconcile(r) /\ UNCHANGED ctl
      BY <1>1
    <2>. QED  BY <2>1, ReconcileInv DEF Join
  <1>2. CASE \E k \in Controls : Answer(k) /\ UNCHANGED <<task, active, admitted, results>>
    <2>1. PICK k \in Controls : Answer(k) /\ UNCHANGED <<task, active, admitted, results>>
      BY <1>2
    <2>. QED  BY <2>1, AnswerInv DEF Join, results
  <1>. QED  BY <1>1, <1>2 DEF Join

\* A forced shutdown gives up all tasks.
LEMMA AbortAllInv ==
  ASSUME IInv, AbortAll
  PROVE  IInv'
  <1>a. /\ manager.at = "join"
        /\ task' = [r \in Runs |-> IF task[r] \in {"spawned", "running"} THEN "failed" ELSE task[r]]
        /\ ctl' = [k \in Controls |-> IF ctl[k] = "running" THEN "ended" ELSE ctl[k]]
        /\ UNCHANGED <<sub, lock, lifecycle, queue, reserved, admitted, active, pending, durable,
                       handle, failed, manager, stopper>>
    BY DEF AbortAll, results
  <1>b. /\ Queued' = Queued /\ Waits' = Waits /\ Tasks' = Tasks /\ Busy' = Busy
    BY <1>a DEF Queued, Waits, Tasks, Busy, IInv, TypeInv
  <1>1. TypeInv'
    BY <1>a DEF IInv, TypeInv
  <1>2. PlaceInv'
    BY <1>a, <1>b DEF IInv, TypeInv, PlaceInv
  <1>3. CountInv'
    BY <1>a, <1>b DEF IInv, CountInv, Open
  <1>4. HandleInv'
    BY <1>a, <1>b DEF IInv, TypeInv, HandleInv
  <1>5. PhaseInv'
    BY <1>a, <1>b DEF IInv, PhaseInv
  <1>. QED  BY <1>1, <1>2, <1>3, <1>4, <1>5 DEF IInv

\* The manager itself is aborted with everything it holds.
LEMMA AbortManagerInv ==
  ASSUME IInv, AbortManager
  PROVE  IInv'
  <1>a. /\ manager.at # "gone" /\ manager' = [at |-> "aborted", scan |-> 1]
        /\ queue' = <<>> /\ pending' = <<>> /\ task' = [r \in Runs |-> "none"]
        /\ ctl' = [k \in Controls |-> IF k \in Busy THEN "answered" ELSE ctl[k]]
        /\ admitted' = reserved /\ stopper = "forcing"
        /\ UNCHANGED <<sub, lock, lifecycle, reserved, active, durable, handle, failed, stopper>>
    BY DEF AbortManager, At, results
  <1>b. /\ Elements(queue') = {} /\ Distinct(queue') /\ Elements(pending') = {} /\ Distinct(pending')
    BY <1>a, EmptyElements
  <1>c. /\ Queued' = {} /\ Waits' = {} /\ Tasks' = {} /\ Busy' = {}
    BY <1>a, <1>b DEF Queued, Waits, Tasks, Busy
  <1>1. TypeInv'
    <2>1. queue' \in Seq(Runs \cup Controls) /\ pending' \in Seq(Runs)
      BY <1>a, EmptySeq
    <2>. QED  BY <1>a, <2>1 DEF IInv, TypeInv, PlaceInv, Places
  <1>2. PlaceInv'
    BY <1>a, <1>b, <1>c DEF IInv, TypeInv, PlaceInv, Busy
  <1>3. CountInv'
    <2>1. reserved \subseteq admitted
      BY DEF IInv, PlaceInv
    <2>. QED  BY <1>a, <1>c, <2>1, FewerHeld DEF CountInv, Open
  <1>4. HandleInv'
    BY <1>a, <1>c DEF IInv, TypeInv, HandleInv
  <1>5. PhaseInv'
    BY <1>a, <1>c DEF IInv, PhaseInv
  <1>. QED  BY <1>1, <1>2, <1>3, <1>4, <1>5 DEF IInv

\* A step that moves nothing but the manager, and may have it fail.
LEMMA MovesInv ==
  ASSUME IInv, UNCHANGED <<sub, ctl, lock, work, durable, handle>>,
         lifecycle' \in {"open", "closing", "closed"},
         failed' \in {failed, TRUE}, manager' \in [at : Places, scan : Nat \ {0}],
         manager.at \in {"gone", "aborted"} => manager' = manager,
         \/ manager' = manager
         \/ manager'.at # "serve" /\ manager'.at # "aborted" /\ (Open' => Open)
  PROVE  TypeInv' /\ PlaceInv' /\ CountInv' /\ HandleInv'
  <1>1. /\ Queued' = Queued /\ Waits' = Waits /\ Tasks' = Tasks /\ Busy' = Busy
    BY DEF work, Queued, Waits, Tasks, Busy
  <1>2. TypeInv'
    BY DEF IInv, TypeInv, work
  <1>3. PlaceInv'
    BY <1>1 DEF IInv, PlaceInv, work
  <1>4. CountInv'
    BY <1>1 DEF IInv, CountInv, Open, work
  <1>5. HandleInv'
    BY <1>1 DEF IInv, TypeInv, HandleInv, work
  <1>. QED  BY <1>2, <1>3, <1>4, <1>5

\* The steps that only move the manager or a flag keep the accounts: force ...
LEMMA ForceFirstInv ==
  ASSUME IInv, ForceFirst
  PROVE  IInv'
  <1>1. /\ UNCHANGED <<sub, ctl, lock, work, durable, handle, lifecycle, stopper>>
        /\ failed' \in {failed, TRUE} /\ manager.at \notin {"gone", "aborted"}
        /\ manager' \in [at : Places, scan : Nat \ {0}]
        /\ manager'.at # "serve" /\ manager'.at # "aborted" /\ (Open' => Open)
    BY DEF ForceFirst, Breaks, At, callers, results, Open, Places
  <1>2. PhaseInv'
    BY DEF IInv, PhaseInv, Tasks, work, ForceFirst, Breaks, At, callers, results
  <1>3. TypeInv' /\ PlaceInv' /\ CountInv' /\ HandleInv'
    <2>1. manager.at \in {"gone", "aborted"} => manager' = manager
      BY <1>1
    <2>2. lifecycle' \in {"open", "closing", "closed"}
      BY <1>1 DEF IInv, TypeInv
    <2>. QED  BY <1>1, <2>1, <2>2, MovesInv
  <1>. QED  BY <1>2, <1>3 DEF IInv

\* ... shutdown ...
LEMMA TakeShutdownInv ==
  ASSUME IInv, TakeShutdown
  PROVE  IInv'
  <1>1. /\ UNCHANGED <<sub, ctl, lock, work, durable, handle, lifecycle, stopper>>
        /\ failed' \in {failed, TRUE} /\ manager.at \notin {"gone", "aborted"}
        /\ manager' \in [at : Places, scan : Nat \ {0}]
        /\ manager'.at # "serve" /\ manager'.at # "aborted" /\ (Open' => Open)
    BY DEF TakeShutdown, Breaks, At, callers, results, Open, Places
  <1>2. PhaseInv'
    BY DEF IInv, PhaseInv, Tasks, work, TakeShutdown, Breaks, At, callers, results
  <1>3. TypeInv' /\ PlaceInv' /\ CountInv' /\ HandleInv'
    <2>1. manager.at \in {"gone", "aborted"} => manager' = manager
      BY <1>1
    <2>2. lifecycle' \in {"open", "closing", "closed"}
      BY <1>1 DEF IInv, TypeInv
    <2>. QED  BY <1>1, <2>1, <2>2, MovesInv
  <1>. QED  BY <1>2, <1>3 DEF IInv

\* ... a notification ...
LEMMA TakeNotificationInv ==
  ASSUME IInv, TakeNotification
  PROVE  IInv'
  <1>1. /\ UNCHANGED <<sub, ctl, lock, work, durable, handle, lifecycle, stopper>>
        /\ failed' \in {failed, TRUE} /\ manager.at \notin {"gone", "aborted"}
        /\ manager' \in [at : Places, scan : Nat \ {0}]
        /\ manager'.at # "serve" /\ manager'.at # "aborted" /\ (Open' => Open)
    BY DEF TakeNotification, At, callers, results, Open, Places
  <1>2. PhaseInv'
    BY DEF IInv, PhaseInv, Tasks, work, TakeNotification, At, callers, results
  <1>3. TypeInv' /\ PlaceInv' /\ CountInv' /\ HandleInv'
    <2>1. manager.at \in {"gone", "aborted"} => manager' = manager
      BY <1>1
    <2>2. lifecycle' \in {"open", "closing", "closed"}
      BY <1>1 DEF IInv, TypeInv
    <2>. QED  BY <1>1, <2>1, <2>2, MovesInv
  <1>. QED  BY <1>2, <1>3 DEF IInv

\* ... a failed refresh of the leases ...
LEMMA RefreshFailsInv ==
  ASSUME IInv, RefreshFails
  PROVE  IInv'
  <1>1. /\ UNCHANGED <<sub, ctl, lock, work, durable, handle, lifecycle, stopper>>
        /\ failed' \in {failed, TRUE} /\ manager.at \notin {"gone", "aborted"}
        /\ manager' \in [at : Places, scan : Nat \ {0}]
        /\ manager'.at # "serve" /\ manager'.at # "aborted" /\ (Open' => Open)
    BY DEF RefreshFails, Breaks, At, callers, results, Open, Places
  <1>2. PhaseInv'
    BY DEF IInv, PhaseInv, Tasks, work, RefreshFails, Breaks, At, callers, results
  <1>3. TypeInv' /\ PlaceInv' /\ CountInv' /\ HandleInv'
    <2>1. manager.at \in {"gone", "aborted"} => manager' = manager
      BY <1>1
    <2>2. lifecycle' \in {"open", "closing", "closed"}
      BY <1>1 DEF IInv, TypeInv
    <2>. QED  BY <1>1, <2>1, <2>2, MovesInv
  <1>. QED  BY <1>2, <1>3 DEF IInv

\* ... a lost lease ...
LEMMA LeaseLostInv ==
  ASSUME IInv, NEW r \in Runs, LeaseLost(r)
  PROVE  IInv'
  <1>1. /\ UNCHANGED <<sub, ctl, lock, work, durable, handle, lifecycle, stopper>>
        /\ failed' \in {failed, TRUE} /\ manager.at \notin {"gone", "aborted"}
        /\ manager' \in [at : Places, scan : Nat \ {0}]
        /\ manager'.at # "serve" /\ manager'.at # "aborted" /\ (Open' => Open)
    BY DEF LeaseLost, At, callers, results, Open, Places
  <1>2. PhaseInv'
    BY DEF IInv, PhaseInv, Tasks, work, LeaseLost, At, callers, results
  <1>3. TypeInv' /\ PlaceInv' /\ CountInv' /\ HandleInv'
    <2>1. manager.at \in {"gone", "aborted"} => manager' = manager
      BY <1>1
    <2>2. lifecycle' \in {"open", "closing", "closed"}
      BY <1>1 DEF IInv, TypeInv
    <2>. QED  BY <1>1, <2>1, <2>2, MovesInv
  <1>. QED  BY <1>2, <1>3 DEF IInv

\* ... the drained channel ...
LEMMA DrainedInv ==
  ASSUME IInv, Drained
  PROVE  IInv'
  <1>1. /\ UNCHANGED <<sub, ctl, lock, work, durable, handle, lifecycle, stopper>>
        /\ failed' \in {failed, TRUE} /\ manager.at \notin {"gone", "aborted"}
        /\ manager' \in [at : Places, scan : Nat \ {0}]
        /\ manager'.at # "serve" /\ manager'.at # "aborted" /\ (Open' => Open)
    BY DEF Drained, At, callers, results, Open, Places
  <1>2. PhaseInv'
    BY DEF IInv, PhaseInv, Tasks, work, Drained, At, callers, results
  <1>3. TypeInv' /\ PlaceInv' /\ CountInv' /\ HandleInv'
    <2>1. manager.at \in {"gone", "aborted"} => manager' = manager
      BY <1>1
    <2>2. lifecycle' \in {"open", "closing", "closed"}
      BY <1>1 DEF IInv, TypeInv
    <2>. QED  BY <1>1, <2>1, <2>2, MovesInv
  <1>. QED  BY <1>2, <1>3 DEF IInv

\* ... the empty queue ...
LEMMA InterruptedPendingInv ==
  ASSUME IInv, InterruptedPending
  PROVE  IInv'
  <1>1. /\ UNCHANGED <<sub, ctl, lock, work, durable, handle, lifecycle, stopper>>
        /\ failed' \in {failed, TRUE} /\ manager.at \notin {"gone", "aborted"}
        /\ manager' \in [at : Places, scan : Nat \ {0}]
        /\ manager'.at # "serve" /\ manager'.at # "aborted" /\ (Open' => Open)
    BY DEF InterruptedPending, At, callers, results, Open, Places
  <1>2. PhaseInv'
    BY DEF IInv, PhaseInv, Tasks, work, InterruptedPending, At, callers, results
  <1>3. TypeInv' /\ PlaceInv' /\ CountInv' /\ HandleInv'
    <2>1. manager.at \in {"gone", "aborted"} => manager' = manager
      BY <1>1
    <2>2. lifecycle' \in {"open", "closing", "closed"}
      BY <1>1 DEF IInv, TypeInv
    <2>. QED  BY <1>1, <2>1, <2>2, MovesInv
  <1>. QED  BY <1>2, <1>3 DEF IInv

\* ... and the end.
LEMMA ManagerEndsInv ==
  ASSUME IInv, ManagerEnds
  PROVE  IInv'
  <1>1. /\ UNCHANGED <<sub, ctl, lock, work, durable, handle, lifecycle, stopper>>
        /\ failed' \in {failed, TRUE} /\ manager.at \notin {"gone", "aborted"}
        /\ manager' \in [at : Places, scan : Nat \ {0}]
        /\ manager'.at # "serve" /\ manager'.at # "aborted" /\ (Open' => Open)
    BY DEF ManagerEnds, At, callers, results, Open, Places
  <1>2. PhaseInv'
    BY DEF IInv, PhaseInv, Tasks, work, ManagerEnds, At, callers, results
  <1>3. TypeInv' /\ PlaceInv' /\ CountInv' /\ HandleInv'
    <2>1. manager.at \in {"gone", "aborted"} => manager' = manager
      BY <1>1
    <2>2. lifecycle' \in {"open", "closing", "closed"}
      BY <1>1 DEF IInv, TypeInv
    <2>. QED  BY <1>1, <2>1, <2>2, MovesInv
  <1>. QED  BY <1>2, <1>3 DEF IInv

\* An interruption sets a flag.
LEMMA InterruptInv ==
  ASSUME IInv, NEW r \in Runs, Interrupt(r)
  PROVE  IInv'
  <1>1. /\ UNCHANGED <<sub, ctl, lock, work, durable, handle, failed, manager>>
        /\ lifecycle' \in {"open", "closing", "closed"}
    BY DEF IInv, TypeInv, Interrupt, callers, results
  <1>2. TypeInv' /\ PlaceInv' /\ CountInv' /\ HandleInv'
    BY <1>1, MovesInv DEF IInv, TypeInv
  <1>3. PhaseInv'
    BY <1>1 DEF IInv, PhaseInv, Tasks, work, Interrupt, callers, results
  <1>. QED  BY <1>2, <1>3 DEF IInv

\* The shutdown moves on, by what the manager has answered.
LEMMA StopperInv ==
  ASSUME IInv, Stopper
  PROVE  IInv'
  <1>1. /\ UNCHANGED <<sub, ctl, lock, work, durable, handle, failed, manager>>
        /\ lifecycle' \in {"open", "closing", "closed"}
    BY DEF IInv, TypeInv, Stopper, SendShutdown, ManagerAnswered, ShutdownAdapters,
           ForceShutdown, Forced, Goes, callers, results
  <1>2. TypeInv' /\ PlaceInv' /\ CountInv' /\ HandleInv'
    BY <1>1, MovesInv DEF IInv, TypeInv
  <1>3. PhaseInv'
    BY <1>1 DEF IInv, PhaseInv, Tasks, work, Stopper, SendShutdown, ManagerAnswered,
                ShutdownAdapters, ForceShutdown, Forced, Goes, callers, results
  <1>. QED  BY <1>2, <1>3 DEF IInv

\* The supervisor closes.
LEMMA CloseInv ==
  ASSUME IInv, Close
  PROVE  IInv'
  <1>1. /\ UNCHANGED <<sub, ctl, lock, work, durable, handle, failed, manager>>
        /\ lifecycle' \in {"open", "closing", "closed"}
    BY DEF IInv, TypeInv, Close, Goes, callers, results
  <1>2. TypeInv' /\ PlaceInv' /\ CountInv' /\ HandleInv'
    BY <1>1, MovesInv DEF IInv, TypeInv
  <1>3. PhaseInv'
    BY <1>1 DEF IInv, PhaseInv, Tasks, work, Close, Goes, callers, results
  <1>. QED  BY <1>2, <1>3 DEF IInv

\* The grace of a shutdown ends.
LEMMA GraceEndsInv ==
  ASSUME IInv, GraceEnds
  PROVE  IInv'
  <1>1. /\ UNCHANGED <<sub, ctl, lock, work, durable, handle, failed, manager>>
        /\ lifecycle' \in {"open", "closing", "closed"}
    BY DEF IInv, TypeInv, GraceEnds, Goes, callers, results
  <1>2. TypeInv' /\ PlaceInv' /\ CountInv' /\ HandleInv'
    BY <1>1, MovesInv DEF IInv, TypeInv
  <1>3. PhaseInv'
    BY <1>1 DEF IInv, PhaseInv, Tasks, work, GraceEnds, Goes, callers, results
  <1>. QED  BY <1>2, <1>3 DEF IInv

\* The supervisor is dropped.
LEMMA DropSupervisorInv ==
  ASSUME IInv, DropSupervisor
  PROVE  IInv'
  <1>1. /\ UNCHANGED <<sub, ctl, lock, work, durable, handle, failed, manager>>
        /\ lifecycle' \in {"open", "closing", "closed"}
    BY DEF IInv, TypeInv, DropSupervisor, Goes, callers, results
  <1>2. TypeInv' /\ PlaceInv' /\ CountInv' /\ HandleInv'
    BY <1>1, MovesInv DEF IInv, TypeInv
  <1>3. PhaseInv'
    BY <1>1 DEF IInv, PhaseInv, Tasks, work, DropSupervisor, Goes, callers, results
  <1>. QED  BY <1>2, <1>3 DEF IInv

\* Nothing happens.
LEMMA StutterInv ==
  ASSUME IInv, UNCHANGED vars
  PROVE  IInv'
  <1>1. /\ UNCHANGED <<sub, ctl, lock, work, durable, handle, failed, manager>>
        /\ lifecycle' \in {"open", "closing", "closed"}
    BY DEF IInv, TypeInv, vars, callers, results
  <1>2. TypeInv' /\ PlaceInv' /\ CountInv' /\ HandleInv'
    BY <1>1, MovesInv DEF IInv, TypeInv
  <1>3. PhaseInv'
    BY <1>1 DEF IInv, PhaseInv, Tasks, work, vars, callers, results
  <1>. QED  BY <1>2, <1>3 DEF IInv

\* Every step keeps the invariant.
LEMMA NextInv ==
  ASSUME IInv, [Next]_vars
  PROVE  IInv'
  <1>1. CASE Manager
    BY <1>1, SweepInv, TopUpInv, ForceFirstInv, TakeShutdownInv, TakeNotificationInv, TakeCommandInv,
       JoinInv, DrainInv, DrainedInv, InterruptPendingInv, InterruptedPendingInv, AbortAllInv,
       ManagerEndsInv DEF Manager
  <1>2. CASE RefreshFails \/ Stopper \/ Close \/ GraceEnds \/ AbortManager \/ DropSupervisor
    BY <1>2, RefreshFailsInv, StopperInv, CloseInv, GraceEndsInv, AbortManagerInv, DropSupervisorInv
  <1>3. ASSUME NEW r \in Runs,
               \/ Submit(r) \/ Enqueue(r) \/ Abandon(r) \/ Interrupt(r) \/ LeaseLost(r)
               \/ TaskBegins(r) \/ TaskEnds(r) \/ TaskFails(r)
        PROVE  IInv'
    BY <1>3, SubmitInv, EnqueueInv, AbandonInv, InterruptInv, LeaseLostInv, TaskBeginsInv,
       TaskEndsInv, TaskFailsInv
  <1>4. ASSUME NEW k \in Controls, Control(k) \/ ControlEnds(k)
        PROVE  IInv'
    BY <1>4, ControlInv, ControlEndsInv
  <1>5. CASE UNCHANGED vars
    BY <1>5, StutterInv
  <1>. QED  BY <1>1, <1>2, <1>3, <1>4, <1>5 DEF Next

-----------------------------------------------------------------------------
(* Theorems.                                                               *)

\* The inductive invariant: where every run that holds a permit is, how many
\* there are, what its handle shows, and what the manager has left behind.
THEOREM InductiveInvariant == Spec => []IInv
  <1>1. IInv /\ [Next]_vars => IInv'
    BY NextInv
  <1>. QED  BY InitInv, <1>1, PTL DEF Spec

\* What the supervisor tells is true (runtime.rs: submit, run_manager, wait,
\* shutdown): the limits hold and agree with one another, a run does not leave
\* the map before its handle is answered nor the handle before the store, and a
\* shutdown that reports success has left nothing behind.
THEOREM AccountsTrue == Spec => []AccountsAreTrue
  <1>1. ASSUME IInv  PROVE TypeOK
    <2>1. Elements(queue) \subseteq Runs \cup Controls
      BY <1>1, ElementsIn DEF IInv, TypeInv
    <2>. QED  BY <1>1, <2>1 DEF IInv, TypeInv, PlaceInv, PhaseInv, Waits, Places, TypeOK
  <1>2. ASSUME IInv  PROVE LimitsAgree
    <2>1. /\ Cardinality(reserved) \in Nat /\ Cardinality(Queued) \in Nat
          /\ Cardinality(Tasks) \in Nat /\ Len(pending) \in Nat /\ Len(queue) \in Nat
          /\ Cardinality(Busy) \in Nat
          /\ Cardinality(admitted) = Cardinality(reserved) + Cardinality(Queued)
                                     + Len(pending) + Cardinality(Tasks)
          /\ Len(queue) <= Cardinality(Queued) + Cardinality(Busy)
      BY <1>2, Counts DEF IInv
    <2>2. Cardinality(admitted) <= MaxAdmitted /\ Cardinality(Busy) <= MaxControls
      BY <1>2 DEF IInv, CountInv
    <2>3. MaxAdmitted \in Nat /\ MaxControls \in Nat
      BY BoundsAssumption DEF MaxAdmitted
    <2>4. Full => Cardinality(admitted) = MaxAdmitted /\ Cardinality(Busy) = MaxControls
      <3>. SUFFICES ASSUME Len(queue) + Cardinality(reserved) = MaxAdmitted + MaxControls
                    PROVE  Cardinality(admitted) = MaxAdmitted /\ Cardinality(Busy) = MaxControls
        BY DEF Full, Capacity
      <3>. QED  BY <2>1, <2>2, <2>3
    <2>. QED  BY <1>2, <2>4 DEF IInv, CountInv, LimitsAgree
  <1>3. IInv => HandlesAreAnswered
    BY DEF IInv, HandleInv, HandlesAreAnswered
  <1>4. ASSUME IInv  PROVE ShutdownIsComplete
    <2>. SUFFICES ASSUME stopper = "ok"
                  PROVE  /\ lifecycle = "closed" /\ lock = NoOne
                         /\ active = {} /\ admitted = {} /\ Tasks = {}
                         /\ \A r \in Runs : sub[r] = "accepted" => handle[r] = "settled"
      BY DEF ShutdownIsComplete
    <2>1. /\ manager.at = "gone" /\ ~failed /\ lifecycle = "closed"
          /\ queue = <<>> /\ reserved = {} /\ pending = <<>> /\ Tasks = {}
          /\ lock \in Runs \cup {NoOne}
      BY <1>4 DEF IInv, PhaseInv
    <2>2. Queued = {} /\ Waits = {}
      BY <2>1, EmptyElements DEF Queued, Waits
    <2>3. lock = NoOne /\ active = {} /\ admitted = {}
      BY <1>4, <2>1, <2>2 DEF IInv, PlaceInv
    <2>. QED  BY <1>4, <2>1, <2>3 DEF IInv, HandleInv
  <1>5. IInv => AccountsAreTrue
    BY <1>1, <1>2, <1>3, <1>4 DEF AccountsAreTrue
  <1>. QED  BY InductiveInvariant, <1>5, PTL

\* Only the manager starts a run, when it tops up or takes a command.
LEMMA OnlyManagerStarts ==
  ASSUME IInv, [Next]_vars, NEW r \in Runs, task[r] # "spawned", task'[r] = "spawned"
  PROVE  TopUp \/ TakeCommand
  <1>1. CASE Manager
    <2>1. ~Join
      BY DEF Join, Reconcile, IInv, TypeInv
    <2>. QED  BY <1>1, <2>1 DEF Manager, Sweep, ForceFirst, TakeShutdown, TakeNotification,
         Drain, Drained, InterruptPending, InterruptedPending, AbortAll, ManagerEnds, work
  <1>2. ~(RefreshFails \/ Stopper \/ Close \/ GraceEnds \/ AbortManager \/ DropSupervisor)
    BY DEF RefreshFails, Stopper, SendShutdown, ManagerAnswered, ShutdownAdapters, ForceShutdown,
       Forced, Close, GraceEnds, AbortManager, DropSupervisor, work
  <1>3. ASSUME NEW s \in Runs,
               \/ Submit(s) \/ Enqueue(s) \/ Abandon(s) \/ Interrupt(s) \/ LeaseLost(s)
               \/ TaskBegins(s) \/ TaskEnds(s) \/ TaskFails(s)
        PROVE  FALSE
    BY <1>3 DEF Submit, Enqueue, Abandon, Interrupt, LeaseLost, TaskBegins, TaskEnds, TaskFails,
       IInv, TypeInv, work
  <1>4. ASSUME NEW k \in Controls, Control(k) \/ ControlEnds(k)  PROVE FALSE
    BY <1>4 DEF Control, ControlEnds, work
  <1>5. ~UNCHANGED vars
    BY DEF vars, work
  <1>. QED  BY <1>1, <1>2, <1>3, <1>4, <1>5 DEF Next

\* Who is before a run in the line of commands.
LEMMA EarlierRuns ==
  ASSUME IInv, NEW r \in Runs, NEW s \in Earlier(r)
  PROVE  /\ s \in Runs
         /\ \E i, j \in 1 .. Len(pending) + Len(queue) :
              /\ i < j
              /\ s = IF i <= Len(pending) THEN pending[i] ELSE queue[i - Len(pending)]
              /\ r = IF j <= Len(pending) THEN pending[j] ELSE queue[j - Len(pending)]
  <1>. DEFINE line == pending \o queue
  <1>1. pending \in Seq(Runs \cup Controls) /\ queue \in Seq(Runs \cup Controls)
    BY SeqMonotonic DEF IInv, TypeInv
  <1>2. /\ line \in Seq(Runs \cup Controls) /\ Len(line) = Len(pending) + Len(queue)
        /\ \A i \in 1 .. Len(pending) + Len(queue) :
             line[i] = IF i <= Len(pending) THEN pending[i] ELSE queue[i - Len(pending)]
    BY <1>1, ConcatProperties
  <1>3. DOMAIN line = 1 .. Len(pending) + Len(queue)
    BY <1>2, LenProperties
  <1>. HIDE DEF line
  <1>4. s \in {line[i] : i \in {i \in DOMAIN line : \E j \in DOMAIN line : i < j /\ line[j] = r}}
             \cap Runs
    BY DEF Earlier, line
  <1>5. PICK i \in DOMAIN line : s = line[i] /\ \E j \in DOMAIN line : i < j /\ line[j] = r
    BY <1>4
  <1>6. PICK j \in DOMAIN line : i < j /\ line[j] = r
    BY <1>5
  <1>. QED  BY <1>2, <1>3, <1>4, <1>5, <1>6

\* Runs start in the order of their commands (run_manager): whoever was before
\* a run that starts, starts with it or has left.
THEOREM StartsOrdered == Spec => StartsInOrder
  <1>. DEFINE Ordered == \A r \in Runs : task[r] = "none" /\ task'[r] = "spawned" =>
                           \A s \in Earlier(r) : task'[s] = "spawned" \/ s \notin active'
  <1>1. ASSUME IInv, [Next]_vars  PROVE Ordered
    <2>. SUFFICES ASSUME NEW r \in Runs, task[r] = "none", task'[r] = "spawned",
                         NEW s \in Earlier(r)
                  PROVE  task'[s] = "spawned"
      OBVIOUS
    <2>1. PICK i, j \in 1 .. Len(pending) + Len(queue) :
            /\ i < j
            /\ s = IF i <= Len(pending) THEN pending[i] ELSE queue[i - Len(pending)]
            /\ r = IF j <= Len(pending) THEN pending[j] ELSE queue[j - Len(pending)]
      BY <1>1, EarlierRuns
    <2>2. /\ s \in Runs /\ Len(pending) \in Nat /\ Len(queue) \in Nat
          /\ DOMAIN pending = 1 .. Len(pending) /\ DOMAIN queue = 1 .. Len(queue)
          /\ pending \in Seq(Runs) /\ Distinct(pending) /\ Distinct(queue)
      BY <1>1, EarlierRuns, LenProperties DEF IInv, TypeInv, PlaceInv
    <2>3. CASE TopUp
      <3>. DEFINE room == MaxConcurrent - Cardinality(Tasks)
                  n == IF Len(pending) < room THEN Len(pending) ELSE room
                  front == SubSeq(pending, 1, n)
      <3>1. task' = [t \in Runs |-> IF t \in Elements(front) THEN "spawned" ELSE task[t]]
        BY <2>3 DEF TopUp
      <3>2. n \in 0 .. Len(pending)
        BY <1>1, <2>2, Counts, BoundsAssumption DEF IInv, CountInv
      <3>. HIDE DEF n
      <3>3. /\ front \in Seq(Runs) /\ Len(front) = n /\ \A t \in 1 .. n : front[t] = pending[t]
        BY <2>2, <3>2, CutElements
      <3>4. DOMAIN front = 1 .. n
        BY <3>3, LenProperties
      <3>. HIDE DEF front
      <3>5. r \in Elements(front)
        BY <3>1
      <3>6. PICK t \in 1 .. n : r = pending[t]
        BY <3>3, <3>4, <3>5 DEF Elements
      <3>7. r \in Waits /\ r \notin Elements(queue)
        <4>1. r \in Waits
          BY <2>2, <3>2, <3>6 DEF Waits, Elements
        <4>. QED  BY <1>1, <4>1 DEF IInv, PlaceInv, Queued
      <3>8. j <= Len(pending)
        <4>1. j > Len(pending) => j - Len(pending) \in DOMAIN queue
          BY <2>2
        <4>. QED  BY <2>1, <2>2, <3>7, <4>1 DEF Elements
      <3>9. j = t
        BY <2>1, <2>2, <3>2, <3>6, <3>8 DEF Distinct
      <3>10. i \in 1 .. n /\ s = front[i]
        BY <2>1, <2>2, <3>2, <3>3, <3>8, <3>9
      <3>. QED  BY <2>2, <3>1, <3>4, <3>10 DEF Elements
    <2>4. CASE TakeCommand
      <3>1. queue # <<>> /\ manager.at = "serve"
        BY <2>4 DEF TakeCommand
      <3>2. Head(queue) = queue[1] /\ Len(queue) # 0
        BY <1>1, <3>1, HeadTailProperties, EmptySeq DEF IInv, TypeInv
      <3>3. r = Head(queue) /\ Cardinality(Tasks) < MaxConcurrent
        BY <1>1, <2>4 DEF TakeCommand, IInv, TypeInv
      <3>4. pending = <<>>
        BY <1>1, <3>1, <3>3, Counts, BoundsAssumption DEF IInv, CountInv
      <3>5. Len(pending) = 0 /\ queue[j] = queue[1] /\ j \in DOMAIN queue /\ 1 \in DOMAIN queue
        BY <2>1, <2>2, <3>2, <3>3, <3>4
      <3>6. j = 1
        BY <2>2, <3>5 DEF Distinct
      <3>. QED  BY <2>1, <2>2, <3>6
    <2>. QED  BY <1>1, <2>3, <2>4, OnlyManagerStarts
  <1>2. IInv /\ [Next]_vars => [Ordered]_vars
    BY <1>1
  <1>. QED  BY InductiveInvariant, <1>2, PTL DEF Spec, StartsInOrder

=============================================================================
