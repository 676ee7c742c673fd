--------------------------- MODULE SamplerProofs ---------------------------
(***************************************************************************)
(* Proofs about the sampler, for any number of threads, rules and spans,   *)
(* any limit and any interval.                                             *)
(***************************************************************************)
EXTENDS RuleBasedSampler, SequenceTheorems, FiniteSetTheorems,
        WellFoundedInduction, TLAPS

-----------------------------------------------------------------------------
(***************************************************************************)
(* The limiter's queue: what is left of the times that were admitted.      *)
(***************************************************************************)

\* The queue q is the end of adm, whose times grow.
Trims(adm, q) ==
    /\ adm \in Seq(Nat) /\ q \in Seq(Nat) /\ Len(q) <= Len(adm)
    /\ \A k \in 1 .. Len(q) : q[k] = adm[Len(adm) - Len(q) + k]
    /\ \A j, k \in 1 .. Len(adm) : j <= k => adm[j] <= adm[k]

\* Of the admissions in the interval from i on: all, and those that have left
\* the queue.
InWindow(adm, i) == {k \in 1 .. Len(adm) : adm[k] \in i .. i + Interval}
Gone(adm, q, i) == {k \in 1 .. Len(adm) - Len(q) : adm[k] \in i .. i + Interval}

\* These are finitely many.
LEMMA WindowsFinite ==
    ASSUME NEW adm, NEW q, Trims(adm, q), NEW i
    PROVE  /\ IsFiniteSet(InWindow(adm, i)) /\ Cardinality(InWindow(adm, i)) \in Nat
           /\ IsFiniteSet(Gone(adm, q, i)) /\ Cardinality(Gone(adm, q, i)) \in Nat
<1>1. Len(adm) \in Nat /\ Len(q) \in Nat
  BY DEF Trims
<1>2. IsFiniteSet(1 .. Len(adm))
  BY <1>1, FS_Interval
<1>3. InWindow(adm, i) \in SUBSET (1 .. Len(adm)) /\ Gone(adm, q, i) \in SUBSET (1 .. Len(adm))
  BY <1>1 DEF InWindow, Gone
<1>4. IsFiniteSet(InWindow(adm, i)) /\ IsFiniteSet(Gone(adm, q, i))
  BY <1>2, <1>3, FS_Subset
<1> QED
  BY <1>4, FS_CardinalityType

\* What was admitted in an interval has left the queue or is in it.
LEMMA WindowSplits ==
    ASSUME NEW adm, NEW q, Trims(adm, q), NEW i
    PROVE  Cardinality(InWindow(adm, i)) <= Cardinality(Gone(adm, q, i)) + Len(q)
<1> DEFINE d == Len(adm) - Len(q)
           rest == d + 1 .. Len(adm)
<1>1. Len(adm) \in Nat /\ Len(q) \in Nat /\ d \in Nat /\ Len(q) <= Len(adm)
  BY DEF Trims
<1>2. IsFiniteSet(rest) /\ Cardinality(rest) = Len(q)
  <2>1. d + 1 \in Int /\ Len(adm) \in Int
    BY <1>1
  <2>2. IsFiniteSet(rest) /\ Cardinality(rest) = IF d + 1 > Len(adm) THEN 0 ELSE Len(adm) - (d + 1) + 1
    BY <2>1, FS_Interval
  <2> QED
    BY <1>1, <2>2
<1>3. IsFiniteSet(Gone(adm, q, i)) /\ Cardinality(Gone(adm, q, i)) \in Nat
      /\ Cardinality(InWindow(adm, i)) \in Nat
  BY WindowsFinite
<1> DEFINE all == Gone(adm, q, i) \cup rest
<1>4. /\ IsFiniteSet(all)
      /\ Cardinality(all) = Cardinality(Gone(adm, q, i)) + Cardinality(rest)
                            - Cardinality(Gone(adm, q, i) \cap rest)
  BY <1>2, <1>3, FS_Union
<1>5. Cardinality(Gone(adm, q, i) \cap rest) \in Nat
  <2>1. IsFiniteSet(Gone(adm, q, i) \cap rest)
    BY <1>2, FS_Subset
  <2> QED
    BY <2>1, FS_CardinalityType
<1>6. InWindow(adm, i) \in SUBSET all
  BY <1>1 DEF InWindow, Gone
<1>7. Cardinality(InWindow(adm, i)) <= Cardinality(all)
  BY <1>4, <1>6, FS_Subset
<1>8. Cardinality(all) \in Nat
  BY <1>4, FS_CardinalityType
<1> HIDE DEF all, rest, d
<1> QED
  BY <1>1, <1>2, <1>3, <1>4, <1>5, <1>7, <1>8

\* As long as the queue's head is older than an interval, nothing of that
\* interval has left the queue, nor has it when the head leaves.
LEMMA HeadBefore ==
    ASSUME NEW adm, NEW q, Trims(adm, q), NEW i \in Nat, q # <<>>, q[1] < i
    PROVE  /\ Gone(adm, q, i) = {}
           /\ \A k \in 1 .. Len(adm) - Len(q) + 1 : adm[k] < i
<1> DEFINE d == Len(adm) - Len(q)
<1>1. Len(adm) \in Nat /\ Len(q) \in Nat \ {0} /\ d \in Nat /\ d + 1 \in 1 .. Len(adm)
  BY DEF Trims
<1>2. q[1] = adm[d + 1]
  BY <1>1 DEF Trims
<1>3. ASSUME NEW k \in 1 .. d + 1
      PROVE  adm[k] < i
  <2> DEFINE e == d + 1
  <2>1. k \in 1 .. Len(adm) /\ e \in 1 .. Len(adm) /\ k <= e
    BY <1>1
  <2> HIDE DEF d
  <2>2. adm \in Seq(Nat) /\ adm[k] <= adm[e]
    <3> HIDE DEF e
    <3> QED
      BY <2>1 DEF Trims
  <2>3. adm[k] \in Nat /\ adm[e] \in Nat /\ q[1] = adm[e]
    <3>1. q[1] = adm[e]
      BY <1>2
    <3> HIDE DEF e
    <3> QED
      BY <2>1, <2>2, <3>1
  <2> HIDE DEF e
  <2> QED
    BY <2>2, <2>3
<1>4. ASSUME NEW k \in 1 .. d, adm[k] \in i .. i + Interval
      PROVE  FALSE
  <2>1. k \in 1 .. d + 1
    BY <1>1
  <2>2. adm[k] < i
    BY <1>3, <2>1
  <2> QED
    BY <1>4, <2>2, LimiterAssumption
<1> QED
  BY <1>3, <1>4 DEF Gone

\* A dequeue takes one admission out of the queue.
LEMMA TrimsDequeue ==
    ASSUME NEW adm, NEW q, Trims(adm, q), q # <<>>
    PROVE  /\ Trims(adm, Tail(q)) /\ Len(Tail(q)) = Len(q) - 1
           /\ \A i : Gone(adm, Tail(q), i) \subseteq Gone(adm, q, i) \cup {Len(adm) - Len(q) + 1}
<1>1. /\ Len(adm) \in Nat /\ Len(q) \in Nat \ {0} /\ q \in Seq(Nat)
      /\ Tail(q) \in Seq(Nat) /\ Len(Tail(q)) = Len(q) - 1
      /\ \A k \in 1 .. Len(q) - 1 : Tail(q)[k] = q[k + 1]
  BY DEF Trims
<1>2. Trims(adm, Tail(q))
  <2>1. ASSUME NEW k \in 1 .. Len(q) - 1
        PROVE  Tail(q)[k] = adm[Len(adm) - (Len(q) - 1) + k]
    <3>1. k + 1 \in 1 .. Len(q)
      BY <1>1
    <3>2. q[k + 1] = adm[Len(adm) - Len(q) + (k + 1)]
      BY <3>1 DEF Trims
    <3>3. Len(adm) - Len(q) + (k + 1) = Len(adm) - (Len(q) - 1) + k
      BY <1>1
    <3> QED
      BY <1>1, <3>2, <3>3
  <2> QED
    BY <1>1, <2>1 DEF Trims
<1>3. ASSUME NEW i, NEW k \in Gone(adm, Tail(q), i)
      PROVE  k \in Gone(adm, q, i) \cup {Len(adm) - Len(q) + 1}
  <2>1. k \in 1 .. Len(adm) - Len(q) + 1
    <3>1. k \in 1 .. Len(adm) - Len(Tail(q))
      BY <1>3 DEF Gone
    <3> QED
      BY <1>1, <3>1
  <2>2. k \in 1 .. Len(adm) - Len(q) \/ k = Len(adm) - Len(q) + 1
    BY <1>1, <2>1
  <2> QED
    BY <1>3, <2>2 DEF Gone
<1> QED
  BY <1>1, <1>2, <1>3

\* An enqueue adds one at the end.
LEMMA TrimsEnqueue ==
    ASSUME NEW adm, NEW q, Trims(adm, q), NEW x \in Nat, \A k \in 1 .. Len(adm) : adm[k] <= x
    PROVE  /\ Trims(Append(adm, x), Append(q, x))
           /\ Len(Append(q, x)) = Len(q) + 1 /\ Len(Append(adm, x)) = Len(adm) + 1
           /\ \A k \in 1 .. Len(adm) : Append(adm, x)[k] = adm[k]
           /\ Append(adm, x)[Len(adm) + 1] = x
           /\ q # <<>> => Append(q, x)[1] = q[1]
           /\ \A i : Gone(Append(adm, x), Append(q, x), i) = Gone(adm, q, i)
<1> DEFINE a == Append(adm, x)
           r == Append(q, x)
<1>1. Len(adm) \in Nat /\ Len(q) \in Nat /\ Len(q) <= Len(adm)
      /\ adm \in Seq(Nat) /\ q \in Seq(Nat)
  BY DEF Trims
<1>2. /\ a \in Seq(Nat) /\ Len(a) = Len(adm) + 1 /\ a[Len(adm) + 1] = x
      /\ \A k \in 1 .. Len(adm) : a[k] = adm[k]
  BY <1>1, AppendProperties
<1>3. /\ r \in Seq(Nat) /\ Len(r) = Len(q) + 1 /\ r[Len(q) + 1] = x
      /\ \A k \in 1 .. Len(q) : r[k] = q[k]
  BY <1>1, AppendProperties
<1> HIDE DEF a, r
<1>4. ASSUME NEW k \in 1 .. Len(r)
      PROVE  r[k] = a[Len(a) - Len(r) + k]
  <2>1. Len(a) - Len(r) + k = Len(adm) - Len(q) + k
    BY <1>1, <1>2, <1>3
  <2>2. CASE k \in 1 .. Len(q)
    <3>1. Len(adm) - Len(q) + k \in 1 .. Len(adm)
      BY <1>1, <2>2
    <3>2. q[k] = adm[Len(adm) - Len(q) + k]
      BY <2>2 DEF Trims
    <3> QED
      BY <1>2, <1>3, <2>1, <2>2, <3>1, <3>2
  <2>3. CASE k = Len(q) + 1
    <3>1. Len(adm) - Len(q) + k = Len(adm) + 1
      BY <1>1, <2>3
    <3> QED
      BY <1>2, <1>3, <2>1, <2>3, <3>1
  <2> QED
    BY <1>1, <1>3, <2>2, <2>3
<1>5. ASSUME NEW j \in 1 .. Len(a), NEW k \in 1 .. Len(a), j <= k
      PROVE  a[j] <= a[k]
  <2>1. j \in 1 .. Len(adm) \/ j = Len(adm) + 1
    BY <1>1, <1>2
  <2>2. k \in 1 .. Len(adm) \/ k = Len(adm) + 1
    BY <1>1, <1>2
  <2>3. CASE k \in 1 .. Len(adm)
    <3>1. j \in 1 .. Len(adm)
      BY <1>1, <1>5, <2>3
    <3> QED
      BY <1>2, <1>5, <2>3, <3>1 DEF Trims
  <2>4. CASE k = Len(adm) + 1
    BY <1>2, <2>1, <2>4
  <2> QED
    BY <2>2, <2>3, <2>4
<1>6. Trims(a, r)
  <2>1. Len(r) <= Len(a)
    BY <1>1, <1>2, <1>3
  <2> QED
    BY <1>2, <1>3, <1>4, <1>5, <2>1 DEF Trims
<1>7. q # <<>> => r[1] = q[1]
  BY <1>1, <1>3
<1>8. ASSUME NEW i
      PROVE  Gone(a, r, i) = Gone(adm, q, i)
  <2>1. Len(a) - Len(r) = Len(adm) - Len(q)
    BY <1>1, <1>2, <1>3
  <2>2. \A k \in 1 .. Len(adm) - Len(q) : a[k] = adm[k]
    BY <1>1, <1>2
  <2> QED
    BY <2>1, <2>2 DEF Gone
<1> QED
  BY <1>2, <1>3, <1>6, <1>7, <1>8 DEF a, r

-----------------------------------------------------------------------------
(***************************************************************************)
(* The limiter: its types, and what bounds the queue and the admissions.   *)
(***************************************************************************)

N == Cardinality(Threads)
ThreadsAt(pc) == {t \in Threads : limiter[t].pc = pc}

Places == {"out", "wait", "compare", "reset", "peek", "dequeue", "set", "count", "enqueue",
           "allowed", "denied"}

LimiterTypes ==
    /\ now \in 0 .. MaxTime /\ lastRefresh \in 0 .. now /\ refreshSet \in BOOLEAN
    /\ limiter \in [Threads -> [pc : Places, previous : Nat, started : Nat]]
    /\ \A t \in Threads : limiter[t].previous <= now /\ limiter[t].started <= now

History == Trims(admitted, intervalQueue) /\ \A k \in 1 .. Len(admitted) : admitted[k] <= now

\* With a limit of zero or less nobody gets to the queue.
Unused == admitted = <<>> /\ \A t \in Threads : limiter[t].pc = "out"

\* Who is about to enqueue has counted fewer than the limit, the others at most
\* that.
QueueBound == Len(intervalQueue) + Cardinality(ThreadsAt("enqueue")) <= Limit + N - 1

\* Until an interval is over, a thread that dequeues one of its admissions had
\* found an older one, which another thread took: the queue's head is older
\* still, or there is a thread that is none of those.
WindowBound ==
    \A i \in 0 .. MaxTime : now <= i + Interval =>
        \/ intervalQueue # <<>> /\ intervalQueue[1] < i
        \/ Cardinality(Gone(admitted, intervalQueue, i)) + Cardinality(ThreadsAt("dequeue")) <= N - 1

Overshoot == \A i \in 0 .. MaxTime : Cardinality(InWindow(admitted, i)) <= Limit + 2 * (N - 1)

LimiterInv ==
    /\ LimiterTypes /\ History
    /\ IF AnswersAtOnce THEN Unused ELSE QueueBound /\ WindowBound /\ Overshoot

\* There are finitely many threads, and at least one.
LEMMA ThreadsCounted ==
    /\ N \in Nat \ {0}
    /\ \A S \in SUBSET Threads : IsFiniteSet(S) /\ Cardinality(S) \in Nat /\ Cardinality(S) <= N
<1>1. IsFiniteSet(Threads) /\ Threads # {}
  BY LimiterAssumption
<1>2. N \in Nat
  BY <1>1, FS_CardinalityType DEF N
<1>3. N # 0
  BY <1>1, FS_EmptySet DEF N
<1>4. ASSUME NEW S \in SUBSET Threads
      PROVE  IsFiniteSet(S) /\ Cardinality(S) \in Nat /\ Cardinality(S) <= N
  <2>1. IsFiniteSet(S) /\ Cardinality(S) <= Cardinality(Threads)
    BY <1>1, FS_Subset
  <2>2. Cardinality(S) \in Nat
    BY <2>1, FS_CardinalityType
  <2> QED
    BY <2>1, <2>2 DEF N
<1> QED
  BY <1>2, <1>3, <1>4

\* One thread goes from one place to another.
Moves(t) ==
    /\ limiter' \in [Threads -> [pc : Places, previous : Nat, started : Nat]]
    /\ \A u \in Threads \ {t} : limiter'[u] = limiter[u]
    /\ limiter'[t].previous <= now /\ limiter'[t].started <= now

\* The threads in a place are one less when it leaves it, and one more at most
\* when it gets there.
LEMMA MovesCounted ==
    ASSUME NEW t \in Threads, Moves(t), NEW pc
    PROVE  /\ Cardinality(ThreadsAt(pc)) \in Nat /\ Cardinality(ThreadsAt(pc)') \in Nat
           /\ Cardinality(ThreadsAt(pc)') <= N
           /\ limiter'[t].pc # pc =>
                 /\ Cardinality(ThreadsAt(pc)') <= Cardinality(ThreadsAt(pc))
                 /\ limiter[t].pc = pc
                    => /\ Cardinality(ThreadsAt(pc)') = Cardinality(ThreadsAt(pc)) - 1
                       /\ Cardinality(ThreadsAt(pc)') <= N - 1
<1> DEFINE A == ThreadsAt(pc)
           B == {u \in Threads : limiter'[u].pc = pc}
<1>1. B = ThreadsAt(pc)'
  BY DEF ThreadsAt
<1>2. A \in SUBSET Threads /\ B \in SUBSET Threads
  BY DEF ThreadsAt
<1>3. limiter'[t].pc # pc => B = A \ {t}
  BY DEF Moves, ThreadsAt
<1>4. limiter[t].pc = pc => t \in A
  BY DEF ThreadsAt
<1> HIDE DEF A, B
<1>5. /\ IsFiniteSet(A) /\ Cardinality(A) \in Nat /\ Cardinality(A) <= N
      /\ Cardinality(B) \in Nat /\ Cardinality(B) <= N
  BY <1>2, ThreadsCounted
<1>6. Cardinality(A \ {t}) = IF t \in A THEN Cardinality(A) - 1 ELSE Cardinality(A)
  BY <1>5, FS_RemoveElement
<1>7. N \in Nat
  BY ThreadsCounted
<1>8. limiter'[t].pc # pc =>
        /\ Cardinality(B) <= Cardinality(A)
        /\ limiter[t].pc = pc => /\ Cardinality(B) = Cardinality(A) - 1
                                 /\ Cardinality(B) <= N - 1
  <2> DEFINE a == Cardinality(A)
             b == Cardinality(B)
  <2>1. ASSUME limiter'[t].pc # pc
        PROVE  b = IF t \in A THEN a - 1 ELSE a
    BY <1>3, <1>6, <2>1
  <2>2. a \in Nat /\ b \in Nat /\ a <= N /\ N \in Nat
    BY <1>5, <1>7
  <2> HIDE DEF a, b
  <2>3. ASSUME limiter'[t].pc # pc
        PROVE  b <= a /\ (t \in A => b = a - 1 /\ b <= N - 1)
    BY <2>1, <2>2, <2>3
  <2> QED
    BY <1>4, <2>3 DEF a, b
<1> QED
  BY <1>1, <1>5, <1>8 DEF A

\* At first nothing was admitted.
LEMMA LimiterStarts == LimiterInit => LimiterInv
<1> SUFFICES ASSUME LimiterInit
             PROVE  LimiterInv
  OBVIOUS
<1> USE DEF LimiterInit, Outside
<1>1. LimiterTypes
  BY LimiterAssumption DEF LimiterTypes, Places
<1>2. Len(intervalQueue) = 0 /\ Len(admitted) = 0
  OBVIOUS
<1>3. History
  BY <1>2 DEF History, Trims
<1>4. ThreadsAt("enqueue") = {} /\ ThreadsAt("dequeue") = {}
  BY DEF ThreadsAt
<1>5. \A i : InWindow(admitted, i) = {} /\ Gone(admitted, intervalQueue, i) = {}
  BY <1>2 DEF InWindow, Gone
<1>6. Cardinality({}) = 0
  BY FS_EmptySet
<1>7. ~ AnswersAtOnce => QueueBound
  BY <1>2, <1>4, <1>6, ThreadsCounted, LimiterAssumption DEF AnswersAtOnce, QueueBound
<1>8. WindowBound
  <2>1. 0 + 0 <= N - 1
    BY ThreadsCounted
  <2> QED
    BY <1>4, <1>5, <1>6, <2>1 DEF WindowBound
<1>9. ~ AnswersAtOnce => Overshoot
  <2>1. ~ AnswersAtOnce => 0 <= Limit + 2 * (N - 1)
    BY ThreadsCounted, LimiterAssumption DEF AnswersAtOnce
  <2> QED
    BY <1>5, <1>6, <2>1 DEF Overshoot
<1>10. AnswersAtOnce => Unused
  BY DEF Unused
<1> QED
  BY <1>1, <1>3, <1>7, <1>8, <1>9, <1>10 DEF LimiterInv

\* A thread moves and the queue stays: it did not come to dequeue without an old
\* head, nor to enqueue where the queue was full.
LEMMA MovesKeep ==
    ASSUME LimiterInv, ~ AnswersAtOnce, NEW t \in Threads, Moves(t),
           UNCHANGED <<now, intervalQueue, admitted>>,
           lastRefresh' \in 0 .. now, refreshSet' \in BOOLEAN,
           limiter'[t].pc = "enqueue" => Len(intervalQueue) < Limit,
           limiter'[t].pc = "dequeue" => Stale(t)
    PROVE  LimiterInv'
<1>1. LimiterTypes'
  BY DEF Moves, LimiterInv, LimiterTypes
<1>2. History'
  BY DEF LimiterInv, History
<1>3. Len(intervalQueue) \in Nat /\ N \in Nat \ {0} /\ Limit \in Int
  BY ThreadsCounted, LimiterAssumption DEF LimiterInv, History, Trims
<1>4. QueueBound'
  <2> DEFINE a == Cardinality(ThreadsAt("enqueue"))
             b == Cardinality(ThreadsAt("enqueue")')
  <2>1. a \in Nat /\ b \in Nat /\ b <= N /\ (limiter'[t].pc # "enqueue" => b <= a)
    BY MovesCounted
  <2>2. Len(intervalQueue) + a <= Limit + N - 1
    BY DEF LimiterInv, QueueBound
  <2>3. Len(intervalQueue) + b <= Limit + N - 1
    <3> HIDE DEF a, b
    <3> QED
      BY <1>3, <2>1, <2>2
  <2> QED
    BY <2>3 DEF QueueBound, N
<1>5. WindowBound'
  <2> DEFINE a == Cardinality(ThreadsAt("dequeue"))
             b == Cardinality(ThreadsAt("dequeue")')
  <2>1. a \in Nat /\ b \in Nat /\ (limiter'[t].pc # "dequeue" => b <= a)
    BY MovesCounted
  <2>2. ASSUME NEW i \in 0 .. MaxTime, now <= i + Interval
        PROVE  \/ intervalQueue # <<>> /\ intervalQueue[1] < i
               \/ Cardinality(Gone(admitted, intervalQueue, i)) + b <= N - 1
    <3>1. CASE limiter'[t].pc = "dequeue"
      <4>1. Stale(t) /\ limiter[t].started <= now /\ now \in Nat /\ limiter[t].started \in Nat
        BY <3>1 DEF LimiterInv, LimiterTypes
      <4>2. intervalQueue # <<>> /\ intervalQueue \in Seq(Nat)
        BY <4>1 DEF Stale, LimiterInv, History, Trims
      <4>3. intervalQueue[1] \in Nat /\ Head(intervalQueue) = intervalQueue[1]
        BY <4>2
      <4>4. limiter[t].started - intervalQueue[1] > Interval
        BY <4>1, <4>3 DEF Stale
      <4> QED
        BY <2>2, <4>1, <4>2, <4>3, <4>4, LimiterAssumption
    <3>2. CASE limiter'[t].pc # "dequeue"
      <4> DEFINE c == Cardinality(Gone(admitted, intervalQueue, i))
      <4>1. c \in Nat
        BY WindowsFinite DEF LimiterInv, History
      <4>2. \/ intervalQueue # <<>> /\ intervalQueue[1] < i
            \/ c + a <= N - 1
        BY <2>2 DEF LimiterInv, WindowBound
      <4> HIDE DEF a, b, c
      <4>3. c + a <= N - 1 => c + b <= N - 1
        BY <1>3, <2>1, <3>2, <4>1
      <4> QED
        BY <4>2, <4>3 DEF c
    <3> QED
      BY <3>1, <3>2
  <2> QED
    BY <2>2 DEF WindowBound, N, Gone
<1>6. Overshoot'
  BY DEF LimiterInv, Overshoot, N, InWindow
<1> QED
  BY <1>1, <1>2, <1>4, <1>5, <1>6 DEF LimiterInv, AnswersAtOnce

\* A dequeue: what leaves the queue leaves it by a thread that came for it.
LEMMA DequeueKeeps ==
    ASSUME LimiterInv, ~ AnswersAtOnce, NEW t \in Threads, Dequeue(t)
    PROVE  LimiterInv'
<1> DEFINE q == intervalQueue
           r == intervalQueue'
<1>1. /\ limiter[t].pc = "dequeue" /\ limiter' = [limiter EXCEPT ![t].pc = "peek"]
      /\ r = IF q = <<>> THEN <<>> ELSE Tail(q)
      /\ UNCHANGED <<now, lastRefresh, refreshSet, admitted>>
  BY DEF Dequeue, At, Goto
<1>2. Moves(t) /\ limiter'[t].pc = "peek"
  <2>1. "peek" \in Places
    BY DEF Places
  <2> QED
    BY <1>1, <2>1 DEF Moves, LimiterInv, LimiterTypes
<1>3. LimiterTypes'
  BY <1>1, <1>2 DEF Moves, LimiterInv, LimiterTypes
<1>4. Trims(admitted, q) /\ Len(q) \in Nat /\ N \in Nat \ {0} /\ Limit \in Int
  BY ThreadsCounted, LimiterAssumption DEF LimiterInv, History, Trims
<1>5. /\ Trims(admitted, r) /\ Len(r) \in Nat /\ Len(r) <= Len(q)
      /\ \A i : Gone(admitted, r, i) \subseteq Gone(admitted, q, i) \cup {Len(admitted) - Len(q) + 1}
      /\ q = <<>> => \A i : Gone(admitted, r, i) = Gone(admitted, q, i)
  <2>1. CASE q = <<>>
    BY <1>1, <1>4, <2>1
  <2>2. CASE q # <<>>
    <3>1. r = Tail(q)
      BY <1>1, <2>2
    <3>2. /\ Trims(admitted, r) /\ Len(r) = Len(q) - 1
          /\ \A i : Gone(admitted, r, i)
                    \subseteq Gone(admitted, q, i) \cup {Len(admitted) - Len(q) + 1}
      BY <1>4, <2>2, <3>1, TrimsDequeue
    <3>3. Len(r) \in Nat
      BY <3>2 DEF Trims
    <3> QED
      BY <1>4, <2>2, <3>2, <3>3
  <2> QED
    BY <2>1, <2>2
<1> HIDE DEF q, r
<1>6. History'
  <2>1. Trims(admitted, r) /\ \A k \in 1 .. Len(admitted) : admitted[k] <= now
    BY <1>5 DEF LimiterInv, History
  <2> QED
    BY <1>1, <2>1 DEF History, r
<1>7. QueueBound'
  <2> DEFINE a == Cardinality(ThreadsAt("enqueue"))
             b == Cardinality(ThreadsAt("enqueue")')
  <2>1. a \in Nat /\ b \in Nat /\ b <= a
    BY <1>2, MovesCounted
  <2>2. Len(q) + a <= Limit + N - 1
    BY DEF LimiterInv, QueueBound, q
  <2>3. Len(r) + b <= Limit + N - 1
    <3> HIDE DEF a, b
    <3> QED
      BY <1>4, <1>5, <2>1, <2>2
  <2> QED
    BY <2>3 DEF QueueBound, N, r
<1>8. WindowBound'
  <2> DEFINE a == Cardinality(ThreadsAt("dequeue"))
             b == Cardinality(ThreadsAt("dequeue")')
  <2>1. a \in Nat /\ b \in Nat /\ b = a - 1 /\ b <= N - 1
    BY <1>1, <1>2, MovesCounted
  <2>2. ASSUME NEW i \in 0 .. MaxTime, now <= i + Interval
        PROVE  Cardinality(Gone(admitted, r, i)) + b <= N - 1
    <3> DEFINE g == Gone(admitted, q, i)
               h == Gone(admitted, r, i)
               x == Len(admitted) - Len(q) + 1
    <3>1. IsFiniteSet(g) /\ Cardinality(g) \in Nat /\ IsFiniteSet(h) /\ Cardinality(h) \in Nat
      BY <1>4, <1>5, WindowsFinite
    <3>2. (q # <<>> /\ q[1] < i) \/ Cardinality(g) + a <= N - 1
      BY <2>2 DEF LimiterInv, WindowBound, q
    <3>3. CASE q # <<>> /\ q[1] < i
      <4>1. i \in Nat
        OBVIOUS
      <4>2. g = {} /\ \A k \in 1 .. x : admitted[k] < i
        BY <1>4, <3>3, <4>1, HeadBefore
      <4>3. h \subseteq g \cup {x}
        BY <1>5
      <4>4. \A k \in h : admitted[k] \in i .. i + Interval /\ k \in 1 .. Len(admitted) - Len(r)
        BY DEF Gone
      <4>5. x \in h => x \in 1 .. x
        BY <1>4, <1>5, <4>4 DEF Trims
      <4>6. ASSUME x \in h
            PROVE  FALSE
        <5>1. admitted[x] < i /\ admitted[x] \in i .. i + Interval
          BY <4>2, <4>4, <4>5, <4>6
        <5> QED
          BY <5>1
      <4>7. h = {}
        BY <4>2, <4>3, <4>6
      <4>8. Cardinality(h) = 0
        BY <4>7, FS_EmptySet
      <4> HIDE DEF b, h
      <4> QED
        BY <2>1, <4>8 DEF h
    <3>4. CASE Cardinality(g) + a <= N - 1
      <4>1. h \in SUBSET (g \cup {x})
        BY <1>5
      <4>2. IsFiniteSet(g \cup {x}) /\ Cardinality(g \cup {x}) <= Cardinality(g) + 1
            /\ Cardinality(g \cup {x}) \in Nat
        <5>1. IsFiniteSet(g \cup {x})
              /\ Cardinality(g \cup {x}) = IF x \in g THEN Cardinality(g) ELSE Cardinality(g) + 1
          BY <3>1, FS_AddElement
        <5> HIDE DEF g, x
        <5> QED
          BY <3>1, <5>1
      <4>3. Cardinality(h) <= Cardinality(g \cup {x})
        BY <4>1, <4>2, FS_Subset
      <4> HIDE DEF a, b, g, h, x
      <4>4. Cardinality(h) + b <= N - 1
        BY <1>4, <2>1, <3>1, <3>4, <4>2, <4>3
      <4> QED
        BY <4>4 DEF b, h
    <3> QED
      BY <3>2, <3>3, <3>4
  <2> QED
    BY <1>1, <2>2 DEF WindowBound, N, Gone, r
<1>9. Overshoot'
  BY <1>1 DEF LimiterInv, Overshoot, N, InWindow
<1> QED
  BY <1>3, <1>6, <1>7, <1>8, <1>9 DEF LimiterInv, AnswersAtOnce

\* An enqueue: the thread is one of those that the bound reckons with.
LEMMA EnqueueKeeps ==
    ASSUME LimiterInv, ~ AnswersAtOnce, NEW t \in Threads, Enqueue(t)
    PROVE  LimiterInv'
<1> DEFINE q == intervalQueue
           r == intervalQueue'
           adm == admitted'
<1>1. /\ limiter[t].pc = "enqueue" /\ limiter' = [limiter EXCEPT ![t].pc = "allowed"]
      /\ r = Append(q, now) /\ adm = Append(admitted, now)
      /\ UNCHANGED <<now, lastRefresh, refreshSet>>
  BY DEF Enqueue, At, Goto
<1>2. Moves(t) /\ limiter'[t].pc = "allowed"
  <2>1. "allowed" \in Places
    BY DEF Places
  <2> QED
    BY <1>1, <2>1 DEF Moves, LimiterInv, LimiterTypes
<1>3. LimiterTypes'
  BY <1>1, <1>2 DEF Moves, LimiterInv, LimiterTypes
<1>4. Trims(admitted, q) /\ now \in Nat /\ Len(q) \in Nat /\ Len(admitted) \in Nat
      /\ N \in Nat \ {0} /\ Limit \in Int
      /\ \A k \in 1 .. Len(admitted) : admitted[k] <= now
  BY ThreadsCounted, LimiterAssumption DEF LimiterInv, LimiterTypes, History, Trims
<1>5. /\ Trims(adm, r) /\ Len(r) = Len(q) + 1 /\ Len(adm) = Len(admitted) + 1
      /\ \A k \in 1 .. Len(admitted) : adm[k] = admitted[k]
      /\ adm[Len(admitted) + 1] = now
      /\ q # <<>> => r[1] = q[1]
      /\ \A i : Gone(adm, r, i) = Gone(admitted, q, i)
  BY <1>1, <1>4, TrimsEnqueue
<1>6. r # <<>>
  BY <1>4, <1>5
<1> HIDE DEF q, r, adm
<1>7. \A k \in 1 .. Len(adm) : k \in 1 .. Len(admitted) \/ k = Len(admitted) + 1
  BY <1>4, <1>5
<1>8. History'
  <2>1. \A k \in 1 .. Len(adm) : adm[k] <= now
    BY <1>4, <1>5, <1>7
  <2> QED
    BY <1>1, <1>5, <2>1 DEF History, r, adm
<1>9. Len(r) + Cardinality(ThreadsAt("enqueue")') <= Limit + N - 1
  <2> DEFINE a == Cardinality(ThreadsAt("enqueue"))
             b == Cardinality(ThreadsAt("enqueue")')
  <2>1. a \in Nat /\ b \in Nat /\ b = a - 1
    BY <1>1, <1>2, MovesCounted
  <2>2. Len(q) + a <= Limit + N - 1
    BY DEF LimiterInv, QueueBound, q
  <2> HIDE DEF a, b
  <2>3. Len(r) + b <= Limit + N - 1
    BY <1>4, <1>5, <2>1, <2>2
  <2> QED
    BY <2>3 DEF b
<1>10. ASSUME NEW i \in 0 .. MaxTime, now <= i + Interval
       PROVE  \/ r # <<>> /\ r[1] < i
              \/ Cardinality(Gone(adm, r, i)) + Cardinality(ThreadsAt("dequeue")') <= N - 1
  <2> DEFINE a == Cardinality(ThreadsAt("dequeue"))
             b == Cardinality(ThreadsAt("dequeue")')
             g == Cardinality(Gone(admitted, q, i))
  <2>1. a \in Nat /\ b \in Nat /\ b <= a
    BY <1>2, MovesCounted
  <2>2. g \in Nat /\ Gone(adm, r, i) = Gone(admitted, q, i)
    BY <1>4, <1>5, WindowsFinite
  <2>3. (q # <<>> /\ q[1] < i) \/ g + a <= N - 1
    BY <1>10 DEF LimiterInv, WindowBound, q
  <2>4. CASE q # <<>> /\ q[1] < i
    BY <1>5, <1>6, <2>4
  <2>5. CASE g + a <= N - 1
    <3> HIDE DEF a, b, g
    <3>1. g + b <= N - 1
      BY <1>4, <2>1, <2>2, <2>5
    <3> QED
      BY <2>2, <3>1 DEF b, g
  <2> QED
    BY <2>3, <2>4, <2>5
<1>11. ASSUME NEW i \in 0 .. MaxTime
       PROVE  Cardinality(InWindow(adm, i)) <= Limit + 2 * (N - 1)
  <2>1. CASE now <= i + Interval
    <3> DEFINE w == Cardinality(InWindow(adm, i))
               g == Cardinality(Gone(adm, r, i))
               e == Cardinality(ThreadsAt("enqueue")')
               b == Cardinality(ThreadsAt("dequeue")')
    <3>1. w \in Nat /\ g \in Nat /\ w <= g + Len(r)
      BY <1>5, WindowsFinite, WindowSplits
    <3>2. e \in Nat /\ b \in Nat
      BY <1>2, MovesCounted
    <3>3. g <= N - 1
      <4>1. CASE r # <<>> /\ r[1] < i
        <5>1. i \in Nat
          OBVIOUS
        <5>2. Gone(adm, r, i) = {}
          BY <1>5, <4>1, <5>1, HeadBefore
        <5>3. g = 0
          BY <5>2, FS_EmptySet
        <5> HIDE DEF g
        <5> QED
          BY <1>4, <5>3
      <4>2. CASE g + b <= N - 1
        <5> HIDE DEF g, b
        <5> QED
          BY <1>4, <3>1, <3>2, <4>2
      <4> QED
        BY <1>10, <2>1, <4>1, <4>2
    <3> HIDE DEF w, g, e, b
    <3>4. Len(r) + e <= Limit + N - 1
      BY <1>9 DEF e
    <3>5. w <= Limit + 2 * (N - 1)
      BY <1>4, <1>5, <3>1, <3>2, <3>3, <3>4
    <3> QED
      BY <3>5 DEF w
  <2>2. CASE ~ (now <= i + Interval)
    <3>1. now \notin i .. i + Interval
      BY <1>4, <2>2, LimiterAssumption
    <3>2. InWindow(adm, i) = InWindow(admitted, i)
      BY <1>4, <1>5, <1>7, <3>1 DEF InWindow
    <3> QED
      BY <3>2 DEF LimiterInv, Overshoot
  <2> QED
    BY <2>1, <2>2
<1>12. QueueBound'
  BY <1>9 DEF QueueBound, N, r
<1>13. WindowBound'
  BY <1>1, <1>10 DEF WindowBound, N, Gone, r, adm
<1>14. Overshoot'
  BY <1>11 DEF Overshoot, N, InWindow, adm
<1> QED
  BY <1>3, <1>8, <1>12, <1>13, <1>14 DEF LimiterInv, AnswersAtOnce

\* Time goes by.
LEMMA TickKeeps ==
    ASSUME LimiterInv, Tick
    PROVE  LimiterInv'
<1>1. now' = now + 1 /\ now < MaxTime
      /\ UNCHANGED <<intervalQueue, lastRefresh, refreshSet, limiter, admitted>>
  BY DEF Tick
<1>2. now \in Nat /\ MaxTime \in Nat /\ now <= now'
  BY <1>1, LimiterAssumption DEF LimiterInv, LimiterTypes
<1>3. LimiterTypes'
  <2>1. now' \in 0 .. MaxTime /\ lastRefresh' \in 0 .. now'
    BY <1>1, <1>2 DEF LimiterInv, LimiterTypes
  <2>2. \A t \in Threads : limiter[t].previous <= now + 1 /\ limiter[t].started <= now + 1
    <3>1. \A t \in Threads : /\ limiter[t].previous <= now /\ limiter[t].started <= now
                             /\ limiter[t].previous \in Nat /\ limiter[t].started \in Nat
      BY DEF LimiterInv, LimiterTypes
    <3> QED
      BY <1>2, <3>1
  <2> QED
    BY <1>1, <2>1, <2>2 DEF LimiterInv, LimiterTypes
<1>4. History'
  <2>1. \A k \in 1 .. Len(admitted) : admitted[k] \in Nat /\ admitted[k] <= now
    BY DEF LimiterInv, History, Trims
  <2> QED
    BY <1>1, <1>2, <2>1 DEF LimiterInv, History
<1>5. ~ AnswersAtOnce => WindowBound'
  <2>1. \A i \in 0 .. MaxTime : now + 1 <= i + Interval => now <= i + Interval
    BY <1>2, LimiterAssumption
  <2>2. ~ AnswersAtOnce => WindowBound
    BY DEF LimiterInv
  <2> QED
    BY <1>1, <2>1, <2>2 DEF WindowBound, N, Gone, ThreadsAt
<1>6. ~ AnswersAtOnce => QueueBound' /\ Overshoot'
  BY <1>1 DEF LimiterInv, QueueBound, Overshoot, N, InWindow, ThreadsAt
<1>7. AnswersAtOnce => Unused'
  BY <1>1 DEF LimiterInv, Unused
<1> QED
  BY <1>3, <1>4, <1>5, <1>6, <1>7 DEF LimiterInv, AnswersAtOnce

\* Each step of Allowed keeps the bounds.
LEMMA LimiterKeeps ==
    ASSUME LimiterInv, NEW t \in Threads, AllowedCall(t) \/ LimiterStep(t) \/ AllowedReturns(t)
    PROVE  LimiterInv'
<1>1. ~ AnswersAtOnce
  <2> SUFFICES ASSUME AnswersAtOnce
               PROVE  FALSE
    OBVIOUS
  <2>1. limiter[t].pc = "out"
    BY DEF LimiterInv, Unused
  <2> QED
    BY <2>1 DEF AllowedCall, LimiterStep, WaitReturns, Compare, RefreshBegins, Peek, Dequeue,
                RefreshEnds, Count, Enqueue, AllowedReturns, At
<1>2. /\ limiter \in [Threads -> [pc : Places, previous : Nat, started : Nat]]
      /\ now \in Nat /\ lastRefresh \in 0 .. now /\ refreshSet \in BOOLEAN
      /\ limiter[t].previous <= now /\ limiter[t].started <= now
  BY LimiterAssumption DEF LimiterInv, LimiterTypes
<1>3. CASE AllowedCall(t)
  <2>1. limiter' = [limiter EXCEPT ![t] = [pc |-> "wait", previous |-> lastRefresh, started |-> 0]]
        /\ UNCHANGED <<now, intervalQueue, lastRefresh, refreshSet, admitted>>
    BY <1>3 DEF AllowedCall
  <2>2. Moves(t) /\ limiter'[t].pc = "wait"
    BY <1>2, <2>1 DEF Moves, Places
  <2> QED
    BY <1>1, <1>2, <2>1, <2>2, MovesKeep
<1>4. CASE WaitReturns(t)
  <2>1. limiter' = [limiter EXCEPT ![t].pc = "compare"]
        /\ UNCHANGED <<now, intervalQueue, lastRefresh, refreshSet, admitted>>
    BY <1>4 DEF WaitReturns, Goto
  <2>2. Moves(t) /\ limiter'[t].pc = "compare"
    BY <1>2, <2>1 DEF Moves, Places
  <2> QED
    BY <1>1, <1>2, <2>1, <2>2, MovesKeep
<1>5. CASE Compare(t)
  <2>1. PICK pc \in {"count", "reset"} :
          limiter' = [limiter EXCEPT ![t] = [pc |-> pc, previous |-> 0, started |-> 0]]
    BY <1>5 DEF Compare
  <2>2. UNCHANGED <<now, intervalQueue, lastRefresh, refreshSet, admitted>>
    BY <1>5 DEF Compare
  <2>3. Moves(t) /\ limiter'[t].pc = pc
    BY <1>2, <2>1 DEF Moves, Places
  <2> QED
    BY <1>1, <1>2, <2>2, <2>3, MovesKeep
<1>6. CASE RefreshBegins(t)
  <2>1. /\ refreshSet' = FALSE /\ lastRefresh' = now
        /\ UNCHANGED <<now, intervalQueue, admitted>>
    BY <1>6 DEF RefreshBegins
  <2> DEFINE m == [pc |-> "peek", previous |-> limiter[t].previous, started |-> now]
  <2>2. Moves(t) /\ limiter'[t].pc = "peek"
    <3>1. limiter' = [limiter EXCEPT ![t] = m]
      BY <1>6 DEF RefreshBegins
    <3>2. m \in [pc : Places, previous : Nat, started : Nat]
          /\ m.pc = "peek" /\ m.previous <= now /\ m.started <= now
      BY <1>2 DEF Places
    <3> HIDE DEF m
    <3> QED
      BY <1>2, <3>1, <3>2 DEF Moves
  <2>3. lastRefresh' \in 0 .. now
    BY <1>2, <2>1
  <2>4. refreshSet' \in BOOLEAN
    BY <2>1
  <2> QED
    BY <1>1, <2>1, <2>2, <2>3, <2>4, MovesKeep
<1>7. CASE Peek(t)
  <2>1. UNCHANGED <<now, intervalQueue, lastRefresh, refreshSet, admitted>>
    BY <1>7 DEF Peek
  <2>2. CASE Stale(t)
    <3>1. limiter' = [limiter EXCEPT ![t].pc = "dequeue"]
      BY <1>7, <2>2 DEF Peek
    <3>2. Moves(t) /\ limiter'[t].pc = "dequeue"
      BY <1>2, <3>1 DEF Moves, Places
    <3> QED
      BY <1>1, <1>2, <2>1, <2>2, <3>2, MovesKeep
  <2>3. CASE ~ Stale(t)
    <3>1. [Outside EXCEPT !.pc = "set"] = [pc |-> "set", previous |-> 0, started |-> 0]
      BY DEF Outside
    <3>2. limiter' = [limiter EXCEPT ![t] = [Outside EXCEPT !.pc = "set"]]
      BY <1>7, <2>3 DEF Peek
    <3>3. Moves(t) /\ limiter'[t].pc = "set"
      BY <1>2, <3>1, <3>2 DEF Moves, Places
    <3> QED
      BY <1>1, <1>2, <2>1, <3>3, MovesKeep
  <2> QED
    BY <2>2, <2>3
<1>8. CASE Dequeue(t)
  BY <1>1, <1>8, DequeueKeeps
<1>9. CASE RefreshEnds(t)
  <2>1. limiter' = [limiter EXCEPT ![t].pc = "count"] /\ refreshSet' = TRUE
        /\ UNCHANGED <<now, intervalQueue, lastRefresh, admitted>>
    BY <1>9 DEF RefreshEnds, Goto
  <2>2. Moves(t) /\ limiter'[t].pc = "count"
    BY <1>2, <2>1 DEF Moves, Places
  <2> QED
    BY <1>1, <1>2, <2>1, <2>2, MovesKeep
<1>10. CASE Count(t)
  <2>1. UNCHANGED <<now, intervalQueue, lastRefresh, refreshSet, admitted>>
    BY <1>10 DEF Count
  <2>2. PICK pc \in {"denied", "enqueue"} : limiter' = [limiter EXCEPT ![t].pc = pc]
                                            /\ (pc = "enqueue" => ~ Full)
    BY <1>10 DEF Count, Goto
  <2>3. Moves(t) /\ limiter'[t].pc = pc
    BY <1>2, <2>2 DEF Moves, Places
  <2>4. pc = "enqueue" => Len(intervalQueue) < Limit
    <3>1. Len(intervalQueue) \in Nat /\ Limit \in Int
      BY LimiterAssumption DEF LimiterInv, History, Trims
    <3> QED
      BY <2>2, <3>1 DEF Full
  <2> QED
    BY <1>1, <1>2, <2>1, <2>3, <2>4, MovesKeep
<1>11. CASE Enqueue(t)
  BY <1>1, <1>11, EnqueueKeeps
<1>12. CASE AllowedReturns(t)
  <2>1. limiter' = [limiter EXCEPT ![t] = [pc |-> "out", previous |-> 0, started |-> 0]]
        /\ UNCHANGED <<now, intervalQueue, lastRefresh, refreshSet, admitted>>
    BY <1>12 DEF AllowedReturns, Outside
  <2>2. Moves(t) /\ limiter'[t].pc = "out"
    BY <1>2, <2>1 DEF Moves, Places
  <2> QED
    BY <1>1, <1>2, <2>1, <2>2, MovesKeep
<1> QED
  BY <1>3, <1>4, <1>5, <1>6, <1>7, <1>8, <1>9, <1>10, <1>11, <1>12 DEF LimiterStep

\* What the sampler does by itself leaves the limiter alone.
LEMMA LimiterUnmoved == ASSUME LimiterInv, UNCHANGED limiterVars PROVE LimiterInv'
  BY DEF limiterVars, LimiterInv, LimiterTypes, History, Unused, QueueBound, WindowBound,
         Overshoot, AnswersAtOnce, Trims, InWindow, Gone, ThreadsAt, N

\* One step of the sampler is one step of the limiter, of the clock, or none.
LEMMA SamplerStepsLimiter == LimiterInv /\ [Next]_vars => LimiterInv'
<1> SUFFICES ASSUME LimiterInv, [Next]_vars
             PROVE  LimiterInv'
  OBVIOUS
<1>1. CASE UNCHANGED limiterVars
  BY <1>1, LimiterUnmoved
<1>2. ASSUME NEW t \in Threads, AllowedCall(t) \/ LimiterStep(t) \/ AllowedReturns(t)
      PROVE  LimiterInv'
  BY <1>2, LimiterKeeps
<1>3. CASE Tick
  BY <1>3, TickKeeps
<1>4. \/ UNCHANGED limiterVars \/ Tick
      \/ \E t \in Threads : AllowedCall(t) \/ LimiterStep(t) \/ AllowedReturns(t)
  <2>1. ASSUME NEW t \in Threads, Match(t)
        PROVE  UNCHANGED limiterVars \/ AllowedCall(t)
    BY <2>1 DEF Match, ApplyRate, Advance
  <2>2. ASSUME NEW t \in Threads, TryRule(t)
        PROVE  UNCHANGED limiterVars
    BY <2>2 DEF TryRule, Advance
  <2>3. ASSUME NEW t \in Threads, InLimiter(t) \/ LimiterAnswers(t)
        PROVE  LimiterStep(t) \/ AllowedReturns(t)
    BY <2>3 DEF InLimiter, LimiterAnswers
  <2>4. ASSUME NEW r \in Rules, RegisterRule(r)
        PROVE  UNCHANGED limiterVars
    BY <2>4 DEF RegisterRule
  <2>5. ASSUME NEW t \in Threads, NEW s \in Spans, GetSamplingPriority(t, s)
        PROVE  UNCHANGED limiterVars
    BY <2>5 DEF GetSamplingPriority
  <2>6. CASE UNCHANGED vars
    BY <2>6 DEF vars
  <2> QED
    BY <2>1, <2>2, <2>3, <2>4, <2>5, <2>6 DEF Next, ClockTicks, Finished
<1> QED
  BY <1>1, <1>2, <1>3, <1>4

\* The limiter's bounds hold in the sampler.
THEOREM LimiterHolds == Spec => []LimiterInv
<1>1. Init => LimiterInv
  BY LimiterStarts DEF Init
<1>2. LimiterInv /\ [Next]_vars => LimiterInv'
  BY SamplerStepsLimiter
<1> QED
  BY <1>1, <1>2, PTL DEF Spec

\* However the refreshes of different threads interleave, an interval lets
\* through the limit and two traces for each other thread at most
\* (RateLimiter.cs, lines 56 to 64 and 130 to 133).
THEOREM OvershootStays == Spec => []OvershootBounded
<1>1. LimiterInv => OvershootBounded
  <2> SUFFICES ASSUME LimiterInv, NEW i \in 0 .. MaxTime
               PROVE  AdmittedFrom(i) <= IF AnswersAtOnce THEN 0
                                         ELSE Limit + 2 * (Cardinality(Threads) - 1)
    BY DEF OvershootBounded
  <2>1. admitted \in Seq(Nat)
    BY DEF LimiterInv, History, Trims
  <2>2. InWindow(admitted, i) = {k \in DOMAIN admitted : admitted[k] \in i .. i + Interval}
    BY <2>1 DEF InWindow
  <2>3. CASE AnswersAtOnce
    <3>1. InWindow(admitted, i) = {}
      BY <2>3 DEF LimiterInv, Unused, InWindow
    <3>2. AdmittedFrom(i) = 0
      BY <2>2, <3>1, FS_EmptySet DEF AdmittedFrom
    <3> QED
      BY <2>3, <3>2
  <2>4. CASE ~ AnswersAtOnce
    BY <2>2, <2>4 DEF LimiterInv, Overshoot, AdmittedFrom, N
  <2> QED
    BY <2>3, <2>4
<1> QED
  BY <1>1, LimiterHolds, PTL

-----------------------------------------------------------------------------
(***************************************************************************)
(* The list of rules, and the calls that go through it.                    *)
(***************************************************************************)

\* Every rule is in the list once and was registered; the default rule, of the
\* lowest priority, stays the last.
RulesInv ==
    /\ rules \in Seq(Rules) /\ order \in Seq(Rules) /\ Len(rules) > 0
    /\ \A i, j \in 1 .. Len(rules) : rules[i] = rules[j] => i = j
    /\ \A i \in 1 .. Len(rules) : \E k \in 1 .. Len(order) : order[k] = rules[i]
    /\ rules[Len(rules)] = Default
    /\ RulesInOrder

Idle == [pc : {"idle"}, left : Nat]
Busy == [pc : {"rule", "match", "limiter"}, left : Nat, span : Spans, rule : Nat]

\* A call is at a rule of the list; the rules before it that match its span have
\* run out of time.
Passed(s, n) == \A i \in 1 .. n - 1 : Eligible(rules[i], s) => rules[i] \in poisoned
Found(s, n) == Eligible(rules[n], s) \/ rules[n] \in poisoned

CallAt(t) ==
    /\ Ready /\ call[t].rule \in 1 .. Len(rules)
    /\ Passed(Span(t), call[t].rule)
    /\ call[t].pc = "limiter" => Found(Span(t), call[t].rule)

CallInv ==
    /\ poisoned \subseteq CustomRules
    /\ call \in [Threads -> Idle \cup Busy]
    /\ \A t \in Threads : call[t].pc # "idle" => CallAt(t)

\* So is every span that was decided.
Decisions == Spans \X Rules \X {"AutoKeep", "AutoReject"}

DecidedAt(d) == \E n \in 1 .. Len(rules) : rules[n] = d[2] /\ Passed(d[1], n) /\ Found(d[1], n)

DecidedInv ==
    /\ decided \subseteq Decisions
    /\ decided # {} => Ready
    /\ \A d \in decided : DecidedAt(d)

SamplerInv == RulesInv /\ CallInv /\ DecidedInv

\* The limiter is asked in a call that waits for its answer.
Asking == \A t \in Threads : limiter[t].pc # "out" => call[t].pc = "limiter"

\* A rule goes before the first one of a lower priority: there is one, since the
\* default rule is in the list (RuleBasedSampler.cs, lines 62 to 66).
LEMMA InsertedBefore ==
    ASSUME RulesInv, NEW r \in Rules \ {Default}
    PROVE  \E i \in 1 .. Len(rules) :
              /\ Inserted(r) = InsertAt(rules, i, r)
              /\ Priority(rules[i]) < Priority(r)
              /\ \A j \in 1 .. i - 1 : Priority(rules[j]) >= Priority(r)
<1> DEFINE I == {i \in 1 .. Len(rules) : Priority(rules[i]) < Priority(r)}
<1>1. Len(rules) \in Nat /\ Len(rules) \in I
  <2>1. Len(rules) \in Nat /\ Len(rules) \in 1 .. Len(rules) /\ rules[Len(rules)] = Default
    BY DEF RulesInv
  <2>2. Priority(Default) = -1 /\ Priority(r) \in {0, 1}
    BY SamplerAssumption DEF Priority, Rules
  <2> QED
    BY <2>1, <2>2
<1>2. PICK i \in I : \A j \in I : i <= j
  <2>1. I \subseteq Nat /\ I # {}
    BY <1>1
  <2> HIDE DEF I
  <2> DEFINE R == {ss \in Nat \X Nat : ss[1] < ss[2]}
  <2>2. IsWellFoundedOn(R, Nat)
    BY NatLessThanWellFounded, Zenon DEF OpToRel
  <2>3. PICK i \in I : \A j \in I : ~ (<<j, i>> \in R)
    <3> HIDE DEF R
    <3> QED
      BY <2>1, <2>2, WFMin
  <2>4. ASSUME NEW j \in I
        PROVE  i <= j
    <3>1. i \in Nat /\ j \in Nat
      BY <2>1
    <3>2. j < i => <<j, i>> \in R
      BY <3>1
    <3> QED
      BY <2>3, <3>1, <3>2
  <2> QED
    BY <2>4
<1>3. Min(I) \in I /\ \A j \in I : Min(I) <= j
  BY <1>2 DEF Min
<1>4. Inserted(r) = InsertAt(rules, Min(I), r)
  <2>1. SelectInSeq(rules, LAMBDA x : Priority(x) < Priority(r)) = IF I # {} THEN Min(I) ELSE 0
    BY DEF SelectInSeq
  <2>2. Min(I) # 0 /\ I # {}
    BY <1>1, <1>3
  <2> QED
    BY <2>1, <2>2 DEF Inserted
<1>5. ASSUME NEW j \in 1 .. Min(I) - 1
      PROVE  Priority(rules[j]) >= Priority(r)
  <2>1. j \in 1 .. Len(rules) /\ j \notin I
    BY <1>1, <1>3
  <2>2. Priority(rules[j]) \in Int /\ Priority(r) \in Int
    BY DEF Priority
  <2> QED
    BY <2>1, <2>2
<1> QED
  BY <1>3, <1>4, <1>5

\* What it does to the list.
LEMMA InsertedList ==
    ASSUME RulesInv, NEW r \in Rules \ {Default}, NEW i \in 1 .. Len(rules),
           NEW s, s = InsertAt(rules, i, r)
    PROVE  /\ s \in Seq(Rules) /\ Len(s) = Len(rules) + 1 /\ s[i] = r
           /\ \A j \in 1 .. i - 1 : s[j] = rules[j]
           /\ \A j \in i + 1 .. Len(rules) + 1 : s[j] = rules[j - 1]
<1> DEFINE front == SubSeq(rules, 1, i - 1)
           back  == SubSeq(rules, i, Len(rules))
<1>1. rules \in Seq(Rules) /\ Len(rules) \in Nat /\ i \in Nat /\ r \in Rules /\ i >= 1 /\ i <= Len(rules)
  BY DEF RulesInv
<1>2. /\ front \in Seq(Rules) /\ Len(front) = i - 1
      /\ \A j \in 1 .. i - 1 : front[j] = rules[j]
  BY <1>1
<1>3. /\ back \in Seq(Rules) /\ Len(back) = Len(rules) - i + 1
      /\ \A j \in 1 .. Len(rules) - i + 1 : back[j] = rules[i + j - 1]
  BY <1>1
<1>4. s = front \o <<r>> \o back
  BY DEF InsertAt
<1> HIDE DEF front, back
<1> DEFINE head == front \o <<r>>
<1>5. head \in Seq(Rules) /\ Len(head) = i /\ head[i] = r /\ \A j \in 1 .. i - 1 : head[j] = front[j]
  BY <1>1, <1>2
<1>6. s = head \o back
  BY <1>4
<1> HIDE DEF head
<1>7. s \in Seq(Rules) /\ Len(s) = Len(rules) + 1
  <2>1. head \o back \in Seq(Rules) /\ Len(head \o back) = Len(head) + Len(back)
    BY <1>3, <1>5, ConcatProperties
  <2>2. Len(head) + Len(back) = Len(rules) + 1
    BY <1>1, <1>3, <1>5
  <2> QED
    BY <1>6, <2>1, <2>2
<1>8. ASSUME NEW j \in 1 .. i
      PROVE  s[j] = head[j]
  <2>1. j \in 1 .. Len(head) + Len(back) /\ j <= Len(head)
    BY <1>1, <1>3, <1>5
  <2>2. (head \o back)[j] = head[j]
    BY <1>3, <1>5, <2>1, ConcatProperties
  <2> QED
    BY <1>6, <2>2
<1>9. ASSUME NEW j \in i + 1 .. Len(rules) + 1
      PROVE  s[j] = rules[j - 1]
  <2>1. j - i \in 1 .. Len(back) /\ j \in 1 .. Len(head) + Len(back) /\ ~ (j <= Len(head))
    BY <1>1, <1>3, <1>5
  <2>2. s[j] = back[j - i]
    <3>1. \A k \in 1 .. Len(head) + Len(back) :
             (head \o back)[k] = IF k <= Len(head) THEN head[k] ELSE back[k - Len(head)]
      BY <1>3, <1>5, ConcatProperties
    <3>2. (head \o back)[j] = back[j - Len(head)]
      BY <2>1, <3>1
    <3> QED
      BY <1>5, <1>6, <3>2
  <2>3. back[j - i] = rules[j - 1]
    <3>1. j - i \in 1 .. Len(rules) - i + 1
      BY <1>3, <2>1
    <3>2. back[j - i] = rules[i + (j - i) - 1]
      BY <1>3, <3>1
    <3>3. i + (j - i) - 1 = j - 1
      BY <1>1
    <3> QED
      BY <3>2, <3>3
  <2> QED
    BY <2>2, <2>3
<1> QED
  BY <1>1, <1>2, <1>5, <1>7, <1>8, <1>9

\* Registering a rule keeps the list in order.
LEMMA RegisterKeeps ==
    ASSUME RulesInv, NEW r \in Rules, RegisterRule(r)
    PROVE  RulesInv'
<1>1. /\ rules \in Seq(Rules) /\ order \in Seq(Rules) /\ Len(rules) \in Nat /\ Len(order) \in Nat
      /\ Len(rules) \in 1 .. Len(rules) /\ rules[Len(rules)] = Default
      /\ DOMAIN rules = 1 .. Len(rules) /\ DOMAIN order = 1 .. Len(order)
  BY DEF RulesInv
<1>2. /\ \A j \in 1 .. Len(rules) : rules[j] # r
      /\ rules' = Inserted(r) /\ order' = Append(order, r)
  BY DEF RegisterRule, Contains
<1>3. r \in Rules \ {Default}
  BY <1>1, <1>2
<1>4. PICK i \in 1 .. Len(rules) :
         /\ rules' = InsertAt(rules, i, r)
         /\ Priority(rules[i]) < Priority(r)
         /\ \A j \in 1 .. i - 1 : Priority(rules[j]) >= Priority(r)
  BY <1>2, <1>3, InsertedBefore
<1>5. /\ rules' \in Seq(Rules) /\ Len(rules') = Len(rules) + 1 /\ rules'[i] = r
      /\ \A j \in 1 .. i - 1 : rules'[j] = rules[j]
      /\ \A j \in i + 1 .. Len(rules) + 1 : rules'[j] = rules[j - 1]
  BY <1>3, <1>4, InsertedList
<1>6. /\ order' \in Seq(Rules) /\ Len(order') = Len(order) + 1 /\ order'[Len(order) + 1] = r
      /\ \A k \in 1 .. Len(order) : order'[k] = order[k]
  BY <1>1, <1>2, <1>3
<1> DEFINE old(j) == IF j < i THEN j ELSE j - 1
<1>7. \A j \in (1 .. Len(rules) + 1) \ {i} : old(j) \in 1 .. Len(rules) /\ rules'[j] = rules[old(j)]
  BY <1>1, <1>5
<1>8. DOMAIN rules' = 1 .. Len(rules) + 1 /\ DOMAIN order' = 1 .. Len(order) + 1
  BY <1>1, <1>5, <1>6
<1>9. ASSUME NEW a \in 1 .. Len(rules) + 1, NEW b \in 1 .. Len(rules) + 1, rules'[a] = rules'[b]
      PROVE  a = b
  <2>1. CASE a = i \/ b = i
    BY <1>2, <1>5, <1>7, <1>9, <2>1
  <2>2. CASE a # i /\ b # i
    <3>1. rules[old(a)] = rules[old(b)] /\ old(a) \in 1 .. Len(rules) /\ old(b) \in 1 .. Len(rules)
      BY <1>7, <1>9, <2>2
    <3>2. old(a) = old(b)
      BY <3>1 DEF RulesInv
    <3> QED
      BY <2>2, <3>2
  <2> QED
    BY <2>1, <2>2
<1>10. ASSUME NEW a \in 1 .. Len(rules) + 1
       PROVE  \E k \in 1 .. Len(order) + 1 : order'[k] = rules'[a]
  <2>1. CASE a = i
    BY <1>1, <1>5, <1>6, <2>1
  <2>2. CASE a # i
    <3>1. PICK k \in 1 .. Len(order) : order[k] = rules[old(a)]
      BY <1>7, <2>2 DEF RulesInv
    <3> QED
      BY <1>1, <1>6, <1>7, <2>2, <3>1
  <2> QED
    BY <2>1, <2>2
<1>11. rules'[Len(rules')] = Default
  BY <1>1, <1>5
<1> DEFINE Ordered(a, b) ==
              \/ Priority(rules'[a]) > Priority(rules'[b])
              \/ /\ Priority(rules'[a]) = Priority(rules'[b])
                 /\ \E k, l \in DOMAIN order' :
                       order'[k] = rules'[a] /\ order'[l] = rules'[b] /\ k < l
<1>12. ASSUME NEW a \in 1 .. Len(rules) + 1, NEW b \in 1 .. Len(rules) + 1, a < b
       PROVE  Ordered(a, b)
  <2>1. CASE a # i /\ b # i
    <3>1. /\ old(a) \in DOMAIN rules /\ old(b) \in DOMAIN rules /\ old(a) < old(b)
          /\ rules'[a] = rules[old(a)] /\ rules'[b] = rules[old(b)]
      BY <1>1, <1>7, <1>12, <2>1
    <3> HIDE DEF old
    <3>2. \/ Priority(rules[old(a)]) > Priority(rules[old(b)])
          \/ /\ Priority(rules[old(a)]) = Priority(rules[old(b)])
             /\ \E k, l \in DOMAIN order :
                   order[k] = rules[old(a)] /\ order[l] = rules[old(b)] /\ k < l
      BY <3>1 DEF RulesInv, RulesInOrder
    <3> QED
      BY <1>1, <1>6, <1>8, <3>1, <3>2
  <2>2. CASE a = i
    <3>1. rules'[a] = r /\ rules'[b] = rules[b - 1] /\ b - 1 \in 1 .. Len(rules) /\ b - 1 >= i
      BY <1>1, <1>5, <1>12, <2>2
    <3>2. Priority(rules[i]) >= Priority(rules[b - 1])
      <4>1. CASE b - 1 = i
        BY <4>1 DEF Priority
      <4>2. CASE i < b - 1
        <5> DEFINE c == b - 1
        <5>1. i \in DOMAIN rules /\ c \in DOMAIN rules /\ i < c
          BY <1>1, <3>1, <4>2
        <5> HIDE DEF c
        <5>2. Priority(rules[i]) >= Priority(rules[c])
          BY <5>1 DEF RulesInv, RulesInOrder, Priority
        <5> QED
          BY <5>2 DEF c
      <4> QED
        BY <3>1, <4>1, <4>2
    <3> QED
      BY <1>4, <3>1, <3>2 DEF Priority
  <2>3. CASE b = i
    <3>1. a \in 1 .. i - 1 /\ rules'[b] = r /\ rules'[a] = rules[a] /\ a \in 1 .. Len(rules)
      BY <1>1, <1>5, <1>12, <2>3
    <3>2. Priority(rules[a]) >= Priority(r)
      BY <1>4, <3>1
    <3>3. PICK k \in 1 .. Len(order) : order[k] = rules[a]
      BY <3>1 DEF RulesInv
    <3>4. /\ k \in DOMAIN order' /\ Len(order) + 1 \in DOMAIN order' /\ k < Len(order) + 1
          /\ order'[k] = rules'[a] /\ order'[Len(order) + 1] = rules'[b]
      BY <1>1, <1>6, <1>8, <3>1, <3>3
    <3>5. Priority(rules'[a]) > Priority(rules'[b]) \/ Priority(rules'[a]) = Priority(rules'[b])
      BY <3>1, <3>2 DEF Priority
    <3> QED
      BY <3>4, <3>5
  <2> QED
    BY <2>1, <2>2, <2>3
<1>13. RulesInOrder'
  BY <1>8, <1>12 DEF RulesInOrder
<1> QED
  BY <1>1, <1>5, <1>6, <1>9, <1>10, <1>11, <1>13 DEF RulesInv

\* What a call is while it goes through the list, and that it is at a rule: the
\* default rule, behind which there is none, matches every span and is never
\* poisoned.
LEMMA BusyCall ==
    ASSUME SamplerInv, NEW t \in Threads, call[t].pc # "idle"
    PROVE  /\ call[t] = [pc |-> call[t].pc, left |-> call[t].left, span |-> call[t].span,
                         rule |-> call[t].rule]
           /\ call[t] \in Busy /\ Span(t) \in Spans /\ Rule(t) \in Rules
           /\ CallAt(t) /\ Ready /\ Len(rules) \in Nat
           /\ Rule(t) \in CustomRules => call[t].rule + 1 \in 1 .. Len(rules)
<1>1. call[t] \in Idle \cup Busy /\ CallAt(t)
  BY DEF SamplerInv, CallInv
<1>2. call[t] \in Busy
  BY <1>1 DEF Idle
<1>3. rules \in Seq(Rules) /\ Len(rules) \in Nat /\ rules[Len(rules)] = Default
  BY DEF SamplerInv, RulesInv
<1>4. call[t].rule \in 1 .. Len(rules) /\ Ready
  BY <1>1 DEF CallAt
<1>5. Rule(t) \in CustomRules => call[t].rule # Len(rules)
  BY <1>3, SamplerAssumption DEF Rule
<1>6. Rule(t) \in Rules
  BY <1>3, <1>4 DEF Rule
<1> QED
  BY <1>1, <1>2, <1>3, <1>4, <1>5, <1>6 DEF Busy, Span

\* A step of one call, in which no rule is forgotten to have run out of time.
CallMoves(t) ==
    /\ UNCHANGED <<rules, order>>
    /\ poisoned \subseteq poisoned' /\ poisoned' \subseteq CustomRules
    /\ call' \in [Threads -> Idle \cup Busy]
    /\ \A u \in Threads \ {t} : call'[u] = call[u]

\* What held of the other calls and of the spans decided holds after it.
LEMMA CallsKeep ==
    ASSUME SamplerInv, Ready, NEW t \in Threads, CallMoves(t),
           call'[t].pc # "idle" => CallAt(t)',
           decided' \subseteq Decisions,
           \A d \in decided' \ decided : DecidedAt(d)'
    PROVE  SamplerInv'
<1>1. RulesInv' /\ Ready'
  BY DEF SamplerInv, RulesInv, RulesInOrder, CallMoves, Ready
<1>2. \A s, n : (Passed(s, n) => Passed(s, n)') /\ (Found(s, n) => Found(s, n)')
  BY DEF CallMoves, Passed, Found
<1>3. ASSUME NEW u \in Threads, call'[u].pc # "idle"
      PROVE  CallAt(u)'
  <2>1. CASE u = t
    BY <1>3, <2>1
  <2>2. CASE u # t
    <3>1. call'[u] = call[u] /\ CallAt(u)
      BY <1>3, <2>2 DEF CallMoves, SamplerInv, CallInv
    <3>2. rules' = rules /\ Span(u)' = Span(u) /\ call'[u].rule = call[u].rule
      BY <3>1 DEF CallMoves, Span
    <3>3. Passed(Span(u), call[u].rule)'
      BY <1>2, <3>1, <3>2 DEF CallAt
    <3>4. call[u].pc = "limiter" => Found(Span(u), call[u].rule)'
      BY <1>2, <3>1, <3>2 DEF CallAt
    <3> QED
      BY <1>1, <3>1, <3>2, <3>3, <3>4 DEF CallAt
  <2> QED
    BY <2>1, <2>2
<1>4. CallInv'
  BY <1>3 DEF CallInv, CallMoves
<1>5. ASSUME NEW d \in decided'
      PROVE  DecidedAt(d)'
  <2>1. CASE d \in decided
    <3>1. PICK n \in 1 .. Len(rules) : rules[n] = d[2] /\ Passed(d[1], n) /\ Found(d[1], n)
      BY <2>1 DEF SamplerInv, DecidedInv, DecidedAt
    <3>2. rules' = rules /\ Passed(d[1], n)' /\ Found(d[1], n)'
      BY <1>2, <3>1 DEF CallMoves
    <3> QED
      BY <3>1, <3>2 DEF DecidedAt
  <2>2. CASE d \notin decided
    BY <2>2
  <2> QED
    BY <2>1, <2>2
<1>6. DecidedInv'
  BY <1>1, <1>5 DEF DecidedInv, Decisions
<1> QED
  BY <1>1, <1>4, <1>6 DEF SamplerInv

\* A call begins at the first rule.
LEMMA StartKeeps ==
    ASSUME SamplerInv, NEW t \in Threads, NEW s \in Spans, GetSamplingPriority(t, s)
    PROVE  SamplerInv'
<1> DEFINE c == [pc |-> "rule", left |-> call[t].left - 1, span |-> s, rule |-> 1]
<1>1. /\ call[t] \in Idle \cup Busy /\ call[t].pc = "idle" /\ call[t].left > 0 /\ Ready
      /\ call' = [call EXCEPT ![t] = c] /\ UNCHANGED <<rules, order, poisoned, decided>>
      /\ call \in [Threads -> Idle \cup Busy] /\ poisoned \subseteq CustomRules
  BY DEF GetSamplingPriority, SamplerInv, CallInv
<1>2. call[t].left - 1 \in Nat
  <2>1. call[t] \in Idle
    BY <1>1 DEF Busy
  <2> QED
    BY <1>1, <2>1 DEF Idle
<1>3. c \in Busy /\ call'[t] = c
  BY <1>1, <1>2 DEF Busy
<1>4. CallMoves(t)
  <2> HIDE DEF c
  <2> QED
    BY <1>1, <1>3 DEF CallMoves
<1>5. Len(rules) \in Nat /\ Len(rules) > 0 /\ Ready'
  BY <1>1 DEF SamplerInv, RulesInv, Ready
<1>6. CallAt(t)'
  BY <1>1, <1>3, <1>5 DEF CallAt, Passed, Span
<1>7. decided' \subseteq Decisions /\ decided' = decided
  BY <1>1 DEF SamplerInv, DecidedInv
<1> QED
  BY <1>1, <1>4, <1>6, <1>7, CallsKeep

\* It stays at its rule, to try its patterns or to ask the limiter.
LEMMA StayKeeps ==
    ASSUME SamplerInv, NEW t \in Threads, call[t].pc # "idle", NEW pc \in {"match", "limiter"},
           call' = [call EXCEPT ![t].pc = pc], UNCHANGED <<rules, order, decided>>,
           poisoned \subseteq poisoned', poisoned' \subseteq CustomRules,
           pc = "limiter" => Found(Span(t), call[t].rule)'
    PROVE  SamplerInv'
<1>1. /\ call[t] \in Busy /\ Ready /\ CallAt(t) /\ call \in [Threads -> Idle \cup Busy]
  BY BusyCall DEF SamplerInv, CallInv
<1>2. /\ call'[t] \in Busy /\ call'[t].pc = pc /\ call'[t].rule = call[t].rule
      /\ call'[t].span = call[t].span /\ \A u \in Threads \ {t} : call'[u] = call[u]
      /\ call' \in [Threads -> Idle \cup Busy]
  BY <1>1 DEF Busy
<1>3. CallMoves(t)
  BY <1>2 DEF CallMoves
<1>4. Passed(Span(t), call[t].rule)'
  BY <1>1, <1>2 DEF CallAt, Passed, Span
<1>5. CallAt(t)'
  BY <1>1, <1>2, <1>4 DEF CallAt, Ready, Span
<1>6. decided' \subseteq Decisions /\ decided' = decided
  BY DEF SamplerInv, DecidedInv
<1> QED
  BY <1>1, <1>3, <1>5, <1>6, CallsKeep

\* It goes on to the next rule when this one does not match or ran out of time.
LEMMA AdvanceKeeps ==
    ASSUME SamplerInv, NEW t \in Threads, call[t].pc # "idle", Advance(t), UNCHANGED <<rules, order>>,
           poisoned \subseteq poisoned', poisoned' \subseteq CustomRules, Rule(t) \in CustomRules,
           IsMatch(t) => Rule(t) \in poisoned'
    PROVE  SamplerInv'
<1> DEFINE n == call[t].rule
           c == [pc |-> "rule", left |-> call[t].left, span |-> call[t].span, rule |-> n + 1]
<1>1. /\ call[t] \in Busy /\ Ready /\ CallAt(t) /\ call \in [Threads -> Idle \cup Busy]
      /\ n + 1 \in 1 .. Len(rules) /\ Len(rules) \in Nat
  BY BusyCall DEF SamplerInv, CallInv
<1>2. call' = [call EXCEPT ![t] = c] /\ decided' = decided
  BY DEF Advance
<1>3. n \in Nat /\ c \in Busy /\ call'[t] = c
  BY <1>1, <1>2 DEF Busy
<1>4. CallMoves(t)
  <2> HIDE DEF c
  <2> QED
    BY <1>1, <1>2, <1>3 DEF CallMoves
<1>5. Span(t)' = Span(t) /\ call'[t].rule = n + 1 /\ call'[t].pc = "rule"
  BY <1>3 DEF Span
<1>6. ASSUME NEW i \in 1 .. n, Eligible(rules[i], Span(t))
      PROVE  rules[i] \in poisoned'
  <2>1. CASE i = n
    BY <1>6, <2>1 DEF IsMatch, Rule
  <2>2. CASE i # n
    <3>1. i \in 1 .. n - 1 /\ Passed(Span(t), n)
      BY <1>1, <1>3, <2>2 DEF CallAt
    <3> QED
      BY <1>6, <3>1 DEF Passed
  <2> QED
    BY <2>1, <2>2
<1>7. Passed(Span(t), call[t].rule)'
  <2>1. call'[t].rule - 1 = n /\ rules' = rules
    BY <1>3, <1>5
  <2> HIDE DEF n
  <2> QED
    BY <1>5, <1>6, <2>1 DEF Passed, Eligible
<1>8. CallAt(t)'
  BY <1>1, <1>5, <1>7 DEF CallAt, Ready
<1>9. decided' \subseteq Decisions /\ decided' = decided
  BY <1>2 DEF SamplerInv, DecidedInv
<1> QED
  BY <1>1, <1>4, <1>8, <1>9, CallsKeep

\* It ends with the decision of a rule that was found.
LEMMA DecideKeeps ==
    ASSUME SamplerInv, NEW t \in Threads, call[t].pc # "idle",
           NEW p \in {"AutoKeep", "AutoReject"}, Decide(t, p), UNCHANGED <<rules, order>>,
           poisoned \subseteq poisoned', poisoned' \subseteq CustomRules,
           IsMatch(t) \/ Rule(t) \in poisoned'
    PROVE  SamplerInv'
<1> DEFINE c == [pc |-> "idle", left |-> call[t].left]
           d == <<Span(t), Rule(t), p>>
<1>1. /\ call[t] \in Busy /\ Ready /\ CallAt(t) /\ call \in [Threads -> Idle \cup Busy]
      /\ Span(t) \in Spans /\ Rule(t) \in Rules
  BY BusyCall DEF SamplerInv, CallInv
<1>2. call' = [call EXCEPT ![t] = c] /\ decided' = decided \cup {d}
  BY DEF Decide
<1>3. c \in Idle /\ call'[t] = c /\ call'[t].pc = "idle"
  BY <1>1, <1>2 DEF Busy, Idle
<1>4. CallMoves(t)
  <2> HIDE DEF c
  <2> QED
    BY <1>1, <1>2, <1>3 DEF CallMoves
<1>5. d \in Decisions /\ decided \subseteq Decisions
  BY <1>1 DEF SamplerInv, DecidedInv, Decisions
<1>6. PICK e : e = d
  OBVIOUS
<1>7. DecidedAt(e)'
  <2>1. rules' = rules /\ call[t].rule \in 1 .. Len(rules) /\ rules[call[t].rule] = e[2]
    BY <1>1, <1>6 DEF CallAt, Rule
  <2>2. PICK n \in 1 .. Len(rules) : n = call[t].rule
    BY <2>1
  <2>3. Passed(Span(t), n) /\ e[1] = Span(t)
    BY <1>1, <1>6, <2>2 DEF CallAt
  <2>4. Passed(e[1], n)'
    BY <2>1, <2>3 DEF Passed
  <2>5. Eligible(rules[n], e[1]) \/ rules[n] \in poisoned'
    BY <2>2, <2>3 DEF IsMatch, Rule
  <2> QED
    BY <2>1, <2>2, <2>4, <2>5 DEF DecidedAt, Found
<1>8. e \in Decisions /\ decided' = decided \cup {e}
  BY <1>2, <1>5, <1>6
<1> HIDE DEF d, c
<1> QED
  BY <1>1, <1>3, <1>4, <1>5, <1>7, <1>8, CallsKeep

\* Applying the rate decides the span or asks the limiter.
LEMMA RateKeeps ==
    ASSUME SamplerInv, NEW t \in Threads, call[t].pc # "idle", ApplyRate(t), UNCHANGED <<rules, order>>,
           poisoned \subseteq poisoned', poisoned' \subseteq CustomRules,
           IsMatch(t) \/ Rule(t) \in poisoned'
    PROVE  SamplerInv'
<1>1. CASE \E p \in {"AutoKeep", "AutoReject"} : Decide(t, p)
  BY <1>1, DecideKeeps
<1>2. CASE call' = [call EXCEPT ![t].pc = "limiter"] /\ UNCHANGED decided
  <2>1. call[t] \in Busy /\ call \in [Threads -> Idle \cup Busy]
    BY BusyCall DEF SamplerInv, CallInv
  <2>2. call'[t].rule = call[t].rule /\ call'[t].span = call[t].span /\ rules' = rules
    BY <1>2, <2>1 DEF Busy
  <2>3. Found(Span(t), call[t].rule)'
    BY <2>2 DEF Found, Span, IsMatch, Rule
  <2> QED
    BY <1>2, <2>3, StayKeeps
<1> QED
  BY <1>1, <1>2 DEF ApplyRate

\* Every step of the sampler keeps its invariant.
LEMMA SamplerKeeps == SamplerInv /\ Asking /\ [Next]_vars => SamplerInv'
<1> SUFFICES ASSUME SamplerInv, Asking, [Next]_vars
             PROVE  SamplerInv'
  OBVIOUS
<1>1. poisoned \subseteq CustomRules
  BY DEF SamplerInv, CallInv
<1>2. CASE UNCHANGED samplerVars
  BY <1>2 DEF samplerVars, SamplerInv, RulesInv, RulesInOrder, CallInv, CallAt, Passed, Found, Span,
              Ready, DecidedInv, DecidedAt
<1>3. ASSUME NEW r \in Rules, RegisterRule(r)
      PROVE  SamplerInv'
  <2>1. RulesInv'
    BY <1>3, RegisterKeeps DEF SamplerInv
  <2>2. ~ Ready
    <3>1. Ready => \E i \in 1 .. Len(rules) : rules[i] = r
      BY DEF Ready, ToSet, SamplerInv, RulesInv
    <3> QED
      BY <1>3, <3>1 DEF RegisterRule, Contains
  <2>3. decided = {} /\ \A t \in Threads : call[t].pc = "idle"
    BY <2>2 DEF SamplerInv, DecidedInv, CallInv, CallAt
  <2>4. UNCHANGED <<poisoned, call, decided>>
    BY <1>3 DEF RegisterRule
  <2>5. CallInv' /\ DecidedInv'
    BY <1>1, <2>3, <2>4 DEF SamplerInv, CallInv, DecidedInv
  <2> QED
    BY <2>1, <2>5 DEF SamplerInv
<1>4. ASSUME NEW t \in Threads, NEW s \in Spans, GetSamplingPriority(t, s)
      PROVE  SamplerInv'
  BY <1>4, StartKeeps
<1>5. ASSUME NEW t \in Threads, TryRule(t)
      PROVE  SamplerInv'
  <2>1. call[t].pc # "idle" /\ UNCHANGED <<rules, order, poisoned>>
    BY <1>5 DEF TryRule
  <2>2. CASE Rule(t) \in poisoned /\ Advance(t)
    BY <1>1, <2>1, <2>2, AdvanceKeeps
  <2>3. CASE call' = [call EXCEPT ![t].pc = "match"] /\ UNCHANGED decided
    BY <1>1, <2>1, <2>3, StayKeeps
  <2> QED
    BY <1>5, <2>2, <2>3 DEF TryRule
<1>6. ASSUME NEW t \in Threads, Match(t)
      PROVE  SamplerInv'
  <2>1. call[t].pc # "idle" /\ UNCHANGED <<rules, order>>
    BY <1>6 DEF Match
  <2>2. CASE IsMatch(t) /\ ApplyRate(t) /\ UNCHANGED poisoned
    BY <1>1, <2>1, <2>2, RateKeeps
  <2>3. CASE TimesOut(t) /\ (ApplyRate(t) \/ Advance(t)) /\ Poison(Rule(t))
    <3>1. poisoned' = poisoned \cup {Rule(t)} /\ Rule(t) \in CustomRules
      BY <2>3 DEF Poison, TimesOut
    <3> QED
      BY <1>1, <2>1, <2>3, <3>1, RateKeeps, AdvanceKeeps
  <2>4. CASE ~ IsMatch(t) /\ Advance(t) /\ UNCHANGED poisoned
    <3>1. Rule(t) \in CustomRules
      BY <2>4 DEF IsMatch, Eligible
    <3> QED
      BY <1>1, <2>1, <2>4, <3>1, AdvanceKeeps
  <2> QED
    BY <1>6, <2>2, <2>3, <2>4 DEF Match
<1>7. ASSUME NEW t \in Threads, LimiterAnswers(t), call[t].pc = "limiter"
      PROVE  SamplerInv'
  <2>1. UNCHANGED <<rules, order, poisoned>> /\ \E p \in {"AutoKeep", "AutoReject"} : Decide(t, p)
    BY <1>7 DEF LimiterAnswers
  <2>2. IsMatch(t) \/ Rule(t) \in poisoned
    BY <1>7, BusyCall DEF CallAt, Found, IsMatch, Rule
  <2> QED
    BY <1>1, <1>7, <2>1, <2>2, DecideKeeps
<1>8. \A t \in Threads : LimiterAnswers(t) => call[t].pc = "limiter"
  BY DEF Asking, LimiterAnswers, AllowedReturns
<1> QED
  BY <1>2, <1>3, <1>4, <1>5, <1>6, <1>7, <1>8 DEF Next, vars, ClockTicks, Finished, InLimiter

\* And the limiter is asked by the calls that wait for its answer.
LEMMA AskingKeeps == LimiterInv /\ SamplerInv /\ Asking /\ [Next]_vars => Asking'
<1> SUFFICES ASSUME LimiterInv, SamplerInv, Asking, [Next]_vars
             PROVE  Asking'
  OBVIOUS
<1>1. /\ limiter \in [Threads -> [pc : Places, previous : Nat, started : Nat]]
      /\ call \in [Threads -> Idle \cup Busy]
  BY DEF LimiterInv, LimiterTypes, SamplerInv, CallInv
<1>2. CASE UNCHANGED <<limiter, call>>
  BY <1>2 DEF Asking
<1>3. ASSUME NEW t \in Threads, call[t].pc # "limiter", UNCHANGED limiter,
             \A u \in Threads \ {t} : call'[u] = call[u]
      PROVE  Asking'
  BY <1>3 DEF Asking
<1>4. ASSUME NEW t \in Threads, NEW s \in Spans, GetSamplingPriority(t, s)
      PROVE  Asking'
  BY <1>1, <1>3, <1>4 DEF GetSamplingPriority, limiterVars
<1>5. ASSUME NEW t \in Threads, TryRule(t)
      PROVE  Asking'
  BY <1>1, <1>3, <1>5 DEF TryRule, Advance, limiterVars
<1>6. ASSUME NEW t \in Threads, Match(t)
      PROVE  Asking'
  <2>1. call[t].pc # "limiter" /\ \A u \in Threads \ {t} : call'[u] = call[u]
    BY <1>1, <1>6 DEF Match, ApplyRate, Advance, Decide
  <2>2. CASE UNCHANGED limiter
    BY <1>3, <2>1, <2>2
  <2>3. CASE AllowedCall(t) /\ call' = [call EXCEPT ![t].pc = "limiter"]
    <3>1. \A u \in Threads \ {t} : limiter'[u] = limiter[u]
      BY <1>1, <2>3 DEF AllowedCall
    <3>2. call'[t].pc = "limiter"
      BY <1>1, <2>3 DEF Busy, Idle
    <3> QED
      BY <2>1, <3>1, <3>2 DEF Asking
  <2> QED
    BY <1>6, <2>2, <2>3 DEF Match, ApplyRate, Advance, limiterVars
<1>7. ASSUME NEW t \in Threads, InLimiter(t)
      PROVE  Asking'
  <2>1. limiter[t].pc # "out" /\ \A u \in Threads \ {t} : limiter'[u] = limiter[u]
    BY <1>1, <1>7 DEF InLimiter, LimiterStep, WaitReturns, Compare, RefreshBegins, Peek, Dequeue,
                      RefreshEnds, Count, Enqueue, At, Goto
  <2>2. UNCHANGED call
    BY <1>7 DEF InLimiter, samplerVars
  <2> QED
    BY <2>1, <2>2 DEF Asking
<1>8. ASSUME NEW t \in Threads, LimiterAnswers(t)
      PROVE  Asking'
  <2>1. limiter'[t].pc = "out" /\ \A u \in Threads \ {t} : limiter'[u] = limiter[u]
    BY <1>1, <1>8 DEF LimiterAnswers, AllowedReturns, Outside
  <2>2. \A u \in Threads \ {t} : call'[u] = call[u]
    BY <1>1, <1>8 DEF LimiterAnswers, Decide
  <2> QED
    BY <2>1, <2>2 DEF Asking
<1>9. ASSUME NEW r \in Rules, RegisterRule(r)
      PROVE  Asking'
  BY <1>2, <1>9 DEF RegisterRule, limiterVars
<1>10. CASE ClockTicks \/ UNCHANGED vars
  BY <1>2, <1>10 DEF ClockTicks, Tick, vars, limiterVars, samplerVars
<1> QED
  BY <1>4, <1>5, <1>6, <1>7, <1>8, <1>9, <1>10 DEF Next, Finished

\* The tracer starts with the default rule alone.
LEMMA SamplerStarts == Init => LimiterInv /\ SamplerInv /\ Asking
<1> SUFFICES ASSUME Init
             PROVE  LimiterInv /\ SamplerInv /\ Asking
  OBVIOUS
<1>1. LimiterInv
  BY LimiterStarts DEF Init
<1>2. rules = <<Default>> /\ order = <<Default>> /\ Default \in Rules
  BY DEF Init, Rules
<1>3. /\ rules \in Seq(Rules) /\ order \in Seq(Rules) /\ Len(rules) = 1 /\ Len(order) = 1
      /\ rules[1] = Default /\ order[1] = Default /\ DOMAIN rules = 1 .. 1
  BY <1>2
<1>4. RulesInv
  BY <1>3 DEF RulesInv, RulesInOrder
<1>5. poisoned = {} /\ decided = {} /\ \A t \in Threads : limiter[t].pc = "out"
  BY DEF Init, LimiterInit, Outside
<1>6. call \in [Threads -> Idle] /\ \A t \in Threads : call[t].pc = "idle"
  BY SamplerAssumption DEF Init, NoCall, Idle
<1>7. CallInv
  BY <1>5, <1>6 DEF CallInv
<1>8. DecidedInv
  BY <1>5 DEF DecidedInv
<1> QED
  BY <1>1, <1>4, <1>5, <1>7, <1>8 DEF SamplerInv, Asking

\* The invariant says of the fields what TypeOK says, and of each decision that
\* the first match made it.
LEMMA InvariantDecides == LimiterInv /\ SamplerInv => RulesDecide
<1> SUFFICES ASSUME LimiterInv, SamplerInv
             PROVE  RulesDecide
  OBVIOUS
<1>1. TypeOK
  <2>1. /\ now \in 0 .. MaxTime /\ lastRefresh \in 0 .. now /\ refreshSet \in BOOLEAN
        /\ poisoned \subseteq CustomRules
        /\ decided \subseteq Spans \X Rules \X {"AutoKeep", "AutoReject"}
    BY DEF LimiterInv, LimiterTypes, SamplerInv, CallInv, DecidedInv, Decisions
  <2>2. limiter \in [Threads -> [pc : Places, previous : 0 .. now, started : 0 .. now]]
    <3>1. limiter \in [Threads -> [pc : Places, previous : Nat, started : Nat]] /\ now \in Nat
      BY LimiterAssumption DEF LimiterInv, LimiterTypes
    <3>2. ASSUME NEW t \in Threads
          PROVE  limiter[t] \in [pc : Places, previous : 0 .. now, started : 0 .. now]
      <4>1. limiter[t].previous <= now /\ limiter[t].started <= now
        BY DEF LimiterInv, LimiterTypes
      <4>2. limiter[t] \in [pc : Places, previous : Nat, started : Nat]
        BY <3>1
      <4> QED
        BY <3>1, <4>1, <4>2
    <3> QED
      BY <3>1, <3>2
  <2>3. intervalQueue \in Seq(0 .. now)
    <3>1. /\ intervalQueue \in Seq(Nat) /\ admitted \in Seq(Nat) /\ Len(intervalQueue) \in Nat
          /\ Len(admitted) \in Nat /\ Len(intervalQueue) <= Len(admitted) /\ now \in Nat
      BY LimiterAssumption DEF LimiterInv, LimiterTypes, History, Trims
    <3>2. ASSUME NEW k \in 1 .. Len(intervalQueue)
          PROVE  intervalQueue[k] \in 0 .. now
      <4> DEFINE j == Len(admitted) - Len(intervalQueue) + k
      <4>1. j \in 1 .. Len(admitted)
        BY <3>1
      <4>2. intervalQueue[k] = admitted[j]
        BY DEF LimiterInv, History, Trims
      <4> HIDE DEF j
      <4>3. admitted[j] <= now /\ admitted[j] \in Nat
        BY <3>1, <4>1 DEF LimiterInv, History
      <4> QED
        BY <3>1, <4>2, <4>3
    <3> QED
      <4>1. intervalQueue = [k \in 1 .. Len(intervalQueue) |-> intervalQueue[k]]
        BY <3>1
      <4>2. [k \in 1 .. Len(intervalQueue) |-> intervalQueue[k]] \in Seq(0 .. now)
        BY <3>1, <3>2, IsASeq
      <4> QED
        BY <4>1, <4>2
  <2>4. Len(intervalQueue) <= IF AnswersAtOnce THEN 0 ELSE Limit + Cardinality(Threads) - 1
    <3>1. CASE AnswersAtOnce
      <4>1. Len(intervalQueue) \in Nat /\ Len(intervalQueue) <= Len(admitted) /\ Len(admitted) = 0
        BY <3>1 DEF LimiterInv, History, Trims, Unused
      <4> QED
        BY <3>1, <4>1
    <3>2. CASE ~ AnswersAtOnce
      <4>1. Len(intervalQueue) \in Nat /\ N \in Nat /\ Limit \in Int
        BY LimiterAssumption, ThreadsCounted DEF LimiterInv, History, Trims
      <4>2. Cardinality(ThreadsAt("enqueue")) \in Nat
        BY ThreadsCounted DEF ThreadsAt
      <4>3. Len(intervalQueue) + Cardinality(ThreadsAt("enqueue")) <= Limit + N - 1
        BY <3>2 DEF LimiterInv, QueueBound
      <4> QED
        BY <3>2, <4>1, <4>2, <4>3 DEF N
    <3> QED
      BY <3>1, <3>2
  <2> QED
    BY <2>1, <2>2, <2>3, <2>4 DEF TypeOK, Places
<1>2. ASSUME NEW d \in decided
      PROVE  LET at == CHOOSE i \in DOMAIN rules : rules[i] = d[2] IN
             /\ Eligible(d[2], d[1]) \/ d[2] \in poisoned
             /\ \A i \in 1 .. at - 1 : Eligible(rules[i], d[1]) => rules[i] \in poisoned
  <2> DEFINE at == CHOOSE i \in DOMAIN rules : rules[i] = d[2]
  <2>1. PICK n \in 1 .. Len(rules) : rules[n] = d[2] /\ Passed(d[1], n) /\ Found(d[1], n)
    BY DEF SamplerInv, DecidedInv, DecidedAt
  <2>2. DOMAIN rules = 1 .. Len(rules)
    BY DEF SamplerInv, RulesInv
  <2>3. at \in 1 .. Len(rules) /\ rules[at] = d[2]
    BY <2>1, <2>2
  <2>4. at = n
    <3> HIDE DEF at
    <3> QED
      BY <2>1, <2>3 DEF SamplerInv, RulesInv
  <2> HIDE DEF at
  <2>5. /\ Eligible(d[2], d[1]) \/ d[2] \in poisoned
        /\ \A i \in 1 .. at - 1 : Eligible(rules[i], d[1]) => rules[i] \in poisoned
    BY <2>1, <2>4 DEF Passed, Found
  <2> QED
    BY <2>5 DEF at
<1>3. FirstMatchDecides
  BY <1>2 DEF FirstMatchDecides
<1> QED
  BY <1>1, <1>3 DEF RulesDecide, SamplerInv, RulesInv

\* A span is decided by the first rule that matches it, whichever rules the
\* concurrent calls find to run out of time, and in the order of the rules'
\* priorities and registrations (RuleBasedSampler.cs, lines 34 to 66).
THEOREM RulesDecided == Spec => []RulesDecide
<1> DEFINE Inv == LimiterInv /\ SamplerInv /\ Asking
<1>1. Init => Inv
  BY SamplerStarts
<1>2. Inv /\ [Next]_vars => Inv'
  BY SamplerStepsLimiter, SamplerKeeps, AskingKeeps
<1>3. Inv => RulesDecide
  BY InvariantDecides
<1> HIDE DEF Inv
<1> QED
  BY <1>1, <1>2, <1>3, PTL DEF Spec

=============================================================================
