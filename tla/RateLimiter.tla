---------------------------- MODULE RateLimiter ----------------------------
(***************************************************************************)
(* The rate limiter of the sampler: a queue of the times at which traces   *)
(* were let through, trimmed to the last interval by whichever thread gets *)
(* to refresh it. _refreshEvent keeps other threads out while a refresh    *)
(* runs, but it is an event and no lock: threads that passed Wait together *)
(* refresh together.                                                       *)
(*                                                                         *)
(* The counters of the two statistical windows are left out: nothing under *)
(* src/ reads them, GetEffectiveRate has no caller.                        *)
(***************************************************************************)
EXTENDS Integers, Sequences, FiniteSets, SequencesExt, FiniteSetsExt

CONSTANTS Threads,
          Limit,       \* _maxTracesPerInterval
          Interval,    \* _interval, in ticks of the clock
          MaxTime      \* bound: the last tick

ASSUME LimiterAssumption ==
    /\ Threads # {} /\ IsFiniteSet(Threads)
    /\ Limit \in Int /\ Interval \in Nat \ {0} /\ MaxTime \in Nat

VARIABLES now,             \* DateTime.Now
          intervalQueue,   \* _intervalQueue
          lastRefresh,     \* _lastRefresh
          refreshSet,      \* _refreshEvent is set
          limiter,         \* thread -> its place in Allowed, and what it holds
          admitted         \* history: the times at which traces were let through

limiterVars == <<now, intervalQueue, lastRefresh, refreshSet, limiter, admitted>>

Outside == [pc |-> "out", previous |-> 0, started |-> 0]

LimiterInit ==
    /\ now = 0 /\ lastRefresh = 0
    /\ intervalQueue = <<>> /\ refreshSet = TRUE
    /\ limiter = [t \in Threads |-> Outside]
    /\ admitted = <<>>

Tick ==
    /\ now < MaxTime
    /\ now' = now + 1
    /\ UNCHANGED <<intervalQueue, lastRefresh, refreshSet, limiter, admitted>>

\* A limit of zero or less answers without looking at the queue; otherwise
\* the thread notes which refresh it has seen.
AnswersAtOnce == Limit <= 0

AllowedCall(t) ==
    /\ ~AnswersAtOnce
    /\ limiter' = [limiter EXCEPT ![t] =
                      [pc |-> "wait", previous |-> lastRefresh, started |-> 0]]
    /\ UNCHANGED <<now, intervalQueue, lastRefresh, refreshSet, admitted>>

At(t, pc) == limiter[t].pc = pc
Goto(t, pc) == limiter' = [limiter EXCEPT ![t].pc = pc]

WaitReturns(t) ==
    /\ At(t, "wait") /\ refreshSet
    /\ Goto(t, "compare")
    /\ UNCHANGED <<now, intervalQueue, lastRefresh, refreshSet, admitted>>

\* Another thread refreshed meanwhile: go on with what it has left so far.
\* Otherwise refresh.
Compare(t) ==
    /\ At(t, "compare")
    /\ limiter' = [limiter EXCEPT ![t] =
          [pc |-> IF lastRefresh # @.previous THEN "count" ELSE "reset",
           previous |-> 0, started |-> 0]]
    /\ UNCHANGED <<now, intervalQueue, lastRefresh, refreshSet, admitted>>

\* _refreshEvent.Reset(), and the time this refresh works with (here and in
\* Enqueue the clock is read in the step that stores what it says).
RefreshBegins(t) ==
    /\ At(t, "reset")
    /\ refreshSet' = FALSE
    /\ lastRefresh' = now
    /\ limiter' = [limiter EXCEPT ![t] =
                      [pc |-> "peek", previous |-> @.previous, started |-> now]]
    /\ UNCHANGED <<now, intervalQueue, admitted>>

\* A variant that trims an entry when it is exactly one interval old.
StaleTooEarly(t) == intervalQueue # <<>> /\ limiter[t].started - Head(intervalQueue) >= Interval

Stale(t) == intervalQueue # <<>> /\ limiter[t].started - Head(intervalQueue) > Interval

\* TryPeek and the test of what it found.
Peek(t) ==
    /\ At(t, "peek")
    /\ limiter' = [limiter EXCEPT ![t] =
          IF Stale(t) THEN [@ EXCEPT !.pc = "dequeue"] ELSE [Outside EXCEPT !.pc = "set"]]
    /\ UNCHANGED <<now, intervalQueue, lastRefresh, refreshSet, admitted>>

\* A variant of the loop that only looks at the queue.
DequeueForgotten(t) ==
    /\ At(t, "dequeue")
    /\ Goto(t, "peek")
    /\ UNCHANGED <<now, intervalQueue, lastRefresh, refreshSet, admitted>>

\* TryDequeue takes the head of now, which need not be the one peeked at.
Dequeue(t) ==
    /\ At(t, "dequeue")
    /\ intervalQueue' = IF intervalQueue = <<>> THEN <<>> ELSE Tail(intervalQueue)
    /\ Goto(t, "peek")
    /\ UNCHANGED <<now, lastRefresh, refreshSet, admitted>>

RefreshEnds(t) ==
    /\ At(t, "set")
    /\ refreshSet' = TRUE
    /\ Goto(t, "count")
    /\ UNCHANGED <<now, intervalQueue, lastRefresh, admitted>>

\* The count is read here and the queue extended in a later step.
Full == Len(intervalQueue) >= Limit

Count(t) ==
    /\ At(t, "count")
    /\ Goto(t, IF Full THEN "denied" ELSE "enqueue")
    /\ UNCHANGED <<now, intervalQueue, lastRefresh, refreshSet, admitted>>

Enqueue(t) ==
    /\ At(t, "enqueue")
    /\ intervalQueue' = Append(intervalQueue, now)
    /\ admitted' = Append(admitted, now)
    /\ Goto(t, "allowed")
    /\ UNCHANGED <<now, lastRefresh, refreshSet>>

\* Allowed has returned to its caller.
AllowedReturns(t) ==
    /\ limiter[t].pc \in {"allowed", "denied"}
    /\ limiter' = [limiter EXCEPT ![t] = Outside]
    /\ UNCHANGED <<now, intervalQueue, lastRefresh, refreshSet, admitted>>

LimiterStep(t) ==
    \/ WaitReturns(t) \/ Compare(t) \/ RefreshBegins(t) \/ Peek(t) \/ Dequeue(t)
    \/ RefreshEnds(t) \/ Count(t) \/ Enqueue(t)

AdmittedFrom(i) == Cardinality({k \in DOMAIN admitted : admitted[k] \in i .. i + Interval})
=============================================================================
