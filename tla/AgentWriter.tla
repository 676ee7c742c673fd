---------------------------- MODULE AgentWriter ----------------------------
(***************************************************************************)
(* Agent/AgentWriter.cs with its buffer and its IApi, and the shutdown     *)
(* handlers of Tracer.cs that flush and close it.                          *)
(*                                                                         *)
(* Application threads call WriteTrace; the thread-pool task               *)
(* FlushTracesTaskLoopAsync empties the buffer about once a second and     *)
(* posts what it found; a shutdown handler calls FlushAndCloseAsync, and   *)
(* once a handler has returned the process may be gone.                    *)
(***************************************************************************)
EXTENDS Integers

CONSTANTS
    Traces,           \* the span arrays TraceContext hands over
    NoTrace,          \* null
    MaxSize,          \* TraceBufferSize (1000 in the code)
    RetryLimit,       \* retryLimit (5 in the code)
    Writers,          \* threads that send themselves in synchronous mode
    Loop,             \* the flush task
    Closers,          \* calls of FlushAndCloseAsync by shutdown handlers
    SendModes,        \* values Settings.SynchronousSend may have
    StatsdEnabled     \* Settings.TracerMetricsEnabled: _statsd # null

Senders == Writers \cup {Loop}

ASSUME WriterAssumption ==
    /\ MaxSize \in Nat \ {0}
    /\ RetryLimit \in Nat \ {0}
    /\ NoTrace \notin Traces
    /\ Loop \notin Writers
    /\ SendModes \subseteq BOOLEAN
    /\ StatsdEnabled \in BOOLEAN

VARIABLES
    items, count,     \* AgentWriterBuffer
    sends, received,  \* ZipkinApi
    synchronousSend,  \* _synchronousSend, fixed at start
    written,          \* traces WriteTrace has been called with
    processExit,      \* _processExit is completed
    flush,            \* the flush task: [pc, closing, popped]
    closer,           \* per call of FlushAndCloseAsync: where it is
    alive,            \* the process has not ended
    fate,             \* history: how the writer finished with a trace
    beforeExit        \* history: traces whose WriteTrace had returned when
                      \* _processExit was completed

INSTANCE AgentWriterBuffer
INSTANCE ZipkinApi

vars == <<items, count, sends, received, synchronousSend, written, processExit,
          flush, closer, alive, fate, beforeExit>>

bufferVars == <<items, count>>
apiVars == <<sends, received>>
exitVars == <<processExit, closer, beforeExit>>

InFlight(t) == \E s \in Senders : t \in sends[s].traces

Fates == {"none", "sent", "fatal", "exhausted", "overwritten", "metricsError"}

Settle(ts, how) == fate' = [t \in Traces |-> IF t \in ts THEN how ELSE fate[t]]

Init ==
    /\ BufferInit
    /\ SendInit
    /\ synchronousSend \in SendModes
    /\ written = {}
    /\ processExit = FALSE
    /\ flush = [pc |-> IF synchronousSend THEN "done" ELSE "delay",
                closing |-> FALSE, popped |-> {}]
    /\ closer = [c \in Closers |-> "idle"]
    /\ alive = TRUE
    /\ fate = [t \in Traces |-> "none"]
    /\ beforeExit = {}

-----------------------------------------------------------------------------
\* WriteTrace on an application thread.

\* Mutant: the calling thread does not wait for the send.
WriteTraceSyncNoWait(w, t) ==
    /\ alive
    /\ synchronousSend
    /\ t \notin written
    /\ written' = written \cup {t}
    /\ SendCall(w, {t})
    /\ UNCHANGED <<synchronousSend, received, flush, alive, fate, bufferVars,
                   exitVars>>

\* Synchronous mode: the calling thread sends and waits.
WriteTraceSync(w, t) ==
    /\ alive
    /\ synchronousSend
    /\ t \notin written
    /\ sends[w].st = "idle"
    /\ written' = written \cup {t}
    /\ SendCall(w, {t})
    /\ UNCHANGED <<synchronousSend, received, flush, alive, fate, bufferVars,
                   exitVars>>

\* Asynchronous mode, Push finds a free slot.
WriteTrace(t) ==
    /\ alive
    /\ ~synchronousSend
    /\ t \notin written
    /\ written' = written \cup {t}
    /\ PushFree(t)
    /\ UNCHANGED <<synchronousSend, flush, alive, fate, apiVars, exitVars>>

\* Asynchronous mode, Push overwrites the trace in slot i.
WriteTraceFull(t, i) ==
    /\ alive
    /\ ~synchronousSend
    /\ t \notin written
    /\ written' = written \cup {t}
    /\ PushFull(t, i)
    /\ Settle({items[i]}, "overwritten")
    /\ UNCHANGED <<synchronousSend, flush, alive, apiVars, exitVars>>

-----------------------------------------------------------------------------
\* FlushTracesTaskLoopAsync.

\* Mutant: the loop returns on the exit signal without a last flush.
FlushWakesAndLeaves ==
    /\ alive
    /\ flush.pc = "delay"
    /\ flush' = [flush EXCEPT !.pc = IF processExit THEN "done" ELSE "pop",
                             !.closing = processExit]
    /\ UNCHANGED <<synchronousSend, written, alive, fate, bufferVars, apiVars,
                   exitVars>>

\* The delay, or _processExit, completes; then IsCompleted is read.
FlushWakes ==
    /\ alive
    /\ flush.pc = "delay"
    /\ flush' = [flush EXCEPT !.pc = "pop", !.closing = processExit]
    /\ UNCHANGED <<synchronousSend, written, alive, fate, bufferVars, apiVars,
                   exitVars>>

\* FlushTracesAsync takes everything that is queued.
FlushPops ==
    /\ alive
    /\ flush.pc = "pop"
    /\ flush' = [flush EXCEPT !.pc = "popped", !.popped = Queued]
    /\ Pop
    /\ UNCHANGED <<synchronousSend, written, alive, fate, apiVars, exitVars>>

\* Mutant: the try is outside the loop, an exception ends the task.
FlushMetricsFailEndsLoop ==
    /\ alive
    /\ StatsdEnabled
    /\ flush.pc = "popped"
    /\ Settle(flush.popped, "metricsError")
    /\ flush' = [flush EXCEPT !.pc = "done", !.popped = {}]
    /\ UNCHANGED <<synchronousSend, written, alive, bufferVars, apiVars,
                   exitVars>>

\* The metrics client throws (its Send() reads a bag that WriteTrace changes
\* concurrently): the popped traces go with the exception, the loop goes on.
FlushMetricsFail ==
    /\ alive
    /\ StatsdEnabled
    /\ flush.pc = "popped"
    /\ Settle(flush.popped, "metricsError")
    /\ flush' = [flush EXCEPT !.pc = "delay", !.popped = {}]
    /\ UNCHANGED <<synchronousSend, written, alive, bufferVars, apiVars,
                   exitVars>>

\* The flush is over: return after the closing one, else wait again.
FlushEnds ==
    flush' = [flush EXCEPT !.pc = IF flush.closing THEN "done" ELSE "delay",
                           !.popped = {}]

\* traces.Length = 0: nothing to send.
FlushNothing ==
    /\ alive
    /\ flush.pc = "popped"
    /\ flush.popped = {}
    /\ FlushEnds
    /\ UNCHANGED <<synchronousSend, written, alive, fate, bufferVars, apiVars,
                   exitVars>>

FlushSends ==
    /\ alive
    /\ flush.pc = "popped"
    /\ flush.popped # {}
    /\ SendCall(Loop, flush.popped)
    /\ flush' = [flush EXCEPT !.pc = "sending", !.popped = {}]
    /\ UNCHANGED <<synchronousSend, received, written, alive, fate,
                   bufferVars, exitVars>>

\* SendTracesAsync has returned to the loop.
FlushSent ==
    /\ alive
    /\ flush.pc = "sending"
    /\ sends[Loop].st = "idle"
    /\ FlushEnds
    /\ UNCHANGED <<synchronousSend, written, alive, fate, bufferVars, apiVars,
                   exitVars>>

-----------------------------------------------------------------------------
\* SendTracesAsync, run by sender s.

SendStep(s) ==
    /\ alive
    /\ \/ PostSucceeds(s) /\ Settle(sends[s].traces, "sent")
       \/ PostFatal(s)    /\ Settle(sends[s].traces, "fatal")
       \/ PostExhausted(s) /\ Settle(sends[s].traces, "exhausted")
       \/ PostRetries(s)  /\ UNCHANGED fate
       \/ BackoffEnds(s)  /\ UNCHANGED fate
    /\ UNCHANGED <<synchronousSend, written, flush, alive, bufferVars,
                   exitVars>>

-----------------------------------------------------------------------------
\* FlushAndCloseAsync, called by RunShutdownTasks.

\* TrySetResult succeeds: wait for the flush task.
CloseFirst(c) ==
    /\ alive
    /\ closer[c] = "idle"
    /\ ~processExit
    /\ processExit' = TRUE
    /\ beforeExit' = {t \in written : \A w \in Writers : t \notin sends[w].traces}
    /\ closer' = [closer EXCEPT ![c] = "waiting"]
    /\ UNCHANGED <<synchronousSend, written, flush, alive, fate, bufferVars,
                   apiVars>>

\* TrySetResult fails: somebody else is closing, return at once.
CloseAgain(c) ==
    /\ alive
    /\ closer[c] = "idle"
    /\ processExit
    /\ closer' = [closer EXCEPT ![c] = "returned"]
    /\ UNCHANGED <<synchronousSend, written, processExit, flush, alive, fate,
                   beforeExit, bufferVars, apiVars>>

\* WhenAny: the flush task completed.
CloseFlushed(c) ==
    /\ alive
    /\ closer[c] = "waiting"
    /\ flush.pc = "done"
    /\ closer' = [closer EXCEPT ![c] = "flushed"]
    /\ UNCHANGED <<synchronousSend, written, processExit, flush, alive, fate,
                   beforeExit, bufferVars, apiVars>>

\* Mutant: no time-out.
CloseNeverTimesOut(c) == FALSE

\* WhenAny: 20 seconds have passed; a warning is logged.
CloseTimesOut(c) ==
    /\ alive
    /\ closer[c] = "waiting"
    /\ flush.pc # "done"
    /\ closer' = [closer EXCEPT ![c] = "timedOut"]
    /\ UNCHANGED <<synchronousSend, written, processExit, flush, alive, fate,
                   beforeExit, bufferVars, apiVars>>

\* The runtime ends the process once a handler has returned to it.
ProcessEnds ==
    /\ alive
    /\ \E c \in Closers : closer[c] \in {"returned", "flushed", "timedOut"}
    /\ alive' = FALSE
    /\ UNCHANGED <<synchronousSend, written, flush, fate, bufferVars, apiVars,
                   exitVars>>

\* Nothing runs in an ended process.
Ended == ~alive /\ UNCHANGED vars

FlushLoop == FlushWakes \/ FlushPops \/ FlushMetricsFail \/ FlushNothing
                \/ FlushSends \/ FlushSent

Next ==
    \/ \E t \in Traces : WriteTrace(t)
    \/ \E t \in Traces, i \in Slots : WriteTraceFull(t, i)
    \/ \E w \in Writers, t \in Traces : WriteTraceSync(w, t)
    \/ FlushLoop
    \/ \E s \in Senders : SendStep(s)
    \/ \E c \in Closers : CloseFirst(c) \/ CloseAgain(c) \/ CloseFlushed(c)
                             \/ CloseTimesOut(c)
    \/ ProcessEnds
    \/ Ended

(***************************************************************************)
(* The thread pool keeps running the flush task, HttpClient ends every     *)
(* request (its Timeout), timers fire.  Nothing makes the application      *)
(* write or the process shut down.                                         *)
(***************************************************************************)
Fairness ==
    /\ WF_vars(FlushLoop)
    /\ \A s \in Senders : WF_vars(SendStep(s))
    /\ \A c \in Closers : WF_vars(CloseFlushed(c) \/ CloseTimesOut(c))

Spec == Init /\ [][Next]_vars

FairSpec == Spec /\ Fairness
-----------------------------------------------------------------------------
\* What the writer promises (TraceDelivery), with a trace's status read off
\* `written' and `fate'.
StatusOf(f) ==
    CASE f = "none" -> "pending"
      [] f = "sent" -> "delivered"
      [] f \in {"overwritten", "metricsError"} -> "dropped"
      [] f \in {"fatal", "exhausted"} -> "abandoned"

status == [t \in Traces |-> IF t \in written THEN StatusOf(fate[t]) ELSE "new"]

Delivery == INSTANCE TraceDelivery WITH MaxDeliveries <- RetryLimit

\* The writer implements TraceDelivery: whatever its threads, retries and
\* lost responses do, seen from outside each step accepts, drops or attempts.
ImplementsDelivery == Delivery!Spec

-----------------------------------------------------------------------------
\* Every variable stays in its type: slots hold traces or null, a call in
\* progress carries its attempt number, counters never leave their range.
TypeOK ==
    /\ items \in [Slots -> Traces \cup {NoTrace}]
    /\ count \in 0 .. MaxSize
    /\ sends \in [Senders -> [st : {"idle", "post", "backoff"},
                              traces : SUBSET Traces,
                              retryCount : 0 .. RetryLimit]]
    /\ received \in [Traces -> Nat]
    /\ synchronousSend \in BOOLEAN
    /\ written \in SUBSET Traces
    /\ processExit \in BOOLEAN
    /\ flush \in [pc : {"delay", "pop", "popped", "sending", "done"},
                  closing : BOOLEAN, popped : SUBSET Traces]
    /\ closer \in [Closers -> {"idle", "waiting", "returned", "flushed",
                               "timedOut"}]
    /\ alive \in BOOLEAN
    /\ fate \in [Traces -> Fates]
    /\ beforeExit \in SUBSET Traces

Unsettled(t) == t \in written /\ fate[t] = "none"

InBuffer(t) == \E i \in Slots : items[i] = t

\* A trace that was written and that the writer has not finished with is in
\* exactly one place: one slot of the buffer, the array the flush loop popped,
\* or the batch of one sender.  None vanishes when Push overwrites, Pop clears,
\* the loop catches an exception or a send gives up, and none is in two places
\* (it would be sent by two calls).
OnePlace ==
    \A t \in Traces :
        /\ Unsettled(t) <=> InBuffer(t) \/ t \in flush.popped \/ InFlight(t)
        /\ InBuffer(t) => t \notin flush.popped /\ ~InFlight(t)
        /\ t \in flush.popped => ~InFlight(t)
        /\ \A i, j \in Slots : items[i] = t /\ items[j] = t => i = j
        /\ \A r, s \in Senders :
              t \in sends[r].traces /\ t \in sends[s].traces => r = s

\* The collector gets a trace at most once per attempt, however many responses
\* are lost, and never one that was overwritten or lost with a metrics error;
\* "sent" is only said of a trace that it has.
DeliveryBound ==
    \A t \in Traces :
        /\ received[t] <= RetryLimit
        /\ fate[t] \in {"overwritten", "metricsError"} => received[t] = 0
        /\ fate[t] = "sent" => received[t] > 0

\* When the flush task has completed, the writer is through with every trace
\* that had been handed over before the exit signal: the loop reads the signal
\* before it pops, so the last Pop sees them all.
LastFlushCoversExit ==
    flush.pc = "done" => \A t \in beforeExit : fate[t] # "none"

\* A shutdown handler that was first and did not time out returns only after
\* those traces are through.
FlushedMeansFlushed ==
    (\E c \in Closers : closer[c] = "flushed") =>
        \A t \in beforeExit : fate[t] # "none"

\* While the process lives, a trace queued before the exit signal does not stay
\* with the writer for ever: it is sent, given up or overwritten.
EventuallySettled ==
    \A t \in Traces : (t \in written /\ ~processExit)
                         ~> (fate[t] # "none" \/ ~alive)

\* FlushAndCloseAsync always returns to the shutdown handler.
CloseReturns ==
    \A c \in Closers : closer[c] = "waiting" ~> (closer[c] # "waiting" \/ ~alive)

\* "make sure we flush the traces before exiting" (Tracer.cs): a process that
\* ended without a time-out left none of those traces behind.
FlushedBeforeExit ==
    (~alive /\ \A c \in Closers : closer[c] # "timedOut") =>
        \A t \in beforeExit : fate[t] # "none"
=============================================================================
