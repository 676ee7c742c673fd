------------------------- MODULE AgentWriterProofs -------------------------
(***************************************************************************)
(* Theorems about AgentWriter for every number of traces, writers,         *)
(* closers, slots and attempts: the types, the safety properties, and that *)
(* it implements TraceDelivery.                                            *)
(***************************************************************************)
EXTENDS AgentWriter, TLAPS

AttemptsLeft ==
    \A s \in Senders : sends[s].st = "backoff" => sends[s].retryCount < RetryLimit

TypeInv == TypeOK /\ BufferShape /\ AttemptsLeft

SendType == [st : {"idle", "post", "backoff"}, traces : SUBSET Traces,
             retryCount : 0 .. RetryLimit]

\* TypeOK alone is not inductive: that Pop returns traces and no null needs
\* that the slots below _count are in use, and that the attempt number stays
\* within RetryLimit needs that a sender only sleeps with attempts left.
LEMMA TypeInvInit == Init => TypeInv
<1> SUFFICES ASSUME Init PROVE TypeInv
  OBVIOUS
<1> USE WriterAssumption DEF Init
<1>1. /\ items \in [Slots -> Traces \cup {NoTrace}] /\ count \in 0 .. MaxSize
      /\ BufferShape
  BY DEF BufferInit, BufferShape, Slots
<1>2. /\ sends \in [Senders -> SendType]
      /\ received \in [Traces -> Nat]
      /\ AttemptsLeft
  BY DEF SendInit, NoSend, SendType, AttemptsLeft
<1>3. flush \in [pc : {"delay", "pop", "popped", "sending", "done"},
                closing : BOOLEAN, popped : SUBSET Traces]
  OBVIOUS
<1> QED
  BY <1>1, <1>2, <1>3 DEF TypeInv, TypeOK, Fates, SendType

\* Every step keeps the types and the shape of the buffer.
LEMMA TypeInvStep == TypeInv /\ [Next]_vars => TypeInv'
<1> SUFFICES ASSUME TypeInv, [Next]_vars PROVE TypeInv'
  OBVIOUS
<1> USE WriterAssumption DEF TypeInv, TypeOK, BufferShape, AttemptsLeft, Slots,
       bufferVars, apiVars, exitVars
<1>1. ASSUME NEW t \in Traces, WriteTrace(t) PROVE TypeInv'
  BY <1>1 DEF WriteTrace, PushFree
<1>2. ASSUME NEW t \in Traces, NEW i \in Slots, WriteTraceFull(t, i)
      PROVE TypeInv'
  BY <1>2 DEF WriteTraceFull, PushFull, Settle, Fates
<1>3. ASSUME NEW w \in Writers, NEW t \in Traces, WriteTraceSync(w, t)
      PROVE TypeInv'
  BY <1>3 DEF WriteTraceSync, SendCall, Senders
<1>4. CASE FlushWakes
  BY <1>4 DEF FlushWakes
<1>5. CASE FlushPops
  <2>1. Queued \in SUBSET Traces
    BY DEF Queued
  <2>2. flush' \in [pc : {"delay", "pop", "popped", "sending", "done"},
                   closing : BOOLEAN, popped : SUBSET Traces]
    BY <1>5, <2>1 DEF FlushPops
  <2> QED
    BY <1>5, <2>2 DEF FlushPops, Pop
<1>6. CASE FlushMetricsFail
  BY <1>6 DEF FlushMetricsFail, Settle, Fates
<1>7. CASE FlushNothing
  BY <1>7 DEF FlushNothing, FlushEnds
<1>8. CASE FlushSends
  <2>1. sends' \in [Senders -> SendType]
    BY <1>8 DEF FlushSends, SendCall, SendType, Senders
  <2>2. AttemptsLeft'
    BY <1>8 DEF FlushSends, SendCall, SendType, Senders
  <2>3. flush' \in [pc : {"delay", "pop", "popped", "sending", "done"},
                   closing : BOOLEAN, popped : SUBSET Traces]
    BY <1>8 DEF FlushSends
  <2> QED
    BY <1>8, <2>1, <2>2, <2>3 DEF FlushSends, SendType
<1>9. CASE FlushSent
  BY <1>9 DEF FlushSent, FlushEnds
<1>10. ASSUME NEW s \in Senders, SendStep(s) PROVE TypeInv'
  <2>1. received' \in [Traces -> Nat]
    <3>1. CASE Accepted(s)
      BY <3>1 DEF Accepted
    <3> QED
      BY <1>10, <3>1 DEF SendStep, PostSucceeds, PostFatal, PostExhausted,
         PostRetries, BackoffEnds, FailedPost
  <2>2. sends' \in [Senders -> SendType]
    <3>1. sends[s] \in SendType
      BY DEF SendType
    <3>2. CASE SendReturns(s)
      BY <3>2 DEF SendReturns, NoSend, SendType
    <3>3. CASE PostRetries(s)
      BY <3>1, <3>3 DEF PostRetries, SendType
    <3>4. CASE BackoffEnds(s)
      <4>1. sends[s].retryCount + 1 \in 0 .. RetryLimit
        BY <3>1, <3>4 DEF BackoffEnds, SendType
      <4> QED
        BY <3>1, <3>4, <4>1 DEF BackoffEnds, SendType
    <3> QED
      BY <1>10, <3>2, <3>3, <3>4
      DEF SendStep, PostSucceeds, PostFatal, PostExhausted
  <2>3. fate' \in [Traces -> Fates]
    BY <1>10 DEF SendStep, Settle, Fates
  <2>4. AttemptsLeft'
    <3>1. CASE SendReturns(s)
      BY <3>1 DEF SendReturns, NoSend
    <3>2. CASE PostRetries(s)
      BY <3>2 DEF PostRetries
    <3>3. CASE BackoffEnds(s)
      BY <3>3 DEF BackoffEnds
    <3> QED
      BY <1>10, <3>1, <3>2, <3>3
      DEF SendStep, PostSucceeds, PostFatal, PostExhausted
  <2> QED
    BY <1>10, <2>1, <2>2, <2>3, <2>4 DEF SendStep, SendType
<1>11. ASSUME NEW c \in Closers,
              CloseFirst(c) \/ CloseAgain(c) \/ CloseFlushed(c)
                 \/ CloseTimesOut(c)
       PROVE TypeInv'
  <2>1. closer' \in [Closers -> {"idle", "waiting", "returned", "flushed",
                               "timedOut"}]
    BY <1>11 DEF CloseFirst, CloseAgain, CloseFlushed, CloseTimesOut
  <2>2. beforeExit' \in SUBSET Traces /\ processExit' \in BOOLEAN
    BY <1>11 DEF CloseFirst, CloseAgain, CloseFlushed, CloseTimesOut
  <2>3. UNCHANGED <<synchronousSend, items, count, sends, received, written,
                   flush, alive, fate>>
    BY <1>11 DEF CloseFirst, CloseAgain, CloseFlushed, CloseTimesOut
  <2> QED
    BY <2>1, <2>2, <2>3
<1>12. CASE ProcessEnds
  BY <1>12 DEF ProcessEnds
<1>13. CASE Ended \/ UNCHANGED vars
  BY <1>13 DEF Ended, vars
<1> QED
  BY <1>1, <1>2, <1>3, <1>4, <1>5, <1>6, <1>7, <1>8, <1>9, <1>10, <1>11,
     <1>12, <1>13 DEF Next, FlushLoop

\* The type invariant holds of every behaviour of the writer: no step indexes
\* a slot outside the array, Pop never returns a null, and no call of
\* SendTracesAsync makes more than RetryLimit attempts.
THEOREM TypeCorrect == Spec => []TypeOK
<1>1. TypeInv => TypeOK
  BY DEF TypeInv
<1> QED
  BY <1>1, TypeInvInit, TypeInvStep, PTL DEF Spec

-----------------------------------------------------------------------------
(***************************************************************************)
(* The safety properties.                                                  *)
(*                                                                         *)
(* The inductive invariant IInv is the type invariant and four parts, each *)
(* of which is preserved given those before it: what the flush task's      *)
(* place in its loop says about the rest (ControlInv), where a trace is    *)
(* (PlaceInv), how often the collector can have it by then (CountInv), and *)
(* what is left of the traces that preceded the exit signal (ExitInv).     *)
(***************************************************************************)

ControlInv ==
    /\ flush.pc # "popped" => flush.popped = {}
    /\ flush.pc # "sending" => sends[Loop].st = "idle"
    /\ \A s \in Senders : sends[s].st = "idle" => sends[s].traces = {}
    /\ synchronousSend => flush.pc = "done" /\ count = 0
    /\ ~synchronousSend => \A w \in Writers : sends[w].st = "idle"

PlaceInv ==
    /\ OnePlace
    /\ \A t \in Traces : t \notin written => fate[t] = "none"

\* Acceptances that the attempts made so far by a call can have led to.
AcceptedSoFar(s) ==
    IF sends[s].st = "post" THEN sends[s].retryCount - 1 ELSE sends[s].retryCount

CountInv ==
    /\ DeliveryBound
    /\ \A t \in Traces :
          t \notin written \/ InBuffer(t) \/ t \in flush.popped => received[t] = 0
    /\ \A s \in Senders : \A t \in sends[s].traces : received[t] <= AcceptedSoFar(s)

ExitInv ==
    /\ ~processExit => beforeExit = {}
    /\ flush.closing => processExit
    /\ beforeExit \subseteq written
    /\ flush.pc = "done" /\ ~synchronousSend => processExit
    /\ flush.closing /\ flush.pc \in {"popped", "sending"}
          => \A t \in beforeExit : ~InBuffer(t)
    /\ LastFlushCoversExit
    /\ \A c \in Closers : closer[c] = "flushed" => flush.pc = "done"

IInv == TypeInv /\ ControlInv /\ PlaceInv /\ CountInv /\ ExitInv

-----------------------------------------------------------------------------
(***************************************************************************)
(* Actions by what they leave alone.                                       *)
(***************************************************************************)

\* Steps that move no trace and no send.
Close == \E c \in Closers : CloseFirst(c) \/ CloseAgain(c) \/ CloseFlushed(c)
                               \/ CloseTimesOut(c)

Still == Close \/ ProcessEnds \/ Ended \/ UNCHANGED vars

LEMMA StillMovesNothing ==
    Still => UNCHANGED <<items, count, sends, received, synchronousSend,
                         written, flush, fate>>
  BY DEF Still, Close, CloseFirst, CloseAgain, CloseFlushed, CloseTimesOut,
         ProcessEnds, Ended, vars, bufferVars, apiVars, exitVars

\* The one way to call SendTracesAsync.
LEMMA CallSends ==
    ASSUME TypeInv, NEW s \in Senders, NEW ts \in SUBSET Traces, SendCall(s, ts)
    PROVE  /\ sends'[s] = [st |-> "post", traces |-> ts, retryCount |-> 1]
           /\ \A r \in Senders \ {s} : sends'[r] = sends[r]
  BY DEF TypeInv, TypeOK, SendCall

\* What a step of a call does to it: it returns, or it goes to sleep, or it
\* posts again.
LEMMA StepSends ==
    ASSUME TypeInv, NEW s \in Senders, SendStep(s)
    PROVE  /\ \A r \in Senders \ {s} : sends'[r] = sends[r]
           /\ sends[s].st # "idle"
           /\ \/ /\ sends'[s] = NoSend /\ sends[s].st = "post"
                 /\ \E how \in {"sent", "fatal", "exhausted"} :
                       Settle(sends[s].traces, how)
              \/ /\ sends'[s].traces = sends[s].traces
                 /\ sends'[s].st # "idle"
                 /\ UNCHANGED fate
           /\ UNCHANGED <<synchronousSend, written, flush, alive, items, count,
                          processExit, closer, beforeExit>>
<1> USE DEF TypeInv, TypeOK, SendStep, bufferVars, exitVars
<1>1. CASE PostSucceeds(s) /\ Settle(sends[s].traces, "sent")
  BY <1>1 DEF PostSucceeds, SendReturns
<1>2. CASE PostFatal(s) /\ Settle(sends[s].traces, "fatal")
  BY <1>2 DEF PostFatal, SendReturns
<1>3. CASE PostExhausted(s) /\ Settle(sends[s].traces, "exhausted")
  BY <1>3 DEF PostExhausted, SendReturns
<1>4. CASE PostRetries(s) /\ UNCHANGED fate
  BY <1>4 DEF PostRetries
<1>5. CASE BackoffEnds(s) /\ UNCHANGED fate
  BY <1>5 DEF BackoffEnds
<1> QED
  BY <1>1, <1>2, <1>3, <1>4, <1>5

-----------------------------------------------------------------------------
LEMMA ControlInit == Init => ControlInv
  BY DEF Init, ControlInv, SendInit, NoSend, BufferInit, Senders

\* The flush task holds popped traces only between Pop and the send, runs a
\* send only while it waits for it, and in each mode the other's senders and
\* buffer stay empty.
LEMMA ControlStep == TypeInv /\ ControlInv /\ [Next]_vars => ControlInv'
<1> SUFFICES ASSUME TypeInv, ControlInv, [Next]_vars PROVE ControlInv'
  OBVIOUS
<1> USE WriterAssumption DEF TypeInv, TypeOK, ControlInv, Senders,
       bufferVars, apiVars, exitVars
<1>1. ASSUME NEW t \in Traces, WriteTrace(t) PROVE ControlInv'
  BY <1>1 DEF WriteTrace
<1>2. ASSUME NEW t \in Traces, NEW i \in Slots, WriteTraceFull(t, i)
      PROVE ControlInv'
  BY <1>2 DEF WriteTraceFull
<1>3. ASSUME NEW w \in Writers, NEW t \in Traces, WriteTraceSync(w, t)
      PROVE ControlInv'
  <2>1. /\ sends'[w] = [st |-> "post", traces |-> {t}, retryCount |-> 1]
        /\ \A r \in Senders \ {w} : sends'[r] = sends[r]
    BY <1>3, CallSends DEF WriteTraceSync
  <2> QED
    BY <1>3, <2>1 DEF WriteTraceSync
<1>4. CASE FlushWakes
  BY <1>4 DEF FlushWakes
<1>5. CASE FlushPops
  BY <1>5 DEF FlushPops, Pop
<1>6. CASE FlushMetricsFail
  BY <1>6 DEF FlushMetricsFail
<1>7. CASE FlushNothing
  BY <1>7 DEF FlushNothing, FlushEnds
<1>8. CASE FlushSends
  <2>1. /\ sends'[Loop] = [st |-> "post", traces |-> flush.popped, retryCount |-> 1]
        /\ \A r \in Senders \ {Loop} : sends'[r] = sends[r]
    BY <1>8, CallSends DEF FlushSends
  <2> QED
    BY <1>8, <2>1 DEF FlushSends
<1>9. CASE FlushSent
  BY <1>9 DEF FlushSent, FlushEnds
<1>10. ASSUME NEW s \in Senders, SendStep(s) PROVE ControlInv'
  <2>1. \A r \in Senders : sends[r].st = "idle" => sends'[r] = sends[r]
    BY <1>10, StepSends
  <2>2. \A r \in Senders : sends'[r].st = "idle" => sends'[r].traces = {}
    BY <1>10, StepSends DEF NoSend
  <2>3. UNCHANGED <<flush, count, synchronousSend>>
    BY <1>10, StepSends
  <2> QED
    BY <2>1, <2>2, <2>3
<1>11. CASE Still
  BY <1>11, StillMovesNothing
<1> QED
  BY <1>1, <1>2, <1>3, <1>4, <1>5, <1>6, <1>7, <1>8, <1>9, <1>10, <1>11
  DEF Next, FlushLoop, Still, Close

-----------------------------------------------------------------------------
LEMMA PlaceInit == Init => PlaceInv
  BY WriterAssumption DEF Init, PlaceInv, OnePlace, SendInit, NoSend, BufferInit, Slots,
     Unsettled, InBuffer, InFlight

\* A trace is in one place before and after each step.
LEMMA PlaceStep ==
    TypeInv /\ ControlInv /\ PlaceInv /\ [Next]_vars => PlaceInv'
<1> SUFFICES ASSUME TypeInv, ControlInv, PlaceInv, [Next]_vars PROVE PlaceInv'
  OBVIOUS
<1> USE DEF PlaceInv, OnePlace, Unsettled, InBuffer, InFlight
<1>a. /\ items \in [Slots -> Traces \cup {NoTrace}] /\ NoTrace \notin Traces
      /\ fate \in [Traces -> Fates]
      /\ flush.popped \subseteq Traces
      /\ \A s \in Senders : sends[s].traces \subseteq Traces
  BY WriterAssumption DEF TypeInv, TypeOK
<1>b. \A i \in Slots : i < count <=> items[i] \in Traces
  BY <1>a DEF TypeInv, BufferShape
<1>1. ASSUME NEW t \in Traces, WriteTrace(t) PROVE PlaceInv'
  <2>1. /\ t \notin written /\ written' = written \cup {t}
        /\ UNCHANGED <<flush, fate, sends>>
        /\ count \in Slots /\ items[count] \notin Traces
        /\ items' = [items EXCEPT ![count] = t]
    BY <1>1, <1>b, WriterAssumption
    DEF WriteTrace, PushFree, apiVars, TypeInv, TypeOK, Slots
  <2>2. items'[count] = t /\ \A i \in Slots : items'[i] = t => i = count
    BY <1>a, <2>1
  <2>3. \A u \in Traces \ {t} : \A i \in Slots : items'[i] = u <=> items[i] = u
    BY <1>a, <2>1
  <2> QED
    BY <2>1, <2>2, <2>3
<1>2. ASSUME NEW t \in Traces, NEW i \in Slots, WriteTraceFull(t, i)
      PROVE PlaceInv'
  <2> PICK old : old = items[i]
    OBVIOUS
  <2>1. /\ t \notin written /\ written' = written \cup {t}
        /\ UNCHANGED <<flush, sends>>
        /\ items' = [items EXCEPT ![i] = t]
        /\ fate' = [u \in Traces |-> IF u = old THEN "overwritten" ELSE fate[u]]
        /\ old \in Traces
    BY <1>2, <1>b, WriterAssumption
    DEF WriteTraceFull, PushFull, Settle, apiVars, TypeInv, TypeOK, Slots
  <2>2. old # t /\ old \in written
    BY <2>1
  <2>3. items'[i] = t /\ \A j \in Slots : items'[j] = t => j = i
    BY <1>a, <2>1
  <2>4. ~InBuffer(old)'
    <3>1. \A j \in Slots : items[j] = old => j = i
      BY <2>1
    <3>2. \A j \in Slots : items'[j] # old
      BY <1>a, <2>1, <2>2, <3>1
    <3> QED
      BY <3>2
  <2>5. \A u \in Traces \ {t, old} : \A j \in Slots : items'[j] = u <=> items[j] = u
    BY <1>a, <2>1
  <2>6. old \notin flush.popped /\ ~InFlight(old)
    BY <2>1
  <2>7. fate'[t] = "none" /\ fate'[old] = "overwritten"
        /\ \A u \in Traces \ {old} : fate'[u] = fate[u]
    BY <2>1, <2>2
  <2> QED
    BY <2>1, <2>2, <2>3, <2>4, <2>5, <2>6, <2>7
<1>3. ASSUME NEW w \in Writers, NEW t \in Traces, WriteTraceSync(w, t)
      PROVE PlaceInv'
  <2>1. /\ w \in Senders
        /\ sends'[w].traces = {t}
        /\ sends[w].traces = {}
        /\ \A r \in Senders \ {w} : sends'[r] = sends[r]
    <3>1. w \in Senders /\ sends[w].st = "idle" /\ SendCall(w, {t})
      BY <1>3 DEF WriteTraceSync, Senders
    <3>2. sends[w].traces = {}
      BY <3>1 DEF ControlInv
    <3>3. /\ sends'[w] = [st |-> "post", traces |-> {t}, retryCount |-> 1]
          /\ \A r \in Senders \ {w} : sends'[r] = sends[r]
      <4>1. {t} \in SUBSET Traces
        OBVIOUS
      <4> QED
        BY <3>1, <4>1, CallSends, Zenon
    <3> QED
      BY <3>1, <3>2, <3>3
  <2>2. /\ t \notin written /\ written' = written \cup {t}
        /\ UNCHANGED <<flush, fate, items>>
    BY <1>3 DEF WriteTraceSync, bufferVars
  <2> QED
    BY <2>1, <2>2
<1>4. CASE FlushWakes
  BY <1>4, <1>a DEF FlushWakes, bufferVars, apiVars, TypeInv, TypeOK
<1>5. CASE FlushPops
  <2>1. /\ flush.popped = {} /\ flush'.popped = Queued
        /\ \A i \in Slots : items'[i] = NoTrace
        /\ UNCHANGED <<written, fate, sends>>
    BY <1>5 DEF FlushPops, Pop, apiVars, ControlInv, TypeInv, TypeOK
  <2>2. \A u \in Traces : u \in Queued <=> InBuffer(u)
    BY <1>b, WriterAssumption DEF Queued, TypeInv, TypeOK, Slots
  <2> QED
    BY <1>a, <2>1, <2>2
<1>6. CASE FlushMetricsFail
  <2>1. /\ flush'.popped = {} /\ UNCHANGED <<written, items, sends>>
        /\ \A u \in Traces : fate'[u] = IF u \in flush.popped THEN "metricsError" ELSE fate[u]
    BY <1>6 DEF FlushMetricsFail, Settle, bufferVars, apiVars, TypeInv, TypeOK
  <2> QED
    BY <1>a, <2>1
<1>7. CASE FlushNothing
  BY <1>7 DEF FlushNothing, FlushEnds, bufferVars, apiVars, TypeInv, TypeOK
<1>8. CASE FlushSends
  <2>1. /\ Loop \in Senders
        /\ sends'[Loop].traces = flush.popped
        /\ sends[Loop].traces = {}
        /\ \A r \in Senders \ {Loop} : sends'[r] = sends[r]
    <3>1. Loop \in Senders /\ flush.pc = "popped" /\ SendCall(Loop, flush.popped)
      BY <1>8 DEF FlushSends, Senders
    <3>2. sends[Loop].traces = {}
      BY <3>1 DEF ControlInv
    <3>3. /\ sends'[Loop] = [st |-> "post", traces |-> flush.popped, retryCount |-> 1]
          /\ \A r \in Senders \ {Loop} : sends'[r] = sends[r]
      BY <1>a, <3>1, CallSends
    <3> QED
      BY <3>1, <3>2, <3>3
  <2>2. flush'.popped = {} /\ UNCHANGED <<written, fate, items>>
    BY <1>8 DEF FlushSends, bufferVars, TypeInv, TypeOK
  <2>3. \A r \in Senders :
           sends'[r].traces = IF r = Loop THEN flush.popped ELSE sends[r].traces
    BY <2>1
  <2>4. \A u \in Traces : InFlight(u)' <=> u \in flush.popped \/ InFlight(u)
    BY <2>1, <2>3
  <2>5. \A u \in Traces : \A q, r \in Senders :
           u \in sends'[q].traces /\ u \in sends'[r].traces => q = r
    BY <2>1, <2>3
  <2> HIDE DEF InFlight
  <2> QED
    BY <2>2, <2>4, <2>5
<1>9. CASE FlushSent
  BY <1>9 DEF FlushSent, FlushEnds, ControlInv, bufferVars, apiVars, TypeInv, TypeOK
<1>10. ASSUME NEW s \in Senders, SendStep(s) PROVE PlaceInv'
  <2>1. UNCHANGED <<written, flush, items>> /\ \A r \in Senders \ {s} : sends'[r] = sends[r]
    BY <1>10, StepSends
  <2>2. CASE sends'[s].traces = sends[s].traces /\ UNCHANGED fate
    <3>1. \A r \in Senders : sends'[r].traces = sends[r].traces
      BY <2>1, <2>2
    <3> QED
      BY <2>1, <2>2, <3>1
  <2>3. ASSUME NEW how \in {"sent", "fatal", "exhausted"},
               sends'[s] = NoSend, Settle(sends[s].traces, how)
        PROVE  PlaceInv'
    <3>1. \A r \in Senders : sends'[r].traces = IF r = s THEN {} ELSE sends[r].traces
      BY <2>1, <2>3 DEF NoSend
    <3>2. \A u \in Traces : fate'[u] = IF u \in sends[s].traces THEN how ELSE fate[u]
      BY <2>3 DEF Settle
    <3>3. \A u \in sends[s].traces :
             u \in Traces /\ u \in written /\ ~InBuffer(u) /\ u \notin flush.popped
      BY <1>a
    <3>4. \A u \in sends[s].traces : \A r \in Senders : u \notin sends'[r].traces
      BY <1>a, <3>1
    <3>5. \A u \in Traces \ sends[s].traces : \A r \in Senders :
             u \in sends'[r].traces <=> u \in sends[r].traces
      BY <3>1
    <3>6. ASSUME NEW u \in Traces
          PROVE  /\ Unsettled(u)' <=> InBuffer(u)' \/ u \in flush'.popped \/ InFlight(u)'
                 /\ InBuffer(u)' => u \notin flush'.popped /\ ~InFlight(u)'
                 /\ u \in flush'.popped => ~InFlight(u)'
                 /\ u \notin written' => fate'[u] = "none"
      <4>1. CASE u \in sends[s].traces
        BY <4>1, <2>1, <3>2, <3>3, <3>4
      <4>2. CASE u \notin sends[s].traces
        BY <4>2, <2>1, <3>2, <3>5
      <4> QED
        BY <4>1, <4>2
    <3>7. \A u \in Traces : \A q, r \in Senders :
             u \in sends'[q].traces /\ u \in sends'[r].traces => q = r
      BY <3>1
    <3>8. \A u \in Traces : \A i, j \in Slots : items'[i] = u /\ items'[j] = u => i = j
      BY <2>1
    <3> HIDE DEF Unsettled, InBuffer, InFlight
    <3> QED
      BY <3>6, <3>7, <3>8
  <2> QED
    BY <1>10, StepSends, <2>2, <2>3
<1>11. CASE Still
  BY <1>11, StillMovesNothing
<1> QED
  BY <1>1, <1>2, <1>3, <1>4, <1>5, <1>6, <1>7, <1>8, <1>9, <1>10, <1>11
  DEF Next, FlushLoop, Still, Close

-----------------------------------------------------------------------------
LEMMA CountInit == Init => CountInv
  BY WriterAssumption
  DEF Init, CountInv, DeliveryBound, SendInit, NoSend, BufferInit, Slots, InBuffer

\* What a step of a call adds to the acceptances of its traces, and what the
\* sender says when it returns.
LEMMA StepCounts ==
    ASSUME TypeInv, NEW s \in Senders, SendStep(s)
    PROVE  /\ \A t \in Traces \ sends[s].traces : received'[t] = received[t]
           /\ \/ /\ sends[s].st = "post"
                 /\ \A t \in sends[s].traces :
                       received'[t] \in {received[t], received[t] + 1}
                 /\ \/ sends'[s] = NoSend /\ Settle(sends[s].traces, "fatal")
                    \/ sends'[s] = NoSend /\ Settle(sends[s].traces, "exhausted")
                    \/ /\ sends'[s] = NoSend /\ Settle(sends[s].traces, "sent")
                       /\ \A t \in sends[s].traces : received'[t] = received[t] + 1
                    \/ /\ sends'[s] = [sends[s] EXCEPT !.st = "backoff"]
                       /\ UNCHANGED fate
              \/ /\ sends[s].st = "backoff"
                 /\ sends'[s].st = "post" /\ sends'[s].traces = sends[s].traces
                 /\ sends'[s].retryCount = sends[s].retryCount + 1
                 /\ UNCHANGED <<received, fate>>
<1> USE DEF TypeInv, TypeOK
<1>a. /\ sends[s].traces \subseteq Traces
      /\ received \in [Traces -> Nat]
  OBVIOUS
<1>1. CASE PostSucceeds(s) /\ Settle(sends[s].traces, "sent")
  BY <1>1, <1>a DEF PostSucceeds, SendReturns, Accepted
<1>2. CASE PostFatal(s) /\ Settle(sends[s].traces, "fatal")
  BY <1>2, <1>a DEF PostFatal, SendReturns
<1>3. CASE PostExhausted(s) /\ Settle(sends[s].traces, "exhausted")
  BY <1>3, <1>a DEF PostExhausted, SendReturns, FailedPost, Accepted
<1>4. CASE PostRetries(s) /\ UNCHANGED fate
  BY <1>4, <1>a DEF PostRetries, FailedPost, Accepted
<1>5. CASE BackoffEnds(s) /\ UNCHANGED fate
  BY <1>5, <1>a DEF BackoffEnds
<1> QED
  BY <1>1, <1>2, <1>3, <1>4, <1>5 DEF SendStep

\* The collector has a trace no more often than its call has made attempts.
LEMMA CountStep ==
    /\ TypeInv /\ ControlInv /\ PlaceInv /\ CountInv
    /\ [Next]_vars
    => CountInv'
<1> SUFFICES ASSUME TypeInv, ControlInv, PlaceInv, CountInv, [Next]_vars
             PROVE  CountInv'
  OBVIOUS
<1> USE DEF CountInv, DeliveryBound, InBuffer
<1>a. /\ RetryLimit \in Nat \ {0}
      /\ received \in [Traces -> Nat]
      /\ fate \in [Traces -> Fates]
      /\ flush.popped \subseteq Traces /\ written \subseteq Traces
      /\ items \in [Slots -> Traces \cup {NoTrace}] /\ NoTrace \notin Traces
      /\ \A s \in Senders : /\ sends[s].traces \subseteq Traces
                            /\ sends[s].retryCount \in 0 .. RetryLimit
                            /\ sends[s].st \in {"idle", "post", "backoff"}
  BY WriterAssumption DEF TypeInv, TypeOK
<1>1. ASSUME NEW t \in Traces, WriteTrace(t) PROVE CountInv'
  <2>1. /\ t \notin written /\ written' = written \cup {t}
        /\ UNCHANGED <<flush, fate, sends, received>>
        /\ items' = [items EXCEPT ![count] = t]
    BY <1>1 DEF WriteTrace, PushFree, apiVars
  <2>2. \A u \in Traces : InBuffer(u)' => InBuffer(u) \/ u = t
    BY <1>a, <2>1
  <2> QED
    BY <1>a, <2>1, <2>2 DEF AcceptedSoFar
<1>2. ASSUME NEW t \in Traces, NEW i \in Slots, WriteTraceFull(t, i)
      PROVE CountInv'
  <2> PICK old : old = items[i]
    OBVIOUS
  <2>1. /\ t \notin written /\ written' = written \cup {t}
        /\ UNCHANGED <<flush, sends, received>>
        /\ items' = [items EXCEPT ![i] = t]
        /\ fate' = [u \in Traces |-> IF u = old THEN "overwritten" ELSE fate[u]]
    BY <1>2 DEF WriteTraceFull, PushFull, Settle, apiVars
  <2>2. \A u \in Traces : InBuffer(u)' => InBuffer(u) \/ u = t
    BY <1>a, <2>1
  <2>3. old \in Traces => received[old] = 0
    OBVIOUS
  <2> QED
    BY <1>a, <2>1, <2>2, <2>3 DEF AcceptedSoFar
<1>3. ASSUME NEW w \in Writers, NEW t \in Traces, WriteTraceSync(w, t)
      PROVE CountInv'
  <2>1. /\ w \in Senders
        /\ sends'[w] = [st |-> "post", traces |-> {t}, retryCount |-> 1]
        /\ \A r \in Senders \ {w} : sends'[r] = sends[r]
    BY <1>3, CallSends DEF WriteTraceSync, Senders
  <2>2. /\ t \notin written /\ written' = written \cup {t}
        /\ UNCHANGED <<flush, fate, items, received>>
    BY <1>3 DEF WriteTraceSync, bufferVars
  <2>3. received[t] = 0
    BY <2>2
  <2> QED
    BY <1>a, <2>1, <2>2, <2>3 DEF AcceptedSoFar
<1>4. CASE FlushWakes
  BY <1>4, <1>a DEF FlushWakes, bufferVars, apiVars, AcceptedSoFar, TypeInv, TypeOK
<1>5. CASE FlushPops
  <2>1. /\ flush'.popped = Queued
        /\ \A i \in Slots : items'[i] = NoTrace
        /\ UNCHANGED <<written, fate, sends, received>>
    BY <1>5 DEF FlushPops, Pop, apiVars, TypeInv, TypeOK
  <2>2. \A u \in Traces : u \in Queued => InBuffer(u)
    BY WriterAssumption DEF Queued, TypeInv, TypeOK, Slots
  <2> QED
    BY <1>a, <2>1, <2>2 DEF AcceptedSoFar
<1>6. CASE FlushMetricsFail
  <2>1. /\ flush'.popped = {} /\ UNCHANGED <<written, items, sends, received>>
        /\ \A u \in Traces : fate'[u] = IF u \in flush.popped THEN "metricsError" ELSE fate[u]
    BY <1>6 DEF FlushMetricsFail, Settle, bufferVars, apiVars, TypeInv, TypeOK
  <2> QED
    BY <1>a, <2>1 DEF AcceptedSoFar
<1>7. CASE FlushNothing
  BY <1>7, <1>a DEF FlushNothing, FlushEnds, bufferVars, apiVars, AcceptedSoFar, TypeInv, TypeOK
<1>8. CASE FlushSends
  <2>1. /\ Loop \in Senders
        /\ sends'[Loop] = [st |-> "post", traces |-> flush.popped, retryCount |-> 1]
        /\ \A r \in Senders \ {Loop} : sends'[r] = sends[r]
    BY <1>8, <1>a, CallSends DEF FlushSends, Senders
  <2>2. flush'.popped = {} /\ UNCHANGED <<written, fate, items, received>>
    BY <1>8 DEF FlushSends, bufferVars, TypeInv, TypeOK
  <2> QED
    BY <1>a, <2>1, <2>2 DEF AcceptedSoFar
<1>9. CASE FlushSent
  BY <1>9, <1>a
  DEF FlushSent, FlushEnds, ControlInv, bufferVars, apiVars, AcceptedSoFar, TypeInv, TypeOK
<1>10. ASSUME NEW s \in Senders, SendStep(s) PROVE CountInv'
  <2>1. UNCHANGED <<written, flush, items>> /\ \A r \in Senders \ {s} : sends'[r] = sends[r]
    BY <1>10, StepSends
  <2>2. \A u \in sends[s].traces :
           u \in written /\ ~InBuffer(u) /\ u \notin flush.popped /\ fate[u] = "none"
    BY <1>a DEF PlaceInv, OnePlace, Unsettled, InFlight
  <2>3. \A u \in sends[s].traces : \A r \in Senders \ {s} : u \notin sends[r].traces
    BY <1>a DEF PlaceInv, OnePlace
  <2>4. \A u \in Traces \ sends[s].traces : received'[u] = received[u]
    BY <1>10, StepCounts
  <2>5. \A u \in Traces :
           u \notin written' \/ InBuffer(u)' \/ u \in flush'.popped => received'[u] = 0
    BY <2>1, <2>2, <2>4
  <2>6. \A r \in Senders \ {s} : \A u \in sends'[r].traces :
           received'[u] <= AcceptedSoFar(r)'
    BY <1>a, <2>1, <2>3, <2>4 DEF AcceptedSoFar
  <2> DEFINE Sane ==
          /\ \A u \in sends[s].traces : received'[u] \in Nat /\ received'[u] <= RetryLimit
          /\ \A u \in sends'[s].traces : received'[u] <= AcceptedSoFar(s)'
          /\ \A u \in Traces :
                /\ fate'[u] \in {"overwritten", "metricsError"} => received'[u] = 0
                /\ fate'[u] = "sent" => received'[u] > 0
  <2>7. Sane
    <3> DEFINE ts == sends[s].traces
    <3>1. CASE sends[s].st = "backoff"
      <4>1. /\ sends'[s].st = "post" /\ sends'[s].traces = ts
            /\ sends'[s].retryCount = sends[s].retryCount + 1
            /\ UNCHANGED <<received, fate>>
        BY <1>10, <3>1, StepCounts
      <4>2. AcceptedSoFar(s)' = AcceptedSoFar(s)
        BY <1>a, <3>1, <4>1 DEF AcceptedSoFar
      <4> QED
        BY <1>a, <4>1, <4>2
    <3>2. CASE sends[s].st = "post"
      <4>1. \A u \in ts : /\ received[u] \in Nat
                          /\ received[u] + 1 <= sends[s].retryCount
                          /\ received'[u] \in {received[u], received[u] + 1}
        <5>1. \A u \in ts : received'[u] \in {received[u], received[u] + 1}
          BY <1>10, <3>2, StepCounts
        <5>2. \A u \in ts : received[u] \in Nat /\ received[u] <= sends[s].retryCount - 1
          BY <1>a, <3>2 DEF AcceptedSoFar
        <5> QED
          BY <1>a, <5>1, <5>2
      <4>2. \A u \in ts : received'[u] \in Nat /\ received'[u] <= sends[s].retryCount
        BY <1>a, <4>1
      <4>3. CASE sends'[s] = [sends[s] EXCEPT !.st = "backoff"] /\ UNCHANGED fate
        <5>1. sends'[s].st = "backoff" /\ sends'[s].traces = ts
              /\ sends'[s].retryCount = sends[s].retryCount
          BY <4>3 DEF TypeInv, TypeOK
        <5>2. AcceptedSoFar(s)' = sends[s].retryCount
          BY <5>1 DEF AcceptedSoFar
        <5> QED
          BY <1>a, <2>2, <2>4, <4>2, <4>3, <5>1, <5>2
      <4>4. ASSUME NEW how \in {"fatal", "exhausted", "sent"},
                   sends'[s] = NoSend, Settle(ts, how),
                   how = "sent" => \A u \in ts : received'[u] = received[u] + 1
            PROVE  Sane
        <5>1. sends'[s].traces = {}
          BY <4>4 DEF NoSend
        <5>2. \A u \in Traces : fate'[u] = IF u \in ts THEN how ELSE fate[u]
          BY <4>4 DEF Settle
        <5> QED
          BY <1>a, <2>4, <4>1, <4>2, <4>4, <5>1, <5>2
      <4> QED
        BY <1>10, <3>2, <4>3, <4>4, StepCounts
    <3> QED
      BY <1>10, <3>1, <3>2, StepCounts
  <2> QED
    BY <2>4, <2>5, <2>6, <2>7
<1>11. CASE Still
  BY <1>11, <1>a, StillMovesNothing DEF AcceptedSoFar
<1> QED
  BY <1>1, <1>2, <1>3, <1>4, <1>5, <1>6, <1>7, <1>8, <1>9, <1>10, <1>11
  DEF Next, FlushLoop, Still, Close

-----------------------------------------------------------------------------
LEMMA ExitInit == Init => ExitInv
  BY DEF Init, ExitInv, LastFlushCoversExit

\* The writer is through with a trace that is in none of its places.
LEMMA Nowhere ==
    ASSUME TypeInv, PlaceInv, NEW t \in Traces, t \in written, ~InBuffer(t),
           t \notin flush.popped, \A s \in Senders : t \notin sends[s].traces
    PROVE  fate[t] # "none"
  BY DEF PlaceInv, OnePlace, Unsettled, InFlight

\* The last flush pops after the exit signal, so that from then on the traces
\* that preceded the signal are popped, sent or settled, and none is left when
\* the task is done.
LEMMA ExitStep ==
    /\ TypeInv /\ ControlInv /\ PlaceInv /\ ExitInv
    /\ [Next]_vars
    => ExitInv'
<1> SUFFICES ASSUME TypeInv, ControlInv, PlaceInv, ExitInv, [Next]_vars
             PROVE  ExitInv'
  OBVIOUS
<1> USE DEF ExitInv, LastFlushCoversExit
<1>a. /\ fate \in [Traces -> Fates] /\ beforeExit \subseteq Traces
      /\ flush \in [pc : {"delay", "pop", "popped", "sending", "done"},
                    closing : BOOLEAN, popped : SUBSET Traces]
      /\ items \in [Slots -> Traces \cup {NoTrace}]
  BY DEF TypeInv, TypeOK
<1>b. flush.pc # "popped" => flush.popped = {}
  BY DEF ControlInv
<1>1. ASSUME NEW t \in Traces, WriteTrace(t) PROVE ExitInv'
  <2>1. /\ t \notin written /\ written' = written \cup {t}
        /\ UNCHANGED <<flush, fate, processExit, closer, beforeExit, synchronousSend>>
        /\ items' = [items EXCEPT ![count] = t]
    BY <1>1 DEF WriteTrace, PushFree, exitVars
  <2>2. \A u \in beforeExit : InBuffer(u)' => InBuffer(u)
    BY <1>a, <2>1 DEF InBuffer
  <2> QED
    BY <2>1, <2>2
<1>2. ASSUME NEW t \in Traces, NEW i \in Slots, WriteTraceFull(t, i)
      PROVE ExitInv'
  <2>1. /\ t \notin written /\ written' = written \cup {t}
        /\ UNCHANGED <<flush, processExit, closer, beforeExit, synchronousSend>>
        /\ items' = [items EXCEPT ![i] = t]
        /\ \A u \in Traces : fate'[u] \in {fate[u], "overwritten"}
    BY <1>2 DEF WriteTraceFull, PushFull, Settle, exitVars
  <2>2. \A u \in beforeExit : InBuffer(u)' => InBuffer(u)
    BY <1>a, <2>1 DEF InBuffer
  <2> QED
    BY <1>a, <2>1, <2>2
<1>3. ASSUME NEW w \in Writers, NEW t \in Traces, WriteTraceSync(w, t)
      PROVE ExitInv'
  BY <1>3 DEF WriteTraceSync, bufferVars, exitVars, InBuffer
<1>4. CASE FlushWakes
  BY <1>4, <1>a DEF FlushWakes, bufferVars, apiVars, exitVars, InBuffer
<1>5. CASE FlushPops
  <2>1. /\ flush'.pc = "popped" /\ flush'.closing = flush.closing
        /\ \A j \in Slots : items'[j] = NoTrace
        /\ UNCHANGED <<written, fate, processExit, closer, beforeExit, synchronousSend>>
        /\ flush.pc = "pop"
    BY <1>5, <1>a DEF FlushPops, Pop, exitVars
  <2>2. \A u \in Traces : ~InBuffer(u)'
    BY <2>1, WriterAssumption DEF InBuffer
  <2> QED
    BY <1>a, <2>1, <2>2
<1>6. CASE FlushMetricsFail
  <2>1. /\ flush'.pc = "delay" /\ flush'.closing = flush.closing /\ flush.pc = "popped"
        /\ UNCHANGED <<written, processExit, closer, beforeExit, synchronousSend>>
    BY <1>6, <1>a DEF FlushMetricsFail, exitVars
  <2> QED
    BY <2>1
<1>7. ASSUME FlushEnds,
             flush.popped = {}, \A s \in Senders : sends[s].traces = {},
             flush.pc \in {"popped", "sending"},
             UNCHANGED <<written, fate, items, processExit, closer, beforeExit,
                         synchronousSend>>
      PROVE  ExitInv'
  <2>1. flush'.closing = flush.closing
        /\ flush'.pc = IF flush.closing THEN "done" ELSE "delay"
    BY <1>7, <1>a DEF FlushEnds
  <2>2. flush.closing => \A u \in beforeExit : fate[u] # "none"
    BY <1>7, <1>a, Nowhere
  <2> QED
    BY <1>7, <2>1, <2>2
<1>8. ASSUME ~synchronousSend, sends[Loop].st = "idle"
      PROVE  \A s \in Senders : sends[s].traces = {}
  BY <1>8 DEF ControlInv, Senders
<1>9. CASE FlushNothing
  <2>1. ~synchronousSend /\ sends[Loop].st = "idle"
    BY <1>9 DEF FlushNothing, ControlInv
  <2> QED
    BY <1>7, <1>8, <1>9, <2>1 DEF FlushNothing, bufferVars, exitVars
<1>10. CASE FlushSends
  <2>1. /\ flush'.pc = "sending" /\ flush'.closing = flush.closing /\ flush.pc = "popped"
        /\ UNCHANGED <<written, fate, items, processExit, closer, beforeExit, synchronousSend>>
    BY <1>10, <1>a DEF FlushSends, bufferVars, exitVars
  <2> QED
    BY <2>1 DEF InBuffer
<1>11. CASE FlushSent
  <2>1. ~synchronousSend /\ sends[Loop].st = "idle"
    BY <1>11 DEF FlushSent, ControlInv
  <2> QED
    BY <1>7, <1>8, <1>11, <1>b, <2>1 DEF FlushSent, bufferVars, exitVars
<1>12. ASSUME NEW s \in Senders, SendStep(s) PROVE ExitInv'
  <2>1. UNCHANGED <<written, flush, items, processExit, closer, beforeExit, synchronousSend>>
    BY <1>12, StepSends
  <2>2. \A u \in beforeExit : fate[u] # "none" => fate'[u] # "none"
    BY <1>12, <1>a, StepSends DEF Settle
  <2> QED
    BY <2>1, <2>2 DEF InBuffer
<1>13. ASSUME NEW c \in Closers, CloseFirst(c) PROVE ExitInv'
  <2>1. /\ ~processExit /\ processExit'
        /\ UNCHANGED <<synchronousSend, written, flush, fate, items>>
        /\ beforeExit' = {t \in written : \A w \in Writers : t \notin sends[w].traces}
        /\ \A d \in Closers : closer'[d] = "flushed" => closer[d] = "flushed"
    BY <1>13 DEF CloseFirst, bufferVars, TypeInv, TypeOK
  <2>2. ~flush.closing /\ (flush.pc = "done" => synchronousSend)
    BY <2>1
  <2>3. ASSUME flush.pc = "done", NEW t \in beforeExit' PROVE fate[t] # "none"
    <3>1. count = 0 /\ sends[Loop].traces = {} /\ flush.popped = {}
      BY <2>2, <2>3, <1>b DEF ControlInv, Senders
    <3>2. t \in Traces /\ t \in written
      BY <2>1, <2>3 DEF TypeInv, TypeOK
    <3>3. ~InBuffer(t)
      BY <3>1, <3>2, WriterAssumption DEF InBuffer, TypeInv, BufferShape, Slots
    <3> QED
      BY <2>1, <2>3, <3>1, <3>2, <3>3, Nowhere DEF Senders
  <2> QED
    BY <2>1, <2>2, <2>3
<1>14. ASSUME NEW c \in Closers, CloseAgain(c) \/ CloseFlushed(c) \/ CloseTimesOut(c)
       PROVE  ExitInv'
  <2>1. /\ UNCHANGED <<synchronousSend, written, flush, fate, items, processExit, beforeExit>>
        /\ \A d \in Closers :
              closer'[d] = "flushed" => closer[d] = "flushed" \/ flush.pc = "done"
    BY <1>14 DEF CloseAgain, CloseFlushed, CloseTimesOut, bufferVars, TypeInv, TypeOK
  <2> QED
    BY <2>1 DEF InBuffer
<1>15. CASE ProcessEnds \/ Ended \/ UNCHANGED vars
  BY <1>15 DEF ProcessEnds, Ended, vars, bufferVars, exitVars, InBuffer
<1> QED
  BY <1>1, <1>2, <1>3, <1>4, <1>5, <1>6, <1>9, <1>10, <1>11, <1>12, <1>13, <1>14, <1>15
  DEF Next, FlushLoop

-----------------------------------------------------------------------------
LEMMA IInvInit == Init => IInv
  BY TypeInvInit, ControlInit, PlaceInit, CountInit, ExitInit DEF IInv

LEMMA IInvStep == IInv /\ [Next]_vars => IInv'
  BY TypeInvStep, ControlStep, PlaceStep, CountStep, ExitStep DEF IInv

LEMMA Invariance == Spec => []IInv
  BY IInvInit, IInvStep, PTL DEF Spec

\* No trace vanishes and none is in two places, whatever the interleaving of
\* WriteTrace, the flush loop, its exceptions and the retries.
THEOREM OnePlaceHolds == Spec => []OnePlace
<1>1. IInv => OnePlace
  BY DEF IInv, PlaceInv
<1> QED
  BY <1>1, Invariance, PTL

\* The collector never has a trace more often than SendTracesAsync may attempt
\* to post it, and never one that the writer has overwritten.
THEOREM DeliveryBounded == Spec => []DeliveryBound
<1>1. IInv => DeliveryBound
  BY DEF IInv, CountInv
<1> QED
  BY <1>1, Invariance, PTL

\* The last flush covers what was handed over before the exit signal, for any
\* number of overlapping calls of FlushAndCloseAsync.
THEOREM ExitCovered == Spec => []LastFlushCoversExit
<1>1. IInv => LastFlushCoversExit
  BY DEF IInv, ExitInv
<1> QED
  BY <1>1, Invariance, PTL

\* What a shutdown handler is told is true: FlushAndCloseAsync reports a flush,
\* for any number of overlapping calls, only when the writer is through with
\* every trace handed over before the exit signal.
THEOREM FlushReported == Spec => []FlushedMeansFlushed
<1>1. IInv => FlushedMeansFlushed
  BY DEF IInv, ExitInv, LastFlushCoversExit, FlushedMeansFlushed
<1> QED
  BY <1>1, Invariance, PTL

-----------------------------------------------------------------------------
(***************************************************************************)
(* The refinement.  AgentWriter implements TraceDelivery: seen through     *)
(* `status', the writer with its buffer, its task, its retries and its     *)
(* shutdown only accepts, drops and attempts.                              *)
(***************************************************************************)

\* The statuses of the traces in ts become st, the others keep theirs.
Becomes(ts, st) ==
    status' = [t \in Traces |-> IF t \in ts THEN st ELSE status[t]]

LEMMA SettleBecomes ==
    ASSUME TypeInv, NEW ts \in SUBSET written, NEW how \in Fates,
           Settle(ts, how), UNCHANGED written
    PROVE  Becomes(ts, StatusOf(how))
  BY DEF TypeInv, TypeOK, Settle, Becomes, status

LEMMA WriteBecomes ==
    ASSUME TypeInv, PlaceInv, NEW t \in Traces, t \notin written,
           written' = written \cup {t}, UNCHANGED fate
    PROVE  status[t] = "new" /\ Becomes({t}, "pending")
<1>1. StatusOf("none") = "pending"
  BY DEF StatusOf
<1>2. fate[t] = "none"
  BY DEF PlaceInv
<1>3. \A u \in Traces : status'[u] = IF u = t THEN "pending" ELSE status[u]
  BY <1>1, <1>2 DEF status
<1>4. status' = [u \in Traces |-> IF u \in {t} THEN "pending" ELSE status[u]]
  BY <1>3 DEF status
<1> QED
  BY <1>4 DEF Becomes, status

LEMMA RefinementInit == Init => Delivery!Init
  BY DEF Init, SendInit, Delivery!Init, status

\* Every step of the writer is a step of TraceDelivery, or is not seen there.
LEMMA RefinementStep ==
    IInv /\ [Next]_vars => [Delivery!Next]_<<status, received>>
<1> SUFFICES ASSUME IInv, [Next]_vars
             PROVE  Delivery!Next \/ UNCHANGED <<status, received>>
  BY DEF IInv
<1> USE DEF IInv
<1>a. ASSUME UNCHANGED <<written, fate, received>>
      PROVE  UNCHANGED <<status, received>>
  BY <1>a DEF status
<1>b. \A t \in Traces : /\ status[t] = "pending" <=> Unsettled(t)
                        /\ t \in written => status[t] = StatusOf(fate[t])
  BY DEF TypeInv, TypeOK, Fates, status, StatusOf, Unsettled
<1>1. ASSUME NEW t \in Traces, WriteTrace(t) PROVE Delivery!Next
  <2>1. Delivery!Accept(t)
    BY <1>1, WriteBecomes
    DEF WriteTrace, apiVars, Delivery!Accept, Delivery!Become, Becomes
  <2> QED
    BY <2>1 DEF Delivery!Next
<1>2. ASSUME NEW w \in Writers, NEW t \in Traces, WriteTraceSync(w, t)
      PROVE  Delivery!Next
  <2>1. Delivery!Accept(t)
    BY <1>2, WriteBecomes
    DEF WriteTraceSync, Delivery!Accept, Delivery!Become, Becomes
  <2> QED
    BY <2>1 DEF Delivery!Next
<1>3. ASSUME NEW t \in Traces, NEW i \in Slots, WriteTraceFull(t, i)
      PROVE  Delivery!Next
  <2> PICK old : old = items[i]
    OBVIOUS
  <2>1. /\ t \notin written /\ written' = written \cup {t}
        /\ fate' = [u \in Traces |-> IF u = old THEN "overwritten" ELSE fate[u]]
        /\ UNCHANGED received
        /\ old \in Traces
    BY <1>3, WriterAssumption
    DEF WriteTraceFull, PushFull, Settle, apiVars, TypeInv, TypeOK, BufferShape, Slots
  <2>2. InBuffer(old)
    BY DEF InBuffer
  <2>3. Unsettled(old) /\ received[old] = 0
    BY <2>1, <2>2 DEF PlaceInv, OnePlace, CountInv
  <2>4. status[t] = "new" /\ status[old] = "pending"
    BY <1>b, <2>1, <2>3 DEF status
  <2>5. fate[t] = "none"
    BY <2>1 DEF PlaceInv
  <2>6. status' = [u \in Traces |-> IF u = t THEN "pending"
                                    ELSE IF u = old THEN "dropped" ELSE status[u]]
    <3>1. StatusOf("none") = "pending" /\ StatusOf("overwritten") = "dropped"
      BY DEF StatusOf
    <3>2. old # t /\ old \in written
      BY <2>1, <2>3 DEF Unsettled
    <3>3. \A u \in Traces : status'[u] = IF u = t THEN "pending"
                                         ELSE IF u = old THEN "dropped" ELSE status[u]
      BY <2>1, <2>5, <3>1, <3>2 DEF status
    <3> QED
      BY <3>3 DEF status
  <2>7. Delivery!AcceptInstead(t, old)
    BY <2>1, <2>3, <2>4, <2>6
    DEF Delivery!AcceptInstead, Delivery!Pending, Delivery!Become
  <2> QED
    BY <2>1, <2>7 DEF Delivery!Next
<1>4. CASE FlushMetricsFail
  <2> DEFINE ts == flush.popped
  <2>1. ts \in SUBSET Traces /\ \A t \in ts : Unsettled(t) /\ received[t] = 0
    BY DEF TypeInv, TypeOK, PlaceInv, OnePlace, CountInv
  <2>2. Becomes(ts, "dropped") /\ UNCHANGED received
    BY <1>4, <2>1, SettleBecomes
    DEF FlushMetricsFail, apiVars, Fates, StatusOf, Unsettled
  <2>3. Delivery!Drop(ts)
    BY <1>b, <2>1, <2>2 DEF Delivery!Drop, Delivery!Pending, Delivery!Become, Becomes
  <2> QED
    BY <2>1, <2>3 DEF Delivery!Next
<1>5. ASSUME NEW s \in Senders, SendStep(s)
      PROVE  Delivery!Next \/ UNCHANGED <<status, received>>
  <2> DEFINE ts == sends[s].traces
  <2>1. ts \in SUBSET Traces /\ \A t \in ts : Unsettled(t)
    BY DEF TypeInv, TypeOK, PlaceInv, OnePlace, InFlight
  <2>2. UNCHANGED written
    BY <1>5, StepSends
  <2>3. CASE sends[s].st = "post"
    <3>1. \A t \in ts : received[t] < RetryLimit
      <4>1. sends[s].retryCount \in 0 .. RetryLimit /\ RetryLimit \in Nat
            /\ received \in [Traces -> Nat]
        BY WriterAssumption DEF TypeInv, TypeOK
      <4>2. \A t \in ts : received[t] <= sends[s].retryCount - 1
        BY <2>3 DEF CountInv, AcceptedSoFar
      <4> QED
        BY <2>1, <4>1, <4>2
    <3>2. ASSUME NEW after \in {"pending", "delivered", "abandoned"},
                 Becomes(ts, after),
                 Accepted(s) \/ (UNCHANGED received /\ after # "delivered")
          PROVE  Delivery!Next
      <4>1. ts \subseteq Delivery!Pending
        BY <1>b, <2>1 DEF Delivery!Pending
      <4>2. PICK gets \in BOOLEAN :
               /\ after = "delivered" => gets
               /\ received' = [t \in Traces |->
                                  IF gets /\ t \in ts THEN received[t] + 1 ELSE received[t]]
        <5>1. CASE Accepted(s)
          BY <5>1 DEF Accepted
        <5>2. CASE UNCHANGED received /\ after # "delivered"
          BY <5>2 DEF TypeInv, TypeOK
        <5> QED
          BY <3>2, <5>1, <5>2
      <4>3. Delivery!Attempt(ts, gets, after)
        BY <3>1, <3>2, <4>1, <4>2 DEF Delivery!Attempt, Delivery!Become, Becomes
      <4> QED
        BY <2>1, <4>3 DEF Delivery!Next
    <3>3. ASSUME NEW how \in {"sent", "fatal", "exhausted"}, Settle(ts, how)
          PROVE  Becomes(ts, StatusOf(how))
      BY <2>1, <2>2, <3>3, SettleBecomes DEF Fates, Unsettled
    <3>4. CASE PostSucceeds(s) /\ Settle(ts, "sent")
      BY <3>2, <3>3, <3>4 DEF PostSucceeds, StatusOf
    <3>5. CASE PostFatal(s) /\ Settle(ts, "fatal")
      BY <3>2, <3>3, <3>5 DEF PostFatal, StatusOf
    <3>6. CASE PostExhausted(s) /\ Settle(ts, "exhausted")
      BY <3>2, <3>3, <3>6 DEF PostExhausted, FailedPost, StatusOf
    <3>7. CASE PostRetries(s) /\ UNCHANGED fate
      <4>1. Becomes(ts, "pending")
        BY <1>b, <2>1, <2>2, <3>7 DEF Becomes, status
      <4> QED
        BY <3>2, <3>7, <4>1 DEF PostRetries, FailedPost
    <3> QED
      BY <1>5, <2>3, <3>4, <3>5, <3>6, <3>7 DEF SendStep, BackoffEnds
  <2>4. CASE sends[s].st # "post"
    BY <1>5, <1>a, <2>2, <2>4
    DEF SendStep, PostSucceeds, PostFatal, PostExhausted, PostRetries, BackoffEnds
  <2> QED
    BY <2>3, <2>4
<1>6. CASE FlushWakes \/ FlushPops \/ FlushNothing \/ FlushSends \/ FlushSent
  BY <1>6, <1>a DEF FlushWakes, FlushPops, FlushNothing, FlushSends, FlushSent, apiVars
<1>7. CASE Still
  <2>1. UNCHANGED <<written, fate, received>>
    BY <1>7, StillMovesNothing
  <2> QED
    BY <1>a, <2>1
<1> QED
  BY <1>1, <1>2, <1>3, <1>4, <1>5, <1>6, <1>7 DEF Next, FlushLoop, Still, Close

\* The writer implements TraceDelivery: whatever its threads, retries, lost
\* responses and shutdown do, a trace is accepted once and ends delivered,
\* dropped unsent or abandoned, and is offered at most RetryLimit times.
THEOREM WriterImplementsDelivery == Spec => ImplementsDelivery
  BY RefinementInit, RefinementStep, Invariance, PTL
  DEF Spec, ImplementsDelivery, Delivery!Spec
=============================================================================
