----------------------------- MODULE ZipkinApi -----------------------------
(***************************************************************************)
(* ZipkinApi.SendTracesAsync (Agent/ZipkinApi.cs): post a batch of traces  *)
(* to the collector, retrying with back-off.  Each Sender runs at most one *)
(* call at a time.  `received' counts what the collector accepted, which   *)
(* the sender cannot see: a request may be accepted and its response lost. *)
(***************************************************************************)
EXTENDS Integers

CONSTANTS Traces, Senders, RetryLimit

VARIABLES sends,     \* per sender: the call in progress
          received   \* per trace: how often the collector accepted it

NoSend == [st |-> "idle", traces |-> {}, retryCount |-> 0]

SendInit ==
    /\ sends = [s \in Senders |-> NoSend]
    /\ received = [t \in Traces |-> 0]

\* Mutant: the attempts are counted from 0.
SendCallFromZero(s, ts) ==
    sends' = [sends EXCEPT ![s] = [st |-> "post", traces |-> ts, retryCount |-> 0]]

\* SendTracesAsync is called: retryCount starts at 1.
SendCall(s, ts) ==
    sends' = [sends EXCEPT ![s] = [st |-> "post", traces |-> ts, retryCount |-> 1]]

\* The collector accepts the batch of s.
Accepted(s) ==
    received' = [t \in Traces |->
                   IF t \in sends[s].traces THEN received[t] + 1 ELSE received[t]]

SendReturns(s) == sends' = [sends EXCEPT ![s] = NoSend]

\* PostAsync answers with a success status: return.
PostSucceeds(s) ==
    /\ sends[s].st = "post"
    /\ Accepted(s)
    /\ SendReturns(s)

\* The InnerException is an InvalidOperationException (a fault while the
\* content is serialised): give up at once.
PostFatal(s) ==
    /\ sends[s].st = "post"
    /\ SendReturns(s)
    /\ UNCHANGED received

\* A request the sender sees fail did, or did not, reach the collector.
FailedPost(s) == Accepted(s) \/ UNCHANGED received

\* Any other exception, on the last attempt: give up.
PostExhausted(s) ==
    /\ sends[s].st = "post"
    /\ sends[s].retryCount >= RetryLimit
    /\ FailedPost(s)
    /\ SendReturns(s)

\* Mutant: one attempt too many.
PostRetriesOnceMore(s) ==
    /\ sends[s].st = "post"
    /\ sends[s].retryCount <= RetryLimit
    /\ FailedPost(s)
    /\ sends' = [sends EXCEPT ![s].st = "backoff"]

\* Any other exception, attempts left: go to sleep.
PostRetries(s) ==
    /\ sends[s].st = "post"
    /\ sends[s].retryCount < RetryLimit
    /\ FailedPost(s)
    /\ sends' = [sends EXCEPT ![s].st = "backoff"]

\* The delay is over: count the retry and post again.
BackoffEnds(s) ==
    /\ sends[s].st = "backoff"
    /\ sends' = [sends EXCEPT ![s].st = "post", ![s].retryCount = @ + 1]
    /\ UNCHANGED received
=============================================================================
