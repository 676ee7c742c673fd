--------------------------- MODULE TraceDelivery ---------------------------
(***************************************************************************)
(* What IAgentWriter promises for the traces it is given, with no buffer,  *)
(* task or retry loop: a trace is accepted once; it may be dropped before  *)
(* anything was sent; otherwise it is offered to the collector at most     *)
(* MaxDeliveries times and then delivered or abandoned.                    *)
(***************************************************************************)
EXTENDS Integers

CONSTANTS Traces, MaxDeliveries

VARIABLES status,    \* per trace: where it is
          received   \* per trace: how often the collector has accepted it

Status == {"new", "pending", "delivered", "dropped", "abandoned"}

Pending == {t \in Traces : status[t] = "pending"}

Init ==
    /\ status = [t \in Traces |-> "new"]
    /\ received = [t \in Traces |-> 0]

Become(ts, st) == [t \in Traces |-> IF t \in ts THEN st ELSE status[t]]

Accept(t) ==
    /\ status[t] = "new"
    /\ status' = Become({t}, "pending")
    /\ UNCHANGED received

\* A full writer accepts t in place of u, which was not sent yet.
AcceptInstead(t, u) ==
    /\ status[t] = "new"
    /\ u \in Pending
    /\ received[u] = 0
    /\ status' = [Become({u}, "dropped") EXCEPT ![t] = "pending"]
    /\ UNCHANGED received

Drop(ts) ==
    /\ ts \subseteq Pending
    /\ \A t \in ts : received[t] = 0
    /\ status' = Become(ts, "dropped")
    /\ UNCHANGED received

\* One attempt to send ts, which the collector gets or does not get, and after
\* which the traces stay pending or are finished.
Attempt(ts, gets, after) ==
    /\ ts \subseteq Pending
    /\ \A t \in ts : received[t] < MaxDeliveries
    /\ after = "delivered" => gets
    /\ received' = [t \in Traces |->
                      IF gets /\ t \in ts THEN received[t] + 1 ELSE received[t]]
    /\ status' = Become(ts, after)

Next ==
    \/ \E t \in Traces : Accept(t)
    \/ \E t, u \in Traces : AcceptInstead(t, u)
    \/ \E ts \in SUBSET Traces : Drop(ts)
    \/ \E ts \in SUBSET Traces, gets \in BOOLEAN,
          after \in {"pending", "delivered", "abandoned"} :
             Attempt(ts, gets, after)

Spec == Init /\ [][Next]_<<status, received>>
=============================================================================
