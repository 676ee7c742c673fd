---------------------------- MODULE TraceWriting ----------------------------
(***************************************************************************)
(* What a trace does with its spans, with no count, lock or thread: they   *)
(* are started and closed, the one that leaves no other open hands over    *)
(* all that were closed since the last time, and what is handed over is    *)
(* written, whole and once.                                                *)
(***************************************************************************)
CONSTANT Spans

VARIABLES open,      \* spans that are under way
          closed,    \* spans that wait for the open ones
          handed,    \* sets of spans on their way to the writer
          written    \* spans the writer has got

Seen == open \cup closed \cup (UNION handed) \cup written

Init == open = {} /\ closed = {} /\ handed = {} /\ written = {}

Start(s) ==
    /\ s \notin Seen
    /\ open' = open \cup {s}
    /\ UNCHANGED <<closed, handed, written>>

Close(s) ==
    /\ s \in open /\ open # {s}
    /\ open' = open \ {s} /\ closed' = closed \cup {s}
    /\ UNCHANGED <<handed, written>>

CloseLast(s) ==
    /\ open = {s}
    /\ open' = {} /\ closed' = {}
    /\ handed' = handed \cup {closed \cup {s}}
    /\ UNCHANGED written

Write(batch) ==
    /\ batch \in handed
    /\ handed' = handed \ {batch} /\ written' = written \cup batch
    /\ UNCHANGED <<open, closed>>

Next ==
    \/ \E s \in Spans : Start(s) \/ Close(s) \/ CloseLast(s)
    \/ \E batch \in handed : Write(batch)

Spec == Init /\ [][Next]_<<open, closed, handed, written>>
=============================================================================
