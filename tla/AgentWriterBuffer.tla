------------------------- MODULE AgentWriterBuffer -------------------------
(***************************************************************************)
(* The fixed-size array the asynchronous AgentWriter queues finished       *)
(* traces in (Agent/AgentWriterBuffer.cs).  Push and Pop each run under    *)
(* lock (_items), so each is one step.  A Span[] is identified by a member *)
(* of Traces; NoTrace is the null reference of an unused slot.             *)
(***************************************************************************)
EXTENDS Integers

CONSTANTS Traces, MaxSize, NoTrace

VARIABLES items,   \* _items: the array, indexed from 0
          count    \* _count: the number of slots in use

Slots == 0 .. MaxSize - 1

BufferInit ==
    /\ items = [i \in Slots |-> NoTrace]
    /\ count = 0

\* What Pop copies into the array it returns.
Queued == {items[i] : i \in 0 .. count - 1}

\* Push with a free slot: append, return true.
PushFree(t) ==
    /\ count < MaxSize
    /\ items' = [items EXCEPT ![count] = t]
    /\ count' = count + 1

\* Push into a full buffer: overwrite slot i, any of them
\* (_random.Next(_items.Length)), return false.
PushFull(t, i) ==
    /\ count = MaxSize
    /\ items' = [items EXCEPT ![i] = t]
    /\ count' = count

\* Mutant: the array is handed out but not cleared.
PopWithoutClear ==
    UNCHANGED <<items, count>>

\* Pop: the caller takes Queued, the array is cleared.
Pop ==
    /\ items' = [i \in Slots |-> NoTrace]
    /\ count' = 0

\* The slots below _count hold traces and the others are null.
BufferShape == \A i \in Slots : items[i] # NoTrace <=> i < count
=============================================================================
