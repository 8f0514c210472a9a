----------------------------- MODULE StoreQueue -----------------------------
(***************************************************************************)
(* What the bridge relies on when it uses ports.Queue: a first-in           *)
(* first-out sequence of stored messages that outlives the process.         *)
(*                                                                         *)
(* Push adds at the end and Ack removes the oldest.  A bounded queue may    *)
(* evict from the old end to make room: it says how many it evicted, and    *)
(* the newest message always survives.  The eviction counter starts again   *)
(* from zero with every process.                                            *)
(***************************************************************************)
EXTENDS Integers, Sequences

CONSTANT Stored        \* the messages a queue can hold

VARIABLES items,       \* the unread messages, oldest first
          dropped      \* Dropped(): evictions since the process started

QueueInit == items = << >> /\ dropped = 0

QueuePush ==
    /\ \E m \in Stored : items' = Append(items, m)
    /\ UNCHANGED dropped

QueueAck ==
    /\ items # << >>
    /\ items' = Tail(items)
    /\ UNCHANGED dropped

QueueEvict ==
    \E n \in 1..(Len(items) - 1) :
        /\ items' = SubSeq(items, n + 1, Len(items))
        /\ dropped' = dropped + n

\* A process ends, by Close or by a crash, and another opens the queue.
QueueRestart ==
    /\ dropped' = 0
    /\ UNCHANGED items

QueueNext == QueuePush \/ QueueAck \/ QueueEvict \/ QueueRestart

QueueSpec == QueueInit /\ [][QueueNext]_<<items, dropped>>
=============================================================================
