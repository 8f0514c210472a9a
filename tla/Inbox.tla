------------------------------- MODULE Inbox -------------------------------
(***************************************************************************)
(* The bridge's in-memory stage, internal/bridge/inbox.go: one bounded FIFO *)
(* per topic, a ring of the topics that have messages, a round-robin cursor *)
(* into the ring, and a one-slot channel (notify) that wakes the forwarder. *)
(*                                                                         *)
(* Two goroutines share it.  The broker's delivery goroutine calls push,   *)
(* which works under the mutex and signals notify after it has released    *)
(* it: two steps (push, signal).  The forwarder waits for notify and then  *)
(* calls pop until pop finds nothing (await, pop, pop_none).               *)
(*                                                                         *)
(* The ring is a sequence, numbered from 1; rr keeps the code's numbering  *)
(* from 0, so the topic under the cursor is ring[rr + 1].                  *)
(***************************************************************************)
EXTENDS Integers, Sequences, FiniteSets, SequencesExt

CONSTANTS Topics,      \* topic names
          Samples,     \* what a message carries besides its topic
          PerTopic,    \* Config.PerTopicMax
          MaxTotal     \* Config.InboxSize

\* Config.defaults makes both bounds positive and lowers PerTopicMax to
\* InboxSize.
ASSUME InboxAssumption ==
    /\ PerTopic \in Nat \ {0}
    /\ MaxTotal \in Nat
    /\ PerTopic <= MaxTotal

VARIABLES topics,      \* the FIFO of every topic (an absent key is empty)
          ring,        \* topics with pending messages, round-robin order
          rr,          \* round-robin cursor, from 0
          total,       \* the inbox's own message count
          notify,      \* a token is in the notify channel
          pusher,      \* broker goroutine: "idle", or "signal" after the unlock
          ret,         \* what the latest push returned: messages dropped
          pc           \* forwarder: "select" waits for notify, "pop" drains

inVars == <<topics, ring, rr, total, notify, pusher, ret, pc>>

Messages == [topic : Topics, sample : Samples]

Buffered == UNION {{<<t, i>> : i \in 1..Len(topics[t])} : t \in Topics}

OnRing(t) == \E i \in 1..Len(ring) : ring[i] = t

----------------------------------------------------------------------------
newInbox ==
    /\ topics = [t \in Topics |-> << >>]
    /\ ring = << >>
    /\ rr = 0
    /\ total = 0
    /\ notify = FALSE
    /\ pusher = "idle"
    /\ ret = 0

InboxInit == newInbox /\ pc = "select"

\* The cursor after the ring became r: 0 on an empty ring, else modulo.
Wrap(r, c) == IF r = << >> THEN 0 ELSE c % Len(r)

\* removeFromRing: the cursor follows the topic it points at.
CursorWithout(r, c, i) == Wrap(RemoveAt(r, i), IF i - 1 < c THEN c - 1 ELSE c)

\* evictLongest's choice: the first position of r whose FIFO no other exceeds.
Victim(r) ==
    CHOOSE i \in 1..Len(r) :
        /\ \A j \in 1..Len(r) : Len(topics[r[j]]) <= Len(topics[r[i]])
        /\ \A j \in 1..(i-1) : Len(topics[r[j]]) < Len(topics[r[i]])

\* evictLongest returns false when the ring holds no message.
VictimExists(r) == \E i \in 1..Len(r) : topics[r[i]] # << >>

\* The ring when push takes a message of topic t: t joins if it had nothing.
Joined(t) == IF topics[t] = << >> THEN Append(ring, t) ELSE ring

\* push: the topic's FIFO has no room.
\* Mutant: the bound is off by one.
Full_late(t) == Len(topics[t]) > PerTopic
Full(t) == Len(topics[t]) >= PerTopic

\* Mutant: the count is lowered for the dropped message, not raised again.
push_coalesce_undercount(m) ==
    /\ Full(m.topic)
    /\ topics' = [topics EXCEPT ![m.topic] = Append(Tail(@), m)]
    /\ ring' = ring
    /\ UNCHANGED rr
    /\ total' = total - 1
    /\ ret' = 1

\* Mutant: the dropped message is not reported.
push_coalesce_uncounted(m) ==
    /\ Full(m.topic)
    /\ topics' = [topics EXCEPT ![m.topic] = Append(Tail(@), m)]
    /\ ring' = ring
    /\ UNCHANGED <<rr, total>>
    /\ ret' = 0

\* push, the topic's own FIFO full: its oldest message makes room.
push_coalesce(m) ==
    /\ Full(m.topic)
    /\ topics' = [topics EXCEPT ![m.topic] = Append(Tail(@), m)]
    /\ ring' = ring
    /\ UNCHANGED <<rr, total>>
    /\ ret' = 1

\* Mutant: evictLongest does not lower the count.
push_evict_overcount(m) ==
    LET r == Joined(m.topic)
        i == Victim(r)
        v == r[i]
    IN /\ ~Full(m.topic)
       /\ total >= MaxTotal
       /\ VictimExists(r)
       /\ topics' = [topics EXCEPT ![v] = Tail(@),
                                   ![m.topic] = Append(topics[m.topic], m)]
       /\ IF Len(topics[v]) = 1
          THEN ring' = RemoveAt(r, i) /\ rr' = CursorWithout(r, rr, i)
          ELSE ring' = r /\ rr' = rr
       /\ total' = total + 1
       /\ ret' = 1

\* push, the budget used up: evictLongest drops the oldest message of the
\* longest FIFO.  push then stores the FIFO it read before the eviction, so a
\* victim that is m's own topic keeps its message, and stays off the ring if
\* the eviction had emptied it.
push_evict(m) ==
    LET r == Joined(m.topic)
        i == Victim(r)
        v == r[i]
    IN /\ ~Full(m.topic)
       /\ total >= MaxTotal
       /\ VictimExists(r)
       /\ topics' = [topics EXCEPT ![v] = Tail(@),
                                   ![m.topic] = Append(topics[m.topic], m)]
       /\ IF Len(topics[v]) = 1
          THEN ring' = RemoveAt(r, i) /\ rr' = CursorWithout(r, rr, i)
          ELSE ring' = r /\ rr' = rr
       /\ UNCHANGED total
       /\ ret' = 1

\* push with room, or with nothing evictLongest could find on the ring.
push_room(m) ==
    LET r == Joined(m.topic)
    IN /\ ~Full(m.topic)
       /\ total < MaxTotal \/ ~VictimExists(r)
       /\ topics' = [topics EXCEPT ![m.topic] = Append(@, m)]
       /\ ring' = r
       /\ UNCHANGED rr
       /\ total' = total + 1
       /\ ret' = 0

\* The part of push under the mutex.
push(m) ==
    /\ pusher = "idle"
    /\ push_coalesce(m) \/ push_evict(m) \/ push_room(m)
    /\ pusher' = "signal"
    /\ UNCHANGED notify

\* The part of push after the unlock: a non-blocking send on notify.
signal ==
    /\ pusher = "signal"
    /\ notify' = TRUE
    /\ pusher' = "idle"
    /\ UNCHANGED <<topics, ring, rr, total, ret>>

\* pop, its early return apart: the head of the FIFO under the cursor.
NextTopic == ring[(rr % Len(ring)) + 1]

PopFinds == total # 0 /\ ring # << >>

\* Mutant: an emptied FIFO stays on the ring.
take_keeps_empty ==
    LET c == rr % Len(ring)
        t == NextTopic
    IN /\ topics' = [topics EXCEPT ![t] = Tail(@)]
       /\ total' = total - 1
       /\ ring' = ring /\ rr' = (c + 1) % Len(ring)

\* Mutant: the cursor stays on a topic until its FIFO is empty.
take_sticky ==
    LET c == rr % Len(ring)
        t == NextTopic
    IN /\ topics' = [topics EXCEPT ![t] = Tail(@)]
       /\ total' = total - 1
       /\ IF Len(topics[t]) = 1
          THEN ring' = RemoveAt(ring, c + 1) /\ rr' = Wrap(ring', c)
          ELSE ring' = ring /\ rr' = c

\* pop: a FIFO it empties leaves the ring and the cursor stays, now on the
\* next topic; otherwise the cursor moves on.
take ==
    LET c == rr % Len(ring)
        t == NextTopic
    IN /\ topics' = [topics EXCEPT ![t] = Tail(@)]
       /\ total' = total - 1
       /\ IF Len(topics[t]) = 1
          THEN ring' = RemoveAt(ring, c + 1) /\ rr' = Wrap(ring', c)
          ELSE ring' = ring /\ rr' = (c + 1) % Len(ring)

\* The forwarder's select takes the token and starts its pop loop.
await ==
    /\ pc = "select"
    /\ notify
    /\ notify' = FALSE
    /\ pc' = "pop"
    /\ UNCHANGED <<topics, ring, rr, total, pusher, ret>>

\* Mutant: one message is taken per token.
pop_once ==
    /\ pc = "pop"
    /\ PopFinds
    /\ take
    /\ pc' = "select"
    /\ UNCHANGED <<notify, pusher, ret>>

pop ==
    /\ pc = "pop"
    /\ PopFinds
    /\ take
    /\ UNCHANGED <<notify, pusher, ret, pc>>

pop_none ==
    /\ pc = "pop"
    /\ ~PopFinds
    /\ pc' = "select"
    /\ UNCHANGED <<topics, ring, rr, total, notify, pusher, ret>>

InboxNext ==
    \/ \E m \in Messages : push(m) /\ UNCHANGED pc
    \/ signal /\ UNCHANGED pc
    \/ await
    \/ pop
    \/ pop_none

InboxSpec == InboxInit /\ [][InboxNext]_inVars

\* The forwarder's goroutine and the rest of a push that has begun are
\* always scheduled; nothing makes the broker push.
InboxFairSpec ==
    /\ InboxSpec
    /\ WF_inVars(signal /\ UNCHANGED pc)
    /\ WF_inVars(await)
    /\ WF_inVars(pop)
    /\ WF_inVars(pop_none)

----------------------------------------------------------------------------
\* Types; the count is never negative, whatever the configuration.
BufferTypeOK ==
    /\ topics \in [Topics -> Seq(Messages)]
    /\ ring \in Seq(Topics)
    /\ rr \in Nat
    /\ total \in Nat
    /\ notify \in BOOLEAN
    /\ pusher \in {"idle", "signal"}
    /\ ret \in {0, 1}

InboxTypeOK == BufferTypeOK /\ pc \in {"select", "pop"}

\* A topic never buffers more than PerTopicMax messages (inbox.go push).
PerTopicBound == \A t \in Topics : Len(topics[t]) <= PerTopic

\* Every position of the ring names a topic with messages, no topic twice,
\* and the cursor is inside the ring: pop never indexes an empty FIFO
\* (q[0] in inbox.go pop) and never visits a topic twice in a round.
RingSound ==
    /\ \A i \in 1..Len(ring) : topics[ring[i]] # << >>
    /\ \A i, j \in 1..Len(ring) : ring[i] = ring[j] => i = j
    /\ IF ring = << >> THEN rr = 0 ELSE rr < Len(ring)

\* The count is the number of buffered messages and stays inside InboxSize,
\* "the total in-memory buffer", and every topic with messages is on the
\* ring, where pop can reach it.
Accounting ==
    /\ total = Cardinality(Buffered)
    /\ total <= MaxTotal
    /\ \A t \in Topics : topics[t] # << >> => OnRing(t)

\* A push that reports no drop leaves one message more, one that reports a
\* drop leaves as many as before: no message vanishes uncounted, none is
\* counted as dropped and kept.
DropsCounted ==
    [][pusher = "idle" /\ pusher' = "signal" =>
          Cardinality(Buffered') = Cardinality(Buffered) + 1 - ret']_inVars

\* The wakeup is never lost: when the forwarder waits while messages are
\* buffered, the token is in the channel or the pusher is about to put it.
NoLostWakeup ==
    pc = "select" /\ Buffered # {} => notify \/ pusher = "signal"

Served(t) == pc = "pop" /\ PopFinds /\ NextTopic = t

\* The buffer is shared evenly: while every topic stays backlogged, however
\* often the others are pushed to, coalesced and evicted, each is popped again
\* and again (inbox.go, "pop dequeues the next message round-robin across
\* topics").
RoundRobin ==
    \A t \in Topics :
        <>[](\A u \in Topics : topics[u] # << >>) => []<>Served(t)

\* A topic with buffered messages is served: the forwarder pops it, whatever
\* the other topics receive (bridge.go, "no topic can starve or reorder
\* another").  Topics that are emptied rejoin the ring behind the cursor's
\* next positions, so this promises more than RoundRobin.
NoStarvation == \A t \in Topics : topics[t] # << >> ~> Served(t)
=============================================================================
