--------------------------- MODULE BridgeProofs -----------------------------
(***************************************************************************)
(* What holds of the bridge for every set of topics, every number of        *)
(* samples and every bound: the sink receives each topic in order, and the  *)
(* retry timer is never left off; and, when the inbox's budget is roomy,    *)
(* nothing is lost silently.                                                *)
(***************************************************************************)
EXTENDS Bridge, InboxProofs

Holding == {"forward", "refused", "drain_spill"}

\* The forwarder has a message in hand exactly between a pop and a send or a
\* spill.
HandInv == IF pc \in Holding THEN cur \in Messages ELSE cur = Nothing

\* What replay acknowledges is there.
AckInv == pc = "replay_ack" => queue # << >> /\ batch < ReplayBatch

\* Only a replay the timer has started leaves the timer off.
TimerInv == timer = "off" => pc \in {"replay", "replay_ack"} /\ caller = "timer"

ControlInv == BridgeTypeOK /\ PerTopicBound /\ RingSound /\ HandInv /\ AckInv /\ TimerInv

\* The empty hand is told from every message: no sample is numbered 0.
LEMMA NothingIsNoMessage == Nothing \notin Messages
    BY BridgeAssumption DEF Nothing, Messages

\* The inbox's invariant is part of the bridge's.
LEMMA ControlBuffer == ControlInv => BufferInv
    BY DEF ControlInv, BridgeTypeOK, BufferInv

\* A step that leaves the inbox alone keeps its invariant.
LEMMA StageKept ==
    ASSUME BufferInv, UNCHANGED stage
    PROVE  BufferInv'
    BY DEF BufferInv, BufferTypeOK, PerTopicBound, RingSound, stage

\* Steps that leave the inbox and the queue alone.
LEMMA ControlQuiet ==
    ASSUME ControlInv,
           run_top \/ timer_fires \/ select_timer \/ select_done \/ pop_empty \/ drain_done
             \/ toggle_sink \/ cancel \/ UNCHANGED brVars
    PROVE  ControlInv'
<1>1. BufferInv'
    BY ControlBuffer, StageKept
    DEF run_top, timer_fires, select_timer, select_done, pop_empty, drain_done, toggle_sink, cancel, brVars
<1>2. BridgeTypeOK'
    <2> USE <1>1, BridgeAssumption DEF ControlInv, BridgeTypeOK, BufferInv, Pcs, store, env, history
    <2>1. CASE run_top
        BY <2>1 DEF run_top
    <2>2. CASE timer_fires
        BY <2>2 DEF timer_fires
    <2>3. CASE select_timer
        <3>1. CASE ~sinkUp /\ queue # << >>
            BY <2>3, <3>1 DEF select_timer
        <3>2. CASE ~(~sinkUp /\ queue # << >>)
            BY <2>3, <3>2 DEF select_timer
        <3> QED
            BY <3>1, <3>2
    <2>4. CASE select_done
        BY <2>4 DEF select_done
    <2>5. CASE pop_empty
        BY <2>5 DEF pop_empty
    <2>6. CASE drain_done
        BY <2>6 DEF drain_done
    <2>7. CASE toggle_sink
        BY <2>7 DEF toggle_sink
    <2>8. CASE cancel
        BY <2>8 DEF cancel
    <2>9. CASE UNCHANGED brVars
        BY <2>9 DEF brVars
    <2> QED
        BY <2>1, <2>2, <2>3, <2>4, <2>5, <2>6, <2>7, <2>8, <2>9
<1>3. HandInv' /\ AckInv'
    BY DEF ControlInv, HandInv, AckInv, Holding, run_top, timer_fires, select_timer, select_done, pop_empty, drain_done, toggle_sink, cancel, brVars, store, BridgeTypeOK
<1>4. TimerInv'
    BY DEF ControlInv, TimerInv, run_top, timer_fires, select_timer, select_done, pop_empty, drain_done, toggle_sink, cancel, brVars
<1> QED
    BY <1>1, <1>2, <1>3, <1>4 DEF ControlInv, BufferInv

\* The facts about a queue that a step of replay or spill needs.
LEMMA QueueTail ==
    ASSUME NEW q \in Seq(Messages), q # << >>
    PROVE  /\ Head(q) \in Messages /\ Head(q) = q[1]
           /\ Tail(q) \in Seq(Messages)
           /\ Len(q) \in Nat /\ Len(q) >= 1
           /\ Len(Tail(q)) = Len(q) - 1
           /\ \A i \in 1..(Len(q) - 1) : Tail(q)[i] = q[i + 1]
    BY HeadTailProperties, EmptySeq

\* The members of a sequence of messages.
LEMMA RangeMembers ==
    ASSUME NEW s \in Seq(Messages)
    PROVE  /\ \A x \in Range(s) : x \in Messages /\ \E i \in 1..Len(s) : x = s[i]
           /\ \A i \in 1..Len(s) : s[i] \in Range(s)
<1>1. DOMAIN s = 1..Len(s)
    BY LenProperties
<1> QED
    BY <1>1, ElementOfSeq DEF Range

LEMMA NoMembers == Range(<< >>) = {}
<1> DEFINE e == << >>
<1>1. e \in Seq(Messages) /\ Len(e) = 0
    BY EmptySeq
<1> HIDE DEF e
<1>2. DOMAIN e = {}
    BY <1>1, LenProperties
<1>3. Range(e) = {}
    BY <1>2 DEF Range
<1> QED
    BY <1>3 DEF e

\* d is s without its k oldest messages.
Without(d, s, k) ==
    /\ k \in 0..Len(s)
    /\ Len(d) = Len(s) - k
    /\ \A i \in 1..Len(d) : d[i] = s[i + k]

IsRest(d, s) == d \in Seq(Messages) /\ \E k \in 0..Len(s) : Without(d, s, k)

LEMMA RestOf ==
    ASSUME NEW s \in Seq(Messages), NEW k \in 0..Len(s)
    PROVE  /\ SubSeq(s, k + 1, Len(s)) \in Seq(Messages)
           /\ Without(SubSeq(s, k + 1, Len(s)), s, k)
<1> DEFINE d == SubSeq(s, k + 1, Len(s))
<1>1. Len(s) \in Nat /\ \A i \in 1..Len(s) : s[i] \in Messages
    BY LenProperties, ElementOfSeq
<1>2. /\ d \in Seq(Messages)
      /\ Len(d) = IF k + 1 <= Len(s) THEN Len(s) - (k + 1) + 1 ELSE 0
      /\ \A i \in 1..(Len(s) - (k + 1) + 1) : d[i] = s[(k + 1) + i - 1]
    <2>1. k + 1 \in Int /\ Len(s) \in Int /\ \A i \in (k + 1)..Len(s) : s[i] \in Messages
        BY <1>1
    <2> QED
        BY <2>1, SubSeqProperties
<1> HIDE DEF d
<1>3. Len(d) = Len(s) - k
    BY <1>1, <1>2
<1>4. \A i \in 1..Len(d) : d[i] = s[i + k]
    BY <1>1, <1>2, <1>3
<1> QED
    BY <1>2, <1>3, <1>4 DEF d, Without

\* A sequence is its own rest, and a rest's members are members.
LEMMA RestFacts ==
    ASSUME NEW s \in Seq(Messages)
    PROVE  /\ IsRest(s, s)
           /\ \A d : IsRest(d, s) => d \in Seq(Messages) /\ Range(d) \subseteq Range(s)
<1>1. IsRest(s, s)
    <2>1. 0 \in 0..Len(s) /\ Without(s, s, 0)
        BY LenProperties DEF Without
    <2> QED
        BY <2>1 DEF IsRest
<1>2. ASSUME NEW d, IsRest(d, s) PROVE d \in Seq(Messages) /\ Range(d) \subseteq Range(s)
    <2>1. PICK k \in 0..Len(s) : Without(d, s, k)
        BY <1>2 DEF IsRest
    <2>2. Len(s) \in Nat /\ d \in Seq(Messages)
        BY <1>2, LenProperties DEF IsRest
    <2>3. \A i \in 1..Len(d) : i + k \in 1..Len(s) /\ d[i] = s[i + k]
        BY <2>1, <2>2 DEF Without
    <2> QED
        BY <2>2, <2>3, RangeMembers
<1> QED
    BY <1>1, <1>2

\* The rest of a rest.
LEMMA RestOfRest ==
    ASSUME NEW s \in Seq(Messages), NEW d, NEW e, IsRest(d, s), IsRest(e, d)
    PROVE  IsRest(e, s)
<1>1. d \in Seq(Messages) /\ e \in Seq(Messages)
    BY DEF IsRest
<1>2. PICK k \in 0..Len(s) : Without(d, s, k)
    BY DEF IsRest
<1>3. PICK l \in 0..Len(d) : Without(e, d, l)
    BY DEF IsRest
<1>4. Len(s) \in Nat /\ Len(d) \in Nat /\ Len(e) \in Nat
    BY <1>1, LenProperties
<1>5. k + l \in 0..Len(s) /\ Len(e) = Len(s) - (k + l)
    BY <1>2, <1>3, <1>4 DEF Without
<1>6. ASSUME NEW i \in 1..Len(e) PROVE e[i] = s[i + (k + l)]
    <2>1. e[i] = d[i + l] /\ i + l \in 1..Len(d)
        BY <1>3, <1>4 DEF Without
    <2>2. d[i + l] = s[(i + l) + k] /\ (i + l) + k = i + (k + l)
        BY <1>2, <1>4, <2>1 DEF Without
    <2> QED
        BY <2>1, <2>2
<1>7. Without(e, s, k + l)
    BY <1>5, <1>6 DEF Without
<1> QED
    BY <1>1, <1>5, <1>7 DEF IsRest

\* A message goes to the end.
LEMMA AppendOne ==
    ASSUME NEW s \in Seq(Messages), NEW m \in Messages
    PROVE  /\ Append(s, m) \in Seq(Messages)
           /\ Range(Append(s, m)) = Range(s) \cup {m}
<1> DEFINE q == Append(s, m)
<1>1. /\ q \in Seq(Messages)
      /\ Len(s) \in Nat /\ Len(q) = Len(s) + 1
      /\ \A i \in 1..Len(s) : q[i] = s[i]
      /\ q[Len(s) + 1] = m
    BY AppendProperties, LenProperties
<1> HIDE DEF q
<1>2. Range(q) \subseteq Range(s) \cup {m}
    <2> SUFFICES ASSUME NEW i \in 1..Len(q) PROVE q[i] \in Range(s) \cup {m}
        BY <1>1, RangeMembers
    <2> QED
        BY <1>1, RangeMembers
<1>3. Range(s) \cup {m} \subseteq Range(q)
    <2>1. \A i \in 1..Len(s) : i \in 1..Len(q)
        BY <1>1
    <2>2. m \in Range(q)
        BY <1>1, RangeMembers
    <2> QED
        BY <1>1, <2>1, <2>2, RangeMembers
<1> QED
    BY <1>1, <1>2, <1>3 DEF q

LEMMA AppendRest ==
    ASSUME NEW s \in Seq(Messages), NEW d, IsRest(d, s), NEW m \in Messages
    PROVE  IsRest(Append(d, m), Append(s, m))
<1> DEFINE e == Append(d, m)
           q == Append(s, m)
<1>1. d \in Seq(Messages)
    BY DEF IsRest
<1>2. PICK k \in 0..Len(s) : Without(d, s, k)
    BY DEF IsRest
<1>3. /\ q \in Seq(Messages)
      /\ Len(s) \in Nat /\ Len(q) = Len(s) + 1
      /\ \A i \in 1..Len(s) : q[i] = s[i]
      /\ q[Len(s) + 1] = m
    BY AppendProperties, LenProperties
<1>4. /\ e \in Seq(Messages)
      /\ Len(d) \in Nat /\ Len(e) = Len(d) + 1
      /\ \A i \in 1..Len(d) : e[i] = d[i]
      /\ e[Len(d) + 1] = m
    BY <1>1, AppendProperties, LenProperties
<1> HIDE DEF e, q
<1>5. k \in 0..Len(q) /\ Len(e) = Len(q) - k
    BY <1>2, <1>3, <1>4 DEF Without
<1>6. ASSUME NEW i \in 1..Len(e) PROVE e[i] = q[i + k]
    <2>1. CASE i = Len(d) + 1
        BY <1>2, <1>3, <1>4, <2>1 DEF Without
    <2>2. CASE i \in 1..Len(d)
        <3>1. i + k \in 1..Len(s) /\ d[i] = s[i + k]
            BY <1>2, <1>3, <1>4, <2>2 DEF Without
        <3> QED
            BY <1>3, <1>4, <2>2, <3>1
    <2> QED
        BY <1>4, <2>1, <2>2
<1>7. Without(e, q, k)
    BY <1>5, <1>6 DEF Without
<1> QED
    BY <1>4, <1>5, <1>7 DEF IsRest, e, q

\* What is left of the queue, and what went.
LEMMA RestOfQueue ==
    ASSUME queue \in Seq(Messages), NEW n \in 0..Len(queue)
    PROVE  /\ IsRest(Rest(n), queue)
           /\ Oldest(n) \subseteq InQueue
           /\ InQueue \subseteq Oldest(n) \cup Range(Rest(n))
<1>1. Len(queue) \in Nat
    BY LenProperties
<1>2. Rest(n) \in Seq(Messages) /\ Without(Rest(n), queue, n)
    BY RestOf DEF Rest
<1>3. Oldest(n) \subseteq InQueue
    BY <1>1, RangeMembers DEF Oldest, InQueue
<1>4. ASSUME NEW i \in 1..Len(queue) PROVE queue[i] \in Oldest(n) \cup Range(Rest(n))
    <2>1. CASE i <= n
        BY <1>1, <2>1 DEF Oldest
    <2>2. CASE i > n
        <3>1. i - n \in 1..Len(Rest(n)) /\ Rest(n)[i - n] = queue[i]
            BY <1>1, <1>2, <2>2 DEF Without
        <3> QED
            BY <1>2, <3>1, RangeMembers
    <2> QED
        BY <1>1, <2>1, <2>2
<1>5. InQueue \subseteq Oldest(n) \cup Range(Rest(n))
    BY <1>4, RangeMembers DEF InQueue
<1> QED
    BY <1>2, <1>3, <1>5 DEF IsRest

\* What a restart finds is a rest of the one view or of the other.
LEMMA FoundRest ==
    ASSUME stored \in Seq(Messages), NEW q \in Seq(Messages), NEW d \in Found(q)
    PROVE  /\ d = q \/ (torn /\ IsRest(d, stored))
           /\ d \in Seq(Messages)
<1>1. CASE d = q
    BY <1>1
<1>2. CASE d # q
    <2>1. torn /\ \E i \in 1..(Len(stored) + 1) : d = SubSeq(stored, i, Len(stored))
        BY <1>2 DEF Found
    <2>2. PICK i \in 1..(Len(stored) + 1) : d = SubSeq(stored, i, Len(stored))
        BY <2>1
    <2>3. i - 1 \in 0..Len(stored) /\ (i - 1) + 1 = i
        BY LenProperties
    <2>4. d \in Seq(Messages) /\ Without(d, stored, i - 1)
        BY <2>2, <2>3, RestOf
    <2> QED
        BY <2>1, <2>3, <2>4 DEF IsRest
<1> QED
    BY <1>1, <1>2

\* A message leaves the queue from the front.
LEMMA ReplayQueue ==
    ASSUME queue \in Seq(Messages), stored \in Seq(Messages), torn \in BOOLEAN,
           errors \in 0..MaxErrors, replay_ack \/ replay_discard
    PROVE  /\ \E n \in 1..Len(queue) :
                 /\ queue' = Rest(n)
                 /\ replay_ack => (n = 1 \/ torn) /\ due' = due \ (Oldest(n) \ {Head(queue)})
                 /\ replay_discard => settled' = settled \cup Oldest(n)
           /\ IsRest(queue', queue)
           /\ IsRest(stored', queue) \/ IsRest(stored', stored)
           /\ ~torn => stored' \in {stored, queue'}
           /\ errors' \in 0..MaxErrors /\ torn' \in BOOLEAN /\ (torn => torn')
<1> USE BridgeAssumption
<1>1. PICK n \in 1..Len(queue) :
                 /\ queue' = Rest(n)
                 /\ replay_ack => (n = 1 \/ torn) /\ due' = due \ (Oldest(n) \ {Head(queue)})
                 /\ replay_discard => settled' = settled \cup Oldest(n)
    <2>1. CASE replay_ack
        <3>1. pc = "replay_ack"
            BY <2>1 DEF replay_ack
        <3>2. ~replay_discard
            BY <3>1 DEF replay_discard
        <3> QED
            BY <2>1, <3>2 DEF replay_ack
    <2>2. CASE replay_discard
        <3>1. pc = "replay"
            BY <2>2 DEF replay_discard
        <3>2. ~replay_ack
            BY <3>1 DEF replay_ack
        <3> QED
            BY <2>2, <3>2 DEF replay_discard
    <2> QED
        BY <2>1, <2>2
<1>2. n \in 0..Len(queue)
    BY LenProperties
<1>3. IsRest(queue', queue) /\ queue' \in Seq(Messages)
    BY <1>1, <1>2, RestOfQueue, RestFacts
<1>4. stored' \in {stored} \cup Found(queue')
    BY DEF replay_ack, replay_discard
<1>5. stored' = stored \/ stored' = queue' \/ (torn /\ IsRest(stored', stored))
    BY <1>3, <1>4, FoundRest
<1>6. IsRest(stored, stored)
    BY RestFacts
<1>7. errors' \in 0..MaxErrors
    BY DEF replay_ack, replay_discard, Error
<1>8. torn' = torn \/ torn' = (torn \/ queue' = << >>)
    BY Zenon DEF replay_ack, replay_discard
<1>9. torn' \in BOOLEAN /\ (torn => torn')
    BY <1>8, Zenon
<1> QED
    BY <1>1, <1>3, <1>5, <1>6, <1>7, <1>9

\* Steps of replay.
LEMMA ControlReplay ==
    ASSUME ControlInv, replay_end \/ replay_send \/ replay_ack \/ replay_discard
    PROVE  ControlInv'
<1> USE BridgeAssumption
<1>1. BufferInv'
    BY ControlBuffer, StageKept DEF replay_end, replay_send, replay_ack, replay_discard
<1>2. /\ cur' = cur /\ pc \in {"replay", "replay_ack"} /\ cur = Nothing
      /\ pc' \notin Holding
      /\ UNCHANGED <<ctx, env, revived>> /\ due' \subseteq due
    <2>1. UNCHANGED <<cur, ctx, env, revived>> /\ due' \subseteq due /\ pc \in {"replay", "replay_ack"}
        BY DEF replay_end, replay_send, replay_ack, replay_discard, history
    <2>2. pc' \in {"select", "drain", "top", "replay", "replay_ack"}
        BY DEF replay_end, replay_send, replay_ack, replay_discard, replay_returned, replay_failed
    <2> QED
        BY <2>1, <2>2 DEF ControlInv, HandInv, Holding
<1>3. /\ queue' \in Seq(Messages) /\ stored' \in Seq(Messages)
      /\ torn' \in BOOLEAN /\ errors' \in 0..MaxErrors
    <2>1. /\ queue \in Seq(Messages) /\ stored \in Seq(Messages)
          /\ torn \in BOOLEAN /\ errors \in 0..MaxErrors
        BY DEF ControlInv, BridgeTypeOK
    <2>2. CASE replay_end \/ replay_send
        <3>1. UNCHANGED store
            BY <2>2 DEF replay_end, replay_send
        <3> QED
            BY <2>1, <3>1 DEF store
    <2>3. CASE replay_ack \/ replay_discard
        BY <2>1, <2>3, ReplayQueue, RestFacts
    <2> QED
        BY <2>2, <2>3
<1>4. batch' \in 0..ReplayBatch /\ caller' \in {"top", "timer"}
    <2>1. batch' = batch \/ batch' = 0 \/ (batch < ReplayBatch /\ batch' = batch + 1)
        BY DEF ControlInv, AckInv, BatchLeft, replay_end, replay_send, replay_ack, replay_discard, replay_returned, replay_failed
    <2>2. caller' \in {caller, "top"}
        BY DEF replay_end, replay_send, replay_ack, replay_discard, replay_returned, replay_failed
    <2> QED
        BY <2>1, <2>2 DEF ControlInv, BridgeTypeOK
<1>5. sinkUp' \in BOOLEAN
    <2>1. sinkUp' = TRUE \/ sinkUp' = FALSE \/ sinkUp' = sinkUp
        <3>1. CASE replay_end
            BY <3>1, Zenon DEF replay_end, replay_returned
        <3>2. CASE replay_send \/ replay_ack \/ replay_discard
            BY <3>2, Zenon DEF replay_send, replay_ack, replay_discard, replay_failed, fail
        <3> QED
            BY <3>1, <3>2
    <2> QED
        BY <2>1, Zenon DEF ControlInv, BridgeTypeOK
<1>6. timer' \in {"armed", "fired", "off"}
    BY DEF ControlInv, BridgeTypeOK, replay_end, replay_send, replay_ack, replay_discard, replay_returned, replay_failed, fail, resetTimer
<1>7. pc' \in Pcs
    BY DEF Pcs, ControlInv, BridgeTypeOK, replay_end, replay_send, replay_ack, replay_discard, replay_returned, replay_failed
<1>8. last' \in [Topics -> 0..MaxSeq] /\ settled' \subseteq Messages
    <2>1. CASE replay_send
        <3>1. Head(queue) \in Messages
            BY <2>1, QueueTail DEF ControlInv, BridgeTypeOK, replay_send
        <3>2. Head(queue).sample \in 0..MaxSeq /\ Head(queue).topic \in Topics
            BY <3>1 DEF Messages
        <3> QED
            BY <2>1, <3>1, <3>2 DEF ControlInv, BridgeTypeOK, replay_send, Delivered, Refused
    <2>2. CASE replay_discard
        <3>1. \A i \in 1..Len(queue) : queue[i] \in Messages
            BY ElementOfSeq DEF ControlInv, BridgeTypeOK
        <3>2. PICK n \in 1..Len(queue) : settled' = settled \cup Oldest(n)
            BY <2>2 DEF replay_discard
        <3>3. \A i \in 1..n : i \in 1..Len(queue)
            BY LenProperties DEF ControlInv, BridgeTypeOK
        <3> QED
            BY <2>2, <3>1, <3>2, <3>3 DEF ControlInv, BridgeTypeOK, replay_discard, Oldest
    <2>3. CASE replay_end \/ replay_ack
        BY <2>3 DEF ControlInv, BridgeTypeOK, replay_end, replay_ack, history
    <2> QED
        BY <2>1, <2>2, <2>3
<1>9. BridgeTypeOK'
    BY <1>1, <1>2, <1>3, <1>4, <1>5, <1>6, <1>7, <1>8, NothingIsNoMessage DEF ControlInv, BridgeTypeOK, BufferInv, env
<1>10. HandInv'
    BY <1>2 DEF HandInv
<1>11. AckInv'
    BY DEF ControlInv, BridgeTypeOK, AckInv, BatchLeft, store, replay_end, replay_send, replay_ack, replay_discard, replay_returned, replay_failed
<1>12. TimerInv'
    BY DEF ControlInv, TimerInv, replay_end, replay_send, replay_ack, replay_discard, replay_returned, replay_failed, fail, resetTimer
<1> QED
    BY <1>1, <1>9, <1>10, <1>11, <1>12 DEF ControlInv, BufferInv

\* Until a call has failed, a restart finds what the process has queued, and
\* perhaps older messages before it.
ViewInv == ~torn => IsRest(queue, stored)

\* What spill does, to what the process has and to what a restart would find:
\* the oldest messages go, m comes at the end.  What is neither queued nor kept
\* is counted.
LEMMA SpillQueue ==
    ASSUME queue \in Seq(Messages), stored \in Seq(Messages), torn \in BOOLEAN,
           errors \in 0..MaxErrors, NEW m \in Messages, spill(m)
    PROVE  /\ \E q : IsRest(q, queue) /\ queue' \in {q, Append(q, m)}
           /\ \E d : (IsRest(d, queue) \/ IsRest(d, stored)) /\ stored' \in {d, Append(d, m)}
           /\ errors' \in 0..MaxErrors /\ torn' \in BOOLEAN
           /\ settled' \subseteq settled \cup InQueue \cup {m}
           /\ settled \cup InQueue \cup {m} \subseteq settled' \cup InQueue'
           /\ ViewInv => ViewInv'
<1> USE BridgeAssumption
<1>1. CASE spill_stored(m)
    <2>1. PICK n \in 0..Len(queue) : \E d \in {stored} \cup Found(Rest(n)) :
            /\ queue' = Append(Rest(n), m)
            /\ stored' = Append(d, m) \/ (torn /\ stored' = d)
            /\ \/ settled' = settled \cup Oldest(n) /\ UNCHANGED errors
               \/ settled' = settled \cup Oldest(n) \cup {m} /\ Error
            /\ UNCHANGED torn
        BY <1>1 DEF spill_stored
    <2>2. PICK d \in {stored} \cup Found(Rest(n)) :
            /\ queue' = Append(Rest(n), m)
            /\ stored' = Append(d, m) \/ (torn /\ stored' = d)
            /\ \/ settled' = settled \cup Oldest(n) /\ UNCHANGED errors
               \/ settled' = settled \cup Oldest(n) \cup {m} /\ Error
            /\ UNCHANGED torn
        BY <2>1
    <2>3. /\ IsRest(Rest(n), queue) /\ Rest(n) \in Seq(Messages)
          /\ Oldest(n) \subseteq InQueue
          /\ InQueue \subseteq Oldest(n) \cup Range(Rest(n))
        BY RestOfQueue, RestFacts
    <2>4. d = Rest(n) \/ d = stored \/ (torn /\ IsRest(d, stored))
        BY <2>2, <2>3, FoundRest
    <2>5. IsRest(d, queue) \/ IsRest(d, stored)
        BY <2>3, <2>4, RestFacts
    <2>6. errors' \in 0..MaxErrors
        BY <2>2 DEF Error
    <2>7. InQueue' = Range(Rest(n)) \cup {m}
        BY <2>2, <2>3, AppendOne DEF InQueue
    <2>8. ASSUME ViewInv, ~torn PROVE IsRest(queue', stored')
        <3>1. IsRest(Rest(n), d)
            <4>1. CASE d = Rest(n)
                BY <2>3, <4>1, RestFacts
            <4>2. CASE d = stored
                BY <2>3, <2>8, <4>2, RestOfRest DEF ViewInv
            <4> QED
                BY <2>4, <2>8, <4>1, <4>2
        <3>2. d \in Seq(Messages)
            BY <2>3, <2>4, <2>8
        <3> QED
            BY <2>2, <2>8, <3>1, <3>2, AppendRest
    <2>9. ViewInv => ViewInv'
        BY <2>2, <2>8 DEF ViewInv
    <2>10. /\ settled' \subseteq settled \cup InQueue \cup {m}
           /\ settled \cup InQueue \cup {m} \subseteq settled' \cup InQueue'
        BY <2>2, <2>3, <2>7
    <2> QED
        BY <2>2, <2>3, <2>5, <2>6, <2>9, <2>10
<1>2. CASE spill_failed(m)
    <2>1. /\ stored' = stored \/ stored' = Append(stored, m)
          /\ queue' = queue \/ queue' = Append(queue, m)
          /\ Error /\ torn' = TRUE /\ settled' = settled \cup {m}
        BY <1>2 DEF spill_failed
    <2>2. IsRest(queue, queue) /\ IsRest(stored, stored)
        BY RestFacts
    <2>3. errors' \in 0..MaxErrors
        BY <2>1 DEF Error
    <2>4. torn' \in BOOLEAN /\ ViewInv'
        BY <2>1, Zenon DEF ViewInv
    <2>5. InQueue \subseteq InQueue'
        BY <2>1, AppendOne DEF InQueue
    <2> QED
        BY <2>1, <2>2, <2>3, <2>4, <2>5
<1> QED
    BY <1>1, <1>2 DEF spill

\* Steps that store the message in hand, or send it.
LEMMA ControlForward ==
    ASSUME ControlInv,
           forward_spill \/ forward_send \/ forward_refused \/ refused_spill \/ drain_spill
    PROVE  ControlInv'
<1> USE BridgeAssumption
<1>1. BufferInv'
    BY ControlBuffer, StageKept DEF forward_spill, forward_send, forward_refused, refused_spill, drain_spill
<1>2. /\ UNCHANGED <<ctx, env, due, revived, caller, batch>> /\ pc \in Holding /\ cur \in Messages
      /\ IF forward_refused THEN pc' = "refused" /\ cur' = cur
         ELSE pc' \in {"pop", "drain"} /\ cur' = Nothing
    <2>1. UNCHANGED <<ctx, env, due, revived, caller, batch>> /\ pc \in Holding
        BY DEF forward_spill, forward_send, forward_refused, refused_spill, drain_spill, Holding
    <2>2. IF forward_refused THEN pc' = "refused" /\ cur' = cur
          ELSE pc' \in {"pop", "drain"} /\ cur' = Nothing
        BY DEF forward_spill, forward_send, forward_refused, refused_spill, drain_spill
    <2> QED
        BY <2>1, <2>2 DEF ControlInv, HandInv
<1>3. /\ queue' \in Seq(Messages) /\ stored' \in Seq(Messages)
      /\ torn' \in BOOLEAN /\ errors' \in 0..MaxErrors
      /\ settled' \subseteq Messages
    <2>1. /\ queue \in Seq(Messages) /\ stored \in Seq(Messages)
          /\ torn \in BOOLEAN /\ errors \in 0..MaxErrors /\ settled \subseteq Messages
        BY DEF ControlInv, BridgeTypeOK
    <2>2. CASE spill(cur)
        <3>1. InQueue \subseteq Messages
            BY <2>1, RangeMembers DEF InQueue
        <3>2. PICK q : IsRest(q, queue) /\ queue' \in {q, Append(q, cur)}
            BY <1>2, <2>1, <2>2, SpillQueue
        <3>3. PICK d : (IsRest(d, queue) \/ IsRest(d, stored)) /\ stored' \in {d, Append(d, cur)}
            BY <1>2, <2>1, <2>2, SpillQueue
        <3>4. q \in Seq(Messages) /\ d \in Seq(Messages)
            BY <2>1, <3>2, <3>3, RestFacts
        <3>5. queue' \in Seq(Messages) /\ stored' \in Seq(Messages)
            BY <1>2, <3>2, <3>3, <3>4, AppendOne
        <3> QED
            BY <1>2, <2>1, <2>2, <3>1, <3>5, SpillQueue
    <2>3. CASE forward_send \/ forward_refused
        BY <1>2, <2>1, <2>3 DEF forward_send, forward_refused, Delivered, Refused, store
    <2> QED
        BY <2>2, <2>3 DEF forward_spill, refused_spill, drain_spill
<1>4. sinkUp' \in BOOLEAN
    <2>1. sinkUp' = FALSE \/ sinkUp' = sinkUp
        BY Zenon DEF forward_spill, forward_send, forward_refused, refused_spill, drain_spill, fail
    <2> QED
        BY <2>1, Zenon DEF ControlInv, BridgeTypeOK
<1>5. timer' \in {"armed", timer}
    BY DEF forward_spill, forward_send, forward_refused, refused_spill, drain_spill, fail, resetTimer
<1>6. last' \in [Topics -> 0..MaxSeq]
    <2>1. cur.sample \in 0..MaxSeq /\ cur.topic \in Topics
        BY <1>2 DEF Messages
    <2>2. last' = last \/ last' = [last EXCEPT ![cur.topic] = cur.sample]
        BY DEF forward_spill, forward_send, forward_refused, refused_spill, drain_spill, Delivered, Refused
    <2> QED
        BY <2>1, <2>2 DEF ControlInv, BridgeTypeOK
<1>7. BridgeTypeOK'
    BY <1>1, <1>2, <1>3, <1>4, <1>5, <1>6 DEF ControlInv, BridgeTypeOK, BufferInv, env, Pcs
<1>8. HandInv'
    BY <1>2 DEF HandInv, Holding
<1>9. AckInv' /\ TimerInv'
    BY <1>2, <1>5 DEF ControlInv, AckInv, TimerInv, Holding
<1> QED
    BY <1>1, <1>7, <1>8, <1>9 DEF ControlInv, BufferInv

\* Steps of the broker's goroutine.
LEMMA ControlDeliver ==
    ASSUME ControlInv, NEW t \in Topics, publish(t) \/ deliver_retained(t)
    PROVE  ControlInv'
<1> USE BridgeAssumption
<1> DEFINE m == [topic |-> t, sample |-> IF publish(t) THEN published[t] + 1 ELSE backlog[t]]
<1>1. m \in Messages
    BY DEF ControlInv, BridgeTypeOK, publish, deliver_retained, Messages
<1>2. /\ onMessage(m)
      /\ UNCHANGED <<pc, queue, stored, torn, errors, sinkUp, timer, batch, caller, cur, ctx, sinkOK, last, revived>>
    BY DEF store, publish, deliver_retained
<1>3. due' \subseteq Messages /\ published' \in [Topics -> 0..MaxSeq] /\ backlog' \in [Topics -> 0..MaxSeq]
    <2>1. CASE publish(t)
        <3>1. published[t] + 1 \in 0..MaxSeq
            BY <2>1 DEF ControlInv, BridgeTypeOK, publish
        <3>2. due' \subseteq Messages
            BY <1>1, <2>1 DEF ControlInv, BridgeTypeOK, publish
        <3> QED
            BY <2>1, <3>1, <3>2 DEF ControlInv, BridgeTypeOK, publish
    <2>2. CASE deliver_retained(t)
        BY <2>2 DEF ControlInv, BridgeTypeOK, deliver_retained
    <2> QED
        BY <2>1, <2>2
<1> HIDE DEF m
<1>4. BufferInv'
    BY <1>1, <1>2, ControlBuffer, PushKeeps DEF onMessage
<1>5. InMemory \subseteq Messages
    BY ElementOfSeq DEF InMemory, ControlInv, BridgeTypeOK, BufferTypeOK
<1>6. settled' \subseteq Messages
    BY <1>2, <1>5 DEF onMessage, ControlInv, BridgeTypeOK
<1>7. BridgeTypeOK'
    BY <1>2, <1>3, <1>4, <1>6 DEF ControlInv, BridgeTypeOK, BufferInv
<1>8. HandInv' /\ AckInv' /\ TimerInv'
    BY <1>2 DEF ControlInv, HandInv, AckInv, TimerInv
<1> QED
    BY <1>4, <1>7, <1>8 DEF ControlInv, BufferInv

\* The token is put, and taken.
LEMMA ControlNotify ==
    ASSUME ControlInv, wake \/ select_notify
    PROVE  ControlInv'
<1>1. /\ UNCHANGED <<topics, ring, rr, total, ret, store, sinkUp, timer, batch, caller, cur, ctx, env, history>>
      /\ notify' = TRUE \/ notify' = FALSE
      /\ pusher' = pusher \/ pusher' = "idle"
    BY DEF wake, signal, select_notify, await
<1>2. notify' \in BOOLEAN
    BY <1>1, Zenon
<1>3. BufferInv'
    BY <1>1, <1>2, ControlBuffer DEF BufferInv, BufferTypeOK, PerTopicBound, RingSound
<1>4. pc' = pc \/ (pc = "select" /\ pc' = "pop")
    BY DEF wake, select_notify, await
<1>5. BridgeTypeOK'
    BY <1>1, <1>3, <1>4 DEF ControlInv, BridgeTypeOK, BufferInv, Pcs, store, env, history
<1>6. HandInv' /\ AckInv' /\ TimerInv'
    BY <1>1, <1>4 DEF store, ControlInv, HandInv, AckInv, TimerInv, Holding
<1> QED
    BY <1>3, <1>5, <1>6 DEF ControlInv, BufferInv

\* What pop returns is the oldest message of a FIFO.
LEMMA PopHead ==
    ASSUME BufferInv, PopFinds
    PROVE  /\ NextTopic \in Topics
           /\ topics[NextTopic] \in Seq(Messages)
           /\ topics[NextTopic] # << >>
           /\ Head(topics[NextTopic]) \in Messages
<1>1. ring \in Seq(Topics) /\ Len(ring) \in Nat /\ Len(ring) > 0 /\ rr \in Nat /\ rr < Len(ring)
    BY EmptySeq DEF BufferInv, BufferTypeOK, RingSound, PopFinds
<1>2. (rr % Len(ring)) + 1 \in 1..Len(ring)
    BY <1>1
<1>3. NextTopic \in Topics /\ topics[NextTopic] # << >>
    BY <1>1, <1>2, ElementOfSeq DEF NextTopic, BufferInv, RingSound
<1>4. topics[NextTopic] \in Seq(Messages)
    BY <1>3 DEF BufferInv, BufferTypeOK
<1> QED
    BY <1>3, <1>4, QueueTail

\* Steps that take a message from the inbox.
LEMMA ControlPop ==
    ASSUME ControlInv, pop_message \/ drain_pop
    PROVE  ControlInv'
<1>1. /\ PopFinds /\ take /\ cur' = Head(topics[NextTopic])
      /\ UNCHANGED <<notify, pusher, ret, store, sinkUp, timer, batch, caller, ctx, env, history>>
      /\ pc' \in {"forward", "drain_spill"}
      /\ pc \in {"pop", "drain"}
    BY DEF pop_message, drain_pop
<1>2. BufferInv'
    BY <1>1, ControlBuffer, TakeKeeps
<1>3. cur' \in Messages
    BY <1>1, ControlBuffer, PopHead
<1>4. BridgeTypeOK'
    BY <1>1, <1>2, <1>3 DEF ControlInv, BridgeTypeOK, BufferInv, Pcs, store, env, history
<1>5. HandInv' /\ AckInv' /\ TimerInv'
    BY <1>1, <1>3 DEF ControlInv, HandInv, AckInv, TimerInv, Holding
<1> QED
    BY <1>2, <1>4, <1>5 DEF ControlInv, BufferInv

\* A new process finds what the disk has.
LEMMA RestartQueue ==
    ASSUME ControlInv, unsubscribe \/ crash
    PROVE  /\ MemoryGone /\ due' \subseteq due /\ UNCHANGED <<torn, ctx, env, last, settled>>
           /\ queue' = stored' /\ stored' \in Seq(Messages)
           /\ IsRest(stored', queue) \/ IsRest(stored', stored)
           /\ ~torn => stored' \in {queue, stored}
           /\ due' = due \ ((IF crash THEN InMemory \cup {cur} ELSE {}) \cup (InQueue \ InStored'))
           /\ revived' = revived \cup (InStored' \ InQueue)
           /\ revived' \subseteq Messages
           /\ errors' \in 0..MaxErrors
<1> USE BridgeAssumption
<1>1. /\ queue \in Seq(Messages) /\ stored \in Seq(Messages)
      /\ torn \in BOOLEAN /\ errors \in 0..MaxErrors /\ revived \subseteq Messages
    BY DEF ControlInv, BridgeTypeOK
<1> DEFINE mem == IF crash THEN InMemory \cup {cur} ELSE {}
<1>2. /\ MemoryGone /\ UNCHANGED <<torn, ctx, env, last, settled>>
      /\ errors' \in 0..MaxErrors
      /\ \E d \in {stored} \cup Found(queue) : Reopened(d, mem)
    <2>1. CASE crash
        BY <1>1, <2>1 DEF crash
    <2>2. CASE unsubscribe /\ ~crash
        <3>1. \E d \in {stored} \cup Found(queue) : Reopened(d, {})
            BY <2>2 DEF unsubscribe
        <3>2. errors' \in 0..MaxErrors
            BY <1>1, <2>2 DEF unsubscribe, Error
        <3> QED
            BY <2>2, <3>1, <3>2 DEF unsubscribe
    <2> QED
        BY <2>1, <2>2
<1> HIDE DEF mem
<1>3. PICK d \in {stored} \cup Found(queue) : Reopened(d, mem)
    BY <1>2
<1>4. d = stored \/ d = queue \/ (torn /\ IsRest(d, stored))
    BY <1>1, <1>3, FoundRest
<1>5. IsRest(stored, stored) /\ IsRest(queue, queue)
    BY <1>1, RestFacts
<1>6. IsRest(d, queue) \/ IsRest(d, stored)
    BY <1>4, <1>5
<1>7. d \in Seq(Messages)
    BY <1>1, <1>6, RestFacts
<1>8. /\ stored' = d /\ queue' = d
      /\ due' = due \ (mem \cup (InQueue \ InStored'))
      /\ revived' = revived \cup (InStored' \ InQueue)
    BY <1>3 DEF Reopened, InStored
<1>9. InStored' \subseteq Messages
    BY <1>7, <1>8, RangeMembers DEF InStored
<1>10. revived' \subseteq Messages /\ due' \subseteq due
    BY <1>1, <1>8, <1>9
<1> QED
    BY <1>2, <1>4, <1>6, <1>7, <1>8, <1>10 DEF mem

\* The end of a process, and the start of the next.
LEMMA ControlRestart ==
    ASSUME ControlInv, unsubscribe \/ crash \/ start
    PROVE  ControlInv'
<1> USE BridgeAssumption
<1>1. CASE unsubscribe \/ crash
    <2> USE <1>1
    <2>0. /\ MemoryGone /\ due' \subseteq due /\ UNCHANGED <<torn, ctx, env, last, settled>>
          /\ queue' \in Seq(Messages) /\ stored' \in Seq(Messages)
          /\ errors' \in 0..MaxErrors /\ revived' \subseteq Messages
        BY RestartQueue
    <2>1. BufferInv'
        <3>1. topics' \in [Topics -> Seq(Messages)] /\ ring' \in Seq(Topics)
            BY <2>0, EmptySeq DEF MemoryGone
        <3>2. notify' \in BOOLEAN /\ pusher' \in {"idle", "signal"}
            BY <2>0 DEF MemoryGone
        <3>3. rr' \in Nat /\ total' \in Nat /\ ret' \in {0, 1}
            BY <2>0 DEF MemoryGone
        <3>4. PerTopicBound'
            BY <2>0, InboxAssumption, EmptySeq DEF MemoryGone, PerTopicBound
        <3>5. RingSound'
            BY <2>0, EmptySeq DEF MemoryGone, RingSound
        <3> QED
            BY <3>1, <3>2, <3>3, <3>4, <3>5 DEF BufferInv, BufferTypeOK
    <2>2. sinkUp' \in BOOLEAN
        BY <2>0, Zenon DEF MemoryGone
    <2>3. BridgeTypeOK'
        BY <2>0, <2>1, <2>2 DEF ControlInv, BridgeTypeOK, BufferInv, MemoryGone, Pcs, env
    <2>4. HandInv' /\ AckInv' /\ TimerInv'
        BY <2>0 DEF MemoryGone, HandInv, AckInv, TimerInv, Holding
    <2> QED
        BY <2>1, <2>3, <2>4 DEF ControlInv, BufferInv
<1>2. CASE start
    <2>1. BufferInv'
        BY <1>2, ControlBuffer, StageKept DEF start
    <2>2. ctx' \in BOOLEAN
        BY <1>2, Zenon DEF start
    <2>3. BridgeTypeOK'
        BY <1>2, <2>1, <2>2 DEF ControlInv, BridgeTypeOK, BufferInv, start, Pcs, store, history
    <2>4. HandInv' /\ AckInv' /\ TimerInv'
        BY <1>2 DEF ControlInv, start, store, HandInv, AckInv, TimerInv, Holding
    <2> QED
        BY <2>1, <2>3, <2>4 DEF ControlInv, BufferInv
<1> QED
    BY <1>1, <1>2

\* Initially the forwarder has nothing in hand and the timer is set.
LEMMA ControlInit == BridgeInit => ControlInv
<1> SUFFICES ASSUME BridgeInit PROVE ControlInv
    OBVIOUS
<1>1. BufferInv
    BY InitBuffer DEF BridgeInit
<1>2. sinkUp \in BOOLEAN /\ ctx \in BOOLEAN /\ sinkOK \in BOOLEAN /\ torn \in BOOLEAN
    BY Zenon DEF BridgeInit
<1>3. BridgeTypeOK
    BY <1>1, <1>2, EmptySeq, BridgeAssumption DEF BridgeInit, BridgeTypeOK, BufferInv, Pcs
<1>4. HandInv /\ AckInv /\ TimerInv
    BY DEF BridgeInit, HandInv, AckInv, TimerInv, Holding
<1> QED
    BY <1>1, <1>3, <1>4 DEF ControlInv, BufferInv

\* Every step keeps the control invariant.
LEMMA ControlStep == ControlInv /\ [BridgeNext]_brVars => ControlInv'
    BY ControlQuiet, ControlReplay, ControlForward, ControlDeliver, ControlNotify, ControlPop, ControlRestart
    DEF BridgeNext, Forwarder

\* For all topics, samples and bounds, the bridge keeps its types, no FIFO of
\* its inbox exceeds PerTopicMax, the ring is sound, and the retry timer
\* (bridge.go Run) is set whenever the forwarder is not inside a replay: no
\* path through fail, replay or the select forgets to set it.
THEOREM RetryAlwaysPending ==
    BridgeSpec => [](BridgeTypeOK /\ PerTopicBound /\ RingSound /\ RetryPending)
<1>1. ControlInv => BridgeTypeOK /\ PerTopicBound /\ RingSound /\ RetryPending
    BY DEF ControlInv, TimerInv, RetryPending
<1> QED
    BY <1>1, ControlInit, ControlStep, PTL DEF BridgeSpec
----------------------------------------------------------------------------
(***************************************************************************)
(* Order.  What waits to be sent lies in three places, and a message leaves *)
(* them from the oldest: the queue, the forwarder's hand, the inbox.  The   *)
(* sink's latest sample of a topic is not newer than any that waits, except *)
(* those a restart has brought back.  What a restart would find is sorted   *)
(* as well, and not newer than what is in memory.                           *)
(***************************************************************************)
Before(a, b) == a.topic = b.topic => a.sample <= b.sample

Sorted(s) == \A i, j \in 1..Len(s) : i <= j => Before(s[i], s[j])

InHand == {cur} \cap Messages
OnDisk == InQueue \cup InStored

FifoOrder ==
    \A t \in Topics :
        /\ Sorted(topics[t])
        /\ \A i \in 1..Len(topics[t]) : topics[t][i].topic = t

\* The three places follow each other.
PlaceOrder ==
    /\ \A a \in OnDisk : \A b \in InHand : Before(a, b)
    /\ \A a \in OnDisk : \A b \in InMemory : Before(a, b)
    /\ \A a \in InHand : \A b \in InMemory : Before(a, b)

\* What waits was published, and nothing newer has been sent.
Past(m) == m.sample <= published[m.topic]
Ahead(m) == last[m.topic] <= m.sample

WaitOrder ==
    /\ \A m \in OnDisk \cup InMemory \cup InHand : Past(m)
    /\ \A m \in (InQueue \ revived) \cup InMemory \cup InHand : Ahead(m)

\* The retained sample of a topic is its newest.
SourceOrder ==
    \A t \in Topics : last[t] <= published[t] /\ backlog[t] \in {0, published[t]}

OrderInv == FifoOrder /\ Sorted(queue) /\ Sorted(stored) /\ PlaceOrder /\ WaitOrder /\ SourceOrder

\* What InMemory contains, before a step and after it.
LEMMA MemoryContents ==
    /\ \A x \in InMemory : \E t \in Topics : \E i \in 1..Len(topics[t]) : x = topics[t][i]
    /\ \A t \in Topics : \A i \in 1..Len(topics[t]) : topics[t][i] \in InMemory
    /\ \A x \in InMemory' : \E t \in Topics : \E i \in 1..Len(topics'[t]) : x = topics'[t][i]
    /\ \A t \in Topics : \A i \in 1..Len(topics'[t]) : topics'[t][i] \in InMemory'
BY DEF InMemory

\* Only messages wait.
LEMMA OnlyMessages ==
    ASSUME BridgeTypeOK
    PROVE  OnDisk \subseteq Messages /\ InMemory \subseteq Messages /\ InHand \subseteq Messages
<1>1. OnDisk \subseteq Messages
    BY RangeMembers DEF BridgeTypeOK, OnDisk, InQueue, InStored
<1>2. InMemory \subseteq Messages
    BY ElementOfSeq DEF InMemory, BridgeTypeOK, BufferTypeOK
<1> QED
    BY <1>1, <1>2 DEF InHand

\* A sample's number and topic.
LEMMA MessageFields ==
    ASSUME NEW m \in Messages
    PROVE  m.topic \in Topics /\ m.sample \in Nat /\ m.sample >= 1 /\ m.sample <= MaxSeq
BY BridgeAssumption DEF Messages

\* A newer message at the end keeps a sequence sorted.
LEMMA SortedAppend ==
    ASSUME NEW s \in Seq(Messages), Sorted(s), NEW m \in Messages,
           \A i \in 1..Len(s) : Before(s[i], m)
    PROVE  /\ Sorted(Append(s, m))
           /\ \A i \in 1..Len(Append(s, m)) :
                 Append(s, m)[i] = m \/ \E j \in 1..Len(s) : Append(s, m)[i] = s[j]
<1> DEFINE q == Append(s, m)
<1>1. /\ Len(s) \in Nat
      /\ Len(q) = Len(s) + 1
      /\ \A i \in 1..Len(s) : q[i] = s[i]
      /\ q[Len(s) + 1] = m
    BY AppendProperties, LenProperties
<1> HIDE DEF q
<1>2. \A i \in 1..Len(q) : q[i] = m \/ \E j \in 1..Len(s) : q[i] = s[j]
    BY <1>1
<1>3. ASSUME NEW i \in 1..Len(q), NEW j \in 1..Len(q), i <= j
      PROVE  Before(q[i], q[j])
    <2>1. CASE j \in 1..Len(s)
        <3>1. i \in 1..Len(s)
            BY <1>1, <1>3, <2>1
        <3> QED
            BY <1>1, <1>3, <2>1, <3>1 DEF Sorted
    <2>2. CASE j = Len(s) + 1 /\ i \in 1..Len(s)
        BY <1>1, <2>2
    <2>3. CASE j = Len(s) + 1 /\ i = Len(s) + 1
        <3>1. m.sample <= m.sample
            BY MessageFields
        <3> QED
            BY <1>1, <2>3, <3>1 DEF Before
    <2> QED
        BY <1>1, <2>1, <2>2, <2>3
<1> QED
    BY <1>2, <1>3 DEF q, Sorted

\* The rest of a sorted sequence is sorted, and not older than its head.
LEMMA SortedTail ==
    ASSUME NEW s \in Seq(Messages), s # << >>, Sorted(s)
    PROVE  /\ Sorted(Tail(s))
           /\ Head(s) = s[1] /\ 1 \in 1..Len(s)
           /\ \A i \in 1..Len(s) : Before(Head(s), s[i])
           /\ \A i \in 1..Len(Tail(s)) : \E j \in 1..Len(s) : Tail(s)[i] = s[j]
<1>1. /\ Head(s) = s[1] /\ Len(s) \in Nat /\ Len(s) >= 1
      /\ Len(Tail(s)) = Len(s) - 1
      /\ \A i \in 1..(Len(s) - 1) : Tail(s)[i] = s[i + 1]
    BY QueueTail
<1> DEFINE q == Tail(s)
<1>2. Len(q) = Len(s) - 1 /\ \A i \in 1..(Len(s) - 1) : q[i] = s[i + 1]
    BY <1>1
<1> HIDE DEF q
<1>3. 1 \in 1..Len(s) /\ \A i \in 1..Len(s) : 1 <= i
    BY <1>1
<1>4. \A i \in 1..Len(s) : Before(Head(s), s[i])
    BY <1>1, <1>3 DEF Sorted
<1>5. \A i \in 1..Len(q) : i + 1 \in 1..Len(s) /\ q[i] = s[i + 1]
    BY <1>1, <1>2
<1>6. \A i, j \in 1..Len(q) : i <= j => Before(q[i], q[j])
    <2> SUFFICES ASSUME NEW i \in 1..Len(q), NEW j \in 1..Len(q), i <= j
                 PROVE  Before(q[i], q[j])
        OBVIOUS
    <2>1. i + 1 <= j + 1
        OBVIOUS
    <2> QED
        BY <1>5, <2>1 DEF Sorted
<1> QED
    BY <1>1, <1>3, <1>4, <1>5, <1>6 DEF q, Sorted

\* A rest of a sorted sequence is sorted.
LEMMA SortedRest ==
    ASSUME NEW s \in Seq(Messages), Sorted(s), NEW d, IsRest(d, s)
    PROVE  Sorted(d)
<1>1. d \in Seq(Messages) /\ Len(s) \in Nat /\ Len(d) \in Nat
    BY LenProperties DEF IsRest
<1>2. PICK k \in 0..Len(s) : Without(d, s, k)
    BY DEF IsRest
<1>3. \A i \in 1..Len(d) : i + k \in 1..Len(s) /\ d[i] = s[i + k]
    BY <1>1, <1>2 DEF Without
<1> SUFFICES ASSUME NEW i \in 1..Len(d), NEW j \in 1..Len(d), i <= j
             PROVE  Before(d[i], d[j])
    BY DEF Sorted
<1>4. i + k <= j + k
    BY <1>1
<1> QED
    BY <1>3, <1>4 DEF Sorted

\* The same, with a newer message at the end or not.
LEMMA SortedStore ==
    ASSUME NEW s \in Seq(Messages), Sorted(s), NEW d, IsRest(d, s), NEW m \in Messages,
           \A x \in Range(s) : Before(x, m)
    PROVE  /\ Sorted(d) /\ Range(d) \subseteq Range(s) \cup {m}
           /\ Sorted(Append(d, m)) /\ Range(Append(d, m)) \subseteq Range(s) \cup {m}
<1>1. d \in Seq(Messages) /\ Range(d) \subseteq Range(s) /\ Sorted(d)
    BY RestFacts, SortedRest
<1>2. \A i \in 1..Len(d) : Before(d[i], m)
    BY <1>1, RangeMembers
<1>3. Sorted(Append(d, m)) /\ Range(Append(d, m)) = Range(d) \cup {m}
    BY <1>1, <1>2, SortedAppend, AppendOne
<1> QED
    BY <1>1, <1>3

\* Steps that move no message.
LEMMA OrderQuiet ==
    ASSUME OrderInv, UNCHANGED <<topics, queue, stored, cur, last, published, backlog, revived>>
    PROVE  OrderInv'
<1>1. UNCHANGED <<OnDisk, InQueue, InMemory, InHand>>
    BY DEF OnDisk, InQueue, InStored, InMemory, InHand
<1>2. FifoOrder' /\ Sorted(queue)' /\ Sorted(stored)' /\ SourceOrder'
    BY DEF OrderInv, FifoOrder, Sorted, SourceOrder, Before
<1>3. PlaceOrder' /\ WaitOrder'
    BY <1>1 DEF OrderInv, PlaceOrder, WaitOrder, Before, Past, Ahead
<1> QED
    BY <1>2, <1>3 DEF OrderInv

\* The message that comes from the broker is the newest of its topic.
LEMMA OrderDeliver ==
    ASSUME ControlInv, OrderInv, NEW t \in Topics, publish(t) \/ deliver_retained(t)
    PROVE  OrderInv' /\ last' = last
<1> USE BridgeAssumption
<1> DEFINE m == [topic |-> t, sample |-> IF publish(t) THEN published[t] + 1 ELSE backlog[t]]
<1>1. /\ published \in [Topics -> 0..MaxSeq]
      /\ backlog \in [Topics -> 0..MaxSeq]
      /\ last \in [Topics -> 0..MaxSeq]
    BY DEF ControlInv, BridgeTypeOK
<1>2. /\ m \in Messages /\ m.topic = t
      /\ published[t] <= m.sample
      /\ m.sample <= published'[t]
      /\ \A u \in Topics : published[u] <= published'[u]
      /\ \A u \in Topics : backlog'[u] \in {0, published'[u]}
      /\ published' \in [Topics -> Nat]
    <2>1. CASE publish(t)
        <3>1. m = [topic |-> t, sample |-> published[t] + 1] /\ published[t] + 1 \in 1..MaxSeq
            BY <1>1, <2>1 DEF publish
        <3>2. published' = [published EXCEPT ![t] = published[t] + 1] /\ backlog' = backlog
            BY <2>1 DEF publish
        <3>3. \A u \in Topics : backlog[u] = 0
            BY <2>1 DEF publish
        <3> HIDE DEF m
        <3> QED
            BY <1>1, <3>1, <3>2, <3>3 DEF Messages
    <2>2. CASE deliver_retained(t) /\ ~publish(t)
        <3>1. m = [topic |-> t, sample |-> backlog[t]]
            BY <2>2
        <3>2. backlog[t] = published[t] /\ backlog[t] \in 1..MaxSeq
            BY <1>1, <2>2 DEF deliver_retained, OrderInv, SourceOrder
        <3>3. published' = published /\ backlog' = [backlog EXCEPT ![t] = 0]
            BY <2>2 DEF deliver_retained
        <3>4. \A u \in Topics : backlog[u] \in {0, published[u]}
            BY DEF OrderInv, SourceOrder
        <3> HIDE DEF m
        <3> QED
            BY <1>1, <3>1, <3>2, <3>3, <3>4 DEF Messages
    <2> QED
        BY <2>1, <2>2
<1>3. push(m) /\ UNCHANGED <<queue, stored, cur, last, revived>>
    BY DEF store, publish, deliver_retained, onMessage
<1> HIDE DEF m
<1>4. \A x \in OnDisk \cup InMemory \cup InHand : x \in Messages /\ Before(x, m) /\ Past(x)
    <2> SUFFICES ASSUME NEW x \in OnDisk \cup InMemory \cup InHand
                 PROVE  x \in Messages /\ Before(x, m) /\ Past(x)
        OBVIOUS
    <2>1. x \in Messages
        BY OnlyMessages DEF ControlInv
    <2>2. Past(x)
        BY DEF OrderInv, WaitOrder
    <2>3. x.topic = t => x.sample <= m.sample
        BY <1>1, <1>2, <2>1, <2>2, MessageFields DEF Past
    <2> QED
        BY <1>2, <2>1, <2>2, <2>3 DEF Before
<1>5. /\ \/ topics'[t] = Append(topics[t], m)
         \/ topics[t] # << >> /\ topics'[t] = Append(Tail(topics[t]), m)
      /\ \A u \in Topics : u # t =>
            \/ topics'[u] = topics[u]
            \/ topics[u] # << >> /\ topics'[u] = Tail(topics[u])
    BY <1>2, <1>3, PushFifos, ControlBuffer
<1>6. ASSUME NEW u \in Topics
      PROVE  /\ Sorted(topics'[u])
             /\ \A i \in 1..Len(topics'[u]) :
                   \/ \E j \in 1..Len(topics[u]) : topics'[u][i] = topics[u][j]
                   \/ u = t /\ topics'[u][i] = m
    <2>1. topics[u] \in Seq(Messages) /\ Sorted(topics[u])
        BY DEF ControlInv, BridgeTypeOK, BufferTypeOK, OrderInv, FifoOrder
    <2>2. \A i \in 1..Len(topics[u]) : Before(topics[u][i], m)
        BY <1>4, MemoryContents
    <2>3. CASE topics'[u] = topics[u]
        BY <2>1, <2>3
    <2>4. CASE topics[u] # << >> /\ topics'[u] = Tail(topics[u])
        BY <2>1, <2>4, SortedTail
    <2>5. CASE u = t /\ topics'[u] = Append(topics[u], m)
        <3> DEFINE q == topics[u]
        <3>1. q \in Seq(Messages) /\ Sorted(q) /\ \A i \in 1..Len(q) : Before(q[i], m)
            BY <2>1, <2>2
        <3> HIDE DEF q
        <3>2. /\ Sorted(Append(q, m))
              /\ \A i \in 1..Len(Append(q, m)) :
                    Append(q, m)[i] = m \/ \E j \in 1..Len(q) : Append(q, m)[i] = q[j]
            BY <1>2, <3>1, SortedAppend
        <3>3. topics'[u] = Append(q, m)
            BY <2>5 DEF q
        <3>4. \A i \in 1..Len(topics'[u]) :
                 topics'[u][i] = m \/ \E j \in 1..Len(topics[u]) : topics'[u][i] = topics[u][j]
            BY <3>2, <3>3 DEF q
        <3> QED
            BY <2>5, <3>2, <3>3, <3>4
    <2>6. CASE u = t /\ topics[u] # << >> /\ topics'[u] = Append(Tail(topics[u]), m)
        <3> DEFINE q == Tail(topics[u])
        <3>1. q \in Seq(Messages)
            BY <2>1, <2>6, FifoTail
        <3>2. Sorted(q) /\ \A i \in 1..Len(q) : \E j \in 1..Len(topics[u]) : q[i] = topics[u][j]
            BY <2>1, <2>6, SortedTail
        <3> HIDE DEF q
        <3>3. \A i \in 1..Len(q) : Before(q[i], m)
            BY <2>2, <3>2
        <3>4. topics'[u] = Append(q, m)
            BY <2>6 DEF q
        <3>5. /\ Sorted(Append(q, m))
              /\ \A i \in 1..Len(Append(q, m)) :
                    Append(q, m)[i] = m \/ \E j \in 1..Len(q) : Append(q, m)[i] = q[j]
            BY <1>2, <3>1, <3>2, <3>3, SortedAppend
        <3>6. \A i \in 1..Len(topics'[u]) :
                 topics'[u][i] = m \/ \E j \in 1..Len(topics[u]) : topics'[u][i] = topics[u][j]
            BY <3>2, <3>4, <3>5
        <3> QED
            BY <2>6, <3>4, <3>5, <3>6
    <2> QED
        BY <1>5, <2>3, <2>4, <2>5, <2>6
<1>7. FifoOrder'
    <2>1. \A u \in Topics : Sorted(topics'[u])
        BY <1>6
    <2>2. \A u \in Topics : \A j \in 1..Len(topics[u]) : topics[u][j].topic = u
        BY DEF OrderInv, FifoOrder
    <2>3. m.topic = t
        BY <1>2
    <2>4. \A u \in Topics : \A i \in 1..Len(topics'[u]) : topics'[u][i].topic = u
        <3> SUFFICES ASSUME NEW u \in Topics, NEW i \in 1..Len(topics'[u])
                     PROVE  topics'[u][i].topic = u
            OBVIOUS
        <3>1. (\E j \in 1..Len(topics[u]) : topics'[u][i] = topics[u][j]) \/ (u = t /\ topics'[u][i] = m)
            BY <1>6
        <3> QED
            BY <2>2, <2>3, <3>1
    <2> QED
        BY <2>1, <2>4 DEF FifoOrder, Sorted
<1>8. InMemory' \subseteq InMemory \cup {m}
    <2> SUFFICES ASSUME NEW x \in InMemory' PROVE x \in InMemory \/ x = m
        OBVIOUS
    <2>1. PICK u \in Topics : \E i \in 1..Len(topics'[u]) : x = topics'[u][i]
        BY MemoryContents
    <2>2. x = m \/ \E j \in 1..Len(topics[u]) : x = topics[u][j]
        BY <1>6, <2>1
    <2> QED
        BY <2>2, MemoryContents
<1>9. UNCHANGED <<OnDisk, InQueue, InHand>>
    BY <1>3 DEF OnDisk, InQueue, InStored, InHand
<1>10. PlaceOrder'
    BY <1>4, <1>8, <1>9 DEF OrderInv, PlaceOrder, Before
<1>11. WaitOrder'
    <2>1. ASSUME NEW x \in OnDisk \cup InMemory \cup InHand PROVE Past(x)'
        <3>1. x \in Messages /\ x.topic \in Topics /\ x.sample \in Nat /\ Past(x)
            BY <1>4, MessageFields
        <3>2. published[x.topic] \in Nat /\ published'[x.topic] \in Nat /\ published[x.topic] <= published'[x.topic]
            BY <1>1, <1>2, <3>1
        <3> QED
            BY <3>1, <3>2 DEF Past
    <2>2. last'[m.topic] <= m.sample /\ m.sample <= published'[m.topic]
        <3>1. last[t] <= published[t] /\ last[t] \in Nat /\ published[t] \in Nat /\ m.sample \in Nat
            BY <1>1, <1>2, MessageFields DEF OrderInv, SourceOrder
        <3> QED
            BY <1>2, <1>3, <3>1
    <2>3. \A x \in (InQueue \ revived) \cup InMemory \cup InHand : Ahead(x)'
        BY <1>3 DEF OrderInv, WaitOrder, Ahead
    <2> QED
        BY <1>3, <1>8, <1>9, <2>1, <2>2, <2>3 DEF WaitOrder, Past, Ahead
<1>12. SourceOrder'
    BY <1>1, <1>2, <1>3 DEF OrderInv, SourceOrder
<1> QED
    BY <1>3, <1>7, <1>10, <1>11, <1>12 DEF OrderInv, Sorted

NeverBack ==
    \A t \in Topics :
        last'[t] >= last[t] \/ [topic |-> t, sample |-> last'[t]] \in revived

\* What is sent is the oldest of its topic that waits, so the sink's latest
\* sample does not go back, and stays behind what waits.
LEMMA OrderSend ==
    ASSUME ControlInv, OrderInv, NEW m \in InQueue \cup InHand,
           \A x \in InQueue \cup InMemory \cup InHand : Before(m, x),
           UNCHANGED <<topics, queue, stored, published, backlog, revived>>,
           InHand' \subseteq InHand,
           last' = last \/ last' = [last EXCEPT ![m.topic] = m.sample]
    PROVE  OrderInv' /\ NeverBack
<1>1. /\ published \in [Topics -> 0..MaxSeq]
      /\ last \in [Topics -> 0..MaxSeq] /\ MaxSeq \in Nat
    BY BridgeAssumption DEF ControlInv, BridgeTypeOK
<1>2. UNCHANGED <<OnDisk, InQueue, InMemory>>
    BY DEF OnDisk, InQueue, InStored, InMemory
<1>3. /\ m \in Messages /\ m.topic \in Topics /\ m.sample \in Nat
      /\ Past(m) /\ (m \in revived \/ Ahead(m))
    BY OnlyMessages, MessageFields DEF ControlInv, OrderInv, WaitOrder, OnDisk
<1>4. /\ last'[m.topic] \in {last[m.topic], m.sample}
      /\ \A t \in Topics : t # m.topic => last'[t] = last[t]
    BY <1>1, <1>3
<1>5. NeverBack
    <2> SUFFICES ASSUME NEW t \in Topics
                 PROVE  last'[t] >= last[t] \/ [topic |-> t, sample |-> last'[t]] \in revived
        BY DEF NeverBack
    <2>1. CASE last'[t] = last[t]
        BY <1>1, <2>1
    <2>2. CASE t = m.topic /\ last'[t] = m.sample
        <3>1. m = [topic |-> t, sample |-> last'[t]]
            BY <1>3, <2>2 DEF Messages
        <3>2. CASE m \in revived
            BY <3>1, <3>2
        <3>3. CASE Ahead(m)
            BY <1>1, <1>3, <2>2, <3>3 DEF Ahead
        <3> QED
            BY <1>3, <3>2, <3>3
    <2> QED
        BY <1>4, <2>1, <2>2
<1>6. WaitOrder'
    <2>1. ASSUME NEW x \in OnDisk \cup InMemory \cup InHand PROVE Past(x)'
        BY DEF OrderInv, WaitOrder, Past
    <2>2. ASSUME NEW x \in (InQueue \ revived) \cup InMemory \cup InHand PROVE Ahead(x)'
        <3>1. Ahead(x) /\ Before(m, x) /\ x.topic \in Topics
            BY OnlyMessages, MessageFields DEF ControlInv, OrderInv, WaitOrder, OnDisk
        <3> QED
            BY <1>4, <3>1 DEF Ahead, Before
    <2> QED
        BY <1>2, <2>1, <2>2 DEF WaitOrder
<1>7. SourceOrder'
    <2>1. \A t \in Topics : last'[t] <= published[t]
        BY <1>3, <1>4 DEF OrderInv, SourceOrder, Past
    <2> QED
        BY <2>1 DEF OrderInv, SourceOrder
<1>8. FifoOrder' /\ Sorted(queue)' /\ Sorted(stored)'
    BY DEF OrderInv, FifoOrder, Sorted
<1>9. PlaceOrder'
    BY <1>2 DEF OrderInv, PlaceOrder, Before
<1> QED
    BY <1>5, <1>6, <1>7, <1>8, <1>9 DEF OrderInv

\* The queue, and what is on the disk, change as replay and spill change them.
LEMMA OrderStore ==
    ASSUME ControlInv, OrderInv,
           UNCHANGED <<topics, last, published, backlog, revived>>,
           NEW M \in SUBSET InHand, InHand' \subseteq InHand \ M,
           Sorted(queue'), InQueue' \subseteq InQueue \cup M,
           Sorted(stored'), InStored' \subseteq OnDisk \cup M
    PROVE  OrderInv'
<1>1. InMemory' = InMemory
    BY DEF InMemory
<1>2. OnDisk' \subseteq OnDisk \cup M
    BY DEF OnDisk
<1>3. FifoOrder' /\ SourceOrder'
    BY DEF OrderInv, FifoOrder, SourceOrder, Sorted
<1>4. PlaceOrder'
    <2>1. \A a \in M : \A b \in InHand' : FALSE
        BY DEF InHand
    <2> QED
        BY <1>1, <1>2, <2>1 DEF OrderInv, PlaceOrder, Before
<1>5. WaitOrder'
    <2>1. \A x \in OnDisk \cup InMemory \cup InHand : Past(x)'
        BY DEF OrderInv, WaitOrder, Past
    <2>2. \A x \in (InQueue \ revived) \cup InMemory \cup InHand : Ahead(x)'
        BY DEF OrderInv, WaitOrder, Ahead
    <2> QED
        BY <1>1, <1>2, <2>1, <2>2 DEF WaitOrder
<1> QED
    BY <1>3, <1>4, <1>5 DEF OrderInv, Sorted

\* The queue loses its oldest messages.
LEMMA OrderAck ==
    ASSUME ControlInv, OrderInv, replay_ack \/ replay_discard
    PROVE  OrderInv' /\ last' = last
<1>1. UNCHANGED <<topics, cur, last, published, backlog, revived>>
    BY DEF replay_ack, replay_discard, stage, env
<1>2. /\ queue \in Seq(Messages) /\ Sorted(queue)
      /\ stored \in Seq(Messages) /\ Sorted(stored)
      /\ torn \in BOOLEAN /\ errors \in 0..MaxErrors
    BY DEF ControlInv, BridgeTypeOK, OrderInv
<1>3. IsRest(queue', queue) /\ (IsRest(stored', queue) \/ IsRest(stored', stored))
    BY <1>2, ReplayQueue
<1>4. /\ Sorted(queue') /\ InQueue' \subseteq InQueue
      /\ Sorted(stored') /\ InStored' \subseteq OnDisk
    BY <1>2, <1>3, RestFacts, SortedRest DEF InQueue, InStored, OnDisk
<1>5. InHand' \subseteq InHand \ {} /\ {} \in SUBSET InHand
    BY <1>1 DEF InHand
<1> QED
    BY <1>1, <1>4, <1>5, OrderStore

\* The message in hand goes to the end of the queue.
LEMMA OrderSpill ==
    ASSUME ControlInv, OrderInv, cur \in Messages, spill(cur), cur' = Nothing,
           UNCHANGED <<topics, last, published, backlog, revived>>
    PROVE  OrderInv'
<1> DEFINE m == cur
<1>1. /\ queue \in Seq(Messages) /\ Sorted(queue)
      /\ stored \in Seq(Messages) /\ Sorted(stored)
      /\ torn \in BOOLEAN /\ errors \in 0..MaxErrors /\ m \in Messages
    BY DEF ControlInv, BridgeTypeOK, OrderInv
<1>2. \A a \in OnDisk : Before(a, m)
    BY DEF InHand, OrderInv, PlaceOrder
<1>3. PICK q : IsRest(q, queue) /\ queue' \in {q, Append(q, m)}
    BY <1>1, SpillQueue
<1>4. PICK d : (IsRest(d, queue) \/ IsRest(d, stored)) /\ stored' \in {d, Append(d, m)}
    BY <1>1, SpillQueue
<1>5. {m} \in SUBSET InHand /\ InHand' \subseteq InHand \ {m}
    BY NothingIsNoMessage DEF InHand, Messages
<1> HIDE DEF m
<1>6. (\A a \in Range(queue) : Before(a, m)) /\ (\A a \in Range(stored) : Before(a, m))
    BY <1>2 DEF OnDisk, InQueue, InStored
<1>7. Sorted(queue') /\ Range(queue') \subseteq Range(queue) \cup {m}
    <2>1. /\ Sorted(q) /\ Range(q) \subseteq Range(queue) \cup {m}
          /\ Sorted(Append(q, m)) /\ Range(Append(q, m)) \subseteq Range(queue) \cup {m}
        BY <1>1, <1>3, <1>6, SortedStore
    <2> QED
        BY <1>3, <2>1
<1>8. Sorted(stored') /\ Range(stored') \subseteq Range(queue) \cup Range(stored) \cup {m}
    <2>1. /\ Sorted(d) /\ Range(d) \subseteq Range(queue) \cup Range(stored) \cup {m}
          /\ Sorted(Append(d, m)) /\ Range(Append(d, m)) \subseteq Range(queue) \cup Range(stored) \cup {m}
        <3>1. CASE IsRest(d, queue)
            BY <1>1, <1>6, <3>1, SortedStore
        <3>2. CASE IsRest(d, stored)
            BY <1>1, <1>6, <3>2, SortedStore
        <3> QED
            BY <1>4, <3>1, <3>2
    <2> QED
        BY <1>4, <2>1
<1>9. InQueue' \subseteq InQueue \cup {m} /\ InStored' \subseteq OnDisk \cup {m}
    BY <1>7, <1>8 DEF InQueue, InStored, OnDisk
<1> QED
    BY <1>5, <1>7, <1>8, <1>9, OrderStore

\* The oldest message of a FIFO comes into the empty hand.
LEMMA OrderPop ==
    ASSUME ControlInv, OrderInv, pop_message \/ drain_pop
    PROVE  OrderInv'
<1> DEFINE t == NextTopic
           m == Head(topics[t])
<1>1. /\ PopFinds /\ take /\ cur' = m /\ cur = Nothing
      /\ UNCHANGED <<queue, stored, last, published, backlog, revived>>
    BY DEF pop_message, drain_pop, store, env, history, ControlInv, HandInv, Holding
<1>2. t \in Topics /\ topics[t] \in Seq(Messages) /\ topics[t] # << >> /\ m \in Messages
    BY <1>1, PopHead, ControlBuffer
<1>3. topics' = [topics EXCEPT ![t] = Tail(@)] /\ topics \in [Topics -> Seq(Messages)]
    BY <1>1 DEF take, ControlInv, BridgeTypeOK, BufferTypeOK
<1> HIDE DEF t
<1>4. /\ topics'[t] = Tail(topics[t])
      /\ \A u \in Topics : u # t => topics'[u] = topics[u]
    BY <1>2, <1>3
<1>5. Sorted(topics[t]) /\ \A i \in 1..Len(topics[t]) : topics[t][i].topic = t
    BY <1>2 DEF OrderInv, FifoOrder
<1>6. /\ Sorted(Tail(topics[t]))
      /\ m = topics[t][1] /\ 1 \in 1..Len(topics[t])
      /\ \A i \in 1..Len(topics[t]) : Before(m, topics[t][i])
      /\ \A i \in 1..Len(Tail(topics[t])) : \E j \in 1..Len(topics[t]) : Tail(topics[t])[i] = topics[t][j]
    BY <1>2, <1>5, SortedTail
<1> HIDE DEF m
<1>7. /\ Sorted(topics'[t])
      /\ \A i \in 1..Len(topics'[t]) : \E j \in 1..Len(topics[t]) : topics'[t][i] = topics[t][j]
    BY <1>4, <1>6
<1>8. m \in InMemory /\ m.topic = t
    BY <1>2, <1>5, <1>6, MemoryContents
<1>9. InMemory' \subseteq InMemory
    <2> SUFFICES ASSUME NEW u \in Topics, NEW i \in 1..Len(topics'[u])
                 PROVE  topics'[u][i] \in InMemory
        BY MemoryContents
    <2>1. CASE u = t
        BY <1>2, <1>7, <2>1, MemoryContents
    <2>2. CASE u # t
        BY <1>4, <2>2, MemoryContents
    <2> QED
        BY <2>1, <2>2
<1>10. \A b \in InMemory : Before(m, b)
    <2> SUFFICES ASSUME NEW u \in Topics, NEW i \in 1..Len(topics[u])
                 PROVE  Before(m, topics[u][i])
        BY MemoryContents
    <2>1. CASE u = t
        BY <1>6, <2>1
    <2>2. CASE u # t
        BY <1>8, <2>2 DEF Before, OrderInv, FifoOrder
    <2> QED
        BY <2>1, <2>2
<1>11. UNCHANGED <<OnDisk, InQueue>> /\ InHand' = {m}
    BY <1>1, <1>2 DEF OnDisk, InQueue, InStored, InHand, Messages
<1>12. FifoOrder'
    <2> SUFFICES ASSUME NEW u \in Topics
                 PROVE  Sorted(topics'[u]) /\ \A i \in 1..Len(topics'[u]) : topics'[u][i].topic = u
        BY DEF FifoOrder, Sorted
    <2>1. CASE u = t
        BY <1>5, <1>7, <2>1
    <2>2. CASE u # t
        BY <1>4, <2>2 DEF OrderInv, FifoOrder
    <2> QED
        BY <2>1, <2>2
<1>13. PlaceOrder'
    BY <1>8, <1>9, <1>10, <1>11 DEF OrderInv, PlaceOrder, Before
<1>14. WaitOrder'
    BY <1>1, <1>8, <1>9, <1>11 DEF OrderInv, WaitOrder, Past, Ahead
<1>15. SourceOrder' /\ Sorted(queue)' /\ Sorted(stored)'
    BY <1>1 DEF OrderInv, SourceOrder, Sorted
<1> QED
    BY <1>12, <1>13, <1>14, <1>15 DEF OrderInv

\* A step that sends nothing.
LEMMA NothingSent ==
    ASSUME ControlInv, last' = last
    PROVE  NeverBack
BY BridgeAssumption DEF NeverBack, ControlInv, BridgeTypeOK

\* Replay sends the queue from its head, with an empty hand.
LEMMA OrderReplay ==
    ASSUME ControlInv, OrderInv, replay_end \/ replay_send \/ replay_ack \/ replay_discard
    PROVE  OrderInv' /\ NeverBack
<1>1. CASE replay_end
    <2>1. UNCHANGED <<topics, queue, stored, cur, last, published, backlog, revived>>
        BY <1>1 DEF replay_end, stage, store, env, history
    <2> QED
        BY <2>1, OrderQuiet, NothingSent
<1>2. CASE replay_ack \/ replay_discard
    BY <1>2, OrderAck, NothingSent
<1>3. CASE replay_send
    <2> DEFINE m == Head(queue)
    <2>1. /\ queue # << >> /\ queue \in Seq(Messages) /\ Sorted(queue)
          /\ UNCHANGED <<topics, queue, stored, cur, published, backlog, revived>>
          /\ last' = last \/ last' = [last EXCEPT ![m.topic] = m.sample]
          /\ cur = Nothing
        BY <1>3 DEF replay_send, stage, store, env, ControlInv, BridgeTypeOK, OrderInv, Delivered, Refused, HandInv, Holding
    <2>2. m = queue[1] /\ 1 \in 1..Len(queue) /\ \A i \in 1..Len(queue) : Before(m, queue[i])
        BY <2>1, SortedTail
    <2> HIDE DEF m
    <2>3. m \in InQueue /\ \A x \in InQueue : Before(m, x)
        BY <2>1, <2>2, RangeMembers DEF InQueue
    <2>4. \A x \in InMemory \cup InHand : Before(m, x)
        BY <2>3 DEF OrderInv, PlaceOrder, OnDisk
    <2>5. InHand' = InHand
        BY <2>1 DEF InHand
    <2> QED
        BY <2>1, <2>3, <2>4, <2>5, OrderSend
<1> QED
    BY <1>1, <1>2, <1>3

\* The message in hand is sent only past an empty queue, else it goes there.
LEMMA OrderForward ==
    ASSUME ControlInv, OrderInv,
           forward_spill \/ forward_send \/ forward_refused \/ refused_spill \/ drain_spill
    PROVE  OrderInv' /\ NeverBack
<1>1. cur \in Messages
    BY DEF ControlInv, HandInv, Holding, forward_spill, forward_send, forward_refused, refused_spill, drain_spill
<1>2. CASE forward_spill \/ refused_spill \/ drain_spill
    <2>1. spill(cur) /\ cur' = Nothing /\ UNCHANGED <<topics, last, published, backlog, revived>>
        BY <1>2 DEF forward_spill, refused_spill, drain_spill, stage, env
    <2> QED
        BY <1>1, <2>1, OrderSpill, NothingSent
<1>3. CASE forward_send \/ forward_refused
    <2> DEFINE m == cur
    <2>1. /\ queue = << >>
          /\ UNCHANGED <<topics, queue, stored, published, backlog, revived>>
          /\ last' = last \/ last' = [last EXCEPT ![m.topic] = m.sample]
          /\ cur' = cur \/ cur' = Nothing
        BY <1>3 DEF forward_send, forward_refused, stage, store, env, MustSpill, Delivered, Refused
    <2>2. InHand' \subseteq InHand
        BY <2>1, NothingIsNoMessage DEF InHand, Messages
    <2>3. InQueue = {} /\ InHand = {m}
        BY <1>1, <2>1, NoMembers DEF InQueue, InHand
    <2>4. \A x \in InMemory : Before(m, x)
        BY <2>3 DEF OrderInv, PlaceOrder
    <2> HIDE DEF m
    <2>5. Before(m, m)
        BY <1>1, MessageFields DEF m, Before
    <2> QED
        BY <2>1, <2>2, <2>3, <2>4, <2>5, OrderSend
<1> QED
    BY <1>2, <1>3

\* A process ends, and the next one starts with the retained samples.
LEMMA OrderRestart ==
    ASSUME ControlInv, OrderInv, unsubscribe \/ crash \/ start
    PROVE  OrderInv' /\ NeverBack
<1>1. CASE unsubscribe \/ crash
    <2>1. /\ topics' = [t \in Topics |-> << >>] /\ cur' = Nothing
          /\ UNCHANGED <<last, published, backlog>>
          /\ queue' = stored' /\ revived' = revived \cup (InStored' \ InQueue)
          /\ IsRest(stored', queue) \/ IsRest(stored', stored)
        BY <1>1, RestartQueue DEF MemoryGone, env
    <2>2. \A t \in Topics : Len(topics'[t]) = 0
        BY <2>1, EmptySeq
    <2>3. InMemory' = {} /\ InQueue' = InStored' /\ OnDisk' = InStored'
        BY <2>1, <2>2, MemoryContents DEF InQueue, InStored, OnDisk
    <2>4. InHand' = {}
        BY <2>1, NothingIsNoMessage DEF InHand, Messages
    <2>5. FifoOrder' /\ PlaceOrder' /\ SourceOrder'
        BY <2>1, <2>2, <2>3, <2>4 DEF OrderInv, FifoOrder, PlaceOrder, SourceOrder, Sorted
    <2>6. Sorted(queue') /\ Sorted(stored') /\ InStored' \subseteq OnDisk
        BY <2>1, RestFacts, SortedRest DEF ControlInv, BridgeTypeOK, OrderInv, InQueue, InStored, OnDisk
    <2>7. WaitOrder'
        <3>1. \A x \in OnDisk : Past(x)'
            BY <2>1 DEF OrderInv, WaitOrder, Past
        <3>2. \A x \in InStored' \ revived' : x \in InQueue \ revived /\ Ahead(x)'
            BY <2>1 DEF OrderInv, WaitOrder, Ahead
        <3> QED
            BY <2>3, <2>4, <2>6, <3>1, <3>2 DEF WaitOrder
    <2> QED
        BY <2>1, <2>5, <2>6, <2>7, NothingSent DEF OrderInv, Sorted
<1>2. CASE start
    <2>1. UNCHANGED <<topics, queue, stored, cur, last, published, revived>> /\ backlog' = published
        BY <1>2 DEF start, stage, store, history
    <2>2. SourceOrder'
        BY <2>1 DEF OrderInv, SourceOrder
    <2>3. UNCHANGED <<OnDisk, InQueue, InMemory, InHand>>
        BY <2>1 DEF OnDisk, InQueue, InStored, InMemory, InHand
    <2>4. FifoOrder' /\ Sorted(queue)' /\ Sorted(stored)'
        BY <2>1 DEF OrderInv, FifoOrder, Sorted, Before
    <2>5. PlaceOrder' /\ WaitOrder'
        BY <2>1, <2>3 DEF OrderInv, PlaceOrder, WaitOrder, Before, Past, Ahead
    <2> QED
        BY <2>1, <2>2, <2>4, <2>5, NothingSent DEF OrderInv
<1> QED
    BY <1>1, <1>2

\* Nothing waits initially.
LEMMA OrderInit == BridgeInit => OrderInv
<1> SUFFICES ASSUME BridgeInit PROVE OrderInv
    OBVIOUS
<1>1. \A t \in Topics : Len(topics[t]) = 0
    BY EmptySeq DEF BridgeInit, newInbox
<1>2. queue = << >> /\ stored = << >> /\ Len(queue) = 0 /\ Len(stored) = 0
    BY EmptySeq DEF BridgeInit
<1>3. InMemory = {} /\ InQueue = {} /\ OnDisk = {} /\ InHand = {}
    BY <1>1, <1>2, EmptySeq, MemoryContents, NoMembers, NothingIsNoMessage
    DEF BridgeInit, OnDisk, InQueue, InStored, InHand
<1> QED
    BY <1>1, <1>2, <1>3, BridgeAssumption DEF BridgeInit, OrderInv, FifoOrder, Sorted, PlaceOrder, WaitOrder, SourceOrder

\* Every step keeps the order invariant and never sends back in time.
LEMMA OrderStep ==
    ASSUME ControlInv, OrderInv, [BridgeNext]_brVars
    PROVE  OrderInv' /\ NeverBack
<1>1. CASE \/ run_top \/ timer_fires \/ select_timer \/ select_done \/ pop_empty \/ drain_done
           \/ toggle_sink \/ cancel \/ wake \/ select_notify \/ UNCHANGED brVars
    <2>1. UNCHANGED <<topics, queue, stored, cur, last, published, backlog, revived>>
        BY <1>1 DEF run_top, timer_fires, select_timer, select_done, pop_empty, drain_done,
            toggle_sink, cancel, wake, signal, select_notify, await, brVars, stage, store, env, history
    <2> QED
        BY <2>1, OrderQuiet, NothingSent
<1>2. CASE pop_message \/ drain_pop
    <2>1. last' = last
        BY <1>2 DEF pop_message, drain_pop, history
    <2> QED
        BY <1>2, <2>1, OrderPop, NothingSent
<1>3. ASSUME NEW t \in Topics, publish(t) \/ deliver_retained(t)
      PROVE  OrderInv' /\ NeverBack
    BY <1>3, OrderDeliver, NothingSent
<1> QED
    BY <1>1, <1>2, <1>3, OrderReplay, OrderForward, OrderRestart DEF BridgeNext, Forwarder

\* As long as no call of the queue has failed, a restart finds exactly what the
\* process has queued, and brings nothing back.
CleanInv == errors = 0 => ~torn /\ stored = queue /\ revived = {}

LEMMA CleanStep ==
    ASSUME ControlInv, CleanInv, [BridgeNext]_brVars
    PROVE  CleanInv'
<1> SUFFICES ASSUME errors' = 0 PROVE ~torn' /\ stored' = queue' /\ revived' = {}
    BY DEF CleanInv
<1>1. errors \in Nat /\ queue \in Seq(Messages)
    BY BridgeAssumption DEF ControlInv, BridgeTypeOK
<1>2. CASE UNCHANGED <<store, revived>>
    BY <1>2 DEF store, CleanInv
<1>3. ~Error
    BY <1>1 DEF Error
<1>4. ASSUME errors' = errors
      PROVE  ~torn /\ stored = queue /\ revived = {} /\ (\A q : Found(q) = {q})
    BY <1>4 DEF CleanInv, Found
<1>5. ASSUME NEW m, spill(m), revived' = revived
      PROVE  ~torn' /\ stored' = queue' /\ revived' = {}
    <2>1. PICK n \in 0..Len(queue) : \E d \in {stored} \cup Found(Rest(n)) :
            /\ Evicts(n, d)
            /\ queue' = Append(Rest(n), m)
            /\ stored' = Append(d, m) \/ (torn /\ stored' = d)
            /\ UNCHANGED <<torn, errors>>
        BY <1>3, <1>5 DEF spill, spill_stored, spill_failed
    <2>2. PICK d \in {stored} \cup Found(Rest(n)) :
            /\ Evicts(n, d)
            /\ stored' = Append(d, m) \/ (torn /\ stored' = d)
        BY <2>1
    <2>3. ~torn /\ stored = queue /\ revived = {} /\ d \in {queue, Rest(n)}
        BY <1>4, <2>1
    <2>4. d = Rest(n)
        <3>1. CASE n = 0
            BY <1>1, <2>3, <3>1, RestOfQueue DEF Rest
        <3>2. CASE n # 0
            BY <1>1, <2>2, <2>3, <3>2, BridgeAssumption DEF Evicts
        <3> QED
            BY <3>1, <3>2
    <2> QED
        BY <1>5, <2>1, <2>2, <2>3, <2>4
<1>6. CASE forward_spill \/ refused_spill \/ drain_spill
    BY <1>5, <1>6 DEF forward_spill, refused_spill, drain_spill
<1>7. CASE replay_ack
    <2>1. stored' \in Found(queue') /\ UNCHANGED <<torn, errors, revived>>
        BY <1>3, <1>7 DEF replay_ack
    <2> QED
        BY <1>4, <2>1
<1>8. CASE replay_discard
    BY <1>3, <1>4, <1>8 DEF replay_discard
<1>9. CASE unsubscribe
    <2>1. PICK d \in Found(queue) : Reopened(d, {}) /\ UNCHANGED <<torn, errors>>
        BY <1>3, <1>9 DEF unsubscribe
    <2> QED
        BY <1>4, <2>1 DEF Reopened, InQueue
<1>10. CASE crash
    <2>1. Reopened(stored, InMemory \cup {cur}) /\ UNCHANGED <<torn, errors>>
        BY <1>10 DEF crash
    <2> QED
        BY <1>4, <2>1 DEF Reopened, InQueue
<1>11. CASE \/ run_top \/ timer_fires \/ select_timer \/ select_done \/ pop_empty \/ drain_done
            \/ toggle_sink \/ cancel \/ wake \/ select_notify \/ UNCHANGED brVars
            \/ pop_message \/ drain_pop \/ replay_end \/ replay_send
            \/ forward_send \/ forward_refused \/ start
            \/ \E t \in Topics : publish(t) \/ deliver_retained(t)
    BY <1>2, <1>11 DEF run_top, timer_fires, select_timer, select_done, pop_empty, drain_done,
        toggle_sink, cancel, wake, select_notify, brVars, history, pop_message, drain_pop,
        replay_end, replay_send, forward_send, forward_refused, start, publish, deliver_retained
<1> QED
    BY <1>6, <1>7, <1>8, <1>9, <1>10, <1>11 DEF BridgeNext, Forwarder

\* For all topics, samples and bounds, in every behaviour of the bridge, with
\* crashes, restarts, refused and ambiguous sends, a full queue, failing
\* appends and failing writes of the head file: the sink never receives an
\* older sample of a topic after a newer one, unless a call of the queue has
\* failed and a restart has brought that sample back from the disk (bridge.go
\* forward and replay: the live path is taken only past an empty queue).
THEOREM SinkOrder == BridgeSpec => OrderKept
<1>1. ControlInv /\ OrderInv /\ [BridgeNext]_brVars => OrderInv'
    BY OrderStep
<1>2. BridgeInit => CleanInv
    BY DEF BridgeInit, CleanInv
<1>3. ControlInv /\ CleanInv /\ [BridgeNext]_brVars => CleanInv'
    BY CleanStep
<1>4. ControlInv /\ OrderInv /\ CleanInv /\ [BridgeNext]_brVars =>
          [\A t \in Topics :
              \/ last'[t] >= last[t]
              \/ errors > 0 /\ [topic |-> t, sample |-> last'[t]] \in revived]_brVars
    <2> SUFFICES ASSUME ControlInv, OrderInv, CleanInv, [BridgeNext]_brVars, NEW t \in Topics
                 PROVE  \/ last'[t] >= last[t]
                        \/ errors > 0 /\ [topic |-> t, sample |-> last'[t]] \in revived
        OBVIOUS
    <2>1. last'[t] >= last[t] \/ [topic |-> t, sample |-> last'[t]] \in revived
        BY OrderStep DEF NeverBack
    <2>2. errors \in Nat
        BY BridgeAssumption DEF ControlInv, BridgeTypeOK
    <2> QED
        BY <2>1, <2>2 DEF CleanInv
<1> QED
    BY <1>1, <1>2, <1>3, <1>4, ControlInit, ControlStep, OrderInit, PTL DEF BridgeSpec, OrderKept

-----------------------------------------------------------------------------
\* What holds of the bridge when the inbox's budget is roomy, so that pop
\* finds every buffered message: nothing is lost silently, and no message
\* waits in the inbox without a wakeup under way.  (A topic that has been
\* stranded off the ring is neither popped nor drained.)

\* The drain is entered only after the context was cancelled.
DrainInv == pc \in {"drain", "drain_spill", "returned"} => ctx

\* A process that has ended has nothing in memory.
StoppedInv == pc = "stopped" => InMemory = {}

\* What replay acknowledges has reached the sink.
AckedInv == pc = "replay_ack" => Head(queue) \in settled

\* Once Run has returned, what was due is on disk or settled.
ReturnedInv == pc = "returned" => due \subseteq settled \cup InQueue

StageInv == Accounting /\ WakeupPending /\ StoppedInv

\* What is due has reached the sink or a counter, or the bridge has it.
NoneLost == due \subseteq settled \cup Held

LossInv == DrainInv /\ AckedInv /\ ReturnedInv /\ NoneLost /\ ViewInv

\* A step that leaves the queue alone.
LEMMA ViewFrame ==
    ASSUME ViewInv, UNCHANGED <<queue, stored, torn>>
    PROVE  ViewInv'
BY DEF ViewInv

\* Steps that leave the inbox as it is and do not end the pop loop.
LEMMA StageQuiet ==
    ASSUME StageInv, UNCHANGED stage, pc' # "stopped",
           pc' \in {"top", "replay", "replay_ack", "select"} =>
               pc \in {"top", "replay", "replay_ack", "select", "stopped"}
    PROVE  StageInv'
<1>1. UNCHANGED <<topics, ring, total, notify, pusher>>
    BY DEF stage
<1>2. Accounting'
    BY <1>1, AccountKept DEF StageInv
<1>3. InMemory' = InMemory
    BY <1>1 DEF InMemory
<1> QED
    BY <1>1, <1>2, <1>3 DEF StageInv, WakeupPending, StoppedInv

\* When pop finds nothing, the memory is empty.
LEMMA EmptyMemory ==
    ASSUME Roomy, ControlInv, Accounting, ~PopFinds
    PROVE  InMemory = {}
<1>1. \A t \in Topics : topics[t] = << >>
    BY NothingLeft, ControlBuffer DEF AccountInv
<1> QED
    BY <1>1, EmptySeq, MemoryContents

\* What push does to the memory.
LEMMA PushMemory ==
    ASSUME BufferInv, NEW m \in Messages, push(m)
    PROVE  m \in InMemory' /\ (ret' # 1 => InMemory \subseteq InMemory')
<1> DEFINE t == m.topic
<1>1. t \in Topics /\ topics \in [Topics -> Seq(Messages)]
    BY DEF BufferInv, BufferTypeOK, Messages
<1>2. PICK q \in Seq(Messages) : topics'[t] = Append(q, m) /\ (ret' # 1 => q = topics[t])
    <2>1. CASE topics'[t] = Append(topics[t], m)
        BY <1>1, <2>1
    <2>2. CASE topics[t] # << >> /\ ret' = 1 /\ topics'[t] = Append(Tail(topics[t]), m)
        <3>1. Tail(topics[t]) \in Seq(Messages)
            BY <1>1, <2>2, FifoTail
        <3> QED
            BY <2>2, <3>1
    <2> QED
        BY <2>1, <2>2, PushFifos
<1>3. /\ Len(q) \in Nat
      /\ Len(topics'[t]) = Len(q) + 1
      /\ \A i \in 1..Len(q) : topics'[t][i] = q[i]
      /\ topics'[t][Len(q) + 1] = m
    BY <1>2, AppendProperties, LenProperties
<1>4. m \in InMemory'
    <2>1. Len(q) + 1 \in 1..Len(topics'[t])
        BY <1>3
    <2> QED
        BY <1>1, <1>3, <2>1, MemoryContents
<1>5. ASSUME ret' # 1, NEW u \in Topics, NEW i \in 1..Len(topics[u])
      PROVE  topics[u][i] \in InMemory'
    <2>1. CASE u = t
        <3>1. i \in 1..Len(topics'[t]) /\ topics'[t][i] = topics[u][i]
            BY <1>2, <1>3, <1>5, <2>1
        <3> QED
            BY <1>1, <3>1, MemoryContents
    <2>2. CASE u # t
        <3>1. topics'[u] = topics[u]
            BY <1>5, <2>2, PushFifos
        <3> QED
            BY <3>1, MemoryContents
    <2> QED
        BY <2>1, <2>2
<1> QED
    BY <1>4, <1>5, MemoryContents

\* The broker's message comes with a wakeup; what it makes room for is
\* counted.
LEMMA DeliverKept ==
    ASSUME Roomy, ControlInv, StageInv, LossInv,
           NEW t \in Topics, publish(t) \/ deliver_retained(t)
    PROVE  StageInv' /\ LossInv'
<1> USE BridgeAssumption
<1> DEFINE m == [topic |-> t, sample |-> IF publish(t) THEN published[t] + 1 ELSE backlog[t]]
<1>1. m \in Messages
    BY DEF ControlInv, BridgeTypeOK, publish, deliver_retained, Messages
<1>2. /\ push(m) /\ pc # "stopped"
      /\ settled' = IF ret' = 1 THEN settled \cup (InMemory \ InMemory') ELSE settled
      /\ UNCHANGED <<pc, queue, stored, torn, cur, ctx>>
      /\ due' \subseteq due \cup {m}
      /\ ctx => due' = due
    BY DEF store, publish, deliver_retained, onMessage, Subscribed
<1> HIDE DEF m
<1>3. Accounting'
    BY <1>1, <1>2, PushCounts, ControlBuffer DEF StageInv, AccountInv
<1>4. m \in InMemory' /\ InMemory \subseteq InMemory' \cup settled' /\ settled \subseteq settled'
    BY <1>1, <1>2, PushMemory, ControlBuffer
<1>5. pusher' = "signal"
    BY <1>2 DEF push
<1>6. StageInv'
    BY <1>2, <1>3, <1>5 DEF StageInv, WakeupPending, StoppedInv
<1>7. InQueue' = InQueue
    BY <1>2 DEF InQueue
<1>8. NoneLost'
    BY <1>2, <1>4, <1>7 DEF LossInv, NoneLost, Held
<1>9. DrainInv' /\ AckedInv' /\ ReturnedInv'
    BY <1>2, <1>4, <1>7 DEF LossInv, DrainInv, AckedInv, ReturnedInv
<1> QED
    BY <1>2, <1>6, <1>8, <1>9, ViewFrame DEF LossInv

\* pop and drain take a message into the hand.
LEMMA PopKept ==
    ASSUME Roomy, ControlInv, StageInv, LossInv, pop_message \/ drain_pop
    PROVE  StageInv' /\ LossInv'
<1> DEFINE t == NextTopic
           m == Head(topics[t])
<1>1. /\ PopFinds /\ take /\ cur' = m /\ cur = Nothing
      /\ UNCHANGED <<notify, pusher, queue, stored, torn, ctx, due, settled>>
      /\ (pc = "pop" /\ pc' = "forward") \/ (pc = "drain" /\ pc' = "drain_spill")
    BY DEF pop_message, drain_pop, store, history, ControlInv, HandInv, Holding
<1>2. t \in Topics /\ topics[t] \in Seq(Messages) /\ topics[t] # << >>
    BY <1>1, PopHead, ControlBuffer
<1>3. topics' = [topics EXCEPT ![t] = Tail(@)] /\ topics \in [Topics -> Seq(Messages)]
    BY <1>1 DEF take, ControlInv, BridgeTypeOK, BufferTypeOK
<1>4. Accounting'
    BY <1>1, TakeCounts, ControlBuffer DEF StageInv, AccountInv
<1> HIDE DEF t
<1>5. /\ topics'[t] = Tail(topics[t])
      /\ \A u \in Topics : u # t => topics'[u] = topics[u]
    BY <1>2, <1>3
<1>6. /\ m = topics[t][1]
      /\ Len(topics[t]) \in Nat
      /\ Len(topics'[t]) = Len(topics[t]) - 1
      /\ \A i \in 1..(Len(topics[t]) - 1) : topics'[t][i] = topics[t][i + 1]
    BY <1>2, <1>5, QueueTail
<1> HIDE DEF m
<1>7. InMemory \subseteq InMemory' \cup {m}
    <2> SUFFICES ASSUME NEW u \in Topics, NEW i \in 1..Len(topics[u])
                 PROVE  topics[u][i] \in InMemory' \cup {m}
        BY MemoryContents
    <2>1. CASE u = t /\ i = 1
        BY <1>6, <2>1
    <2>2. CASE u = t /\ i # 1
        <3>1. i - 1 \in 1..(Len(topics[t]) - 1) /\ (i - 1) + 1 = i
            BY <1>6, <2>2
        <3>2. i - 1 \in 1..Len(topics'[t]) /\ topics'[t][i - 1] = topics[t][i]
            BY <1>6, <3>1
        <3> QED
            BY <1>2, <2>2, <3>2, MemoryContents
    <2>3. CASE u # t
        BY <1>5, <2>3, MemoryContents
    <2> QED
        BY <2>1, <2>2, <2>3
<1>8. due \subseteq settled \cup InMemory \cup InQueue
    BY <1>1, NothingIsNoMessage DEF LossInv, NoneLost, Held, ControlInv, BridgeTypeOK
<1>9. InQueue' = InQueue
    BY <1>1 DEF InQueue
<1>10. NoneLost'
    BY <1>1, <1>7, <1>8, <1>9 DEF NoneLost, Held
<1>11. StageInv'
    BY <1>1, <1>4 DEF StageInv, WakeupPending, StoppedInv
<1> QED
    BY <1>1, <1>10, <1>11, ViewFrame DEF LossInv, DrainInv, AckedInv, ReturnedInv

\* A step that keeps or settles what is due, away from the guarded places.
LEMMA LossFrame ==
    ASSUME ControlInv, LossInv, due' = due, InMemory' = InMemory,
           settled \cup InQueue \cup ({cur} \cap Messages) \subseteq
               settled' \cup InQueue' \cup {cur'}
    PROVE  NoneLost'
<1>1. due \subseteq Messages
    BY DEF ControlInv, BridgeTypeOK
<1> QED
    BY <1>1 DEF LossInv, NoneLost, Held

\* Steps that move no message.
LEMMA QuietKept ==
    ASSUME Roomy, ControlInv, StageInv, LossInv,
           \/ run_top \/ timer_fires \/ select_timer \/ select_done \/ toggle_sink
           \/ cancel \/ replay_end \/ UNCHANGED brVars
    PROVE  StageInv' /\ LossInv'
<1>1. /\ UNCHANGED stage /\ UNCHANGED <<queue, stored, torn, cur, due, settled>>
      /\ ctx' = ctx \/ ctx' = TRUE
    BY DEF run_top, timer_fires, select_timer, select_done, toggle_sink, cancel, replay_end, brVars, store, history
<1>2. \/ pc' = pc /\ ctx' = ctx
      \/ pc' = pc /\ ctx'
      \/ pc \in {"top", "select", "replay"} /\ pc' \in {"top", "select", "replay"}
      \/ pc \in {"select", "replay"} /\ pc' = "drain" /\ ctx /\ ctx' = ctx
    BY DEF run_top, timer_fires, select_timer, select_done, toggle_sink, cancel, replay_end, replay_returned, brVars
<1>3. InMemory' = InMemory /\ InQueue' = InQueue
    BY <1>1 DEF stage, InMemory, InQueue
<1>4. StageInv'
    <2>1. CASE pc' = pc /\ pc = "stopped"
        <3>1. Accounting'
            BY <1>1, AccountKept DEF StageInv, stage
        <3> QED
            BY <1>3, <2>1, <3>1 DEF StageInv, StoppedInv, WakeupPending
    <2>2. CASE ~(pc' = pc /\ pc = "stopped")
        BY <1>1, <1>2, <2>2, StageQuiet
    <2> QED
        BY <2>1, <2>2
<1>5. NoneLost'
    BY <1>1, <1>3, LossFrame
<1>6. DrainInv' /\ AckedInv' /\ ReturnedInv'
    BY <1>1, <1>2, <1>3 DEF LossInv, DrainInv, AckedInv, ReturnedInv
<1> QED
    BY <1>1, <1>4, <1>5, <1>6, ViewFrame DEF LossInv

\* The token is put, and taken.
LEMMA NotifyKept ==
    ASSUME Roomy, ControlInv, StageInv, LossInv, wake \/ select_notify
    PROVE  StageInv' /\ LossInv'
<1>1. UNCHANGED <<topics, ring, total, queue, stored, torn, cur, ctx, due, settled>>
    BY DEF store, wake, signal, select_notify, await, history
<1>2. (pc' = pc /\ notify') \/ (pc = "select" /\ pc' = "pop")
    BY DEF wake, signal, select_notify, await
<1>3. InMemory' = InMemory /\ InQueue' = InQueue /\ Accounting'
    BY <1>1, AccountKept DEF InMemory, InQueue, StageInv
<1>4. NoneLost'
    BY <1>1, <1>3, LossFrame
<1> QED
    BY <1>1, <1>2, <1>3, <1>4, ViewFrame
    DEF StageInv, WakeupPending, StoppedInv, LossInv, DrainInv, AckedInv, ReturnedInv

\* The pop loop and the drain end with an empty memory.
LEMMA EmptyKept ==
    ASSUME Roomy, ControlInv, StageInv, LossInv, pop_empty \/ drain_done
    PROVE  StageInv' /\ LossInv'
<1>1. /\ ~PopFinds /\ cur = Nothing
      /\ UNCHANGED stage /\ UNCHANGED <<queue, stored, torn, cur, ctx, due, settled>>
      /\ (pc = "pop" /\ pc' = "top") \/ (pc = "drain" /\ pc' = "returned")
    BY DEF pop_empty, drain_done, store, history, ControlInv, HandInv, Holding
<1>2. InMemory = {}
    BY <1>1, EmptyMemory DEF StageInv
<1>3. InMemory' = InMemory /\ InQueue' = InQueue /\ Accounting'
    BY <1>1, AccountKept DEF InMemory, InQueue, StageInv, stage
<1>4. NoneLost'
    BY <1>1, <1>3, LossFrame
<1>5. due \subseteq settled \cup InQueue
    BY <1>1, <1>2, NothingIsNoMessage DEF LossInv, NoneLost, Held, ControlInv, BridgeTypeOK
<1> QED
    BY <1>1, <1>2, <1>3, <1>4, <1>5, ViewFrame
    DEF StageInv, WakeupPending, StoppedInv, LossInv, DrainInv, AckedInv, ReturnedInv

\* A message leaves the queue only when it is settled, or out of reach.
LEMMA ReplayKept ==
    ASSUME Roomy, ControlInv, StageInv, LossInv, replay_send \/ replay_ack \/ replay_discard
    PROVE  StageInv' /\ LossInv'
<1>1. /\ UNCHANGED stage /\ UNCHANGED <<cur, ctx>>
      /\ pc \in {"replay", "replay_ack"} /\ settled \subseteq settled' /\ due' \subseteq due
    BY DEF replay_send, replay_ack, replay_discard, history, Delivered, Refused
<1>2. /\ pc' \in {"top", "select", "replay", "replay_ack"}
      /\ pc' = "replay_ack" => queue' = queue /\ Head(queue) \in settled'
    BY DEF replay_send, replay_ack, replay_discard, replay_failed, store, Delivered
<1>3. InMemory' = InMemory
    BY <1>1 DEF stage, InMemory
<1>4. StageInv'
    BY <1>1, <1>2, StageQuiet
<1>5. InQueue \cap due' \subseteq InQueue' \cup settled' /\ ViewInv'
    <2>1. CASE replay_send
        <3>1. UNCHANGED <<queue, stored, torn>>
            BY <2>1 DEF replay_send, store
        <3> QED
            BY <3>1, ViewFrame DEF InQueue, LossInv
    <2>2. CASE replay_ack \/ replay_discard
        <3>1. /\ queue \in Seq(Messages) /\ stored \in Seq(Messages)
              /\ torn \in BOOLEAN /\ errors \in 0..MaxErrors
            BY DEF ControlInv, BridgeTypeOK
        <3>2. PICK n \in 1..Len(queue) :
                 /\ queue' = Rest(n)
                 /\ replay_ack => (n = 1 \/ torn) /\ due' = due \ (Oldest(n) \ {Head(queue)})
                 /\ replay_discard => settled' = settled \cup Oldest(n)
            BY <2>2, <3>1, ReplayQueue
        <3>3. n \in 0..Len(queue)
            BY <3>1, LenProperties
        <3>4. InQueue \subseteq Oldest(n) \cup InQueue'
            BY <3>1, <3>2, <3>3, RestOfQueue DEF InQueue
        <3>5. Oldest(n) \cap due' \subseteq settled'
            <4>1. CASE replay_discard
                BY <3>2, <4>1
            <4>2. CASE replay_ack
                <5>1. Head(queue) \in settled'
                    BY <1>1, <4>2 DEF replay_ack, LossInv, AckedInv
                <5> QED
                    BY <3>2, <4>2, <5>1
            <4> QED
                BY <2>2, <4>1, <4>2
        <3>6. ViewInv'
            <4>1. /\ IsRest(queue', queue)
                  /\ ~torn => stored' \in {stored, queue'}
                  /\ torn => torn'
                BY <2>2, <3>1, ReplayQueue
            <4>2. ASSUME ~torn PROVE IsRest(queue', stored')
                <5>1. IsRest(queue, stored)
                    BY <4>2 DEF LossInv, ViewInv
                <5>2. IsRest(queue', stored)
                    BY <3>1, <4>1, <5>1, RestOfRest
                <5>3. IsRest(queue', queue')
                    BY <3>1, <4>1, RestFacts
                <5> QED
                    BY <4>1, <4>2, <5>2, <5>3
            <4> QED
                BY <4>1, <4>2 DEF ViewInv
        <3> QED
            BY <3>4, <3>5, <3>6
    <2> QED
        BY <2>1, <2>2
<1>6. NoneLost'
    BY <1>1, <1>3, <1>5 DEF LossInv, NoneLost, Held
<1> QED
    BY <1>1, <1>2, <1>4, <1>5, <1>6 DEF LossInv, DrainInv, AckedInv, ReturnedInv

\* The message in hand is sent, stored or counted.
LEMMA ForwardKept ==
    ASSUME Roomy, ControlInv, StageInv, LossInv,
           forward_spill \/ forward_send \/ forward_refused \/ refused_spill \/ drain_spill
    PROVE  StageInv' /\ LossInv'
<1>1. /\ UNCHANGED stage /\ UNCHANGED <<ctx, due>> /\ pc \in Holding
      /\ \/ pc' \in {"pop", "refused"}
         \/ pc' = "drain" /\ (ctx \/ pc = "drain_spill")
    BY DEF forward_spill, forward_send, forward_refused, refused_spill, drain_spill, Holding
<1>2. /\ cur \in Messages /\ queue \in Seq(Messages) /\ stored \in Seq(Messages)
      /\ torn \in BOOLEAN /\ errors \in 0..MaxErrors
    BY <1>1 DEF ControlInv, HandInv, BridgeTypeOK
<1>3. InMemory' = InMemory
    BY <1>1 DEF stage, InMemory
<1>4. StageInv'
    BY <1>1, StageQuiet
<1>5. settled \cup InQueue \cup {cur} \subseteq settled' \cup InQueue' \cup {cur'} /\ ViewInv'
    <2>1. CASE spill(cur)
        BY <1>2, <2>1, SpillQueue DEF LossInv
    <2>2. CASE forward_send \/ forward_refused
        BY <2>2, ViewFrame DEF forward_send, forward_refused, Delivered, Refused, InQueue, store, LossInv
    <2> QED
        BY <2>1, <2>2 DEF forward_spill, refused_spill, drain_spill
<1>6. NoneLost'
    BY <1>1, <1>3, <1>5, LossFrame
<1>7. DrainInv' /\ AckedInv' /\ ReturnedInv'
    BY <1>1 DEF LossInv, DrainInv, AckedInv, ReturnedInv
<1> QED
    BY <1>4, <1>5, <1>6, <1>7 DEF LossInv

\* A process ends, and the next one starts.
LEMMA RestartKept ==
    ASSUME Roomy, ControlInv, StageInv, LossInv, unsubscribe \/ crash \/ start
    PROVE  StageInv' /\ LossInv'
<1>1. CASE unsubscribe \/ crash
    <2>1. /\ topics' = [t \in Topics |-> << >>] /\ ring' = << >> /\ total' = 0
          /\ cur' = Nothing /\ pc' = "stopped"
          /\ settled' = settled /\ queue' = stored' /\ stored' \in Seq(Messages)
          /\ due' = due \ ((IF crash THEN InMemory \cup {cur} ELSE {}) \cup (InQueue \ InStored'))
        BY <1>1, RestartQueue DEF MemoryGone
    <2>2. \A t \in Topics : topics'[t] = << >>
        BY <2>1
    <2>3. InMemory' = {} /\ Buffered' = {} /\ InQueue' = InStored'
        BY <2>1, <2>2, EmptySeq, MemoryContents, InBuffered DEF InQueue, InStored
    <2>4. Accounting'
        <3>1. total' = Cardinality(Buffered') /\ total' <= MaxTotal
            BY <2>1, <2>3, FS_EmptySet, InboxAssumption
        <3> QED
            BY <2>2, <3>1 DEF Accounting
    <2>5. due' \subseteq settled \cup InQueue'
        <3>1. CASE unsubscribe /\ ~crash
            BY <2>1, <2>3, <3>1 DEF unsubscribe, LossInv, ReturnedInv
        <3>2. CASE crash
            BY <2>1, <2>3, <3>2 DEF LossInv, NoneLost, Held
        <3> QED
            BY <1>1, <3>1, <3>2
    <2>6. NoneLost'
        BY <2>1, <2>3, <2>5 DEF NoneLost, Held
    <2>7. WakeupPending' /\ StoppedInv' /\ DrainInv' /\ AckedInv' /\ ReturnedInv'
        BY <2>1, <2>3 DEF WakeupPending, StoppedInv, DrainInv, AckedInv, ReturnedInv
    <2>8. ViewInv'
        BY <2>1, RestFacts DEF ViewInv
    <2> QED
        BY <2>4, <2>6, <2>7, <2>8 DEF StageInv, LossInv
<1>2. CASE start
    <2>1. UNCHANGED stage /\ UNCHANGED <<queue, stored, torn, cur, due, settled>> /\ pc = "stopped" /\ pc' = "top"
        BY <1>2 DEF start, store, history
    <2>2. InMemory' = InMemory /\ InQueue' = InQueue
        BY <2>1 DEF stage, InMemory, InQueue
    <2>2a. InMemory = {}
        BY <2>1 DEF StageInv, StoppedInv
    <2>3. Accounting'
        BY <2>1, AccountKept DEF StageInv, stage
    <2>4. NoneLost'
        BY <2>1, <2>2, LossFrame
    <2> QED
        BY <2>1, <2>2, <2>2a, <2>3, <2>4, ViewFrame
        DEF StageInv, WakeupPending, StoppedInv, LossInv, DrainInv, AckedInv, ReturnedInv
<1> QED
    BY <1>1, <1>2

\* Nothing is due initially, and nothing waits.
LEMMA KeptInit == BridgeInit => StageInv /\ LossInv
<1> SUFFICES ASSUME BridgeInit PROVE StageInv /\ LossInv
    OBVIOUS
<1>1. InMemory = {}
    BY EmptySeq, MemoryContents DEF BridgeInit, newInbox
<1>2. Accounting
    BY InitAccounting DEF BridgeInit
<1>3. ViewInv
    BY EmptySeq, RestFacts DEF BridgeInit, ViewInv
<1> QED
    BY <1>1, <1>2, <1>3
    DEF BridgeInit, StageInv, WakeupPending, StoppedInv, LossInv, DrainInv, AckedInv, ReturnedInv, NoneLost

\* Every step keeps both invariants.
LEMMA KeptStep ==
    ASSUME Roomy, ControlInv, StageInv, LossInv, [BridgeNext]_brVars
    PROVE  StageInv' /\ LossInv'
BY QuietKept, NotifyKept, EmptyKept, ReplayKept, ForwardKept, RestartKept, DeliverKept, PopKept
DEF BridgeNext, Forwarder

\* With a roomy budget, for all topics, samples and bounds: what was published
\* before the context was cancelled and was not in memory when the process was
\* killed has reached the sink or a drop counter, or the bridge has it, or a
\* failed append or roll has put it out of reach in the queue; until one fails,
\* a restart finds all that is queued, even if writes of the head file fail
\* (other than the one for an emptied queue).  And a forwarder
\* that does not work through its inbox has a wakeup coming for what is in it
\* (bridge.go Run, drain, spill, replay; inbox.go push).
THEOREM NothingLostSilently ==
    ASSUME Roomy
    PROVE  BridgeSpec => [](Kept /\ WakeupPending)
<1>1. ControlInv /\ StageInv /\ LossInv /\ [BridgeNext]_brVars => StageInv' /\ LossInv'
    BY KeptStep
<1>2. ControlInv /\ StageInv /\ LossInv => Kept /\ WakeupPending
    <2> SUFFICES ASSUME ControlInv, StageInv, LossInv PROVE Kept /\ WakeupPending
        OBVIOUS
    <2>1. ASSUME ~torn PROVE InQueue \subseteq InStored
        BY <2>1, RestFacts DEF LossInv, ViewInv, ControlInv, BridgeTypeOK, InQueue, InStored
    <2> QED
        BY <2>1 DEF StageInv, LossInv, NoneLost, Kept
<1> QED
    BY <1>1, <1>2, ControlInit, ControlStep, KeptInit, PTL DEF BridgeSpec
=============================================================================
