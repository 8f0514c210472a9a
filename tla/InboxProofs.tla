---------------------------- MODULE InboxProofs ----------------------------
(***************************************************************************)
(* What holds of the inbox for every set of topics and every pair of        *)
(* bounds, whether or not the budget binds; and, in the second part, what   *)
(* more holds when the budget is roomy.                                     *)
(***************************************************************************)
EXTENDS Inbox, SequenceTheorems, FiniteSetTheorems, WellFoundedInduction, TLAPS

\* Every nonempty set of naturals has a least element.
LEMMA LeastNat ==
    ASSUME NEW T, T \subseteq Nat, T # {}
    PROVE  \E x \in T : \A y \in T : x <= y
<1> DEFINE R == OpToRel(<, Nat)
<1>1. IsWellFoundedOn(R, Nat)
    BY NatLessThanWellFounded
<1>2. \A x, y \in Nat : y < x => <<y, x>> \in R
    BY DEF OpToRel
<1> HIDE DEF R
<1>3. PICK x \in T : \A y \in T : ~ (<<y, x>> \in R)
    BY <1>1, WFMin
<1>4. \A y \in T : ~ (y < x)
    BY <1>2, <1>3, Zenon
<1>5. \A y \in T : x <= y
    BY <1>4
<1> QED
    BY <1>5

\* Dropping position i of a sequence keeps the others in their order.
LEMMA RemoveAtProperties ==
    ASSUME NEW S, NEW s \in Seq(S), NEW i \in 1..Len(s)
    PROVE  /\ RemoveAt(s, i) \in Seq(S)
           /\ Len(RemoveAt(s, i)) = Len(s) - 1
           /\ \A j \in 1..(Len(s) - 1) :
                 RemoveAt(s, i)[j] = IF j < i THEN s[j] ELSE s[j + 1]
<1> DEFINE a == SubSeq(s, 1, i - 1)
           b == SubSeq(s, i + 1, Len(s))
<1>1. a \in Seq(S) /\ Len(a) = i - 1 /\ \A j \in 1..(i - 1) : a[j] = s[j]
    BY SubSeqProperties
<1>2. /\ b \in Seq(S)
      /\ Len(b) = Len(s) - i
      /\ \A j \in 1..(Len(s) - i) : b[j] = s[i + j]
    BY SubSeqProperties
<1>3. /\ a \o b \in Seq(S)
      /\ Len(a \o b) = Len(a) + Len(b)
      /\ \A j \in 1..(Len(a) + Len(b)) :
            (a \o b)[j] = IF j <= Len(a) THEN a[j] ELSE b[j - Len(a)]
    BY <1>1, <1>2, ConcatProperties
<1>4. RemoveAt(s, i) = a \o b
    BY DEF RemoveAt
<1> HIDE DEF a, b
<1>5. Len(s) \in Nat /\ Len(a) + Len(b) = Len(s) - 1
    BY <1>1, <1>2, LenProperties
<1>6. ASSUME NEW j \in 1..(Len(s) - 1)
      PROVE  (a \o b)[j] = IF j < i THEN s[j] ELSE s[j + 1]
    <2>1. CASE j < i
        BY <1>1, <1>3, <1>5, <2>1
    <2>2. CASE ~(j < i)
        <3>1. j - (i - 1) \in 1..(Len(s) - i) /\ i + (j - (i - 1)) = j + 1
            BY <1>5, <2>2
        <3>2. (a \o b)[j] = b[j - (i - 1)]
            BY <1>1, <1>3, <1>5, <2>2
        <3> QED
            BY <1>2, <2>2, <3>1, <3>2
    <2> QED
        BY <2>1, <2>2
<1> QED
    BY <1>3, <1>4, <1>5, <1>6

\* evictLongest finds a position of every nonempty ring: some FIFO is longest
\* because PerTopic bounds them all, and one such position comes first.
LEMMA VictimPositionExists ==
    ASSUME BufferTypeOK, PerTopicBound,
           NEW r \in Seq(Topics), r # << >>
    PROVE  \E i \in 1..Len(r) :
                /\ \A j \in 1..Len(r) : Len(topics[r[j]]) <= Len(topics[r[i]])
                /\ \A j \in 1..(i-1) : Len(topics[r[j]]) < Len(topics[r[i]])
<1> DEFINE L(i) == Len(topics[r[i]])
           Gaps == {PerTopic - L(i) : i \in 1..Len(r)}
<1>1. \A i \in 1..Len(r) : r[i] \in Topics /\ L(i) \in Nat /\ L(i) <= PerTopic
    BY DEF BufferTypeOK, PerTopicBound
<1>2. 1 \in 1..Len(r)
    BY EmptySeq
<1>3. PICK i \in 1..Len(r) : \A j \in 1..Len(r) : L(j) <= L(i)
    <2>1. Gaps \subseteq Nat /\ Gaps # {}
        BY <1>1, <1>2, InboxAssumption
    <2>2. PICK g \in Gaps : \A h \in Gaps : g <= h
        BY <2>1, LeastNat
    <2>3. PICK i \in 1..Len(r) : g = PerTopic - L(i)
        BY <2>2
    <2>4. \A j \in 1..Len(r) : PerTopic - L(i) <= PerTopic - L(j)
        BY <2>2, <2>3
    <2> QED
        BY <2>3, <2>4, <1>1, InboxAssumption
<1> DEFINE First == {j \in 1..Len(r) : L(j) = L(i)}
<1>4. PICK f \in First : \A j \in First : f <= j
    <2>1. First \subseteq Nat /\ First # {}
        OBVIOUS
    <2> QED
        BY <2>1, LeastNat
<1>5. /\ \A j \in 1..Len(r) : L(j) <= L(f)
      /\ \A j \in 1..(f-1) : L(j) < L(f)
    BY <1>1, <1>3, <1>4
<1> QED
    BY <1>5

\* The position evictLongest chooses is one of the ring.
LEMMA VictimInRing ==
    ASSUME BufferTypeOK, PerTopicBound,
           NEW r \in Seq(Topics), r # << >>
    PROVE  Victim(r) \in 1..Len(r)
BY VictimPositionExists DEF Victim
----------------------------------------------------------------------------
(***************************************************************************)
(* The buffer's inductive invariant: RingSound needs the FIFO bound (the    *)
(* victim of evictLongest exists because lengths are bounded), the types,   *)
(* and nothing of total, which the code lets drift from the real number.    *)
(***************************************************************************)
BufferInv == BufferTypeOK /\ PerTopicBound /\ RingSound

Distinct(r) == \A i, j \in 1..Len(r) : r[i] = r[j] => i = j

\* A ring without repetition that loses position i has no repetition, and its
\* topics are those of the other positions.
LEMMA RemoveAtDistinct ==
    ASSUME NEW r \in Seq(Topics), NEW i \in 1..Len(r), Distinct(r)
    PROVE  /\ RemoveAt(r, i) \in Seq(Topics)
           /\ Len(RemoveAt(r, i)) = Len(r) - 1
           /\ Distinct(RemoveAt(r, i))
           /\ \A a \in 1..Len(RemoveAt(r, i)) :
                 \E j \in 1..Len(r) : j # i /\ RemoveAt(r, i)[a] = r[j]
<1> DEFINE q == RemoveAt(r, i)
           from(a) == IF a < i THEN a ELSE a + 1
<1>1. /\ q \in Seq(Topics)
      /\ Len(q) = Len(r) - 1
      /\ \A j \in 1..(Len(r) - 1) : q[j] = IF j < i THEN r[j] ELSE r[j + 1]
    BY RemoveAtProperties
<1>2. Len(r) \in Nat
    BY LenProperties
<1> HIDE DEF q
<1>3. \A a \in 1..Len(q) : /\ from(a) \in 1..Len(r)
                           /\ from(a) # i
                           /\ q[a] = r[from(a)]
    BY <1>1, <1>2
<1>4. \A a, b \in 1..Len(q) : from(a) = from(b) => a = b
    BY <1>1, <1>2
<1>5. Distinct(q)
    BY <1>3, <1>4 DEF Distinct
<1> QED
    BY <1>1, <1>3, <1>5 DEF q

\* The cursor lies in the ring it was wrapped to.
LEMMA WrapInRing ==
    ASSUME NEW r \in Seq(Topics), NEW c \in Nat
    PROVE  /\ Wrap(r, c) \in Nat
           /\ IF r = << >> THEN Wrap(r, c) = 0 ELSE Wrap(r, c) < Len(r)
<1>1. CASE r = << >>
    BY <1>1 DEF Wrap
<1>2. CASE r # << >>
    <2>1. Len(r) \in Nat /\ Len(r) > 0
        BY <1>2, EmptySeq
    <2>2. c % Len(r) \in 0..(Len(r) - 1)
        BY <2>1
    <2> QED
        BY <1>2, <2>1, <2>2 DEF Wrap
<1> QED
    BY <1>1, <1>2

\* Appending a message to a FIFO.
LEMMA FifoAppend ==
    ASSUME NEW q \in Seq(Messages), NEW m \in Messages
    PROVE  /\ Append(q, m) \in Seq(Messages)
           /\ Len(Append(q, m)) = Len(q) + 1
           /\ Append(q, m) # << >>
BY AppendProperties

\* Dropping the oldest message of a FIFO.
LEMMA FifoTail ==
    ASSUME NEW q \in Seq(Messages), q # << >>
    PROVE  /\ Tail(q) \in Seq(Messages)
           /\ Len(q) \in Nat \ {0}
           /\ Len(Tail(q)) = Len(q) - 1
           /\ Tail(q) = << >> <=> Len(q) = 1
<1>1. /\ Tail(q) \in Seq(Messages)
      /\ Len(q) \in Nat \ {0}
      /\ Len(Tail(q)) = Len(q) - 1
    BY HeadTailProperties, EmptySeq
<1>2. Tail(q) = << >> <=> Len(Tail(q)) = 0
    BY <1>1, EmptySeq
<1> QED
    BY <1>1, <1>2

\* Appending a topic that is not on the ring keeps it without repetition.
LEMMA JoinedProperties ==
    ASSUME BufferInv, NEW t \in Topics
    PROVE  /\ Joined(t) \in Seq(Topics)
           /\ Distinct(Joined(t))
           /\ Len(ring) <= Len(Joined(t))
           /\ \A i \in 1..Len(Joined(t)) :
                 Joined(t)[i] # t => topics[Joined(t)[i]] # << >>
           /\ IF Joined(t) = << >> THEN rr = 0 ELSE rr < Len(Joined(t))
<1> USE DEF BufferInv
<1>1. CASE topics[t] # << >>
    BY <1>1 DEF Joined, Distinct, RingSound, BufferTypeOK
<1>2. CASE topics[t] = << >>
    <2>1. Joined(t) = Append(ring, t)
        BY <1>2 DEF Joined
    <2>2. /\ Append(ring, t) \in Seq(Topics)
          /\ Len(Append(ring, t)) = Len(ring) + 1
          /\ \A i \in 1..Len(ring) : Append(ring, t)[i] = ring[i]
          /\ Append(ring, t)[Len(ring) + 1] = t
          /\ Append(ring, t) # << >>
        BY AppendProperties DEF BufferTypeOK
    <2>3. Len(ring) \in Nat
        BY LenProperties DEF BufferTypeOK
    <2>4. \A i \in 1..Len(ring) : ring[i] # t
        BY <1>2 DEF RingSound
    <2>5. Distinct(Append(ring, t))
        BY <2>2, <2>3, <2>4 DEF RingSound, Distinct
    <2>6. rr < Len(ring) + 1
        BY <2>3, EmptySeq DEF RingSound, BufferTypeOK
    <2> QED
        BY <2>1, <2>2, <2>3, <2>5, <2>6 DEF RingSound
<1> QED
    BY <1>1, <1>2

\* The victim of evictLongest is on the ring, has a message, and no FIFO on the
\* ring is longer than its own.
LEMMA VictimLongest ==
    ASSUME BufferInv, NEW r \in Seq(Topics), VictimExists(r)
    PROVE  /\ Victim(r) \in 1..Len(r)
           /\ r[Victim(r)] \in Topics
           /\ topics[r[Victim(r)]] # << >>
           /\ \A j \in 1..Len(r) : Len(topics[r[j]]) <= Len(topics[r[Victim(r)]])
<1> DEFINE v == r[Victim(r)]
<1>1. PICK k \in 1..Len(r) : topics[r[k]] # << >>
    BY DEF VictimExists
<1>2. r # << >>
    BY <1>1, EmptySeq
<1>3. Victim(r) \in 1..Len(r) /\ v \in Topics
    BY <1>2, VictimInRing, ElementOfSeq DEF BufferInv
<1>4. \A j \in 1..Len(r) : Len(topics[r[j]]) <= Len(topics[v])
    <2>1. \E x \in 1..Len(r) :
            /\ \A j \in 1..Len(r) : Len(topics[r[j]]) <= Len(topics[r[x]])
            /\ \A j \in 1..(x-1) : Len(topics[r[j]]) < Len(topics[r[x]])
        BY <1>2, VictimPositionExists DEF BufferInv
    <2> QED
        BY <2>1 DEF Victim
<1>5. topics[r[k]] \in Seq(Messages) /\ topics[v] \in Seq(Messages)
    BY <1>3, ElementOfSeq DEF BufferInv, BufferTypeOK
<1>6. Len(topics[r[k]]) > 0
    BY <1>1, <1>5, EmptySeq
<1>7. topics[v] # << >>
    BY <1>4, <1>5, <1>6, EmptySeq
<1> QED
    BY <1>3, <1>4, <1>7

\* A message that finds its topic's FIFO full.
LEMMA CoalesceKeeps ==
    ASSUME BufferInv, NEW m \in Messages, push_coalesce(m),
           UNCHANGED notify, pusher' \in {"idle", "signal"}
    PROVE  BufferInv'
<1> DEFINE t == m.topic
           q == topics[t]
           n == Append(Tail(q), m)
<1>1. t \in Topics /\ q \in Seq(Messages)
    BY DEF BufferInv, BufferTypeOK, Messages
<1>2. q # << >> /\ Len(q) <= PerTopic
    BY <1>1, InboxAssumption, EmptySeq DEF push_coalesce, Full, BufferInv, PerTopicBound
<1>3. n \in Seq(Messages) /\ n # << >> /\ Len(n) <= PerTopic
    <2>1. Tail(q) \in Seq(Messages) /\ Len(Tail(q)) = Len(q) - 1 /\ Len(q) \in Nat
        BY <1>1, <1>2, FifoTail
    <2> QED
        BY <2>1, <1>2, FifoAppend, InboxAssumption
<1>4. topics' = [topics EXCEPT ![t] = n]
    BY DEF push_coalesce
<1>5. UNCHANGED <<ring, rr, total, notify>> /\ ret' = 1
    BY DEF push_coalesce
<1> HIDE DEF t, q, n
<1>6. BufferTypeOK'
    BY <1>1, <1>3, <1>4, <1>5 DEF BufferInv, BufferTypeOK
<1>7. /\ topics'[t] = n
      /\ \A u \in Topics : u # t => topics'[u] = topics[u]
    BY <1>1, <1>4 DEF BufferInv, BufferTypeOK
<1>8. PerTopicBound'
    BY <1>3, <1>7 DEF BufferInv, PerTopicBound
<1>9. RingSound'
    BY <1>3, <1>5, <1>7 DEF BufferInv, BufferTypeOK, RingSound
<1> QED
    BY <1>6, <1>8, <1>9 DEF BufferInv

\* A message that finds room.
LEMMA RoomKeeps ==
    ASSUME BufferInv, NEW m \in Messages, push_room(m),
           UNCHANGED notify, pusher' \in {"idle", "signal"}
    PROVE  BufferInv'
<1> DEFINE t == m.topic
           n == Append(topics[t], m)
<1>1. t \in Topics /\ topics[t] \in Seq(Messages) /\ Len(topics[t]) \in Nat
    BY LenProperties DEF BufferInv, BufferTypeOK, Messages
<1>2. n \in Seq(Messages) /\ n # << >> /\ Len(n) <= PerTopic
    BY <1>1, FifoAppend, InboxAssumption DEF push_room, Full
<1>3. topics' = [topics EXCEPT ![t] = n]
    BY DEF push_room
<1>4. ring' = Joined(t) /\ UNCHANGED <<rr, notify>> /\ total' = total + 1 /\ ret' = 0
    BY DEF push_room
<1> HIDE DEF t, n
<1>5. BufferTypeOK'
    BY <1>1, <1>2, <1>3, <1>4, JoinedProperties DEF BufferInv, BufferTypeOK
<1>6. /\ topics'[t] = n
      /\ \A u \in Topics : u # t => topics'[u] = topics[u]
    BY <1>1, <1>3 DEF BufferInv, BufferTypeOK
<1>7. PerTopicBound'
    BY <1>2, <1>6 DEF BufferInv, PerTopicBound
<1>8. RingSound'
    <2>1. \A i \in 1..Len(Joined(t)) : topics'[Joined(t)[i]] # << >>
        BY <1>1, <1>2, <1>6, JoinedProperties, ElementOfSeq
    <2> QED
        BY <1>1, <1>4, <2>1, JoinedProperties DEF RingSound, Distinct
<1> QED
    BY <1>5, <1>7, <1>8 DEF BufferInv

\* A message that finds the budget used up: the victim loses its oldest
\* message, then push stores its own FIFO as it had read it.
LEMMA EvictKeeps ==
    ASSUME BufferInv, NEW m \in Messages, push_evict(m),
           UNCHANGED notify, pusher' \in {"idle", "signal"}
    PROVE  BufferInv'
<1> DEFINE t == m.topic
           n == Append(topics[t], m)
           r == Joined(t)
           i == Victim(r)
           v == r[i]
<1>1. t \in Topics /\ topics[t] \in Seq(Messages) /\ Len(topics[t]) \in Nat
    BY LenProperties DEF BufferInv, BufferTypeOK, Messages
<1>2. n \in Seq(Messages) /\ n # << >> /\ Len(n) <= PerTopic
    BY <1>1, FifoAppend, InboxAssumption DEF push_evict, Full
<1>3. /\ topics' = [topics EXCEPT ![v] = Tail(@), ![t] = n]
      /\ IF Len(topics[v]) = 1
         THEN ring' = RemoveAt(r, i) /\ rr' = CursorWithout(r, rr, i)
         ELSE ring' = r /\ rr' = rr
      /\ UNCHANGED <<total, notify>>
      /\ ret' = 1
      /\ VictimExists(r)
    BY DEF push_evict
<1>4. r \in Seq(Topics) /\ Distinct(r) /\ r # << >>
    BY <1>1, <1>3, JoinedProperties, EmptySeq DEF VictimExists
<1>5. i \in 1..Len(r) /\ v \in Topics
    BY <1>3, <1>4, VictimLongest
<1>6. topics[v] \in Seq(Messages) /\ topics[v] # << >>
    BY <1>3, <1>4, <1>5, VictimLongest DEF BufferInv, BufferTypeOK
<1>7. /\ Tail(topics[v]) \in Seq(Messages)
      /\ Len(topics[v]) \in Nat \ {0}
      /\ Len(Tail(topics[v])) = Len(topics[v]) - 1
      /\ Tail(topics[v]) = << >> <=> Len(topics[v]) = 1
    BY <1>6, FifoTail
<1> HIDE DEF t, n, r, i, v
<1>8. /\ topics'[t] = n
      /\ v # t => topics'[v] = Tail(topics[v])
      /\ \A u \in Topics : u # t /\ u # v => topics'[u] = topics[u]
      /\ topics' \in [Topics -> Seq(Messages)]
    BY <1>1, <1>2, <1>3, <1>5, <1>7 DEF BufferInv, BufferTypeOK
<1>9. PerTopicBound'
    <2>1. Len(topics[v]) <= PerTopic /\ PerTopic \in Nat
        BY <1>5, InboxAssumption DEF BufferInv, PerTopicBound
    <2>2. Len(Tail(topics[v])) <= PerTopic
        BY <2>1, <1>7
    <2>3. \A u \in Topics : Len(topics'[u]) <= PerTopic
        BY <2>2, <1>2, <1>8 DEF BufferInv, PerTopicBound
    <2> QED
        BY <2>3 DEF PerTopicBound
<1>10. \A j \in 1..Len(r) : r[j] # t => topics[r[j]] # << >>
    BY <1>1, JoinedProperties DEF r
<1>11. rr \in Nat /\ Len(r) \in Nat /\ Len(r) > 0 /\ rr < Len(r)
    <2>1. rr < Len(r)
        BY <1>1, <1>4, JoinedProperties DEF r
    <2> QED
        BY <2>1, <1>4, EmptySeq DEF BufferInv, BufferTypeOK
<1>12. CASE Len(topics[v]) = 1
    <2> DEFINE s == RemoveAt(r, i)
    <2>1. /\ s \in Seq(Topics)
          /\ Len(s) = Len(r) - 1
          /\ Distinct(s)
          /\ \A a \in 1..Len(s) : \E j \in 1..Len(r) : j # i /\ s[a] = r[j]
        BY <1>4, <1>5, RemoveAtDistinct
    <2>2. ring' = s /\ rr' = Wrap(s, IF i - 1 < rr THEN rr - 1 ELSE rr)
        BY <1>3, <1>12 DEF CursorWithout
    <2> HIDE DEF s
    <2>3. (IF i - 1 < rr THEN rr - 1 ELSE rr) \in Nat
        BY <1>5, <1>11
    <2>4. rr' \in Nat /\ IF s = << >> THEN rr' = 0 ELSE rr' < Len(s)
        BY <2>1, <2>2, <2>3, WrapInRing
    <2>5. \A a \in 1..Len(s) : topics'[s[a]] # << >>
        <3> SUFFICES ASSUME NEW a \in 1..Len(s) PROVE topics'[s[a]] # << >>
            OBVIOUS
        <3>1. PICK j \in 1..Len(r) : j # i /\ s[a] = r[j]
            BY <2>1
        <3>2. r[j] # v /\ r[j] \in Topics
            BY <3>1, <1>4, <1>5, ElementOfSeq DEF Distinct, v
        <3> QED
            BY <3>1, <3>2, <1>2, <1>8, <1>10
    <2>6. BufferTypeOK'
        BY <1>3, <1>8, <2>1, <2>2, <2>4 DEF BufferInv, BufferTypeOK
    <2>7. RingSound'
        BY <2>1, <2>2, <2>4, <2>5 DEF RingSound, Distinct
    <2> QED
        BY <1>9, <2>6, <2>7 DEF BufferInv
<1>13. CASE Len(topics[v]) # 1
    <2>1. ring' = r /\ rr' = rr
        BY <1>3, <1>13
    <2>2. \A a \in 1..Len(r) : topics'[r[a]] # << >>
        BY <1>2, <1>4, <1>7, <1>8, <1>10, <1>13, ElementOfSeq
    <2>3. BufferTypeOK'
        BY <1>3, <1>4, <1>8, <2>1 DEF BufferInv, BufferTypeOK
    <2>4. RingSound'
        BY <1>4, <1>11, <2>1, <2>2 DEF RingSound, Distinct
    <2> QED
        BY <1>9, <2>3, <2>4 DEF BufferInv
<1> QED
    BY <1>12, <1>13

\* Taking the message under the cursor.
LEMMA TakeKeeps ==
    ASSUME BufferInv, PopFinds, take, UNCHANGED <<notify, pusher, ret>>
    PROVE  BufferInv'
<1> DEFINE t == ring[rr + 1]
<1>1. ring \in Seq(Topics) /\ Len(ring) \in Nat /\ Len(ring) > 0 /\ rr \in Nat /\ rr < Len(ring)
    BY EmptySeq DEF BufferInv, BufferTypeOK, RingSound, PopFinds
<1>2. rr % Len(ring) = rr /\ rr + 1 \in 1..Len(ring) /\ (rr + 1) % Len(ring) \in 0..(Len(ring) - 1)
    BY <1>1
<1>3. t \in Topics /\ topics[t] \in Seq(Messages) /\ topics[t] # << >>
    BY <1>1, <1>2, ElementOfSeq DEF BufferInv, BufferTypeOK, RingSound
<1>4. /\ Tail(topics[t]) \in Seq(Messages)
      /\ Len(topics[t]) \in Nat \ {0}
      /\ Len(Tail(topics[t])) = Len(topics[t]) - 1
      /\ Tail(topics[t]) = << >> <=> Len(topics[t]) = 1
    BY <1>3, FifoTail
<1>5. /\ topics' = [topics EXCEPT ![t] = Tail(@)]
      /\ total' = total - 1
      /\ IF Len(topics[t]) = 1
         THEN ring' = RemoveAt(ring, rr + 1) /\ rr' = Wrap(ring', rr)
         ELSE ring' = ring /\ rr' = (rr + 1) % Len(ring)
    BY <1>2 DEF take, NextTopic
<1>6. total' \in Nat
    BY <1>5 DEF BufferInv, BufferTypeOK, PopFinds
<1>7. /\ topics'[t] = Tail(topics[t])
      /\ \A u \in Topics : u # t => topics'[u] = topics[u]
      /\ topics' \in [Topics -> Seq(Messages)]
    BY <1>3, <1>4, <1>5 DEF BufferInv, BufferTypeOK
<1>8. PerTopicBound'
    <2>1. Len(topics[t]) <= PerTopic /\ PerTopic \in Nat
        BY <1>3, InboxAssumption DEF BufferInv, PerTopicBound
    <2>2. Len(Tail(topics[t])) <= PerTopic
        BY <2>1, <1>4
    <2>3. \A u \in Topics : Len(topics'[u]) <= PerTopic
        BY <2>2, <1>7 DEF BufferInv, PerTopicBound
    <2> QED
        BY <2>3 DEF PerTopicBound
<1>9. CASE Len(topics[t]) = 1
    <2> DEFINE s == RemoveAt(ring, rr + 1)
    <2>1. Distinct(ring)
        BY DEF BufferInv, RingSound, Distinct
    <2>2. /\ s \in Seq(Topics)
          /\ Distinct(s)
          /\ \A a \in 1..Len(s) : \E j \in 1..Len(ring) : j # rr + 1 /\ s[a] = ring[j]
        BY <1>1, <1>2, <2>1, RemoveAtDistinct
    <2>3. ring' = s /\ rr' = Wrap(s, rr)
        BY <1>5, <1>9
    <2> HIDE DEF s
    <2>4. rr' \in Nat /\ IF s = << >> THEN rr' = 0 ELSE rr' < Len(s)
        BY <1>1, <2>2, <2>3, WrapInRing
    <2>5. \A a \in 1..Len(s) : topics'[s[a]] # << >>
        <3> SUFFICES ASSUME NEW a \in 1..Len(s) PROVE topics'[s[a]] # << >>
            OBVIOUS
        <3>1. PICK j \in 1..Len(ring) : j # rr + 1 /\ s[a] = ring[j]
            BY <2>2
        <3>2. ring[j] # t /\ ring[j] \in Topics /\ topics[ring[j]] # << >>
            BY <3>1, <2>1, <1>1, <1>2, ElementOfSeq DEF Distinct, BufferInv, RingSound
        <3> QED
            BY <3>1, <3>2, <1>7
    <2>6. BufferTypeOK'
        BY <1>6, <1>7, <2>2, <2>3, <2>4 DEF BufferInv, BufferTypeOK
    <2>7. RingSound'
        BY <2>2, <2>3, <2>4, <2>5 DEF RingSound, Distinct
    <2> QED
        BY <1>8, <2>6, <2>7 DEF BufferInv
<1>10. CASE Len(topics[t]) # 1
    <2>1. ring' = ring /\ rr' = (rr + 1) % Len(ring)
        BY <1>5, <1>10
    <2>2. \A a \in 1..Len(ring) : topics'[ring[a]] # << >>
        BY <1>1, <1>4, <1>7, <1>10, ElementOfSeq DEF BufferInv, RingSound
    <2>3. BufferTypeOK'
        BY <1>1, <1>2, <1>6, <1>7, <2>1 DEF BufferInv, BufferTypeOK
    <2>4. RingSound'
        BY <1>1, <1>2, <2>1, <2>2 DEF BufferInv, RingSound
    <2> QED
        BY <1>8, <2>3, <2>4 DEF BufferInv
<1> QED
    BY <1>9, <1>10

\* push, all three ways.
LEMMA PushKeeps ==
    ASSUME BufferInv, NEW m \in Messages, push(m)
    PROVE  BufferInv'
BY CoalesceKeeps, EvictKeeps, RoomKeeps DEF push

\* What push does to the FIFOs: the message comes last in its own, from which
\* the oldest message may go; from another FIFO at most the oldest goes; and
\* nothing goes when push returns 0.
LEMMA PushFifos ==
    ASSUME BufferInv, NEW m \in Messages, push(m)
    PROVE  /\ m.topic \in Topics
           /\ \/ topics'[m.topic] = Append(topics[m.topic], m)
              \/ /\ topics[m.topic] # << >> /\ ret' = 1
                 /\ topics'[m.topic] = Append(Tail(topics[m.topic]), m)
           /\ \A u \in Topics : u # m.topic =>
                 \/ topics'[u] = topics[u]
                 \/ topics[u] # << >> /\ topics'[u] = Tail(topics[u]) /\ ret' = 1
<1> DEFINE t == m.topic
<1>1. t \in Topics /\ topics \in [Topics -> Seq(Messages)]
    BY DEF BufferInv, BufferTypeOK, Messages
<1>2. CASE push_coalesce(m)
    <2>1. topics[t] # << >>
        BY <1>1, <1>2, InboxAssumption, EmptySeq DEF push_coalesce, Full
    <2> QED
        BY <1>1, <1>2, <2>1 DEF push_coalesce
<1>3. CASE push_room(m)
    BY <1>1, <1>3 DEF push_room
<1>4. CASE push_evict(m)
    <2> DEFINE r == Joined(t)
               v == r[Victim(r)]
    <2>1. /\ topics' = [topics EXCEPT ![v] = Tail(@), ![t] = Append(topics[t], m)]
          /\ VictimExists(r)
          /\ ret' = 1
        BY <1>4 DEF push_evict
    <2>2. r \in Seq(Topics)
        BY <1>1, JoinedProperties
    <2>3. v \in Topics /\ topics[v] # << >>
        BY <2>1, <2>2, VictimLongest
    <2> HIDE DEF r, v
    <2> QED
        BY <1>1, <2>1, <2>3
<1> QED
    BY <1>2, <1>3, <1>4 DEF push

\* The inbox starts empty.
LEMMA InitBuffer == newInbox => BufferInv
<1> SUFFICES ASSUME newInbox PROVE BufferInv
    OBVIOUS
<1>1. BufferTypeOK
    <2>1. topics \in [Topics -> Seq(Messages)] /\ ring \in Seq(Topics)
        BY EmptySeq DEF newInbox
    <2>2. rr \in Nat /\ total \in Nat /\ ret \in {0, 1}
        BY DEF newInbox
    <2>3. notify \in BOOLEAN /\ pusher \in {"idle", "signal"}
        BY DEF newInbox
    <2> QED
        BY <2>1, <2>2, <2>3 DEF BufferTypeOK
<1>2. PerTopicBound
    BY InboxAssumption, EmptySeq DEF newInbox, PerTopicBound
<1>3. RingSound
    BY EmptySeq DEF newInbox, RingSound
<1> QED
    BY <1>1, <1>2, <1>3 DEF BufferInv
----------------------------------------------------------------------------
\* For all topics and bounds, the inbox keeps its types, no FIFO exceeds
\* PerTopicMax, and the ring never holds an empty FIFO or a topic twice: pop
\* (inbox.go) cannot index an empty FIFO, even when push has stored a FIFO
\* that evictLongest had shortened.
THEOREM InboxSafety == InboxSpec => [](InboxTypeOK /\ PerTopicBound /\ RingSound)
<1> DEFINE Inv == BufferInv /\ pc \in {"select", "pop"}
<1>1. InboxInit => Inv
    BY InitBuffer DEF InboxInit
<1>2. Inv /\ [InboxNext]_inVars => Inv'
    <2> SUFFICES ASSUME Inv, [InboxNext]_inVars PROVE Inv'
        OBVIOUS
    <2>1. ASSUME NEW m \in Messages, push(m), UNCHANGED pc PROVE Inv'
        BY <2>1, PushKeeps
    <2>2. CASE signal /\ UNCHANGED pc
        BY <2>2 DEF signal, BufferInv, BufferTypeOK, PerTopicBound, RingSound
    <2>3. CASE await
        BY <2>3 DEF await, BufferInv, BufferTypeOK, PerTopicBound, RingSound
    <2>4. CASE pop
        BY <2>4, TakeKeeps DEF pop
    <2>5. CASE pop_none
        BY <2>5 DEF pop_none, BufferInv, BufferTypeOK, PerTopicBound, RingSound
    <2>6. CASE UNCHANGED inVars
        BY <2>6 DEF inVars, BufferInv, BufferTypeOK, PerTopicBound, RingSound
    <2> QED
        BY <2>1, <2>2, <2>3, <2>4, <2>5, <2>6 DEF InboxNext
<1>3. Inv => InboxTypeOK /\ PerTopicBound /\ RingSound
    BY DEF BufferInv, InboxTypeOK
<1> QED
    BY <1>1, <1>2, <1>3, PTL DEF InboxSpec
----------------------------------------------------------------------------
\* The budget is roomy: InboxSize exceeds what the topics can buffer with every
\* FIFO short of PerTopicMax.  Then a push that finds the budget used up while
\* its own FIFO has room also finds a longer FIFO of another topic, and
\* evictLongest never takes from the FIFO push has already read.  With the
\* defaults (64 of 4096 messages) that is so up to 65 topics; beyond, the inbox
\* can lose count and strand a topic, which the run InboxStranded shows.
Roomy ==
    /\ IsFiniteSet(Topics)
    /\ MaxTotal > Cardinality(Topics) * (PerTopic - 1)

AccountInv == BufferInv /\ Accounting

\* The positions of the messages in the FIFOs of f, as Buffered has them.
LEMMA Positions ==
    ASSUME NEW f
    PROVE  LET B == UNION {{<<t, i>> : i \in 1..Len(f[t])} : t \in Topics}
           IN  /\ \A x \in B : \E t \in Topics : \E i \in 1..Len(f[t]) : x = <<t, i>>
               /\ \A t \in Topics : \A i \in 1..Len(f[t]) : <<t, i>> \in B
               /\ \A t, i : <<t, i>> \in B => t \in Topics /\ i \in 1..Len(f[t])
<1> DEFINE B == UNION {{<<t, i>> : i \in 1..Len(f[t])} : t \in Topics}
<1>1. \A x \in B : \E t \in Topics : \E i \in 1..Len(f[t]) : x = <<t, i>>
    OBVIOUS
<1>2. \A t \in Topics : \A i \in 1..Len(f[t]) : <<t, i>> \in B
    OBVIOUS
<1> HIDE DEF B
<1>3. ASSUME NEW t, NEW i, <<t, i>> \in B PROVE t \in Topics /\ i \in 1..Len(f[t])
    BY <1>1, <1>3
<1> QED
    BY <1>1, <1>2, <1>3 DEF B

\* What Buffered contains, before a step and after it.
LEMMA InBuffered ==
    /\ \A x \in Buffered : \E t \in Topics : \E i \in 1..Len(topics[t]) : x = <<t, i>>
    /\ \A t \in Topics : \A i \in 1..Len(topics[t]) : <<t, i>> \in Buffered
    /\ \A t, i : <<t, i>> \in Buffered => t \in Topics /\ i \in 1..Len(topics[t])
    /\ \A x \in Buffered' : \E t \in Topics : \E i \in 1..Len(topics'[t]) : x = <<t, i>>
    /\ \A t \in Topics : \A i \in 1..Len(topics'[t]) : <<t, i>> \in Buffered'
BY Positions DEF Buffered

\* When no FIFO holds more than n messages, at most n per topic are buffered.
LEMMA BufferedBound ==
    ASSUME IsFiniteSet(Topics), BufferTypeOK, NEW n \in Nat,
           \A t \in Topics : Len(topics[t]) <= n
    PROVE  /\ IsFiniteSet(Buffered)
           /\ Cardinality(Buffered) \in Nat
           /\ Cardinality(Buffered) <= Cardinality(Topics) * n
<1>1. IsFiniteSet(1..n) /\ Cardinality(1..n) = n
    BY FS_Interval
<1>2. /\ IsFiniteSet(Topics \X (1..n))
      /\ Cardinality(Topics \X (1..n)) = Cardinality(Topics) * n
    BY <1>1, FS_Product
<1>3. Buffered \in SUBSET (Topics \X (1..n))
    <2>1. ASSUME NEW t \in Topics, NEW i \in 1..Len(topics[t]) PROVE <<t, i>> \in Topics \X (1..n)
        <3>1. Len(topics[t]) \in Nat
            BY LenProperties DEF BufferTypeOK
        <3> QED
            BY <3>1
    <2> QED
        BY <2>1, InBuffered
<1> QED
    BY <1>2, <1>3, FS_Subset, FS_CardinalityType

\* Finitely many messages are buffered.
LEMMA BufferedFinite ==
    ASSUME Roomy, BufferInv
    PROVE  IsFiniteSet(Buffered) /\ Cardinality(Buffered) \in Nat
BY BufferedBound, InboxAssumption DEF Roomy, BufferInv, PerTopicBound

\* When pop finds nothing, nothing is buffered.
LEMMA NothingLeft ==
    ASSUME Roomy, AccountInv, ~PopFinds
    PROVE  Buffered = {} /\ \A t \in Topics : topics[t] = << >>
<1>1. ASSUME NEW t \in Topics PROVE topics[t] = << >>
    <2>1. CASE total = 0
        <3>1. Buffered = {}
            BY <2>1, BufferedFinite, FS_EmptySet DEF AccountInv, Accounting
        <3>2. Len(topics[t]) = 0
            <4>1. Len(topics[t]) \in Nat /\ 1 \notin 1..Len(topics[t])
                BY <3>1, InBuffered, LenProperties DEF AccountInv, BufferInv, BufferTypeOK
            <4> QED
                BY <4>1
        <3> QED
            BY <3>2, EmptySeq DEF AccountInv, BufferInv, BufferTypeOK
    <2>2. CASE ring = << >>
        BY <2>2, EmptySeq DEF AccountInv, Accounting, OnRing
    <2> QED
        BY <2>1, <2>2 DEF PopFinds
<1>2. Buffered = {}
    BY <1>1, InBuffered, EmptySeq
<1> QED
    BY <1>1, <1>2

\* The topics push sees on the ring: those that were there, and its own.
LEMMA JoinedReaches ==
    ASSUME AccountInv, NEW t \in Topics
    PROVE  \A u \in Topics : u = t \/ topics[u] # << >> =>
               \E j \in 1..Len(Joined(t)) : Joined(t)[j] = u
<1>0. ring \in Seq(Topics) /\ Len(ring) \in Nat
    BY LenProperties DEF AccountInv, BufferInv, BufferTypeOK
<1>1. CASE topics[t] # << >>
    BY <1>1 DEF Joined, AccountInv, Accounting, OnRing
<1>2. CASE topics[t] = << >>
    <2>1. /\ Joined(t) = Append(ring, t)
          /\ Len(Joined(t)) = Len(ring) + 1
          /\ \A i \in 1..Len(ring) : Joined(t)[i] = ring[i]
          /\ Joined(t)[Len(ring) + 1] = t
        BY <1>0, <1>2, AppendProperties DEF Joined
    <2> SUFFICES ASSUME NEW u \in Topics, u = t \/ topics[u] # << >>
                 PROVE  \E j \in 1..Len(Joined(t)) : Joined(t)[j] = u
        OBVIOUS
    <2>2. CASE u = t
        BY <1>0, <2>1, <2>2
    <2>3. CASE topics[u] # << >>
        <3>1. PICK i \in 1..Len(ring) : ring[i] = u
            BY <2>3 DEF AccountInv, Accounting, OnRing
        <3>2. i \in 1..Len(Joined(t))
            BY <1>0, <2>1
        <3> QED
            BY <2>1, <3>1, <3>2
    <2> QED
        BY <2>2, <2>3
<1> QED
    BY <1>1, <1>2

\* The victim of a push is another topic than its own.
LEMMA VictimIsAnother ==
    ASSUME Roomy, AccountInv, NEW m \in Messages, push_evict(m)
    PROVE  Joined(m.topic)[Victim(Joined(m.topic))] # m.topic
<1> DEFINE t == m.topic
           r == Joined(t)
<1>1. t \in Topics /\ r \in Seq(Topics)
    BY JoinedProperties DEF Messages, AccountInv
<1>2. ~Full(t) /\ total >= MaxTotal /\ VictimExists(r)
    BY DEF push_evict
<1>3. SUFFICES ASSUME r[Victim(r)] = t PROVE FALSE
    OBVIOUS
<1>4. /\ PerTopic - 1 \in Nat
      /\ Len(topics[t]) \in Nat
      /\ Len(topics[t]) <= PerTopic - 1
    BY <1>1, <1>2, InboxAssumption, LenProperties DEF Full, AccountInv, BufferInv, BufferTypeOK
<1>5. ASSUME NEW u \in Topics PROVE Len(topics[u]) <= PerTopic - 1
    <2>1. CASE topics[u] = << >>
        BY <1>4, <2>1, EmptySeq
    <2>2. CASE topics[u] # << >>
        <3>1. PICK j \in 1..Len(r) : r[j] = u
            BY <1>1, <2>2, JoinedReaches
        <3>2. Len(topics[u]) <= Len(topics[t])
            BY <1>1, <1>2, <1>3, <3>1, VictimLongest DEF AccountInv
        <3>3. Len(topics[u]) \in Nat
            BY LenProperties DEF AccountInv, BufferInv, BufferTypeOK
        <3> QED
            BY <1>4, <3>2, <3>3
    <2> QED
        BY <2>1, <2>2
<1>6. Cardinality(Buffered) <= Cardinality(Topics) * (PerTopic - 1) /\ Cardinality(Buffered) \in Nat
    BY <1>4, <1>5, BufferedBound DEF Roomy, AccountInv, BufferInv
<1>7. Cardinality(Topics) * (PerTopic - 1) \in Nat
    <2>1. Cardinality(Topics) \in Nat
        BY FS_CardinalityType DEF Roomy
    <2> QED
        BY <1>4, <2>1
<1> DEFINE bound == Cardinality(Topics) * (PerTopic - 1)
<1>8. Cardinality(Buffered) <= bound /\ bound \in Nat /\ MaxTotal > bound
    BY <1>6, <1>7 DEF Roomy
<1> HIDE DEF bound
<1>9. Cardinality(Buffered) >= MaxTotal /\ Cardinality(Buffered) \in Nat /\ MaxTotal \in Nat
    BY <1>2, <1>6, InboxAssumption DEF AccountInv, Accounting
<1> QED
    BY <1>8, <1>9

\* Removing a position from the ring keeps the topics of the others.
LEMMA RemoveAtReaches ==
    ASSUME NEW r \in Seq(Topics), NEW i \in 1..Len(r), NEW j \in 1..Len(r), j # i
    PROVE  \E a \in 1..Len(RemoveAt(r, i)) : RemoveAt(r, i)[a] = r[j]
<1>1. Len(r) \in Nat
    BY LenProperties
<1>2. /\ Len(RemoveAt(r, i)) = Len(r) - 1
      /\ \A k \in 1..(Len(r) - 1) : RemoveAt(r, i)[k] = IF k < i THEN r[k] ELSE r[k + 1]
    BY RemoveAtProperties
<1>3. CASE j < i
    BY <1>1, <1>2, <1>3
<1>4. CASE j > i
    <2>1. j - 1 \in 1..(Len(r) - 1) /\ ~(j - 1 < i) /\ (j - 1) + 1 = j
        BY <1>1, <1>4
    <2> QED
        BY <1>2, <2>1
<1> QED
    BY <1>1, <1>3, <1>4

\* A push onto a full FIFO.
LEMMA CoalesceCounts ==
    ASSUME Roomy, AccountInv, NEW m \in Messages, push_coalesce(m)
    PROVE  Accounting' /\ Cardinality(Buffered') = Cardinality(Buffered) + 1 - ret'
<1> DEFINE t == m.topic
<1>1. t \in Topics /\ topics[t] \in Seq(Messages) /\ topics \in [Topics -> Seq(Messages)]
    BY DEF AccountInv, BufferInv, BufferTypeOK, Messages
<1>2. topics[t] # << >>
    BY <1>1, InboxAssumption, EmptySeq DEF push_coalesce, Full
<1>3. Tail(topics[t]) \in Seq(Messages) /\ Len(topics[t]) \in Nat /\ Len(Tail(topics[t])) = Len(topics[t]) - 1
    BY <1>1, <1>2, FifoTail
<1>4. /\ topics' = [topics EXCEPT ![t] = Append(Tail(topics[t]), m)]
      /\ UNCHANGED <<ring, total>> /\ ret' = 1
    BY DEF push_coalesce
<1>5. Len(topics'[t]) = Len(topics[t])
    BY <1>1, <1>3, <1>4, FifoAppend
<1>6. \A u \in Topics : u # t => topics'[u] = topics[u]
    BY <1>1, <1>4
<1>7. \A u \in Topics : Len(topics'[u]) = Len(topics[u])
    BY <1>5, <1>6
<1>8. Buffered' = Buffered
    BY <1>7 DEF Buffered
<1>9. \A u \in Topics : topics'[u] # << >> => OnRing(u)'
    BY <1>2, <1>4, <1>6 DEF AccountInv, Accounting, OnRing
<1>10. Cardinality(Buffered) \in Nat
    BY BufferedFinite DEF AccountInv
<1> QED
    BY <1>4, <1>8, <1>9, <1>10 DEF AccountInv, Accounting

\* A push that finds room: below the budget, since a ring with nothing to
\* evict means that nothing is buffered.
LEMMA RoomCounts ==
    ASSUME Roomy, AccountInv, NEW m \in Messages, push_room(m)
    PROVE  Accounting' /\ Cardinality(Buffered') = Cardinality(Buffered) + 1 - ret'
<1> DEFINE t == m.topic
           r == Joined(t)
           x == <<t, Len(topics[t]) + 1>>
<1>1. /\ t \in Topics /\ topics[t] \in Seq(Messages) /\ Len(topics[t]) \in Nat
      /\ topics \in [Topics -> Seq(Messages)]
    BY LenProperties DEF AccountInv, BufferInv, BufferTypeOK, Messages
<1>2. /\ topics' = [topics EXCEPT ![t] = Append(topics[t], m)]
      /\ ring' = r /\ total' = total + 1 /\ ret' = 0
      /\ total < MaxTotal \/ ~VictimExists(r)
    BY DEF push_room
<1>3. Len(topics'[t]) = Len(topics[t]) + 1
    BY <1>1, <1>2, FifoAppend
<1>4. \A u \in Topics : u # t => topics'[u] = topics[u]
    BY <1>1, <1>2
<1>5. Buffered' = Buffered \cup {x} /\ x \notin Buffered
    <2>1. x \notin Buffered
        BY <1>1, InBuffered
    <2>2. ASSUME NEW u \in Topics, NEW i \in 1..Len(topics[u])
          PROVE  <<u, i>> \in Buffered'
        <3>1. i \in 1..Len(topics'[u])
            BY <1>1, <1>3, <1>4
        <3> QED
            BY <3>1, InBuffered
    <2>3. x \in Buffered'
        <3>1. Len(topics[t]) + 1 \in 1..Len(topics'[t])
            BY <1>1, <1>3
        <3> QED
            BY <1>1, <3>1, InBuffered
    <2>4. ASSUME NEW u \in Topics, NEW i \in 1..Len(topics'[u])
          PROVE  <<u, i>> \in Buffered \cup {x}
        <3>1. i \in 1..Len(topics[u]) \/ (u = t /\ i = Len(topics[t]) + 1)
            BY <1>1, <1>3, <1>4
        <3> QED
            BY <3>1, InBuffered
    <2> HIDE DEF x
    <2>5. Buffered' \subseteq Buffered \cup {x}
        BY <2>4, InBuffered
    <2>6. Buffered \subseteq Buffered'
        BY <2>2, InBuffered
    <2> QED
        BY <2>1, <2>3, <2>5, <2>6
<1> HIDE DEF x
<1>6. IsFiniteSet(Buffered) /\ Cardinality(Buffered) \in Nat
    BY BufferedFinite DEF AccountInv
<1>7. Cardinality(Buffered') = Cardinality(Buffered) + 1
    BY <1>5, <1>6, FS_AddElement
<1>8. total' <= MaxTotal
    <2>1. CASE total < MaxTotal
        BY <1>2, <2>1, InboxAssumption DEF AccountInv, BufferInv, BufferTypeOK
    <2>2. CASE ~VictimExists(r)
        <3>1. \A u \in Topics : topics[u] = << >>
            <4> SUFFICES ASSUME NEW u \in Topics, topics[u] # << >> PROVE FALSE
                OBVIOUS
            <4>1. PICK j \in 1..Len(r) : r[j] = u
                BY <1>1, JoinedReaches
            <4> QED
                BY <2>2, <4>1 DEF VictimExists
        <3>2. Buffered = {}
            BY <3>1, InBuffered, EmptySeq
        <3>3. total = 0
            BY <3>2, FS_EmptySet DEF AccountInv, Accounting
        <3> QED
            BY <1>2, <3>3, InboxAssumption
    <2> QED
        BY <1>2, <2>1, <2>2
<1>9. \A u \in Topics : topics'[u] # << >> => OnRing(u)'
    <2> SUFFICES ASSUME NEW u \in Topics, topics'[u] # << >> PROVE OnRing(u)'
        OBVIOUS
    <2>1. u = t \/ topics[u] # << >>
        BY <1>4
    <2>2. \E j \in 1..Len(r) : r[j] = u
        BY <1>1, <2>1, JoinedReaches
    <2> QED
        BY <1>2, <2>2 DEF OnRing
<1> QED
    BY <1>2, <1>6, <1>7, <1>8, <1>9 DEF AccountInv, Accounting

\* A push that evicts: the longest FIFO, of another topic, gives one message.
LEMMA EvictCounts ==
    ASSUME Roomy, AccountInv, NEW m \in Messages, push_evict(m)
    PROVE  Accounting' /\ Cardinality(Buffered') = Cardinality(Buffered) + 1 - ret'
<1> DEFINE t == m.topic
           r == Joined(t)
           i == Victim(r)
           v == r[i]
           x == <<t, Len(topics[t]) + 1>>
           y == <<v, Len(topics[v])>>
<1>1. /\ t \in Topics /\ topics[t] \in Seq(Messages) /\ Len(topics[t]) \in Nat
      /\ topics \in [Topics -> Seq(Messages)]
    BY LenProperties DEF AccountInv, BufferInv, BufferTypeOK, Messages
<1>2. /\ topics' = [topics EXCEPT ![v] = Tail(@), ![t] = Append(topics[t], m)]
      /\ ring' = IF Len(topics[v]) = 1 THEN RemoveAt(r, i) ELSE r
      /\ total' = total /\ ret' = 1
      /\ VictimExists(r)
    BY DEF push_evict
<1>3. r \in Seq(Topics) /\ Distinct(r)
    BY <1>1, JoinedProperties DEF AccountInv
<1>4. /\ i \in 1..Len(r) /\ v \in Topics /\ topics[v] # << >>
      /\ topics[v] \in Seq(Messages)
    BY <1>1, <1>2, <1>3, VictimLongest DEF AccountInv
<1>5. v # t
    BY VictimIsAnother
<1>6. /\ Len(topics[v]) \in Nat \ {0}
      /\ Len(Tail(topics[v])) = Len(topics[v]) - 1
      /\ Tail(topics[v]) = << >> <=> Len(topics[v]) = 1
    BY <1>4, FifoTail
<1> HIDE DEF i, v, r
<1>7. /\ topics'[t] = Append(topics[t], m)
      /\ topics'[v] = Tail(topics[v])
      /\ \A u \in Topics : u # t /\ u # v => topics'[u] = topics[u]
    BY <1>1, <1>2, <1>4, <1>5
<1>8. Len(topics'[t]) = Len(topics[t]) + 1 /\ Len(topics'[v]) = Len(topics[v]) - 1
    BY <1>1, <1>6, <1>7, FifoAppend
<1>9. Buffered' = (Buffered \ {y}) \cup {x} /\ x \notin Buffered /\ y \in Buffered /\ x # y
    <2>1. x \notin Buffered /\ x # y
        BY <1>1, <1>5, InBuffered
    <2>2. y \in Buffered
        <3>1. Len(topics[v]) \in 1..Len(topics[v])
            BY <1>6
        <3> QED
            BY <1>4, <3>1, InBuffered
    <2>3. ASSUME NEW u \in Topics, NEW k \in 1..Len(topics[u]), <<u, k>> # y
          PROVE  <<u, k>> \in Buffered'
        <3>1. u = v => k # Len(topics[v])
            BY <2>3
        <3>2. k \in 1..Len(topics'[u])
            <4>1. CASE u = t
                BY <1>1, <1>8, <4>1
            <4>2. CASE u = v
                BY <1>6, <1>8, <3>1, <4>2
            <4>3. CASE u # t /\ u # v
                BY <1>7, <4>3
            <4> QED
                BY <4>1, <4>2, <4>3
        <3> QED
            BY <3>2, InBuffered
    <2>4. x \in Buffered'
        <3>1. Len(topics[t]) + 1 \in 1..Len(topics'[t])
            BY <1>1, <1>8
        <3> QED
            BY <1>1, <3>1, InBuffered
    <2>5. ASSUME NEW u \in Topics, NEW k \in 1..Len(topics'[u])
          PROVE  <<u, k>> \in (Buffered \ {y}) \cup {x}
        <3>1. CASE u = t
            <4>1. k \in 1..Len(topics[u]) \/ k = Len(topics[t]) + 1
                BY <1>1, <1>8, <3>1
            <4>2. <<u, k>> # y
                BY <1>5, <3>1
            <4> QED
                BY <3>1, <4>1, <4>2, InBuffered
        <3>2. CASE u = v
            <4>1. k \in 1..Len(topics[u]) /\ k # Len(topics[v])
                BY <1>6, <1>8, <3>2
            <4> QED
                BY <4>1, InBuffered
        <3>3. CASE u # t /\ u # v
            BY <1>7, <3>3, InBuffered
        <3> QED
            BY <3>1, <3>2, <3>3
    <2> HIDE DEF x, y
    <2>6. Buffered' \subseteq (Buffered \ {y}) \cup {x}
        BY <2>5, InBuffered
    <2>7. Buffered \ {y} \subseteq Buffered'
        BY <2>3, InBuffered
    <2> QED
        BY <2>1, <2>2, <2>4, <2>6, <2>7
<1> HIDE DEF x, y
<1>10. IsFiniteSet(Buffered) /\ Cardinality(Buffered) \in Nat
    BY BufferedFinite DEF AccountInv
<1>11. Cardinality(Buffered') = Cardinality(Buffered)
    <2>1. IsFiniteSet(Buffered \ {y}) /\ Cardinality(Buffered \ {y}) = Cardinality(Buffered) - 1
        BY <1>9, <1>10, FS_RemoveElement
    <2>2. x \notin Buffered \ {y}
        BY <1>9
    <2>3. Cardinality((Buffered \ {y}) \cup {x}) = Cardinality(Buffered \ {y}) + 1
        BY <2>1, <2>2, FS_AddElement
    <2> QED
        BY <1>9, <1>10, <2>1, <2>3
<1>12. ASSUME NEW u \in Topics, topics'[u] # << >> PROVE OnRing(u)'
    <2>1. u = t \/ topics[u] # << >>
        BY <1>4, <1>7, <1>12
    <2>2. PICK j \in 1..Len(r) : r[j] = u
        BY <1>1, <2>1, JoinedReaches DEF r
    <2>3. CASE Len(topics[v]) = 1
        <3>1. u # v
            BY <1>6, <1>7, <1>12, <2>3
        <3>2. j # i
            BY <2>2, <3>1 DEF v
        <3>3. \E a \in 1..Len(RemoveAt(r, i)) : RemoveAt(r, i)[a] = u
            BY <1>3, <1>4, <2>2, <3>2, RemoveAtReaches
        <3> QED
            BY <1>2, <2>3, <3>3 DEF OnRing
    <2>4. CASE Len(topics[v]) # 1
        BY <1>2, <2>2, <2>4 DEF OnRing
    <2> QED
        BY <2>3, <2>4
<1>13. total' = Cardinality(Buffered') /\ total' <= MaxTotal
    BY <1>2, <1>11 DEF AccountInv, Accounting
<1>14. Accounting'
    BY <1>12, <1>13 DEF Accounting
<1>15. Cardinality(Buffered') = Cardinality(Buffered) + 1 - ret'
    BY <1>2, <1>10, <1>11
<1> QED
    BY <1>14, <1>15

\* pop takes one message, and a FIFO it does not empty stays on the ring.
LEMMA TakeCounts ==
    ASSUME Roomy, AccountInv, PopFinds, take
    PROVE  Accounting'
<1> DEFINE t == ring[rr + 1]
           y == <<t, Len(topics[t])>>
<1>1. ring \in Seq(Topics) /\ Len(ring) \in Nat /\ Len(ring) > 0 /\ rr \in Nat /\ rr < Len(ring)
    BY EmptySeq DEF AccountInv, BufferInv, BufferTypeOK, RingSound, PopFinds
<1>2. rr % Len(ring) = rr /\ rr + 1 \in 1..Len(ring)
    BY <1>1
<1>3. /\ t \in Topics /\ topics[t] \in Seq(Messages) /\ topics[t] # << >>
      /\ topics \in [Topics -> Seq(Messages)]
    BY <1>1, <1>2, ElementOfSeq DEF AccountInv, BufferInv, BufferTypeOK, RingSound
<1>4. /\ Len(topics[t]) \in Nat \ {0}
      /\ Len(Tail(topics[t])) = Len(topics[t]) - 1
      /\ Tail(topics[t]) = << >> <=> Len(topics[t]) = 1
    BY <1>3, FifoTail
<1>5. /\ topics' = [topics EXCEPT ![t] = Tail(@)]
      /\ total' = total - 1
      /\ ring' = IF Len(topics[t]) = 1 THEN RemoveAt(ring, rr + 1) ELSE ring
    BY <1>2 DEF take, NextTopic
<1> HIDE DEF t
<1>6. /\ topics'[t] = Tail(topics[t])
      /\ \A u \in Topics : u # t => topics'[u] = topics[u]
    BY <1>3, <1>5
<1>6a. Len(topics'[t]) = Len(topics[t]) - 1 /\ Len(topics[t]) \in Nat
    BY <1>4, <1>6
<1>7. Buffered' = Buffered \ {y} /\ y \in Buffered
    <2>1. y \in Buffered
        <3>1. Len(topics[t]) \in 1..Len(topics[t])
            BY <1>4
        <3> QED
            BY <1>3, <3>1, InBuffered
    <2>2. ASSUME NEW u \in Topics, NEW k \in 1..Len(topics[u]), <<u, k>> # y
          PROVE  <<u, k>> \in Buffered'
        <3>1. u = t => k # Len(topics[t])
            BY <2>2
        <3>2. k \in 1..Len(topics'[u])
            <4>1. CASE u = t
                BY <1>6a, <3>1, <4>1
            <4>2. CASE u # t
                BY <1>6, <4>2
            <4> QED
                BY <4>1, <4>2
        <3> QED
            BY <3>2, InBuffered
    <2>3. ASSUME NEW u \in Topics, NEW k \in 1..Len(topics'[u])
          PROVE  <<u, k>> \in Buffered \ {y}
        <3>1. k \in 1..Len(topics[u]) /\ (u = t => k # Len(topics[t]))
            <4>1. CASE u = t
                BY <1>6a, <4>1
            <4>2. CASE u # t
                BY <1>6, <4>2
            <4> QED
                BY <4>1, <4>2
        <3>2. <<u, k>> # y
            BY <3>1
        <3> QED
            BY <3>1, <3>2, InBuffered
    <2> HIDE DEF y
    <2>4. Buffered' \subseteq Buffered \ {y}
        BY <2>3, InBuffered
    <2>5. Buffered \ {y} \subseteq Buffered'
        BY <2>2, InBuffered
    <2> QED
        BY <2>1, <2>4, <2>5
<1> HIDE DEF y
<1>8. IsFiniteSet(Buffered) /\ Cardinality(Buffered) \in Nat
    BY BufferedFinite DEF AccountInv
<1>9. Cardinality(Buffered') = Cardinality(Buffered) - 1
    BY <1>7, <1>8, FS_RemoveElement
<1>10. ASSUME NEW u \in Topics, topics'[u] # << >> PROVE OnRing(u)'
    <2>1. topics[u] # << >>
        BY <1>3, <1>6, <1>10
    <2>2. PICK j \in 1..Len(ring) : ring[j] = u
        BY <2>1 DEF AccountInv, Accounting, OnRing
    <2>3. CASE Len(topics[t]) = 1
        <3>1. u # t
            BY <1>4, <1>6, <1>10, <2>3
        <3>2. j # rr + 1
            BY <2>2, <3>1 DEF t
        <3>3. \E a \in 1..Len(RemoveAt(ring, rr + 1)) : RemoveAt(ring, rr + 1)[a] = u
            BY <1>1, <1>2, <2>2, <3>2, RemoveAtReaches
        <3> QED
            BY <1>5, <2>3, <3>3 DEF OnRing
    <2>4. CASE Len(topics[t]) # 1
        BY <1>5, <2>2, <2>4 DEF OnRing
    <2> QED
        BY <2>3, <2>4
<1>11. total' <= MaxTotal
    BY <1>5, InboxAssumption DEF AccountInv, Accounting, BufferInv, BufferTypeOK
<1> QED
    BY <1>5, <1>9, <1>10, <1>11 DEF AccountInv, Accounting

\* push keeps the accounts and reports what it drops.
LEMMA PushCounts ==
    ASSUME Roomy, AccountInv, NEW m \in Messages, push(m)
    PROVE  AccountInv' /\ Cardinality(Buffered') = Cardinality(Buffered) + 1 - ret'
<1>1. BufferInv'
    BY PushKeeps DEF AccountInv
<1> QED
    BY <1>1, CoalesceCounts, EvictCounts, RoomCounts DEF push, AccountInv

\* An empty inbox has its accounts in order.
LEMMA InitAccounting == newInbox => Accounting
<1> SUFFICES ASSUME newInbox PROVE Accounting
    OBVIOUS
<1>1. \A t \in Topics : topics[t] = << >>
    BY DEF newInbox
<1>2. Buffered = {}
    BY <1>1, InBuffered, EmptySeq
<1> QED
    BY <1>1, <1>2, FS_EmptySet, InboxAssumption DEF newInbox, Accounting

\* The accounts depend on the FIFOs, the ring and the count alone.
LEMMA AccountKept ==
    ASSUME Accounting, UNCHANGED <<topics, ring, total>>
    PROVE  Accounting' /\ Buffered' = Buffered
BY DEF Accounting, Buffered, OnRing
----------------------------------------------------------------------------
\* The invariant of the inbox with its forwarder.
WokenInv == AccountInv /\ pc \in {"select", "pop"} /\ NoLostWakeup

\* A push leaves the pusher about to signal.
LEMMA WokenStep ==
    ASSUME Roomy, WokenInv, [InboxNext]_inVars
    PROVE  /\ WokenInv'
           /\ pusher = "idle" /\ pusher' = "signal" =>
                 Cardinality(Buffered') = Cardinality(Buffered) + 1 - ret'
<1> USE DEF WokenInv
<1>1. ASSUME NEW m \in Messages, push(m), UNCHANGED pc
      PROVE  WokenInv' /\ Cardinality(Buffered') = Cardinality(Buffered) + 1 - ret'
    BY <1>1, PushCounts DEF push, NoLostWakeup
<1>2. CASE signal /\ UNCHANGED pc
    <2>1. BufferInv'
        BY <1>2 DEF signal, AccountInv, BufferInv, BufferTypeOK, PerTopicBound, RingSound
    <2> QED
        BY <1>2, <2>1, AccountKept DEF signal, AccountInv, NoLostWakeup
<1>3. CASE await
    <2>1. BufferInv'
        BY <1>3 DEF await, AccountInv, BufferInv, BufferTypeOK, PerTopicBound, RingSound
    <2> QED
        BY <1>3, <2>1, AccountKept DEF await, AccountInv, NoLostWakeup
<1>4. CASE pop
    <2>1. BufferInv'
        BY <1>4, TakeKeeps DEF pop, AccountInv
    <2> QED
        BY <1>4, <2>1, TakeCounts DEF pop, AccountInv, NoLostWakeup
<1>5. CASE pop_none
    <2>1. BufferInv'
        BY <1>5 DEF pop_none, AccountInv, BufferInv, BufferTypeOK, PerTopicBound, RingSound
    <2>2. Buffered = {}
        BY <1>5, NothingLeft DEF pop_none
    <2> QED
        BY <1>5, <2>1, <2>2, AccountKept DEF pop_none, AccountInv, NoLostWakeup
<1>6. CASE UNCHANGED inVars
    <2>1. BufferInv'
        BY <1>6 DEF inVars, AccountInv, BufferInv, BufferTypeOK, PerTopicBound, RingSound
    <2> QED
        BY <1>6, <2>1, AccountKept DEF inVars, AccountInv, NoLostWakeup
<1> QED
    BY <1>1, <1>2, <1>3, <1>4, <1>5, <1>6 DEF InboxNext

\* The inbox starts with its accounts in order and nothing to wake for.
LEMMA WokenInit == InboxInit => WokenInv
<1> SUFFICES ASSUME InboxInit PROVE WokenInv
    OBVIOUS
<1>1. Buffered = {}
    BY InBuffered, EmptySeq DEF InboxInit, newInbox
<1> QED
    BY <1>1, InitBuffer, InitAccounting DEF InboxInit, WokenInv, AccountInv, NoLostWakeup

\* With a roomy budget, for all topics and bounds: the inbox's count is the
\* number of buffered messages and stays inside InboxSize, every topic with
\* messages can be popped, and the forwarder never sleeps on a buffered
\* message without a wakeup under way (inbox.go push, pop).
THEOREM InboxAccounting ==
    ASSUME Roomy
    PROVE  InboxSpec => [](Accounting /\ NoLostWakeup)
<1>1. WokenInv /\ [InboxNext]_inVars => WokenInv'
    BY WokenStep
<1>2. WokenInv => Accounting /\ NoLostWakeup
    BY DEF WokenInv, AccountInv
<1> QED
    BY <1>1, <1>2, WokenInit, PTL DEF InboxSpec

\* With a roomy budget, push reports exactly the messages it makes vanish: the
\* drop counter (bridge.go onMessage) accounts for all of them.
THEOREM DropsAreCounted ==
    ASSUME Roomy
    PROVE  InboxSpec => DropsCounted
<1>1. WokenInv /\ [InboxNext]_inVars => WokenInv'
    BY WokenStep
<1>2. WokenInv /\ [InboxNext]_inVars =>
          [pusher = "idle" /\ pusher' = "signal" =>
              Cardinality(Buffered') = Cardinality(Buffered) + 1 - ret']_inVars
    BY WokenStep
<1> QED
    BY <1>1, <1>2, WokenInit, PTL DEF InboxSpec, DropsCounted
=============================================================================
