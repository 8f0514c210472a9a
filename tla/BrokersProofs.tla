--------------------------- MODULE BrokersProofs ----------------------------
(***************************************************************************)
(* Filters match what they mean; the MQTT adapter stays subscribed; a       *)
(* stream is honest about what it drops; and the in-memory broker delivers  *)
(* what a subscription is owed: for any topics, filters, subscribers,       *)
(* publishers and buffer sizes.                                             *)
(***************************************************************************)
EXTENDS Brokers, SequenceTheorems, FiniteSetTheorems, WellFoundedInduction, TLAPS

\* A set of natural numbers has a least one.
LEMMA LeastNumber ==
    ASSUME NEW T, T \subseteq Nat, T # {}
    PROVE  \E x \in T : \A y \in T : x <= y
<1> DEFINE R == OpToRel(<, Nat)
<1>1. IsWellFoundedOn(R, Nat) /\ \A x, y \in Nat : y < x => <<y, x>> \in R
    BY NatLessThanWellFounded DEF OpToRel
<1> HIDE DEF R
<1>2. PICK x \in T : \A y \in T : ~(<<y, x>> \in R)
    BY <1>1, WFMin
<1>3. \A y \in T : ~(y < x)
    BY <1>1, <1>2, Zenon
<1>4. QED
    BY <1>3

\* Min is the least.
LEMMA MinIsLeast ==
    ASSUME NEW T, T \subseteq Nat, T # {}
    PROVE  Min(T) \in T /\ \A y \in T : Min(T) <= y
    BY LeastNumber DEF Min

----------------------------------------------------------------------------
\* uns/topic.go: for a filter that ValidateFilter accepts, the loop of
\* MatchFilter, which returns at the first segment that decides, computes what
\* the filter means, for filters and topics of every length.
THEOREM MatchesWhatItMeans ==
    ASSUME NEW f \in Seq(Segments), NEW t \in Seq(Segments), ValidateFilter(f)
    PROVE  MatchFilter(f, t) <=> Means(f, t)
<1> DEFINE n == Len(f)
           S == Stops(f, t)
<1>1. n \in Nat /\ n > 0 /\ Len(t) \in Nat
    BY EmptySeq DEF ValidateFilter
<1>2. \A i \in 1..n : f[i] = "#" => i = n
    BY DEF ValidateFilter
<1>3. /\ S \subseteq Nat /\ S \subseteq 1..n
      /\ \A i \in 1..n : i \in S <=> f[i] = "#" \/ i > Len(t) \/ (f[i] # "+" /\ f[i] # t[i])
    BY DEF Stops
<1>4. S # {} => Min(S) \in S /\ \A j \in S : Min(S) <= j
    BY <1>3, MinIsLeast
<1>5. MatchFilter(f, t) <=> IF S = {} THEN n = Len(t) ELSE f[Min(S)] = "#" /\ Min(S) = n
    BY DEF MatchFilter
<1> HIDE DEF S
<1>6. CASE f[n] = "#"
    <2>1. Means(f, t) <=> Len(t) >= n - 1 /\ \A i \in 1..(n - 1) : f[i] = "+" \/ f[i] = t[i]
        BY <1>1, <1>6 DEF Means
    <2>2. n \in S
        BY <1>1, <1>3, <1>6
    <2>3. MatchFilter(f, t) <=> Min(S) = n
        BY <1>5, <1>6, <2>2
    <2>4. Min(S) = n <=> \A i \in 1..(n - 1) : i \notin S
        <3> DEFINE k == Min(S)
        <3>1. k \in S /\ k \in 1..n /\ \A j \in S : k <= j
            BY <1>3, <1>4, <2>2
        <3> HIDE DEF k
        <3>2. k = n <=> \A i \in 1..(n - 1) : i \notin S
            BY <1>1, <3>1
        <3>3. QED
            BY <3>2 DEF k
    <2>5. \A i \in 1..(n - 1) : i \notin S <=> i <= Len(t) /\ (f[i] = "+" \/ f[i] = t[i])
        BY <1>1, <1>2, <1>3
    <2>6. (\A i \in 1..(n - 1) : i <= Len(t)) <=> Len(t) >= n - 1
        BY <1>1
    <2>7. QED
        BY <2>1, <2>3, <2>4, <2>5, <2>6
<1>7. CASE f[n] # "#"
    <2>1. Means(f, t) <=> Len(t) = n /\ \A i \in 1..n : f[i] = "+" \/ f[i] = t[i]
        BY <1>1, <1>7 DEF Means
    <2>2. \A i \in 1..n : f[i] # "#"
        BY <1>1, <1>2, <1>7
    <2>3. MatchFilter(f, t) <=> S = {} /\ n = Len(t)
        BY <1>3, <1>4, <1>5, <2>2
    <2>4. S = {} <=> \A i \in 1..n : i <= Len(t) /\ (f[i] = "+" \/ f[i] = t[i])
        BY <1>1, <1>3, <2>2
    <2>5. QED
        BY <1>1, <2>1, <2>3, <2>4
<1>8. QED
    BY <1>6, <1>7

----------------------------------------------------------------------------
\* The server has filter f, or its loss is excused, or the connection is down,
\* or a resubscribe will still ask for it.
Covers(sv, ex, u, rs, f) ==
    \/ f \in sv \cup ex
    \/ ~u
    \/ \E i \in 1..Len(rs) : rs[i] = NotRead \/ f \in rs[i]

FilterSets == SUBSET Seq(Segments)

MqttInv ==
    /\ filter \in [Subscribers -> Seq(Segments)] /\ resubs \in Seq(FilterSets)
    /\ DOMAIN mst = Subscribers /\ msubs \subseteq Subscribers
    /\ broker = "memory" => \A s \in Subscribers : mst[s] = "new"
    /\ \A s \in Subscribers : mst[s] \in {"asking", "active"} => s \in msubs
    /\ \A s \in Subscribers : mst[s] = "leaving" => s \in alone
    /\ \A s \in Subscribers : mst[s] = "active" => Covers(server, excused, up, resubs, filter[s])

\* RemoveAt keeps the other elements.
LEMMA RemoveAtKeeps ==
    ASSUME NEW S, NEW q \in Seq(S), NEW i \in 1..Len(q)
    PROVE  /\ RemoveAt(q, i) \in Seq(S)
           /\ \A j \in 1..Len(q) : j # i => \E k \in 1..Len(RemoveAt(q, i)) : RemoveAt(q, i)[k] = q[j]
<1> DEFINE a == SubSeq(q, 1, i - 1)
           b == SubSeq(q, i + 1, Len(q))
           r == RemoveAt(q, i)
           n == Len(q)
<1>1. n \in Nat /\ i \in Nat /\ i >= 1 /\ i <= n
    OBVIOUS
<1>2. a \in Seq(S) /\ Len(a) = i - 1 /\ \A k \in 1..(i - 1) : a[k] = q[k]
    BY <1>1, SubSeqProperties
<1>3. b \in Seq(S) /\ Len(b) = n - i /\ \A k \in 1..(n - i) : b[k] = q[i + k]
    BY <1>1, SubSeqProperties
<1> HIDE DEF a, b, n
<1>4. r \in Seq(S) /\ Len(r) = n - 1 /\ \A k \in 1..(n - 1) : r[k] = IF k <= i - 1 THEN a[k] ELSE b[k - (i - 1)]
    <2>1. r = a \o b
        BY DEF RemoveAt, a, b
    <2>2. Len(a) + Len(b) = n - 1
        BY <1>1, <1>2, <1>3
    <2>3. /\ a \o b \in Seq(S) /\ Len(a \o b) = Len(a) + Len(b)
          /\ \A k \in 1..(Len(a) + Len(b)) : (a \o b)[k] = IF k <= Len(a) THEN a[k] ELSE b[k - Len(a)]
        BY <1>2, <1>3, ConcatProperties
    <2>4. QED
        BY <1>2, <2>1, <2>2, <2>3, Zenon
<1> HIDE DEF r
<1>5. ASSUME NEW j \in 1..n, j # i
      PROVE  \E k \in 1..(n - 1) : r[k] = q[j]
    <2>1. CASE j < i
        <3>1. j \in 1..(n - 1) /\ j \in 1..(i - 1) /\ j <= i - 1
            BY <1>1, <2>1
        <3>2. r[j] = a[j]
            BY <1>4, <3>1
        <3>3. QED
            BY <1>2, <3>1, <3>2
    <2>2. CASE j > i
        <3>1. j - 1 \in 1..(n - 1) /\ ~(j - 1 <= i - 1) /\ j - i \in 1..(n - i) /\ (j - 1) - (i - 1) = j - i /\ i + (j - i) = j
            BY <1>1, <2>2
        <3>2. r[j - 1] = b[j - i]
            BY <1>4, <3>1
        <3>3. b[j - i] = q[j]
            BY <1>3, <3>1
        <3>4. QED
            BY <3>1, <3>2, <3>3
    <2>3. QED
        BY <1>1, <1>5, <2>1, <2>2
<1>6. QED
    BY <1>4, <1>5 DEF r, n

\* The connection (mqtt/broker.go: the callbacks of the client library, Close).
LEMMA ConnectionCovers ==
    ASSUME MqttInv, OnConnectionDown \/ OnConnectionUp \/ MqttClose, UNCHANGED broker
    PROVE  MqttInv'
<1>1. UNCHANGED <<filter, msubs, mst, alone, excused>>
    BY DEF OnConnectionDown, OnConnectionUp, MqttClose
<1>2. CASE OnConnectionDown \/ MqttClose
    <2>1. up' = FALSE /\ resubs' = resubs
        BY <1>2 DEF OnConnectionDown, MqttClose
    <2>2. QED
        BY <1>1, <2>1 DEF MqttInv, Covers
<1>3. CASE OnConnectionUp
    <2>1. resubs' = Append(resubs, NotRead) /\ NotRead \in FilterSets
        BY <1>3 DEF OnConnectionUp, NotRead, FilterSets
    <2>2. /\ resubs' \in Seq(FilterSets) /\ Len(resubs') = Len(resubs) + 1 /\ Len(resubs) \in Nat
          /\ resubs'[Len(resubs) + 1] = NotRead
        BY <2>1, AppendProperties DEF MqttInv
    <2>3. \E i \in 1..Len(resubs') : resubs'[i] = NotRead
        BY <2>2
    <2>4. \A f : Covers(server', excused', up', resubs', f)
        BY <2>3 DEF Covers
    <2>5. QED
        BY <1>1, <2>2, <2>4 DEF MqttInv
<1>4. QED
    BY <1>2, <1>3

\* resubscribe, its two steps: the filters of all subscriptions are read, and
\* the one request for them ends.
LEMMA ResubscribeCovers ==
    ASSUME MqttInv, NEW i \in 1..Len(resubs), resubscribe(i), UNCHANGED broker
    PROVE  MqttInv'
<1>1. UNCHANGED <<filter, msubs, mst, alone, up>>
    BY DEF resubscribe
<1>2. CASE resubs[i] = NotRead
    <2> DEFINE F == {filter[s] : s \in msubs}
    <2>1. resubs' = [resubs EXCEPT ![i] = F] /\ UNCHANGED <<server, excused>>
        BY <1>2 DEF resubscribe
    <2>2. F \in FilterSets
        BY DEF MqttInv, FilterSets
    <2>3. \A s \in Subscribers : mst[s] = "active" => filter[s] \in F
        BY DEF MqttInv
    <2> HIDE DEF F
    <2>4. resubs' \in Seq(FilterSets) /\ Len(resubs') = Len(resubs) /\ resubs'[i] = F
        BY <2>1, <2>2 DEF MqttInv
    <2>5. \A s \in Subscribers : mst[s] = "active" => Covers(server', excused', up', resubs', filter[s])
        BY <2>3, <2>4 DEF Covers
    <2>6. QED
        BY <1>1, <2>4, <2>5 DEF MqttInv
<1>3. CASE resubs[i] # NotRead
    <2>1. resubs' = RemoveAt(resubs, i)
        BY <1>3 DEF resubscribe
    <2>2. /\ resubs' \in Seq(FilterSets)
          /\ \A j \in 1..Len(resubs) : j # i => \E k \in 1..Len(resubs') : resubs'[k] = resubs[j]
        BY <2>1, RemoveAtKeeps DEF MqttInv
    <2>3. \/ ~up /\ UNCHANGED <<server, excused>>
          \/ server' = server \cup resubs[i] /\ excused' = excused \ resubs[i]
          \/ server' = server /\ excused' = excused \cup resubs[i]
        BY <1>3 DEF resubscribe
    <2>4. ASSUME NEW s \in Subscribers, mst[s] = "active"
          PROVE  Covers(server', excused', up', resubs', filter[s])
        <3>1. Covers(server, excused, up, resubs, filter[s])
            BY <2>4 DEF MqttInv
        <3>2. CASE filter[s] \in server \cup excused
            BY <1>1, <2>3, <3>2 DEF Covers
        <3>3. CASE ~up
            BY <1>1, <3>3 DEF Covers
        <3>4. ASSUME NEW j \in 1..Len(resubs), resubs[j] = NotRead \/ filter[s] \in resubs[j], up
              PROVE  Covers(server', excused', up', resubs', filter[s])
            <4>1. CASE j = i
                BY <1>1, <1>3, <2>3, <3>4, <4>1 DEF Covers
            <4>2. CASE j # i
                BY <2>2, <3>4, <4>2 DEF Covers
            <4>3. QED
                BY <4>1, <4>2
        <3>5. QED
            BY <3>1, <3>2, <3>3, <3>4 DEF Covers
    <2>5. QED
        BY <1>1, <2>2, <2>4 DEF MqttInv
<1>4. QED
    BY <1>2, <1>3

\* Subscribe and the answer to its request.
LEMMA SubscribeCovers ==
    ASSUME MqttInv, NEW s \in Subscribers, NEW f \in Filters[s], MqttSubscribe(s, f),
           broker = "mqtt", UNCHANGED broker
    PROVE  MqttInv'
<1>1. /\ mst[s] = "new" /\ filter' = [filter EXCEPT ![s] = f] /\ msubs' = msubs \cup {s}
      /\ mst' = [mst EXCEPT ![s] = "asking"]
      /\ UNCHANGED <<up, server, resubs, alone, excused>>
    BY DEF MqttSubscribe
<1>2. f \in Seq(Segments)
    BY EventStreamAssumption
<1>3. filter' \in [Subscribers -> Seq(Segments)] /\ DOMAIN mst' = Subscribers /\ msubs' \subseteq Subscribers
    BY <1>1, <1>2 DEF MqttInv
<1>4. \A o \in Subscribers : o # s => filter'[o] = filter[o] /\ mst'[o] = mst[o]
    BY <1>1 DEF MqttInv
<1>5. mst'[s] = "asking"
    BY <1>1 DEF MqttInv
<1>6. QED
    BY <1>1, <1>3, <1>4, <1>5 DEF MqttInv

LEMMA AskedCovers ==
    ASSUME MqttInv, NEW s \in Subscribers, Asked(s), broker = "mqtt", UNCHANGED broker
    PROVE  MqttInv'
<1>1. mst[s] = "asking" /\ UNCHANGED <<filter, up, resubs, alone>> /\ DOMAIN mst = Subscribers
    BY DEF Asked, MqttInv
<1>2. CASE /\ server' = server \cup {filter[s]} /\ excused' = excused \ {filter[s]}
           /\ mst' = [mst EXCEPT ![s] = "active"] /\ UNCHANGED msubs
    <2>1. \A f : Covers(server, excused, up, resubs, f) => Covers(server', excused', up', resubs', f)
        BY <1>1, <1>2 DEF Covers
    <2>2. Covers(server', excused', up', resubs', filter[s])
        BY <1>2 DEF Covers
    <2>3. \A o \in Subscribers : mst'[o] = IF o = s THEN "active" ELSE mst[o]
        BY <1>1, <1>2
    <2>4. s \in msubs /\ DOMAIN mst' = Subscribers
        BY <1>1, <1>2 DEF MqttInv
    <2>5. QED
        BY <1>1, <1>2, <2>1, <2>2, <2>3, <2>4 DEF MqttInv
<1>3. CASE /\ server' \in {server, IF up THEN server \cup {filter[s]} ELSE server}
           /\ mst' = [mst EXCEPT ![s] = "failed"] /\ msubs' = msubs \ {s} /\ UNCHANGED excused
    <2>0. server' = server \/ server' = server \cup {filter[s]}
        BY <1>3
    <2>1. \A f : Covers(server, excused, up, resubs, f) => Covers(server', excused', up', resubs', f)
        BY <1>1, <1>3, <2>0 DEF Covers
    <2>2. \A o \in Subscribers : mst'[o] = IF o = s THEN "failed" ELSE mst[o]
        BY <1>1, <1>3
    <2>3. DOMAIN mst' = Subscribers
        BY <1>1, <1>3
    <2>4. QED
        BY <1>1, <1>3, <2>1, <2>2, <2>3 DEF MqttInv
<1>4. QED
    BY <1>2, <1>3 DEF Asked

\* The end of a subscription and of its request.
LEMMA UnsubCovers ==
    ASSUME MqttInv, NEW s \in Subscribers, Unsub(s), broker = "mqtt", UNCHANGED broker
    PROVE  MqttInv'
<1>1. /\ UNCHANGED <<filter, up, server, resubs, excused>> /\ DOMAIN mst = Subscribers
      /\ msubs' = msubs \ {s}
    BY DEF Unsub, MqttInv
<1>2. /\ \A o \in Subscribers : o # s => mst'[o] = mst[o]
      /\ mst'[s] = "gone" \/ (mst'[s] = "leaving" /\ s \in alone')
      /\ DOMAIN mst' = Subscribers /\ alone \subseteq alone'
    BY <1>1 DEF Unsub, Still
<1>3. QED
    BY <1>1, <1>2 DEF MqttInv

LEMMA UnsubscribedCovers ==
    ASSUME MqttInv, NEW s \in Subscribers, Unsubscribed(s), broker = "mqtt", UNCHANGED broker
    PROVE  MqttInv'
<1>1. /\ mst[s] = "leaving" /\ mst' = [mst EXCEPT ![s] = "gone"] /\ DOMAIN mst = Subscribers
      /\ UNCHANGED <<filter, up, msubs, resubs, alone>>
    BY DEF Unsubscribed, MqttInv
<1>2. /\ \A o \in Subscribers : o # s => mst'[o] = mst[o]
      /\ mst'[s] = "gone" /\ DOMAIN mst' = Subscribers
    BY <1>1
<1>3. CASE UNCHANGED <<server, excused>>
    BY <1>1, <1>2, <1>3 DEF MqttInv
<1>4. CASE /\ server' = server \ {filter[s]}
           /\ excused' = IF s \in alone /\ Others(s) # {} THEN excused \cup {filter[s]} ELSE excused
    <2>1. ASSUME NEW o \in Subscribers, mst[o] = "active"
          PROVE  Covers(server', excused', up', resubs', filter[o])
        <3>1. Covers(server, excused, up, resubs, filter[o])
            BY <2>1 DEF MqttInv
        <3>2. CASE filter[o] = filter[s]
            <4>1. o \in Others(s) /\ s \in alone
                BY <1>1, <2>1, <3>2 DEF MqttInv, Others
            <4>2. filter[o] \in excused'
                BY <1>4, <3>2, <4>1
            <4>3. QED
                BY <4>2 DEF Covers
        <3>3. CASE filter[o] # filter[s]
            <4>1. excused \subseteq excused'
                BY <1>4
            <4>2. QED
                BY <1>1, <1>4, <3>1, <3>3, <4>1 DEF Covers
        <3>4. QED
            BY <3>2, <3>3
    <2>2. QED
        BY <1>1, <1>2, <2>1 DEF MqttInv
<1>5. QED
    BY <1>3, <1>4 DEF Unsubscribed

\* With the in-memory broker nothing is asked of a server.
LEMMA MemoryCovers ==
    ASSUME MqttInv, MemoryNext
    PROVE  MqttInv'
<1>1. UNCHANGED <<broker, mqttVars>> /\ broker = "memory"
    BY DEF MemoryNext, Publishing, Goroutine, Closing
<1>2. filter' \in [Subscribers -> Seq(Segments)]
    <2>1. CASE \E s \in Subscribers : \E f \in Filters[s] : Subscribe(s, f)
        <3>1. PICK s \in Subscribers, f \in Seq(Segments) : filter' = [filter EXCEPT ![s] = f]
            BY <2>1, EventStreamAssumption DEF Subscribe
        <3>2. QED
            BY <3>1 DEF MqttInv
    <2>2. CASE \/ \E p \in Publishers : Abandon(p) \/ (\E m \in Messages[p] : Publish(p, m[1], m[2])) \/ Send(p)
               \/ \E s \in Subscribers : Leave(s) \/ Start(s) \/ Turn(s)
               \/ BrokerClose
        <3>1. UNCHANGED filter
            BY <2>2 DEF Abandon, Publish, Send, Leave, Start, Turn, BrokerClose
        <3>2. QED
            BY <3>1 DEF MqttInv
    <2>3. QED
        BY <2>1, <2>2 DEF MemoryNext, Publishing, Goroutine, Closing
<1>3. QED
    BY <1>1, <1>2 DEF MqttInv, mqttVars

LEMMA InitCovers == BrokersInit => MqttInv
<1> SUFFICES ASSUME BrokersInit PROVE MqttInv
    OBVIOUS
<1>1. filter \in [Subscribers -> Seq(Segments)]
    <2>1. "#" \in Segments
        BY EventStreamAssumption
    <2>2. <<"#">> \in Seq(Segments)
        BY <2>1
    <2>3. filter = [s \in Subscribers |-> <<"#">>]
        BY DEF BrokersInit
    <2>4. QED
        BY <2>2, <2>3, Zenon
<1>2. resubs \in Seq(FilterSets)
    BY DEF BrokersInit, MqttInit, NotRead, FilterSets
<1>3. QED
    BY <1>1, <1>2 DEF BrokersInit, MqttInit, MqttInv

LEMMA NextCovers == MqttInv /\ [BrokersNext]_brokersVars => MqttInv'
<1> SUFFICES ASSUME MqttInv, [BrokersNext]_brokersVars PROVE MqttInv'
    OBVIOUS
<1>1. CASE MemoryNext
    BY <1>1, MemoryCovers
<1>2. CASE MqttNext
    <2>1. UNCHANGED broker /\ broker = "mqtt"
        BY <1>2 DEF MqttNext
    <2>2. CASE \E t \in Topics : onPublish(t)
        BY <2>1, <2>2 DEF onPublish, MqttInv, mqttVars
    <2>3. QED
        BY <1>2, <2>1, <2>2, ConnectionCovers, ResubscribeCovers, SubscribeCovers, AskedCovers,
           UnsubCovers, UnsubscribedCovers DEF MqttNext
<1>3. CASE StreamNext \/ UNCHANGED brokersVars
    <2>1. UNCHANGED <<broker, filter, mqttVars>>
        BY <1>3 DEF StreamNext, brokersVars
    <2>2. QED
        BY <2>1 DEF MqttInv, mqttVars
<1>4. QED
    BY <1>1, <1>2, <1>3 DEF BrokersNext

\* While connected, with no resubscribe under way, the server has the filter of
\* every subscription in use, or its loss is one of the two excused ones
\* (mqtt/broker.go: OnConnectionUp asks for all filters, Subscribe registers
\* before it asks, the last subscription of a filter alone gives it up), for
\* any number of subscribers, filters and reconnects.
THEOREM RemainsSubscribed == BrokersSpec => []StaysSubscribed
<1>1. MqttInv => StaysSubscribed
    BY DEF MqttInv, Covers, StaysSubscribed
<1>2. QED
    BY <1>1, InitCovers, NextCovers, PTL DEF BrokersSpec

----------------------------------------------------------------------------
\* What a stream was given, has sent or will send, and has dropped.
StreamTyped ==
    /\ got \in [Subscribers -> Seq(Nat)]
    /\ buffer \in [Streams -> Seq(Nat)] /\ sent \in [Streams -> Seq(Nat)]
    /\ dropped \in [Streams -> Nat]

Honest(g, a, n) == Len(g) = Len(a) + n /\ Within(a, g)

StreamInv == StreamTyped /\ \A s \in Streams : Honest(got[s], sent[s] \o buffer[s], dropped[s])

\* A message that is dropped, and one that is not.
LEMMA WithinGrows ==
    ASSUME NEW a \in Seq(Nat), NEW g \in Seq(Nat), NEW x \in Nat, Within(a, g)
    PROVE  Within(a, Append(g, x)) /\ Within(Append(a, x), Append(g, x))
<1> DEFINE n == Len(a)
           m == Len(g)
           gx == Append(g, x)
           ax == Append(a, x)
<1>1. n \in Nat /\ m \in Nat
    OBVIOUS
<1>2. Len(gx) = m + 1 /\ (\A i \in 1..m : gx[i] = g[i]) /\ gx[m + 1] = x
    BY AppendProperties
<1>3. Len(ax) = n + 1 /\ (\A i \in 1..n : ax[i] = a[i]) /\ ax[n + 1] = x
    BY AppendProperties
<1>4. PICK h \in [1..n -> 1..m] :
         (\A i, j \in 1..n : i < j => h[i] < h[j]) /\ \A i \in 1..n : a[i] = g[h[i]]
    BY DEF Within
<1> HIDE DEF n, m, gx, ax
<1>5. Within(a, gx)
    <2>1. h \in [1..n -> 1..Len(gx)]
        BY <1>1, <1>2, <1>4
    <2>2. \A i \in 1..n : a[i] = gx[h[i]]
        BY <1>2, <1>4
    <2>3. QED
        BY <1>4, <2>1, <2>2 DEF Within, n
<1>6. Within(ax, gx)
    <2> DEFINE k == [i \in 1..(n + 1) |-> IF i = n + 1 THEN m + 1 ELSE h[i]]
    <2>1. \A i \in 1..n : i \in 1..(n + 1) /\ k[i] = h[i] /\ h[i] \in 1..m
        BY <1>1, <1>4
    <2>2. n + 1 \in 1..(n + 1) /\ k[n + 1] = m + 1 /\ \A i \in 1..(n + 1) : i \in 1..n \/ i = n + 1
        BY <1>1
    <2>3. k \in [1..(n + 1) -> 1..(m + 1)]
        <3>1. \A i \in 1..(n + 1) : k[i] \in 1..(m + 1)
            BY <1>1, <2>1, <2>2
        <3>2. QED
            BY <3>1
    <2> HIDE DEF k
    <2>4. ASSUME NEW i \in 1..(n + 1), NEW j \in 1..(n + 1), i < j
          PROVE  k[i] < k[j]
        <3>1. i \in 1..n /\ k[i] = h[i] /\ h[i] \in 1..m
            BY <1>1, <2>1, <2>4
        <3>2. CASE j = n + 1
            BY <1>1, <2>2, <3>1, <3>2
        <3>3. CASE j \in 1..n
            BY <1>4, <2>1, <2>4, <3>1, <3>3
        <3>4. QED
            BY <2>2, <3>2, <3>3
    <2>5. ASSUME NEW i \in 1..(n + 1) PROVE ax[i] = gx[k[i]]
        <3>1. CASE i = n + 1
            BY <1>2, <1>3, <2>2, <3>1
        <3>2. CASE i \in 1..n
            <4>1. ax[i] = a[i] /\ k[i] = h[i] /\ a[i] = g[h[i]] /\ gx[h[i]] = g[h[i]]
                BY <1>2, <1>3, <1>4, <2>1, <3>2
            <4>2. QED
                BY <4>1
        <3>3. QED
            BY <2>2, <3>1, <3>2
    <2>6. QED
        BY <1>2, <1>3, <2>3, <2>4, <2>5 DEF Within
<1>7. QED
    BY <1>5, <1>6 DEF gx, ax

\* Appending to the buffer, and sending its head, seen from the whole.
LEMMA WholeAppend ==
    ASSUME NEW a \in Seq(Nat), NEW b \in Seq(Nat), NEW x \in Nat
    PROVE  a \o Append(b, x) = Append(a \o b, x)
<1>1. a \o b \in Seq(Nat) /\ <<x>> \in Seq(Nat)
    BY ConcatProperties
<1>2. Append(b, x) = b \o <<x>> /\ Append(a \o b, x) = (a \o b) \o <<x>>
    BY <1>1, AppendIsConcat
<1>3. QED
    BY <1>1, <1>2, ConcatAssociative

LEMMA WholeMove ==
    ASSUME NEW a \in Seq(Nat), NEW b \in Seq(Nat), b # << >>
    PROVE  Append(a, Head(b)) \o Tail(b) = a \o b
<1> DEFINE x == Head(b)
           r == Tail(b)
<1>1. /\ x \in Nat /\ r \in Seq(Nat) /\ Len(r) = Len(b) - 1 /\ Len(b) \in Nat \ {0}
      /\ (\A i \in 1..Len(r) : r[i] = b[i + 1]) /\ x = b[1]
    BY HeadTailProperties, EmptySeq
<1> HIDE DEF x, r
<1>2. <<x>> \in Seq(Nat) /\ Append(a, x) = a \o <<x>>
    BY <1>1, AppendIsConcat
<1>3. <<x>> \o r = b
    <2>1. /\ <<x>> \o r \in Seq(Nat) /\ Len(<<x>> \o r) = 1 + Len(r)
          /\ \A i \in 1..(1 + Len(r)) : (<<x>> \o r)[i] = IF i <= 1 THEN <<x>>[i] ELSE r[i - 1]
        <3>1. Len(<<x>>) = 1
            OBVIOUS
        <3>2. QED
            BY <1>1, <1>2, <3>1, ConcatProperties
    <2> DEFINE y == <<x>> \o r
    <2> HIDE DEF y
    <2>2. y \in Seq(Nat) /\ Len(y) = Len(b) /\ \A i \in 1..Len(b) : y[i] = IF i <= 1 THEN x ELSE r[i - 1]
        BY <1>1, <2>1 DEF y
    <2>3. ASSUME NEW i \in 1..Len(b) PROVE y[i] = b[i]
        <3>1. CASE i = 1
            BY <1>1, <2>2, <3>1
        <3>2. CASE i > 1
            <4>1. i - 1 \in 1..Len(r) /\ (i - 1) + 1 = i /\ ~(i <= 1)
                BY <1>1, <3>2
            <4>2. QED
                BY <1>1, <2>2, <4>1
        <3>3. QED
            BY <1>1, <3>1, <3>2
    <2>4. y = b
        BY <2>2, <2>3, SeqEqual
    <2>5. QED
        BY <2>4 DEF y
<1>4. QED
    BY <1>1, <1>2, <1>3, ConcatAssociative DEF x, r

\* The select of a stream's handler, seen from the whole.
LEMMA PushHonest ==
    ASSUME NEW g \in Seq(Nat), NEW a \in Seq(Nat), NEW b \in Seq(Nat), NEW n \in Nat, NEW m \in Nat,
           Honest(g, a \o b, n)
    PROVE  /\ Push(b, m) \in Seq(Nat)
           /\ Honest(Append(g, m), a \o Push(b, m), IF Push(b, m) = b THEN n + 1 ELSE n)
<1> DEFINE ab == a \o b
<1>1. ab \in Seq(Nat) /\ Len(g) = Len(ab) + n /\ Within(ab, g) /\ Len(ab) \in Nat
    BY ConcatProperties DEF Honest
<1>2. Append(g, m) \in Seq(Nat) /\ Len(Append(g, m)) = Len(g) + 1
    BY AppendProperties
<1>3. CASE Len(b) < SSEBuffer
    <2>1. Push(b, m) = Append(b, m)
        BY <1>3 DEF Push
    <2>2. Append(b, m) \in Seq(Nat) /\ Len(Append(b, m)) = Len(b) + 1 /\ Len(b) \in Nat
        BY AppendProperties
    <2>3. Push(b, m) # b
        BY <2>1, <2>2
    <2>4. a \o Push(b, m) = Append(ab, m)
        BY <2>1, WholeAppend
    <2>5. Within(Append(ab, m), Append(g, m)) /\ Len(Append(ab, m)) = Len(ab) + 1
        BY <1>1, WithinGrows, AppendProperties, Zenon
    <2>6. Len(Append(g, m)) = Len(Append(ab, m)) + n
        BY <1>1, <1>2, <2>5
    <2>7. QED
        BY <2>1, <2>2, <2>3, <2>4, <2>5, <2>6 DEF Honest
<1>4. CASE ~(Len(b) < SSEBuffer)
    <2>1. Push(b, m) = b
        BY <1>4 DEF Push
    <2>2. Within(ab, Append(g, m))
        BY <1>1, WithinGrows
    <2>3. Len(Append(g, m)) = Len(ab) + (n + 1)
        BY <1>1, <1>2
    <2>4. QED
        BY <2>1, <2>2, <2>3 DEF Honest
<1>5. QED
    BY <1>3, <1>4

\* The handlers of the subscriptions S are called with a message.
LEMMA HandleHonest ==
    ASSUME StreamInv, NEW S \in SUBSET Subscribers, NEW m \in Nat, Handle(S, m)
    PROVE  StreamInv'
<1>1. Streams \subseteq Subscribers
    BY EventStreamAssumption
<1>2. /\ got' = [s \in Subscribers |-> IF s \in S THEN Append(got[s], m) ELSE got[s]]
      /\ buffer' = [s \in Streams |-> IF s \in S THEN Push(buffer[s], m) ELSE buffer[s]]
      /\ dropped' = [s \in Streams |->
                        IF s \in S /\ buffer'[s] = buffer[s] THEN dropped[s] + 1 ELSE dropped[s]]
      /\ sent' = sent
    BY Zenon DEF Handle
<1>3. ASSUME NEW s \in Subscribers
      PROVE  got'[s] \in Seq(Nat) /\ got'[s] = IF s \in S THEN Append(got[s], m) ELSE got[s]
    <2>1. got[s] \in Seq(Nat) /\ got'[s] = IF s \in S THEN Append(got[s], m) ELSE got[s]
        BY <1>2 DEF StreamInv, StreamTyped
    <2>2. Append(got[s], m) \in Seq(Nat)
        BY <2>1, AppendProperties
    <2>3. QED
        BY <2>1, <2>2
<1>4. ASSUME NEW s \in Streams
      PROVE  /\ buffer'[s] \in Seq(Nat) /\ dropped'[s] \in Nat
             /\ Honest(got'[s], sent'[s] \o buffer'[s], dropped'[s])
    <2>1. /\ got[s] \in Seq(Nat) /\ sent[s] \in Seq(Nat) /\ buffer[s] \in Seq(Nat) /\ dropped[s] \in Nat
          /\ Honest(got[s], sent[s] \o buffer[s], dropped[s]) /\ s \in Subscribers
        BY <1>1 DEF StreamInv, StreamTyped
    <2>2. /\ buffer'[s] = IF s \in S THEN Push(buffer[s], m) ELSE buffer[s]
          /\ dropped'[s] = IF s \in S /\ buffer'[s] = buffer[s] THEN dropped[s] + 1 ELSE dropped[s]
          /\ sent'[s] = sent[s]
        BY <1>2
    <2>3. CASE s \in S
        <3>1. /\ Push(buffer[s], m) \in Seq(Nat)
              /\ Honest(Append(got[s], m), sent[s] \o Push(buffer[s], m),
                        IF Push(buffer[s], m) = buffer[s] THEN dropped[s] + 1 ELSE dropped[s])
            BY <2>1, PushHonest
        <3>2. /\ buffer'[s] = Push(buffer[s], m) /\ got'[s] = Append(got[s], m)
              /\ dropped'[s] = IF Push(buffer[s], m) = buffer[s] THEN dropped[s] + 1 ELSE dropped[s]
            BY <1>3, <2>1, <2>2, <2>3
        <3>3. dropped'[s] \in Nat
            BY <2>1, <3>2
        <3>4. QED
            BY <2>2, <3>1, <3>2, <3>3
    <2>4. CASE s \notin S
        BY <1>3, <2>1, <2>2, <2>4
    <2>5. QED
        BY <2>3, <2>4
<1>5. /\ got' \in [Subscribers -> Seq(Nat)] /\ buffer' \in [Streams -> Seq(Nat)]
      /\ dropped' \in [Streams -> Nat] /\ sent' \in [Streams -> Seq(Nat)]
    BY <1>2, <1>3, <1>4 DEF StreamInv, StreamTyped
<1>6. QED
    BY <1>4, <1>5 DEF StreamInv, StreamTyped

\* The stream's loop.
LEMMA SendEventHonest ==
    ASSUME StreamInv, NEW s \in Streams, SendEvent(s)
    PROVE  StreamInv'
<1>1. /\ buffer[s] # << >> /\ sent' = [sent EXCEPT ![s] = Append(sent[s], Head(buffer[s]))]
      /\ buffer' = [buffer EXCEPT ![s] = Tail(buffer[s])] /\ got' = got /\ dropped' = dropped
    BY DEF SendEvent
<1>2. sent[s] \in Seq(Nat) /\ buffer[s] \in Seq(Nat)
    BY DEF StreamInv, StreamTyped
<1>3. Head(buffer[s]) \in Nat /\ Tail(buffer[s]) \in Seq(Nat)
    BY <1>1, <1>2, HeadTailProperties
<1>4. Append(sent[s], Head(buffer[s])) \in Seq(Nat)
    BY <1>2, <1>3, AppendProperties
<1>5. Append(sent[s], Head(buffer[s])) \o Tail(buffer[s]) = sent[s] \o buffer[s]
    BY <1>1, <1>2, WholeMove
<1>6. sent' \in [Streams -> Seq(Nat)] /\ buffer' \in [Streams -> Seq(Nat)]
    BY <1>1, <1>3, <1>4 DEF StreamInv, StreamTyped
<1>7. \A o \in Streams : sent'[o] \o buffer'[o] = sent[o] \o buffer[o]
    BY <1>1, <1>5 DEF StreamInv, StreamTyped
<1>8. QED
    BY <1>1, <1>6, <1>7 DEF StreamInv, StreamTyped

----------------------------------------------------------------------------
\* The types of the in-memory broker's state and of the messages published.
Record == [by : Publishers \cup {"server"}, topic : Topics, kind : Kinds]

BrokerTyped ==
    /\ log \in Seq(Record)
    /\ retained \in [Topics -> Nat] /\ \A t \in Topics : retained[t] <= Len(log)
    /\ subs \subseteq Subscribers /\ IsFiniteSet(subs)
    /\ ch \in [Subscribers -> Seq(Nat)] /\ backlog \in [Subscribers -> Seq(Nat)]
    /\ DOMAIN spc = Subscribers
    /\ todo \in [Publishers -> Seq(Subscribers)]
    /\ sending \in [Publishers -> Nat] /\ \A p \in Publishers : sending[p] <= Len(log)
    /\ \A p \in Publishers : sending[p] = 0 <=> todo[p] = << >>
    /\ joined \in [Subscribers -> Nat] /\ \A s \in Subscribers : joined[s] <= Len(log)

\* An order of a finite set has each of its elements once.
LEMMA OrderOf ==
    ASSUME NEW S, IsFiniteSet(S), NEW q \in SetToSeqs(S)
    PROVE  /\ q \in Seq(S) /\ Len(q) \in Nat
           /\ \A i, j \in 1..Len(q) : q[i] = q[j] => i = j
           /\ \A x \in S : \E i \in 1..Len(q) : q[i] = x
<1> DEFINE n == Cardinality(S)
<1>1. n \in Nat
    BY FS_CardinalityType
<1>2. q \in [1..n -> S] /\ \A i, j \in 1..n : i # j => q[i] # q[j]
    BY DEF SetToSeqs
<1> HIDE DEF n
<1>3. q \in Seq(S) /\ Len(q) = n
    BY <1>1, <1>2
<1>4. q \in Injection(1..n, S)
    BY <1>2 DEF Injection, IsInjective
<1>5. IsFiniteSet(1..n) /\ Cardinality(1..n) = n
    BY <1>1, FS_Interval
<1>6. q \in Surjection(1..n, S)
    BY <1>1, <1>4, <1>5, FS_Injection DEF n
<1>7. QED
    BY <1>1, <1>2, <1>3, <1>6 DEF Surjection

\* The messages a subscription finds retained.
Found(f) == {retained[t] : t \in {x \in Topics : MatchFilter(f, x)}} \ {0}

LEMMA FoundFinite ==
    ASSUME BrokerTyped, NEW f
    PROVE  Found(f) \subseteq 1..Len(log) /\ IsFiniteSet(Found(f))
<1>1. Len(log) \in Nat
    BY DEF BrokerTyped
<1>2. Found(f) \subseteq 1..Len(log)
    BY <1>1 DEF Found, BrokerTyped
<1>3. IsFiniteSet(1..Len(log))
    BY <1>1, FS_Interval
<1>4. QED
    BY <1>2, <1>3, FS_Subset

\* Publish, from the lock to the unlock.
LEMMA PublishTyped ==
    ASSUME BrokerTyped, NEW p \in Publishers, NEW m \in Messages[p], Publish(p, m[1], m[2])
    PROVE  BrokerTyped'
<1> DEFINE r == [by |-> p, topic |-> m[1], kind |-> m[2]]
           n == Len(log)
           S == {s \in subs : MatchFilter(filter[s], m[1])}
<1>1. m[1] \in Topics /\ m[2] \in Kinds
    BY MemoryBrokerAssumption
<1>2. r \in Record
    BY <1>1 DEF Record
<1>3. PICK q \in SetToSeqs(S) :
         /\ todo' = [todo EXCEPT ![p] = q]
         /\ sending' = [sending EXCEPT ![p] = IF q = << >> THEN 0 ELSE n + 1]
    BY DEF Publish
<1>4. /\ log' = Append(log, r)
      /\ retained' = [retained EXCEPT ![m[1]] = CASE m[2] = "retain" -> n + 1
                                                  [] m[2] = "clear" -> 0
                                                  [] OTHER -> retained[m[1]]]
      /\ UNCHANGED <<subs, ch, backlog, spc, joined>>
    BY DEF Publish
<1>5. S \subseteq subs /\ subs \subseteq Subscribers /\ IsFiniteSet(S)
    BY FS_Subset DEF BrokerTyped
<1> HIDE DEF r, S
<1>6. q \in Seq(Subscribers)
    <2>1. q \in Seq(S)
        BY <1>5, OrderOf
    <2>2. S \subseteq Subscribers
        BY <1>5
    <2>3. QED
        BY <2>1, <2>2
<1>7. n \in Nat /\ log' \in Seq(Record) /\ Len(log') = n + 1
    BY <1>2, <1>4, AppendProperties DEF BrokerTyped
<1>8. retained' \in [Topics -> Nat] /\ \A t \in Topics : retained'[t] <= n + 1
    <2> DEFINE x == CASE m[2] = "retain" -> n + 1 [] m[2] = "clear" -> 0 [] OTHER -> retained[m[1]]
    <2>1. \A t \in Topics : retained[t] \in Nat /\ retained[t] <= n
        BY DEF BrokerTyped
    <2>2. x = n + 1 \/ x = 0 \/ x = retained[m[1]]
        BY <1>1 DEF Kinds
    <2>3. x \in Nat /\ x <= n + 1
        BY <1>1, <1>7, <2>1, <2>2
    <2> HIDE DEF x
    <2>4. retained' = [retained EXCEPT ![m[1]] = x] /\ retained \in [Topics -> Nat]
        BY <1>4 DEF x, BrokerTyped
    <2>5. \A t \in Topics : retained'[t] = x \/ retained'[t] = retained[t]
        BY <1>1, <2>4
    <2>6. \A t \in Topics : retained'[t] \in Nat /\ retained'[t] <= n + 1
        BY <1>7, <2>1, <2>3, <2>5
    <2>7. QED
        BY <2>4, <2>6
<1>9. /\ sending' \in [Publishers -> Nat] /\ \A o \in Publishers : sending'[o] <= n + 1
      /\ todo' \in [Publishers -> Seq(Subscribers)]
      /\ \A o \in Publishers : sending'[o] = 0 <=> todo'[o] = << >>
    <2>1. \A o \in Publishers : sending[o] \in Nat /\ sending[o] <= n
        BY DEF BrokerTyped
    <2>2. \A o \in Publishers : /\ sending'[o] = IF o = p THEN (IF q = << >> THEN 0 ELSE n + 1) ELSE sending[o]
                                /\ todo'[o] = IF o = p THEN q ELSE todo[o]
        BY <1>3 DEF BrokerTyped
    <2>3. sending' \in [Publishers -> Nat] /\ todo' \in [Publishers -> Seq(Subscribers)]
        BY <1>3, <1>6, <1>7 DEF BrokerTyped
    <2>4. \A o \in Publishers : sending'[o] <= n + 1
        BY <1>7, <2>1, <2>2
    <2>5. \A o \in Publishers : sending'[o] = 0 <=> todo'[o] = << >>
        <3>1. \A o \in Publishers : sending[o] = 0 <=> todo[o] = << >>
            BY DEF BrokerTyped
        <3>2. n + 1 # 0
            BY <1>7
        <3>3. QED
            BY <2>2, <3>1, <3>2
    <2>6. QED
        BY <2>3, <2>4, <2>5
<1>10. \A s \in Subscribers : joined[s] \in Nat /\ joined[s] <= n + 1
    BY <1>7 DEF BrokerTyped
<1>11. QED
    BY <1>4, <1>7, <1>8, <1>9, <1>10 DEF BrokerTyped

\* The next target of a publisher, and the end of its context.
LEMMA SendTyped ==
    ASSUME BrokerTyped, NEW p \in Publishers, Send(p)
    PROVE  /\ BrokerTyped' /\ todo[p] # << >> /\ Head(todo[p]) \in Subscribers
           /\ \A s \in Subscribers : s # Head(todo[p]) => ch'[s] = ch[s]
<1> DEFINE s == Head(todo[p])
<1>1. /\ sending[p] # 0 /\ todo' = [todo EXCEPT ![p] = Tail(todo[p])]
      /\ sending' = [sending EXCEPT ![p] = IF Len(todo[p]) = 1 THEN 0 ELSE sending[p]]
      /\ ch' = [ch EXCEPT ![s] = Append(ch[s], sending[p])] \/ ch' = ch
      /\ UNCHANGED <<log, retained, subs, backlog, spc, joined>>
    BY DEF Send
<1>2. todo[p] # << >> /\ todo[p] \in Seq(Subscribers) /\ sending[p] \in Nat
    BY <1>1 DEF BrokerTyped
<1>3. s \in Subscribers /\ Tail(todo[p]) \in Seq(Subscribers) /\ Len(Tail(todo[p])) = Len(todo[p]) - 1
    BY <1>2, HeadTailProperties
<1> HIDE DEF s
<1>4. ch' \in [Subscribers -> Seq(Nat)] /\ \A o \in Subscribers : o # s => ch'[o] = ch[o]
    <2>1. ch \in [Subscribers -> Seq(Nat)] /\ ch[s] \in Seq(Nat)
        BY <1>3 DEF BrokerTyped
    <2>2. Append(ch[s], sending[p]) \in Seq(Nat)
        BY <1>2, <2>1, AppendProperties
    <2>3. QED
        BY <1>1, <1>3, <2>1, <2>2
<1>5. Tail(todo[p]) = << >> <=> Len(todo[p]) = 1
    <2>1. Len(todo[p]) \in Nat
        BY <1>2
    <2>2. Tail(todo[p]) = << >> <=> Len(Tail(todo[p])) = 0
        BY <1>3, EmptySeq
    <2>3. QED
        BY <1>3, <2>1, <2>2
<1>6. /\ todo' \in [Publishers -> Seq(Subscribers)] /\ sending' \in [Publishers -> Nat]
      /\ \A o \in Publishers : /\ todo'[o] = IF o = p THEN Tail(todo[p]) ELSE todo[o]
                               /\ sending'[o] = IF o = p THEN (IF Len(todo[p]) = 1 THEN 0 ELSE sending[p])
                                                ELSE sending[o]
    BY <1>1, <1>2, <1>3 DEF BrokerTyped
<1>7. \A o \in Publishers : (sending'[o] = 0 <=> todo'[o] = << >>) /\ sending'[o] <= Len(log)
    <2>1. \A o \in Publishers : (sending[o] = 0 <=> todo[o] = << >>) /\ sending[o] <= Len(log)
        BY DEF BrokerTyped
    <2>2. Len(log) \in Nat
        BY DEF BrokerTyped
    <2>3. QED
        BY <1>1, <1>5, <1>6, <2>1, <2>2
<1>8. QED
    BY <1>1, <1>2, <1>3, <1>4, <1>6, <1>7 DEF BrokerTyped, s

LEMMA AbandonTyped ==
    ASSUME BrokerTyped, NEW p \in Publishers, Abandon(p)
    PROVE  BrokerTyped'
<1>1. /\ todo' = [todo EXCEPT ![p] = << >>] /\ sending' = [sending EXCEPT ![p] = 0]
      /\ UNCHANGED <<log, retained, subs, ch, backlog, spc, joined>>
    BY DEF Abandon
<1>2. << >> \in Seq(Subscribers) /\ Len(log) \in Nat
    BY DEF BrokerTyped
<1>3. /\ todo' \in [Publishers -> Seq(Subscribers)] /\ sending' \in [Publishers -> Nat]
      /\ \A o \in Publishers : /\ todo'[o] = IF o = p THEN << >> ELSE todo[o]
                               /\ sending'[o] = IF o = p THEN 0 ELSE sending[o]
    BY <1>1, <1>2 DEF BrokerTyped
<1>4. QED
    BY <1>1, <1>2, <1>3 DEF BrokerTyped

\* Subscribe, from the lock to the unlock.
LEMMA SubscribeTyped ==
    ASSUME BrokerTyped, NEW s \in Subscribers, NEW f, Subscribe(s, f)
    PROVE  BrokerTyped'
<1>1. PICK q \in SetToSeqs(Found(f)) : backlog' = [backlog EXCEPT ![s] = q]
    BY DEF Subscribe, Found
<1>2. /\ subs' = subs \cup {s} /\ spc' = [spc EXCEPT ![s] = "joining"]
      /\ joined' = [joined EXCEPT ![s] = Len(log)]
      /\ UNCHANGED <<log, retained, ch, todo, sending>>
    BY DEF Subscribe
<1>3. Len(log) \in Nat
    BY DEF BrokerTyped
<1>4. q \in Seq(Nat)
    <2>1. q \in Seq(Found(f))
        BY FoundFinite, OrderOf
    <2>2. Found(f) \subseteq Nat
        BY <1>3, FoundFinite
    <2>3. QED
        BY <2>1, <2>2
<1>5. backlog' \in [Subscribers -> Seq(Nat)]
    BY <1>1, <1>4 DEF BrokerTyped
<1>6. subs' \subseteq Subscribers /\ IsFiniteSet(subs')
    BY <1>2, FS_AddElement DEF BrokerTyped
<1>7. joined' \in [Subscribers -> Nat] /\ \A o \in Subscribers : joined'[o] <= Len(log)
    <2>1. \A o \in Subscribers : joined'[o] = Len(log) \/ joined'[o] = joined[o]
        BY <1>2 DEF BrokerTyped
    <2>2. joined' \in [Subscribers -> Nat]
        BY <1>2, <1>3 DEF BrokerTyped
    <2>3. QED
        BY <1>3, <2>1, <2>2 DEF BrokerTyped
<1>8. DOMAIN spc' = Subscribers
    BY <1>2 DEF BrokerTyped
<1>9. QED
    BY <1>2, <1>5, <1>6, <1>7, <1>8 DEF BrokerTyped

\* The goroutine of a subscription, and the end of the subscription.
LEMMA TurnTyped ==
    ASSUME BrokerTyped, StreamInv, NEW s \in Subscribers, Turn(s)
    PROVE  BrokerTyped' /\ StreamInv'
<1>1. /\ UNCHANGED <<log, retained, todo, sending, joined>> /\ {s} \in SUBSET Subscribers
      /\ DOMAIN spc = Subscribers
    BY DEF Turn, BrokerTyped
<1>2. backlog[s] \in Seq(Nat) /\ ch[s] \in Seq(Nat)
    BY DEF BrokerTyped
<1>3. CASE /\ backlog[s] # << >> /\ Handle({s}, Head(backlog[s]))
           /\ backlog' = [backlog EXCEPT ![s] = Tail(backlog[s])]
           /\ UNCHANGED <<ch, subs, dones, spc>>
    <2>1. Head(backlog[s]) \in Nat /\ Tail(backlog[s]) \in Seq(Nat)
        BY <1>2, <1>3, HeadTailProperties
    <2>2. StreamInv'
        BY <1>1, <1>3, <2>1, HandleHonest
    <2>3. backlog' \in [Subscribers -> Seq(Nat)]
        BY <1>3, <2>1 DEF BrokerTyped
    <2>4. QED
        BY <1>1, <1>3, <2>2, <2>3 DEF BrokerTyped
<1>4. CASE /\ ch[s] # << >> /\ Handle({s}, Head(ch[s]))
           /\ ch' = [ch EXCEPT ![s] = Tail(ch[s])]
           /\ UNCHANGED <<backlog, subs, dones, spc>>
    <2>1. Head(ch[s]) \in Nat /\ Tail(ch[s]) \in Seq(Nat)
        BY <1>2, <1>4, HeadTailProperties
    <2>2. StreamInv'
        BY <1>1, <1>4, <2>1, HandleHonest
    <2>3. ch' \in [Subscribers -> Seq(Nat)]
        BY <1>4, <2>1 DEF BrokerTyped
    <2>4. QED
        BY <1>1, <1>4, <2>2, <2>3 DEF BrokerTyped
<1>5. CASE /\ subs' \subseteq subs /\ spc' = [spc EXCEPT ![s] = "ended"]
           /\ UNCHANGED <<backlog, ch, streamVars>>
    <2>1. IsFiniteSet(subs') /\ subs' \subseteq Subscribers /\ DOMAIN spc' = Subscribers
        BY <1>1, <1>5, FS_Subset DEF BrokerTyped
    <2>2. StreamInv'
        BY <1>5 DEF StreamInv, StreamTyped, streamVars
    <2>3. BrokerTyped'
        BY <1>1, <1>5, <2>1 DEF BrokerTyped
    <2>4. QED
        BY <2>2, <2>3
<1>6. QED
    BY <1>3, <1>4, <1>5 DEF Turn, remove

LEMMA RestTyped ==
    ASSUME BrokerTyped,
           \/ \E s \in Subscribers : Start(s) \/ Leave(s)
           \/ BrokerClose
    PROVE  BrokerTyped'
<1>1. /\ UNCHANGED <<log, retained, ch, todo, sending, joined>>
      /\ subs' = subs \/ subs' = {} \/ (\E s \in Subscribers : subs' = subs \ {s})
    BY DEF Start, Leave, BrokerClose, remove
<1>2. subs' \subseteq subs
    BY <1>1
<1>3. IsFiniteSet(subs') /\ subs' \subseteq Subscribers
    BY <1>2, FS_Subset DEF BrokerTyped
<1>4. backlog' = backlog /\ DOMAIN spc' = Subscribers
    BY DEF Start, FirstMessages, Leave, BrokerClose, BrokerTyped
<1>5. QED
    BY <1>1, <1>3, <1>4 DEF BrokerTyped

LEMMA InitHonest == BrokersInit => BrokerTyped /\ StreamInv
<1> SUFFICES ASSUME BrokersInit PROVE BrokerTyped /\ StreamInv
    OBVIOUS
<1>1. /\ log = << >> /\ retained = [t \in Topics |-> 0] /\ subs = {}
      /\ ch = [s \in Subscribers |-> << >>] /\ backlog = ch /\ spc = [s \in Subscribers |-> "new"]
      /\ todo = [p \in Publishers |-> << >>] /\ sending = [p \in Publishers |-> 0]
      /\ joined = [s \in Subscribers |-> 0]
    BY DEF BrokersInit, MemoryBrokerInit
<1>2. /\ got = [s \in Subscribers |-> << >>] /\ buffer = [s \in Streams |-> << >>]
      /\ sent = [s \in Streams |-> << >>] /\ dropped = [s \in Streams |-> 0]
    BY DEF BrokersInit, EventStreamInit
<1>3. IsFiniteSet({})
    BY FS_EmptySet
<1>4. log \in Seq(Record) /\ Len(log) = 0
    BY <1>1
<1>5. BrokerTyped
    BY <1>1, <1>3, <1>4 DEF BrokerTyped
<1>6. Honest(<< >>, << >> \o << >>, 0)
    <2>1. << >> \in Seq(Nat) /\ Len(<< >>) = 0
        OBVIOUS
    <2>2. << >> \o << >> = << >>
        BY <2>1, ConcatEmptySeq
    <2>3. 1..0 = {}
        OBVIOUS
    <2> DEFINE h == [i \in 1..0 |-> 0]
    <2>4. h \in [1..Len(<< >>) -> 1..Len(<< >>)]
        BY <2>1, <2>3
    <2>5. Within(<< >>, << >>)
        BY <2>1, <2>3, <2>4 DEF Within
    <2>6. QED
        BY <2>1, <2>2, <2>5 DEF Honest
<1>7. Streams \subseteq Subscribers
    BY EventStreamAssumption
<1>8. StreamInv
    <2>1. StreamTyped
        BY <1>2 DEF StreamTyped
    <2>2. \A s \in Streams : got[s] = << >> /\ sent[s] = << >> /\ buffer[s] = << >> /\ dropped[s] = 0
        BY <1>2, <1>7
    <2>3. QED
        BY <1>6, <2>1, <2>2 DEF StreamInv
<1>9. QED
    BY <1>5, <1>8

LEMMA NextHonest ==
    MqttInv /\ BrokerTyped /\ StreamInv /\ [BrokersNext]_brokersVars => BrokerTyped' /\ StreamInv'
<1> SUFFICES ASSUME MqttInv, BrokerTyped, StreamInv, [BrokersNext]_brokersVars
             PROVE  BrokerTyped' /\ StreamInv'
    OBVIOUS
<1>1. CASE MemoryNext
    <2>1. UNCHANGED streamVars => StreamInv'
        BY DEF StreamInv, StreamTyped, streamVars
    <2>2. ASSUME NEW p \in Publishers, Abandon(p) PROVE BrokerTyped' /\ StreamInv'
        BY <2>1, <2>2, AbandonTyped DEF Abandon
    <2>3. ASSUME NEW p \in Publishers, NEW m \in Messages[p], Publish(p, m[1], m[2])
          PROVE  BrokerTyped' /\ StreamInv'
        BY <2>1, <2>3, PublishTyped DEF Publish
    <2>4. ASSUME NEW p \in Publishers, Send(p) PROVE BrokerTyped' /\ StreamInv'
        BY <2>1, <2>4, SendTyped DEF Send
    <2>5. ASSUME NEW s \in Subscribers, NEW f \in Filters[s], Subscribe(s, f)
          PROVE  BrokerTyped' /\ StreamInv'
        BY <2>1, <2>5, SubscribeTyped DEF Subscribe
    <2>6. CASE (\E s \in Subscribers : Start(s) \/ Leave(s)) \/ BrokerClose
        <3>1. UNCHANGED streamVars
            BY <2>6 DEF Start, Leave, BrokerClose
        <3>2. QED
            BY <2>1, <2>6, <3>1, RestTyped
    <2>7. QED
        BY <1>1, <2>2, <2>3, <2>4, <2>5, <2>6, TurnTyped DEF MemoryNext, Publishing, Goroutine, Closing
<1>2. CASE MqttNext
    <2>1. UNCHANGED brokerVars
        BY <1>2 DEF MqttNext
    <2>2. CASE UNCHANGED <<log, streamVars>>
        BY <2>1, <2>2 DEF BrokerTyped, brokerVars, StreamInv, StreamTyped, streamVars
    <2>3. ASSUME NEW t \in Topics, onPublish(t)
          PROVE  BrokerTyped' /\ StreamInv'
        <3> DEFINE r == [by |-> "server", topic |-> t, kind |-> "live"]
                   S == {s \in msubs : MatchFilter(filter[s], t)}
        <3>1. log' = Append(log, r) /\ Handle(S, Len(log) + 1)
            BY <2>3 DEF onPublish
        <3>2. r \in Record
            BY DEF Record, Kinds
        <3>3. S \in SUBSET Subscribers
            BY DEF MqttInv
        <3> HIDE DEF r, S
        <3>4. log \in Seq(Record) /\ Len(log) \in Nat
            BY DEF BrokerTyped
        <3>5. log' \in Seq(Record) /\ Len(log') = Len(log) + 1
            BY <3>1, <3>2, <3>4, AppendProperties
        <3>6. Len(log) + 1 \in Nat
            BY <3>4
        <3>7. StreamInv'
            BY <3>1, <3>3, <3>6, HandleHonest
        <3>8. \A x \in Nat : x <= Len(log) => x <= Len(log')
            BY <3>4, <3>5
        <3>9. BrokerTyped'
            BY <2>1, <3>5, <3>8 DEF BrokerTyped, brokerVars
        <3>10. QED
            BY <3>7, <3>9
    <2>4. QED
        BY <1>2, <2>2, <2>3 DEF MqttNext, OnConnectionDown, OnConnectionUp, MqttClose, resubscribe,
           Asked, Unsub, Unsubscribed, MqttSubscribe
<1>3. CASE StreamNext
    <2>1. PICK s \in Streams : SendEvent(s)
        BY <1>3 DEF StreamNext
    <2>2. StreamInv'
        BY <2>1, SendEventHonest
    <2>3. BrokerTyped'
        BY <1>3 DEF StreamNext, BrokerTyped, brokerVars
    <2>4. QED
        BY <2>2, <2>3
<1>4. CASE UNCHANGED brokersVars
    BY <1>4 DEF brokersVars, BrokerTyped, brokerVars, StreamInv, StreamTyped, streamVars
<1>5. QED
    BY <1>1, <1>2, <1>3, <1>4 DEF BrokersNext

\* server.go, stream: what a slow client was sent and will be sent is what its
\* subscription was given, in its order, less as many messages as the count of
\* drops says, with either broker, for any buffer and any number of streams.
THEOREM StreamsAreHonest == BrokersSpec => []StreamHonest
<1>1. MqttInv /\ BrokerTyped /\ StreamInv => StreamHonest
    BY DEF StreamInv, Honest, StreamHonest
<1>2. QED
    BY <1>1, InitCovers, InitHonest, NextCovers, NextHonest, PTL DEF BrokersSpec

-----------------------------------------------------------------------------
\* The in-memory broker (internal/adapters/memory/broker.go) hands every
\* subscription what it is owed, without a gap between the retained and the
\* live messages, for any publishers, subscribers, topics, filters and
\* channel capacities; the MQTT adapter hands on what the server sends, in
\* its order.
\*
\* The argument is about the whole of what a subscription was, and will
\* be, given: got, then backlog, then ch.  A turn of the goroutine leaves
\* it as it is, a send adds the message it no longer has to send.

\* The messages published L hold those retained on topics of f after the first n.
KeptAt(L, f, n) ==
    {i \in 1..n : /\ L[i].kind = "retain" /\ Means(f, L[i].topic)
                  /\ \A j \in (i + 1)..n : L[j].topic = L[i].topic => L[j].kind = "live"}

\* The later messages that s is owed, having subscribed when there were n.
LiveAt(L, f, n, A, s) == {i \in (n + 1)..Len(L) : Means(f, L[i].topic) /\ <<i, s>> \notin A}

\* A subscription is given w, publishers are about to send it the messages of
\* P, F were retained when it subscribed, and it is owed O.
Fine(w, P, F, O, L) ==
    /\ w \in Seq(Nat)
    /\ \A i, j \in 1..Len(w) : w[i] = w[j] => i = j
    /\ \A i, j \in 1..Len(w) : i < j /\ w[j] \in F => w[i] \in F
    /\ \A i, j \in 1..Len(w) :
          i < j /\ w[i] \notin F /\ w[j] \notin F /\ L[w[i]].by = L[w[j]].by => w[i] < w[j]
    /\ P \subseteq Nat
    /\ \A m \in P : m \notin F /\ \A i \in 1..Len(w) : w[i] # m
    /\ \A m \in P : \A i \in 1..Len(w) : w[i] \notin F /\ L[w[i]].by = L[m].by => w[i] < m
    /\ \A m, k \in P : L[m].by = L[k].by => m = k
    /\ ToSet(w) \cup P \subseteq O

\* Nothing it is owed is missing.
Full(w, P, O) == O \subseteq ToSet(w) \cup P

\* v is w with m added.
Longer(v, w, m) == v = Append(w, m)

\* The whole of g, b and c.
Joined(g, b, c) == g \o (b \o c)

LEMMA ToSetOf ==
    ASSUME NEW S, NEW w \in Seq(S)
    PROVE  ToSet(w) \subseteq S /\ \A x : x \in ToSet(w) <=> \E i \in 1..Len(w) : w[i] = x
    BY DEF ToSet

\* A publisher sends a message.
LEMMA FineSend ==
    ASSUME NEW w, NEW P, NEW F, NEW O, NEW L, NEW m \in P, Fine(w, P, F, O, L),
           NEW v, Longer(v, w, m)
    PROVE  Fine(v, P \ {m}, F, O, L) /\ (Full(w, P, O) => Full(v, P \ {m}, O))
<1> DEFINE n == Len(w)
<1>1. w \in Seq(Nat) /\ n \in Nat /\ m \in Nat
    BY DEF Fine
<1>2. v \in Seq(Nat) /\ Len(v) = n + 1 /\ (\A i \in 1..n : v[i] = w[i]) /\ v[n + 1] = m
    BY <1>1, AppendProperties DEF Longer
<1>3. \A i \in 1..(n + 1) : i \in 1..n \/ i = n + 1
    BY <1>1
<1>4. /\ \A x : x \in ToSet(w) <=> \E i \in 1..n : w[i] = x
      /\ \A x : x \in ToSet(v) <=> \E i \in 1..(n + 1) : v[i] = x
    <2>1. \A x : x \in ToSet(w) <=> \E i \in 1..n : w[i] = x
        BY <1>1, ToSetOf
    <2> HIDE DEF n
    <2>2. \A x : x \in ToSet(v) <=> \E i \in 1..Len(v) : v[i] = x
        BY <1>2, ToSetOf
    <2>3. QED
        BY <1>2, <2>1, <2>2
<1> HIDE DEF n
<1>5. \A x : x \in ToSet(v) <=> x \in ToSet(w) \/ x = m
    <2>1. ASSUME NEW x, x \in ToSet(v) PROVE x \in ToSet(w) \/ x = m
        BY <1>2, <1>3, <1>4, <2>1
    <2>2. ASSUME NEW x, x \in ToSet(w) PROVE x \in ToSet(v)
        <3>1. PICK i \in 1..n : w[i] = x
            BY <1>4, <2>2
        <3>2. i \in 1..(n + 1) /\ v[i] = x
            BY <1>1, <1>2, <3>1
        <3>3. QED
            BY <1>4, <3>2
    <2>3. m \in ToSet(v)
        BY <1>1, <1>2, <1>4
    <2>4. QED
        BY <2>1, <2>2, <2>3
<1>6. ToSet(v) \cup (P \ {m}) = ToSet(w) \cup P
    BY <1>5
<1>7. ASSUME NEW i \in 1..(n + 1), NEW j \in 1..(n + 1), v[i] = v[j] PROVE i = j
    <2>1. \A k \in 1..n : w[k] # m
        BY DEF Fine, n
    <2>2. \A k, l \in 1..n : w[k] = w[l] => k = l
        BY DEF Fine, n
    <2>3. QED
        BY <1>2, <1>3, <1>7, <2>1, <2>2
<1>8. ASSUME NEW i \in 1..(n + 1), NEW j \in 1..(n + 1), i < j
      PROVE  /\ v[j] \in F => v[i] \in F
             /\ v[i] \notin F /\ v[j] \notin F /\ L[v[i]].by = L[v[j]].by => v[i] < v[j]
    <2>1. i \in 1..n /\ v[i] = w[i]
        BY <1>1, <1>2, <1>8
    <2>2. CASE j = n + 1
        <3>1. v[j] = m /\ m \notin F
            BY <1>2, <2>2 DEF Fine
        <3>2. w[i] \notin F /\ L[w[i]].by = L[m].by => w[i] < m
            BY <2>1 DEF Fine, n
        <3>3. QED
            BY <2>1, <3>1, <3>2
    <2>3. CASE j \in 1..n
        <3>1. v[j] = w[j]
            BY <1>2, <2>3
        <3>2. /\ w[j] \in F => w[i] \in F
              /\ w[i] \notin F /\ w[j] \notin F /\ L[w[i]].by = L[w[j]].by => w[i] < w[j]
            BY <1>8, <2>1, <2>3 DEF Fine, n
        <3>3. QED
            BY <2>1, <3>1, <3>2
    <2>4. QED
        BY <1>3, <2>2, <2>3
<1>9. ASSUME NEW k \in P \ {m}
      PROVE  /\ k \notin F /\ k \in Nat /\ \A i \in 1..(n + 1) : v[i] # k
             /\ \A i \in 1..(n + 1) : v[i] \notin F /\ L[v[i]].by = L[k].by => v[i] < k
    <2>1. /\ k \notin F /\ k \in Nat /\ L[m].by # L[k].by
          /\ \A i \in 1..n : w[i] # k /\ (w[i] \notin F /\ L[w[i]].by = L[k].by => w[i] < k)
        BY DEF Fine, n
    <2>2. QED
        BY <1>2, <1>3, <2>1
<1>10. (\A k, l \in P : L[k].by = L[l].by => k = l) /\ ToSet(w) \cup P \subseteq O
    BY DEF Fine
<1>11. Fine(v, P \ {m}, F, O, L)
    BY <1>2, <1>6, <1>7, <1>8, <1>9, <1>10 DEF Fine
<1>12. QED
    BY <1>6, <1>11 DEF Full

\* A message will not be sent: its subscription has gone, or its publisher
\* gives up, and then it is not owed either.
LEMMA FineWithout ==
    ASSUME NEW w, NEW P, NEW F, NEW O, NEW L, NEW m, Fine(w, P, F, O, L)
    PROVE  /\ Fine(w, P \ {m}, F, O, L)
           /\ m \in P => Fine(w, P \ {m}, F, O \ {m}, L)
           /\ Full(w, P, O) => Full(w, P \ {m}, O \ {m})
<1>1. Fine(w, P \ {m}, F, O, L)
    BY DEF Fine
<1>2. ASSUME m \in P PROVE ToSet(w) \subseteq O \ {m}
    <2>1. w \in Seq(Nat) /\ ToSet(w) \subseteq O /\ \A i \in 1..Len(w) : w[i] # m
        BY <1>2 DEF Fine
    <2>2. m \notin ToSet(w)
        BY <2>1, ToSetOf
    <2>3. QED
        BY <2>1, <2>2
<1>3. QED
    BY <1>1, <1>2 DEF Fine, Full

\* A message r is published, for a subscription that does not get it and for
\* one that does.
LEMMA FinePublish ==
    ASSUME NEW w, NEW P, NEW F, NEW O, NEW L \in Seq(Record), NEW r \in Record, Fine(w, P, F, O, L),
           O \subseteq 1..Len(L), F \subseteq 1..Len(L)
    PROVE  /\ Fine(w, P, F, O, Append(L, r))
           /\ (\A m \in P : L[m].by # r.by) =>
                 Fine(w, P \cup {Len(L) + 1}, F, O \cup {Len(L) + 1}, Append(L, r))
<1> DEFINE M == Append(L, r)
           n == Len(L)
           z == Len(w)
<1>1. n \in Nat /\ Len(M) = n + 1 /\ (\A i \in 1..n : M[i] = L[i]) /\ M[n + 1] = r
    BY AppendProperties
<1>2. w \in Seq(Nat) /\ z \in Nat /\ P \subseteq 1..n /\ \A i \in 1..z : w[i] \in 1..n
    BY ToSetOf DEF Fine
<1> HIDE DEF M, n, z
<1>3. /\ \A i, j \in 1..z : L[w[i]].by = L[w[j]].by <=> M[w[i]].by = M[w[j]].by
      /\ \A m \in P : \A i \in 1..z : L[w[i]].by = L[m].by <=> M[w[i]].by = M[m].by
      /\ \A m, k \in P : L[m].by = L[k].by <=> M[m].by = M[k].by
    BY <1>1, <1>2
<1>4. Fine(w, P, F, O, M)
    BY <1>3 DEF Fine, z
<1>5. ASSUME \A m \in P : L[m].by # r.by
      PROVE  Fine(w, P \cup {n + 1}, F, O \cup {n + 1}, M)
    <2>1. n + 1 \in Nat /\ n + 1 \notin F /\ \A i \in 1..z : w[i] # n + 1 /\ w[i] < n + 1
        BY <1>1, <1>2 DEF n
    <2>2. \A m, k \in P \cup {n + 1} : M[m].by = M[k].by => m = k
        BY <1>1, <1>2, <1>4, <1>5 DEF Fine
    <2>3. \A m \in P \cup {n + 1} :
             /\ m \notin F /\ \A i \in 1..z : w[i] # m
             /\ \A i \in 1..z : w[i] \notin F /\ M[w[i]].by = M[m].by => w[i] < m
        BY <1>4, <2>1 DEF Fine, z
    <2>4. P \cup {n + 1} \subseteq Nat /\ ToSet(w) \cup (P \cup {n + 1}) \subseteq O \cup {n + 1}
        BY <1>4, <2>1 DEF Fine
    <2>5. QED
        BY <1>4, <2>2, <2>3, <2>4 DEF Fine, z
<1>6. QED
    BY <1>4, <1>5 DEF M, n

\* All a subscription is owed.
OwedAt(L, f, n, A, s) == KeptAt(L, f, n) \cup LiveAt(L, f, n, A, s)

\* What one more message r changes of what a subscription is owed.
LEMMA OwedGrows ==
    ASSUME NEW L \in Seq(Record), NEW r \in Record, NEW k \in Nat, k <= Len(L), NEW f, NEW A, NEW s,
           \A i \in Nat : <<i, s>> \in A => i <= Len(L)
    PROVE  /\ KeptAt(Append(L, r), f, k) = KeptAt(L, f, k)
           /\ OwedAt(Append(L, r), f, k, A, s) =
                 OwedAt(L, f, k, A, s) \cup (IF Means(f, r.topic) THEN {Len(L) + 1} ELSE {})
           /\ OwedAt(L, f, k, A, s) \subseteq 1..Len(L) /\ KeptAt(L, f, k) \subseteq 1..Len(L)
<1> DEFINE M == Append(L, r)
           n == Len(L)
<1>1. n \in Nat /\ Len(M) = n + 1 /\ (\A i \in 1..n : M[i] = L[i]) /\ M[n + 1] = r
    BY AppendProperties
<1> HIDE DEF M
<1>2. \A i \in 1..k : i \in 1..n /\ M[i] = L[i] /\ \A j \in (i + 1)..k : j \in 1..n /\ M[j] = L[j]
    BY <1>1
<1>3. KeptAt(M, f, k) = KeptAt(L, f, k)
    BY <1>2 DEF KeptAt
<1>4. LiveAt(M, f, k, A, s) = LiveAt(L, f, k, A, s) \cup (IF Means(f, r.topic) THEN {n + 1} ELSE {})
    <2>1. \A i : i \in (k + 1)..(n + 1) <=> i \in (k + 1)..n \/ i = n + 1
        BY <1>1
    <2>2. <<n + 1, s>> \notin A
        BY <1>1
    <2>3. \A i \in (k + 1)..n : M[i] = L[i]
        BY <1>1
    <2>4. \A i : i \in LiveAt(M, f, k, A, s) <=>
                    i \in (k + 1)..(n + 1) /\ Means(f, M[i].topic) /\ <<i, s>> \notin A
        BY <1>1 DEF LiveAt
    <2>5. \A i : i \in LiveAt(L, f, k, A, s) <=>
                    i \in (k + 1)..n /\ Means(f, L[i].topic) /\ <<i, s>> \notin A
        BY DEF LiveAt
    <2>6. QED
        BY <1>1, <2>1, <2>2, <2>3, <2>4, <2>5
<1>5. KeptAt(L, f, k) \subseteq 1..n /\ LiveAt(L, f, k, A, s) \subseteq 1..n
    BY <1>1 DEF KeptAt, LiveAt
<1>6. QED
    BY <1>3, <1>4, <1>5 DEF OwedAt, M

\* A subscription that waits for nothing is owed more.
LEMMA FineMore ==
    ASSUME NEW w, NEW P, NEW F, NEW O, NEW Q, NEW L, Fine(w, P, F, O, L), O \subseteq Q
    PROVE  Fine(w, P, F, Q, L)
    BY DEF Fine

----------------------------------------------------------------------------
Whole(s) == Joined(got[s], backlog[s], ch[s])
Pend(s) == {sending[p] : p \in {x \in Publishers : s \in ToSet(todo[x])}}
FirstOf(s) == KeptAt(log, filter[s], joined[s])
OwedTo(s) == OwedAt(log, filter[s], joined[s], abandoned, s)

Given(s) ==
    /\ Fine(Whole(s), Pend(s), FirstOf(s), OwedTo(s), log)
    /\ s \in subs => Full(Whole(s), Pend(s), OwedTo(s))

\* A publisher has each target once; its message is its own.
PublisherInv ==
    \A p \in Publishers : /\ \A i, j \in 1..Len(todo[p]) : todo[p][i] = todo[p][j] => i = j
                          /\ sending[p] # 0 => log[sending[p]].by = p

\* Message i of L is the one retained on topic t.
Holds(L, t, i) ==
    /\ L[i].topic = t /\ L[i].kind = "retain"
    /\ \A j \in (i + 1)..Len(L) : L[j].topic = t => L[j].kind = "live"

RetainedInv == broker = "memory" => \A t \in Topics : \A i \in 1..Len(log) : retained[t] = i <=> Holds(log, t, i)

\* A subscription that has not been made, registered, and gone.
MemberInv ==
    /\ subs \cap dones = {}
    /\ \A s \in subs \cup msubs : ValidateFilter(filter[s])
    /\ \A s \in Subscribers : \A i \in Nat : <<i, s>> \in abandoned => i <= Len(log)
    /\ broker = "memory" =>
          \A s \in Subscribers :
             spc[s] = "new" => Whole(s) = << >> /\ Pend(s) = {} /\ s \notin subs \cup dones

\* With the MQTT adapter the in-memory broker is not there.
MqttModeInv ==
    broker = "mqtt" =>
       /\ subs = {} /\ \A p \in Publishers : todo[p] = << >>
       /\ \A s \in Subscribers : /\ ch[s] = << >> /\ backlog[s] = << >> /\ joined[s] = 0
                                 /\ mst[s] = "new" => got[s] = << >> /\ s \notin msubs

DeliveryInv ==
    /\ \A s \in Subscribers : Given(s)
    /\ PublisherInv /\ RetainedInv /\ MemberInv /\ MqttModeInv

BaseInv == MqttInv /\ BrokerTyped /\ StreamInv

----------------------------------------------------------------------------
\* The messages publishers are about to send to s.
LEMMA PendIs ==
    ASSUME NEW s, NEW m
    PROVE  m \in Pend(s) <=> \E p \in Publishers : s \in ToSet(todo[p]) /\ sending[p] = m
    BY DEF Pend

LEMMA Associative ==
    ASSUME NEW x \in Seq(Nat), NEW y \in Seq(Nat), NEW z \in Seq(Nat)
    PROVE  (x \o y) \o z = x \o (y \o z)
    BY ConcatAssociative, SMTT(60)

\* A turn of the goroutine leaves the whole as it is.
LEMMA TurnWhole ==
    ASSUME NEW g \in Seq(Nat), NEW b \in Seq(Nat), NEW c \in Seq(Nat)
    PROVE  /\ b # << >> => Joined(Append(g, Head(b)), Tail(b), c) = Joined(g, b, c)
           /\ b = << >> /\ c # << >> => Joined(Append(g, Head(c)), b, Tail(c)) = Joined(g, b, c)
<1>1. ASSUME b # << >> PROVE Append(g, Head(b)) \o (Tail(b) \o c) = g \o (b \o c)
    <2>1. Head(b) \in Nat /\ Tail(b) \in Seq(Nat)
        BY <1>1, HeadTailProperties
    <2>2. Append(g, Head(b)) \in Seq(Nat)
        BY <2>1, AppendProperties
    <2>3. Append(g, Head(b)) \o Tail(b) = g \o b
        BY <1>1, WholeMove
    <2>4. (Append(g, Head(b)) \o Tail(b)) \o c = Append(g, Head(b)) \o (Tail(b) \o c)
        BY <2>1, <2>2, Associative, Zenon
    <2>5. (g \o b) \o c = g \o (b \o c)
        BY Associative, Zenon
    <2>6. QED
        BY <2>3, <2>4, <2>5, Zenon
<1>2. ASSUME b = << >>, c # << >> PROVE Append(g, Head(c)) \o (b \o Tail(c)) = g \o (b \o c)
    <2>1. Tail(c) \in Seq(Nat)
        BY <1>2, HeadTailProperties
    <2>2. b \o Tail(c) = Tail(c) /\ b \o c = c
        <3>1. << >> \o Tail(c) = Tail(c) /\ << >> \o c = c
            BY <2>1, ConcatEmptySeq
        <3>2. QED
            BY <1>2, <3>1, Zenon
    <2>3. Append(g, Head(c)) \o Tail(c) = g \o c
        BY <1>2, WholeMove
    <2>4. QED
        BY <2>2, <2>3, Zenon
<1>3. QED
    BY <1>1, <1>2, Zenon DEF Joined

\* A send adds to the whole.
LEMMA SendWhole ==
    ASSUME NEW g \in Seq(Nat), NEW b \in Seq(Nat), NEW c \in Seq(Nat), NEW m \in Nat
    PROVE  Longer(Joined(g, b, Append(c, m)), Joined(g, b, c), m)
<1>1. b \o c \in Seq(Nat)
    BY ConcatProperties
<1>2. b \o Append(c, m) = Append(b \o c, m)
    BY WholeAppend
<1>3. QED
    BY <1>1, <1>2, WholeAppend DEF Longer, Joined

\* What leaves the whole, the pending messages and what is owed as they are.
LEMMA SameGiven ==
    ASSUME NEW s, Given(s), Whole(s)' = Whole(s), Pend(s)' = Pend(s),
           log' = log, filter'[s] = filter[s], joined'[s] = joined[s], abandoned' = abandoned,
           s \in subs' => s \in subs
    PROVE  Given(s)'
<1>1. FirstOf(s)' = FirstOf(s) /\ OwedTo(s)' = OwedTo(s)
    BY DEF FirstOf, OwedTo
<1>2. QED
    BY <1>1 DEF Given

\* A turn of the goroutine.
LEMMA TurnDelivers ==
    ASSUME BaseInv, DeliveryInv, NEW s \in Subscribers, Turn(s), broker = "memory",
           UNCHANGED <<broker, mqttVars>>
    PROVE  DeliveryInv'
<1>1. /\ spc[s] = "running"
      /\ UNCHANGED <<log, filter, retained, todo, sending, joined, abandoned, msubs>>
    BY DEF Turn, mqttVars
<1>2. \A o \in Subscribers : got[o] \in Seq(Nat) /\ backlog[o] \in Seq(Nat) /\ ch[o] \in Seq(Nat)
    BY DEF BaseInv, BrokerTyped, StreamInv, StreamTyped
<1>3. \A o : Pend(o)' = Pend(o)
    BY <1>1 DEF Pend
<1>4. /\ \A o \in Subscribers : Whole(o)' = Whole(o)
      /\ subs' \subseteq subs /\ dones' \subseteq dones \cup {s} /\ subs' \cap dones' = {}
      /\ \A o \in Subscribers : o # s => spc'[o] = spc[o]
      /\ spc'[s] # "new"
    <2>1. backlog \in [Subscribers -> Seq(Nat)] /\ ch \in [Subscribers -> Seq(Nat)] /\ DOMAIN spc = Subscribers
        BY DEF BaseInv, BrokerTyped
    <2>2. subs \cap dones = {}
        BY DEF DeliveryInv, MemberInv
    <2>3. CASE /\ backlog[s] # << >> /\ Handle({s}, Head(backlog[s]))
               /\ backlog' = [backlog EXCEPT ![s] = Tail(backlog[s])]
               /\ UNCHANGED <<ch, subs, dones, spc>>
        <3>1. \A o \in Subscribers : got'[o] = IF o = s THEN Append(got[s], Head(backlog[s])) ELSE got[o]
            BY <2>3 DEF Handle
        <3>2. \A o \in Subscribers : backlog'[o] = IF o = s THEN Tail(backlog[s]) ELSE backlog[o]
            BY <2>1, <2>3
        <3>3. Joined(Append(got[s], Head(backlog[s])), Tail(backlog[s]), ch[s]) = Whole(s)
            BY <1>2, <2>3, TurnWhole DEF Whole
        <3>4. \A o \in Subscribers : Whole(o)' = Whole(o)
            BY <2>3, <3>1, <3>2, <3>3 DEF Whole
        <3>5. QED
            BY <1>1, <2>2, <2>3, <3>4
    <2>4. CASE /\ backlog[s] = << >> /\ ch[s] # << >> /\ Handle({s}, Head(ch[s]))
               /\ ch' = [ch EXCEPT ![s] = Tail(ch[s])]
               /\ UNCHANGED <<backlog, subs, dones, spc>>
        <3>1. \A o \in Subscribers : got'[o] = IF o = s THEN Append(got[s], Head(ch[s])) ELSE got[o]
            BY <2>4 DEF Handle
        <3>2. \A o \in Subscribers : ch'[o] = IF o = s THEN Tail(ch[s]) ELSE ch[o]
            BY <2>1, <2>4
        <3>3. Joined(Append(got[s], Head(ch[s])), backlog[s], Tail(ch[s])) = Whole(s)
            BY <1>2, <2>4, TurnWhole DEF Whole
        <3>4. \A o \in Subscribers : Whole(o)' = Whole(o)
            BY <2>4, <3>1, <3>2, <3>3 DEF Whole
        <3>5. QED
            BY <1>1, <2>2, <2>4, <3>4
    <2>5. CASE /\ (UNCHANGED <<subs, dones>>) \/ (subs' = subs \ {s} /\ dones' = dones \cup {s})
               /\ spc' = [spc EXCEPT ![s] = "ended"]
               /\ UNCHANGED <<backlog, ch, streamVars>>
        <3>1. \A o \in Subscribers : Whole(o)' = Whole(o)
            BY <2>5 DEF Whole, streamVars
        <3>2. QED
            BY <2>1, <2>2, <2>5, <3>1
    <2>6. QED
        BY <2>3, <2>4, <2>5 DEF Turn, remove
<1>5. \A o \in Subscribers : Given(o)'
    BY <1>1, <1>3, <1>4, SameGiven DEF DeliveryInv
<1>6. PublisherInv' /\ RetainedInv'
    BY <1>1 DEF DeliveryInv, PublisherInv, RetainedInv
<1>7. MemberInv'
    BY <1>1, <1>3, <1>4 DEF DeliveryInv, MemberInv
<1>8. QED
    BY <1>5, <1>6, <1>7 DEF DeliveryInv, MqttModeInv

\* Start, and what ends a subscription.
LEMMA RestDelivers ==
    ASSUME BaseInv, DeliveryInv, broker = "memory", UNCHANGED <<broker, mqttVars>>,
           \/ \E s \in Subscribers : Start(s) \/ Leave(s)
           \/ BrokerClose
    PROVE  DeliveryInv'
<1>1. UNCHANGED <<log, filter, got, ch, retained, todo, sending, joined, abandoned, msubs>>
    BY DEF Start, Leave, BrokerClose, mqttVars, streamVars
<1>2. backlog' = backlog
    BY DEF Start, FirstMessages, Leave, BrokerClose, BaseInv, BrokerTyped
<1>3. \A o : Pend(o)' = Pend(o) /\ Whole(o)' = Whole(o)
    BY <1>1, <1>2 DEF Pend, Whole
<1>4. /\ subs' \subseteq subs /\ subs' \cap dones' = {}
      /\ \A o \in Subscribers : spc'[o] = "new" => spc[o] = "new" /\ (o \in dones' => o \in subs \cup dones)
    <2>1. subs \cap dones = {} /\ DOMAIN spc = Subscribers
        BY DEF DeliveryInv, MemberInv, BaseInv, BrokerTyped
    <2>2. ASSUME NEW s \in Subscribers, Start(s)
          PROVE  /\ subs' = subs /\ dones' = dones
                 /\ \A o \in Subscribers : spc'[o] = "new" => spc[o] = "new"
        BY <2>1, <2>2 DEF Start
    <2>3. ASSUME NEW s \in Subscribers, Leave(s)
          PROVE  /\ (subs' = subs /\ dones' = dones) \/ (subs' = subs \ {s} /\ dones' = dones \cup {s})
                 /\ spc' = spc /\ spc[s] = "running"
        BY <2>3 DEF Leave, remove
    <2>4. CASE BrokerClose
        <3>1. (subs' = subs /\ dones' = dones) \/ (subs' = {} /\ dones' = dones \cup subs)
            BY <2>4 DEF BrokerClose
        <3>2. spc' = spc
            BY <2>4 DEF BrokerClose
        <3>3. QED
            BY <2>1, <3>1, <3>2
    <2>5. QED
        BY <2>1, <2>2, <2>3, <2>4
<1>5. \A o \in Subscribers : Given(o)'
    BY <1>1, <1>3, <1>4, SameGiven DEF DeliveryInv
<1>6. PublisherInv' /\ RetainedInv'
    BY <1>1 DEF DeliveryInv, PublisherInv, RetainedInv
<1>7. MemberInv'
    BY <1>1, <1>3, <1>4 DEF DeliveryInv, MemberInv
<1>8. QED
    BY <1>5, <1>6, <1>7 DEF DeliveryInv, MqttModeInv

\* The publishers of the messages pending for s: each has its own.
LEMMA PendOwn ==
    ASSUME BaseInv, PublisherInv, NEW p \in Publishers, NEW o \in Publishers,
           sending[p] # 0, sending[p] = sending[o]
    PROVE  o = p
    BY DEF PublisherInv

\* The select in Publish, for the next target.
LEMMA SendDelivers ==
    ASSUME BaseInv, DeliveryInv, NEW p \in Publishers, Send(p), broker = "memory",
           UNCHANGED <<broker, mqttVars>>
    PROVE  DeliveryInv'
<1>0. PICK s \in Subscribers : s = Head(todo[p])
    BY SendTyped DEF BaseInv
<1> DEFINE m == sending[p]
           q == todo[p]
<1>1. /\ m # 0 /\ todo' = [todo EXCEPT ![p] = Tail(q)]
      /\ sending' = [sending EXCEPT ![p] = IF Len(q) = 1 THEN 0 ELSE m]
      /\ ch' = [ch EXCEPT ![s] = Append(ch[s], m)] \/ (s \in dones /\ ch' = ch)
      /\ UNCHANGED <<log, filter, got, retained, subs, backlog, dones, spc, joined, abandoned, msubs>>
    BY <1>0 DEF Send, mqttVars, streamVars
<1>2. /\ q \in Seq(Subscribers) /\ q # << >> /\ m \in Nat
      /\ \A o \in Subscribers : o # s => ch'[o] = ch[o]
      /\ \A o \in Subscribers : got[o] \in Seq(Nat) /\ backlog[o] \in Seq(Nat) /\ ch[o] \in Seq(Nat)
      /\ todo \in [Publishers -> Seq(Subscribers)] /\ sending \in [Publishers -> Nat]
      /\ ch \in [Subscribers -> Seq(Nat)]
    BY <1>0, SendTyped DEF BaseInv, BrokerTyped, StreamInv, StreamTyped
<1>3. /\ Tail(q) \in Seq(Subscribers) /\ Len(Tail(q)) = Len(q) - 1 /\ Len(q) \in Nat /\ Len(q) >= 1
      /\ s = q[1] /\ \A i \in 1..(Len(q) - 1) : Tail(q)[i] = q[i + 1]
    BY <1>0, <1>2, HeadTailProperties, EmptySeq
<1>4. \A i, j \in 1..Len(q) : q[i] = q[j] => i = j
    BY DEF DeliveryInv, PublisherInv
<1>5. /\ \A x : x \in ToSet(q) <=> \E i \in 1..Len(q) : q[i] = x
      /\ \A x : x \in ToSet(Tail(q)) <=> \E i \in 1..(Len(q) - 1) : Tail(q)[i] = x
    <2>1. \A x : x \in ToSet(q) <=> \E i \in 1..Len(q) : q[i] = x
        BY <1>2, ToSetOf
    <2> DEFINE r == Tail(q)
    <2> HIDE DEF r
    <2>2. r \in Seq(Subscribers) /\ Len(r) = Len(q) - 1
        BY <1>3 DEF r
    <2>3. \A x : x \in ToSet(r) <=> \E i \in 1..Len(r) : r[i] = x
        BY <2>2, ToSetOf
    <2>4. QED
        BY <2>1, <2>2, <2>3, Zenon DEF r
<1> HIDE DEF m, q
<1>6. \A x : x \in ToSet(Tail(q)) <=> x \in ToSet(q) /\ x # s
    <2>1. ASSUME NEW x, x \in ToSet(Tail(q)) PROVE x \in ToSet(q) /\ x # s
        <3>1. PICK i \in 1..(Len(q) - 1) : Tail(q)[i] = x
            BY <1>5, <2>1
        <3>2. i + 1 \in 1..Len(q) /\ q[i + 1] = x /\ i + 1 # 1 /\ 1 \in 1..Len(q)
            BY <1>3, <3>1
        <3>3. QED
            BY <1>3, <1>4, <1>5, <3>2
    <2>2. ASSUME NEW x, x \in ToSet(q), x # s PROVE x \in ToSet(Tail(q))
        <3>1. PICK i \in 1..Len(q) : q[i] = x
            BY <1>5, <2>2
        <3>2. i # 1
            BY <1>3, <2>2, <3>1
        <3>3. i - 1 \in 1..(Len(q) - 1) /\ (i - 1) + 1 = i
            BY <1>3, <3>2
        <3>4. Tail(q)[i - 1] = x
            BY <1>3, <3>1, <3>3
        <3>5. QED
            BY <1>5, <3>3, <3>4
    <2>3. QED
        BY <2>1, <2>2
<1>7. s \in ToSet(q) /\ m \in Pend(s)
    <2>1. s \in ToSet(q)
        BY <1>3, <1>5
    <2>2. QED
        BY <2>1, PendIs DEF m, q
<1>8. \A o \in Publishers : /\ todo'[o] = IF o = p THEN Tail(q) ELSE todo[o]
                            /\ sending'[o] = IF o = p THEN (IF Len(q) = 1 THEN 0 ELSE m) ELSE sending[o]
    BY <1>1, <1>2
<1>9. \A x \in Subscribers : Pend(x)' = IF x = s THEN Pend(s) \ {m} ELSE Pend(x)
    <2>1. \A x, k : k \in Pend(x)' <=> \E o \in Publishers : x \in ToSet(todo'[o]) /\ sending'[o] = k
        BY DEF Pend
    <2>2. \A x, k : k \in Pend(x) <=> \E o \in Publishers : x \in ToSet(todo[o]) /\ sending[o] = k
        BY PendIs
    <2>3. ASSUME NEW x, x \in ToSet(Tail(q)) PROVE sending'[p] = m
        BY <1>3, <1>5, <1>8, <2>3
    <2>4. \A x, k : k \in Pend(x)' <=>
              \/ k = m /\ x \in ToSet(q) /\ x # s
              \/ \E o \in Publishers : o # p /\ x \in ToSet(todo[o]) /\ sending[o] = k
        BY <1>6, <1>8, <2>1, <2>3
    <2>5. \A x, k : k \in Pend(x) <=>
              \/ k = m /\ x \in ToSet(q)
              \/ \E o \in Publishers : o # p /\ x \in ToSet(todo[o]) /\ sending[o] = k
        BY <2>2 DEF m, q
    <2>6. \A o \in Publishers : o # p => sending[o] # m
        BY <1>1, PendOwn DEF m, DeliveryInv
    <2>7. ASSUME NEW x \in Subscribers, x # s PROVE Pend(x)' = Pend(x)
        <3>1. \A k : k \in Pend(x)' <=> k \in Pend(x)
            BY <2>4, <2>5, <2>7, Zenon
        <3>2. QED
            BY <3>1
    <2>8. \A k : k \in Pend(s)' <=> k \in Pend(s) /\ k # m
        BY <2>4, <2>5, <2>6
    <2>9. Pend(s)' = Pend(s) \ {m}
        BY <2>8
    <2>10. QED
        BY <2>7, <2>9
<1>10. ASSUME NEW o \in Subscribers PROVE Given(o)'
    <2>1. Given(o)
        BY DEF DeliveryInv
    <2>2. CASE o # s
        <3>1. Whole(o)' = Whole(o)
            BY <1>1, <1>2, <2>2 DEF Whole
        <3>2. Pend(o)' = Pend(o)
            BY <1>9, <2>2
        <3>3. QED
            BY <1>1, <2>1, <3>1, <3>2, SameGiven
    <2>3. CASE o = s
        <3>1. FirstOf(s)' = FirstOf(s) /\ OwedTo(s)' = OwedTo(s)
            BY <1>1 DEF FirstOf, OwedTo
        <3>2. Pend(s)' = Pend(s) \ {m}
            BY <1>2, <1>9
        <3>3. Fine(Whole(s), Pend(s), FirstOf(s), OwedTo(s), log)
            BY <2>1, <2>3 DEF Given
        <3>4. CASE ch' = [ch EXCEPT ![s] = Append(ch[s], m)]
            <4>1. Whole(s)' = Joined(got[s], backlog[s], Append(ch[s], m))
                BY <1>1, <1>2, <3>4 DEF Whole
            <4>2. Longer(Whole(s)', Whole(s), m)
                BY <1>2, <4>1, SendWhole DEF Whole
            <4>3. /\ Fine(Whole(s)', Pend(s) \ {m}, FirstOf(s), OwedTo(s), log)
                  /\ Full(Whole(s), Pend(s), OwedTo(s)) => Full(Whole(s)', Pend(s) \ {m}, OwedTo(s))
                BY <1>7, <3>3, <4>2, FineSend
            <4>4. QED
                BY <1>1, <2>1, <2>3, <3>1, <3>2, <4>3 DEF Given
        <3>5. CASE s \in dones /\ ch' = ch
            <4>1. Whole(s)' = Whole(s)
                BY <1>1, <3>5 DEF Whole
            <4>2. s \notin subs
                BY <3>5 DEF DeliveryInv, MemberInv
            <4>3. Fine(Whole(s), Pend(s) \ {m}, FirstOf(s), OwedTo(s), log)
                BY <3>3, FineWithout
            <4>4. QED
                BY <1>1, <2>3, <3>1, <3>2, <4>1, <4>2, <4>3 DEF Given
        <3>6. QED
            BY <1>1, <3>4, <3>5
    <2>4. QED
        BY <2>2, <2>3
<1>11. PublisherInv'
    <2>1. \A i, j \in 1..(Len(q) - 1) : Tail(q)[i] = Tail(q)[j] => i = j
        <3>1. \A i \in 1..(Len(q) - 1) : i + 1 \in 1..Len(q) /\ Tail(q)[i] = q[i + 1]
            BY <1>3
        <3>2. QED
            BY <1>4, <3>1
    <2>2. PublisherInv
        BY DEF DeliveryInv
    <2>3. ASSUME NEW o \in Publishers
          PROVE  /\ \A i, j \in 1..Len(todo'[o]) : todo'[o][i] = todo'[o][j] => i = j
                 /\ sending'[o] # 0 => log[sending'[o]].by = o
        <3>1. CASE o = p
            <4>1. todo'[o] = Tail(q) /\ (sending'[o] # 0 => sending'[o] = sending[p])
                BY <1>8, <3>1 DEF m
            <4>2. QED
                BY <1>3, <2>1, <2>2, <3>1, <4>1 DEF PublisherInv
        <3>2. CASE o # p
            BY <1>8, <2>2, <3>2 DEF PublisherInv
        <3>3. QED
            BY <3>1, <3>2
    <2>4. QED
        BY <1>1, <2>3 DEF PublisherInv
<1>12. MemberInv'
    <2>1. MemberInv
        BY DEF DeliveryInv
    <2>2. ASSUME NEW o \in Subscribers, spc[o] = "new"
          PROVE  Whole(o)' = << >> /\ Pend(o)' = {} /\ o \notin subs \cup dones
        <3>1. Pend(o) = {} /\ Whole(o) = << >> /\ o \notin subs \cup dones
            BY <2>1, <2>2 DEF MemberInv
        <3>2. o # s
            BY <1>7, <3>1
        <3>3. Whole(o)' = Whole(o) /\ Pend(o)' = Pend(o)
            BY <1>1, <1>2, <1>9, <3>2 DEF Whole
        <3>4. QED
            BY <3>1, <3>3
    <2>3. QED
        BY <1>1, <2>1, <2>2 DEF MemberInv
<1>13. RetainedInv'
    BY <1>1 DEF DeliveryInv, RetainedInv
<1>14. QED
    BY <1>10, <1>11, <1>12, <1>13 DEF DeliveryInv, MqttModeInv

\* The publisher's context ends.
LEMMA AbandonDelivers ==
    ASSUME BaseInv, DeliveryInv, NEW p \in Publishers, Abandon(p), broker = "memory",
           UNCHANGED <<broker, mqttVars>>
    PROVE  DeliveryInv'
<1> DEFINE m == sending[p]
           T == ToSet(todo[p])
<1>1. /\ m # 0 /\ todo' = [todo EXCEPT ![p] = << >>] /\ sending' = [sending EXCEPT ![p] = 0]
      /\ abandoned' = abandoned \cup {<<m, x>> : x \in T}
      /\ UNCHANGED <<log, filter, got, retained, subs, ch, backlog, dones, spc, joined, msubs>>
    BY DEF Abandon, mqttVars, streamVars
<1>2. /\ todo \in [Publishers -> Seq(Subscribers)] /\ sending \in [Publishers -> Nat]
      /\ m \in Nat /\ m <= Len(log)
    BY DEF BaseInv, BrokerTyped
<1>3. \A o \in Publishers : /\ todo'[o] = IF o = p THEN << >> ELSE todo[o]
                            /\ sending'[o] = IF o = p THEN 0 ELSE sending[o]
    BY <1>1, <1>2
<1>4. \A x : x \notin ToSet(<< >>)
    BY DEF ToSet
<1>5. \A o \in Publishers : o # p => sending[o] # m
    BY <1>1, PendOwn DEF DeliveryInv
<1>6. \A x, k : k \in Pend(x) <=>
          \/ k = m /\ x \in T
          \/ \E o \in Publishers : o # p /\ x \in ToSet(todo[o]) /\ sending[o] = k
    BY PendIs
<1>7. \A x, k : k \in Pend(x)' <=>
          \E o \in Publishers : o # p /\ x \in ToSet(todo[o]) /\ sending[o] = k
    <2>1. \A x, k : k \in Pend(x)' <=> \E o \in Publishers : x \in ToSet(todo'[o]) /\ sending'[o] = k
        BY DEF Pend
    <2>2. QED
        BY <1>3, <1>4, <2>1
<1> HIDE DEF m, T
<1>8. ASSUME NEW x \in Subscribers PROVE Given(x)' /\ Whole(x)' = Whole(x) /\ Pend(x)' \subseteq Pend(x)
    <2>1. Whole(x)' = Whole(x)
        BY <1>1 DEF Whole
    <2>2. Given(x)
        BY DEF DeliveryInv
    <2>3. CASE x \in T
        <3>1. \A k : k \in Pend(x)' <=> k \in Pend(x) /\ k # m
            BY <1>5, <1>6, <1>7
        <3>2. Pend(x)' = Pend(x) \ {m} /\ m \in Pend(x)
            BY <1>6, <2>3, <3>1
        <3>3. Fine(Whole(x), Pend(x), FirstOf(x), OwedTo(x), log) /\ m \notin FirstOf(x)
            BY <2>2, <3>2 DEF Given, Fine
        <3>4. FirstOf(x)' = FirstOf(x) /\ OwedTo(x)' = OwedTo(x) \ {m}
            <4>1. FirstOf(x)' = FirstOf(x)
                BY <1>1 DEF FirstOf
            <4>2. \A i : <<i, x>> \in abandoned' <=> <<i, x>> \in abandoned \/ i = m
                BY <1>1, <2>3
            <4>3. LiveAt(log, filter[x], joined[x], abandoned', x) =
                  LiveAt(log, filter[x], joined[x], abandoned, x) \ {m}
                BY <4>2 DEF LiveAt
            <4>4. QED
                BY <1>1, <3>3, <4>1, <4>3 DEF OwedTo, OwedAt, FirstOf
        <3>5. /\ Fine(Whole(x), Pend(x) \ {m}, FirstOf(x), OwedTo(x) \ {m}, log)
              /\ Full(Whole(x), Pend(x), OwedTo(x)) => Full(Whole(x), Pend(x) \ {m}, OwedTo(x) \ {m})
            BY <3>2, <3>3, FineWithout
        <3>6. QED
            BY <1>1, <2>1, <2>2, <3>2, <3>4, <3>5 DEF Given
    <2>4. CASE x \notin T
        <3>1. \A k : k \in Pend(x)' <=> k \in Pend(x)
            BY <1>6, <1>7, <2>4
        <3>2. Pend(x)' = Pend(x)
            BY <3>1
        <3>3. FirstOf(x)' = FirstOf(x)
            BY <1>1 DEF FirstOf
        <3>4. OwedTo(x)' = OwedTo(x)
            <4>1. \A i : <<i, x>> \in abandoned' <=> <<i, x>> \in abandoned
                BY <1>1, <2>4
            <4>2. LiveAt(log, filter[x], joined[x], abandoned', x) =
                  LiveAt(log, filter[x], joined[x], abandoned, x)
                BY <4>1 DEF LiveAt
            <4>3. QED
                BY <1>1, <4>2 DEF OwedTo, OwedAt
        <3>5. QED
            BY <1>1, <2>1, <2>2, <3>2, <3>3, <3>4 DEF Given
    <2>5. QED
        BY <2>3, <2>4
<1>9. PublisherInv'
    <2>1. PublisherInv /\ Len(<< >>) = 0
        BY DEF DeliveryInv
    <2>2. QED
        BY <1>1, <1>3, <2>1 DEF PublisherInv
<1>10. MemberInv'
    <2>1. MemberInv
        BY DEF DeliveryInv
    <2>2. \A x \in Subscribers : \A i \in Nat : <<i, x>> \in abandoned' => i <= Len(log)
        BY <1>1, <1>2, <2>1 DEF MemberInv
    <2>3. QED
        BY <1>1, <1>8, <2>1, <2>2 DEF MemberInv
<1>11. RetainedInv'
    BY <1>1 DEF DeliveryInv, RetainedInv
<1>12. QED
    BY <1>8, <1>9, <1>10, <1>11 DEF DeliveryInv, MqttModeInv

\* One more message, and which one a topic holds.
LEMMA HoldsGrows ==
    ASSUME NEW L \in Seq(Record), NEW r \in Record, NEW t, NEW M, Longer(M, L, r)
    PROVE  /\ \A i \in 1..Len(L) :
                 Holds(M, t, i) <=> Holds(L, t, i) /\ (r.topic = t => r.kind = "live")
           /\ Holds(M, t, Len(L) + 1) <=> r.topic = t /\ r.kind = "retain"
<1> DEFINE n == Len(L)
<1>1. n \in Nat /\ Len(M) = n + 1 /\ (\A i \in 1..n : M[i] = L[i]) /\ M[n + 1] = r
    BY AppendProperties DEF Longer
<1> HIDE DEF n
<1>2. ASSUME NEW i \in 1..n
      PROVE  Holds(M, t, i) <=> Holds(L, t, i) /\ (r.topic = t => r.kind = "live")
    <2>1. \A j : j \in (i + 1)..(n + 1) <=> j \in (i + 1)..n \/ j = n + 1
        BY <1>1
    <2>2. \A j \in (i + 1)..n : M[j] = L[j]
        BY <1>1
    <2>3. QED
        BY <1>1, <2>1, <2>2 DEF Holds, n
<1>3. Holds(M, t, n + 1) <=> r.topic = t /\ r.kind = "retain"
    <2>1. (n + 1 + 1)..(n + 1) = {}
        BY <1>1
    <2>2. QED
        BY <1>1, <2>1 DEF Holds
<1>4. QED
    BY <1>2, <1>3 DEF n

\* A filter that Subscribe accepted matches what it means.
LEMMA RegisteredMeans ==
    ASSUME BaseInv, DeliveryInv, NEW s \in subs \cup msubs, NEW t \in Topics
    PROVE  MatchFilter(filter[s], t) <=> Means(filter[s], t)
<1>1. ValidateFilter(filter[s]) /\ filter[s] \in Seq(Segments) /\ t \in Seq(Segments)
    BY EventStreamAssumption DEF DeliveryInv, MemberInv, BaseInv, MqttInv, BrokerTyped
<1>2. QED
    BY <1>1, MatchesWhatItMeans

\* What one more message changes for a subscription that publishers may
\* be about to send to, whether it is sent to it or not.
LEMMA PublishGiven ==
    ASSUME BaseInv, DeliveryInv, NEW x \in Subscribers, NEW r \in Record, log' = Append(log, r),
           UNCHANGED <<filter, joined, abandoned, subs>>, Whole(x)' = Whole(x),
           \A m \in Pend(x) : log[m].by # r.by,
           \/ Pend(x)' = Pend(x) \cup {Len(log) + 1} /\ Means(filter[x], r.topic)
           \/ Pend(x)' = Pend(x) /\ (x \in subs => ~Means(filter[x], r.topic))
    PROVE  Given(x)'
<1> DEFINE n == Len(log)
<1>1. log \in Seq(Record) /\ joined[x] \in Nat /\ joined[x] <= n
    BY DEF BaseInv, BrokerTyped
<1>2. \A i \in Nat : <<i, x>> \in abandoned => i <= n
    BY DEF DeliveryInv, MemberInv
<1>3. /\ KeptAt(Append(log, r), filter[x], joined[x]) = KeptAt(log, filter[x], joined[x])
      /\ OwedAt(Append(log, r), filter[x], joined[x], abandoned, x) =
            OwedAt(log, filter[x], joined[x], abandoned, x)
                \cup (IF Means(filter[x], r.topic) THEN {n + 1} ELSE {})
      /\ OwedAt(log, filter[x], joined[x], abandoned, x) \subseteq 1..n
      /\ KeptAt(log, filter[x], joined[x]) \subseteq 1..n
    BY <1>1, <1>2, OwedGrows
<1>4. /\ FirstOf(x)' = FirstOf(x) /\ FirstOf(x) \subseteq 1..n /\ OwedTo(x) \subseteq 1..n
      /\ OwedTo(x)' = OwedTo(x) \cup (IF Means(filter[x], r.topic) THEN {n + 1} ELSE {})
    BY <1>3 DEF FirstOf, OwedTo
<1>5. Fine(Whole(x), Pend(x), FirstOf(x), OwedTo(x), log)
      /\ (x \in subs => Full(Whole(x), Pend(x), OwedTo(x)))
    BY DEF DeliveryInv, Given
<1>6. /\ Fine(Whole(x), Pend(x), FirstOf(x), OwedTo(x), log')
      /\ Fine(Whole(x), Pend(x) \cup {n + 1}, FirstOf(x), OwedTo(x) \cup {n + 1}, log')
    BY <1>1, <1>4, <1>5, FinePublish
<1>7. CASE Pend(x)' = Pend(x) \cup {n + 1} /\ Means(filter[x], r.topic)
    <2>1. OwedTo(x)' = OwedTo(x) \cup {n + 1}
        BY <1>4, <1>7
    <2>2. Full(Whole(x), Pend(x), OwedTo(x)) => Full(Whole(x), Pend(x) \cup {n + 1}, OwedTo(x) \cup {n + 1})
        BY DEF Full
    <2>3. QED
        BY <1>4, <1>5, <1>6, <1>7, <2>1, <2>2 DEF Given
<1>8. CASE Pend(x)' = Pend(x) /\ (x \in subs => ~Means(filter[x], r.topic))
    <2>1. OwedTo(x) \subseteq OwedTo(x)' /\ (x \in subs => OwedTo(x)' = OwedTo(x))
        BY <1>4, <1>8
    <2>2. Fine(Whole(x), Pend(x), FirstOf(x), OwedTo(x)', log')
        BY <1>6, <2>1, FineMore
    <2>3. QED
        BY <1>4, <1>5, <1>8, <2>1, <2>2 DEF Given
<1>9. QED
    BY <1>7, <1>8

\* Publish, up to the unlock.
LEMMA PublishDelivers ==
    ASSUME BaseInv, DeliveryInv, NEW p \in Publishers, NEW m \in Messages[p], Publish(p, m[1], m[2]),
           broker = "memory", UNCHANGED <<broker, mqttVars>>
    PROVE  DeliveryInv'
<1> DEFINE r == [by |-> p, topic |-> m[1], kind |-> m[2]]
           n == Len(log)
           S == {s \in subs : MatchFilter(filter[s], m[1])}
<1>1. m[1] \in Topics /\ m[2] \in Kinds
    BY MemoryBrokerAssumption
<1>2. r \in Record /\ r.by = p /\ r.topic = m[1] /\ r.kind = m[2]
    BY <1>1 DEF Record
<1>3. PICK q \in SetToSeqs(S) :
         /\ todo' = [todo EXCEPT ![p] = q]
         /\ sending' = [sending EXCEPT ![p] = IF q = << >> THEN 0 ELSE n + 1]
    BY DEF Publish
<1>4. /\ sending[p] = 0 /\ log' = Append(log, r)
      /\ retained' = [retained EXCEPT ![m[1]] = CASE m[2] = "retain" -> n + 1
                                                  [] m[2] = "clear" -> 0
                                                  [] OTHER -> retained[m[1]]]
      /\ UNCHANGED <<filter, got, subs, ch, backlog, dones, spc, joined, abandoned, msubs>>
    BY DEF Publish, mqttVars, streamVars
<1>5. /\ n \in Nat /\ todo[p] = << >> /\ todo \in [Publishers -> Seq(Subscribers)]
      /\ sending \in [Publishers -> Nat] /\ \A o \in Publishers : sending[o] <= n
      /\ log \in Seq(Record) /\ subs \subseteq Subscribers
      /\ retained \in [Topics -> Nat] /\ \A t \in Topics : retained[t] <= n
    BY <1>4 DEF BaseInv, BrokerTyped
<1>6. IsFiniteSet(S) /\ \A s : s \in S <=> s \in subs /\ MatchFilter(filter[s], m[1])
    BY FS_Subset DEF BaseInv, BrokerTyped
<1> HIDE DEF r, S
<1>7. /\ q \in Seq(S) /\ Len(q) \in Nat
      /\ \A i, j \in 1..Len(q) : q[i] = q[j] => i = j
      /\ \A s : s \in ToSet(q) <=> s \in S
    <2>1. /\ q \in Seq(S) /\ Len(q) \in Nat
          /\ \A i, j \in 1..Len(q) : q[i] = q[j] => i = j
          /\ \A s \in S : \E i \in 1..Len(q) : q[i] = s
        BY <1>6, OrderOf, Zenon
    <2>2. QED
        BY <2>1, ToSetOf
<1>8. /\ Len(log') = n + 1 /\ (\A i \in 1..n : log'[i] = log[i]) /\ log'[n + 1] = r
    BY <1>2, <1>4, <1>5, AppendProperties
<1>9. \A o \in Publishers : /\ todo'[o] = IF o = p THEN q ELSE todo[o]
                            /\ sending'[o] = IF o = p THEN (IF q = << >> THEN 0 ELSE n + 1) ELSE sending[o]
    BY <1>3, <1>5
<1>10. ASSUME NEW x \in Subscribers
       PROVE  Pend(x)' = IF x \in S THEN Pend(x) \cup {n + 1} ELSE Pend(x)
    <2>1. \A k : k \in Pend(x)' <=> \E o \in Publishers : x \in ToSet(todo'[o]) /\ sending'[o] = k
        BY DEF Pend
    <2>2. \A k : k \in Pend(x) <=> \E o \in Publishers : o # p /\ x \in ToSet(todo[o]) /\ sending[o] = k
        <3>1. \A y : y \notin ToSet(<< >>)
            BY DEF ToSet
        <3>2. QED
            BY <1>5, <3>1, PendIs
    <2>3. x \in S => q # << >>
        BY <1>7 DEF ToSet
    <2>4. \A k : k \in Pend(x)' <=> (k = n + 1 /\ x \in S) \/ k \in Pend(x)
        BY <1>7, <1>9, <2>1, <2>2, <2>3
    <2>5. QED
        BY <2>4
<1>11. ASSUME NEW x \in Subscribers PROVE Whole(x)' = Whole(x) /\ Given(x)'
    <2>1. Whole(x)' = Whole(x)
        BY <1>4 DEF Whole
    <2>2. \A k \in Pend(x) : log[k].by # r.by
        <3>1. ASSUME NEW k \in Pend(x) PROVE log[k].by # p
            <4>1. PICK o \in Publishers : x \in ToSet(todo[o]) /\ sending[o] = k
                BY PendIs
            <4>2. todo[o] # << >>
                BY <4>1 DEF ToSet
            <4>3. k # 0 /\ o # p
                BY <1>5, <4>1, <4>2 DEF BaseInv, BrokerTyped
            <4>4. QED
                BY <4>1, <4>3 DEF DeliveryInv, PublisherInv
        <3>2. QED
            BY <1>2, <3>1
    <2>3. x \in subs => (x \in S <=> Means(filter[x], r.topic))
        BY <1>1, <1>2, <1>6, RegisteredMeans
    <2>4. CASE x \in S
        <3>1. Pend(x)' = Pend(x) \cup {n + 1} /\ Means(filter[x], r.topic)
            BY <1>6, <1>10, <2>3, <2>4
        <3>2. QED
            BY <1>2, <1>4, <2>1, <2>2, <3>1, PublishGiven
    <2>5. CASE x \notin S
        <3>1. Pend(x)' = Pend(x) /\ (x \in subs => ~Means(filter[x], r.topic))
            BY <1>10, <2>3, <2>5
        <3>2. QED
            BY <1>2, <1>4, <2>1, <2>2, <3>1, PublishGiven
    <2>6. QED
        BY <2>1, <2>4, <2>5
<1>12. PublisherInv'
    <2>1. ASSUME NEW o \in Publishers
          PROVE  /\ \A i, j \in 1..Len(todo'[o]) : todo'[o][i] = todo'[o][j] => i = j
                 /\ sending'[o] # 0 => log'[sending'[o]].by = o
        <3>1. CASE o = p
            BY <1>2, <1>7, <1>8, <1>9, <3>1
        <3>2. CASE o # p
            <4>1. todo'[o] = todo[o] /\ sending'[o] = sending[o]
                BY <1>9, <3>2
            <4>2. sending[o] # 0 => sending[o] \in 1..n
                BY <1>5
            <4>3. QED
                BY <1>8, <4>1, <4>2 DEF DeliveryInv, PublisherInv
        <3>3. QED
            BY <3>1, <3>2
    <2>2. QED
        BY <2>1 DEF PublisherInv
<1>13. RetainedInv'
    <2>1. ASSUME NEW t \in Topics, NEW i \in 1..(n + 1)
          PROVE  retained'[t] = i <=> Holds(log', t, i)
        <3>1. /\ i \in 1..n => (Holds(log', t, i) <=> Holds(log, t, i) /\ (m[1] = t => m[2] = "live"))
              /\ Holds(log', t, n + 1) <=> m[1] = t /\ m[2] = "retain"
            <4>1. Longer(log', log, r)
                BY <1>4 DEF Longer
            <4>2. log \in Seq(Record) /\ r \in Record
                BY <1>2, <1>5
            <4>3. /\ i \in 1..Len(log) =>
                        (Holds(log', t, i) <=> Holds(log, t, i) /\ (r.topic = t => r.kind = "live"))
                  /\ Holds(log', t, Len(log) + 1) <=> r.topic = t /\ r.kind = "retain"
                BY <4>1, <4>2, HoldsGrows
            <4>4. QED
                BY <1>2, <4>3
        <3>2. i \in 1..n => (retained[t] = i <=> Holds(log, t, i))
            BY DEF DeliveryInv, RetainedInv
        <3>3. retained[t] \in Nat /\ retained[t] <= n /\ (i \in 1..n \/ i = n + 1)
            <4>1. n \in Nat => (i \in 1..n \/ i = n + 1)
                OBVIOUS
            <4>2. retained[t] \in Nat /\ retained[t] <= n
                BY <1>5
            <4>3. QED
                BY <1>5, <4>1, <4>2
        <3>4. CASE m[1] # t
            <4>1. retained'[t] = retained[t]
                BY <1>1, <1>4, <1>5, <3>4
            <4>2. QED
                BY <1>5, <3>1, <3>2, <3>3, <3>4, <4>1
        <3>5. CASE m[1] = t
            <4>1. retained'[t] = CASE m[2] = "retain" -> n + 1 [] m[2] = "clear" -> 0 [] OTHER -> retained[t]
                BY <1>1, <1>4, <1>5, <3>5
            <4>2. CASE m[2] = "retain"
                <5>1. retained'[t] = n + 1
                    BY <4>1, <4>2
                <5>2. QED
                    BY <1>5, <3>1, <3>3, <3>5, <4>2, <5>1
            <4>3. CASE m[2] = "clear"
                <5>1. retained'[t] = 0
                    BY <4>1, <4>3
                <5>2. QED
                    BY <1>5, <3>1, <3>3, <3>5, <4>3, <5>1
            <4>4. CASE m[2] = "live"
                <5>1. retained'[t] = retained[t]
                    BY <4>1, <4>4
                <5>2. QED
                    BY <1>5, <3>1, <3>2, <3>3, <3>5, <4>4, <5>1
            <4>5. QED
                BY <1>1, <4>2, <4>3, <4>4 DEF Kinds
        <3>6. QED
            BY <3>4, <3>5
    <2>2. QED
        BY <1>8, <2>1 DEF RetainedInv
<1>14. MemberInv'
    <2>1. MemberInv
        BY DEF DeliveryInv
    <2>2. \A x \in Subscribers : \A i \in Nat : <<i, x>> \in abandoned => i <= n + 1
        <3>1. \A x \in Subscribers : \A i \in Nat : <<i, x>> \in abandoned => i <= n
            BY <2>1 DEF MemberInv
        <3>2. n \in Nat => \A i \in Nat : i <= n => i <= n + 1
            OBVIOUS
        <3>3. QED
            BY <1>5, <3>1, <3>2
    <2>3. \A x \in Subscribers : x \notin subs => Pend(x)' = Pend(x)
        BY <1>6, <1>10
    <2>4. QED
        BY <1>4, <1>8, <1>11, <2>1, <2>2, <2>3 DEF MemberInv
<1>15. QED
    BY <1>11, <1>12, <1>13, <1>14 DEF DeliveryInv, MqttModeInv

\* What Subscribe finds retained is what is retained.
LEMMA FoundIsKept ==
    ASSUME BaseInv, RetainedInv, broker = "memory", NEW f \in Seq(Segments), ValidateFilter(f)
    PROVE  Found(f) = KeptAt(log, f, Len(log))
<1> DEFINE n == Len(log)
<1>1. /\ n \in Nat /\ log \in Seq(Record) /\ retained \in [Topics -> Nat]
      /\ \A t \in Topics : retained[t] <= n
    BY DEF BaseInv, BrokerTyped
<1>2. \A t \in Topics : MatchFilter(f, t) <=> Means(f, t)
    <2>1. \A t \in Topics : t \in Seq(Segments)
        BY EventStreamAssumption
    <2>2. QED
        BY <2>1, MatchesWhatItMeans
<1>3. \A i \in 1..n : log[i].topic \in Topics
    <2>1. \A i \in 1..n : log[i] \in Record
        BY <1>1
    <2>2. QED
        BY <2>1 DEF Record
<1>4. \A t \in Topics : \A i \in 1..n : retained[t] = i <=> Holds(log, t, i)
    BY DEF RetainedInv
<1>5. \A i : i \in Found(f) <=> i # 0 /\ \E t \in Topics : retained[t] = i /\ Means(f, t)
    BY <1>2 DEF Found
<1>6. \A i : i \in KeptAt(log, f, n) <=>
                i \in 1..n /\ Means(f, log[i].topic) /\ Holds(log, log[i].topic, i)
    BY DEF KeptAt, Holds
<1>7. ASSUME NEW i, i \in Found(f) PROVE i \in KeptAt(log, f, n)
    <2>1. PICK t \in Topics : retained[t] = i /\ Means(f, t) /\ i # 0
        BY <1>5, <1>7
    <2>2. i \in 1..n
        BY <1>1, <2>1
    <2>3. Holds(log, t, i) /\ log[i].topic = t
        BY <1>4, <2>1, <2>2 DEF Holds
    <2>4. QED
        BY <1>6, <2>1, <2>2, <2>3
<1>8. ASSUME NEW i, i \in KeptAt(log, f, n) PROVE i \in Found(f)
    <2>1. i \in 1..n /\ Means(f, log[i].topic) /\ Holds(log, log[i].topic, i)
        BY <1>6, <1>8
    <2>2. retained[log[i].topic] = i /\ i # 0
        BY <1>1, <1>3, <1>4, <2>1
    <2>3. QED
        BY <1>3, <1>5, <2>1, <2>2
<1>9. QED
    BY <1>7, <1>8

\* A subscription that was given nothing, and one that has its first messages.
LEMMA JoinedEmpty ==
    ASSUME NEW g \in Seq(Nat), NEW b \in Seq(Nat), NEW c \in Seq(Nat), Joined(g, b, c) = << >>
    PROVE  g = << >> /\ b = << >> /\ c = << >>
<1> DEFINE bc == b \o c
<1>1. bc \in Seq(Nat) /\ Len(bc) = Len(b) + Len(c)
    BY ConcatProperties
<1> HIDE DEF bc
<1>2. Len(g \o bc) = Len(g) + Len(bc)
    BY <1>1, ConcatProperties
<1>3. Len(g \o bc) = 0
    BY DEF Joined, bc
<1>4. Len(g) = 0 /\ Len(b) = 0 /\ Len(c) = 0
    <2>1. Len(g) \in Nat /\ Len(b) \in Nat /\ Len(c) \in Nat
        OBVIOUS
    <2>2. QED
        BY <1>1, <1>2, <1>3, <2>1
<1>5. QED
    BY <1>4, EmptySeq

LEMMA FineFirst ==
    ASSUME NEW F \in SUBSET Nat, NEW q \in Seq(F), NEW L,
           \A i, j \in 1..Len(q) : q[i] = q[j] => i = j,
           \A x \in F : \E i \in 1..Len(q) : q[i] = x
    PROVE  Fine(Joined(<< >>, q, << >>), {}, F, F, L) /\ Full(Joined(<< >>, q, << >>), {}, F)
<1>1. q \in Seq(Nat) /\ \A i \in 1..Len(q) : q[i] \in F
    <2>1. \A i \in 1..Len(q) : q[i] \in F
        OBVIOUS
    <2>2. F \subseteq Nat
        OBVIOUS
    <2>3. q \in Seq(Nat)
        BY <2>2, SeqMonotonic
    <2>4. QED
        BY <2>1, <2>3
<1>2. Joined(<< >>, q, << >>) = q
    <2>1. q \o << >> = q /\ << >> \o q = q
        BY <1>1, ConcatEmptySeq
    <2>2. QED
        BY <2>1, Zenon DEF Joined
<1>3. \A x : x \in ToSet(q) <=> x \in F
    BY <1>1, ToSetOf
<1>4. Fine(q, {}, F, F, L)
    BY <1>1, <1>3 DEF Fine
<1>5. Full(q, {}, F)
    BY <1>3 DEF Full
<1>6. QED
    BY <1>2, <1>4, <1>5

\* Subscribe, up to the unlock.
LEMMA SubscribeDelivers ==
    ASSUME BaseInv, DeliveryInv, NEW s \in Subscribers, NEW f \in Filters[s], Subscribe(s, f),
           broker = "memory", UNCHANGED <<broker, mqttVars>>
    PROVE  DeliveryInv'
<1> DEFINE n == Len(log)
<1>1. PICK q \in SetToSeqs(Found(f)) : backlog' = [backlog EXCEPT ![s] = q]
    BY DEF Subscribe, Found
<1>2. /\ spc[s] = "new" /\ ValidateFilter(f) /\ filter' = [filter EXCEPT ![s] = f] /\ subs' = subs \cup {s}
      /\ spc' = [spc EXCEPT ![s] = "joining"] /\ joined' = [joined EXCEPT ![s] = n]
      /\ UNCHANGED <<log, got, retained, ch, dones, todo, sending, abandoned, msubs>>
    BY DEF Subscribe, mqttVars, streamVars
<1>3. /\ n \in Nat /\ filter \in [Subscribers -> Seq(Segments)] /\ joined \in [Subscribers -> Nat]
      /\ backlog \in [Subscribers -> Seq(Nat)] /\ DOMAIN spc = Subscribers
      /\ got[s] \in Seq(Nat) /\ backlog[s] \in Seq(Nat) /\ ch[s] \in Seq(Nat)
      /\ subs \subseteq Subscribers /\ msubs \subseteq Subscribers
    BY DEF BaseInv, BrokerTyped, StreamInv, StreamTyped, MqttInv
<1>4. \A o \in Subscribers : o # s => /\ filter'[o] = filter[o] /\ joined'[o] = joined[o]
                                      /\ backlog'[o] = backlog[o] /\ spc'[o] = spc[o]
    BY <1>1, <1>2, <1>3
<1>5. filter'[s] = f /\ joined'[s] = n /\ backlog'[s] = q /\ spc'[s] = "joining"
    BY <1>1, <1>2, <1>3
<1>6. \A o : Pend(o)' = Pend(o)
    BY <1>2 DEF Pend
<1>7. Whole(s) = << >> /\ Pend(s) = {} /\ s \notin subs \cup dones
    BY <1>2 DEF DeliveryInv, MemberInv
<1>8. got[s] = << >> /\ ch[s] = << >>
    BY <1>3, <1>7, JoinedEmpty DEF Whole
<1>9. \A o \in Subscribers : o # s => Whole(o)' = Whole(o)
    BY <1>2, <1>4 DEF Whole
<1>10. Given(s)'
    <2>1. f \in Seq(Segments)
        BY EventStreamAssumption
    <2>2. Found(f) = KeptAt(log, f, n)
        BY <1>2, <2>1, FoundIsKept DEF DeliveryInv
    <2>3. Found(f) \subseteq 1..n /\ IsFiniteSet(Found(f))
        BY FoundFinite DEF BaseInv
    <2>4. /\ q \in Seq(Found(f)) /\ \A i, j \in 1..Len(q) : q[i] = q[j] => i = j
          /\ \A x \in Found(f) : \E i \in 1..Len(q) : q[i] = x
        <3> DEFINE S == Found(f)
        <3>1. IsFiniteSet(S) /\ q \in SetToSeqs(S)
            BY <2>3
        <3> HIDE DEF S
        <3>2. /\ q \in Seq(S) /\ \A i, j \in 1..Len(q) : q[i] = q[j] => i = j
              /\ \A x \in S : \E i \in 1..Len(q) : q[i] = x
            BY <3>1, OrderOf, Zenon
        <3> QED
            BY <3>2 DEF S
    <2>5. Whole(s)' = Joined(<< >>, q, << >>) /\ Pend(s)' = {}
        BY <1>2, <1>5, <1>6, <1>7, <1>8 DEF Whole
    <2>6. FirstOf(s)' = Found(f)
        BY <1>2, <1>5, <2>2 DEF FirstOf
    <2>7. OwedTo(s)' = Found(f)
        <3>1. (n + 1)..n = {}
            BY <1>3
        <3>2. LiveAt(log, f, n, abandoned, s) = {}
            BY <3>1 DEF LiveAt
        <3>3. QED
            BY <1>2, <1>5, <2>2, <3>2 DEF OwedTo, OwedAt
    <2>8. Found(f) \in SUBSET Nat
        BY <1>3, <2>3
    <2>9. /\ Fine(Joined(<< >>, q, << >>), {}, Found(f), Found(f), log)
          /\ Full(Joined(<< >>, q, << >>), {}, Found(f))
        BY <2>4, <2>8, FineFirst
    <2>10. QED
        BY <1>2, <2>5, <2>6, <2>7, <2>9 DEF Given
<1>11. ASSUME NEW o \in Subscribers, o # s PROVE Given(o)'
    <2>1. Given(o) /\ (o \in subs' => o \in subs)
        BY <1>2, <1>11 DEF DeliveryInv
    <2>2. QED
        BY <1>2, <1>4, <1>6, <1>9, <1>11, <2>1, SameGiven
<1>12. PublisherInv' /\ RetainedInv'
    BY <1>2 DEF DeliveryInv, PublisherInv, RetainedInv
<1>13. MemberInv'
    <2>1. MemberInv
        BY DEF DeliveryInv
    <2>2. subs' \cap dones' = {}
        BY <1>2, <1>7, <2>1 DEF MemberInv
    <2>3. \A o \in subs' \cup msubs' : ValidateFilter(filter'[o])
        BY <1>2, <1>3, <1>4, <1>5, <2>1 DEF MemberInv
    <2>4. ASSUME NEW o \in Subscribers, spc'[o] = "new"
          PROVE  Whole(o)' = << >> /\ Pend(o)' = {} /\ o \notin subs' \cup dones'
        <3>1. o # s /\ spc[o] = "new"
            BY <1>4, <1>5, <2>4
        <3>2. QED
            BY <1>2, <1>6, <1>9, <2>1, <3>1 DEF MemberInv
    <2>5. QED
        BY <1>2, <2>1, <2>2, <2>3, <2>4 DEF MemberInv
<1>14. QED
    BY <1>10, <1>11, <1>12, <1>13 DEF DeliveryInv, MqttModeInv

----------------------------------------------------------------------------
\* Steps that touch neither messages nor the in-memory broker nor a filter.
LEMMA StillDelivers ==
    ASSUME BaseInv, DeliveryInv,
           UNCHANGED <<broker, log, filter, got, retained, subs, ch, backlog, dones, spc, todo, sending,
                       joined, abandoned>>,
           msubs' \subseteq msubs, \A s \in Subscribers : mst'[s] = "new" => mst[s] = "new"
    PROVE  DeliveryInv'
<1>1. \A s : Whole(s)' = Whole(s) /\ Pend(s)' = Pend(s)
    BY DEF Whole, Pend
<1>2. \A s \in Subscribers : Given(s)'
    BY <1>1, SameGiven DEF DeliveryInv
<1>3. PublisherInv' /\ RetainedInv' /\ MqttModeInv'
    BY DEF DeliveryInv, PublisherInv, RetainedInv, MqttModeInv
<1>4. MemberInv'
    BY <1>1 DEF DeliveryInv, MemberInv
<1>5. QED
    BY <1>2, <1>3, <1>4 DEF DeliveryInv

\* With the MQTT adapter a subscription has only what its handler was called with.
LEMMA MqttWhole ==
    ASSUME BaseInv, DeliveryInv, broker = "mqtt", NEW s \in Subscribers
    PROVE  /\ Whole(s) = got[s] /\ Pend(s) = {} /\ s \notin subs
           /\ got[s] \in Seq(Nat) /\ FirstOf(s) = {}
<1>1. ch[s] = << >> /\ backlog[s] = << >> /\ joined[s] = 0 /\ subs = {} /\ \A p \in Publishers : todo[p] = << >>
    BY DEF DeliveryInv, MqttModeInv
<1>2. got[s] \in Seq(Nat)
    BY DEF BaseInv, StreamInv, StreamTyped
<1>3. Whole(s) = got[s]
    <2>1. << >> \o << >> = << >> /\ got[s] \o << >> = got[s]
        <3>1. << >> \in Seq(Nat)
            OBVIOUS
        <3>2. QED
            BY <1>2, <3>1, ConcatEmptySeq
    <2>2. QED
        BY <1>1, <2>1, Zenon DEF Whole, Joined
<1>4. Pend(s) = {}
    BY <1>1 DEF Pend, ToSet
<1>5. FirstOf(s) = {}
    BY <1>1 DEF FirstOf, KeptAt
<1>6. QED
    BY <1>1, <1>2, <1>3, <1>4, <1>5

\* The server's messages go to the handlers in the order they come in.
LEMMA onPublishDelivers ==
    ASSUME BaseInv, DeliveryInv, broker = "mqtt", NEW t \in Topics, onPublish(t),
           UNCHANGED <<broker, brokerVars>>
    PROVE  DeliveryInv'
<1> DEFINE r == [by |-> "server", topic |-> t, kind |-> "live"]
           n == Len(log)
           S == {s \in msubs : MatchFilter(filter[s], t)}
<1>1. /\ log' = Append(log, r) /\ Handle(S, n + 1)
      /\ UNCHANGED <<filter, msubs, mst, retained, subs, ch, backlog, dones, spc, todo, sending, joined, abandoned>>
    BY DEF onPublish, mqttVars, brokerVars
<1>2. r \in Record /\ r.topic = t
    BY DEF Record, Kinds
<1>3. \A s : s \in S <=> s \in msubs /\ MatchFilter(filter[s], t)
    OBVIOUS
<1> HIDE DEF r, S
<1>4. \A s \in Subscribers : got'[s] = IF s \in S THEN Append(got[s], n + 1) ELSE got[s]
    BY <1>1 DEF Handle
<1>5. log \in Seq(Record) /\ n \in Nat /\ Len(log') = n + 1 /\ \A i \in 1..n : log'[i] = log[i]
    BY <1>1, <1>2, AppendProperties DEF BaseInv, BrokerTyped
<1>6. ASSUME NEW s \in Subscribers PROVE Given(s)'
    <2>1. /\ Whole(s) = got[s] /\ Pend(s) = {} /\ s \notin subs
          /\ got[s] \in Seq(Nat) /\ FirstOf(s) = {}
        BY MqttWhole
    <2>2. Whole(s)' = Joined(got'[s], backlog[s], ch[s]) /\ Pend(s)' = {}
        BY <1>1, <2>1 DEF Whole, Pend
    <2>3. joined[s] \in Nat /\ joined[s] <= n /\ \A i \in Nat : <<i, s>> \in abandoned => i <= n
        BY DEF BaseInv, BrokerTyped, DeliveryInv, MemberInv
    <2>4. /\ FirstOf(s)' = FirstOf(s) /\ FirstOf(s) \subseteq 1..n /\ OwedTo(s) \subseteq 1..n
          /\ OwedTo(s)' = OwedTo(s) \cup (IF Means(filter[s], t) THEN {n + 1} ELSE {})
        <3>1. /\ KeptAt(Append(log, r), filter[s], joined[s]) = KeptAt(log, filter[s], joined[s])
              /\ OwedAt(Append(log, r), filter[s], joined[s], abandoned, s) =
                    OwedAt(log, filter[s], joined[s], abandoned, s)
                        \cup (IF Means(filter[s], r.topic) THEN {n + 1} ELSE {})
              /\ OwedAt(log, filter[s], joined[s], abandoned, s) \subseteq 1..n
              /\ KeptAt(log, filter[s], joined[s]) \subseteq 1..n
            BY <1>2, <1>5, <2>3, OwedGrows
        <3>2. QED
            BY <1>1, <1>2, <3>1 DEF FirstOf, OwedTo
    <2>5. Fine(got[s], {}, FirstOf(s), OwedTo(s), log)
        BY <2>1 DEF DeliveryInv, Given
    <2>6. /\ Fine(got[s], {}, FirstOf(s), OwedTo(s), log')
          /\ Fine(got[s], {} \cup {n + 1}, FirstOf(s), OwedTo(s) \cup {n + 1}, log')
        BY <1>1, <1>2, <1>5, <2>4, <2>5, FinePublish
    <2>7. CASE s \in S
        <3>1. Means(filter[s], t)
            BY <1>3, <2>7, RegisteredMeans
        <3>2. Fine(got[s], {n + 1}, FirstOf(s), OwedTo(s)', log')
            BY <2>4, <2>6, <3>1
        <3>3. Longer(Joined(got'[s], backlog[s], ch[s]), got[s], n + 1)
            <4>1. got'[s] = Append(got[s], n + 1) /\ got'[s] \in Seq(Nat)
                <5>1. got'[s] = Append(got[s], n + 1) /\ n + 1 \in Nat
                    <6>1. got'[s] = Append(got[s], n + 1)
                        BY <1>4, <2>7, Zenon
                    <6>2. n + 1 \in Nat
                        BY <1>5
                    <6>3. QED
                        BY <6>1, <6>2
                <5>2. Append(got[s], n + 1) \in Seq(Nat)
                    BY <2>1, <5>1, AppendProperties
                <5>3. QED
                    BY <5>1, <5>2
            <4>2. << >> \o << >> = << >> /\ got'[s] \o << >> = got'[s]
                <5>1. << >> \in Seq(Nat)
                    OBVIOUS
                <5> DEFINE h == got'[s]
                <5>2. h \in Seq(Nat)
                    BY <4>1
                <5> HIDE DEF h
                <5>3. << >> \o << >> = << >> /\ h \o << >> = h
                    BY <5>1, <5>2, ConcatEmptySeq
                <5>4. QED
                    BY <5>3 DEF h
            <4>3. ch[s] = << >> /\ backlog[s] = << >>
                BY DEF DeliveryInv, MqttModeInv
            <4>4. QED
                BY <4>1, <4>2, <4>3, Zenon DEF Longer, Joined
        <3>4. Fine(Whole(s)', {n + 1} \ {n + 1}, FirstOf(s), OwedTo(s)', log')
            BY <2>2, <3>2, <3>3, FineSend
        <3>5. {n + 1} \ {n + 1} = {}
            OBVIOUS
        <3>6. QED
            BY <1>1, <2>1, <2>2, <2>4, <3>4, <3>5 DEF Given
    <2>8. CASE s \notin S
        <3>1. Whole(s)' = got[s]
            BY <1>4, <2>1, <2>2, <2>8 DEF Whole
        <3>2. OwedTo(s) \subseteq OwedTo(s)'
            BY <2>4
        <3>3. Fine(got[s], {}, FirstOf(s), OwedTo(s)', log')
            BY <2>6, <3>2, FineMore
        <3>4. QED
            BY <1>1, <2>1, <2>2, <2>4, <3>1, <3>3 DEF Given
    <2>9. QED
        BY <2>7, <2>8
<1>7. PublisherInv'
    <2>1. \A p \in Publishers : todo[p] = << >> /\ sending[p] = 0
        BY DEF DeliveryInv, MqttModeInv, BaseInv, BrokerTyped
    <2>2. Len(<< >>) = 0
        OBVIOUS
    <2>3. QED
        BY <1>1, <2>1, <2>2 DEF PublisherInv
<1>8. MqttModeInv'
    <2>1. \A s \in Subscribers : mst[s] = "new" => s \notin msubs
        BY DEF DeliveryInv, MqttModeInv
    <2>2. \A s \in Subscribers : mst[s] = "new" => got'[s] = got[s]
        BY <1>3, <1>4, <2>1
    <2>3. QED
        BY <1>1, <2>2 DEF DeliveryInv, MqttModeInv
<1>9. MemberInv'
    <2>1. MemberInv
        BY DEF DeliveryInv
    <2>2. \A s \in Subscribers : \A i \in Nat : <<i, s>> \in abandoned => i <= n + 1
        <3>1. \A s \in Subscribers : \A i \in Nat : <<i, s>> \in abandoned => i <= n
            BY <2>1 DEF MemberInv
        <3>2. n \in Nat => \A i \in Nat : i <= n => i <= n + 1
            OBVIOUS
        <3>3. QED
            BY <1>5, <3>1, <3>2
    <2>3. QED
        BY <1>1, <1>5, <2>1, <2>2 DEF MemberInv
<1>10. QED
    BY <1>6, <1>7, <1>8, <1>9 DEF DeliveryInv, RetainedInv

\* Subscribe of the MQTT adapter.
LEMMA MqttSubscribeDelivers ==
    ASSUME BaseInv, DeliveryInv, broker = "mqtt", NEW s \in Subscribers, NEW f \in Filters[s],
           MqttSubscribe(s, f), UNCHANGED <<broker, brokerVars>>
    PROVE  DeliveryInv'
<1>1. /\ mst[s] = "new" /\ ValidateFilter(f) /\ filter' = [filter EXCEPT ![s] = f]
      /\ msubs' = msubs \cup {s} /\ mst' = [mst EXCEPT ![s] = "asking"]
      /\ UNCHANGED <<log, got, retained, subs, ch, backlog, dones, spc, todo, sending, joined, abandoned>>
    BY DEF MqttSubscribe, brokerVars, streamVars
<1>2. filter \in [Subscribers -> Seq(Segments)] /\ DOMAIN mst = Subscribers /\ msubs \subseteq Subscribers
    BY DEF BaseInv, MqttInv
<1>3. /\ \A o \in Subscribers : o # s => filter'[o] = filter[o] /\ mst'[o] = mst[o]
      /\ filter'[s] = f /\ mst'[s] = "asking"
    BY <1>1, <1>2
<1>4. \A o : Whole(o)' = Whole(o) /\ Pend(o)' = Pend(o)
    BY <1>1 DEF Whole, Pend
<1>5. subs = {} /\ joined[s] = 0 /\ got[s] = << >>
    BY <1>1 DEF DeliveryInv, MqttModeInv
<1>6. Given(s)'
    <2>1. Whole(s) = << >> /\ Pend(s) = {}
        BY <1>5, MqttWhole
    <2>2. FirstOf(s)' = {}
        BY <1>1, <1>5 DEF FirstOf, KeptAt
    <2>3. Fine(<< >>, {}, {}, OwedTo(s)', log')
        <3>1. << >> \in Seq(Nat) /\ Len(<< >>) = 0 /\ ToSet(<< >>) = {}
            BY DEF ToSet
        <3>2. QED
            BY <3>1 DEF Fine
    <2>4. QED
        BY <1>1, <1>4, <1>5, <2>1, <2>2, <2>3 DEF Given
<1>7. ASSUME NEW o \in Subscribers, o # s PROVE Given(o)'
    BY <1>1, <1>3, <1>4, <1>7, SameGiven DEF DeliveryInv
<1>8. PublisherInv' /\ MqttModeInv'
    BY <1>1, <1>2, <1>3 DEF DeliveryInv, PublisherInv, MqttModeInv
<1>9. MemberInv'
    <2>1. MemberInv
        BY DEF DeliveryInv
    <2>2. \A o \in subs' \cup msubs' : ValidateFilter(filter'[o])
        BY <1>1, <1>2, <1>3, <1>5, <2>1 DEF MemberInv
    <2>3. QED
        BY <1>1, <2>1, <2>2 DEF MemberInv
<1>10. QED
    BY <1>6, <1>7, <1>8, <1>9 DEF DeliveryInv, RetainedInv

LEMMA MqttDelivers ==
    ASSUME BaseInv, DeliveryInv, MqttNext
    PROVE  DeliveryInv'
<1>1. broker = "mqtt" /\ UNCHANGED <<broker, brokerVars>> /\ DOMAIN mst = Subscribers
    BY DEF MqttNext, BaseInv, MqttInv
<1>2. CASE OnConnectionDown \/ OnConnectionUp \/ MqttClose \/ \E i \in 1..Len(resubs) : resubscribe(i)
    <2>1. UNCHANGED <<log, filter, got, msubs, mst>>
        BY <1>2 DEF OnConnectionDown, OnConnectionUp, MqttClose, resubscribe, streamVars
    <2>2. QED
        BY <1>1, <2>1, StillDelivers DEF brokerVars
<1>3. ASSUME NEW s \in Subscribers, Asked(s) \/ Unsub(s) \/ Unsubscribed(s)
      PROVE  DeliveryInv'
    <2>1. UNCHANGED <<log, filter, got>> /\ msubs' \subseteq msubs
        BY <1>3 DEF Asked, Unsub, Unsubscribed, streamVars
    <2>2. \E x \in {"active", "failed", "leaving", "gone"} : mst' = [mst EXCEPT ![s] = x]
        BY <1>3 DEF Asked, Unsub, Unsubscribed
    <2>3. \A o \in Subscribers : mst'[o] = "new" => mst[o] = "new"
        BY <1>1, <2>2
    <2>4. QED
        BY <1>1, <2>1, <2>3, StillDelivers DEF brokerVars
<1>4. QED
    BY <1>1, <1>2, <1>3, onPublishDelivers, MqttSubscribeDelivers DEF MqttNext

LEMMA InitDelivers == BrokersInit => DeliveryInv
<1> SUFFICES ASSUME BrokersInit PROVE DeliveryInv
    OBVIOUS
<1>1. /\ log = << >> /\ subs = {} /\ dones = {} /\ abandoned = {} /\ msubs = {}
      /\ ch = [s \in Subscribers |-> << >>] /\ backlog = ch /\ got = ch
      /\ todo = [p \in Publishers |-> << >>] /\ sending = [p \in Publishers |-> 0]
      /\ joined = [s \in Subscribers |-> 0]
    BY DEF BrokersInit, MemoryBrokerInit, EventStreamInit, MqttInit
<1>2. << >> \in Seq(Nat) /\ Len(<< >>) = 0 /\ ToSet(<< >>) = {} /\ << >> \o << >> = << >>
    <2>1. << >> \in Seq(Nat) /\ Len(<< >>) = 0 /\ ToSet(<< >>) = {}
        BY DEF ToSet
    <2>2. QED
        BY <2>1, ConcatEmptySeq
<1>3. Joined(<< >>, << >>, << >>) = << >>
    BY <1>2, Zenon DEF Joined
<1>4. ASSUME NEW s \in Subscribers PROVE Whole(s) = << >> /\ Pend(s) = {} /\ Given(s)
    <2>1. got[s] = << >> /\ backlog[s] = << >> /\ ch[s] = << >>
        BY <1>1
    <2>2. Whole(s) = << >>
        BY <1>3, <2>1 DEF Whole
    <2>3. \A p \in Publishers : todo[p] = << >>
        BY <1>1
    <2>4. Pend(s) = {}
        BY <1>2, <2>3 DEF Pend
    <2>5. joined[s] = 0
        BY <1>1
    <2>6. FirstOf(s) = {}
        BY <2>5 DEF FirstOf, KeptAt
    <2>7. Fine(<< >>, {}, {}, OwedTo(s), log)
        BY <1>2 DEF Fine
    <2>8. QED
        BY <1>1, <2>2, <2>4, <2>6, <2>7 DEF Given
<1>5. PublisherInv /\ RetainedInv
    BY <1>1, <1>2 DEF PublisherInv, RetainedInv
<1>6. MemberInv /\ MqttModeInv
    BY <1>1, <1>4 DEF MemberInv, MqttModeInv
<1>7. QED
    BY <1>4, <1>5, <1>6 DEF DeliveryInv

LEMMA NextDelivers == BaseInv /\ DeliveryInv /\ [BrokersNext]_brokersVars => DeliveryInv'
<1> SUFFICES ASSUME BaseInv, DeliveryInv, [BrokersNext]_brokersVars PROVE DeliveryInv'
    OBVIOUS
<1>1. CASE MemoryNext
    <2>1. broker = "memory" /\ UNCHANGED <<broker, mqttVars>>
        BY <1>1 DEF MemoryNext, Publishing, Goroutine, Closing
    <2>2. QED
        BY <1>1, <2>1, PublishDelivers, SendDelivers, AbandonDelivers, SubscribeDelivers, TurnDelivers,
           RestDelivers DEF MemoryNext, Publishing, Goroutine, Closing
<1>2. CASE MqttNext
    BY <1>2, MqttDelivers
<1>3. CASE StreamNext \/ UNCHANGED brokersVars
    <2>1. UNCHANGED <<broker, log, filter, got, brokerVars, mqttVars>>
        BY <1>3 DEF StreamNext, SendEvent, brokersVars, streamVars
    <2>2. QED
        BY <2>1, StillDelivers DEF brokerVars, mqttVars
<1>4. QED
    BY <1>1, <1>2, <1>3 DEF BrokersNext

\* What the invariant says of got.
LEMMA DeliveryIsSeamless == BaseInv /\ DeliveryInv => Seamless
<1> SUFFICES ASSUME BaseInv, DeliveryInv, NEW s \in Subscribers
             PROVE  LET g == got[s]
                        first == RetainedAt(filter[s], joined[s])
                    IN /\ ToSet(g) \subseteq Owed(s) /\ IsInjective(g)
                       /\ \A i, j \in 1..Len(g) :
                             i < j /\ g[j] \in first => g[i] \in first
                       /\ \A i, j \in 1..Len(g) :
                             i < j /\ {g[i], g[j]} \cap first = {} /\ log[g[i]].by = log[g[j]].by => g[i] < g[j]
                       /\ (s \in subs /\ spc[s] = "running" /\ backlog[s] = << >> /\ ch[s] = << >>
                             /\ \A p \in Publishers : sending[p] = 0) => ToSet(g) = Owed(s)
    BY Zenon DEF Seamless
<1> DEFINE g == got[s]
           bc == backlog[s] \o ch[s]
           w == Whole(s)
           first == RetainedAt(filter[s], joined[s])
<1>1. g \in Seq(Nat) /\ backlog[s] \in Seq(Nat) /\ ch[s] \in Seq(Nat)
    BY DEF BaseInv, BrokerTyped, StreamInv, StreamTyped
<1>2. bc \in Seq(Nat) /\ Len(bc) \in Nat
    <2> DEFINE b == backlog[s]
               c == ch[s]
    <2>1. b \in Seq(Nat) /\ c \in Seq(Nat)
        BY <1>1
    <2> HIDE DEF b, c
    <2>2. b \o c \in Seq(Nat)
        BY <2>1, ConcatProperties
    <2>3. bc \in Seq(Nat)
        BY <2>2 DEF b, c
    <2> HIDE DEF bc
    <2>4. QED
        BY <2>3
<1>3. w = g \o bc
    BY Zenon DEF Whole, Joined
<1>4. first = FirstOf(s) /\ Owed(s) = OwedTo(s)
    BY DEF RetainedAt, FirstOf, KeptAt, Owed, OwedTo, OwedAt, LiveAt
<1>5. Fine(w, Pend(s), first, Owed(s), log) /\ (s \in subs => Full(w, Pend(s), Owed(s)))
    BY <1>4 DEF DeliveryInv, Given
<1> HIDE DEF g, bc, w, first
<1>6. Len(g) \in Nat /\ Len(w) = Len(g) + Len(bc) /\ w \in Seq(Nat) /\ \A i \in 1..Len(g) : w[i] = g[i]
    BY <1>1, <1>2, <1>3, ConcatProperties
<1>7. \A i \in 1..Len(g) : i \in 1..Len(w)
    BY <1>2, <1>6
<1>8. /\ \A x : x \in ToSet(g) <=> \E i \in 1..Len(g) : g[i] = x
      /\ \A x : x \in ToSet(w) <=> \E i \in 1..Len(w) : w[i] = x
    BY <1>1, <1>6, ToSetOf
<1>9. ToSet(g) \subseteq Owed(s)
    <2>1. ToSet(g) \subseteq ToSet(w)
        BY <1>6, <1>7, <1>8
    <2>2. QED
        BY <1>5, <2>1 DEF Fine
<1>10. IsInjective(g)
    <2>1. \A i, j \in 1..Len(g) : g[i] = g[j] => i = j
        BY <1>5, <1>6, <1>7 DEF Fine
    <2>2. DOMAIN g = 1..Len(g)
        BY <1>1
    <2>3. QED
        BY <2>1, <2>2 DEF IsInjective
<1>11. \A i, j \in 1..Len(g) : i < j /\ g[j] \in first => g[i] \in first
    BY <1>5, <1>6, <1>7 DEF Fine
<1>12. ASSUME NEW i \in 1..Len(g), NEW j \in 1..Len(g), i < j, {g[i], g[j]} \cap first = {},
              log[g[i]].by = log[g[j]].by
       PROVE  g[i] < g[j]
    <2>1. g[i] \notin first /\ g[j] \notin first
        BY <1>12
    <2>2. w[i] = g[i] /\ w[j] = g[j] /\ i \in 1..Len(w) /\ j \in 1..Len(w)
        BY <1>6, <1>7
    <2>3. QED
        BY <1>5, <1>12, <2>1, <2>2 DEF Fine
<1>13. ASSUME s \in subs, backlog[s] = << >>, ch[s] = << >>, \A p \in Publishers : sending[p] = 0
       PROVE  ToSet(g) = Owed(s)
    <2>1. Pend(s) = {}
        BY <1>13 DEF Pend, ToSet, BaseInv, BrokerTyped
    <2>2. w = g
        <3>1. << >> \o << >> = << >> /\ g \o << >> = g
            <4>1. << >> \in Seq(Nat)
                OBVIOUS
            <4>2. QED
                BY <1>1, <4>1, ConcatEmptySeq
        <3>2. QED
            BY <1>3, <1>13, <3>1, Zenon DEF bc
    <2>3. QED
        BY <1>5, <1>9, <1>13, <2>1, <2>2 DEF Full
<1>14. QED
    BY <1>9, <1>10, <1>11, <1>12, <1>13 DEF g, first

\* A subscriber of the in-memory broker sees the messages retained when it
\* subscribed and then every later one of its topics, none twice, those of one
\* publisher in their order, however publishers, goroutines, Close and the ends
\* of contexts interleave, for any number of them and any channel capacity
\* (memory/broker.go: Publish retains and picks its targets, and Subscribe reads
\* the retained and registers, each under one lock).  With the MQTT adapter it
\* sees only messages of its topics, in the order the server sent them.
THEOREM DeliversSeamlessly == BrokersSpec => []Seamless
<1>1. BrokersInit => BaseInv /\ DeliveryInv
    BY InitCovers, InitHonest, InitDelivers DEF BaseInv
<1>2. BaseInv /\ DeliveryInv /\ [BrokersNext]_brokersVars => BaseInv' /\ DeliveryInv'
    BY NextCovers, NextHonest, NextDelivers DEF BaseInv
<1>3. QED
    BY <1>1, <1>2, DeliveryIsSeamless, PTL DEF BrokersSpec
=============================================================================
