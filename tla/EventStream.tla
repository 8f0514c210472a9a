----------------------------- MODULE EventStream -----------------------------
(***************************************************************************)
(* What a broker's subscribers do with a message, and the event stream of   *)
(* the HTTP API (stream in internal/api/http/server.go) among them: its     *)
(* handler puts the message into a buffer if there is room and counts it    *)
(* as dropped otherwise; the request's own loop writes the events.  A       *)
(* message is its number in log.  The client may read slowly or not at all. *)
(***************************************************************************)
EXTENDS Uns, SequencesExt

CONSTANTS Subscribers,   \* subscriptions that may be made
          Streams,       \* those of them made by event streams
          SSEBuffer,     \* capacity of a stream's buffer
          Segments,      \* of topics and filters
          Topics,
          Filters,       \* filters each subscription may ask for
          MaxLog         \* bound: messages published

ASSUME EventStreamAssumption ==
    /\ Streams \subseteq Subscribers /\ SSEBuffer \in Nat /\ MaxLog \in Nat
    /\ "#" \in Segments /\ Topics \subseteq Seq(Segments)
    /\ \A s \in Subscribers : Filters[s] \subseteq Seq(Segments)

VARIABLES log,        \* history: messages published, [by, topic, kind]
          filter,     \* filter of each subscription
          got,        \* history: messages each subscription's handler was called with
          buffer,     \* ch: what a stream has still to send
          sent,       \* history: messages sent as events
          dropped     \* messages dropped

streamVars == <<got, buffer, sent, dropped>>

EventStreamInit ==
    /\ got = [s \in Subscribers |-> << >>]
    /\ buffer = [s \in Streams |-> << >>]
    /\ sent = [s \in Streams |-> << >>]
    /\ dropped = [s \in Streams |-> 0]

\* Mutant: the oldest buffered message makes room, and is not counted.
Push_oldest(b, m) == IF Len(b) < SSEBuffer THEN Append(b, m) ELSE Append(Tail(b), m)

\* The stream's select: into the buffer, or dropped.
Push(b, m) == IF Len(b) < SSEBuffer THEN Append(b, m) ELSE b

\* The handlers of the subscriptions S are called with message m.
Handle(S, m) ==
    /\ got' = [s \in Subscribers |-> IF s \in S THEN Append(got[s], m) ELSE got[s]]
    /\ buffer' = [s \in Streams |-> IF s \in S THEN Push(buffer[s], m) ELSE buffer[s]]
    /\ dropped' = [s \in Streams |->
                      IF s \in S /\ buffer'[s] = buffer[s] THEN dropped[s] + 1 ELSE dropped[s]]
    /\ UNCHANGED sent

\* The stream's loop sends an event; its number is the length of sent.
SendEvent(s) ==
    /\ buffer[s] # << >>
    /\ sent' = [sent EXCEPT ![s] = Append(@, Head(buffer[s]))]
    /\ buffer' = [buffer EXCEPT ![s] = Tail(@)]
    /\ UNCHANGED <<got, dropped>>

\* a is g with some of its elements left out.
Within(a, g) ==
    \E h \in [1..Len(a) -> 1..Len(g)] :
        /\ \A i, j \in 1..Len(a) : i < j => h[i] < h[j]
        /\ \A i \in 1..Len(a) : a[i] = g[h[i]]

\* "Slow clients lose messages rather than stalling publishers; the drop count
\* is sent ... so the client knows" (server.go): what the client was sent and
\* what is still to be sent are the messages the stream was given, in their
\* order, and the ones missing are as many as the count says.
StreamHonest ==
    \A s \in Streams :
        LET all == sent[s] \o buffer[s]
        IN /\ Len(got[s]) = Len(all) + dropped[s]
           /\ Within(all, got[s])
=============================================================================
