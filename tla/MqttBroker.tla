----------------------------- MODULE MqttBroker -----------------------------
(***************************************************************************)
(* internal/adapters/mqtt/broker.go: local subscriptions over one           *)
(* connection to an MQTT server, which knows filters only.  The client      *)
(* library reconnects; after each reconnect a goroutine asks for the        *)
(* filters of all subscriptions again.  The server keeps the session over a *)
(* short outage and forgets it over a long one.  Requests are answered in   *)
(* the order they are sent; any of them may fail.                           *)
(***************************************************************************)
EXTENDS EventStream

CONSTANTS MaxUps,       \* bound: reconnects
          MaxReceived   \* bound: messages received

VARIABLES up,          \* connection
          ups,         \* history: reconnects
          server,      \* filters the server has in the session
          msubs,       \* b.subs
          mst,         \* "new", "asking", "active", "failed", "leaving", "gone"
          resubs,      \* resubscribe goroutines: the filters each will ask for
          mclosed,
          alone,       \* history: leaving subscriptions that found their filter unused
          excused      \* history: filters lost to a failed resubscribe or to a race

mqttVars == <<up, ups, server, msubs, mst, resubs, mclosed, alone, excused>>

\* A resubscribe that has not read the subscriptions yet.
NotRead == {<< >>}

\* New returns once the first connection is up.
MqttInit ==
    /\ up = TRUE /\ ups = 0
    /\ server = {} /\ msubs = {} /\ alone = {} /\ excused = {}
    /\ mst = [s \in Subscribers |-> "new"]
    /\ resubs = <<NotRead>>
    /\ mclosed = FALSE

OnConnectionDown ==
    /\ up /\ ups < MaxUps
    /\ up' = FALSE
    /\ UNCHANGED <<log, filter, streamVars, ups, server, msubs, mst, resubs, mclosed, alone, excused>>

\* The library reconnects; resubscribe is started and has not run yet.
OnConnectionUp ==
    /\ ~up /\ ~mclosed
    /\ up' = TRUE /\ ups' = ups + 1
    /\ server' \in {server, {}}
    /\ resubs' = Append(resubs, NotRead)
    /\ UNCHANGED <<log, filter, streamVars, msubs, mst, mclosed, alone, excused>>

\* resubscribe: the filters, under the lock; then the request, whose failure
\* is logged.
resubscribe(i) ==
    /\ \/ /\ resubs[i] = NotRead
          /\ resubs' = [resubs EXCEPT ![i] = {filter[s] : s \in msubs}]
          /\ UNCHANGED <<server, excused>>
       \/ /\ resubs[i] # NotRead
          /\ resubs' = RemoveAt(resubs, i)
          /\ \/ up /\ server' = server \cup resubs[i] /\ excused' = excused \ resubs[i]
             \/ up /\ excused' = excused \cup resubs[i] /\ UNCHANGED server
             \/ ~up /\ UNCHANGED <<server, excused>>
    /\ UNCHANGED <<log, filter, streamVars, up, ups, msubs, mst, mclosed, alone>>

\* Subscribe registers, then asks; a failure takes the registration back.
MqttSubscribe(s, f) ==
    /\ mst[s] = "new" /\ ~mclosed
    /\ ValidateFilter(f)
    /\ filter' = [filter EXCEPT ![s] = f]
    /\ msubs' = msubs \cup {s}
    /\ mst' = [mst EXCEPT ![s] = "asking"]
    /\ UNCHANGED <<log, streamVars, up, ups, server, resubs, mclosed, alone, excused>>

Asked(s) ==
    /\ mst[s] = "asking"
    /\ \/ up /\ server' = server \cup {filter[s]} /\ excused' = excused \ {filter[s]}
          /\ mst' = [mst EXCEPT ![s] = "active"] /\ UNCHANGED msubs
       \/ /\ server' \in {server, IF up THEN server \cup {filter[s]} ELSE server}
          /\ mst' = [mst EXCEPT ![s] = "failed"] /\ msubs' = msubs \ {s} /\ UNCHANGED excused
    /\ UNCHANGED <<log, filter, streamVars, up, ups, resubs, mclosed, alone>>

Others(s) == {o \in msubs \ {s} : filter[o] = filter[s]}

\* Mutant: a subscription that goes takes its filter with it.
Still_never(s) == FALSE

\* Another subscription has the filter.
Still(s) == Others(s) # {}

\* The function Subscribe returned: under the lock, then the request.
Unsub(s) ==
    /\ mst[s] = "active"
    /\ msubs' = msubs \ {s}
    /\ mst' = [mst EXCEPT ![s] = IF ~Still(s) /\ ~mclosed THEN "leaving" ELSE "gone"]
    /\ alone' = IF Others(s) = {} THEN alone \cup {s} ELSE alone
    /\ UNCHANGED <<log, filter, streamVars, up, ups, server, resubs, mclosed, excused>>

Unsubscribed(s) ==
    /\ mst[s] = "leaving"
    /\ mst' = [mst EXCEPT ![s] = "gone"]
    /\ \/ /\ up
          /\ server' = server \ {filter[s]}
          /\ excused' = IF s \in alone /\ Others(s) # {} THEN excused \cup {filter[s]} ELSE excused
       \/ UNCHANGED <<server, excused>>
    /\ UNCHANGED <<log, filter, streamVars, up, ups, msubs, resubs, mclosed, alone>>

\* The server delivers a message: every local subscription it matches gets it.
\* (One whose context has ended is skipped; here it has called Unsub by then.)
onPublish(t) ==
    /\ up /\ Len(log) < MaxReceived
    /\ \E f \in server : Means(f, t)
    /\ log' = Append(log, [by |-> "server", topic |-> t, kind |-> "live"])
    /\ Handle({s \in msubs : MatchFilter(filter[s], t)}, Len(log) + 1)
    /\ UNCHANGED <<filter, mqttVars>>

MqttClose ==
    /\ ~mclosed
    /\ mclosed' = TRUE /\ up' = FALSE
    /\ UNCHANGED <<log, filter, streamVars, ups, server, msubs, mst, resubs, alone, excused>>

----------------------------------------------------------------------------
\* While connected, with no resubscribe under way, the server has the filter of
\* every subscription in use, whatever outages, forgotten sessions and other
\* subscriptions of the same filter came before: connection-up asks for them
\* all and the last one of a filter alone gives it up.  Excepted are a
\* resubscribe that failed on a standing connection, which is only logged, and
\* an Unsubscribe overtaken by a new Subscribe of the same filter: until the
\* filter is asked for again.
StaysSubscribed ==
    up /\ resubs = << >> =>
        \A s \in Subscribers : mst[s] = "active" => filter[s] \in server \cup excused
=============================================================================
