---------------------------- MODULE MemoryBroker ----------------------------
(***************************************************************************)
(* internal/adapters/memory/broker.go: the in-process broker.  Publishers   *)
(* take retained message and targets under the lock and then send to each   *)
(* target's channel, one after the other; every subscription has a          *)
(* goroutine, started after the lock was given up, that first delivers the  *)
(* retained messages it found.  wg counts the goroutines that run.          *)
(***************************************************************************)
EXTENDS EventStream

CONSTANTS Publishers,
          Impatient,          \* publishers whose context may end
          Messages,           \* what each publisher may publish: <<topic, kind>>
          subscriberBuffer    \* capacity of a subscription's channel

Kinds == {"retain", "clear", "live"}

ASSUME MemoryBrokerAssumption ==
    /\ Impatient \subseteq Publishers /\ subscriberBuffer \in Nat \ {0}
    /\ \A p \in Publishers : Messages[p] \subseteq Topics \X Kinds

VARIABLES retained,    \* message by topic, 0 for none
          subs,        \* subscriptions registered
          ch, backlog, \* channel and retained messages of each subscription
          dones,       \* subscriptions whose done is closed
          ended,       \* subscriptions whose context has ended
          spc,         \* "new", "joining", "running", "ended"
          todo,        \* targets a publisher has still to send to
          sending,     \* message of each publisher, 0 when it is not publishing
          cpc,         \* Close: "open", "waiting", "closed"
          joined,      \* history: messages published when the subscription was made
          abandoned    \* history: <<m, s>> not sent since the publisher's context ended

brokerVars == <<retained, subs, ch, backlog, dones, ended, spc, todo, sending, cpc, joined, abandoned>>

MemoryBrokerInit ==
    /\ retained = [t \in Topics |-> 0]
    /\ subs = {} /\ dones = {} /\ ended = {} /\ abandoned = {}
    /\ ch = [s \in Subscribers |-> << >>] /\ backlog = ch
    /\ spc = [s \in Subscribers |-> "new"]
    /\ todo = [p \in Publishers |-> << >>]
    /\ sending = [p \in Publishers |-> 0]
    /\ cpc = "open"
    /\ joined = [s \in Subscribers |-> 0]

\* Publish, under the lock: "live" is a message that is not retained, "clear"
\* a retained one without a payload.
Publish(p, t, kind) ==
    /\ sending[p] = 0 /\ cpc = "open" /\ Len(log) < MaxLog
    /\ log' = Append(log, [by |-> p, topic |-> t, kind |-> kind])
    /\ retained' = [retained EXCEPT ![t] = CASE kind = "retain" -> Len(log) + 1
                                             [] kind = "clear" -> 0
                                             [] OTHER -> @]
    /\ \E targets \in SetToSeqs({s \in subs : MatchFilter(filter[s], t)}) :
          /\ todo' = [todo EXCEPT ![p] = targets]
          /\ sending' = [sending EXCEPT ![p] = IF targets = << >> THEN 0 ELSE Len(log) + 1]
    /\ UNCHANGED <<filter, streamVars, subs, ch, backlog, dones, ended, spc, cpc, joined, abandoned>>

\* The select in Publish, for the next target; Publish returns after the last.
Send(p) ==
    /\ sending[p] # 0
    /\ LET s == Head(todo[p])
       IN \/ /\ Len(ch[s]) < subscriberBuffer
             /\ ch' = [ch EXCEPT ![s] = Append(@, sending[p])]
          \/ s \in dones /\ UNCHANGED ch
    /\ todo' = [todo EXCEPT ![p] = Tail(@)]
    /\ sending' = [sending EXCEPT ![p] = IF Len(todo[p]) = 1 THEN 0 ELSE @]
    /\ UNCHANGED <<log, filter, streamVars, retained, subs, backlog, dones, ended, spc, cpc, joined, abandoned>>

\* The publisher's context ends.
Abandon(p) ==
    /\ p \in Impatient /\ sending[p] # 0
    /\ abandoned' = abandoned \cup {<<sending[p], s>> : s \in ToSet(todo[p])}
    /\ todo' = [todo EXCEPT ![p] = << >>]
    /\ sending' = [sending EXCEPT ![p] = 0]
    /\ UNCHANGED <<log, filter, streamVars, retained, subs, ch, backlog, dones, ended, spc, cpc, joined>>

\* Subscribe, up to the unlock.
Subscribe(s, f) ==
    /\ spc[s] = "new" /\ cpc = "open"
    /\ ValidateFilter(f)
    /\ filter' = [filter EXCEPT ![s] = f]
    /\ subs' = subs \cup {s}
    /\ \E q \in SetToSeqs({retained[t] : t \in {x \in Topics : MatchFilter(f, x)}} \ {0}) :
          backlog' = [backlog EXCEPT ![s] = q]
    /\ spc' = [spc EXCEPT ![s] = "joining"]
    /\ joined' = [joined EXCEPT ![s] = Len(log)]
    /\ UNCHANGED <<log, streamVars, retained, ch, dones, ended, todo, sending, cpc, abandoned>>

\* Mutant: the retained messages are read when the goroutine starts.
FirstMessages_reread(s) ==
    SetToSeq({retained[t] : t \in {x \in Topics : MatchFilter(filter[s], x)}} \ {0})

\* What the goroutine delivers first.
FirstMessages(s) == backlog[s]

\* wg.Add and the start of the goroutine.
Start(s) ==
    /\ spc[s] = "joining"
    /\ spc' = [spc EXCEPT ![s] = "running"]
    /\ backlog' = [backlog EXCEPT ![s] = FirstMessages(s)]
    /\ UNCHANGED <<log, filter, streamVars, retained, subs, ch, dones, ended, todo, sending, cpc, joined, abandoned>>

\* Mutant: a publisher is not told that the subscription has gone.
remove_open(s) == subs' = subs \ {s} /\ UNCHANGED dones

\* remove.
remove(s) == subs' = subs \ {s} /\ dones' = dones \cup {s}

\* One turn of the goroutine.
Turn(s) ==
    /\ spc[s] = "running"
    /\ \/ /\ backlog[s] # << >>
          /\ Handle({s}, Head(backlog[s]))
          /\ backlog' = [backlog EXCEPT ![s] = Tail(@)]
          /\ UNCHANGED <<ch, subs, dones, spc>>
       \/ /\ backlog[s] = << >> /\ ch[s] # << >>
          /\ Handle({s}, Head(ch[s]))
          /\ ch' = [ch EXCEPT ![s] = Tail(@)]
          /\ UNCHANGED <<backlog, subs, dones, spc>>
       \/ /\ backlog[s] = << >>
          /\ \/ s \in dones /\ UNCHANGED <<subs, dones>>
             \/ s \in ended /\ remove(s)
          /\ spc' = [spc EXCEPT ![s] = "ended"]
          /\ UNCHANGED <<backlog, ch, streamVars>>
    /\ UNCHANGED <<log, filter, retained, ended, todo, sending, cpc, joined, abandoned>>

\* The subscriber's context ends, or it calls the function Subscribe returned.
Leave(s) ==
    /\ spc[s] = "running"
    /\ \/ s \notin ended /\ ended' = ended \cup {s} /\ UNCHANGED <<subs, dones>>
       \/ s \notin dones /\ remove(s) /\ UNCHANGED ended
    /\ UNCHANGED <<log, filter, streamVars, retained, ch, backlog, spc, todo, sending, cpc, joined, abandoned>>

\* Close, up to wg.Wait, and its return.
BrokerClose ==
    /\ \/ cpc = "open" /\ cpc' = "waiting" /\ subs' = {} /\ dones' = dones \cup subs
       \/ /\ cpc = "waiting" /\ \A s \in Subscribers : spc[s] # "running"
          /\ cpc' = "closed" /\ UNCHANGED <<subs, dones>>
    /\ UNCHANGED <<log, filter, streamVars, retained, ch, backlog, ended, spc, todo, sending, joined, abandoned>>

----------------------------------------------------------------------------
\* Messages retained on topics of filter f when n messages were published.
RetainedAt(f, n) ==
    {i \in 1..n : /\ log[i].kind = "retain" /\ Means(f, log[i].topic)
                  /\ \A j \in (i + 1)..n : log[j].topic = log[i].topic => log[j].kind = "live"}

\* Messages a subscription is owed.
Owed(s) ==
    RetainedAt(filter[s], joined[s]) \cup
    {i \in (joined[s] + 1)..Len(log) : Means(filter[s], log[i].topic) /\ <<i, s>> \notin abandoned}

\* A subscriber sees the messages retained when it subscribed and then every
\* later one, none twice, none of a foreign topic, those of one publisher in
\* their order; nothing falls between the snapshot and the live messages.
\* Subscribe reads retained and registers under one lock, Publish retains and
\* picks its targets under it.  Once nothing is under way, nothing is missing.
Seamless ==
    \A s \in Subscribers :
        LET g == got[s]
            first == RetainedAt(filter[s], joined[s])
        IN /\ ToSet(g) \subseteq Owed(s) /\ IsInjective(g)
           /\ \A i, j \in 1..Len(g) :
                 i < j /\ g[j] \in first => g[i] \in first
           /\ \A i, j \in 1..Len(g) :
                 i < j /\ {g[i], g[j]} \cap first = {} /\ log[g[i]].by = log[g[j]].by => g[i] < g[j]
           /\ (s \in subs /\ spc[s] = "running" /\ backlog[s] = << >> /\ ch[s] = << >>
                 /\ \A p \in Publishers : sending[p] = 0) => ToSet(g) = Owed(s)

\* Nobody waits for ever, however slow the client of a stream is: a publisher
\* gets past every target, and Close returns.  A handler never blocks, and a
\* subscription that goes leaves no publisher at its full channel.  (Messages
\* are bounded, so that everyone who waits has to be done in the end.)
NobodyStuck == <>[](cpc # "waiting" /\ \A p \in Publishers : sending[p] = 0)
=============================================================================
