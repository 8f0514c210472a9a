------------------------------ MODULE EdgeNode ------------------------------
(***************************************************************************)
(* internal/edge/node.go, with the pollers and the source health of         *)
(* internal/collectors/source.go and the last-value cache of                *)
(* internal/edge/latest.go.                                                 *)
(*                                                                         *)
(* Goroutines: one poller per source, the stale checker, and Run itself,    *)
(* which publishes BIRTH, waits for the others and publishes DEATH.  A      *)
(* poller and the checker compute their messages under the node's mutex     *)
(* (OnReadings, OnError, checkStale: one step each) and publish them after  *)
(* they have released it, message by message, first to the cache            *)
(* (publish_latest), then to the broker (publish_broker).                   *)
(*                                                                         *)
(* A message is the topic's tag, the quality and the value; a value that is *)
(* not a finite number cannot be encoded when the tag's type is a float.    *)
(* Asset context, sequence numbers and metrics are left out.                *)
(***************************************************************************)
EXTENDS Quality, Sequences, FiniteSets, SequencesExt

CONSTANTS order,       \* the sources, as a sequence
          names,       \* their tag names, sorted, as a sequence
          FloatNames,  \* tag names whose type is a float
          MayFail,     \* the broker may refuse a message
          MaxTime      \* bound: the clock

Sources == ToSet(order)
Names == ToSet(names)
Tags == Sources \X Names
Procs == Sources \cup {"checker"}

ASSUME EdgeNodeAssumption ==
    /\ order \in Seq(Sources) /\ names \in Seq(Names)
    /\ IsInjective(order) /\ order # << >> /\ "checker" \notin Sources
    /\ IsInjective(names) /\ FloatNames \subseteq Names
    /\ MayFail \in BOOLEAN /\ MaxTime \in Nat

VARIABLES phase,       \* Run: "birth", "run", "death", "ended"
          step,        \* Run: lifecycle messages published in this phase
          ctx,         \* the context is cancelled
          now,         \* the clock
          pc,          \* of pollers and checker
          started,     \* the time a poll or a check began (0 when it is over)
          readings,    \* what the poller has read: tag name -> value
          readAt,      \* and when
          up,          \* Health: Status.Up
          polled,      \* Health: Status.Polls > 0
          evals,       \* the evaluators, by tag
          out,         \* messages computed, not yet published
          latest,      \* the last-value cache
          retained,    \* the broker's retained messages
          flagged,     \* history: transitions computed since the last reading
          unsent,      \* history: what kept a message from being published
          wire         \* history: type of the last message of each source

runVars == <<phase, step, ctx>>
pollVars == <<started, readings, readAt, up, polled>>
history == <<flagged, unsent, wire>>
enVars == <<runVars, now, pc, pollVars, evals, out, latest, retained, history>>

Silent == [tag |-> <<"none", "none">>, quality |-> "GOOD", value |-> 0]

EdgeNodeInit ==
    /\ phase = "birth" /\ step = 0 /\ ctx = FALSE
    /\ now = 0
    /\ pc = [p \in Procs |-> "wait"]
    /\ started = [p \in Procs |-> 0]
    /\ readings = [s \in Sources |-> << >>]
    /\ readAt = [s \in Sources |-> 0]
    /\ up = [s \in Sources |-> FALSE]
    /\ polled = [s \in Sources |-> FALSE]
    /\ evals = [t \in Tags |-> NewEvaluator]
    /\ out = [p \in Procs |-> << >>]
    /\ latest = [t \in Tags |-> Silent]
    /\ retained = [t \in Tags |-> Silent]
    /\ flagged = [t \in Tags |-> << >>]
    /\ unsent = [t \in Tags |-> {}]
    /\ wire = [s \in Sources |-> "none"]

----------------------------------------------------------------------------
\* Run.

\* publishLifecycle of BIRTH, source after source; if one fails Run returns.
birth ==
    /\ phase = "birth"
    /\ step < Len(order)
    /\ \/ /\ step' = step + 1
          /\ wire' = [wire EXCEPT ![order[step + 1]] = "BIRTH"]
          /\ UNCHANGED phase
       \/ /\ MayFail \/ ctx
          /\ phase' = "ended"
          /\ UNCHANGED <<step, wire>>
    /\ UNCHANGED <<ctx, now, pc, pollVars, evals, out, latest, retained, flagged, unsent>>

\* The pollers and the checker are started.
go ==
    /\ phase = "birth"
    /\ step = Len(order)
    /\ phase' = "run"
    /\ UNCHANGED <<step, ctx, now, pc, pollVars, evals, out, latest, retained, history>>

\* Mutant: DEATH is published as soon as the context is cancelled.
wait_not ==
    /\ phase = "run"
    /\ ctx
    /\ phase' = "death" /\ step' = 0
    /\ UNCHANGED <<ctx, now, pc, pollVars, evals, out, latest, retained, history>>

\* g.Wait: all goroutines have returned.
wait ==
    /\ phase = "run"
    /\ \A p \in Procs : pc[p] = "done"
    /\ phase' = "death" /\ step' = 0
    /\ UNCHANGED <<ctx, now, pc, pollVars, evals, out, latest, retained, history>>

\* publishLifecycle of DEATH; a failure is logged.
death ==
    /\ phase = "death"
    /\ step < Len(order)
    /\ step' = step + 1
    /\ phase' = IF step' = Len(order) THEN "ended" ELSE phase
    /\ \/ wire' = [wire EXCEPT ![order[step + 1]] = "DEATH"]
       \/ MayFail /\ UNCHANGED wire
    /\ UNCHANGED <<ctx, now, pc, pollVars, evals, out, latest, retained, flagged, unsent>>

cancel ==
    /\ ~ctx
    /\ ctx' = TRUE
    /\ UNCHANGED <<phase, step, now, pc, pollVars, evals, out, latest, retained, history>>

tick ==
    /\ now < MaxTime
    /\ now' = now + 1
    /\ UNCHANGED <<runVars, pc, pollVars, evals, out, latest, retained, history>>

\* A poller or the checker sees the cancelled context and returns.
return(p) ==
    /\ phase = "run"
    /\ pc[p] = "wait"
    /\ ctx
    /\ pc' = [pc EXCEPT ![p] = "done"]
    /\ UNCHANGED <<runVars, now, pollVars, evals, out, latest, retained, history>>

----------------------------------------------------------------------------
\* The poller of source s.

\* pollOnce begins; Read takes its time.
pollOnce(s) ==
    /\ phase = "run"
    /\ pc[s] = "wait"
    /\ ~ctx
    /\ pc' = [pc EXCEPT ![s] = "read"]
    /\ started' = [started EXCEPT ![s] = now]
    /\ UNCHANGED <<runVars, now, readings, readAt, up, polled, evals, out, latest, retained, history>>

\* Read fails: Health.failure, OnError is next; nothing after a cancellation.
read_fails(s) ==
    /\ pc[s] = "read"
    /\ IF ctx
       THEN pc' = [pc EXCEPT ![s] = "wait"] /\ UNCHANGED <<up, polled>>
       ELSE /\ pc' = [pc EXCEPT ![s] = "failed"]
            /\ up' = [up EXCEPT ![s] = FALSE]
            /\ polled' = [polled EXCEPT ![s] = TRUE]
    /\ started' = [started EXCEPT ![s] = 0]
    /\ UNCHANGED <<runVars, now, readings, readAt, evals, out, latest, retained, history>>

\* Read returns: Health.success; OnReadings is next, or returns at once if
\* there is no reading.
read_returns(s) ==
    \E S \in SUBSET Names : \E r \in [S -> Values \cup {NaN}] : \E at \in started[s]..now :
        /\ pc[s] = "read"
        /\ pc' = [pc EXCEPT ![s] = IF S = {} THEN "wait" ELSE "read_ok"]
        /\ readings' = [readings EXCEPT ![s] = r]
        /\ readAt' = [readAt EXCEPT ![s] = IF S = {} THEN 0 ELSE at]
        /\ started' = [started EXCEPT ![s] = 0]
        /\ up' = [up EXCEPT ![s] = TRUE]
        /\ polled' = [polled EXCEPT ![s] = TRUE]
        /\ UNCHANGED <<runVars, now, evals, out, latest, retained, history>>

\* The message about tag t with the value v and the verdict of evaluator e.
\* The last value of a tag never read is null in the code, 0 here; what
\* castValue makes of a NaN, for a tag that is not a float, is still called
\* NaN here.
Metric(t, v, e) == [tag |-> t, quality |-> e.quality, value |-> v]

\* Payload.Marshal: JSON has no NaN, which only a float tag passes on
\* (castValue makes an integer or a boolean of it).
Marshals(t, v) == v # NaN \/ t[2] \notin FloatNames

\* The tags of S in the order in which a loop over the sources and, inside it,
\* over sortedKeys meets them.
Place(q, x) == CHOOSE i \in 1..Len(q) : q[i] = x

Precedes(t, u) ==
    \/ Place(order, t[1]) < Place(order, u[1])
    \/ t[1] = u[1] /\ Place(names, t[2]) < Place(names, u[2])

InOrder(S) ==
    {q \in SetToSeqs(S) : \A i, j \in 1..Len(q) : i < j => Precedes(q[i], q[j])}

\* The messages about the tags of q: v gives the value, e the evaluator of a tag.
MessagesOf(q, v, e) == [i \in 1..Len(q) |-> Metric(q[i], v[q[i]], e[q[i]])]

\* The last finite values.
Lasts(e) == [t \in Tags |-> e[t].last]

\* Mutant: publishAll is entered without messages.
Publishes_nothing(p, msgs) ==
    /\ out' = [out EXCEPT ![p] = msgs]
    /\ pc' = [pc EXCEPT ![p] = "publish"]

\* Mutant: the messages are not published.
Publishes_not(p, msgs) ==
    out' = [out EXCEPT ![p] = << >>] /\ pc' = [pc EXCEPT ![p] = "wait"]

\* After the mutex is released the messages are published, if there are any.
Publishes(p, msgs) ==
    /\ out' = [out EXCEPT ![p] = msgs]
    /\ pc' = [pc EXCEPT ![p] = IF msgs = << >> THEN "wait" ELSE "publish"]

\* The driver chooses the order of the readings.
OnReadings(s) ==
    LET r == readings[s]
        Seen(t) == t[1] = s /\ t[2] \in DOMAIN r
        E == [t \in Tags |-> IF Seen(t) THEN Observe(evals[t], r[t[2]], readAt[s]) ELSE evals[t]]
        Encoded == {n \in DOMAIN r : Marshals(<<s, n>>, r[n])}
    IN /\ pc[s] = "read_ok"
       /\ evals' = E
       /\ \E q \in SetToSeqs({s} \X Encoded) :
             Publishes(s, MessagesOf(q, [t \in {s} \X DOMAIN r |-> r[t[2]]], E))
       /\ flagged' = [t \in Tags |-> IF Seen(t) THEN << >> ELSE flagged[t]]
       /\ unsent' = [t \in Tags |->
             IF ~Seen(t) THEN unsent[t]
             ELSE IF t[2] \in Encoded THEN {} ELSE {"encode"}]
       /\ readings' = [readings EXCEPT ![s] = << >>]
       /\ readAt' = [readAt EXCEPT ![s] = 0]
       /\ UNCHANGED <<runVars, now, started, up, polled, latest, retained, wire>>

\* Mutant: the tags are flagged again by every failed poll.
ToFlag_all(s) == Names

\* The tags of s a failure turns BAD: the ones that are not BAD yet.
ToFlag(s) == {n \in Names : evals[<<s, n>>].quality # "BAD"}

OnError(s) ==
    LET Flag == ToFlag(s)
        E == [t \in Tags |-> IF t[1] = s /\ t[2] \in Flag THEN Comm(evals[t]) ELSE evals[t]]
    IN /\ pc[s] = "failed"
       /\ evals' = E
       /\ \E q \in InOrder({s} \X Flag) : Publishes(s, MessagesOf(q, Lasts(E), E))
       /\ flagged' = [t \in Tags |->
             IF t[1] = s /\ t[2] \in Flag THEN Append(flagged[t], "BAD") ELSE flagged[t]]
       /\ UNCHANGED <<runVars, now, pollVars, latest, retained, unsent, wire>>

----------------------------------------------------------------------------
\* The stale checker: the time is read before the mutex is taken.
check_begins ==
    /\ phase = "run"
    /\ pc["checker"] = "wait"
    /\ pc' = [pc EXCEPT !["checker"] = "check"]
    /\ started' = [started EXCEPT !["checker"] = now]
    /\ UNCHANGED <<runVars, now, readings, readAt, up, polled, evals, out, latest, retained, history>>

checkStale ==
    LET at == started["checker"]
        Turned == {t \in Tags : TurnsStale(evals[t], at)}
        E == [t \in Tags |-> Check(evals[t], at)]
    IN /\ pc["checker"] = "check"
       /\ evals' = E
       /\ \E q \in InOrder(Turned) : Publishes("checker", MessagesOf(q, Lasts(E), E))
       /\ flagged' = [t \in Tags |->
             IF t \in Turned THEN Append(flagged[t], "STALE") ELSE flagged[t]]
       /\ started' = [started EXCEPT !["checker"] = 0]
       /\ UNCHANGED <<runVars, now, readings, readAt, up, polled, latest, retained, unsent, wire>>

----------------------------------------------------------------------------
\* publishAll, by p: the cache ...
publish_latest(p) ==
    LET m == Head(out[p])
    IN /\ pc[p] = "publish"
       /\ latest' = [latest EXCEPT ![m.tag] = m]
       /\ pc' = [pc EXCEPT ![p] = "send"]
       /\ UNCHANGED <<runVars, now, pollVars, evals, out, retained, history>>

Next_message(p) ==
    /\ out' = [out EXCEPT ![p] = Tail(@)]
    /\ pc' = [pc EXCEPT ![p] = IF Len(out[p]) = 1 THEN "wait" ELSE "publish"]

\* ... then the broker, which may refuse; the next message follows anyway.
publish_broker(p) ==
    LET m == Head(out[p])
    IN /\ pc[p] = "send"
       /\ Next_message(p)
       /\ \/ /\ retained' = [retained EXCEPT ![m.tag] = m]
             /\ wire' = [wire EXCEPT ![m.tag[1]] = "DATA"]
             /\ UNCHANGED unsent
          \/ /\ MayFail \/ ctx
             /\ unsent' = [unsent EXCEPT ![m.tag] = @ \cup {"publish"}]
             /\ UNCHANGED <<retained, wire>>
       /\ UNCHANGED <<runVars, now, pollVars, evals, latest, flagged>>

\* The process has ended.
ended == phase = "ended" /\ UNCHANGED enVars

EdgeNodeNext ==
    \/ birth \/ go \/ wait \/ death \/ cancel \/ tick \/ ended
    \/ \E s \in Sources :
          \/ pollOnce(s) \/ read_fails(s) \/ read_returns(s)
          \/ OnReadings(s) \/ OnError(s)
    \/ check_begins \/ checkStale
    \/ \E p \in Procs : return(p) \/ publish_latest(p) \/ publish_broker(p)

EdgeNodeSpec == EdgeNodeInit /\ [][EdgeNodeNext]_enVars

----------------------------------------------------------------------------
MessageSet == [tag : Tags, quality : Qualities, value : Values \cup {0, NaN}]

\* Types.
EdgeNodeTypeOK ==
    /\ phase \in {"birth", "run", "death", "ended"} /\ step \in 0..Len(order)
    /\ ctx \in BOOLEAN /\ now \in 0..MaxTime
    /\ pc \in [Procs -> {"wait", "read", "read_ok", "failed", "check", "publish", "send", "done"}]
    /\ started \in [Procs -> 0..MaxTime] /\ readAt \in [Sources -> 0..MaxTime]
    /\ \A s \in Sources : \E S \in SUBSET Names : readings[s] \in [S -> Values \cup {NaN}]
    /\ up \in [Sources -> BOOLEAN] /\ polled \in [Sources -> BOOLEAN]
    /\ evals \in [Tags -> Evaluators]
    /\ out \in [Procs -> Seq(MessageSet)]
    /\ latest \in [Tags -> MessageSet \cup {Silent}]
    /\ retained \in [Tags -> MessageSet \cup {Silent}]
    /\ \A p \in Procs : pc[p] \in {"publish", "send"} => out[p] # << >>

\* Every silence is announced once: between two readings of a tag the node
\* computes at most one STALE and one BAD message, and no STALE after a BAD
\* (architecture.md: "BAD published once per tag with last value", "STALE
\* published once when silence > stale_after").
TransitionsOnce ==
    \A t \in Tags :
        flagged[t] \in {<< >>, <<"STALE">>, <<"BAD">>, <<"STALE", "BAD">>}

\* The poller of tag t holds a message about it.
Pending(t) == \E i \in 1..Len(out[t[1]]) : out[t[1]][i].tag = t

\* Message m agrees with evaluator e, or one of them is STALE.
Current(e, m) ==
    \/ m.quality = e.quality /\ m.value \in {e.last, NaN}
    \/ "STALE" \in {m.quality, e.quality}

\* What the cache and the broker show of a tag, once its poller's messages are
\* out, is the evaluator's verdict and its last finite value.  It may differ in
\* two ways only: the checker's STALE and a poller's message were published
\* in the other order, or a message could not be encoded or was refused.
ShownIsCurrent ==
    \A t \in Tags : ~Pending(t) =>
        /\ Current(evals[t], latest[t]) \/ "encode" \in unsent[t]
        /\ Current(evals[t], retained[t]) \/ unsent[t] # {}

\* A source's messages are a BIRTH, data, a DEATH, in this order, however
\* the shutdown interleaves with polls and checks under way.
LifecycleOrder ==
    [][\A s \in Sources : wire'[s] # wire[s] =>
          <<wire[s], wire'[s]>> \in
             {<<"none", "BIRTH">>, <<"BIRTH", "DATA">>, <<"BIRTH", "DEATH">>, <<"DATA", "DEATH">>}
      ]_enVars

\* Nobody holds a message about tag t, or is about to compute one.
Quiet(t) ==
    /\ \A p \in Procs : \A i \in 1..Len(out[p]) : out[p][i].tag # t
    /\ pc[t[1]] \in {"wait", "read", "done"}

\* While a source is down, and its failure has been handled, the cache shows
\* each of its tags BAD (architecture.md: "PLC unreachable | tags -> BAD once
\* with last value").
DownIsShown ==
    \A t \in Tags :
        Quiet(t) /\ polled[t[1]] /\ ~up[t[1]] => latest[t].quality = "BAD"
=============================================================================
