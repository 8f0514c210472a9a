------------------------------- MODULE Bridge -------------------------------
(***************************************************************************)
(* internal/bridge/bridge.go: the forwarder between the broker and the      *)
(* cloud sink, on top of the inbox and of a store-and-forward queue.        *)
(*                                                                         *)
(* Actors: the broker's delivery goroutine (publish, deliver_retained,      *)
(* signal), the forwarder goroutine (Run, at pc), the retry timer, the      *)
(* sink, which goes down and comes back at any moment, and whoever cancels  *)
(* the context, restarts or kills the process.                              *)
(*                                                                         *)
(* The samples of a topic are numbered in the order of their publication,   *)
(* so order and loss can be read off the numbers.                           *)
(*                                                                         *)
(* The queue is the disk queue, seen from outside: what this process will   *)
(* deliver (queue), and what a new process would find on the disk (stored). *)
(* As long as no call fails the two are one, the queue of StoreQueue.       *)
(* MaxErrors lets appends, rolls and writes of the head file fail, and      *)
(* a replay find a record unreadable; what failing removals and truncations *)
(* do, and what recovery makes of a bad record, is left to DiskQueue.       *)
(***************************************************************************)
EXTENDS Inbox

CONSTANTS ReplayBatch,   \* Config.ReplayBatch
          QueueMax,      \* bound of the store-and-forward queue, in records
          MaxSeq,        \* bound: samples published per topic
          MayStop,       \* the context may be cancelled, the bridge restarted
          MayCrash,      \* the process may be killed
          Ambiguous,     \* a send may fail although the sink has the message
          MaxErrors      \* bound: failing calls of the queue, unreadable messages

ASSUME BridgeAssumption ==
    /\ Samples = 1..MaxSeq /\ MaxSeq \in Nat
    /\ ReplayBatch \in Nat \ {0} /\ QueueMax \in Nat \ {0}
    /\ {MayStop, MayCrash, Ambiguous} \subseteq BOOLEAN /\ MaxErrors \in Nat

VARIABLES queue,       \* the messages this process has queued, oldest first
          stored,      \* the messages a restart would find, oldest first
          torn,        \* an append or a roll has failed, or a write of the head
                       \* file for an emptied queue: the files may be such that
                       \* messages stored later are out of reach
          errors,      \* how many calls of the queue have failed
          sinkUp,      \* what the bridge believes of the sink
          timer,       \* the retry timer: "armed", "fired" (C is ready), "off"
          batch,       \* replay: loop counter
          caller,      \* replay: who called it, "top" or "timer"
          cur,         \* the message popped from the inbox, in hand
          ctx,         \* the context is cancelled
          sinkOK,      \* the sink accepts messages
          backlog,     \* retained samples Subscribe still has to deliver (0: none)
          published,   \* number of samples published, per topic
          due,         \* messages published before a shutdown that no crash took
                       \* from memory and no torn file from the queue
          last,        \* number of the sample the sink received last, per topic
          settled,     \* messages that reached the sink or a drop counter
          revived      \* messages a restart found that this process had not queued

stage == <<topics, ring, rr, total, notify, pusher, ret>>
env == <<sinkOK, backlog, published>>
history == <<due, last, settled, revived>>
store == <<queue, stored, torn, errors>>
brVars == <<stage, pc, store, sinkUp, timer, batch, caller, cur, ctx, env, history>>

Nothing == [topic |-> "none", sample |-> 0]

InMemory == UNION {{topics[t][i] : i \in 1..Len(topics[t])} : t \in Topics}
InQueue == Range(queue)
InStored == Range(stored)

----------------------------------------------------------------------------
\* New, and Run up to its loop: subscribed, timer set, retained messages to
\* come.
BridgeInit ==
    /\ newInbox
    /\ pc = "top"
    /\ queue = << >> /\ stored = << >> /\ torn = FALSE /\ errors = 0
    /\ sinkUp = TRUE /\ timer = "armed"
    /\ batch = 0 /\ caller = "top" /\ cur = Nothing
    /\ ctx = FALSE
    /\ sinkOK = TRUE
    /\ backlog = [t \in Topics |-> 0]
    /\ published = [t \in Topics |-> 0]
    /\ due = {}
    /\ last = [t \in Topics |-> 0]
    /\ settled = {} /\ revived = {}

Subscribed == pc # "stopped"

\* onMessage: push, and count what it dropped (BridgeCoalesced).
onMessage(m) ==
    /\ push(m)
    /\ settled' = IF ret' = 1 THEN settled \cup (InMemory \ InMemory') ELSE settled

\* The next sample of a topic is published, and the broker delivers it.
publish(t) ==
    /\ Subscribed
    /\ \A u \in Topics : backlog[u] = 0
    /\ published[t] < MaxSeq
    /\ onMessage([topic |-> t, sample |-> published[t] + 1])
    /\ published' = [published EXCEPT ![t] = @ + 1]
    /\ due' = IF ctx THEN due
              ELSE due \cup {[topic |-> t, sample |-> published[t] + 1]}
    /\ UNCHANGED <<pc, store, sinkUp, timer, batch, caller, cur, ctx, sinkOK, backlog, last, revived>>

\* Subscribe delivers the retained sample of a topic before live ones.
deliver_retained(t) ==
    /\ Subscribed
    /\ backlog[t] # 0
    /\ onMessage([topic |-> t, sample |-> backlog[t]])
    /\ backlog' = [backlog EXCEPT ![t] = 0]
    /\ UNCHANGED <<pc, store, sinkUp, timer, batch, caller, cur, ctx, sinkOK, published, due, last, revived>>

\* Mutant: notify has no buffer, a forwarder that is not waiting misses it.
wake_unbuffered ==
    /\ pusher = "signal"
    /\ pusher' = "idle"
    /\ notify' = (notify \/ pc = "select")
    /\ UNCHANGED <<topics, ring, rr, total, ret, pc, store, sinkUp, timer, batch,
                   caller, cur, ctx, env, history>>

wake ==
    /\ signal
    /\ UNCHANGED <<pc, store, sinkUp, timer, batch, caller, cur, ctx, env, history>>

----------------------------------------------------------------------------
\* The sink.

\* Send succeeds: the sink has m.
Delivered(m) ==
    /\ sinkOK
    /\ last' = [last EXCEPT ![m.topic] = m.sample]
    /\ settled' = settled \cup {m}

\* Send returns an error: the sink is down or the context is cancelled, and
\* the message may have arrived all the same.
Refused(m) ==
    /\ ~sinkOK \/ ctx
    /\ \/ UNCHANGED <<last, settled>>
       \/ /\ Ambiguous
          /\ last' = [last EXCEPT ![m.topic] = m.sample]
          /\ settled' = settled \cup {m}

toggle_sink ==
    /\ sinkOK' = ~sinkOK
    /\ UNCHANGED <<stage, pc, store, sinkUp, timer, batch, caller, cur, ctx, backlog, published, history>>

----------------------------------------------------------------------------
\* The queue.

\* A call of the queue fails.
Error == errors < MaxErrors /\ errors' = errors + 1

\* What is left of the queue without its n oldest messages.
Rest(n) == SubSeq(queue, n + 1, Len(queue))
Oldest(n) == {queue[i] : i \in 1..n}

\* What a restart finds once the head file says that q is left: q, or, after a
\* failed append, what the scan still reaches.
Found(q) ==
    {q} \cup IF torn THEN {SubSeq(stored, i, Len(stored)) : i \in 1..(Len(stored) + 1)} ELSE {}

\* Push's enforceBound: a full queue loses the n oldest messages, and whatever
\* the disk has before them; d is left there.
Evicts(n, d) ==
    IF Len(queue) < QueueMax /\ Len(stored) < QueueMax
    THEN n = 0 /\ d = stored
    ELSE /\ n > 0 \/ Len(d) < Len(stored)
         /\ Len(queue) - n < QueueMax /\ Len(d) < QueueMax

\* spill, Push stores m.  When it could not write the head file after an
\* eviction, the message is counted as lost all the same.
spill_stored(m) ==
    \E n \in 0..Len(queue) : \E d \in {stored} \cup Found(Rest(n)) :
        /\ Evicts(n, d)
        /\ queue' = Append(Rest(n), m)
        /\ stored' = Append(d, m) \/ (torn /\ stored' = d)
        /\ \/ settled' = settled \cup Oldest(n) /\ UNCHANGED errors
           \/ d # stored /\ settled' = settled \cup Oldest(n) \cup {m} /\ Error
        /\ UNCHANGED torn

\* spill, the append fails, or the next segment cannot be opened: the message
\* is counted as lost.  It may be on the disk whole, and even be delivered.
spill_failed(m) ==
    /\ Error
    /\ \/ UNCHANGED <<queue, stored>>
       \/ /\ Len(stored) < QueueMax   \* bound
          /\ stored' = Append(stored, m)
          /\ queue' \in {queue, Append(queue, m)}
    /\ torn' = TRUE
    /\ settled' = settled \cup {m}

spill(m) == spill_stored(m) \/ spill_failed(m)

----------------------------------------------------------------------------
\* Mutant: the timer is not set again.
resetTimer_never == UNCHANGED timer

\* The timer is stopped, emptied if it had fired, and set again.
resetTimer == timer' = "armed"

\* fail: the sink is taken for down and looked at again after the backoff.
fail == sinkUp' = FALSE /\ resetTimer

\* Run, top of the loop.
run_top ==
    /\ pc = "top"
    /\ IF queue # << >> /\ sinkUp
       THEN pc' = "replay" /\ batch' = 0 /\ caller' = "top"
       ELSE pc' = "select" /\ UNCHANGED <<batch, caller>>
    /\ UNCHANGED <<stage, store, sinkUp, timer, cur, ctx, env, history>>

\* replay returned true: sinkUp says whether it ran to its end.
replay_returned(up) ==
    /\ sinkUp' = up
    /\ batch' = 0 /\ caller' = "top"
    /\ IF caller = "timer"
       THEN pc' = "top" /\ resetTimer
       ELSE /\ pc' = IF queue = << >> THEN "select" ELSE IF ctx THEN "drain" ELSE "top"
            /\ UNCHANGED timer

\* replay returned false.
replay_failed ==
    /\ fail
    /\ batch' = 0 /\ caller' = "top"
    /\ pc' = IF caller = "timer" THEN "top" ELSE "select"

\* Mutant: the batch is one message too long.
BatchLeft_extra == batch <= ReplayBatch

\* The condition of replay's loop.
BatchLeft == batch < ReplayBatch

\* replay's loop ends: batch sent, context cancelled, or queue empty.
replay_end ==
    /\ pc = "replay"
    /\ \/ (~BatchLeft \/ (~ctx /\ queue = << >>)) /\ replay_returned(TRUE)
       \/ BatchLeft /\ ctx /\ replay_returned(sinkUp)
    /\ UNCHANGED <<stage, store, cur, ctx, env, history>>

\* replay sends the oldest queued message ...
replay_send ==
    /\ pc = "replay"
    /\ BatchLeft /\ ~ctx /\ queue # << >>
    /\ \/ /\ Delivered(Head(queue))
          /\ pc' = "replay_ack"
          /\ UNCHANGED <<sinkUp, timer, batch, caller>>
       \/ Refused(Head(queue)) /\ replay_failed
    /\ UNCHANGED <<stage, store, cur, ctx, env, due, revived>>

\* ... and acknowledges it once the sink has it.  With the last message of its
\* segment go those a failed append has put out of reach.  An Ack that cannot
\* write the head file has moved on in memory; on the disk, only if it removed
\* the segment, or emptied it, and then the head file is wrong about it.
replay_ack ==
    /\ pc = "replay_ack"
    /\ \E n \in 1..Len(queue) :
          /\ n = 1 \/ torn
          /\ queue' = Rest(n)
          /\ due' = due \ (Oldest(n) \ {Head(queue)})
    /\ \/ /\ stored' \in Found(queue')
          /\ pc' = "replay" /\ batch' = batch + 1
          /\ UNCHANGED <<torn, errors, sinkUp, timer, caller>>
       \/ /\ Error
          /\ stored' \in {stored} \cup Found(queue')
          /\ torn' \in {torn, torn \/ queue' = << >>}
          /\ replay_failed
    /\ UNCHANGED <<stage, cur, ctx, env, last, settled, revived>>

\* replay: an unreadable message, or what a failed append has left of one, is
\* discarded with the rest of its segment, and counted.
replay_discard ==
    /\ pc = "replay"
    /\ BatchLeft /\ ~ctx /\ queue # << >>
    /\ \E n \in 1..Len(queue) :
          /\ queue' = Rest(n)
          /\ settled' = settled \cup Oldest(n)
    /\ stored' \in Found(queue')
    /\ \/ /\ Error \/ (torn /\ UNCHANGED errors)
          /\ batch' = batch + 1
          /\ UNCHANGED <<torn, sinkUp, timer, caller, pc>>
       \/ /\ Error
          /\ replay_failed
          /\ torn' \in {torn, torn \/ queue' = << >>}
    /\ UNCHANGED <<stage, cur, ctx, env, due, last, revived>>

timer_fires ==
    /\ timer = "armed"
    /\ timer' = "fired"
    /\ UNCHANGED <<stage, pc, store, sinkUp, batch, caller, cur, ctx, env, history>>

\* select, timer.C: probe a sink that was down.
select_timer ==
    /\ pc = "select"
    /\ timer = "fired"
    /\ IF ~sinkUp /\ queue # << >>
       THEN /\ pc' = "replay" /\ batch' = 0 /\ caller' = "timer"
            /\ timer' = "off"
            /\ UNCHANGED sinkUp
       ELSE /\ pc' = "top"
            /\ sinkUp' = TRUE
            /\ timer' = "armed"
            /\ UNCHANGED <<batch, caller>>
    /\ UNCHANGED <<stage, store, cur, ctx, env, history>>

\* select, ctx.Done.
select_done ==
    /\ pc = "select"
    /\ ctx
    /\ pc' = "drain"
    /\ UNCHANGED <<stage, store, sinkUp, timer, batch, caller, cur, ctx, env, history>>

\* select, notify.
select_notify ==
    /\ await
    /\ UNCHANGED <<store, sinkUp, timer, batch, caller, cur, ctx, env, history>>

\* The inner loop takes the next message ...
pop_message ==
    /\ pc = "pop"
    /\ PopFinds
    /\ take
    /\ cur' = Head(topics[NextTopic])
    /\ pc' = "forward"
    /\ UNCHANGED <<notify, pusher, ret, store, sinkUp, timer, batch, caller, ctx, env, history>>

pop_empty ==
    /\ pc = "pop"
    /\ ~PopFinds
    /\ pc' = "top"
    /\ UNCHANGED <<stage, store, sinkUp, timer, batch, caller, cur, ctx, env, history>>

\* Mutant: live messages are tried before the queued ones.
MustSpill_never == FALSE

\* The sink is down, or older messages are queued.
MustSpill == ~sinkUp \/ queue # << >>

\* ... and stores it while it must, ...
forward_spill ==
    /\ pc = "forward"
    /\ MustSpill
    /\ spill(cur)
    /\ cur' = Nothing
    /\ pc' = "pop"
    /\ UNCHANGED <<stage, sinkUp, timer, batch, caller, ctx, env, due, last, revived>>

\* ... or sends it; a message the sink refuses is stored.
forward_send ==
    /\ pc = "forward"
    /\ ~MustSpill
    /\ Delivered(cur)
    /\ cur' = Nothing
    /\ pc' = "pop"
    /\ UNCHANGED <<stage, store, sinkUp, timer, batch, caller, ctx, env, due, revived>>

forward_refused ==
    /\ pc = "forward"
    /\ ~MustSpill
    /\ Refused(cur)
    /\ pc' = "refused"
    /\ UNCHANGED <<stage, store, sinkUp, timer, batch, caller, cur, ctx, env, due, revived>>

refused_spill ==
    /\ pc = "refused"
    /\ spill(cur)
    /\ cur' = Nothing
    /\ IF ctx
       THEN pc' = "drain" /\ UNCHANGED <<sinkUp, timer>>
       ELSE pc' = "pop" /\ fail
    /\ UNCHANGED <<stage, batch, caller, ctx, env, due, last, revived>>

----------------------------------------------------------------------------
\* drain: pop and store until the inbox is empty; Run returns and its defer
\* unsubscribes.
drain_pop ==
    /\ pc = "drain"
    /\ PopFinds
    /\ take
    /\ cur' = Head(topics[NextTopic])
    /\ pc' = "drain_spill"
    /\ UNCHANGED <<notify, pusher, ret, store, sinkUp, timer, batch, caller, ctx, env, history>>

drain_spill ==
    /\ pc = "drain_spill"
    /\ spill(cur)
    /\ cur' = Nothing
    /\ pc' = "drain"
    /\ UNCHANGED <<stage, sinkUp, timer, batch, caller, ctx, env, due, last, revived>>

\* Mutant: Run returns without draining.
drain_done_early ==
    /\ pc = "drain"
    /\ pc' = "returned"
    /\ UNCHANGED <<stage, store, sinkUp, timer, batch, caller, cur, ctx, env, history>>

drain_done ==
    /\ pc = "drain"
    /\ ~PopFinds
    /\ pc' = "returned"
    /\ UNCHANGED <<stage, store, sinkUp, timer, batch, caller, cur, ctx, env, history>>

\* Everything in memory is gone once the process has ended.
MemoryGone ==
    /\ topics' = [t \in Topics |-> << >>] /\ ring' = << >> /\ rr' = 0 /\ total' = 0
    /\ notify' = FALSE /\ pusher' = "idle" /\ ret' = 0
    /\ cur' = Nothing /\ batch' = 0 /\ caller' = "top"
    /\ sinkUp' = TRUE /\ timer' = "armed"
    /\ pc' = "stopped"

\* The process has ended, and the next one finds d.  What it had queued and
\* left out of reach is lost; nobody promised otherwise of what was in memory.
Reopened(d, inMemory) ==
    /\ stored' = d /\ queue' = d
    /\ due' = due \ (inMemory \cup (InQueue \ Range(d)))
    /\ revived' = revived \cup (Range(d) \ InQueue)

\* Run returns, and the deferred Close writes the head file, if it can.
unsubscribe ==
    /\ pc = "returned"
    /\ pusher = "idle"
    /\ MemoryGone
    /\ \/ (\E d \in Found(queue) : Reopened(d, {})) /\ UNCHANGED errors
       \/ Reopened(stored, {}) /\ Error
    /\ UNCHANGED <<torn, ctx, env, last, settled>>

\* A crash takes what was in memory.
crash ==
    /\ MayCrash
    /\ Subscribed
    /\ MemoryGone
    /\ Reopened(stored, InMemory \cup {cur})
    /\ UNCHANGED <<torn, errors, ctx, env, last, settled>>

cancel ==
    /\ MayStop
    /\ Subscribed /\ ~ctx
    /\ ctx' = TRUE
    /\ UNCHANGED <<stage, pc, store, sinkUp, timer, batch, caller, cur, env, history>>

\* A new process: New, then Run subscribes and gets the retained samples.
start ==
    /\ pc = "stopped"
    /\ pc' = "top"
    /\ ctx' = FALSE
    /\ backlog' = published
    /\ UNCHANGED <<stage, store, sinkUp, timer, batch, caller, cur, sinkOK, published, history>>

Forwarder ==
    \/ run_top
    \/ replay_end \/ replay_send \/ replay_ack \/ replay_discard
    \/ select_timer \/ select_done \/ select_notify
    \/ pop_message \/ pop_empty
    \/ forward_spill \/ forward_send \/ forward_refused \/ refused_spill
    \/ drain_pop \/ drain_spill \/ drain_done \/ unsubscribe

BridgeNext ==
    \/ \E t \in Topics : publish(t) \/ deliver_retained(t)
    \/ wake
    \/ Forwarder
    \/ timer_fires
    \/ toggle_sink \/ cancel \/ crash \/ start

BridgeSpec == BridgeInit /\ [][BridgeNext]_brVars

\* The goroutines run.  Go's select chooses among ready cases at random, so a
\* case that is ready again and again is taken; a set timer fires.
BridgeFairSpec ==
    /\ BridgeSpec
    /\ WF_brVars(wake)
    /\ WF_brVars(Forwarder)
    /\ WF_brVars(timer_fires)
    /\ SF_brVars(select_notify)
    /\ SF_brVars(select_timer)

----------------------------------------------------------------------------
Pcs == {"top", "replay", "replay_ack", "select", "pop", "forward", "refused",
        "drain", "drain_spill", "returned", "stopped"}

\* Types.
BridgeTypeOK ==
    /\ BufferTypeOK
    /\ pc \in Pcs
    /\ queue \in Seq(Messages) /\ stored \in Seq(Messages) /\ torn \in BOOLEAN
    /\ errors \in 0..MaxErrors
    /\ sinkUp \in BOOLEAN /\ ctx \in BOOLEAN /\ sinkOK \in BOOLEAN
    /\ timer \in {"armed", "fired", "off"}
    /\ batch \in 0..ReplayBatch /\ caller \in {"top", "timer"}
    /\ cur \in Messages \cup {Nothing}
    /\ backlog \in [Topics -> 0..MaxSeq]
    /\ published \in [Topics -> 0..MaxSeq]
    /\ last \in [Topics -> 0..MaxSeq]
    /\ due \subseteq Messages /\ settled \subseteq Messages /\ revived \subseteq Messages

\* The sink never receives an older sample of a topic after a newer one,
\* through outages, replays, ambiguous sends, restarts and crashes (the same
\* sample may arrive again), unless a call of the queue has failed, to write its
\* head file or to append, and a restart has brought that very sample back.
OrderKept ==
    [][\A t \in Topics :
          \/ last'[t] >= last[t]
          \/ errors > 0 /\ [topic |-> t, sample |-> last'[t]] \in revived]_brVars

Held == InMemory \cup InQueue \cup {cur}

\* Nothing is lost silently: what was published before the context was
\* cancelled, and was not in memory when the process was killed, has reached
\* the sink or a drop counter, or the bridge has it; and a restart will find
\* what it has queued, whatever writes of the head file have failed, until the
\* files are torn.  (Then messages stored later can be lost inside the queue.)
Kept ==
    /\ due \subseteq settled \cup Held
    /\ ~torn => InQueue \subseteq InStored

\* The same for everything the bridge was subscribed to when it was published.
NothingLost ==
    \A t \in Topics : \A n \in 1..published[t] :
        [topic |-> t, sample |-> n] \in settled \cup Held

\* A forwarder that is not working through the inbox will be woken for what
\* is in it.
WakeupPending ==
    pc \in {"top", "replay", "replay_ack", "select"} /\ InMemory # {} =>
        notify \/ pusher = "signal"

\* While the bridge takes the sink for down, something will make it look
\* again: the timer is running, or the look is under way.
RetryPending ==
    pc \in {"top", "select"} => timer # "off"

\* When the sink stays up and the bridge is not stopped any more, everything
\* published is forwarded in the end, or counted as dropped (Kept): a failed
\* send is tried again, a restart finds the queue, and a replay, however long,
\* comes to an end, since meanwhile nothing is added to the queue, after which
\* the inbox is served.
EventuallyForwarded ==
    <>[](sinkOK /\ ~ctx /\ Subscribed) => <>[](queue = << >> /\ InMemory = {} /\ cur = Nothing)
=============================================================================
