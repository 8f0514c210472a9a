------------------------------ MODULE Brokers ------------------------------
(***************************************************************************)
(* The broker newBroker (cmd/plantstream/main.go) chooses, in memory or     *)
(* MQTT, with subscribers that are handlers or event streams.               *)
(***************************************************************************)
EXTENDS MemoryBroker, MqttBroker

VARIABLE broker      \* configuration: "memory" or "mqtt"

brokersVars == <<broker, log, filter, streamVars, brokerVars, mqttVars>>

BrokersInit ==
    /\ broker \in {"memory", "mqtt"}
    /\ log = << >>
    /\ filter = [s \in Subscribers |-> <<"#">>]
    /\ EventStreamInit /\ MemoryBrokerInit /\ MqttInit

\* What goes on by itself: publishers, goroutines, and Close.
Publishing(p) == broker = "memory" /\ Send(p) /\ UNCHANGED <<broker, mqttVars>>
Goroutine(s) == broker = "memory" /\ (Start(s) \/ Turn(s)) /\ UNCHANGED <<broker, mqttVars>>
Closing == broker = "memory" /\ BrokerClose /\ UNCHANGED <<broker, mqttVars>>

MemoryNext ==
    \/ /\ broker = "memory"
       /\ \/ \E p \in Publishers : Abandon(p) \/ \E m \in Messages[p] : Publish(p, m[1], m[2])
          \/ \E s \in Subscribers : Leave(s) \/ \E f \in Filters[s] : Subscribe(s, f)
       /\ UNCHANGED <<broker, mqttVars>>
    \/ \E p \in Publishers : Publishing(p)
    \/ \E s \in Subscribers : Goroutine(s)
    \/ Closing

MqttNext ==
    /\ broker = "mqtt"
    /\ \/ OnConnectionDown \/ OnConnectionUp \/ MqttClose
       \/ \E i \in 1..Len(resubs) : resubscribe(i)
       \/ \E s \in Subscribers :
             Asked(s) \/ Unsub(s) \/ Unsubscribed(s) \/ \E f \in Filters[s] : MqttSubscribe(s, f)
       \/ \E t \in Topics : onPublish(t)
    /\ UNCHANGED <<broker, brokerVars>>

StreamNext ==
    /\ \E s \in Streams : SendEvent(s)
    /\ UNCHANGED <<broker, log, filter, brokerVars, mqttVars>>

BrokersNext == MemoryNext \/ MqttNext \/ StreamNext

\* A publisher's loop, a subscription's goroutine and a Close that was begun
\* go on; a stream's client need not read.
BrokersSpec ==
    /\ BrokersInit /\ [][BrokersNext]_brokersVars
    /\ \A p \in Publishers : WF_brokersVars(Publishing(p))
    /\ \A s \in Subscribers : WF_brokersVars(Goroutine(s))
    /\ WF_brokersVars(cpc = "waiting" /\ Closing)
=============================================================================
