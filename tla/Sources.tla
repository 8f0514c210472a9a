------------------------------ MODULE Sources ------------------------------
(***************************************************************************)
(* A source of a plant, from the plant definition to the topics: the        *)
(* definition is validated and indexed (Plant), collectors.New builds the   *)
(* source its type asks for (Modbus, CsvSource), and the node hands every   *)
(* reading of a successful cycle to the tag of its name.                    *)
(***************************************************************************)
EXTENDS Modbus, CsvSource

CONSTANTS Plants, Nothing

VARIABLES type,      \* type of the source; "none" when the definition is refused
          refs,      \* its tags
          route,     \* run.tags: the topic by tag name
          shown      \* the reading last shown on each topic of the source

loaded == <<type, refs, route>>
sourcesVars == <<loaded, shown, mbVars, csvVars>>

\* Load and edge.New: a definition that is not valid, and a source without
\* tags, do not run.
Loaded(p, s) ==
    IF Validate(p) /\ TagsForSource(p, s) # << >>
    THEN /\ type = TypeOf(p, s)
         /\ refs = TagsForSource(p, s)
         /\ route = [n \in {refs[i].tag.name : i \in 1..Len(refs)} |-> RouteOf(refs, n).topic]
    ELSE type = "none" /\ refs = << >> /\ route = << >>

SourcesInit ==
    /\ \E p \in Plants : \E i \in 1..Len(p.sources) : Loaded(p, p.sources[i].name)
    /\ shown = [t \in {refs[i].topic : i \in 1..Len(refs)} |-> Nothing]
    /\ blocks = IF type = "modbus" THEN Plan([i \in 1..Len(refs) |-> modbusTag(refs[i])]) ELSE << >>
    /\ order \in IF blocks = << >> THEN {"ABCD"} ELSE ByteOrders
    /\ table = [fn \in {"holding", "input"} |-> 1] /\ since = table
    /\ plcOK = TRUE
    /\ conn = FALSE /\ tid = 0 /\ request = NoFrame /\ wire = << >>
    /\ at = 0 /\ mpc = "idle" /\ mout = << >> /\ mresult = "none"
    /\ columns = IF type = "csv" THEN Columns(refs) ELSE << >>
    /\ loop \in IF columns = << >> THEN {FALSE} ELSE BOOLEAN
    /\ file = NoFile
    /\ opened = FALSE /\ done = FALSE /\ closed = FALSE
    /\ pass = [rows |-> << >>, pos |-> 0] /\ given = << >> /\ ended = Over(pass, given)
    /\ cout = << >> /\ cresult = "none"

\* OnReadings: a reading goes to the tag its name is routed to.
OnReadings(readings) ==
    shown' = FoldLeft(LAMBDA s, r : [s EXCEPT ![route[r.tag]] = r.value],
                      shown, readings)

ModbusCycle ==
    /\ type = "modbus"
    /\ BeginRead \/ Send \/ Receive \/ Timeout
    /\ IF mpc = "receive" /\ mresult' = "ok" THEN OnReadings(mout') ELSE UNCHANGED shown
    /\ UNCHANGED <<loaded, csvVars>>

ModbusDevice ==
    /\ type = "modbus"
    /\ DeviceTurns \/ \E fn \in {"holding", "input"} : writeRegisters(fn)
    /\ UNCHANGED <<loaded, shown, csvVars>>

\* The device as long as it serves requests.
ModbusServer == type = "modbus" /\ handle /\ UNCHANGED <<loaded, shown, csvVars>>

CsvCycle ==
    /\ type = "csv"
    /\ CsvRead
    /\ IF cresult' = "ok"
       THEN OnReadings(SetToSeq({[tag |-> n, value |-> cout'[n]] : n \in DOMAIN columns}))
       ELSE UNCHANGED shown
    /\ UNCHANGED <<loaded, mbVars>>

CsvFile == type = "csv" /\ FileTurns /\ UNCHANGED <<loaded, shown, mbVars>>

\* The poller closes its source when it ends.
PollerEnds ==
    /\ \/ type = "modbus" /\ Close /\ UNCHANGED csvVars
       \/ type = "csv" /\ CsvClose /\ UNCHANGED mbVars
    /\ UNCHANGED <<loaded, shown>>

\* The program ends when the definition is not usable.
Refused == type = "none" /\ UNCHANGED sourcesVars

SourcesNext ==
    ModbusCycle \/ ModbusDevice \/ ModbusServer \/ CsvCycle \/ CsvFile \/ PollerEnds \/ Refused

\* The poller's ticker, the deadline of a read and a device that is up go on.
SourcesSpec ==
    /\ SourcesInit /\ [][SourcesNext]_sourcesVars
    /\ WF_sourcesVars(ModbusCycle) /\ WF_sourcesVars(ModbusServer)
    /\ WF_sourcesVars(CsvCycle)

----------------------------------------------------------------------------
\* The value tag t of a block has in snapshot w: what Decode makes of its
\* registers, which is the signal's value, truncated and clamped, when the tag
\* is defined as the signal is written.
Genuine(t, w, value) ==
    /\ value = Decode(t.typ, order, SubSeq(Table(t.fn, w), t.start + 1, t.start + t.words))
    /\ \A i \in 1..Len(Signals) :
          (/\ <<t.fn, t.start, t.typ>> = <<Signals[i].fn, Signals[i].start, Signals[i].typ>>
           /\ WrittenIn(i, order) = order) =>
              value = IF t.typ = "float32" THEN Snapshots[w][i] ELSE clamp(t.typ, Snapshots[w][i])

\* After a successful cycle the topics of a block's tags show the registers of
\* one and the same snapshot, one the device had during the cycle.
Current ==
    mresult = "ok" =>
        \A i \in 1..Len(blocks) :
            \E w \in since[blocks[i].fn]..table[blocks[i].fn] :
                \A j \in 1..Len(blocks[i].tags) :
                    LET t == blocks[i].tags[j]
                    IN \A r \in ToSet(refs) : modbusTag(r) = t => Genuine(t, w, shown[r.topic])

\* A topic never shows a value put together from two snapshots, a neighbour's
\* registers, the answer to another request or a value of the wrong width or
\* sign: transact discards stale answers, Plan keeps a tag in one request,
\* the bank answers under its lock, Decode inverts Encode in every byte order.
\* (A tag name that two assets of the source share is excepted: edge.New routes
\* the readings of both to the topic of the later one.)
ReadingsGenuine == NamesClear(refs) => Current

\* The plan of an accepted definition reads every tag in exactly one request,
\* inside it; all requests are legal; and no plan that respects the gap and
\* the protocol's limit has fewer ("the minimum number", modbus.go).
PlanSound ==
    (blocks # << >> /\ mresult = "none" /\ ~conn /\ table["holding"] = 1) =>
        LET tags == {modbusTag(r) : r \in ToSet(refs)}
        IN
             /\ \A t \in tags : Cardinality({i \in 1..Len(blocks) : t \in ToSet(blocks[i].tags)}) = 1
             /\ \A i \in 1..Len(blocks) :
                   LET b == blocks[i]
                   IN /\ LegalRequest(b.start, b.count)
                      /\ OneRequest(ToSet(b.tags))
                      /\ \A t \in ToSet(b.tags) :
                            t.fn = b.fn /\ Occupied(t) \subseteq b.start..(End(b) - 1)
             /\ Len(blocks) = LeastRequests(tags)

\* Once the device answers again for good (or the looped file is there for
\* good with a row in it), cycles succeed again and again: the source
\* reconnects after every transport error and no stream is left out of step.
\* A wrong address map, which the device answers with an exception, never
\* succeeds.
SourceRecovers ==
    /\ <>[](plcOK /\ mpc # "closed" /\ blocks # << >> /\ \A i \in 1..Len(blocks) : End(blocks[i]) <= TableSize)
          => []<>(mresult = "ok")
    /\ <>[](loop /\ ~closed /\ CanOpen /\ file # NoFile /\ \E i \in 1..Len(file.rows) : Good(file.rows[i]))
          => []<>(cresult = "ok")
=============================================================================
