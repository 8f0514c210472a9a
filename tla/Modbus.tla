------------------------------- MODULE Modbus -------------------------------
(***************************************************************************)
(* A Modbus source (internal/collectors/modbus.go) polling a device over    *)
(* internal/modbus: client.go, frame.go and, on the other side, server.go   *)
(* behind which cmd/plc-sim writes the registers.                           *)
(*                                                                         *)
(* The device's registers are those of its latest snapshot; a snapshot is   *)
(* known by its number, and holding and input registers are replaced one    *)
(* after the other.  While the device is not ok it may be slow, lose a      *)
(* request, answer twice or answer nonsense; a read that times out may have *)
(* taken a part of a frame from the stream.                                 *)
(***************************************************************************)
EXTENDS ModbusPlan

CONSTANTS TidSpace,        \* transaction identifiers: 65536
          MaxPDU,          \* bytes of a PDU: 253
          Signals,         \* what the device writes: [fn, start, typ, raw], a sequence
          Snapshots,       \* their values, as Encode takes them: a sequence of sequences
          TableSize        \* registers in each table

\* An answer to the longest request fits into a PDU, its length into a byte.
ASSUME ModbusAssumption ==
    /\ TidSpace \in Nat /\ TidSpace > 2
    /\ 2 + 2 * MaxRegistersPerRead <= MaxPDU
    /\ 2 * MaxRegistersPerRead < Base
    /\ \A i \in 1..Len(Signals) : Signals[i].start + Words(Signals[i].typ) <= TableSize

VARIABLES order,       \* byte order of the device and of all tags
          blocks,      \* the read plan
          table,       \* the device's snapshot, by table
          plcOK,       \* the device answers, in time and correctly
          conn,        \* the source has a connection
          tid,         \* transaction identifier used last
          request,     \* the request under way to the device, or NoFrame
          wire,        \* frames under way to the client
          at,          \* block being read; 0 between cycles
          mpc,         \* Read: "idle", "send", "receive"; "closed"
          mout,        \* readings of this cycle
          mresult,     \* how the last cycle ended: "none", "ok", "failed"
          since        \* history: the device's snapshots when the cycle began

device == <<order, table, plcOK>>
stream == <<conn, tid, request, wire>>
cycle == <<at, mpc, mout, mresult, since>>
mbVars == <<device, blocks, stream, cycle>>

NoFrame == [tid |-> 0, fn |-> "none", data |-> << >>]

----------------------------------------------------------------------------
\* frame.go.  A frame is the transaction identifier with the PDU: the function
\* and the data.  A request's data are address and quantity, as numbers.

LegalRequest(addr, qty) ==
    /\ qty \in 1..MaxRegistersPerRead
    /\ addr + qty <= AddressSpace

ReadRegistersRequest(addr, qty) == <<addr, qty>>

ReadRegistersResponse(regs) ==
    <<(2 * Len(regs)) % Base>> \o FlattenSeq([i \in 1..Len(regs) |-> Bytes(regs[i])])

\* ParseReadRegistersResponse: the checks, and the registers.
Parses(f, fn, qty) ==
    /\ f.fn = fn
    /\ f.data # << >>
    /\ f.data[1] = 2 * qty /\ Len(f.data) - 1 = f.data[1]

ParsedRegs(data, qty) == [i \in 1..qty |-> Word(data[2 * i], data[2 * i + 1])]

----------------------------------------------------------------------------
\* The device.

\* The byte order signal i is written in; the state register ignores -byte-order.
WrittenIn(i, o) == IF Signals[i].raw THEN "ABCD" ELSE o

\* The table writeRegisters makes of snapshot n in byte order o.
Tables ==
    [o \in ByteOrders, fn \in {"holding", "input"}, n \in 1..Len(Snapshots) |->
        [a \in 1..TableSize |->
            LET here == {i \in 1..Len(Signals) :
                            /\ Signals[i].fn = fn
                            /\ a - Signals[i].start \in 1..Words(Signals[i].typ)}
            IN IF here = {} THEN 0
               ELSE LET i == CHOOSE j \in here : TRUE
                    IN Encode(Signals[i].typ, WrittenIn(i, o), Snapshots[n][i])[a - Signals[i].start]]]

Table(fn, n) == Tables[order, fn, n]

\* SetHolding, then SetInput, each under the bank's lock.
writeRegisters(fn) ==
    /\ table[fn] < Len(Snapshots)
    /\ fn = "input" => table["input"] < table["holding"]
    /\ fn = "holding" => table["input"] = table["holding"]
    /\ table' = [table EXCEPT ![fn] = @ + 1]
    /\ UNCHANGED <<order, plcOK, blocks, stream, cycle>>

\* dispatch: the bank's registers, or an exception.
dispatch(r) ==
    LET addr == r.data[1]  qty == r.data[2]
    IN IF LegalRequest(addr, qty) /\ addr + qty <= TableSize
       THEN [r EXCEPT !.data = ReadRegistersResponse(SubSeq(Table(r.fn, table[r.fn]), addr + 1, addr + qty))]
       ELSE [r EXCEPT !.fn = "exception", !.data = <<1>>]

\* Answers the device may put on the wire.
Nonsense(r) == [r EXCEPT !.fn = "none", !.data = << >>]
Answers(r) ==
    LET a == dispatch(r)
    IN IF plcOK THEN {<<a>>} ELSE {<<a>>, <<a, a>>, <<Nonsense(r)>>, << >>}

handle ==
    /\ request # NoFrame
    /\ \E frames \in Answers(request) : wire' = wire \o frames
    /\ request' = NoFrame
    /\ UNCHANGED <<device, blocks, conn, tid, cycle>>

\* The device, or the way to it, starts or stops misbehaving.
DeviceTurns ==
    /\ plcOK' = ~plcOK
    /\ UNCHANGED <<order, table, blocks, stream, cycle>>

----------------------------------------------------------------------------
\* The source: ModbusSource.Read and, inside it, transact.

\* What reading a frame the stream is out of step with gives.
Rest == [tid |-> 0, fn |-> "rest", data |-> << >>]

Return(result) ==
    /\ mresult' = result
    /\ at' = 0 /\ mpc' = "idle"
    /\ UNCHANGED since

\* Mutant: a transport error leaves the connection in use, and with it a frame
\* that was begun.
dropConn_kept(w) ==
    /\ request' = NoFrame /\ wire' = SelectSeq(w, LAMBDA f : f = Rest)
    /\ UNCHANGED <<conn, tid>>

\* Close on a transport error; w is what the stream would still hold.
dropConn(w) ==
    /\ conn' = FALSE
    /\ tid' = 0 /\ request' = NoFrame /\ wire' = << >>

\* Read begins: dial if there is no connection.
BeginRead ==
    /\ mpc = "idle"
    /\ mout' = << >>
    /\ \/ /\ conn \/ plcOK
          /\ conn' = TRUE
          /\ at' = 1 /\ mpc' = "send" /\ mresult' = "none" /\ since' = table
       \/ ~conn /\ ~plcOK /\ UNCHANGED conn /\ Return("failed")
    /\ UNCHANGED <<device, blocks, tid, request, wire>>

\* ReadRegistersRequest and the write; both may fail.
Send ==
    /\ mpc = "send"
    /\ UNCHANGED <<device, blocks, mout>>
    /\ LET b == blocks[at]
       IN \/ /\ LegalRequest(b.start, b.count)
             /\ tid' = (tid + 1) % TidSpace
             /\ request' = [tid |-> tid', fn |-> b.fn, data |-> ReadRegistersRequest(b.start, b.count)]
             /\ mpc' = "receive"
             /\ UNCHANGED <<conn, wire, at, mresult, since>>
          \/ /\ ~LegalRequest(b.start, b.count) \/ ~plcOK
             /\ dropConn(wire) /\ Return("failed")

\* Mutant: any answer is taken for the one awaited.
Awaited_any(f) == TRUE

\* The frame carries the transaction identifier of the request.
Awaited(f) == f.tid = tid

\* The readings of the tags of block b.
Readings(b, regs) ==
    [i \in 1..Len(b.tags) |->
        LET t == b.tags[i]  off == t.start - b.start
        IN [tag |-> t.name, value |-> Decode(t.typ, order, SubSeq(regs, off + 1, off + t.words))]]

\* ReadADU returns a frame: a stale one is discarded, an exception fails the
\* cycle, what does not parse fails it and drops the connection.
Receive ==
    /\ mpc = "receive" /\ wire # << >>
    /\ UNCHANGED <<device, blocks>>
    /\ LET f == Head(wire)
           b == blocks[at]
       IN \/ /\ f.fn = "rest"
             /\ dropConn(wire) /\ Return("failed") /\ UNCHANGED mout
          \/ /\ f.fn # "rest" /\ ~Awaited(f)
             /\ wire' = Tail(wire)
             /\ UNCHANGED <<conn, tid, request, cycle>>
          \/ /\ Awaited(f) /\ f.fn = "exception"
             /\ wire' = Tail(wire)
             /\ Return("failed")
             /\ UNCHANGED <<conn, tid, request, mout>>
          \/ /\ Awaited(f) /\ f.fn \notin {"rest", "exception"} /\ ~Parses(f, b.fn, b.count)
             /\ dropConn(Tail(wire)) /\ Return("failed") /\ UNCHANGED mout
          \/ /\ Awaited(f) /\ Parses(f, b.fn, b.count)
             /\ wire' = Tail(wire)
             /\ \E regs \in {ParsedRegs(f.data, b.count)} : mout' = mout \o Readings(b, regs)
             /\ IF at < Len(blocks)
                THEN at' = at + 1 /\ mpc' = "send" /\ UNCHANGED <<mresult, since>>
                ELSE Return("ok")
             /\ UNCHANGED <<conn, tid, request>>

\* The deadline passes: nothing is to come, or the device is slow.  The read
\* may have begun a frame.
Timeout ==
    /\ mpc = "receive"
    /\ ~plcOK \/ (request = NoFrame /\ wire = << >>)
    /\ dropConn(wire) \/ (wire # << >> /\ dropConn(<<Rest>> \o Tail(wire)))
    /\ Return("failed")
    /\ UNCHANGED <<device, blocks, mout>>

\* Close, by the poller when it ends.
Close ==
    /\ mpc = "idle"
    /\ mpc' = "closed"
    /\ dropConn(<< >>)
    /\ UNCHANGED <<device, blocks, at, mout, mresult, since>>
=============================================================================
