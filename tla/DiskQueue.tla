----------------------------- MODULE DiskQueue -----------------------------
(***************************************************************************)
(* internal/adapters/diskqueue/diskqueue.go: the bounded, segmented,        *)
(* append-only queue on disk that the bridge spills to.                     *)
(*                                                                         *)
(* The disk (files, headFile) outlives the process; everything else is the  *)
(* process's memory.  Every step changes the disk at most once, so a crash, *)
(* possible between any two steps, falls between any two disk operations:   *)
(* after a partial append, between the removal of a segment and the write   *)
(* of the head file, between a truncation and the write of the head file,   *)
(* in the middle of recovery.                                               *)
(*                                                                         *)
(* A file is a sequence of cells, a record of size k is k cells             *)
(* <<id, k, 1>> .. <<id, k, k>>: the first stands for the header, the       *)
(* numbering for the CRC, which only a complete record satisfies.  Records  *)
(* are numbered in the order of their pushes.                               *)
(*                                                                         *)
(* Faults names the operating-system calls that may fail: "append" (a write *)
(* that stops half-way, or an fsync), "roll" (Push opening the next         *)
(* segment), "head" (the write or rename of the head file), "remove",       *)
(* "truncate", "open" (Open opening a segment); and "corrupt", a stored     *)
(* cell going bad.  Reads fail only where the cells do not make a record.   *)
(***************************************************************************)
EXTENDS Integers, Sequences, FiniteSets, SequencesExt

CONSTANTS MaxBytes, SegmentBytes,   \* Options, as given to Open
          Sizes,                    \* record sizes
          MaxRecord,                \* maxRecordBody: the largest a reader accepts
          MaxPush,                  \* bound: number of pushes
          Crashes,                  \* the process may crash
          Faults,                   \* the calls that may fail
          MaxFaults                 \* bound: number of failures

ASSUME DiskQueueAssumption ==
    /\ MaxBytes \in Nat \ {0} /\ SegmentBytes \in Nat \ {0}
    /\ Sizes \subseteq Nat \ {0} /\ MaxRecord \in Nat
    /\ MaxPush \in Nat /\ MaxFaults \in Nat
    /\ Crashes \in BOOLEAN
    /\ Faults \subseteq {"append", "roll", "head", "remove", "truncate", "open", "corrupt"}

VARIABLES files,       \* disk: segment id -> cells
          headFile,    \* disk: <<segment id, offset>>; <<0, 0>> when absent
          segments,    \* oldest first; the last is the write tail
          headOff,     \* offset of the oldest unread record in segments[1]
          count,       \* Len()
          bytes,       \* Bytes()
          dropped,     \* Dropped()
          peeked,      \* the record Peek has cached, or None
          todo,        \* recovery: the segments still to scan
          pc,          \* where the operation in progress is
          pushed,      \* history: number of pushes begun
          accepted,    \* history: records that Push has stored whole
          released,    \* history: records acknowledged, or dropped and counted
          faults       \* history: the calls that have failed

disk == <<files, headFile>>
memory == <<segments, headOff, count, bytes, dropped, peeked, todo>>
history == <<pushed, accepted, released, faults>>
dqVars == <<disk, memory, pc, history>>

None == <<0, 0>>
Zero == <<0, 0, 0>>

\* Open: the roll-over size actually used.
SegBytes ==
    IF SegmentBytes > MaxBytes \div 2
    THEN IF MaxBytes \div 2 > 1 THEN MaxBytes \div 2 ELSE 1
    ELSE SegmentBytes

\* A call of this kind fails, or succeeds.
Fails(kind) ==
    /\ kind \in Faults /\ Len(faults) < MaxFaults
    /\ faults' = Append(faults, kind)
Succeeds == UNCHANGED faults

----------------------------------------------------------------------------
\* Records and files.

encode(id, k) == [i \in 1..k |-> <<id, k, i>>]

\* A whole, valid record starts at offset off of cells f.
ValidAt(f, off) ==
    /\ off < Len(f)
    /\ f[off + 1][2] \in 1..MaxRecord
    /\ f[off + 1][3] = 1
    /\ off + f[off + 1][2] <= Len(f)
    /\ \A i \in 1..f[off + 1][2] :
          f[off + i] = <<f[off + 1][1], f[off + 1][2], i>>

RecordAt(f, off) == <<f[off + 1][1], f[off + 1][2]>>

\* scanSegment's loop: the records from offset from up to the first position
\* that does not start a valid one.
Records(f, from) ==
    LET scan[off \in Nat] ==
            IF ValidAt(f, off)
            THEN <<RecordAt(f, off)>> \o scan[off + RecordAt(f, off)[2]]
            ELSE << >>
    IN scan[from]

\* The offset scanSegment's loop ends at.
ScanEnd(f, from) ==
    LET end[off \in Nat] ==
            IF ValidAt(f, off) THEN end[off + RecordAt(f, off)[2]] ELSE off
    IN end[from]

\* os.File.Truncate cuts a longer file and extends a shorter one with zeros.
Truncated(f, n) == [i \in 1..n |-> IF i <= Len(f) THEN f[i] ELSE Zero]

Without(f, id) == [i \in DOMAIN f \ {id} |-> f[i]]
With(f, id, cells) == [i \in DOMAIN f \cup {id} |-> IF i = id THEN cells ELSE f[i]]

\* What segment id holds; one whose file could not be created holds nothing.
Cells(id) == IF id \in DOMAIN files THEN files[id] ELSE << >>

\* The newest segment of the directory.
Newest == Max(DOMAIN files \cup {0})

\* Where the head file makes a scan of segment id start.
Start(id) == IF id = headFile[1] THEN headFile[2] ELSE 0

\* What a process opening the queue now would find unread, oldest first.
Unread ==
    FlattenSeq([id \in 1..Newest |->
        IF id \in DOMAIN files /\ id >= headFile[1]
        THEN Records(files[id], Start(id)) ELSE << >>])

----------------------------------------------------------------------------
DiskQueueInit ==
    /\ files = << >> /\ headFile = <<0, 0>>
    /\ segments = << >> /\ headOff = 0
    /\ count = 0 /\ bytes = 0 /\ dropped = 0
    /\ peeked = None /\ todo = {}
    /\ pc = "down"
    /\ pushed = 0 /\ accepted = {} /\ released = {} /\ faults = << >>

\* The process ends and its memory with it.
Exit ==
    /\ segments' = << >> /\ headOff' = 0
    /\ count' = 0 /\ bytes' = 0 /\ dropped' = 0
    /\ peeked' = None /\ todo' = {}
    /\ pc' = "down"

\* Open: a new process lists the directory and reads the head file.
Open ==
    /\ pc = "down"
    /\ pc' = "recover"
    /\ todo' = DOMAIN files
    /\ UNCHANGED <<disk, segments, headOff, count, bytes, dropped, peeked, history>>

\* Mutant: the listing is sorted the other way.
NextSegment_newest == CHOOSE id \in todo : \A j \in todo : j <= id

\* recover takes the segments of the listing in the order of their ids.
NextSegment == CHOOSE id \in todo : \A j \in todo : id <= j

\* recover and scanSegment, one segment: one older than the head is removed,
\* another is scanned, from the head offset if it is the head's, and cut
\* after its last valid record.  (min(headOff, size) is headOff: a scan from
\* beyond the end of a file extends the file to there.)
scanSegment ==
    /\ pc = "recover"
    /\ todo # {}
    /\ LET id == NextSegment
           recs == Records(files[id], Start(id))
           size == ScanEnd(files[id], Start(id))
       IN IF id < headFile[1]
          THEN /\ files' = Without(files, id)
               /\ UNCHANGED <<segments, headOff, count, bytes>>
          ELSE /\ files' = [files EXCEPT ![id] = Truncated(@, size)]
               /\ segments' = Append(segments,
                                [id |-> id, size |-> size, records |-> Len(recs)])
               /\ headOff' = IF id = headFile[1] THEN headFile[2] ELSE headOff
               /\ count' = count + Len(recs)
               /\ bytes' = bytes + size
    /\ todo' = todo \ {NextSegment}
    /\ UNCHANGED <<headFile, dropped, peeked, pc, history>>

\* A segment older than the head that cannot be removed is passed over.
recover_skip ==
    /\ pc = "recover"
    /\ todo # {}
    /\ NextSegment < headFile[1]
    /\ Fails("remove")
    /\ todo' = todo \ {NextSegment}
    /\ UNCHANGED <<disk, segments, headOff, count, bytes, dropped, peeked, pc,
                   pushed, accepted, released>>

\* A segment that cannot be opened, to be scanned or written, or not cut:
\* Open returns the error and the process ends.
recover_fails ==
    /\ pc = "recover"
    /\ Fails("open") \/ (todo # {} /\ Fails("truncate"))
    /\ Exit
    /\ UNCHANGED <<disk, pushed, accepted, released>>

\* recover, its end: without segments it begins with the first one, whose file
\* openWriter creates unless one that could not be removed is there.
recover_done ==
    /\ pc = "recover"
    /\ todo = {}
    /\ IF segments = << >>
       THEN /\ segments' = <<[id |-> 1, size |-> 0, records |-> 0]>>
            /\ files' = With(files, 1, Cells(1))
       ELSE UNCHANGED <<segments, files>>
    /\ pc' = "open_bound"
    /\ UNCHANGED <<headFile, headOff, count, bytes, dropped, peeked, todo, history>>

----------------------------------------------------------------------------
\* Push: the segments once a full tail has been rolled over.
Rolled(k) ==
    LET tail == Last(segments)
    IN IF tail.size > 0 /\ tail.size + k > SegBytes
       THEN Append(segments, [id |-> tail.id + 1, size |-> 0, records |-> 0])
       ELSE segments

\* The files once the first n cells of record id, of size k, are appended to
\* the tail (O_APPEND: after whatever the file holds).
Appended(id, k, n) ==
    LET t == Last(Rolled(k)).id
    IN With(files, t, Cells(t) \o SubSeq(encode(id, k), 1, n))

\* The writer is open on the tail.  Once a roll has failed it stays closed, and
\* every Push returns an error and changes nothing until the next Open.
Writable == Last(segments).id \in DOMAIN files

\* Mutant: the new record is not added to the byte count.
Grown_not(k) == bytes

\* The byte count with a record of size k.
Grown(k) == bytes + k

Push ==
    \E k \in Sizes :
        LET segs == Rolled(k)
        IN /\ pc = "idle" /\ Writable /\ pushed < MaxPush
           /\ files' = Appended(pushed + 1, k, k)
           /\ segments' = [segs EXCEPT ![Len(segs)].size = @ + k,
                                       ![Len(segs)].records = @ + 1]
           /\ count' = count + 1
           /\ bytes' = Grown(k)
           /\ pushed' = pushed + 1
           /\ accepted' = accepted \cup {pushed + 1}
           /\ pc' = "bound"
           /\ UNCHANGED <<headFile, headOff, dropped, peeked, todo, released, faults>>

\* The process dies in the middle of Push's write.
Push_torn ==
    \E k \in Sizes : \E n \in 0..(k - 1) :
        /\ Crashes
        /\ pc = "idle" /\ Writable /\ pushed < MaxPush
        /\ files' = Appended(pushed + 1, k, n)
        /\ pushed' = pushed + 1
        /\ Exit
        /\ UNCHANGED <<headFile, accepted, released, faults>>

\* The write fails after n cells, or the fsync after all of them: Push
\* returns the error and leaves the cells where they are.
Push_fails ==
    \E k \in Sizes : \E n \in 0..k :
        /\ pc = "idle" /\ Writable /\ pushed < MaxPush
        /\ Fails("append")
        /\ files' = Appended(pushed + 1, k, n)
        /\ segments' = Rolled(k)
        /\ pushed' = pushed + 1
        /\ UNCHANGED <<headFile, headOff, count, bytes, dropped, peeked, todo, pc,
                       accepted, released>>

\* The next segment cannot be opened: it is in the list all the same, and the
\* writer of the one before is closed.
roll_fails ==
    \E k \in Sizes :
        /\ pc = "idle" /\ Writable /\ pushed < MaxPush
        /\ Rolled(k) # segments
        /\ Fails("roll")
        /\ segments' = Rolled(k)
        /\ pushed' = pushed + 1
        /\ UNCHANGED <<disk, headOff, count, bytes, dropped, peeked, todo, pc,
                       accepted, released>>

----------------------------------------------------------------------------
\* The records of cells f from offset off on, readable or not.
Ids(f, off) == {f[i][1] : i \in (off + 1)..Len(f)} \ {0}

\* Mutant: dropHead leaves the cached record.
unpeek_not == UNCHANGED peeked

\* The cached record is forgotten with its segment.
unpeek == peeked' = None

\* dropHead up to os.Remove; writeHead follows, at pc next.  It is called
\* counting (rec = None) or by Ack, which has just consumed rec.
dropHead(rec, next) ==
    LET head == segments[1]
        acked == IF rec = None THEN 0 ELSE 1
        left == head.records - acked
    IN /\ count' = count - acked - left
       /\ bytes' = bytes - head.size
       /\ dropped' = IF rec = None THEN dropped + left ELSE dropped
       /\ released' = released \cup
             IF rec = None THEN Ids(files[head.id], headOff) ELSE {rec[1]}
       /\ unpeek
       /\ headOff' = 0
       /\ \/ /\ Succeeds
             /\ files' = Without(files, head.id)
             /\ segments' = Tail(segments)
             /\ pc' = next
          \/ /\ Fails("remove")
             /\ segments' = [segments EXCEPT ![1].records = left]
             /\ pc' = IF next = "open_head" THEN "failed" ELSE "idle"
             /\ UNCHANGED files
       /\ UNCHANGED <<headFile, todo, pushed, accepted>>

\* Mutant: one segment too many is kept.
OverBudget_keeps_two == bytes > MaxBytes /\ Len(segments) > 2

\* enforceBound, after a Push ("bound") or at the end of recover
\* ("open_bound"): drop oldest segments while over budget, never the tail.
OverBudget == bytes > MaxBytes /\ Len(segments) > 1

enforceBound_drop ==
    /\ pc \in {"bound", "open_bound"}
    /\ OverBudget
    /\ dropHead(None, IF pc = "bound" THEN "bound_head" ELSE "open_head")

enforceBound_done ==
    /\ pc \in {"bound", "open_bound"}
    /\ ~OverBudget
    /\ pc' = "idle"
    /\ UNCHANGED <<disk, memory, history>>

\* Mutant: the head file names the tail segment.
HeadSegment_tail == Last(segments).id

\* The segment the head file names.
HeadSegment == segments[1].id

\* writeHead: the temporary file and the rename make one atomic replacement.
\* A failure is the result of the operation it is part of.
writeHead ==
    /\ pc \in {"bound_head", "open_head", "ack_head"}
    /\ \/ /\ Succeeds
          /\ headFile' = <<HeadSegment, headOff>>
          /\ pc' = CASE pc = "bound_head" -> "bound"
                     [] pc = "open_head" -> "open_bound"
                     [] pc = "ack_head" -> "idle"
       \/ /\ Fails("head")
          /\ pc' = IF pc = "open_head" THEN "failed" ELSE "idle"
          /\ UNCHANGED headFile
    /\ UNCHANGED <<files, memory, pushed, accepted, released>>

----------------------------------------------------------------------------
HeadCells == Cells(segments[1].id)

\* peekLocked reads a record at the head.
Readable == peeked # None \/ ValidAt(HeadCells, headOff)

HeadRecord == IF peeked # None THEN peeked ELSE RecordAt(HeadCells, headOff)

Peek ==
    /\ pc = "idle"
    /\ count # 0
    /\ Readable
    /\ peeked' = HeadRecord
    /\ UNCHANGED <<disk, segments, headOff, count, bytes, dropped, todo, pc, history>>

\* Mutant: the head file is not written after the truncation.
resetHead_not == UNCHANGED pc

\* The emptied segment's head has still to be written.
resetHead == pc' = "ack_head"

\* resetOnly up to os.Truncate; writeHead follows.  Like dropHead it is
\* called counting (rec = None) or by Ack after it consumed rec.
resetOnly(rec) ==
    LET head == segments[1]
        acked == IF rec = None THEN 0 ELSE 1
        left == head.records - acked
    IN /\ dropped' = IF rec = None THEN dropped + left ELSE dropped
       /\ released' = released \cup
             IF rec = None THEN Ids(files[head.id], headOff) ELSE {rec[1]}
       /\ peeked' = None
       /\ \/ /\ Succeeds
             /\ files' = [files EXCEPT ![head.id] = << >>]
             /\ segments' = <<[id |-> head.id, size |-> 0, records |-> 0]>>
             /\ headOff' = 0 /\ bytes' = 0 /\ count' = 0
             /\ resetHead
          \/ /\ Fails("truncate")
             /\ segments' = [segments EXCEPT ![1].records = left]
             /\ headOff' = headOff + rec[2]
             /\ count' = count - acked
             /\ UNCHANGED <<files, bytes, pc>>
       /\ UNCHANGED <<headFile, todo, pushed, accepted>>

\* Mutant: the head moves on in memory only.
NextHead_volatile == headFile

\* The head file behind the record at the head.
NextHead == <<segments[1].id, headOff + HeadRecord[2]>>

\* Ack of a record that is not the last of its segment: the head moves on,
\* in memory even if the head file cannot be written.
Ack_advance ==
    /\ pc = "idle" /\ count # 0 /\ Readable
    /\ headOff + HeadRecord[2] < segments[1].size
    /\ headOff' = headOff + HeadRecord[2]
    /\ count' = count - 1
    /\ segments' = [segments EXCEPT ![1].records = @ - 1]
    /\ peeked' = None
    /\ released' = released \cup {HeadRecord[1]}
    /\ \/ Succeeds /\ headFile' = NextHead
       \/ Fails("head") /\ UNCHANGED headFile
    /\ UNCHANGED <<files, bytes, dropped, todo, pc, pushed, accepted>>

\* Ack of the last record of a segment: the segment is removed, or emptied
\* when it is the only one.
Ack_last ==
    /\ pc = "idle" /\ count # 0 /\ Readable
    /\ headOff + HeadRecord[2] >= segments[1].size
    /\ IF Len(segments) > 1
       THEN dropHead(HeadRecord, "ack_head")
       ELSE resetOnly(HeadRecord)

\* Ack of an unreadable record discards the head segment.  (If that is the one
\* whose file could not be created, it cannot be truncated, nothing changes.)
Ack_discard ==
    /\ pc = "idle" /\ count # 0 /\ ~Readable
    /\ segments[1].id \in DOMAIN files
    /\ IF Len(segments) > 1
       THEN dropHead(None, "ack_head")
       ELSE resetOnly(None)

\* Close writes the head cursor; the process ends.
Close ==
    /\ pc = "idle"
    /\ headFile' = <<segments[1].id, headOff>>
    /\ Exit
    /\ UNCHANGED <<files, history>>

\* Close cannot write the head cursor; the process ends all the same.
Close_fails ==
    /\ pc = "idle"
    /\ Fails("head")
    /\ Exit
    /\ UNCHANGED <<disk, pushed, accepted, released>>

\* The process dies, or ends because Open returned an error.
Crash ==
    /\ pc = "failed" \/ (Crashes /\ pc # "down")
    /\ Exit
    /\ UNCHANGED <<disk, history>>

\* A stored, unread cell goes bad.
Corrupt ==
    /\ pc = "idle"
    /\ Fails("corrupt")
    /\ \E s \in 1..Len(segments) :
          LET id == segments[s].id
          IN \E i \in (IF s = 1 THEN headOff + 1 ELSE 1)..Len(Cells(id)) :
                files' = [files EXCEPT ![id][i] = <<@[1], @[2], 0>>]
    /\ UNCHANGED <<headFile, memory, pc, pushed, accepted, released>>

DiskQueueNext ==
    \/ Open \/ scanSegment \/ recover_skip \/ recover_fails \/ recover_done
    \/ Push \/ Push_torn \/ Push_fails \/ roll_fails
    \/ enforceBound_drop \/ enforceBound_done \/ writeHead
    \/ Peek \/ Ack_advance \/ Ack_last \/ Ack_discard
    \/ Close \/ Close_fails \/ Crash \/ Corrupt

DiskQueueSpec == DiskQueueInit /\ [][DiskQueueNext]_dqVars

----------------------------------------------------------------------------
Pcs == {"down", "recover", "open_bound", "open_head", "idle", "bound",
        "bound_head", "ack_head", "failed"}

\* Types.
DiskQueueTypeOK ==
    /\ DOMAIN files \subseteq Nat \ {0}
    /\ \A id \in DOMAIN files : files[id] \in Seq(Nat \X Nat \X Nat)
    /\ headFile \in Nat \X Nat
    /\ segments \in Seq([id : Nat, size : Nat, records : Nat])
    /\ headOff \in Nat /\ count \in Nat /\ bytes \in Nat /\ dropped \in Nat
    /\ peeked \in Nat \X Nat
    /\ todo \subseteq DOMAIN files
    /\ pc \in Pcs
    /\ pushed \in 0..MaxPush
    /\ accepted \subseteq 1..pushed /\ released \subseteq 1..pushed
    /\ faults \in Seq(Faults)

\* The disk queue is a ports.Queue whatever moment the process dies at: the
\* records that a new process would find unread change only by a push at the
\* end, an ack at the front, or a counted eviction that spares the newest.
Abstract == INSTANCE StoreQueue WITH
                items <- Unread,
                Stored <- (1..MaxPush) \X Sizes
ImplementsQueue == Abstract!QueueSpec

\* What this process will deliver: the records from its own head on.
Pending ==
    FlattenSeq([i \in 1..Len(segments) |->
        Records(Cells(segments[i].id), IF i = 1 THEN headOff ELSE 0)])

\* The cells of all the files.
DiskUsed ==
    Len(FlattenSeq([id \in 1..Newest |-> Cells(id)]))

\* Between operations the process's counters say what is on the disk: Len()
\* the records it can still read, Bytes() the size of all segment files.
CountersExact ==
    pc = "idle" => count = Len(Pending) /\ bytes = DiskUsed

\* Between operations a restart would deliver exactly what this process
\* would have: nothing again, and nothing less.
RestartInvisible == pc = "idle" => Unread = Pending

\* No live segment is older than the head file says: recover, which removes
\* older segments as "fully consumed", never removes an unread record.
NoLiveStale ==
    \A id \in DOMAIN files :
        id < headFile[1] => Ids(files[id], 0) \subseteq released

\* A call of one of these kinds has failed.
Failed(kinds) == \E i \in 1..Len(faults) : faults[i] \in kinds

\* The same, unless a segment that could not be opened has become the head.
StaleExplained == NoLiveStale \/ Failed({"roll"})

\* A record that Push has stored stays readable by the next process until it
\* is acknowledged, or counted as dropped.
NoSilentLoss ==
    accepted \subseteq released \cup {Unread[i][1] : i \in 1..Len(Unread)}

\* Crashes, and removals, truncations and opens in recovery that fail, never
\* lose a stored record: that takes a failed append or roll in Push, a failed
\* write of the head file, or a bad disk.
LossExplained == NoSilentLoss \/ Failed({"append", "roll", "head", "corrupt"})

\* Records are delivered in the order of their pushes, each once: the one that
\* Peek hands out is newer than everything acknowledged or dropped before, by
\* this process or an earlier one.  Only a call that failed to make the disk
\* forget a record, or the head file pass it, can bring an old one back.
DeliveredInOrder ==
    \/ peeked # None => \A r \in released : r < peeked[1]
    \/ Failed({"head", "remove", "truncate"})

\* Between operations the files stay inside the budget, or the tail alone
\* holds a record too large for it.
DiskBound == pc = "idle" => DiskUsed <= MaxBytes \/ Cardinality(DOMAIN files) = 1

\* The record Peek has cached is the oldest one, so Ack removes the message
\* last returned by Peek.
PeekedIsHead == peeked # None => Pending # << >> /\ Head(Pending) = peeked
=============================================================================
