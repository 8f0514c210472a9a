-------------------------- MODULE DiskQueueProofs ---------------------------
(***************************************************************************)
(* What holds of the disk queue for any sizes and bounds, with the process  *)
(* dying between any two disk operations and any operating-system call      *)
(* failing: recovery removes nothing unread, and records are delivered in   *)
(* the order of their pushes.                                               *)
(***************************************************************************)
EXTENDS DiskQueue, SequenceTheorems, WellFoundedInduction, TLAPS

-----------------------------------------------------------------------------
\* What the disk queue's operators on files compute: the scan of a segment,
\* for any cells, and the joining of the records of several segments.

Cell == Nat \X Nat \X Nat
Rec == Nat \X Nat

----------------------------------------------------------------------------
\* Every nonempty set of naturals has a least element.
LEMMA LeastId ==
    ASSUME NEW T, T \subseteq Nat, T # {}
    PROVE  \E x \in T : \A y \in T : x <= y
<1> DEFINE R == OpToRel(<, Nat)
<1>1. IsWellFoundedOn(R, Nat)
    BY NatLessThanWellFounded
<1>2. \A x, y \in Nat : y < x => <<y, x>> \in R
    BY DEF OpToRel
<1> HIDE DEF R
<1>3. PICK x \in T : \A y \in T : ~ (<<y, x>> \in R)
    BY <1>1, WFMin
<1>4. \A y \in T : ~ (y < x)
    BY <1>2, <1>3, Zenon
<1>5. \A y \in T : x <= y
    BY <1>4
<1> QED
    BY <1>5

\* Induction, over the set of the numbers a fact holds of.
LEMMA SetInduction ==
    ASSUME NEW S, 0 \in S, \A n \in Nat : n \in S => n + 1 \in S
    PROVE  \A n \in Nat : n \in S
<1> SUFFICES ASSUME Nat \ S # {} PROVE FALSE
    OBVIOUS
<1>1. PICK x \in Nat \ S : \A y \in Nat \ S : x <= y
    BY LeastId
<1>2. x # 0 /\ x - 1 \in Nat /\ x - 1 < x
    BY <1>1
<1>3. x - 1 \in S
    BY <1>1, <1>2
<1>4. (x - 1) + 1 \in S /\ (x - 1) + 1 = x
    BY <1>2, <1>3
<1> QED
    BY <1>1, <1>4

\* A cell has three numbers.
LEMMA CellShape ==
    ASSUME NEW f \in Seq(Cell)
    PROVE  /\ Len(f) \in Nat /\ DOMAIN f = 1..Len(f)
           /\ \A i \in 1..Len(f) : /\ f[i] \in Cell
                                   /\ f[i][1] \in Nat /\ f[i][2] \in Nat /\ f[i][3] \in Nat
BY DEF Cell

\* A valid record is not empty and ends inside the file: the scan advances.
LEMMA ValidNext ==
    ASSUME NEW f \in Seq(Cell), NEW off \in Nat, ValidAt(f, off)
    PROVE  /\ RecordAt(f, off) \in Rec
           /\ RecordAt(f, off)[1] \in Nat /\ RecordAt(f, off)[2] \in Nat
           /\ RecordAt(f, off)[2] # 0
           /\ off + RecordAt(f, off)[2] \in Nat
           /\ off + RecordAt(f, off)[2] <= Len(f)
           /\ off < Len(f)
<1>1. Len(f) \in Nat /\ off < Len(f)
    BY DEF ValidAt
<1>2. off + 1 \in 1..Len(f)
    BY <1>1
<1> DEFINE a == f[off + 1][1]
           k == f[off + 1][2]
<1>3. a \in Nat /\ k \in Nat
    BY <1>2, CellShape
<1>4. RecordAt(f, off) = <<a, k>>
    BY DEF RecordAt
<1>5. k # 0 /\ off + k <= Len(f)
    BY <1>3, DiskQueueAssumption DEF ValidAt
<1> HIDE DEF a, k
<1> QED
    BY <1>1, <1>3, <1>4, <1>5 DEF Rec

----------------------------------------------------------------------------
\* One iteration of the scan's loop, for each of its two results.
RecStep(f, g, off) ==
    IF ValidAt(f, off) THEN <<RecordAt(f, off)>> \o g[off + RecordAt(f, off)[2]] ELSE << >>

EndStep(f, g, off) ==
    IF ValidAt(f, off) THEN g[off + RecordAt(f, off)[2]] ELSE off

\* The loop ends: the recursions that describe it have solutions.
LEMMA ScanExists ==
    ASSUME NEW f \in Seq(Cell)
    PROVE  \E g : g = [off \in Nat |-> RecStep(f, g, off)]
<1> DEFINE S == {n \in Nat : \E g : /\ g = [off \in Nat |-> g[off]]
                                    /\ \A off \in Nat : off + n >= Len(f) =>
                                                g[off] = RecStep(f, g, off)}
<1>0. Len(f) \in Nat
    OBVIOUS
<1>1. 0 \in S
    <2> DEFINE g == [off \in Nat |-> << >>]
    <2>1. \A off \in Nat : off + 0 >= Len(f) => ~ValidAt(f, off)
        BY <1>0 DEF ValidAt
    <2>2. \A off \in Nat : off + 0 >= Len(f) => g[off] = RecStep(f, g, off)
        BY <2>1 DEF RecStep
    <2>3. g = [off \in Nat |-> g[off]]
        OBVIOUS
    <2> HIDE DEF g
    <2> QED
        BY <2>2, <2>3
<1>2. ASSUME NEW n \in Nat, n \in S PROVE n + 1 \in S
    <2>1. PICK g : /\ g = [off \in Nat |-> g[off]]
                   /\ \A off \in Nat : off + n >= Len(f) => g[off] = RecStep(f, g, off)
        BY <1>2
    <2> DEFINE h == [off \in Nat |-> RecStep(f, g, off)]
    <2>2. \A off \in Nat : h[off] = RecStep(f, g, off)
        OBVIOUS
    <2>3. h = [off \in Nat |-> h[off]]
        OBVIOUS
    <2> HIDE DEF h
    <2>4. ASSUME NEW off \in Nat, off + (n + 1) >= Len(f) PROVE h[off] = RecStep(f, h, off)
        <3>1. CASE ValidAt(f, off)
            <4> DEFINE o == off + RecordAt(f, off)[2]
            <4>1. o \in Nat /\ o >= off + 1
                BY <3>1, ValidNext
            <4>2. o + n >= Len(f)
                BY <1>0, <2>4, <4>1
            <4>3. g[o] = h[o]
                BY <2>1, <2>2, <4>1, <4>2
            <4> QED
                BY <2>2, <3>1, <4>3 DEF RecStep
        <3>2. CASE ~ValidAt(f, off)
            BY <2>2, <3>2 DEF RecStep
        <3> QED
            BY <3>1, <3>2
    <2> QED
        BY <2>3, <2>4
<1>3. \A n \in Nat : n \in S
    <2> HIDE DEF S
    <2> QED
        BY <1>1, <1>2, SetInduction
<1>4. Len(f) \in S
    BY <1>0, <1>3
<1>5. PICK g : /\ g = [off \in Nat |-> g[off]]
               /\ \A off \in Nat : off + Len(f) >= Len(f) => g[off] = RecStep(f, g, off)
    BY <1>4
<1>6. \A off \in Nat : g[off] = RecStep(f, g, off)
    BY <1>0, <1>5
<1> QED
    BY <1>5, <1>6

LEMMA EndExists ==
    ASSUME NEW f \in Seq(Cell)
    PROVE  \E g : g = [off \in Nat |-> EndStep(f, g, off)]
<1> DEFINE S == {n \in Nat : \E g : /\ g = [off \in Nat |-> g[off]]
                                    /\ \A off \in Nat : off + n >= Len(f) =>
                                                g[off] = EndStep(f, g, off)}
<1>0. Len(f) \in Nat
    OBVIOUS
<1>1. 0 \in S
    <2> DEFINE g == [off \in Nat |-> off]
    <2>1. \A off \in Nat : off + 0 >= Len(f) => ~ValidAt(f, off)
        BY <1>0 DEF ValidAt
    <2>2. \A off \in Nat : off + 0 >= Len(f) => g[off] = EndStep(f, g, off)
        BY <2>1 DEF EndStep
    <2>3. g = [off \in Nat |-> g[off]]
        OBVIOUS
    <2> HIDE DEF g
    <2> QED
        BY <2>2, <2>3
<1>2. ASSUME NEW n \in Nat, n \in S PROVE n + 1 \in S
    <2>1. PICK g : /\ g = [off \in Nat |-> g[off]]
                   /\ \A off \in Nat : off + n >= Len(f) => g[off] = EndStep(f, g, off)
        BY <1>2
    <2> DEFINE h == [off \in Nat |-> EndStep(f, g, off)]
    <2>2. \A off \in Nat : h[off] = EndStep(f, g, off)
        OBVIOUS
    <2>3. h = [off \in Nat |-> h[off]]
        OBVIOUS
    <2> HIDE DEF h
    <2>4. ASSUME NEW off \in Nat, off + (n + 1) >= Len(f) PROVE h[off] = EndStep(f, h, off)
        <3>1. CASE ValidAt(f, off)
            <4> DEFINE o == off + RecordAt(f, off)[2]
            <4>1. o \in Nat /\ o >= off + 1
                BY <3>1, ValidNext
            <4>2. o + n >= Len(f)
                BY <1>0, <2>4, <4>1
            <4>3. g[o] = h[o]
                BY <2>1, <2>2, <4>1, <4>2
            <4> QED
                BY <2>2, <3>1, <4>3 DEF EndStep
        <3>2. CASE ~ValidAt(f, off)
            BY <2>2, <3>2 DEF EndStep
        <3> QED
            BY <3>1, <3>2
    <2> QED
        BY <2>3, <2>4
<1>3. \A n \in Nat : n \in S
    <2> HIDE DEF S
    <2> QED
        BY <1>1, <1>2, SetInduction
<1>4. Len(f) \in S
    BY <1>0, <1>3
<1>5. PICK g : /\ g = [off \in Nat |-> g[off]]
               /\ \A off \in Nat : off + Len(f) >= Len(f) => g[off] = EndStep(f, g, off)
    BY <1>4
<1>6. \A off \in Nat : g[off] = EndStep(f, g, off)
    BY <1>0, <1>5
<1> QED
    BY <1>5, <1>6

\* The scan, unfolded once.
LEMMA RecordsStep ==
    ASSUME NEW f \in Seq(Cell), NEW off \in Nat
    PROVE  Records(f, off) =
              IF ValidAt(f, off)
              THEN <<RecordAt(f, off)>> \o Records(f, off + RecordAt(f, off)[2])
              ELSE << >>
<1> DEFINE scan == CHOOSE g : g = [o \in Nat |-> RecStep(f, g, o)]
<1>1. scan = [o \in Nat |-> RecStep(f, scan, o)]
    BY ScanExists
<1>2. \A o : Records(f, o) = scan[o]
    BY DEF Records, RecStep
<1> HIDE DEF scan
<1> DEFINE o == off + RecordAt(f, off)[2]
<1>3. scan[off] = RecStep(f, scan, off)
    BY <1>1
<1>4. scan[off] = IF ValidAt(f, off) THEN <<RecordAt(f, off)>> \o scan[o] ELSE << >>
    BY <1>3 DEF RecStep
<1>5. scan[o] = Records(f, o) /\ scan[off] = Records(f, off)
    BY <1>2
<1> HIDE DEF o
<1>6. Records(f, off) = IF ValidAt(f, off) THEN <<RecordAt(f, off)>> \o Records(f, o) ELSE << >>
    BY <1>4, <1>5
<1> QED
    BY <1>6 DEF o

LEMMA ScanEndStep ==
    ASSUME NEW f \in Seq(Cell), NEW off \in Nat
    PROVE  ScanEnd(f, off) =
              IF ValidAt(f, off) THEN ScanEnd(f, off + RecordAt(f, off)[2]) ELSE off
<1> DEFINE end == CHOOSE g : g = [o \in Nat |-> EndStep(f, g, o)]
<1>1. end = [o \in Nat |-> EndStep(f, end, o)]
    BY EndExists
<1>2. \A o : ScanEnd(f, o) = end[o]
    BY DEF ScanEnd, EndStep
<1> HIDE DEF end
<1>3. end[off] = EndStep(f, end, off)
    BY <1>1
<1> QED
    BY <1>2, <1>3 DEF EndStep

LEMMA ScanNil ==
    ASSUME NEW f \in Seq(Cell), NEW off \in Nat, ~ValidAt(f, off)
    PROVE  Records(f, off) = << >> /\ ScanEnd(f, off) = off
BY RecordsStep, ScanEndStep

LEMMA ScanCons ==
    ASSUME NEW f \in Seq(Cell), NEW off \in Nat, ValidAt(f, off)
    PROVE  LET next == off + RecordAt(f, off)[2]
           IN Records(f, off) = <<RecordAt(f, off)>> \o Records(f, next)
              /\ ScanEnd(f, off) = ScanEnd(f, next)
BY RecordsStep, ScanEndStep

----------------------------------------------------------------------------
\* Induction along the scan, from its end.
LEMMA ScanInduction ==
    ASSUME NEW f \in Seq(Cell), NEW S,
           \A off \in Nat : ~ValidAt(f, off) => off \in S,
           \A off \in Nat : ValidAt(f, off) /\ off + RecordAt(f, off)[2] \in S => off \in S
    PROVE  \A off \in Nat : off \in S
<1> DEFINE T == {n \in Nat : \E off \in Nat \ S : off + n = Len(f)}
<1> SUFFICES ASSUME NEW off \in Nat, off \notin S PROVE FALSE
    OBVIOUS
<1>0. Len(f) \in Nat
    OBVIOUS
<1>1. ASSUME NEW o \in Nat, o \notin S PROVE ValidAt(f, o) /\ Len(f) - o \in T
    <2>1. ValidAt(f, o)
        BY <1>1
    <2>2. o < Len(f)
        BY <2>1, ValidNext
    <2> QED
        BY <1>0, <1>1, <2>1, <2>2
<1>2. T # {} /\ T \subseteq Nat
    BY <1>1
<1>3. PICK n \in T : \A m \in T : n <= m
    BY <1>2, LeastId
<1>4. PICK o \in Nat \ S : o + n = Len(f)
    BY <1>3
<1> DEFINE q == o + RecordAt(f, o)[2]
<1>5. ValidAt(f, o)
    BY <1>1, <1>4
<1>6. q \in Nat /\ q > o
    BY <1>4, <1>5, ValidNext
<1>7. q \notin S
    BY <1>4, <1>5
<1>8. Len(f) - q \in T
    BY <1>1, <1>6, <1>7
<1> HIDE DEF T, q
<1>9. n <= Len(f) - q
    BY <1>3, <1>8
<1> QED
    BY <1>0, <1>2, <1>3, <1>4, <1>6, <1>9

\* A scan yields records, and ends behind its start where no record starts.
LEMMA RecordsType ==
    ASSUME NEW f \in Seq(Cell)
    PROVE  \A off \in Nat : Records(f, off) \in Seq(Rec)
<1> DEFINE S == {off \in Nat : Records(f, off) \in Seq(Rec)}
<1>1. ASSUME NEW off \in Nat, ~ValidAt(f, off) PROVE off \in S
    <2>1. Records(f, off) = << >>
        BY <1>1, ScanNil
    <2> QED
        BY <2>1, EmptySeq
<1>2. ASSUME NEW off \in Nat, ValidAt(f, off), off + RecordAt(f, off)[2] \in S
      PROVE  off \in S
    <2> DEFINE r == RecordAt(f, off)
               t == Records(f, off + RecordAt(f, off)[2])
    <2>1. Records(f, off) = <<r>> \o t
        BY <1>2, RecordsStep
    <2>2. r \in Rec /\ t \in Seq(Rec)
        BY <1>2, ValidNext
    <2> HIDE DEF r, t
    <2>3. <<r>> \o t \in Seq(Rec)
        BY <2>2
    <2> QED
        BY <2>1, <2>3
<1> HIDE DEF S
<1>3. \A off \in Nat : off \in S
    BY <1>1, <1>2, ScanInduction
<1> QED
    BY <1>3 DEF S

LEMMA ScanEndType ==
    ASSUME NEW f \in Seq(Cell)
    PROVE  \A off \in Nat : /\ ScanEnd(f, off) \in Nat
                            /\ off <= ScanEnd(f, off)
                            /\ off <= Len(f) => ScanEnd(f, off) <= Len(f)
                            /\ ~ValidAt(f, ScanEnd(f, off))
<1> DEFINE S == {off \in Nat : /\ ScanEnd(f, off) \in Nat
                               /\ off <= ScanEnd(f, off)
                               /\ off <= Len(f) => ScanEnd(f, off) <= Len(f)
                               /\ ~ValidAt(f, ScanEnd(f, off))}
<1>0. Len(f) \in Nat
    OBVIOUS
<1>1. ASSUME NEW off \in Nat, ~ValidAt(f, off) PROVE off \in S
    BY <1>1, ScanEndStep
<1>2. ASSUME NEW off \in Nat, ValidAt(f, off), off + RecordAt(f, off)[2] \in S
      PROVE  off \in S
    <2> DEFINE q == off + RecordAt(f, off)[2]
    <2>1. ScanEnd(f, off) = ScanEnd(f, q)
        BY <1>2, ScanEndStep
    <2>2. q \in Nat /\ off < q /\ q <= Len(f)
        BY <1>2, ValidNext
    <2>3. ScanEnd(f, q) \in Nat /\ q <= ScanEnd(f, q) /\ ~ValidAt(f, ScanEnd(f, q))
          /\ (q <= Len(f) => ScanEnd(f, q) <= Len(f))
        BY <1>2
    <2> HIDE DEF q
    <2> QED
        BY <1>0, <2>1, <2>2, <2>3
<1> HIDE DEF S
<1>3. \A off \in Nat : off \in S
    BY <1>1, <1>2, ScanInduction
<1> QED
    BY <1>3 DEF S

\* Two files that agree up to offset e.
Agree(f, g, e) == e <= Len(g) /\ \A i \in 1..Len(f) : i <= e => g[i] = f[i]

LEMMA ValidSame ==
    ASSUME NEW f \in Seq(Cell), NEW g \in Seq(Cell), NEW e \in Nat, Agree(f, g, e),
           NEW off \in Nat, ValidAt(f, off), off + RecordAt(f, off)[2] <= e
    PROVE  ValidAt(g, off) /\ RecordAt(g, off) = RecordAt(f, off)
<1> DEFINE k == f[off + 1][2]
           a == f[off + 1][1]
<1>1. Len(f) \in Nat /\ Len(g) \in Nat
    OBVIOUS
<1>2. RecordAt(f, off)[2] = k
    BY DEF RecordAt
<1>3. k \in Nat /\ k # 0 /\ off + k <= Len(f) /\ off < Len(f) /\ off + k <= e
    BY <1>2, ValidNext
<1>4. a \in Nat
    BY <1>3, CellShape
<1>5. /\ f[off + 1][3] = 1 /\ k \in 1..MaxRecord
      /\ \A i \in 1..k : f[off + i] = <<a, k, i>>
    BY DEF ValidAt
<1> HIDE DEF k, a
<1>6. \A i \in 1..k : off + i \in 1..Len(f) /\ off + i <= e
    BY <1>1, <1>3
<1>7. \A i \in 1..k : g[off + i] = f[off + i]
    BY <1>6 DEF Agree
<1>8. g[off + 1] = f[off + 1]
    BY <1>3, <1>7
<1>9. off < Len(g) /\ off + k <= Len(g)
    BY <1>1, <1>3 DEF Agree
<1>10. g[off + 1][1] = a /\ g[off + 1][2] = k /\ g[off + 1][3] = 1
    BY <1>5, <1>8 DEF a, k
<1>11. \A i \in 1..k : g[off + i] = <<a, k, i>>
    BY <1>5, <1>7
<1>12. ValidAt(g, off)
    BY <1>5, <1>9, <1>10, <1>11 DEF ValidAt
<1> QED
    BY <1>8, <1>12 DEF RecordAt

\* Cells behind the end of a scan do not change what it found before.
LEMMA ScanAgree ==
    ASSUME NEW f \in Seq(Cell), NEW g \in Seq(Cell), NEW off \in Nat,
           Agree(f, g, ScanEnd(f, off))
    PROVE  /\ Records(g, off) = Records(f, off) \o Records(g, ScanEnd(f, off))
           /\ ScanEnd(g, off) = ScanEnd(g, ScanEnd(f, off))
<1> DEFINE e == ScanEnd(f, off)
           S == {o \in Nat : ScanEnd(f, o) = e =>
                                /\ Records(g, o) = Records(f, o) \o Records(g, e)
                                /\ ScanEnd(g, o) = ScanEnd(g, e)}
<1>0. e \in Nat /\ Agree(f, g, e)
    BY ScanEndType
<1> HIDE DEF e
<1>1. ASSUME NEW o \in Nat, ~ValidAt(f, o) PROVE o \in S
    <2> SUFFICES ASSUME ScanEnd(f, o) = e
                 PROVE  /\ Records(g, o) = Records(f, o) \o Records(g, e)
                        /\ ScanEnd(g, o) = ScanEnd(g, e)
        OBVIOUS
    <2>1. e = o /\ Records(f, o) = << >>
        BY <1>1, ScanEndStep, RecordsStep
    <2>2. Records(g, e) \in Seq(Rec)
        BY <1>0, RecordsType
    <2>3. << >> \o Records(g, e) = Records(g, e)
        BY <2>2
    <2> QED
        BY <2>1, <2>3
<1>2. ASSUME NEW o \in Nat, ValidAt(f, o), o + RecordAt(f, o)[2] \in S
      PROVE  o \in S
    <2> SUFFICES ASSUME ScanEnd(f, o) = e
                 PROVE  /\ Records(g, o) = Records(f, o) \o Records(g, e)
                        /\ ScanEnd(g, o) = ScanEnd(g, e)
        OBVIOUS
    <2> DEFINE q == o + RecordAt(f, o)[2]
               r == RecordAt(f, o)
    <2>1. ScanEnd(f, q) = e /\ Records(f, o) = <<r>> \o Records(f, q)
        BY <1>2, ScanEndStep, RecordsStep
    <2>2. q \in Nat /\ r \in Rec
        BY <1>2, ValidNext
    <2>3. q <= e
        BY <2>1, <2>2, ScanEndType
    <2>4. ValidAt(g, o) /\ RecordAt(g, o) = r
        BY <1>0, <1>2, <2>3, ValidSame
    <2>5. Records(g, o) = <<r>> \o Records(g, q) /\ ScanEnd(g, o) = ScanEnd(g, q)
        BY <2>4, RecordsStep, ScanEndStep
    <2>6. Records(g, q) = Records(f, q) \o Records(g, e) /\ ScanEnd(g, q) = ScanEnd(g, e)
        BY <1>2, <2>1
    <2> DEFINE x == Records(f, q)
               y == Records(g, e)
    <2>7. x \in Seq(Rec) /\ y \in Seq(Rec)
        BY <1>0, <2>2, RecordsType
    <2> HIDE DEF x, y, r
    <2>9. <<r>> \in Seq(Rec)
        BY <2>2
    <2>8. (<<r>> \o x) \o y = <<r>> \o (x \o y)
        BY <2>7, <2>9, ConcatAssociative
    <2> QED
        BY <2>1, <2>5, <2>6, <2>8 DEF x, y
<1> HIDE DEF S
<1>3. \A o \in Nat : o \in S
    BY <1>1, <1>2, ScanInduction
<1>4. off \in S
    BY <1>3
<1> QED
    BY <1>4 DEF S, e

----------------------------------------------------------------------------
\* Appending to a file.

LEMMA EncodeCells ==
    ASSUME NEW id \in Nat, NEW k \in Nat, NEW n \in 0..k
    PROVE  LET c == SubSeq(encode(id, k), 1, n)
           IN c \in Seq(Cell) /\ Len(c) = n /\ \A i \in 1..n : c[i] = <<id, k, i>>
<1> DEFINE e == encode(id, k)
           c == SubSeq(e, 1, n)
<1>1. e = [i \in 1..k |-> <<id, k, i>>]
    BY DEF encode
<1>2. \A i \in 1..k : <<id, k, i>> \in Cell
    BY DEF Cell
<1> HIDE DEF e
<1>3. e \in [1..k -> Cell]
    BY <1>1, <1>2
<1>4. e \in Seq(Cell) /\ Len(e) = k
    BY <1>3
<1>5. 1 \in 1..(k + 1) /\ n \in 0..Len(e) /\ n \in Nat
    BY <1>4
<1>6. c \in Seq(Cell) /\ Len(c) = n
    BY <1>4, <1>5, SubSeqProperties
<1>7. \A i \in 1..n : c[i] = e[i]
    BY <1>4, <1>5, SubSeqProperties
<1>8. \A i \in 1..n : e[i] = <<id, k, i>>
    BY <1>1
<1> QED
    BY <1>6, <1>7, <1>8 DEF e

LEMMA WholeEncoding ==
    ASSUME NEW id \in Nat, NEW k \in Nat
    PROVE  SubSeq(encode(id, k), 1, k) = encode(id, k)
<1> DEFINE e == encode(id, k)
<1>1. e = [i \in 1..k |-> <<id, k, i>>]
    BY DEF encode
<1>2. \A i \in 1..k : <<id, k, i>> \in Cell
    BY DEF Cell
<1> HIDE DEF e
<1>3. e \in [1..k -> Cell]
    BY <1>1, <1>2
<1>4. e \in Seq(Cell) /\ Len(e) = k
    BY <1>3
<1>5. SubSeq(e, 1, Len(e)) = e
    BY <1>4, SubSeqFull
<1> QED
    BY <1>4, <1>5 DEF e

LEMMA AppendCells ==
    ASSUME NEW f \in Seq(Cell), NEW c \in Seq(Cell)
    PROVE  /\ f \o c \in Seq(Cell) /\ Len(f \o c) = Len(f) + Len(c)
           /\ \A i \in 1..Len(f) : (f \o c)[i] = f[i]
           /\ \A i \in 1..Len(c) : (f \o c)[Len(f) + i] = c[i]
<1>1. Len(f) \in Nat /\ Len(c) \in Nat
    OBVIOUS
<1> QED
    BY <1>1, ConcatProperties

\* A record appended whole is found by the scan, a part of one is not.
LEMMA AppendedScan ==
    ASSUME NEW f \in Seq(Cell), NEW id \in Nat, NEW k \in Nat \ {0}, k <= MaxRecord, NEW n \in 0..k
    PROVE  LET g == f \o SubSeq(encode(id, k), 1, n)
           IN /\ g \in Seq(Cell) /\ Len(g) = Len(f) + n
              /\ n < k => Records(g, Len(f)) = << >> /\ ScanEnd(g, Len(f)) = Len(f)
              /\ n = k => Records(g, Len(f)) = <<<<id, k>>>> /\ ScanEnd(g, Len(f)) = Len(f) + k
<1> DEFINE c == SubSeq(encode(id, k), 1, n)
           g == f \o c
           m == Len(f)
<1>1. c \in Seq(Cell) /\ Len(c) = n /\ \A i \in 1..n : c[i] = <<id, k, i>>
    BY EncodeCells
<1> HIDE DEF c
<1>2. /\ g \in Seq(Cell) /\ Len(g) = m + n
      /\ \A i \in 1..n : g[m + i] = <<id, k, i>>
    BY <1>1, AppendCells
<1>3. m \in Nat /\ m + k \in Nat /\ n \in Nat
    OBVIOUS
<1> HIDE DEF g, m
<1>4. ASSUME n < k PROVE ~ValidAt(g, m)
    <2> SUFFICES ASSUME ValidAt(g, m) PROVE FALSE
        OBVIOUS
    <2>1. m < Len(g)
        BY DEF ValidAt
    <2>2. 1 \in 1..n
        BY <1>2, <1>3, <2>1
    <2>3. g[m + 1] = <<id, k, 1>>
        BY <1>2, <2>2
    <2>4. m + k <= Len(g)
        BY <2>3 DEF ValidAt
    <2> QED
        BY <1>2, <1>3, <1>4, <2>4
<1>5. ASSUME n = k PROVE ValidAt(g, m) /\ RecordAt(g, m) = <<id, k>>
    <2>1. 1 \in 1..n
        BY <1>3, <1>5
    <2>2. g[m + 1] = <<id, k, 1>>
        BY <1>2, <2>1
    <2>3. k \in 1..MaxRecord
        BY <1>3, DiskQueueAssumption
    <2>4. m < Len(g) /\ m + k <= Len(g)
        BY <1>2, <1>3, <1>5
    <2> QED
        BY <1>2, <1>5, <2>2, <2>3, <2>4 DEF ValidAt, RecordAt
<1>6. ASSUME n = k PROVE Records(g, m) = <<<<id, k>>>> /\ ScanEnd(g, m) = m + k
    <2>1. ~ValidAt(g, m + k)
        BY <1>2, <1>3, <1>6 DEF ValidAt
    <2>2. Records(g, m + k) = << >> /\ ScanEnd(g, m + k) = m + k
        BY <1>2, <1>3, <2>1, ScanNil
    <2>3. /\ Records(g, m) = <<<<id, k>>>> \o Records(g, m + k)
          /\ ScanEnd(g, m) = ScanEnd(g, m + k)
        <3>1. g \in Seq(Cell) /\ m \in Nat /\ ValidAt(g, m)
            BY <1>2, <1>3, <1>5, <1>6
        <3>2. /\ Records(g, m) = <<RecordAt(g, m)>> \o Records(g, m + RecordAt(g, m)[2])
              /\ ScanEnd(g, m) = ScanEnd(g, m + RecordAt(g, m)[2])
            BY <3>1, ScanCons
        <3>3. RecordAt(g, m) = <<id, k>> /\ RecordAt(g, m)[2] = k
            BY <1>5, <1>6
        <3> QED
            BY <3>2, <3>3
    <2>4. <<id, k>> \in Rec
        BY DEF Rec
    <2>5. <<<<id, k>>>> \o << >> = <<<<id, k>>>>
        <3> DEFINE r == <<id, k>>
        <3>1. r \in Rec
            BY <2>4
        <3> HIDE DEF r
        <3>2. <<r>> \in Seq(Rec)
            BY <3>1
        <3>3. <<r>> \o << >> = <<r>>
            BY <3>2, ConcatEmptySeq
        <3> QED
            BY <3>3 DEF r
    <2> QED
        BY <2>2, <2>3, <2>5
<1>7. ASSUME n < k PROVE Records(g, m) = << >> /\ ScanEnd(g, m) = m
    BY <1>2, <1>3, <1>4, <1>7, ScanNil
<1> QED
    BY <1>2, <1>6, <1>7 DEF g, m, c

\* A file that is whole from offset off on: records and nothing else.
Whole(f, off) == off <= Len(f) /\ ScanEnd(f, off) = Len(f)

LEMMA PushScan ==
    ASSUME NEW f \in Seq(Cell), NEW off \in Nat, Whole(f, off),
           NEW id \in Nat, NEW k \in Nat \ {0}, k <= MaxRecord
    PROVE  LET g == f \o encode(id, k)
           IN /\ g \in Seq(Cell) /\ Len(g) = Len(f) + k /\ Whole(g, off)
              /\ Records(g, off) = Append(Records(f, off), <<id, k>>)
<1> DEFINE c == encode(id, k)
           g == f \o c
<1>1. c = SubSeq(encode(id, k), 1, k) /\ k \in 0..k
    BY WholeEncoding
<1> HIDE DEF c
<1>2. /\ g \in Seq(Cell) /\ Len(g) = Len(f) + k
      /\ Records(g, Len(f)) = <<<<id, k>>>> /\ ScanEnd(g, Len(f)) = Len(f) + k
    BY <1>1, AppendedScan
<1>3. c \in Seq(Cell)
    BY <1>1, EncodeCells
<1>4. Len(f) \in Nat /\ \A i \in 1..Len(f) : g[i] = f[i]
    BY <1>3, AppendCells
<1> HIDE DEF g
<1>5. Agree(f, g, ScanEnd(f, off))
    BY <1>2, <1>4 DEF Agree, Whole
<1>6. Records(g, off) = Records(f, off) \o <<<<id, k>>>> /\ ScanEnd(g, off) = Len(f) + k
    <2>1. g \in Seq(Cell)
        BY <1>2
    <2>2. /\ Records(g, off) = Records(f, off) \o Records(g, ScanEnd(f, off))
          /\ ScanEnd(g, off) = ScanEnd(g, ScanEnd(f, off))
        BY <1>5, <2>1, ScanAgree
    <2>3. ScanEnd(f, off) = Len(f)
        BY DEF Whole
    <2> QED
        BY <1>2, <2>2, <2>3
<1>7. Records(f, off) \o <<<<id, k>>>> = Append(Records(f, off), <<id, k>>)
    <2> DEFINE r == <<id, k>>
               s == Records(f, off)
    <2>1. r \in Rec /\ s \in Seq(Rec)
        BY RecordsType DEF Rec
    <2> HIDE DEF r, s
    <2>2. s \o <<r>> = Append(s, r)
        BY <2>1
    <2> QED
        BY <2>2 DEF r, s
<1>8. Whole(g, off)
    BY <1>2, <1>4, <1>6 DEF Whole
<1> QED
    BY <1>2, <1>6, <1>7, <1>8 DEF g, c

LEMMA TornScan ==
    ASSUME NEW f \in Seq(Cell), NEW off \in Nat, Whole(f, off),
           NEW id \in Nat, NEW k \in Nat \ {0}, k <= MaxRecord, NEW n \in 0..(k - 1)
    PROVE  LET g == f \o SubSeq(encode(id, k), 1, n)
           IN g \in Seq(Cell) /\ Records(g, off) = Records(f, off) /\ ScanEnd(g, off) = Len(f)
<1> DEFINE c == SubSeq(encode(id, k), 1, n)
           g == f \o c
<1>0. c = SubSeq(encode(id, k), 1, n)
    OBVIOUS
<1>1. n \in 0..k /\ n < k
    OBVIOUS
<1> HIDE DEF c
<1>2. /\ g \in Seq(Cell) /\ Len(g) = Len(f) + n
      /\ n < k => Records(g, Len(f)) = << >> /\ ScanEnd(g, Len(f)) = Len(f)
    <2>1. n \in 0..k
        BY <1>1
    <2> QED
        BY <1>0, <2>1, AppendedScan
<1>3. c \in Seq(Cell)
    BY <1>0, <1>1, EncodeCells
<1>4. Len(f) \in Nat /\ \A i \in 1..Len(f) : g[i] = f[i]
    BY <1>3, AppendCells
<1> HIDE DEF g
<1>5. Agree(f, g, ScanEnd(f, off))
    BY <1>2, <1>4 DEF Agree, Whole
<1>6. Records(g, off) = Records(f, off) \o << >> /\ ScanEnd(g, off) = Len(f)
    <2>1. g \in Seq(Cell)
        BY <1>2
    <2>2. /\ Records(g, off) = Records(f, off) \o Records(g, ScanEnd(f, off))
          /\ ScanEnd(g, off) = ScanEnd(g, ScanEnd(f, off))
        BY <1>5, <2>1, ScanAgree
    <2>3. ScanEnd(f, off) = Len(f)
        BY DEF Whole
    <2> QED
        BY <1>1, <1>2, <2>2, <2>3
<1>7. Records(f, off) \o << >> = Records(f, off)
    BY RecordsType, ConcatEmptySeq
<1> QED
    BY <1>2, <1>6, <1>7 DEF g, c

----------------------------------------------------------------------------
\* Cutting a file where the scan ended.
LEMMA TruncatedCells ==
    ASSUME NEW f \in Seq(Cell), NEW n \in Nat
    PROVE  /\ Truncated(f, n) \in Seq(Cell) /\ Len(Truncated(f, n)) = n
           /\ \A i \in 1..n : Truncated(f, n)[i] = IF i <= Len(f) THEN f[i] ELSE Zero
<1> DEFINE g == Truncated(f, n)
<1>1. g = [i \in 1..n |-> IF i <= Len(f) THEN f[i] ELSE Zero]
    BY DEF Truncated
<1>2. Zero \in Cell
    BY DEF Zero, Cell
<1>3. \A i \in 1..n : (IF i <= Len(f) THEN f[i] ELSE Zero) \in Cell
    BY <1>2, CellShape
<1> HIDE DEF g
<1>4. g \in [1..n -> Cell]
    BY <1>1, <1>3
<1>5. g \in Seq(Cell) /\ Len(g) = n
    BY <1>4
<1> QED
    BY <1>1, <1>5 DEF g

LEMMA TruncatedScan ==
    ASSUME NEW f \in Seq(Cell), NEW off \in Nat
    PROVE  LET g == Truncated(f, ScanEnd(f, off))
           IN /\ g \in Seq(Cell) /\ Len(g) = ScanEnd(f, off)
              /\ Records(g, off) = Records(f, off) /\ Whole(g, off)
<1> DEFINE e == ScanEnd(f, off)
           g == Truncated(f, e)
<1>1. e \in Nat /\ off <= e
    BY ScanEndType
<1>2. /\ g \in Seq(Cell) /\ Len(g) = e
      /\ \A i \in 1..e : g[i] = IF i <= Len(f) THEN f[i] ELSE Zero
    BY <1>1, TruncatedCells
<1> HIDE DEF g
<1>3. Len(f) \in Nat
    OBVIOUS
<1>4. Agree(f, g, e)
    BY <1>1, <1>2, <1>3 DEF Agree
<1>5. ~ValidAt(g, e)
    BY <1>1, <1>2 DEF ValidAt
<1>6. Records(g, e) = << >> /\ ScanEnd(g, e) = e
    BY <1>1, <1>2, <1>5, ScanNil
<1>7. Records(g, off) = Records(f, off) \o << >> /\ ScanEnd(g, off) = e
    <2>1. g \in Seq(Cell) /\ Agree(f, g, ScanEnd(f, off))
        BY <1>2, <1>4
    <2>2. /\ Records(g, off) = Records(f, off) \o Records(g, ScanEnd(f, off))
          /\ ScanEnd(g, off) = ScanEnd(g, ScanEnd(f, off))
        BY <2>1, ScanAgree, Zenon
    <2> QED
        BY <1>6, <2>2
<1>8. Records(f, off) \o << >> = Records(f, off)
    BY RecordsType, ConcatEmptySeq
<1> QED
    BY <1>1, <1>2, <1>7, <1>8 DEF g, Whole

\* Reading one record of a whole file.
LEMMA AdvanceScan ==
    ASSUME NEW f \in Seq(Cell), NEW off \in Nat, ValidAt(f, off)
    PROVE  LET next == off + RecordAt(f, off)[2]
           IN /\ Records(f, off) # << >>
              /\ Head(Records(f, off)) = RecordAt(f, off)
              /\ Records(f, next) = Tail(Records(f, off))
              /\ Len(Records(f, next)) = Len(Records(f, off)) - 1
              /\ Whole(f, off) => Whole(f, next)
<1> DEFINE r == RecordAt(f, off)
           next == off + RecordAt(f, off)[2]
           t == Records(f, next)
<1>1. next \in Nat /\ next <= Len(f) /\ r \in Rec
    BY ValidNext
<1>2. Records(f, off) = <<r>> \o t /\ ScanEnd(f, off) = ScanEnd(f, next)
    BY ScanCons
<1>3. t \in Seq(Rec)
    BY <1>1, RecordsType
<1>4. Whole(f, off) => Whole(f, next)
    BY <1>1, <1>2 DEF Whole
<1> HIDE DEF r, t
<1>5. /\ <<r>> \o t \in Seq(Rec) /\ <<r>> \o t # << >>
      /\ Head(<<r>> \o t) = r /\ Tail(<<r>> \o t) = t /\ Len(t) = Len(<<r>> \o t) - 1
    BY <1>1, <1>3
<1> QED
    BY <1>2, <1>4, <1>5 DEF r, t

----------------------------------------------------------------------------
\* Joining sequences.

\* Induction on sequences, over the set of those a fact holds of.
LEMMA AppendInduction ==
    ASSUME NEW E, NEW T, << >> \in T,
           \A s \in Seq(E) : \A e \in E : s \in T => Append(s, e) \in T
    PROVE  \A s \in Seq(E) : s \in T
<1> DEFINE S == {n \in Nat : \A s \in Seq(E) : Len(s) = n => s \in T}
<1>1. 0 \in S
    <2>1. \A s \in Seq(E) : Len(s) = 0 => s = << >>
        BY EmptySeq
    <2> QED
        BY <2>1
<1>2. ASSUME NEW n \in Nat, n \in S PROVE n + 1 \in S
    <2> SUFFICES ASSUME NEW s \in Seq(E), Len(s) = n + 1 PROVE s \in T
        OBVIOUS
    <2>1. s # << >>
        BY EmptySeq
    <2>2. PICK t \in Seq(E), e \in E : s = Append(t, e)
        BY <2>1, SequenceEmptyOrAppend
    <2>3. Len(s) = Len(t) + 1 /\ Len(t) \in Nat
        BY <2>2, AppendProperties
    <2>4. t \in T
        BY <1>2, <2>3
    <2> QED
        BY <2>2, <2>4
<1> HIDE DEF S
<1>3. \A n \in Nat : n \in S
    BY <1>1, <1>2, SetInduction
<1> QED
    BY <1>3 DEF S

\* FlattenSeq's recursion, and its solutions.
Joins(g, s, n) == g = [i \in 1..n |-> IF i = 1 THEN s[i] ELSE g[i - 1] \o s[i]]

LEMMA JoinExists ==
    ASSUME NEW s
    PROVE  \A n \in Nat : \E g : Joins(g, s, n)
<1> DEFINE S == {n \in Nat : \E g : Joins(g, s, n)}
<1>1. 0 \in S
    <2> DEFINE g == [i \in 1..0 |-> s]
    <2>1. Joins(g, s, 0)
        BY DEF Joins
    <2> QED
        BY <2>1
<1>2. ASSUME NEW n \in Nat, n \in S PROVE n + 1 \in S
    <2>1. PICK g : Joins(g, s, n)
        BY <1>2
    <2> DEFINE h == [i \in 1..(n + 1) |-> IF i = 1 THEN s[i] ELSE g[i - 1] \o s[i]]
    <2>2. \A i \in 1..n : g[i] = IF i = 1 THEN s[i] ELSE g[i - 1] \o s[i]
        BY <2>1 DEF Joins
    <2>3. \A i \in 1..n : i \in 1..(n + 1)
        OBVIOUS
    <2>4. \A i \in 1..n : h[i] = g[i]
        BY <2>2, <2>3
    <2>5. \A i \in 1..(n + 1) : i # 1 => i - 1 \in 1..n
        OBVIOUS
    <2>6. h = [i \in 1..(n + 1) |-> IF i = 1 THEN s[i] ELSE h[i - 1] \o s[i]]
        BY <2>4, <2>5
    <2>7. Joins(h, s, n + 1)
        BY <2>6 DEF Joins
    <2> QED
        BY <2>7
<1> HIDE DEF S
<1>3. \A n \in Nat : n \in S
    BY <1>1, <1>2, SetInduction
<1> QED
    BY <1>3 DEF S

SameUpTo(s, t, n) == \A i \in 1..n : s[i] = t[i]

LEMMA JoinUnique ==
    ASSUME NEW s, NEW t, NEW n \in Nat, NEW m \in Nat, NEW g, NEW h,
           Joins(g, s, n), Joins(h, t, m), n <= m, SameUpTo(s, t, n)
    PROVE  SameUpTo(g, h, n)
<1> DEFINE S == {i \in Nat : i \in 1..n => g[i] = h[i]}
<1>1. 0 \in S
    OBVIOUS
<1>2. ASSUME NEW i \in Nat, i \in S PROVE i + 1 \in S
    <2> SUFFICES ASSUME i + 1 \in 1..n PROVE g[i + 1] = h[i + 1]
        OBVIOUS
    <2> DEFINE j == i + 1
    <2>1. j \in 1..n /\ j \in 1..m /\ (j # 1 => j - 1 \in 1..n) /\ j - 1 = i
        OBVIOUS
    <2> HIDE DEF j
    <2>2. g[j] = IF j = 1 THEN s[j] ELSE g[j - 1] \o s[j]
        BY <2>1 DEF Joins
    <2>3. h[j] = IF j = 1 THEN t[j] ELSE h[j - 1] \o t[j]
        BY <2>1 DEF Joins
    <2>4. j # 1 => g[j - 1] = h[j - 1]
        BY <1>2, <2>1
    <2>5. s[j] = t[j]
        BY <2>1 DEF SameUpTo
    <2>6. g[j] = h[j]
        BY <2>2, <2>3, <2>4, <2>5
    <2> QED
        BY <2>6 DEF j
<1> HIDE DEF S
<1>3. \A i \in Nat : i \in S
    BY <1>1, <1>2, SetInduction
<1> QED
    BY <1>3 DEF S, SameUpTo

LEMMA FlattenJoins ==
    ASSUME NEW s, NEW n \in Nat \ {0}, Len(s) = n
    PROVE  \E g : Joins(g, s, n) /\ FlattenSeq(s) = g[n]
<1> DEFINE g == CHOOSE h : h = [i \in 1..Len(s) |-> IF i = 1 THEN s[i] ELSE h[i - 1] \o s[i]]
<1>1. \E h : Joins(h, s, n)
    BY JoinExists
<1>2. g = [i \in 1..Len(s) |-> IF i = 1 THEN s[i] ELSE g[i - 1] \o s[i]]
    BY <1>1 DEF Joins
<1>3. FlattenSeq(s) = g[Len(s)]
    BY DEF FlattenSeq
<1> HIDE DEF g
<1>4. Joins(g, s, n)
    BY <1>2 DEF Joins
<1> QED
    BY <1>3, <1>4

LEMMA FlattenEmpty == FlattenSeq(<< >>) = << >>
BY DEF FlattenSeq

LEMMA FlattenAppend ==
    ASSUME NEW X, NEW s \in Seq(Seq(X)), NEW x \in Seq(X)
    PROVE  FlattenSeq(Append(s, x)) = FlattenSeq(s) \o x
<1> DEFINE E == Seq(X)
           t == Append(s, x)
           n == Len(s)
<1>1. n \in Nat /\ s \in Seq(E) /\ x \in E
    OBVIOUS
<1> HIDE DEF E
<1>2. Len(t) = n + 1 /\ (\A i \in 1..n : t[i] = s[i]) /\ t[n + 1] = x
    BY <1>1, AppendProperties
<1> HIDE DEF t, n
<1>3. PICK h : Joins(h, t, n + 1) /\ FlattenSeq(t) = h[n + 1]
    BY <1>1, <1>2, FlattenJoins
<1>4. CASE n = 0
    <2>1. FlattenSeq(t) = x
        BY <1>2, <1>3, <1>4 DEF Joins
    <2>2. s = << >>
        BY <1>1, <1>4, EmptySeq DEF n
    <2>3. FlattenSeq(s) \o x = x
        BY <1>1, <2>2, FlattenEmpty, ConcatEmptySeq DEF E
    <2> QED
        BY <2>1, <2>3 DEF t
<1>5. CASE n # 0
    <2>1. n \in Nat \ {0} /\ Len(s) = n
        BY <1>1, <1>5 DEF n
    <2>2. PICK g : Joins(g, s, n) /\ FlattenSeq(s) = g[n]
        BY <2>1, FlattenJoins
    <2>3. n + 1 \in Nat /\ n <= n + 1 /\ \A i \in 1..n : s[i] = t[i]
        BY <1>1, <1>2
    <2>4. \A i \in 1..n : g[i] = h[i]
        <3> DEFINE m == n + 1
        <3>1. n \in Nat /\ m \in Nat /\ n <= m /\ Joins(h, t, m) /\ Joins(g, s, n)
            BY <1>1, <1>3, <2>2, <2>3
        <3>2. SameUpTo(s, t, n)
            BY <2>3 DEF SameUpTo
        <3> HIDE DEF m
        <3>3. SameUpTo(g, h, n)
            BY <3>1, <3>2, JoinUnique, Zenon
        <3> QED
            BY <3>3 DEF SameUpTo
    <2>5. g[n] = h[n]
        BY <2>1, <2>4
    <2>6. n + 1 \in 1..(n + 1) /\ n + 1 # 1 /\ (n + 1) - 1 = n
        BY <2>1
    <2>7. h[n + 1] = h[n] \o t[n + 1]
        BY <1>3, <2>6 DEF Joins
    <2> QED
        BY <1>2, <1>3, <2>2, <2>5, <2>7 DEF t
<1> QED
    BY <1>4, <1>5

LEMMA FlattenType ==
    ASSUME NEW X
    PROVE  \A s \in Seq(Seq(X)) : FlattenSeq(s) \in Seq(X)
<1> DEFINE E == Seq(X)
           T == {s \in Seq(Seq(X)) : FlattenSeq(s) \in Seq(X)}
<1>1. << >> \in T
    BY FlattenEmpty, EmptySeq
<1>2. ASSUME NEW s \in Seq(E), NEW e \in E, s \in T PROVE Append(s, e) \in T
    <2>1. FlattenSeq(Append(s, e)) = FlattenSeq(s) \o e
        BY FlattenAppend
    <2>2. FlattenSeq(s) \o e \in Seq(X)
        BY <1>2, ConcatProperties
    <2>3. Append(s, e) \in Seq(E)
        BY AppendProperties
    <2> QED
        BY <2>1, <2>2, <2>3
<1> HIDE DEF T, E
<1>3. \A s \in Seq(E) : s \in T
    BY <1>1, <1>2, AppendInduction
<1> QED
    BY <1>3 DEF T, E

LEMMA FlattenConcat ==
    ASSUME NEW X, NEW s \in Seq(Seq(X))
    PROVE  \A t \in Seq(Seq(X)) : FlattenSeq(s \o t) = FlattenSeq(s) \o FlattenSeq(t)
<1> DEFINE E == Seq(X)
           T == {t \in Seq(Seq(X)) : FlattenSeq(s \o t) = FlattenSeq(s) \o FlattenSeq(t)}
           fs == FlattenSeq(s)
<1>0. fs \in Seq(X)
    BY FlattenType
<1>1. << >> \in T
    <2>1. s \o << >> = s
        BY ConcatEmptySeq
    <2>2. fs \o << >> = fs
        BY <1>0, ConcatEmptySeq
    <2>3. << >> \in Seq(Seq(X))
        BY EmptySeq
    <2> QED
        BY <2>1, <2>2, <2>3, FlattenEmpty
<1>2. ASSUME NEW t \in Seq(E), NEW e \in E, t \in T PROVE Append(t, e) \in T
    <2> DEFINE ft == FlattenSeq(t)
    <2>1. FlattenSeq(Append(t, e)) = ft \o e
        BY FlattenAppend
    <2>2. s \o Append(t, e) = Append(s \o t, e)
        <3>1. s \in Seq(E)
            OBVIOUS
        <3> HIDE DEF E
        <3>2. Append(t, e) = t \o <<e>> /\ <<e>> \in Seq(E)
            BY AppendIsConcat
        <3>3. s \o t \in Seq(E)
            BY <3>1, ConcatProperties
        <3>4. Append(s \o t, e) = (s \o t) \o <<e>>
            BY <3>3, AppendIsConcat
        <3>5. (s \o t) \o <<e>> = s \o (t \o <<e>>)
            BY <3>1, <3>2, ConcatAssociative
        <3> QED
            BY <3>2, <3>4, <3>5
    <2>3. s \o t \in Seq(Seq(X))
        BY ConcatProperties
    <2>4. FlattenSeq(Append(s \o t, e)) = FlattenSeq(s \o t) \o e
        BY <2>3, FlattenAppend
    <2>5. FlattenSeq(s \o t) = fs \o ft
        BY <1>2
    <2>6. ft \in Seq(X) /\ e \in Seq(X)
        BY FlattenType
    <2> HIDE DEF fs, ft
    <2>7. (fs \o ft) \o e = fs \o (ft \o e)
        BY <1>0, <2>6, ConcatAssociative
    <2>8. Append(t, e) \in Seq(Seq(X))
        <3>1. t \in Seq(E) /\ e \in E
            OBVIOUS
        <3> HIDE DEF E
        <3>2. Append(t, e) \in Seq(E)
            BY <3>1, AppendProperties
        <3> QED
            BY <3>2 DEF E
    <2>9. FlattenSeq(s \o Append(t, e)) = fs \o FlattenSeq(Append(t, e))
        BY <2>1, <2>2, <2>4, <2>5, <2>7
    <2> QED
        BY <2>8, <2>9 DEF fs
<1> HIDE DEF T, E
<1>3. \A t \in Seq(E) : t \in T
    BY <1>1, <1>2, AppendInduction
<1> QED
    BY <1>3 DEF T, E

Blank(s) == \A i \in 1..Len(s) : s[i] = << >>

LEMMA FlattenBlank ==
    ASSUME NEW X
    PROVE  \A s \in Seq(Seq(X)) : Blank(s) => FlattenSeq(s) = << >>
<1> DEFINE E == Seq(X)
           T == {s \in Seq(Seq(X)) : Blank(s) => FlattenSeq(s) = << >>}
<1>1. << >> \in T
    BY FlattenEmpty, EmptySeq
<1>2. ASSUME NEW s \in Seq(E), NEW e \in E, s \in T PROVE Append(s, e) \in T
    <2> DEFINE t == Append(s, e)
    <2>1. FlattenSeq(t) = FlattenSeq(s) \o e
        BY FlattenAppend
    <2>2. t \in Seq(E) /\ Len(t) = Len(s) + 1 /\ t[Len(s) + 1] = e /\ Len(s) \in Nat
          /\ \A i \in 1..Len(s) : t[i] = s[i]
        BY AppendProperties
    <2> HIDE DEF t
    <2>3. ASSUME Blank(t) PROVE FlattenSeq(t) = << >>
        <3>1. e = << >>
            BY <2>2, <2>3 DEF Blank
        <3>2. Blank(s)
            <4>1. \A i \in 1..Len(s) : i \in 1..Len(t) /\ t[i] = s[i]
                BY <2>2
            <4> QED
                BY <2>3, <4>1 DEF Blank
        <3>3. FlattenSeq(t) = << >> \o << >>
            BY <1>2, <2>1, <3>1, <3>2
        <3>4. << >> \o << >> = << >>
            BY EmptySeq, ConcatEmptySeq
        <3> QED
            BY <3>3, <3>4
    <2> QED
        BY <2>2, <2>3 DEF t
<1> HIDE DEF T, E
<1>3. \A s \in Seq(E) : s \in T
    BY <1>1, <1>2, AppendInduction
<1> QED
    BY <1>3 DEF T, E

\* What comes before the element at a, and what comes after it.
Before(P, a) == SubSeq(P, 1, a - 1)
After(P, a) == SubSeq(P, a + 1, Len(P))

Split(E, P, a) ==
    /\ Before(P, a) \in Seq(E) /\ Len(Before(P, a)) = a - 1
    /\ \A i \in 1..(a - 1) : Before(P, a)[i] = P[i]
    /\ After(P, a) \in Seq(E) /\ Len(After(P, a)) = Len(P) - a
    /\ \A i \in 1..(Len(P) - a) : After(P, a)[i] = P[a + i]
    /\ P = Append(Before(P, a), P[a]) \o After(P, a)
    /\ P[a] \in E

LEMMA SplitAt ==
    ASSUME NEW E, NEW P \in Seq(E), NEW a \in 1..Len(P)
    PROVE  Split(E, P, a)
<1> DEFINE n == Len(P)
<1>1. n \in Nat /\ a \in 1..n /\ \A i \in 1..n : P[i] \in E
    OBVIOUS
<1>2. /\ Before(P, a) \in Seq(E) /\ Len(Before(P, a)) = a - 1
      /\ \A i \in 1..(a - 1) : Before(P, a)[i] = P[i]
    <2>1. 1 \in Int /\ a - 1 \in Int /\ \A i \in 1..(a - 1) : P[i] \in E
        BY <1>1
    <2>2. /\ SubSeq(P, 1, a - 1) \in Seq(E)
          /\ Len(SubSeq(P, 1, a - 1)) = IF 1 <= a - 1 THEN (a - 1) - 1 + 1 ELSE 0
          /\ \A i \in 1..((a - 1) - 1 + 1) : SubSeq(P, 1, a - 1)[i] = P[1 + i - 1]
        BY <2>1, SubSeqProperties
    <2>3. \A i \in 1..(a - 1) : i \in 1..((a - 1) - 1 + 1) /\ 1 + i - 1 = i
        BY <1>1
    <2> QED
        BY <1>1, <2>2, <2>3 DEF Before
<1>3. /\ After(P, a) \in Seq(E) /\ Len(After(P, a)) = n - a
      /\ \A i \in 1..(n - a) : After(P, a)[i] = P[a + i]
    <2>1. a + 1 \in Int /\ n \in Int /\ \A i \in (a + 1)..n : P[i] \in E
        BY <1>1
    <2>2. /\ SubSeq(P, a + 1, n) \in Seq(E)
          /\ Len(SubSeq(P, a + 1, n)) = IF a + 1 <= n THEN n - (a + 1) + 1 ELSE 0
          /\ \A i \in 1..(n - (a + 1) + 1) : SubSeq(P, a + 1, n)[i] = P[(a + 1) + i - 1]
        BY <2>1, SubSeqProperties
    <2>3. \A i \in 1..(n - a) : i \in 1..(n - (a + 1) + 1) /\ (a + 1) + i - 1 = a + i
        BY <1>1
    <2> QED
        BY <1>1, <2>2, <2>3 DEF After
<1>4. P = Append(Before(P, a), P[a]) \o After(P, a)
    <2> DEFINE u == Before(P, a)
               v == After(P, a)
               x == P[a]
               w == Append(u, x)
    <2>0. u \in Seq(E) /\ Len(u) = a - 1 /\ v \in Seq(E) /\ Len(v) = n - a /\ x \in E
        BY <1>1, <1>2, <1>3
    <2> HIDE DEF u, v, x
    <2>1. w \in Seq(E) /\ Len(w) = a /\ (\A i \in 1..(a - 1) : w[i] = u[i]) /\ w[a] = x
        BY <1>1, <2>0, AppendProperties
    <2> HIDE DEF w
    <2>2. /\ w \o v \in Seq(E) /\ Len(w \o v) = n
          /\ \A i \in 1..n : (w \o v)[i] = IF i <= a THEN w[i] ELSE v[i - a]
        <3>1. /\ w \o v \in Seq(E) /\ Len(w \o v) = Len(w) + Len(v)
              /\ \A i \in 1..(Len(w) + Len(v)) :
                    (w \o v)[i] = IF i <= Len(w) THEN w[i] ELSE v[i - Len(w)]
            BY <2>0, <2>1, ConcatProperties
        <3>2. Len(w) = a /\ Len(w) + Len(v) = n
            BY <1>1, <2>0, <2>1
        <3> QED
            BY <3>1, <3>2
    <2>3. ASSUME NEW i \in 1..n PROVE (w \o v)[i] = P[i]
        <3>1. CASE i < a
            <4>1. i \in 1..(a - 1) /\ i <= a
                BY <1>1, <3>1
            <4> QED
                BY <1>2, <2>1, <2>2, <4>1 DEF u
        <3>2. CASE i = a
            BY <1>1, <2>1, <2>2, <3>2 DEF x
        <3>3. CASE i > a
            <4>1. i - a \in 1..(n - a) /\ ~(i <= a) /\ a + (i - a) = i
                BY <1>1, <3>3
            <4> QED
                BY <1>3, <2>2, <4>1 DEF v
        <3>4. i < a \/ i = a \/ i > a
            BY <1>1
        <3> QED
            BY <3>1, <3>2, <3>3, <3>4
    <2>4. w \o v = P
        <3> DEFINE z == w \o v
        <3>1. z \in Seq(E) /\ Len(z) = Len(P) /\ \A i \in 1..Len(z) : z[i] = P[i]
            BY <2>2, <2>3
        <3> HIDE DEF z
        <3>2. z = P
            BY <3>1, SeqEqual
        <3> QED
            BY <3>2 DEF z
    <2> QED
        BY <2>4 DEF w, u, v, x
<1> QED
    BY <1>1, <1>2, <1>3, <1>4 DEF Split

LEMMA FlattenAt ==
    ASSUME NEW X, NEW P \in Seq(Seq(X)), NEW a \in 1..Len(P)
    PROVE  /\ FlattenSeq(P) = (FlattenSeq(Before(P, a)) \o P[a]) \o FlattenSeq(After(P, a))
           /\ FlattenSeq(Before(P, a)) \in Seq(X) /\ FlattenSeq(After(P, a)) \in Seq(X)
           /\ P[a] \in Seq(X)
<1> DEFINE E == Seq(X)
           u == Before(P, a)
           v == After(P, a)
           x == P[a]
<1>0. P \in Seq(E)
    OBVIOUS
<1>1. u \in Seq(Seq(X)) /\ v \in Seq(Seq(X)) /\ x \in Seq(X) /\ P = Append(u, x) \o v
    <2> HIDE DEF E
    <2>1. u \in Seq(E) /\ v \in Seq(E) /\ x \in E /\ P = Append(u, x) \o v
        BY <1>0, SplitAt DEF Split
    <2> QED
        BY <2>1 DEF E
<1> HIDE DEF u, v, x, E
<1>2. FlattenSeq(Append(u, x)) = FlattenSeq(u) \o x
    BY <1>1, FlattenAppend
<1>3. Append(u, x) \in Seq(Seq(X))
    <2>1. u \in Seq(E) /\ x \in E
        BY <1>1 DEF E
    <2>2. Append(u, x) \in Seq(E)
        BY <2>1, AppendProperties
    <2> QED
        BY <2>2 DEF E
<1>4. FlattenSeq(Append(u, x) \o v) = FlattenSeq(Append(u, x)) \o FlattenSeq(v)
    BY <1>1, <1>3, FlattenConcat
<1>5. FlattenSeq(u) \in Seq(X) /\ FlattenSeq(v) \in Seq(X)
    BY <1>1, FlattenType
<1>6. FlattenSeq(P) = (FlattenSeq(u) \o x) \o FlattenSeq(v)
    BY <1>1, <1>2, <1>4
<1> QED
    BY <1>1, <1>5, <1>6 DEF u, v, x

\* P and Q differ at most in the element at a, with nothing before it.
LeadingChange(P, Q, a) ==
    /\ Len(Q) = Len(P)
    /\ \A i \in 1..Len(P) : /\ i < a => P[i] = << >> /\ Q[i] = << >>
                            /\ i > a => P[i] = Q[i]

\* u is x and v is y, followed by the same; or behind the same.
SameRest(X, x, y, u, v) == \E R \in Seq(X) : u = x \o R /\ v = y \o R
SameFront(X, x, y, u, v) == \E L \in Seq(X) : u = L \o x /\ v = L \o y

LEMMA FlattenFirst ==
    ASSUME NEW X, NEW P \in Seq(Seq(X)), NEW Q \in Seq(Seq(X)), NEW a \in 1..Len(P),
           LeadingChange(P, Q, a)
    PROVE  SameRest(X, P[a], Q[a], FlattenSeq(P), FlattenSeq(Q))
<1> DEFINE E == Seq(X)
           n == Len(P)
           R == FlattenSeq(After(P, a))
<1>0. P \in Seq(E) /\ Q \in Seq(E) /\ n \in Nat /\ a \in 1..Len(Q) /\ Len(Q) = n /\ a \in 1..n
    BY DEF LeadingChange
<1>1. /\ FlattenSeq(P) = (FlattenSeq(Before(P, a)) \o P[a]) \o R
      /\ R \in Seq(X) /\ P[a] \in Seq(X)
    BY FlattenAt
<1>2. /\ FlattenSeq(Q) = (FlattenSeq(Before(Q, a)) \o Q[a]) \o FlattenSeq(After(Q, a))
      /\ Q[a] \in Seq(X)
    BY <1>0, FlattenAt
<1> HIDE DEF E
<1>3. /\ Before(P, a) \in Seq(E) /\ Len(Before(P, a)) = a - 1
      /\ \A i \in 1..(a - 1) : Before(P, a)[i] = P[i]
      /\ After(P, a) \in Seq(E) /\ Len(After(P, a)) = n - a
      /\ \A i \in 1..(n - a) : After(P, a)[i] = P[a + i]
    <2>1. P \in Seq(E) /\ a \in 1..Len(P)
        BY <1>0
    <2>2. Split(E, P, a)
        BY <2>1, SplitAt, Zenon
    <2> QED
        BY <2>2 DEF Split
<1>4. /\ Before(Q, a) \in Seq(E) /\ Len(Before(Q, a)) = a - 1
      /\ \A i \in 1..(a - 1) : Before(Q, a)[i] = Q[i]
      /\ After(Q, a) \in Seq(E) /\ Len(After(Q, a)) = n - a
      /\ \A i \in 1..(n - a) : After(Q, a)[i] = Q[a + i]
    <2>1. Q \in Seq(E) /\ a \in 1..Len(Q)
        BY <1>0
    <2>2. Split(E, Q, a)
        BY <2>1, SplitAt, Zenon
    <2> QED
        BY <1>0, <2>2 DEF Split
<1>5. After(Q, a) = After(P, a)
    <2>1. \A i \in 1..(n - a) : a + i \in 1..n /\ a + i > a
        BY <1>0
    <2>2. \A i \in 1..(n - a) : P[a + i] = Q[a + i]
        BY <2>1 DEF LeadingChange
    <2>3. \A i \in 1..Len(After(Q, a)) : After(Q, a)[i] = After(P, a)[i]
        BY <1>3, <1>4, <2>2
    <2>4. After(Q, a) \in Seq(E) /\ After(P, a) \in Seq(E) /\ Len(After(Q, a)) = Len(After(P, a))
        BY <1>3, <1>4
    <2> QED
        BY <2>3, <2>4, SeqEqual
<1>6. \A i \in 1..(a - 1) : i \in 1..n /\ i < a
    BY <1>0
<1>7. Blank(Before(P, a)) /\ Blank(Before(Q, a))
    BY <1>3, <1>4, <1>6 DEF Blank, LeadingChange
<1>8. FlattenSeq(Before(P, a)) = << >> /\ FlattenSeq(Before(Q, a)) = << >>
    BY <1>3, <1>4, <1>7, FlattenBlank DEF E
<1> DEFINE x == P[a]
           y == Q[a]
<1>9. << >> \o x = x /\ << >> \o y = y
    BY <1>1, <1>2, ConcatEmptySeq
<1>10. FlattenSeq(P) = P[a] \o R /\ FlattenSeq(Q) = Q[a] \o R
    BY <1>1, <1>2, <1>5, <1>8, <1>9
<1> HIDE DEF R
<1> QED
    BY <1>1, <1>10 DEF SameRest

\* P and Q differ at most in the element at a, with nothing after it.
TrailingChange(P, Q, a) ==
    /\ Len(Q) = Len(P)
    /\ \A i \in 1..Len(P) : /\ i < a => P[i] = Q[i]
                            /\ i > a => P[i] = << >> /\ Q[i] = << >>

LEMMA FlattenLast ==
    ASSUME NEW X, NEW P \in Seq(Seq(X)), NEW Q \in Seq(Seq(X)), NEW a \in 1..Len(P),
           TrailingChange(P, Q, a)
    PROVE  SameFront(X, P[a], Q[a], FlattenSeq(P), FlattenSeq(Q))
<1> DEFINE E == Seq(X)
           n == Len(P)
           L == FlattenSeq(Before(P, a))
<1>0. P \in Seq(E) /\ Q \in Seq(E) /\ n \in Nat /\ a \in 1..Len(Q) /\ Len(Q) = n /\ a \in 1..n
    BY DEF TrailingChange
<1>1. /\ FlattenSeq(P) = (L \o P[a]) \o FlattenSeq(After(P, a))
      /\ L \in Seq(X) /\ P[a] \in Seq(X)
    BY FlattenAt
<1>2. /\ FlattenSeq(Q) = (FlattenSeq(Before(Q, a)) \o Q[a]) \o FlattenSeq(After(Q, a))
      /\ Q[a] \in Seq(X)
    BY <1>0, FlattenAt
<1> HIDE DEF E
<1>3. /\ Before(P, a) \in Seq(E) /\ Len(Before(P, a)) = a - 1
      /\ \A i \in 1..(a - 1) : Before(P, a)[i] = P[i]
      /\ After(P, a) \in Seq(E) /\ Len(After(P, a)) = n - a
      /\ \A i \in 1..(n - a) : After(P, a)[i] = P[a + i]
    <2>1. P \in Seq(E) /\ a \in 1..Len(P)
        BY <1>0
    <2>2. Split(E, P, a)
        BY <2>1, SplitAt, Zenon
    <2> QED
        BY <2>2 DEF Split
<1>4. /\ Before(Q, a) \in Seq(E) /\ Len(Before(Q, a)) = a - 1
      /\ \A i \in 1..(a - 1) : Before(Q, a)[i] = Q[i]
      /\ After(Q, a) \in Seq(E) /\ Len(After(Q, a)) = n - a
      /\ \A i \in 1..(n - a) : After(Q, a)[i] = Q[a + i]
    <2>1. Q \in Seq(E) /\ a \in 1..Len(Q)
        BY <1>0
    <2>2. Split(E, Q, a)
        BY <2>1, SplitAt, Zenon
    <2> QED
        BY <1>0, <2>2 DEF Split
<1>5. Before(Q, a) = Before(P, a)
    <2>1. \A i \in 1..(a - 1) : i \in 1..n /\ i < a
        BY <1>0
    <2>2. \A i \in 1..(a - 1) : P[i] = Q[i]
        BY <2>1 DEF TrailingChange
    <2>3. \A i \in 1..Len(Before(Q, a)) : Before(Q, a)[i] = Before(P, a)[i]
        BY <1>3, <1>4, <2>2
    <2>4. Before(Q, a) \in Seq(E) /\ Before(P, a) \in Seq(E)
          /\ Len(Before(Q, a)) = Len(Before(P, a))
        BY <1>3, <1>4
    <2> QED
        BY <2>3, <2>4, SeqEqual
<1>6. \A i \in 1..(n - a) : a + i \in 1..n /\ a + i > a
    BY <1>0
<1>7. Blank(After(P, a)) /\ Blank(After(Q, a))
    BY <1>3, <1>4, <1>6 DEF Blank, TrailingChange
<1>8. FlattenSeq(After(P, a)) = << >> /\ FlattenSeq(After(Q, a)) = << >>
    BY <1>3, <1>4, <1>7, FlattenBlank DEF E
<1> DEFINE x == P[a]
           y == Q[a]
<1> HIDE DEF L
<1>9. (L \o x) \o << >> = L \o x /\ (L \o y) \o << >> = L \o y
    <2>1. x \in Seq(X) /\ y \in Seq(X)
        BY <1>1, <1>2
    <2> HIDE DEF x, y
    <2>2. L \o x \in Seq(X) /\ L \o y \in Seq(X)
        BY <1>1, <2>1, ConcatProperties
    <2> QED
        BY <2>2, ConcatEmptySeq
<1>10. FlattenSeq(P) = L \o P[a] /\ FlattenSeq(Q) = L \o Q[a]
    BY <1>1, <1>2, <1>5, <1>8, <1>9 DEF L
<1> QED
    BY <1>1, <1>10 DEF SameFront

LEMMA FlattenWindow ==
    ASSUME NEW X, NEW P \in Seq(Seq(X)), NEW Q \in Seq(Seq(X)), NEW a \in Nat,
           Len(P) = a + Len(Q), \A i \in 1..a : P[i] = << >>,
           \A i \in 1..Len(Q) : Q[i] = P[a + i]
    PROVE  FlattenSeq(P) = FlattenSeq(Q)
<1> DEFINE E == Seq(X)
           b == [i \in 1..a |-> << >>]
           n == Len(Q)
<1>1. P \in Seq(E) /\ Q \in Seq(E) /\ n \in Nat /\ Len(P) = a + n /\ << >> \in E
    BY EmptySeq
<1> HIDE DEF E
<1>2. b \in Seq(E) /\ Len(b) = a /\ \A i \in 1..a : b[i] = << >>
    <2>1. b \in [1..a -> E]
        BY <1>1
    <2>2. \A i \in 1..a : b[i] = << >>
        OBVIOUS
    <2> HIDE DEF b
    <2>3. b \in Seq(E) /\ Len(b) = a
        BY <2>1
    <2> QED
        BY <2>2, <2>3
<1> HIDE DEF b
<1>3. P = b \o Q
    <2> DEFINE z == b \o Q
    <2>1. /\ z \in Seq(E) /\ Len(z) = Len(b) + Len(Q)
          /\ \A i \in 1..(Len(b) + Len(Q)) : z[i] = IF i <= Len(b) THEN b[i] ELSE Q[i - Len(b)]
        BY <1>1, <1>2, ConcatProperties
    <2> HIDE DEF z
    <2>2. Len(b) = a /\ Len(b) + Len(Q) = a + n
        BY <1>2
    <2>3. \A i \in 1..(a + n) : z[i] = IF i <= a THEN b[i] ELSE Q[i - a]
        BY <2>1, <2>2
    <2>4. ASSUME NEW i \in 1..(a + n) PROVE z[i] = P[i]
        <3>1. CASE i <= a
            <4>1. i \in 1..a
                BY <1>1, <3>1
            <4> QED
                BY <1>2, <2>3, <3>1, <4>1
        <3>2. CASE ~(i <= a)
            <4>1. i - a \in 1..n /\ a + (i - a) = i
                BY <1>1, <3>2
            <4>2. Q[i - a] = P[a + (i - a)]
                BY <4>1
            <4> QED
                BY <2>3, <3>2, <4>1, <4>2
        <3> QED
            BY <3>1, <3>2
    <2>5. Len(z) = Len(P) /\ \A i \in 1..Len(z) : z[i] = P[i]
        BY <1>1, <2>1, <2>2, <2>4
    <2>6. z = P
        <3>1. z \in Seq(E) /\ P \in Seq(E)
            BY <1>1, <2>1
        <3> QED
            BY <2>5, <3>1, SeqEqual
    <2> QED
        BY <2>6 DEF z
<1>4. Blank(b)
    BY <1>2 DEF Blank
<1>5. b \in Seq(Seq(X))
    BY <1>2 DEF E
<1>6. FlattenSeq(b) = << >>
    BY <1>4, <1>5, FlattenBlank
<1>7. FlattenSeq(b \o Q) = FlattenSeq(b) \o FlattenSeq(Q)
    BY <1>5, FlattenConcat
<1>8. FlattenSeq(Q) \in Seq(X)
    BY FlattenType
<1>9. << >> \o FlattenSeq(Q) = FlattenSeq(Q)
    BY <1>8, ConcatEmptySeq
<1> QED
    BY <1>3, <1>6, <1>7, <1>9

\* The elements of the joined sequences are theirs.
Elems(s) == {s[i] : i \in 1..Len(s)}

LEMMA ElemsConcat ==
    ASSUME NEW X, NEW s \in Seq(X), NEW t \in Seq(X)
    PROVE  Elems(s \o t) = Elems(s) \cup Elems(t)
<1> DEFINE u == s \o t
           n == Len(s)
           m == Len(t)
<1>1. /\ n \in Nat /\ m \in Nat /\ Len(u) = n + m
      /\ \A i \in 1..(n + m) : u[i] = IF i <= n THEN s[i] ELSE t[i - n]
    BY ConcatProperties
<1> HIDE DEF u
<1>2. ASSUME NEW x \in Elems(u) PROVE x \in Elems(s) \cup Elems(t)
    <2>1. PICK i \in 1..(n + m) : x = u[i]
        BY <1>1 DEF Elems
    <2>2. CASE i <= n
        <3>1. i \in 1..n
            BY <1>1, <2>2
        <3> QED
            BY <1>1, <2>1, <2>2, <3>1 DEF Elems
    <2>3. CASE ~(i <= n)
        <3>1. i - n \in 1..m
            BY <1>1, <2>3
        <3> QED
            BY <1>1, <2>1, <2>3, <3>1 DEF Elems
    <2> QED
        BY <2>2, <2>3
<1>3. ASSUME NEW x \in Elems(s) PROVE x \in Elems(u)
    <2>1. PICK i \in 1..n : x = s[i]
        BY DEF Elems
    <2>2. i \in 1..(n + m) /\ i <= n
        BY <1>1
    <2> QED
        BY <1>1, <2>1, <2>2 DEF Elems
<1>4. ASSUME NEW x \in Elems(t) PROVE x \in Elems(u)
    <2>1. PICK i \in 1..m : x = t[i]
        BY DEF Elems
    <2>2. n + i \in 1..(n + m) /\ ~(n + i <= n) /\ (n + i) - n = i
        BY <1>1
    <2> QED
        BY <1>1, <2>1, <2>2 DEF Elems
<1> QED
    BY <1>2, <1>3, <1>4 DEF u

LEMMA FlattenElems ==
    ASSUME NEW X
    PROVE  \A s \in Seq(Seq(X)) : Elems(FlattenSeq(s)) = UNION {Elems(s[i]) : i \in 1..Len(s)}
<1> DEFINE E == Seq(X)
           U(s) == UNION {Elems(s[i]) : i \in 1..Len(s)}
           T == {s \in Seq(Seq(X)) : Elems(FlattenSeq(s)) = U(s)}
<1>1. << >> \in T
    <2>1. Len(<< >>) = 0 /\ << >> \in Seq(Seq(X))
        BY EmptySeq
    <2>2. Elems(<< >>) = {} /\ U(<< >>) = {}
        BY <2>1 DEF Elems
    <2> QED
        BY <2>1, <2>2, FlattenEmpty
<1>2. ASSUME NEW s \in Seq(E), NEW e \in E, s \in T PROVE Append(s, e) \in T
    <2> DEFINE t == Append(s, e)
               n == Len(s)
    <2>1. FlattenSeq(t) = FlattenSeq(s) \o e
        BY FlattenAppend
    <2>2. FlattenSeq(s) \in Seq(X) /\ e \in Seq(X)
        BY FlattenType
    <2>3. Elems(FlattenSeq(t)) = Elems(FlattenSeq(s)) \cup Elems(e)
        BY <2>1, <2>2, ElemsConcat
    <2>4. t \in Seq(E) /\ Len(t) = n + 1 /\ t[n + 1] = e /\ n \in Nat
          /\ \A i \in 1..n : t[i] = s[i]
        <3>1. s \in Seq(E) /\ e \in E
            OBVIOUS
        <3> HIDE DEF E
        <3> QED
            BY <3>1, AppendProperties
    <2> HIDE DEF t, n
    <2>5. 1..(n + 1) = 1..n \cup {n + 1}
        BY <2>4
    <2>6. U(t) = U(s) \cup Elems(e)
        <3>1. U(t) = UNION {Elems(t[i]) : i \in 1..n \cup {n + 1}}
            BY <2>4, <2>5
        <3>2. U(s) = UNION {Elems(t[i]) : i \in 1..n}
            BY <2>4 DEF n
        <3>3. Elems(e) = Elems(t[n + 1])
            BY <2>4
        <3> QED
            BY <3>1, <3>2, <3>3, Zenon
    <2>7. Elems(FlattenSeq(t)) = U(t)
        BY <1>2, <2>3, <2>6
    <2> QED
        BY <2>4, <2>7 DEF t
<1> HIDE DEF T, E
<1>3. \A s \in Seq(E) : s \in T
    BY <1>1, <1>2, AppendInduction
<1> QED
    BY <1>3 DEF T, E

-----------------------------------------------------------------------------
\* The segments of the disk queue, for any sizes and bounds, with the
\* process dying between any two disk operations and any operating-system
\* call failing except the opening of the next segment (a failed roll): the
\* files, the list of segments in memory and the head file never disagree in
\* a way that makes recovery remove unread records.

\* A segment in memory.  What its counters are is left open (X): the ids alone
\* decide which file is which.
Seg(X) == [id : Nat \ {0}, size : X, records : X]

Shaped(s) == \E X : s \in Seq(Seg(X))

\* The oldest segment comes first, and no two have one id.
Increasing(s) == \A i, j \in 1..Len(s) : i < j => s[i].id < s[j].id

SegIds(s) == {s[i].id : i \in 1..Len(s)}

\* The head file never names a segment newer than a file on the disk, and
\* names one at all only once there is a file.
HeadInv ==
    /\ headFile[1] \in Nat
    /\ \A id \in DOMAIN files : headFile[1] <= id
    /\ headFile[1] # 0 => DOMAIN files # {}

\* After recovery the segments are the files; during recovery the files are
\* the segments found so far and, all newer, the ones still to scan.
SegmentsInv ==
    /\ Shaped(segments) /\ Increasing(segments)
    /\ pc \notin {"down", "recover"} => segments # << >> /\ DOMAIN files = SegIds(segments)
    /\ pc = "recover" =>
          /\ DOMAIN files = SegIds(segments) \cup todo
          /\ \A i \in 1..Len(segments) : \A t \in todo : segments[i].id < t
    /\ pc = "down" => segments = << >>

DiskInv ==
    /\ DOMAIN files \subseteq Nat \ {0}
    /\ HeadInv
    /\ SegmentsInv

----------------------------------------------------------------------------
\* The calls that have failed.

LEMMA CallFailed ==
    ASSUME faults \in Seq(Faults), NEW kind, Fails(kind)
    PROVE  /\ faults' \in Seq(Faults) /\ faults' # << >>
           /\ \A kinds : kind \in kinds => Failed(kinds)'
           /\ \A kinds : Failed(kinds) => Failed(kinds)'
<1> DEFINE s == faults
           u == faults'
<1>1. s \in Seq(Faults) /\ u = Append(s, kind) /\ kind \in Faults
    BY DEF Fails
<1> HIDE DEF s, u
<1>2. /\ u \in Seq(Faults) /\ u # << >> /\ Len(u) = Len(s) + 1 /\ u[Len(s) + 1] = kind
      /\ Len(s) \in Nat /\ \A i \in 1..Len(s) : u[i] = s[i]
    BY <1>1
<1>3. \A kinds : kind \in kinds => \E i \in 1..Len(u) : u[i] \in kinds
    BY <1>2
<1>4. \A kinds : (\E i \in 1..Len(s) : s[i] \in kinds) => \E i \in 1..Len(u) : u[i] \in kinds
    BY <1>2
<1> QED
    BY <1>2, <1>3, <1>4 DEF Failed, s, u

LEMMA FaultsGrow ==
    ASSUME faults \in Seq(Faults), [DiskQueueNext]_dqVars
    PROVE  /\ faults' \in Seq(Faults)
           /\ faults' = << >> => faults' = faults
           /\ \A kinds : Failed(kinds) => Failed(kinds)'
<1>1. faults' = faults \/ \E kind : Fails(kind)
    BY DEF DiskQueueNext, dqVars, history, Open, scanSegment, recover_skip, recover_fails, recover_done,
           Push, Push_torn, Push_fails, roll_fails,
           enforceBound_drop, enforceBound_done, writeHead, Peek, Ack_advance, Ack_last, Ack_discard,
           Close, Close_fails, Crash, Corrupt, dropHead, resetOnly, Succeeds
<1>2. CASE faults' = faults
    BY <1>2 DEF Failed
<1>3. CASE \E kind : Fails(kind)
    BY <1>3, CallFailed
<1> QED
    BY <1>1, <1>2, <1>3

----------------------------------------------------------------------------
\* What is known of a list of segments.
LEMMA Shape ==
    ASSUME NEW s, Shaped(s)
    PROVE  /\ Len(s) \in Nat /\ DOMAIN s = 1..Len(s)
           /\ \A i \in 1..Len(s) : s[i].id \in Nat \ {0} /\ DOMAIN s[i] = {"id", "size", "records"}
           /\ s # << >> <=> Len(s) > 0
           /\ \A id : id \in SegIds(s) <=> \E i \in 1..Len(s) : s[i].id = id
<1>1. PICK X : s \in Seq(Seg(X))
    BY DEF Shaped
<1>2. Len(s) \in Nat /\ DOMAIN s = 1..Len(s) /\ \A i \in 1..Len(s) : s[i] \in Seg(X)
    BY <1>1
<1>3. \A r \in Seg(X) : r.id \in Nat \ {0} /\ DOMAIN r = {"id", "size", "records"}
    BY DEF Seg
<1>4. s # << >> <=> Len(s) > 0
    BY <1>1, EmptySeq
<1>5. \A id : id \in SegIds(s) <=> \E i \in 1..Len(s) : s[i].id = id
    BY DEF SegIds
<1>6. QED
    BY <1>2, <1>3, <1>4, <1>5

\* A list with the same ids: updates of the counters.
Relabelled(u, s) ==
    Shaped(u) /\ Len(u) = Len(s) /\ \A i \in 1..Len(s) : u[i].id = s[i].id

LEMMA SameIds ==
    ASSUME NEW s, NEW u, Shaped(s), Increasing(s), Relabelled(u, s)
    PROVE  Increasing(u) /\ SegIds(u) = SegIds(s)
BY DEF Increasing, SegIds, Relabelled

LEMMA UpdateRecords ==
    ASSUME NEW s, Shaped(s), NEW n \in 1..Len(s), NEW x
    PROVE  Relabelled([s EXCEPT ![n].records = x], s)
<1> DEFINE u == [s EXCEPT ![n].records = x]
<1>1. PICK X : s \in Seq(Seg(X))
    BY DEF Shaped
<1>2. Len(s) \in Nat /\ DOMAIN s = 1..Len(s) /\ \A i \in 1..Len(s) : s[i] \in Seg(X)
    BY <1>1
<1>3. \A i \in 1..Len(s) : u[i] \in Seg(X \cup {x}) /\ u[i].id = s[i].id
    <2>1. \A r \in Seg(X) : r \in Seg(X \cup {x})
        BY DEF Seg
    <2>2. \A r \in Seg(X) : [r EXCEPT !.records = x] \in Seg(X \cup {x})
                            /\ [r EXCEPT !.records = x].id = r.id
        BY DEF Seg
    <2>3. \A i \in 1..Len(s) : u[i] = IF i = n THEN [s[n] EXCEPT !.records = x] ELSE s[i]
        BY <1>2
    <2>4. QED
        BY <1>2, <2>1, <2>2, <2>3
<1>4. u = [i \in 1..Len(s) |-> u[i]]
    BY <1>2
<1> HIDE DEF u
<1> DEFINE S == Seg(X \cup {x})
           n0 == Len(s)
<1>5. u \in Seq(S) /\ Len(u) = n0
    <2>1. n0 \in Nat /\ \A i \in 1..n0 : u[i] \in S
        BY <1>2, <1>3
    <2>2. u = [i \in 1..n0 |-> u[i]]
        BY <1>4
    <2> HIDE DEF S, n0
    <2>3. u \in [1..n0 -> S]
        BY <2>1, <2>2
    <2>4. QED
        BY <2>1, <2>3
<1>6. QED
    BY <1>3, <1>5 DEF Shaped, Relabelled, u

LEMMA AppendSegment ==
    ASSUME NEW s, Shaped(s), NEW id \in Nat \ {0}, NEW a, NEW b
    PROVE  LET u == Append(s, [id |-> id, size |-> a, records |-> b])
           IN /\ Shaped(u) /\ Len(u) = Len(s) + 1 /\ u[Len(s) + 1].id = id
              /\ \A i \in 1..Len(s) : u[i].id = s[i].id
              /\ SegIds(u) = SegIds(s) \cup {id}
<1> DEFINE r == [id |-> id, size |-> a, records |-> b]
           u == Append(s, r)
<1>1. PICK X : s \in Seq(Seg(X))
    BY DEF Shaped
<1> DEFINE S == Seg(X \cup {a, b})
<1>2. r \in S /\ Seg(X) \subseteq S /\ r.id = id
    BY DEF Seg
<1> HIDE DEF r, S
<1>3. s \in Seq(S)
    BY <1>1, <1>2
<1>4. /\ u \in Seq(S) /\ Len(u) = Len(s) + 1 /\ u[Len(s) + 1] = r
      /\ \A i \in 1..Len(s) : u[i] = s[i]
    BY <1>2, <1>3, AppendProperties
<1>5. Len(s) \in Nat
    BY <1>3
<1> HIDE DEF u
<1>6. Shaped(u)
    BY <1>4 DEF Shaped, S
<1>7. \A x : x \in SegIds(u) <=> x \in SegIds(s) \/ x = id
    <2>1. \A i : i \in 1..Len(u) <=> i \in 1..Len(s) \/ i = Len(s) + 1
        BY <1>4, <1>5
    <2>2. QED
        BY <1>2, <1>4, <2>1 DEF SegIds
<1>8. QED
    BY <1>2, <1>4, <1>6, <1>7 DEF u, r

\* The list without its oldest segment.
LEMMA TailSegments ==
    ASSUME NEW s, Shaped(s), Increasing(s), Len(s) > 1
    PROVE  /\ Shaped(Tail(s)) /\ Increasing(Tail(s)) /\ Tail(s) # << >>
           /\ SegIds(Tail(s)) = SegIds(s) \ {s[1].id}
<1> DEFINE u == Tail(s)
<1>1. PICK X : s \in Seq(Seg(X))
    BY DEF Shaped
<1>2. /\ u \in Seq(Seg(X)) /\ Len(u) = Len(s) - 1 /\ \A i \in 1..Len(u) : u[i] = s[i + 1]
    <2>1. s # << >>
        BY <1>1, EmptySeq
    <2>2. QED
        BY <1>1, <2>1, HeadTailProperties
<1> HIDE DEF u
<1>3. Len(s) \in Nat /\ Len(u) \in Nat
    BY <1>1, <1>2
<1>4. u # << >>
    BY <1>2, <1>3, EmptySeq
<1>5. \A i \in 1..Len(u) : i + 1 \in 1..Len(s) /\ i + 1 > 1
    BY <1>2, <1>3
<1>6. Increasing(u)
    <2>1. \A i, j \in 1..Len(u) : i < j => i + 1 < j + 1
        OBVIOUS
    <2>2. QED
        BY <1>2, <1>5, <2>1 DEF Increasing
<1>7. \A i \in 1..Len(s) : s[i].id \in Nat
    BY Shape
<1>8. \A id : id \in SegIds(u) <=> id \in SegIds(s) /\ id # s[1].id
    <2>1. ASSUME NEW i \in 1..Len(u) PROVE u[i].id \in SegIds(s) /\ u[i].id # s[1].id
        <3>1. s[i + 1].id \in SegIds(s) /\ 1 \in 1..Len(s)
            BY <1>3, <1>5 DEF SegIds
        <3>2. s[1].id < s[i + 1].id
            BY <1>5, <3>1 DEF Increasing
        <3>3. QED
            BY <1>2, <1>5, <1>7, <3>1, <3>2
    <2>2. ASSUME NEW i \in 1..Len(s), s[i].id # s[1].id PROVE s[i].id \in SegIds(u)
        <3>1. i - 1 \in 1..Len(u) /\ (i - 1) + 1 = i
            BY <1>2, <1>3, <2>2
        <3>2. QED
            BY <1>2, <3>1 DEF SegIds
    <2>3. QED
        BY <2>1, <2>2 DEF SegIds
<1>9. QED
    BY <1>2, <1>4, <1>6, <1>8 DEF Shaped, u

----------------------------------------------------------------------------
\* Outside recovery the first segment is the oldest file.
LEMMA OldestFirst ==
    ASSUME DiskInv, pc \notin {"down", "recover"}
    PROVE  /\ Len(segments) \in Nat /\ Len(segments) >= 1 /\ segments # << >>
           /\ DOMAIN files = SegIds(segments) /\ DOMAIN files \subseteq Nat \ {0}
           /\ \A i \in 1..Len(segments) : segments[i].id \in DOMAIN files
           /\ \A id \in DOMAIN files : segments[1].id <= id
           /\ Shaped(segments) /\ Increasing(segments) /\ HeadInv
<1>1. /\ Shaped(segments) /\ Increasing(segments) /\ HeadInv /\ segments # << >>
      /\ DOMAIN files = SegIds(segments) /\ DOMAIN files \subseteq Nat \ {0}
    BY DEF DiskInv, SegmentsInv
<1>2. /\ Len(segments) \in Nat /\ Len(segments) > 0
      /\ \A i \in 1..Len(segments) : segments[i].id \in Nat \ {0}
      /\ \A id : id \in SegIds(segments) <=> \E i \in 1..Len(segments) : segments[i].id = id
    BY <1>1, Shape
<1>3. ASSUME NEW i \in 1..Len(segments) PROVE segments[1].id <= segments[i].id
    <2>1. 1 \in 1..Len(segments) /\ (i = 1 \/ 1 < i)
        BY <1>2
    <2>2. i = 1 \/ segments[1].id < segments[i].id
        BY <1>1, <2>1 DEF Increasing
    <2>3. QED
        BY <1>2, <2>1, <2>2
<1>4. QED
    BY <1>1, <1>2, <1>3

\* A step of a running process that leaves the segments one for one the files.
LEMMA StaysRunning ==
    ASSUME pc' \notin {"down", "recover"},
           Shaped(segments'), Increasing(segments'), segments' # << >>,
           DOMAIN files' = SegIds(segments'), DOMAIN files' \subseteq Nat \ {0}, HeadInv'
    PROVE  DiskInv'
BY DEF DiskInv, SegmentsInv

\* A step that changes neither which files there are nor the ids in memory.
LEMMA OnlyCounters ==
    ASSUME DiskInv, pc \notin {"down", "recover"}, pc' \notin {"down", "recover"},
           Relabelled(segments', segments),
           DOMAIN files' = DOMAIN files,
           headFile' = headFile \/ headFile'[1] = segments[1].id
    PROVE  DiskInv'
<1>1. /\ Len(segments) \in Nat /\ Len(segments) >= 1 /\ segments # << >>
      /\ DOMAIN files = SegIds(segments) /\ DOMAIN files \subseteq Nat \ {0}
      /\ \A i \in 1..Len(segments) : segments[i].id \in DOMAIN files
      /\ \A id \in DOMAIN files : segments[1].id <= id
      /\ Shaped(segments) /\ Increasing(segments) /\ HeadInv
    BY OldestFirst
<1>2. Increasing(segments') /\ SegIds(segments') = SegIds(segments)
    BY <1>1, SameIds
<1>3. Shaped(segments') /\ segments' # << >>
    <2>1. Shaped(segments') /\ Len(segments') = Len(segments)
        BY DEF Relabelled
    <2>2. segments' # << >> <=> Len(segments') > 0
        BY <2>1, Shape
    <2>3. QED
        BY <1>1, <2>1, <2>2
<1>4. HeadInv'
    <2>1. segments[1].id \in DOMAIN files
        BY <1>1
    <2>2. QED
        BY <1>1, <2>1 DEF HeadInv
<1>5. QED
    BY <1>1, <1>2, <1>3, <1>4, StaysRunning

\* dropHead, whether os.Remove succeeds or not.
LEMMA DropHead ==
    ASSUME DiskInv, pc \notin {"down", "recover"}, Len(segments) > 1,
           NEW rec, NEW next \in {"bound_head", "open_head", "ack_head"}, dropHead(rec, next)
    PROVE  DiskInv'
<1>1. /\ Len(segments) \in Nat /\ Len(segments) >= 1 /\ segments # << >>
      /\ DOMAIN files = SegIds(segments) /\ DOMAIN files \subseteq Nat \ {0}
      /\ \A i \in 1..Len(segments) : segments[i].id \in DOMAIN files
      /\ \A id \in DOMAIN files : segments[1].id <= id
      /\ Shaped(segments) /\ Increasing(segments) /\ HeadInv
    BY OldestFirst
<1>2. headFile' = headFile
    BY DEF dropHead
<1>3. \/ files' = Without(files, segments[1].id) /\ segments' = Tail(segments) /\ pc' = next
      \/ /\ \E x : segments' = [segments EXCEPT ![1].records = x]
         /\ pc' \in {"failed", "idle"} /\ files' = files
    BY DEF dropHead
<1>4. CASE files' = Without(files, segments[1].id) /\ segments' = Tail(segments) /\ pc' = next
    <2>1. /\ Shaped(segments') /\ Increasing(segments') /\ segments' # << >>
          /\ SegIds(segments') = SegIds(segments) \ {segments[1].id}
        BY <1>1, <1>4, TailSegments
    <2>2. DOMAIN files' = DOMAIN files \ {segments[1].id}
        BY <1>4 DEF Without
    <2>3. DOMAIN files' # {}
        <3>1. segments[1].id # segments[2].id /\ segments[2].id \in DOMAIN files
            <4>1. 1 \in 1..Len(segments) /\ 2 \in 1..Len(segments) /\ 1 < 2
                BY <1>1
            <4>2. segments[1].id < segments[2].id /\ segments[1].id \in Nat /\ segments[2].id \in DOMAIN files
                BY <1>1, <4>1 DEF Increasing
            <4>3. QED
                BY <1>1, <4>2
        <3>2. QED
            BY <2>2, <3>1
    <2>4. HeadInv'
        BY <1>1, <1>2, <2>2, <2>3 DEF HeadInv
    <2>5. QED
        BY <1>1, <1>4, <2>1, <2>2, <2>4, StaysRunning
<1>5. CASE /\ \E x : segments' = [segments EXCEPT ![1].records = x]
           /\ pc' \in {"failed", "idle"} /\ files' = files
    <2>1. PICK x : segments' = [segments EXCEPT ![1].records = x]
        BY <1>5
    <2>2. Shaped(segments) /\ 1 \in 1..Len(segments)
        BY <1>1
    <2>3. Relabelled([segments EXCEPT ![1].records = x], segments)
        BY <2>2, UpdateRecords, Zenon
    <2>4. Relabelled(segments', segments)
        BY <2>1, <2>3, Zenon
    <2>5. QED
        BY <1>2, <1>5, <2>4, OnlyCounters
<1>6. QED
    BY <1>3, <1>4, <1>5

\* resetOnly, whether os.Truncate succeeds or not.
LEMMA ResetOnly ==
    ASSUME DiskInv, pc = "idle", ~(Len(segments) > 1), NEW rec, resetOnly(rec)
    PROVE  DiskInv'
<1>1. /\ Len(segments) \in Nat /\ Len(segments) >= 1 /\ segments # << >>
      /\ DOMAIN files = SegIds(segments) /\ DOMAIN files \subseteq Nat \ {0}
      /\ \A i \in 1..Len(segments) : segments[i].id \in DOMAIN files
      /\ \A id \in DOMAIN files : segments[1].id <= id
      /\ Shaped(segments) /\ Increasing(segments) /\ HeadInv
    BY OldestFirst
<1>2. headFile' = headFile /\ 1 \in 1..Len(segments) /\ 1..Len(segments) = {1}
    BY <1>1 DEF resetOnly
<1>3. \/ /\ DOMAIN files' = DOMAIN files /\ pc' = "ack_head"
         /\ segments' = <<[id |-> segments[1].id, size |-> 0, records |-> 0]>>
      \/ /\ \E x : segments' = [segments EXCEPT ![1].records = x]
         /\ pc' = pc /\ files' = files
    BY DEF resetOnly, resetHead
<1>4. CASE /\ DOMAIN files' = DOMAIN files /\ pc' = "ack_head"
           /\ segments' = <<[id |-> segments[1].id, size |-> 0, records |-> 0]>>
    <2>1. segments[1].id \in Nat \ {0}
        BY <1>1, <1>2
    <2>2. [id |-> segments[1].id, size |-> 0, records |-> 0] \in Seg({0})
        BY <2>1 DEF Seg
    <2>3. segments' \in Seq(Seg({0})) /\ Len(segments') = 1 /\ segments'[1].id = segments[1].id
        BY <1>4, <2>2
    <2>4. Shaped(segments')
        BY <2>3 DEF Shaped
    <2>5. Len(segments) = 1
        <3>1. Len(segments) \in Nat /\ Len(segments) >= 1
            BY <1>1
        <3>2. QED
            BY <3>1
    <2>6. Relabelled(segments', segments)
        BY <1>2, <2>3, <2>4, <2>5 DEF Relabelled
    <2>7. QED
        BY <1>2, <1>4, <2>6, OnlyCounters
<1>5. CASE /\ \E x : segments' = [segments EXCEPT ![1].records = x]
           /\ pc' = pc /\ files' = files
    <2>1. PICK x : segments' = [segments EXCEPT ![1].records = x]
        BY <1>5
    <2>2. Shaped(segments) /\ 1 \in 1..Len(segments)
        BY <1>1, <1>2
    <2>3. Relabelled([segments EXCEPT ![1].records = x], segments)
        BY <2>2, UpdateRecords, Zenon
    <2>4. Relabelled(segments', segments)
        BY <2>1, <2>3, Zenon
    <2>5. QED
        BY <1>2, <1>5, <2>4, OnlyCounters
<1>6. QED
    BY <1>3, <1>4, <1>5

----------------------------------------------------------------------------
\* The tail that Push appends to: the last segment, or the next one.
LEMMA RolledTail ==
    ASSUME DiskInv, pc = "idle", NEW k
    PROVE  /\ Shaped(Rolled(k)) /\ Increasing(Rolled(k)) /\ Rolled(k) # << >>
           /\ Len(Rolled(k)) \in 1..Len(Rolled(k))
           /\ Last(Rolled(k)).id \in Nat \ {0}
           /\ SegIds(Rolled(k)) = DOMAIN files \cup {Last(Rolled(k)).id}
           /\ headFile[1] <= Last(Rolled(k)).id
<1>1. /\ Len(segments) \in Nat /\ Len(segments) >= 1 /\ segments # << >>
      /\ DOMAIN files = SegIds(segments) /\ DOMAIN files \subseteq Nat \ {0}
      /\ \A i \in 1..Len(segments) : segments[i].id \in DOMAIN files
      /\ Shaped(segments) /\ Increasing(segments) /\ HeadInv
    BY OldestFirst
<1> DEFINE n == Len(segments)
           t == segments[n].id
<1>2. n \in 1..n /\ n \in Nat
    BY <1>1
<1>3. Last(segments) = segments[n]
    BY DEF Last
<1>4. t \in DOMAIN files /\ t \in Nat \ {0} /\ headFile[1] <= t /\ headFile[1] \in Nat
    BY <1>1, <1>2 DEF HeadInv
<1>5. CASE Rolled(k) = segments
    <2>1. SegIds(segments) = DOMAIN files \cup {t}
        BY <1>1, <1>4
    <2>2. QED
        BY <1>1, <1>2, <1>3, <1>4, <1>5, <2>1
<1>6. CASE Rolled(k) = Append(segments, [id |-> t + 1, size |-> 0, records |-> 0])
    <2> DEFINE u == Rolled(k)
    <2>1. t + 1 \in Nat \ {0} /\ headFile[1] <= t + 1
        BY <1>4
    <2>2. /\ Shaped(u) /\ Len(u) = n + 1 /\ u[n + 1].id = t + 1
          /\ \A i \in 1..n : u[i].id = segments[i].id
          /\ SegIds(u) = SegIds(segments) \cup {t + 1}
        BY <1>1, <1>6, <2>1, AppendSegment
    <2> HIDE DEF u
    <2>3. Last(u) = u[n + 1] /\ n + 1 \in 1..(n + 1) /\ n + 1 # 0
        BY <1>2, <2>2 DEF Last
    <2>4. u # << >>
        BY <1>2, <2>2, Shape
    <2>5. \A i \in 1..n : segments[i].id \in Nat /\ segments[i].id <= t
        <3>1. ASSUME NEW i \in 1..n PROVE segments[i].id \in Nat /\ segments[i].id <= t
            <4>1. segments[i].id \in Nat
                BY <1>1
            <4>2. i = n \/ i < n
                BY <1>2
            <4>3. i = n \/ segments[i].id < t
                BY <1>1, <1>2, <4>2 DEF Increasing
            <4>4. QED
                BY <1>4, <4>1, <4>3
        <3>2. QED
            BY <3>1
    <2>6. Increasing(u)
        <3>1. ASSUME NEW i \in 1..(n + 1), NEW j \in 1..(n + 1), i < j PROVE u[i].id < u[j].id
            <4>1. i \in 1..n /\ (j \in 1..n \/ j = n + 1)
                BY <1>2, <3>1
            <4>2. CASE j \in 1..n
                BY <1>1, <2>2, <3>1, <4>1, <4>2 DEF Increasing
            <4>3. CASE j = n + 1
                <5>1. u[i].id = segments[i].id /\ u[j].id = t + 1
                    BY <2>2, <4>1, <4>3
                <5>2. QED
                    BY <1>4, <2>5, <4>1, <5>1
            <4>4. QED
                BY <4>1, <4>2, <4>3
        <3>2. QED
            BY <2>2, <3>1 DEF Increasing
    <2>7. QED
        BY <1>1, <2>1, <2>2, <2>3, <2>4, <2>6 DEF u
<1>7. Rolled(k) = segments \/ Rolled(k) = Append(segments, [id |-> t + 1, size |-> 0, records |-> 0])
    BY <1>3 DEF Rolled
<1>8. QED
    BY <1>5, <1>6, <1>7

\* Push counts the record in the tail.
LEMMA CountPushed ==
    ASSUME NEW s, Shaped(s), NEW n \in 1..Len(s), NEW k
    PROVE  Relabelled([s EXCEPT ![n].size = @ + k, ![n].records = @ + 1], s)
<1> DEFINE a == s[n].size + k
           b == s[n].records + 1
           u == [s EXCEPT ![n].size = @ + k, ![n].records = @ + 1]
<1>1. PICK X : s \in Seq(Seg(X))
    BY DEF Shaped
<1>2. Len(s) \in Nat /\ DOMAIN s = 1..Len(s) /\ \A i \in 1..Len(s) : s[i] \in Seg(X)
    BY <1>1
<1> DEFINE S == Seg(X \cup {a, b})
           m == Len(s)
<1>3. \A i \in 1..m : u[i] \in S /\ u[i].id = s[i].id
    <2>1. \A r \in Seg(X) : r \in S
        BY DEF Seg
    <2>2. \A i \in 1..m : i # n => u[i] = s[i]
        BY <1>2
    <2>3. u[n].id = s[n].id /\ u[n].size = a /\ u[n].records = b /\ DOMAIN u[n] = {"id", "size", "records"}
        BY <1>2 DEF Seg
    <2>4. u[n] \in S
        <3>1. u[n] = [s[n] EXCEPT !.size = a, !.records = b]
            BY <1>2 DEF Seg
        <3>2. QED
            BY <1>2, <3>1 DEF Seg
    <2>5. QED
        BY <1>2, <2>1, <2>2, <2>3, <2>4
<1>4. u = [i \in 1..m |-> u[i]]
    BY <1>2
<1>5. m \in Nat
    BY <1>2
<1> HIDE DEF u, S, m
<1>6. u \in [1..m -> S]
    BY <1>3, <1>4
<1>7. u \in Seq(S) /\ Len(u) = m
    BY <1>5, <1>6
<1>8. QED
    BY <1>3, <1>7 DEF Shaped, Relabelled, u, S, m

\* The files after an append.
LEMMA AppendedFiles ==
    ASSUME DiskInv, pc = "idle", NEW k, NEW id, NEW n, files' = Appended(id, k, n), headFile' = headFile
    PROVE  /\ DOMAIN files' = SegIds(Rolled(k)) /\ DOMAIN files' \subseteq Nat \ {0}
           /\ HeadInv'
<1>1. /\ Last(Rolled(k)).id \in Nat \ {0} /\ headFile[1] <= Last(Rolled(k)).id
      /\ SegIds(Rolled(k)) = DOMAIN files \cup {Last(Rolled(k)).id}
    BY RolledTail
<1>2. DOMAIN files' = DOMAIN files \cup {Last(Rolled(k)).id}
    BY DEF Appended, With
<1>3. DOMAIN files \subseteq Nat \ {0} /\ HeadInv
    BY DEF DiskInv
<1>4. QED
    BY <1>1, <1>2, <1>3 DEF HeadInv

LEMMA ExitKeeps ==
    ASSUME DOMAIN files' \subseteq Nat \ {0}, HeadInv', Exit
    PROVE  DiskInv'
<1>1. segments' = << >> /\ pc' = "down"
    BY DEF Exit
<1>2. << >> \in Seq(Seg({})) /\ Len(<< >>) = 0 /\ 1..0 = {}
    OBVIOUS
<1>3. Shaped(segments')
    BY <1>1, <1>2 DEF Shaped
<1>4. Increasing(segments')
    BY <1>1, <1>2 DEF Increasing
<1>5. QED
    BY <1>1, <1>3, <1>4 DEF DiskInv, SegmentsInv

LEMMA PushKeeps == ASSUME DiskInv, Push PROVE DiskInv'
<1>1. PICK k \in Sizes :
         /\ pc = "idle" /\ files' = Appended(pushed + 1, k, k)
         /\ segments' = [Rolled(k) EXCEPT ![Len(Rolled(k))].size = @ + k,
                                          ![Len(Rolled(k))].records = @ + 1]
         /\ pc' = "bound" /\ headFile' = headFile
    BY DEF Push
<1>2. /\ Shaped(Rolled(k)) /\ Increasing(Rolled(k)) /\ Rolled(k) # << >>
      /\ Len(Rolled(k)) \in 1..Len(Rolled(k))
    BY <1>1, RolledTail
<1>3. DOMAIN files' = SegIds(Rolled(k)) /\ DOMAIN files' \subseteq Nat \ {0} /\ HeadInv'
    BY <1>1, AppendedFiles
<1> DEFINE u == Rolled(k)
           n == Len(u)
<1>4. Shaped(u) /\ n \in 1..Len(u)
    BY <1>2
<1>5. segments' = [u EXCEPT ![n].size = @ + k, ![n].records = @ + 1]
    BY <1>1
<1> HIDE DEF u, n
<1>6. Relabelled([u EXCEPT ![n].size = @ + k, ![n].records = @ + 1], u)
    BY <1>4, CountPushed, Zenon
<1>7. Relabelled(segments', u)
    BY <1>5, <1>6, Zenon
<1>8. Shaped(segments') /\ Len(segments') = Len(u)
    BY <1>7 DEF Relabelled
<1>9. Increasing(segments') /\ SegIds(segments') = SegIds(u)
    BY <1>2, <1>7, SameIds DEF u
<1>10. segments' # << >>
    <2>1. (segments' # << >> <=> Len(segments') > 0) /\ (u # << >> <=> Len(u) > 0)
        BY <1>4, <1>8, Shape
    <2>2. QED
        BY <1>2, <1>8, <2>1 DEF u
<1>11. QED
    BY <1>1, <1>3, <1>8, <1>9, <1>10, StaysRunning DEF u

LEMMA PushTornKeeps == ASSUME DiskInv, Push_torn PROVE DiskInv'
<1>1. PICK k \in Sizes : \E n : /\ pc = "idle" /\ files' = Appended(pushed + 1, k, n)
                                /\ Exit /\ headFile' = headFile
    BY DEF Push_torn
<1>2. DOMAIN files' \subseteq Nat \ {0} /\ HeadInv'
    BY <1>1, AppendedFiles
<1>3. QED
    BY <1>1, <1>2, ExitKeeps

LEMMA PushFailsKeeps == ASSUME DiskInv, Push_fails PROVE DiskInv'
<1>1. PICK k \in Sizes : \E n : /\ pc = "idle" /\ files' = Appended(pushed + 1, k, n)
                                /\ segments' = Rolled(k) /\ headFile' = headFile /\ pc' = pc
    BY DEF Push_fails
<1>2. DOMAIN files' = SegIds(Rolled(k)) /\ DOMAIN files' \subseteq Nat \ {0} /\ HeadInv'
    BY <1>1, AppendedFiles
<1>3. Shaped(Rolled(k)) /\ Increasing(Rolled(k)) /\ Rolled(k) # << >>
    BY <1>1, RolledTail
<1>4. QED
    BY <1>1, <1>2, <1>3, StaysRunning

----------------------------------------------------------------------------
\* Recovery.
LEMMA OpenKeeps == ASSUME DiskInv, Open PROVE DiskInv'
<1>1. /\ pc = "down" /\ pc' = "recover" /\ todo' = DOMAIN files
      /\ files' = files /\ headFile' = headFile /\ segments' = segments
    BY DEF Open, disk
<1>2. segments = << >> /\ Shaped(segments) /\ Increasing(segments)
    BY <1>1 DEF DiskInv, SegmentsInv
<1>3. Len(segments) = 0 /\ 1..Len(segments) = {}
    BY <1>2
<1>4. SegIds(segments) = {}
    BY <1>3 DEF SegIds
<1>5. SegmentsInv'
    BY <1>1, <1>2, <1>3, <1>4 DEF SegmentsInv
<1>6. QED
    BY <1>1, <1>5 DEF DiskInv, HeadInv

\* As long as no roll fails, recover never takes its first branch: no file is older
\* than the head file.
LEMMA ScanKeeps == ASSUME DiskInv, scanSegment PROVE DiskInv'
<1> DEFINE id == NextSegment
<1>1. /\ pc = "recover" /\ pc' = "recover" /\ todo # {} /\ todo' = todo \ {id} /\ headFile' = headFile
    BY DEF scanSegment
<1>2. /\ DOMAIN files = SegIds(segments) \cup todo /\ Shaped(segments) /\ Increasing(segments)
      /\ \A i \in 1..Len(segments) : \A t \in todo : segments[i].id < t
      /\ DOMAIN files \subseteq Nat \ {0} /\ HeadInv
    BY <1>1 DEF DiskInv, SegmentsInv
<1>3. id \in todo /\ \A t \in todo : id <= t
    <2>1. todo \subseteq Nat
        BY <1>2
    <2>2. \E x \in todo : \A y \in todo : x <= y
        BY <1>1, <2>1, LeastId
    <2>3. QED
        BY <2>2 DEF NextSegment
<1>4. id \in DOMAIN files /\ id \in Nat \ {0} /\ ~(id < headFile[1])
    <2>1. id \in DOMAIN files /\ id \in Nat \ {0}
        BY <1>2, <1>3
    <2>2. QED
        BY <1>2, <2>1 DEF HeadInv
<1>5. /\ DOMAIN files' = DOMAIN files
      /\ \E a, b : segments' = Append(segments, [id |-> id, size |-> a, records |-> b])
    BY <1>4 DEF scanSegment
<1>6. PICK a, b : segments' = Append(segments, [id |-> id, size |-> a, records |-> b])
    BY <1>5
<1> HIDE DEF id
<1> DEFINE n == Len(segments)
<1>7. /\ Shaped(segments') /\ Len(segments') = n + 1 /\ segments'[n + 1].id = id
      /\ \A i \in 1..n : segments'[i].id = segments[i].id
      /\ SegIds(segments') = SegIds(segments) \cup {id}
    BY <1>2, <1>4, <1>6, AppendSegment
<1>8. n \in Nat /\ \A i \in 1..n : segments[i].id \in Nat
    BY <1>2, Shape
<1>9. \A i \in 1..(n + 1) : i \in 1..n \/ i = n + 1
    BY <1>8
<1> HIDE DEF n
<1>10. Increasing(segments')
    <2>1. ASSUME NEW i \in 1..(n + 1), NEW j \in 1..(n + 1), i < j
          PROVE  segments'[i].id < segments'[j].id
        <3>1. i \in 1..n /\ (j \in 1..n \/ j = n + 1)
            BY <1>8, <2>1
        <3>2. CASE j \in 1..n
            BY <1>2, <1>7, <2>1, <3>1, <3>2 DEF Increasing, n
        <3>3. CASE j = n + 1
            BY <1>2, <1>3, <1>7, <3>1, <3>3 DEF n
        <3>4. QED
            BY <3>1, <3>2, <3>3
    <2>2. QED
        BY <1>7, <2>1 DEF Increasing
<1>11. \A i \in 1..(n + 1) : \A t \in todo' : segments'[i].id < t
    <2>1. ASSUME NEW i \in 1..(n + 1), NEW t \in todo' PROVE segments'[i].id < t
        <3>1. t \in todo /\ t # id /\ t \in Nat /\ id \in Nat /\ id <= t
            BY <1>1, <1>2, <1>3, <1>4
        <3>2. CASE i \in 1..n
            BY <1>2, <1>7, <3>1, <3>2 DEF n
        <3>3. CASE i = n + 1
            BY <1>7, <3>1, <3>3
        <3>4. QED
            BY <1>9, <3>2, <3>3
    <2>2. QED
        BY <2>1
<1>12. DOMAIN files' = SegIds(segments') \cup todo'
    BY <1>1, <1>2, <1>3, <1>5, <1>7
<1>13. SegmentsInv'
    BY <1>1, <1>7, <1>10, <1>11, <1>12 DEF SegmentsInv
<1>14. QED
    BY <1>1, <1>2, <1>5, <1>13 DEF DiskInv, HeadInv

LEMMA RecoverDoneKeeps == ASSUME DiskInv, recover_done PROVE DiskInv'
<1>1. pc = "recover" /\ pc' = "open_bound" /\ todo = {} /\ headFile' = headFile
    BY DEF recover_done
<1>2. /\ DOMAIN files = SegIds(segments) /\ Shaped(segments) /\ Increasing(segments)
      /\ DOMAIN files \subseteq Nat \ {0} /\ HeadInv
    BY <1>1 DEF DiskInv, SegmentsInv
<1>3. CASE segments = << >>
    <2>1. segments' = <<[id |-> 1, size |-> 0, records |-> 0]>> /\ DOMAIN files' = DOMAIN files \cup {1}
        BY <1>3 DEF recover_done, With
    <2>2. [id |-> 1, size |-> 0, records |-> 0] \in Seg({0})
        BY DEF Seg
    <2>3. segments' \in Seq(Seg({0})) /\ Len(segments') = 1 /\ segments'[1].id = 1
        BY <2>1, <2>2
    <2>4. 1..1 = {1} /\ ~(1 < 1)
        OBVIOUS
    <2>5. Shaped(segments') /\ Increasing(segments') /\ SegIds(segments') = {1} /\ segments' # << >>
        <3>1. Shaped(segments')
            BY <2>3 DEF Shaped
        <3>2. Increasing(segments')
            BY <2>3, <2>4 DEF Increasing
        <3>3. SegIds(segments') = {1}
            BY <2>3, <2>4 DEF SegIds
        <3>4. segments' # << >>
            <4>1. segments' # << >> <=> Len(segments') > 0
                BY <3>1, Shape
            <4>2. Len(segments') = 1
                BY <2>3
            <4>3. QED
                BY <4>1, <4>2
        <3>5. QED
            BY <3>1, <3>2, <3>3, <3>4
    <2>6. DOMAIN files = {}
        <3>1. Len(segments) = 0 /\ 1..Len(segments) = {}
            BY <1>3
        <3>2. QED
            BY <1>2, <3>1 DEF SegIds
    <2>7. DOMAIN files' = {1} /\ HeadInv'
        BY <1>1, <1>2, <2>1, <2>6 DEF HeadInv
    <2>8. DOMAIN files' \subseteq Nat \ {0}
        BY <2>7
    <2>9. QED
        BY <1>1, <2>5, <2>7, <2>8, StaysRunning
<1>4. CASE segments # << >>
    <2>1. segments' = segments /\ files' = files
        BY <1>4 DEF recover_done
    <2>2. HeadInv'
        BY <1>1, <1>2, <2>1 DEF HeadInv
    <2>3. QED
        BY <1>1, <1>2, <1>4, <2>1, <2>2, StaysRunning
<1>5. QED
    BY <1>3, <1>4

----------------------------------------------------------------------------
\* A step that leaves segments alone.
LEMMA SameSegments ==
    ASSUME DiskInv, pc \notin {"down", "recover"}, pc' \notin {"down", "recover"},
           segments' = segments, DOMAIN files' = DOMAIN files,
           headFile' = headFile \/ headFile'[1] = segments[1].id
    PROVE  DiskInv'
<1>1. Relabelled(segments', segments)
    <2>1. Shaped(segments)
        BY DEF DiskInv, SegmentsInv
    <2>2. QED
        BY <2>1 DEF Relabelled
<1>2. QED
    BY <1>1, OnlyCounters

LEMMA EnforceBoundKeeps == ASSUME DiskInv, enforceBound_drop \/ enforceBound_done PROVE DiskInv'
<1>1. CASE enforceBound_drop
    <2>1. pc \in {"bound", "open_bound"} /\ Len(segments) > 1
        BY <1>1 DEF enforceBound_drop, OverBudget
    <2>2. \E next \in {"bound_head", "open_head", "ack_head"} : dropHead(None, next)
        BY <1>1 DEF enforceBound_drop
    <2>3. QED
        BY <2>1, <2>2, DropHead
<1>2. CASE enforceBound_done
    BY <1>2, SameSegments DEF enforceBound_done, disk, memory
<1>3. QED
    BY <1>1, <1>2

LEMMA WriteHeadKeeps == ASSUME DiskInv, writeHead PROVE DiskInv'
<1>1. pc \in {"bound_head", "open_head", "ack_head"} /\ segments' = segments /\ files' = files
    BY DEF writeHead, memory
<1>2. pc' \notin {"down", "recover"} /\ (headFile' = headFile \/ headFile'[1] = segments[1].id)
    BY DEF writeHead, HeadSegment
<1>3. QED
    BY <1>1, <1>2, SameSegments

LEMMA AckKeeps == ASSUME DiskInv, Ack_advance \/ Ack_last \/ Ack_discard PROVE DiskInv'
<1>1. pc = "idle"
    BY DEF Ack_advance, Ack_last, Ack_discard
<1>2. CASE Ack_advance
    <2>1. /\ segments' = [segments EXCEPT ![1].records = @ - 1] /\ files' = files /\ pc' = pc
          /\ headFile' = headFile \/ headFile'[1] = segments[1].id
        BY <1>2 DEF Ack_advance, NextHead
    <2>2. Shaped(segments) /\ 1 \in 1..Len(segments)
        <3>1. Len(segments) \in Nat /\ Len(segments) >= 1 /\ Shaped(segments)
            BY <1>1, OldestFirst
        <3>2. QED
            BY <3>1
    <2>3. PICK x : segments' = [segments EXCEPT ![1].records = x]
        BY <2>1
    <2>4. Relabelled([segments EXCEPT ![1].records = x], segments)
        BY <2>2, UpdateRecords, Zenon
    <2>5. Relabelled(segments', segments)
        BY <2>3, <2>4, Zenon
    <2>6. QED
        BY <1>1, <2>1, <2>5, OnlyCounters
<1>3. CASE Ack_last
    <2>1. CASE Len(segments) > 1
        BY <1>1, <1>3, <2>1, DropHead DEF Ack_last
    <2>2. CASE ~(Len(segments) > 1)
        BY <1>1, <1>3, <2>2, ResetOnly DEF Ack_last
    <2>3. QED
        BY <2>1, <2>2
<1>4. CASE Ack_discard
    <2>1. CASE Len(segments) > 1
        BY <1>1, <1>4, <2>1, DropHead DEF Ack_discard
    <2>2. CASE ~(Len(segments) > 1)
        BY <1>1, <1>4, <2>2, ResetOnly DEF Ack_discard
    <2>3. QED
        BY <2>1, <2>2
<1>5. QED
    BY <1>2, <1>3, <1>4

LEMMA CloseKeeps == ASSUME DiskInv, Close PROVE DiskInv'
<1>1. pc = "idle" /\ headFile' = <<segments[1].id, headOff>> /\ Exit /\ files' = files
    BY DEF Close
<1>2. /\ Len(segments) \in Nat /\ Len(segments) >= 1
      /\ \A i \in 1..Len(segments) : segments[i].id \in DOMAIN files
      /\ \A id \in DOMAIN files : segments[1].id <= id
      /\ DOMAIN files \subseteq Nat \ {0}
    BY <1>1, OldestFirst
<1>3. 1 \in 1..Len(segments)
    BY <1>2
<1>4. HeadInv'
    BY <1>1, <1>2, <1>3 DEF HeadInv
<1>5. QED
    BY <1>1, <1>2, <1>4, ExitKeeps

\* A step that ends the process and leaves the disk alone.
LEMMA EndKeeps ==
    ASSUME DiskInv, Exit, files' = files, headFile' = headFile
    PROVE  DiskInv'
<1>1. HeadInv' /\ DOMAIN files' \subseteq Nat \ {0}
    BY DEF DiskInv, HeadInv
<1>2. QED
    BY <1>1, ExitKeeps

\* No file is passed over in recovery, none being older than the head.
LEMMA NothingSkipped == ASSUME DiskInv, recover_skip PROVE FALSE
<1>1. pc = "recover" /\ todo # {} /\ NextSegment < headFile[1]
    BY DEF recover_skip
<1>2. todo \subseteq DOMAIN files /\ DOMAIN files \subseteq Nat /\ HeadInv
    BY <1>1 DEF DiskInv, SegmentsInv
<1>3. NextSegment \in todo
    <2>1. \E x \in todo : \A y \in todo : x <= y
        BY <1>1, <1>2, LeastId
    <2>2. QED
        BY <2>1 DEF NextSegment
<1>4. NextSegment \in Nat /\ headFile[1] \in Nat /\ headFile[1] <= NextSegment
    BY <1>2, <1>3 DEF HeadInv
<1>5. QED
    BY <1>1, <1>4

LEMMA DiskInvNext ==
    ASSUME DiskInv, faults \in Seq(Faults), [DiskQueueNext]_dqVars, ~Failed({"roll"})'
    PROVE  DiskInv'
<1>1. CASE Open \/ scanSegment \/ recover_done
    BY <1>1, OpenKeeps, ScanKeeps, RecoverDoneKeeps
<1>11. CASE recover_skip
    BY <1>11, NothingSkipped
<1>12. CASE roll_fails
    BY <1>12, CallFailed DEF roll_fails
<1>13. CASE recover_fails \/ Close_fails
    BY <1>13, EndKeeps DEF recover_fails, Close_fails, disk
<1>2. CASE Push \/ Push_torn \/ Push_fails
    BY <1>2, PushKeeps, PushTornKeeps, PushFailsKeeps
<1>3. CASE enforceBound_drop \/ enforceBound_done \/ writeHead
    BY <1>3, EnforceBoundKeeps, WriteHeadKeeps
<1>4. CASE Peek
    BY <1>4, SameSegments DEF Peek, disk
<1>5. CASE Ack_advance \/ Ack_last \/ Ack_discard
    BY <1>5, AckKeeps
<1>6. CASE Close
    BY <1>6, CloseKeeps
<1>7. CASE Crash
    BY <1>7, EndKeeps DEF Crash, disk
<1>8. CASE Corrupt
    <2>1. /\ pc = "idle" /\ pc' = pc /\ segments' = segments /\ headFile' = headFile
          /\ DOMAIN files' = DOMAIN files
        BY <1>8 DEF Corrupt, memory
    <2>2. QED
        BY <2>1, SameSegments
<1>9. CASE UNCHANGED dqVars
    BY <1>9 DEF dqVars, disk, memory, DiskInv, HeadInv, SegmentsInv
<1>10. QED
    BY <1>1, <1>2, <1>3, <1>4, <1>5, <1>6, <1>7, <1>8, <1>9, <1>11, <1>12, <1>13 DEF DiskQueueNext

LEMMA DiskInvInit == DiskQueueInit => DiskInv
<1> SUFFICES ASSUME DiskQueueInit PROVE DiskInv
    OBVIOUS
<1>1. files = << >> /\ headFile = <<0, 0>> /\ segments = << >> /\ pc = "down"
    BY DEF DiskQueueInit
<1>2. << >> \in Seq(Seg({})) /\ Len(<< >>) = 0 /\ 1..0 = {} /\ DOMAIN << >> = {}
    OBVIOUS
<1>3. HeadInv /\ DOMAIN files \subseteq Nat \ {0}
    BY <1>1, <1>2 DEF HeadInv
<1>4. Shaped(segments)
    BY <1>1, <1>2 DEF Shaped
<1>5. Increasing(segments)
    BY <1>1, <1>2 DEF Increasing
<1>6. QED
    BY <1>1, <1>3, <1>4, <1>5 DEF DiskInv, SegmentsInv

\* The segments as long as no roll has failed.
RollInv == faults \in Seq(Faults) /\ (~Failed({"roll"}) => DiskInv)

\* As long as no roll has failed, and whatever else fails and whenever the
\* process dies, no file on the disk is older than the segment the head file
\* names: recover, which removes such files as fully consumed
\* (diskqueue.go:127-132), never removes an unread record.  It rests on the
\* order of dropHead, which removes the segment first and writes the head file
\* after (diskqueue.go:291-312), and on the tail never being dropped.
THEOREM RecoveryRemovesNothingUnread == DiskQueueSpec => []StaleExplained
<1>1. DiskQueueInit => RollInv
    BY DiskInvInit, EmptySeq DEF RollInv, DiskQueueInit
<1>2. RollInv /\ [DiskQueueNext]_dqVars => RollInv'
    <2> SUFFICES ASSUME RollInv, [DiskQueueNext]_dqVars PROVE RollInv'
        OBVIOUS
    <2>1. faults' \in Seq(Faults) /\ (Failed({"roll"}) => Failed({"roll"})')
        BY FaultsGrow DEF RollInv
    <2>2. ~Failed({"roll"})' => DiskInv'
        BY <2>1, DiskInvNext DEF RollInv
    <2>3. QED
        BY <2>1, <2>2 DEF RollInv
<1>3. RollInv => StaleExplained
    <2> SUFFICES ASSUME DiskInv, NEW id \in DOMAIN files, id < headFile[1]
                 PROVE  FALSE
        BY DEF StaleExplained, NoLiveStale, RollInv
    <2>1. id \in Nat /\ headFile[1] \in Nat /\ headFile[1] <= id
        BY DEF DiskInv, HeadInv
    <2>2. QED
        BY <2>1
<1>4. QED
    BY <1>1, <1>2, <1>3, PTL DEF DiskQueueSpec

-----------------------------------------------------------------------------
\* What the disk queue's files hold.

\* Cells, whatever fails, as long as no roll does.

\* Files fs hold cells of records 1..p, a first cell is never of record 0, and
\* a first cell is newer than every cell before it, in its file or in an older
\* one.
FilesTyped(fs) ==
    /\ DOMAIN fs \subseteq Nat \ {0}
    /\ \E b \in Nat : \A id \in DOMAIN fs : id <= b
    /\ \A id \in DOMAIN fs : fs[id] \in Seq(Cell)

CellIds(fs, p) ==
    \A id \in DOMAIN fs : \A i \in 1..Len(fs[id]) :
        fs[id][i][1] <= p /\ (fs[id][i][3] = 1 => fs[id][i][1] >= 1)

Earlier(a, i, b, j) == a < b \/ (a = b /\ i < j)

Aged(fs) ==
    \A a, b \in DOMAIN fs : \A i \in 1..Len(fs[a]), j \in 1..Len(fs[b]) :
        Earlier(a, i, b, j) /\ fs[b][j][3] = 1 => fs[a][i][1] < fs[b][j][1]

FilesOK(fs, p) == FilesTyped(fs) /\ CellIds(fs, p) /\ Aged(fs)

\* Each cell of g is f's in its place, perhaps gone bad, or a zero.
Weaker(g, f) ==
    \A j \in 1..Len(g) :
        \/ /\ j \in 1..Len(f) /\ g[j][1] = f[j][1]
           /\ g[j][3] = 1 => f[j][3] = 1
        \/ g[j][1] = 0 /\ g[j][3] # 1

\* gs is fs, except that file t, new or old, now holds g.
Put(gs, fs, t, g) ==
    /\ DOMAIN gs = DOMAIN fs \cup {t}
    /\ gs[t] = g
    /\ \A id \in DOMAIN fs : id # t => gs[id] = fs[id]

LEMMA PutTyped ==
    ASSUME NEW fs, NEW gs, FilesTyped(fs), NEW t \in Nat \ {0}, NEW g \in Seq(Cell), Put(gs, fs, t, g)
    PROVE  FilesTyped(gs)
<1>1. PICK b \in Nat : \A id \in DOMAIN fs : id <= b
    BY DEF FilesTyped
<1> DEFINE c == IF b >= t THEN b ELSE t
<1>2. c \in Nat /\ b <= c /\ t <= c
    OBVIOUS
<1> HIDE DEF c
<1>3. DOMAIN fs \subseteq Nat \ {0} /\ \A id \in DOMAIN fs : fs[id] \in Seq(Cell)
    BY DEF FilesTyped
<1>4. DOMAIN gs \subseteq Nat \ {0} /\ \A id \in DOMAIN gs : gs[id] \in Seq(Cell)
    BY <1>3 DEF Put
<1>5. \A id \in DOMAIN gs : id <= c
    <2>1. \A id \in DOMAIN fs : id \in Nat /\ id <= c
        BY <1>1, <1>2, <1>3
    <2> QED
        BY <1>2, <2>1 DEF Put
<1> QED
    BY <1>2, <1>4, <1>5 DEF FilesTyped

LEMMA PutWeaker ==
    ASSUME NEW fs, NEW gs, NEW p \in Nat, FilesOK(fs, p), NEW t \in DOMAIN fs,
           NEW g \in Seq(Cell), Weaker(g, fs[t]), Put(gs, fs, t, g)
    PROVE  FilesOK(gs, p)
<1>1. FilesTyped(fs) /\ CellIds(fs, p) /\ Aged(fs)
    BY DEF FilesOK
<1>2. DOMAIN gs = DOMAIN fs /\ gs[t] = g /\ \A id \in DOMAIN fs : id # t => gs[id] = fs[id]
    BY DEF Put
<1>3. FilesTyped(gs)
    <2>1. t \in Nat \ {0}
        BY <1>1 DEF FilesTyped
    <2> QED
        BY <1>1, <2>1, PutTyped
<1>4. ASSUME NEW id \in DOMAIN gs, NEW i \in 1..Len(gs[id])
      PROVE  \/ /\ i \in 1..Len(fs[id]) /\ gs[id][i][1] = fs[id][i][1]
                /\ gs[id][i][3] = 1 => fs[id][i][3] = 1
             \/ gs[id][i][1] = 0 /\ gs[id][i][3] # 1
    BY <1>2 DEF Weaker
<1>5. CellIds(gs, p)
    <2>1. ASSUME NEW id \in DOMAIN gs, NEW i \in 1..Len(gs[id])
          PROVE  gs[id][i][1] <= p /\ (gs[id][i][3] = 1 => gs[id][i][1] >= 1)
        <3>1. CASE i \in 1..Len(fs[id]) /\ gs[id][i][1] = fs[id][i][1]
                   /\ (gs[id][i][3] = 1 => fs[id][i][3] = 1)
            BY <1>1, <1>2, <3>1 DEF CellIds
        <3>2. CASE gs[id][i][1] = 0 /\ gs[id][i][3] # 1
            BY <3>2
        <3> QED
            BY <1>4, <3>1, <3>2
    <2> QED
        BY <2>1 DEF CellIds
<1>6. Aged(gs)
    <2> SUFFICES ASSUME NEW a \in DOMAIN gs, NEW b \in DOMAIN gs,
                        NEW i \in 1..Len(gs[a]), NEW j \in 1..Len(gs[b]),
                        Earlier(a, i, b, j), gs[b][j][3] = 1
                 PROVE  gs[a][i][1] < gs[b][j][1]
        BY DEF Aged
    <2>1. j \in 1..Len(fs[b]) /\ gs[b][j][1] = fs[b][j][1] /\ fs[b][j][3] = 1
        BY <1>4
    <2>2. CASE i \in 1..Len(fs[a]) /\ gs[a][i][1] = fs[a][i][1]
        BY <1>1, <1>2, <2>1, <2>2 DEF Aged
    <2>3. CASE gs[a][i][1] = 0
        <3>1. fs[b][j][1] >= 1 /\ b \in DOMAIN fs
            BY <1>1, <1>2, <2>1 DEF CellIds
        <3>2. fs[b][j][1] \in Nat
            BY <1>1, <2>1, <3>1, CellShape DEF FilesTyped
        <3> QED
            BY <2>1, <2>3, <3>1, <3>2
    <2> QED
        BY <1>4, <2>2, <2>3
<1> QED
    BY <1>3, <1>5, <1>6 DEF FilesOK

LEMMA RemoveOK ==
    ASSUME NEW fs, NEW p, FilesOK(fs, p), NEW id
    PROVE  FilesOK(Without(fs, id), p)
<1> DEFINE gs == Without(fs, id)
<1>1. DOMAIN gs \subseteq DOMAIN fs /\ \A x \in DOMAIN gs : gs[x] = fs[x]
    BY DEF Without
<1> HIDE DEF gs
<1>2. FilesTyped(gs)
    BY <1>1 DEF FilesOK, FilesTyped
<1>3. CellIds(gs, p)
    BY <1>1 DEF FilesOK, CellIds
<1>4. Aged(gs)
    BY <1>1 DEF FilesOK, Aged
<1> QED
    BY <1>2, <1>3, <1>4 DEF FilesOK, gs

\* Cells of a new record, behind all the others.
LEMMA PutAppend ==
    ASSUME NEW fs, NEW gs, NEW p \in Nat, FilesOK(fs, p), NEW t \in Nat \ {0},
           \A id \in DOMAIN fs : id <= t,
           NEW f \in Seq(Cell), t \in DOMAIN fs => fs[t] = f, t \notin DOMAIN fs => f = << >>,
           NEW k \in Nat, NEW n \in 0..k,
           Put(gs, fs, t, f \o SubSeq(encode(p + 1, k), 1, n))
    PROVE  FilesOK(gs, p + 1)
<1> DEFINE q == p + 1
           c == SubSeq(encode(q, k), 1, n)
           g == f \o c
<1>0. q \in Nat /\ p < q /\ q >= 1
    OBVIOUS
<1> HIDE DEF q
<1>1. c \in Seq(Cell) /\ Len(c) = n /\ \A i \in 1..n : c[i] = <<q, k, i>>
    BY <1>0, EncodeCells
<1>2. FilesTyped(fs) /\ CellIds(fs, p) /\ Aged(fs)
    BY DEF FilesOK
<1>3. DOMAIN gs = DOMAIN fs \cup {t} /\ gs[t] = g /\ \A id \in DOMAIN fs : id # t => gs[id] = fs[id]
    BY DEF Put, q
<1> HIDE DEF c
<1>4. /\ g \in Seq(Cell) /\ Len(g) = Len(f) + n /\ Len(f) \in Nat
      /\ \A i \in 1..Len(f) : g[i] = f[i]
      /\ \A i \in 1..n : g[Len(f) + i] = <<q, k, i>>
    <2>1. c \in Seq(Cell) /\ Len(c) = n
        BY <1>1
    <2>2. /\ g \in Seq(Cell) /\ Len(g) = Len(f) + Len(c)
          /\ \A i \in 1..Len(f) : g[i] = f[i]
          /\ \A i \in 1..Len(c) : g[Len(f) + i] = c[i]
        BY <2>1, AppendCells, Zenon
    <2>3. Len(f) \in Nat
        BY CellShape
    <2> HIDE DEF g
    <2> QED
        BY <1>1, <2>1, <2>2, <2>3
<1>5. ASSUME NEW id \in DOMAIN gs, NEW i \in 1..Len(gs[id])
      PROVE  \/ id \in DOMAIN fs /\ i \in 1..Len(fs[id]) /\ gs[id][i] = fs[id][i]
             \/ id = t /\ (t \in DOMAIN fs => i > Len(fs[t])) /\ i > Len(f)
                /\ gs[id][i][1] = q /\ (gs[id][i][3] = 1 => i = Len(f) + 1)
    <2>1. CASE id # t
        BY <1>3, <2>1
    <2>2. CASE id = t
        <3>1. i \in 1..(Len(f) + n)
            BY <1>3, <1>4, <2>2
        <3>2. CASE i \in 1..Len(f)
            <4>1. t \in DOMAIN fs
                <5>1. t \notin DOMAIN fs => Len(f) = 0
                    OBVIOUS
                <5> QED
                    BY <3>2, <5>1
            <4>2. fs[t] = f
                BY <4>1
            <4> QED
                BY <1>3, <1>4, <2>2, <3>2, <4>1, <4>2
        <3>3. CASE i > Len(f)
            <4> DEFINE j == i - Len(f)
            <4>1. j \in 1..n /\ i = Len(f) + j
                BY <1>4, <3>1, <3>3
            <4>2. gs[id][i] = <<q, k, j>>
                BY <1>3, <1>4, <2>2, <4>1
            <4>3. gs[id][i][1] = q /\ gs[id][i][3] = j
                BY <4>2
            <4>4. gs[id][i][3] = 1 => i = Len(f) + 1
                BY <4>1, <4>3
            <4> QED
                BY <2>2, <3>3, <4>3, <4>4
        <3>4. i \in 1..Len(f) \/ i > Len(f)
            BY <1>4, <3>1
        <3> QED
            BY <3>2, <3>3, <3>4
    <2> QED
        BY <2>1, <2>2
<1> HIDE DEF g
<1>6. FilesTyped(gs)
    BY <1>2, <1>3, <1>4, PutTyped DEF Put
<1>7. \A id \in DOMAIN fs : \A i \in 1..Len(fs[id]) : fs[id][i][1] \in Nat /\ fs[id][i][1] <= p
    BY <1>2, CellShape DEF FilesTyped, CellIds
<1>8. CellIds(gs, q)
    <2>1. ASSUME NEW id \in DOMAIN gs, NEW i \in 1..Len(gs[id])
          PROVE  gs[id][i][1] <= q /\ (gs[id][i][3] = 1 => gs[id][i][1] >= 1)
        <3>1. CASE id \in DOMAIN fs /\ i \in 1..Len(fs[id]) /\ gs[id][i] = fs[id][i]
            <4>1. fs[id][i][1] \in Nat /\ fs[id][i][1] <= p
                BY <1>7, <3>1
            <4>2. fs[id][i][3] = 1 => fs[id][i][1] >= 1
                BY <1>2, <3>1 DEF CellIds
            <4> QED
                BY <1>0, <3>1, <4>1, <4>2
        <3>2. CASE gs[id][i][1] = q
            BY <1>0, <3>2
        <3> QED
            BY <1>5, <3>1, <3>2
    <2> QED
        BY <2>1 DEF CellIds
<1>9. Aged(gs)
    <2> SUFFICES ASSUME NEW a \in DOMAIN gs, NEW b \in DOMAIN gs,
                        NEW i \in 1..Len(gs[a]), NEW j \in 1..Len(gs[b]),
                        Earlier(a, i, b, j), gs[b][j][3] = 1
                 PROVE  gs[a][i][1] < gs[b][j][1]
        BY DEF Aged
    <2>1. CASE b \in DOMAIN fs /\ j \in 1..Len(fs[b]) /\ gs[b][j] = fs[b][j]
        <3>1. CASE a \in DOMAIN fs /\ i \in 1..Len(fs[a]) /\ gs[a][i] = fs[a][i]
            BY <1>2, <2>1, <3>1 DEF Aged
        <3>2. CASE a = t /\ (t \in DOMAIN fs => i > Len(fs[t]))
            <4>1. b \in Nat /\ t \in Nat /\ b <= t
                BY <1>2, <2>1 DEF FilesTyped
            <4>2. b = t /\ i < j
                BY <3>2, <4>1 DEF Earlier
            <4>3. i > Len(fs[t]) /\ j <= Len(fs[t]) /\ Len(fs[t]) \in Nat
                BY <1>2, <2>1, <3>2, <4>2, CellShape DEF FilesTyped
            <4> QED
                BY <4>2, <4>3
        <3> QED
            BY <1>5, <3>1, <3>2
    <2>2. CASE b = t /\ j > Len(f) /\ gs[b][j][1] = q /\ (gs[b][j][3] = 1 => j = Len(f) + 1)
        <3>1. CASE a \in DOMAIN fs /\ i \in 1..Len(fs[a]) /\ gs[a][i] = fs[a][i]
            BY <1>0, <1>7, <2>2, <3>1
        <3>2. CASE a = t /\ i > Len(f)
            <4>1. i < j /\ j = Len(f) + 1
                BY <2>2, <3>2 DEF Earlier
            <4> QED
                BY <1>4, <3>2, <4>1
        <3> QED
            BY <1>5, <3>1, <3>2
    <2> QED
        BY <1>5, <2>1, <2>2
<1> QED
    BY <1>6, <1>8, <1>9 DEF FilesOK, q

----------------------------------------------------------------------------
\* The disk's cells and the cursors into them, as long as no roll fails.
CellsInv ==
    /\ FilesOK(files, pushed)
    /\ headFile \in Nat \X Nat
    /\ headOff \in Nat
    /\ peeked \in Rec
    /\ pushed \in 0..MaxPush

LEMMA CellsFacts ==
    ASSUME CellsInv
    PROVE  /\ FilesOK(files, pushed) /\ FilesTyped(files) /\ CellIds(files, pushed) /\ Aged(files)
           /\ \A id \in DOMAIN files : files[id] \in Seq(Cell)
           /\ headFile \in Nat \X Nat /\ headFile[1] \in Nat /\ headFile[2] \in Nat
           /\ \A id : Start(id) \in Nat
           /\ headOff \in Nat /\ peeked \in Rec /\ pushed \in Nat /\ pushed <= MaxPush
<1>1. headFile \in Nat \X Nat /\ headFile[1] \in Nat /\ headFile[2] \in Nat
    BY DEF CellsInv
<1>2. \A id : Start(id) \in Nat
    BY <1>1 DEF Start
<1>3. FilesOK(files, pushed) /\ headOff \in Nat /\ peeked \in Rec
    BY DEF CellsInv
<1>4. pushed \in Nat /\ pushed <= MaxPush
    BY DiskQueueAssumption DEF CellsInv
<1>5. FilesTyped(files) /\ CellIds(files, pushed) /\ Aged(files)
    BY <1>3 DEF FilesOK
<1>6. \A id \in DOMAIN files : files[id] \in Seq(Cell)
    BY <1>5 DEF FilesTyped
<1> QED
    BY <1>1, <1>2, <1>3, <1>4, <1>5, <1>6, Zenon

\* The tail Push appends to is the newest file.
LEMMA RolledNewest ==
    ASSUME DiskInv, pc = "idle", NEW k
    PROVE  /\ Last(Rolled(k)).id \in Nat \ {0}
           /\ \A id \in DOMAIN files : id <= Last(Rolled(k)).id
<1> DEFINE u == Rolled(k)
           n == Len(u)
<1>1. /\ Shaped(u) /\ Increasing(u) /\ n \in 1..n /\ Last(u).id \in Nat \ {0}
      /\ SegIds(u) = DOMAIN files \cup {Last(u).id}
    BY RolledTail
<1>2. Last(u) = u[n]
    BY DEF Last
<1> HIDE DEF u
<1>3. /\ n \in Nat /\ \A i \in 1..n : u[i].id \in Nat
      /\ \A id : id \in SegIds(u) <=> \E i \in 1..n : u[i].id = id
    BY <1>1, Shape
<1>4. ASSUME NEW id \in DOMAIN files PROVE id <= u[n].id
    <2>1. PICK i \in 1..n : u[i].id = id
        BY <1>1, <1>3
    <2>2. i = n \/ i < n
        BY <1>3
    <2>3. i = n \/ u[i].id < u[n].id
        BY <1>1, <2>2 DEF Increasing
    <2> QED
        BY <1>1, <1>3, <2>1, <2>3
<1> QED
    BY <1>1, <1>2, <1>4 DEF u

\* The files after an append, whole or not.
LEMMA AppendedOK ==
    ASSUME DiskInv, CellsInv, pc = "idle", NEW k \in Nat, NEW n \in 0..k
    PROVE  FilesOK(Appended(pushed + 1, k, n), pushed + 1)
<1> DEFINE p == pushed
           fs == files
           t == Last(Rolled(k)).id
           f == IF t \in DOMAIN fs THEN fs[t] ELSE << >>
           gs == Appended(p + 1, k, n)
<1>1. t \in Nat \ {0} /\ \A id \in DOMAIN fs : id <= t
    BY RolledNewest
<1>2. FilesOK(fs, p) /\ p \in Nat /\ \A id \in DOMAIN fs : fs[id] \in Seq(Cell)
    BY CellsFacts
<1>3. Put(gs, fs, t, f \o SubSeq(encode(p + 1, k), 1, n))
    BY DEF Put, Appended, With, Cells
<1>4. f \in Seq(Cell) /\ (t \in DOMAIN fs => fs[t] = f) /\ (t \notin DOMAIN fs => f = << >>)
    <2>1. << >> \in Seq(Cell)
        BY EmptySeq
    <2> QED
        BY <1>2, <2>1
<1> HIDE DEF fs, p, t, f, gs
<1>5. FilesOK(gs, p + 1)
    BY <1>1, <1>2, <1>3, <1>4, PutAppend
<1> QED
    BY <1>5 DEF gs, p

\* The record at the head, cached or read.
LEMMA HeadRecordType ==
    ASSUME DiskInv, CellsInv, pc \notin {"down", "recover"}, Readable
    PROVE  HeadRecord \in Rec /\ HeadRecord[1] \in Nat /\ HeadRecord[2] \in Nat
<1>1. HeadCells \in Seq(Cell)
    <2>1. segments[1].id \in DOMAIN files
        <3>1. Len(segments) \in Nat /\ Len(segments) >= 1
              /\ \A i \in 1..Len(segments) : segments[i].id \in DOMAIN files
            BY OldestFirst
        <3> QED
            BY <3>1
    <2> QED
        BY <2>1, CellsFacts DEF HeadCells, Cells
<1>2. headOff \in Nat /\ peeked \in Rec
    BY DEF CellsInv
<1>3. HeadRecord \in Rec
    BY <1>1, <1>2, ValidNext DEF Readable, HeadRecord
<1> QED
    BY <1>3 DEF Rec

----------------------------------------------------------------------------
\* Each action keeps CellsInv.
LEMMA CellsExit ==
    ASSUME FilesOK(files', pushed'), headFile' \in Nat \X Nat, pushed' \in 0..MaxPush, Exit
    PROVE  CellsInv'
<1>1. headOff' = 0 /\ peeked' = None
    BY DEF Exit
<1>2. peeked' \in Rec
    BY <1>1 DEF None, Rec
<1> QED
    BY <1>1, <1>2 DEF CellsInv

LEMMA CellsPush ==
    ASSUME DiskInv, CellsInv, Push \/ Push_torn \/ Push_fails
    PROVE  CellsInv'
<1>1. PICK k \in Sizes, n \in Nat :
         /\ n \in 0..k /\ pc = "idle" /\ pushed < MaxPush /\ pushed' = pushed + 1 /\ headFile' = headFile
         /\ files' = Appended(pushed + 1, k, n)
         /\ Exit \/ (headOff' = headOff /\ peeked' = peeked)
    <2>0. \A k \in Sizes : k \in Nat /\ k \in 0..k /\ \A n \in 0..(k - 1) : n \in Nat /\ n \in 0..k
        BY DiskQueueAssumption
    <2>1. CASE Push
        BY <2>0, <2>1 DEF Push
    <2>2. CASE Push_torn
        BY <2>0, <2>2 DEF Push_torn
    <2>3. CASE Push_fails
        BY <2>0, <2>3 DEF Push_fails
    <2> QED
        BY <2>1, <2>2, <2>3
<1>2. k \in Nat
    BY DiskQueueAssumption
<1>3. FilesOK(files', pushed')
    BY <1>1, <1>2, AppendedOK
<1>4. headFile' \in Nat \X Nat /\ headOff \in Nat /\ peeked \in Rec /\ pushed' \in 0..MaxPush
    BY <1>1, DiskQueueAssumption DEF CellsInv
<1>5. CASE Exit
    BY <1>3, <1>4, <1>5, CellsExit
<1>6. CASE headOff' = headOff /\ peeked' = peeked
    BY <1>3, <1>4, <1>6 DEF CellsInv
<1> QED
    BY <1>1, <1>5, <1>6

LEMMA CellsFilesOnly ==
    ASSUME CellsInv, FilesOK(files', pushed), pushed' = pushed, headFile' = headFile,
           headOff' \in Nat, peeked' = peeked \/ peeked' = None
    PROVE  CellsInv'
<1>1. None \in Rec
    BY DEF None, Rec
<1> QED
    BY <1>1 DEF CellsInv

LEMMA CellsEmptied ==
    ASSUME CellsInv, NEW t \in DOMAIN files, files' = [files EXCEPT ![t] = << >>]
    PROVE  FilesOK(files', pushed)
<1> DEFINE fs == files
           gs == [fs EXCEPT ![t] = << >>]
           p == pushed
           g == << >>
<1>1. FilesOK(fs, p) /\ p \in Nat
    BY CellsFacts
<1>2. g \in Seq(Cell) /\ Weaker(g, fs[t])
    BY EmptySeq DEF Weaker
<1>3. Put(gs, fs, t, g)
    BY DEF Put
<1> HIDE DEF fs, gs, p, g
<1>4. FilesOK(gs, p)
    BY <1>1, <1>2, <1>3, PutWeaker DEF fs
<1> QED
    BY <1>4 DEF gs, fs, p, g

LEMMA TruncatedWeaker ==
    ASSUME NEW f \in Seq(Cell), NEW n \in Nat
    PROVE  Weaker(Truncated(f, n), f)
<1> DEFINE g == Truncated(f, n)
<1>1. /\ g \in Seq(Cell) /\ Len(g) = n
      /\ \A i \in 1..n : g[i] = IF i <= Len(f) THEN f[i] ELSE Zero
    BY TruncatedCells
<1>2. Len(f) \in Nat
    BY CellShape
<1> HIDE DEF g
<1>3. ASSUME NEW j \in 1..n
      PROVE  \/ /\ j \in 1..Len(f) /\ g[j][1] = f[j][1]
                /\ g[j][3] = 1 => f[j][3] = 1
             \/ g[j][1] = 0 /\ g[j][3] # 1
    <2>1. CASE j <= Len(f)
        <3>1. j \in 1..Len(f)
            BY <1>2, <2>1
        <3> QED
            BY <1>1, <2>1, <3>1
    <2>2. CASE ~(j <= Len(f))
        BY <1>1, <2>2 DEF Zero
    <2> QED
        BY <2>1, <2>2
<1> QED
    BY <1>1, <1>3 DEF Weaker, g

LEMMA CellsScan == ASSUME DiskInv, CellsInv, scanSegment PROVE CellsInv'
<1> DEFINE id == NextSegment
           fs == files
           p == pushed
<1>1. /\ pc = "recover" /\ todo # {} /\ headFile' = headFile /\ peeked' = peeked /\ pushed' = pushed
    BY DEF scanSegment, history
<1>2. id \in todo /\ todo \subseteq DOMAIN fs
    <2>1. todo \subseteq DOMAIN files /\ DOMAIN files \subseteq Nat
        BY <1>1 DEF DiskInv, SegmentsInv
    <2>2. \E x \in todo : \A y \in todo : x <= y
        BY <1>1, <2>1, LeastId
    <2> QED
        BY <2>1, <2>2 DEF NextSegment
<1>3. FilesOK(fs, p) /\ p \in Nat /\ fs[id] \in Seq(Cell) /\ Start(id) \in Nat /\ headFile[2] \in Nat
      /\ headOff \in Nat
    BY <1>2, CellsFacts
<1> DEFINE size == ScanEnd(fs[id], Start(id))
           g == Truncated(fs[id], size)
<1>4. size \in Nat
    BY <1>3, ScanEndType
<1>5. \/ files' = Without(fs, id) /\ headOff' = headOff
      \/ files' = [fs EXCEPT ![id] = g] /\ headOff' \in {headOff, headFile[2]}
    BY DEF scanSegment
<1> HIDE DEF size
<1>6. Put([fs EXCEPT ![id] = g], fs, id, g)
    BY <1>2 DEF Put
<1>7. /\ g \in Seq(Cell) /\ Len(g) = size
      /\ \A i \in 1..size : g[i] = IF i <= Len(fs[id]) THEN fs[id][i] ELSE Zero
    BY <1>3, <1>4, TruncatedCells
<1>8. Weaker(g, fs[id])
    BY <1>3, <1>4, TruncatedWeaker
<1> HIDE DEF g, fs, p, id
<1>9. FilesOK([fs EXCEPT ![id] = g], p)
    BY <1>2, <1>3, <1>6, <1>7, <1>8, PutWeaker
<1>10. FilesOK(Without(fs, id), p)
    BY <1>3, RemoveOK
<1>11. FilesOK(files', pushed) /\ headOff' \in Nat
    BY <1>3, <1>5, <1>9, <1>10 DEF p
<1> QED
    BY <1>1, <1>11, CellsFilesOnly

LEMMA CellsRecovered == ASSUME DiskInv, CellsInv, recover_done PROVE CellsInv'
<1>1. /\ pc = "recover" /\ todo = {} /\ headFile' = headFile /\ peeked' = peeked /\ pushed' = pushed
      /\ headOff' = headOff
    BY DEF recover_done, history
<1>2. FilesOK(files, pushed) /\ headOff \in Nat /\ pushed \in Nat
    BY CellsFacts
<1>3. CASE segments = << >>
    <2>1. files' = With(files, 1, Cells(1))
        BY <1>3 DEF recover_done
    <2>2. DOMAIN files = {}
        <3>1. DOMAIN files = SegIds(segments) \cup todo
            BY <1>1 DEF DiskInv, SegmentsInv
        <3>2. SegIds(<< >>) = {}
            BY DEF SegIds
        <3> QED
            BY <1>1, <1>3, <3>1, <3>2
    <2>3. DOMAIN files' = {1} /\ files'[1] = << >> /\ Len(files'[1]) = 0 /\ files'[1] \in Seq(Cell)
        BY <2>1, <2>2, EmptySeq DEF With, Cells
    <2>4. \A b \in DOMAIN files' : 1..Len(files'[b]) = {}
        BY <2>3
    <2>5. FilesTyped(files')
        <3>1. 1 \in Nat /\ \A id \in DOMAIN files' : id <= 1
            BY <2>3
        <3>2. DOMAIN files' \subseteq Nat \ {0}
            BY <2>3
        <3>3. \A id \in DOMAIN files' : files'[id] \in Seq(Cell)
            BY <2>3, Zenon
        <3> QED
            BY <3>1, <3>2, <3>3 DEF FilesTyped
    <2>6. CellIds(files', pushed) /\ Aged(files')
        BY <2>4 DEF CellIds, Aged
    <2>7. FilesOK(files', pushed)
        BY <2>5, <2>6 DEF FilesOK
    <2> QED
        BY <1>1, <1>2, <2>7, CellsFilesOnly
<1>4. CASE segments # << >>
    BY <1>1, <1>2, <1>4, CellsFilesOnly DEF recover_done
<1> QED
    BY <1>3, <1>4

LEMMA CellsDropHead ==
    ASSUME CellsInv, NEW rec, NEW next, dropHead(rec, next)
    PROVE  CellsInv'
<1>1. headOff' = 0 /\ peeked' = None /\ headFile' = headFile /\ pushed' = pushed
    BY DEF dropHead, unpeek
<1>2. files' = files \/ files' = Without(files, segments[1].id)
    BY DEF dropHead
<1>3. FilesOK(files, pushed)
    BY CellsFacts
<1>4. FilesOK(Without(files, segments[1].id), pushed)
    BY <1>3, RemoveOK
<1>5. FilesOK(files', pushed)
    BY <1>2, <1>3, <1>4
<1> QED
    BY <1>1, <1>5, CellsFilesOnly

LEMMA CellsReset ==
    ASSUME DiskInv, CellsInv, pc = "idle", NEW rec, rec[2] \in Nat, resetOnly(rec)
    PROVE  CellsInv'
<1>1. peeked' = None /\ headFile' = headFile /\ pushed' = pushed
    BY DEF resetOnly
<1>2. \/ files' = [files EXCEPT ![segments[1].id] = << >>] /\ headOff' = 0
      \/ files' = files /\ headOff' = headOff + rec[2]
    BY DEF resetOnly
<1>3. segments[1].id \in DOMAIN files
    <2>1. Len(segments) \in Nat /\ Len(segments) >= 1
          /\ \A i \in 1..Len(segments) : segments[i].id \in DOMAIN files
        BY OldestFirst
    <2> QED
        BY <2>1
<1>4. FilesOK(files, pushed) /\ headOff \in Nat
    BY CellsFacts
<1>5. FilesOK(files', pushed)
    BY <1>2, <1>3, <1>4, CellsEmptied
<1>6. headOff' \in Nat
    BY <1>2, <1>4
<1> QED
    BY <1>1, <1>5, <1>6, CellsFilesOnly

LEMMA CellsAck ==
    ASSUME DiskInv, CellsInv, Ack_advance \/ Ack_last \/ Ack_discard
    PROVE  CellsInv'
<1>0. pc = "idle" /\ pc \notin {"down", "recover"}
    BY DEF Ack_advance, Ack_last, Ack_discard
<1>1. CASE Ack_advance
    <2>1. /\ Readable /\ headOff' = headOff + HeadRecord[2] /\ peeked' = None
          /\ headFile' = headFile \/ headFile' = <<segments[1].id, headOff + HeadRecord[2]>>
          /\ files' = files /\ pushed' = pushed
        BY <1>1 DEF Ack_advance, NextHead
    <2>2. HeadRecord[2] \in Nat
        BY <1>0, <2>1, HeadRecordType
    <2>3. segments[1].id \in Nat
        <3>1. Len(segments) \in Nat /\ Len(segments) >= 1 /\ Shaped(segments)
            BY <1>0, OldestFirst
        <3> QED
            BY <3>1, Shape
    <2>4. headOff \in Nat /\ headFile \in Nat \X Nat /\ FilesOK(files, pushed) /\ pushed \in 0..MaxPush
        BY DEF CellsInv
    <2>5. headFile' \in Nat \X Nat /\ headOff' \in Nat
        BY <2>1, <2>2, <2>3, <2>4
    <2>6. peeked' \in Rec
        BY <2>1 DEF None, Rec
    <2> QED
        BY <2>1, <2>4, <2>5, <2>6 DEF CellsInv
<1>2. CASE Ack_last
    <2>1. Readable /\ (dropHead(HeadRecord, "ack_head") \/ resetOnly(HeadRecord))
        BY <1>2 DEF Ack_last
    <2>2. HeadRecord[2] \in Nat
        BY <1>0, <2>1, HeadRecordType
    <2> QED
        BY <1>0, <2>1, <2>2, CellsDropHead, CellsReset
<1>3. CASE Ack_discard
    <2>1. dropHead(None, "ack_head") \/ resetOnly(None)
        BY <1>3 DEF Ack_discard
    <2>2. None[2] \in Nat
        BY DEF None
    <2> QED
        BY <1>0, <2>1, <2>2, CellsDropHead, CellsReset
<1> QED
    BY <1>1, <1>2, <1>3

LEMMA CorruptCell ==
    ASSUME DiskInv, CellsInv, Corrupt
    PROVE  \E t \in DOMAIN files, g \in Seq(Cell) :
              /\ Put(files', files, t, g) /\ Weaker(g, files[t]) /\ Len(g) = Len(files[t])
              /\ \A j \in 1..Len(g) : g[j][1] = files[t][j][1]
<1>1. /\ pc = "idle" /\ headFile' = headFile /\ headOff' = headOff /\ peeked' = peeked
      /\ pushed' = pushed
    BY DEF Corrupt, memory
<1>2. PICK s \in 1..Len(segments) :
         \E i \in (IF s = 1 THEN headOff + 1 ELSE 1)..Len(Cells(segments[s].id)) :
            files' = [files EXCEPT ![segments[s].id][i] = <<@[1], @[2], 0>>]
    BY DEF Corrupt
<1> DEFINE t == segments[s].id
           fs == files
           p == pushed
           f == fs[t]
<1>3. t \in DOMAIN fs
    BY <1>1, <1>2, OldestFirst
<1>4. FilesOK(fs, p) /\ p \in Nat /\ headOff \in Nat /\ f \in Seq(Cell)
    BY <1>3, CellsFacts
<1>5. PICK i \in 1..Len(f) : files' = [fs EXCEPT ![t] = [f EXCEPT ![i] = <<@[1], @[2], 0>>]]
    <2>1. PICK i \in (IF s = 1 THEN headOff + 1 ELSE 1)..Len(f) :
             files' = [fs EXCEPT ![t][i] = <<@[1], @[2], 0>>]
        BY <1>2, <1>3 DEF Cells
    <2>2. i \in 1..Len(f)
        BY <1>4, <2>1, CellShape
    <2>3. files' = [fs EXCEPT ![t] = [f EXCEPT ![i] = <<@[1], @[2], 0>>]]
        BY <1>3, <2>1
    <2> QED
        BY <2>2, <2>3
<1> DEFINE g == [f EXCEPT ![i] = <<@[1], @[2], 0>>]
<1>6. /\ Len(f) \in Nat /\ DOMAIN f = 1..Len(f)
      /\ \A j \in 1..Len(f) : f[j] \in Cell /\ f[j][1] \in Nat /\ f[j][2] \in Nat /\ f[j][3] \in Nat
    BY <1>4, CellShape
<1> HIDE DEF f
<1>7. g[i] = <<f[i][1], f[i][2], 0>> /\ \A j \in 1..Len(f) : j # i => g[j] = f[j]
    BY <1>5, <1>6
<1>8. g \in Seq(Cell) /\ Len(g) = Len(f)
    <2>1. \A j \in 1..Len(f) : g[j] \in Cell
        <3>1. g[i] \in Cell
            BY <1>5, <1>6, <1>7 DEF Cell
        <3> QED
            BY <1>6, <1>7, <3>1
    <2>2. g = [j \in 1..Len(f) |-> g[j]]
        BY <1>6
    <2> DEFINE n == Len(f)
    <2>3. n \in Nat
        BY <1>6
    <2> HIDE DEF g, n
    <2>4. g \in [1..n -> Cell]
        BY <2>1, <2>2 DEF n
    <2>5. g \in Seq(Cell) /\ Len(g) = n
        BY <2>3, <2>4
    <2> QED
        BY <2>5 DEF n
<1>9. Weaker(g, f) /\ \A j \in 1..Len(g) : g[j][1] = f[j][1]
    <2>1. ASSUME NEW j \in 1..Len(f)
          PROVE  g[j][1] = f[j][1] /\ (g[j][3] = 1 => f[j][3] = 1)
        <3>1. CASE j = i
            BY <1>7, <3>1
        <3>2. CASE j # i
            BY <1>7, <3>2
        <3> QED
            BY <3>1, <3>2
    <2> HIDE DEF g
    <2> QED
        BY <1>8, <2>1 DEF Weaker
<1>10. Put(files', fs, t, g)
    BY <1>3, <1>5 DEF Put
<1> HIDE DEF g
<1>11. /\ t \in DOMAIN files /\ Put(files', files, t, g) /\ Weaker(g, files[t])
       /\ Len(g) = Len(files[t]) /\ \A j \in 1..Len(g) : g[j][1] = files[t][j][1]
    BY <1>3, <1>8, <1>9, <1>10 DEF f
<1> HIDE DEF t, fs
<1> QED
    BY <1>8, <1>11

LEMMA CellsCorrupt == ASSUME DiskInv, CellsInv, Corrupt PROVE CellsInv'
<1>1. /\ headFile' = headFile /\ headOff' = headOff /\ peeked' = peeked /\ pushed' = pushed
    BY DEF Corrupt, memory
<1> DEFINE fs == files
           gs == files'
           p == pushed
<1>2. PICK t \in DOMAIN fs, g \in Seq(Cell) : Put(gs, fs, t, g) /\ Weaker(g, fs[t])
    BY CorruptCell
<1>3. FilesOK(fs, p) /\ p \in Nat /\ headOff \in Nat
    BY CellsFacts
<1> HIDE DEF fs, gs, p
<1>4. FilesOK(gs, p)
    BY <1>2, <1>3, PutWeaker
<1>5. FilesOK(files', pushed)
    BY <1>4 DEF gs, p
<1> QED
    BY <1>1, <1>3, <1>5, CellsFilesOnly

LEMMA CellsNext ==
    ASSUME DiskInv, CellsInv, faults \in Seq(Faults), [DiskQueueNext]_dqVars, ~Failed({"roll"})'
    PROVE  CellsInv'
<1>0. FilesOK(files, pushed) /\ headOff \in Nat /\ headFile \in Nat \X Nat /\ pushed \in 0..MaxPush
      /\ peeked \in Rec
    BY DEF CellsInv
<1>1. CASE Open
    BY <1>0, <1>1, CellsFilesOnly DEF Open, disk, history
<1>2. CASE scanSegment \/ recover_done
    BY <1>2, CellsScan, CellsRecovered
<1>3. CASE Push \/ Push_torn \/ Push_fails
    BY <1>3, CellsPush
<1>4. CASE enforceBound_drop
    BY <1>4, CellsDropHead DEF enforceBound_drop
<1>5. CASE enforceBound_done
    BY <1>0, <1>5, CellsFilesOnly DEF enforceBound_done, disk, memory, history
<1>6. CASE writeHead
    <2>1. pc \notin {"down", "recover"} /\ files' = files /\ headOff' = headOff /\ peeked' = peeked
          /\ pushed' = pushed /\ headFile' \in {headFile, <<segments[1].id, headOff>>}
        BY <1>6 DEF writeHead, memory, HeadSegment
    <2>2. segments[1].id \in Nat
        <3>1. Len(segments) \in Nat /\ Len(segments) >= 1 /\ Shaped(segments)
            BY <2>1, OldestFirst
        <3> QED
            BY <3>1, Shape
    <2>3. headFile' \in Nat \X Nat
        BY <1>0, <2>1, <2>2
    <2> QED
        BY <1>0, <2>1, <2>3 DEF CellsInv
<1>7. CASE Peek
    <2>1. /\ pc = "idle" /\ Readable /\ peeked' = HeadRecord /\ files' = files /\ headFile' = headFile
          /\ headOff' = headOff /\ pushed' = pushed
        BY <1>7 DEF Peek, disk, history
    <2>2. peeked' \in Rec
        BY <2>1, HeadRecordType
    <2> QED
        BY <1>0, <2>1, <2>2 DEF CellsInv
<1>8. CASE Ack_advance \/ Ack_last \/ Ack_discard
    BY <1>8, CellsAck
<1>9. CASE Close
    <2>1. /\ pc = "idle" /\ headFile' = <<segments[1].id, headOff>> /\ files' = files
          /\ Exit /\ pushed' = pushed
        BY <1>9 DEF Close, history
    <2>2. segments[1].id \in Nat
        <3>1. Len(segments) \in Nat /\ Len(segments) >= 1 /\ Shaped(segments)
            BY <2>1, OldestFirst
        <3> QED
            BY <3>1, Shape
    <2> QED
        BY <1>0, <2>1, <2>2, CellsExit
<1>10. CASE Crash \/ recover_fails \/ Close_fails
    BY <1>0, <1>10, CellsExit DEF Crash, recover_fails, Close_fails, disk, history
<1>13. CASE recover_skip
    BY <1>13, NothingSkipped
<1>14. CASE roll_fails
    BY <1>14, CallFailed DEF roll_fails
<1>11. CASE Corrupt
    BY <1>11, CellsCorrupt
<1>12. CASE UNCHANGED dqVars
    BY <1>0, <1>12, CellsFilesOnly DEF dqVars, disk, memory, history
<1> QED
    BY <1>1, <1>2, <1>3, <1>4, <1>5, <1>6, <1>7, <1>8, <1>9, <1>10, <1>11, <1>12, <1>13, <1>14 DEF DiskQueueNext

LEMMA CellsInit == DiskQueueInit => CellsInv
<1> SUFFICES ASSUME DiskQueueInit PROVE CellsInv
    OBVIOUS
<1>1. files = << >> /\ headFile = <<0, 0>> /\ headOff = 0 /\ peeked = None /\ pushed = 0
    BY DEF DiskQueueInit
<1>2. DOMAIN files = {} /\ 0 \in Nat
    BY <1>1
<1>3. FilesOK(files, pushed)
    BY <1>2 DEF FilesOK, FilesTyped, CellIds, Aged
<1>4. peeked \in Rec
    BY <1>1 DEF None, Rec
<1> QED
    BY <1>1, <1>3, <1>4, DiskQueueAssumption DEF CellsInv

----------------------------------------------------------------------------
\* What a new process finds.

\* The newest file, and what a scan of each file finds.
NewestOf(fs) == Max(DOMAIN fs \cup {0})

From(hf, id) == IF id = hf[1] THEN hf[2] ELSE 0

Part(fs, hf, id) ==
    IF id \in DOMAIN fs /\ id >= hf[1] THEN Records(fs[id], From(hf, id)) ELSE << >>

Parts(fs, hf) == [id \in 1..NewestOf(fs) |-> Part(fs, hf, id)]

LEMMA UnreadIs == Unread = FlattenSeq(Parts(files, headFile))
BY DEF Unread, Parts, Part, From, Start, NewestOf, Newest

LEMMA NewestFile ==
    ASSUME NEW fs, FilesTyped(fs)
    PROVE  /\ NewestOf(fs) \in Nat
           /\ \A id \in DOMAIN fs : id <= NewestOf(fs) /\ id \in 1..NewestOf(fs)
           /\ NewestOf(fs) = 0 \/ NewestOf(fs) \in DOMAIN fs
<1> DEFINE S == DOMAIN fs \cup {0}
           B == {b \in Nat : \A x \in S : x <= b}
<1>0. S \subseteq Nat /\ 0 \in S /\ DOMAIN fs \subseteq Nat \ {0}
    BY DEF FilesTyped
<1>1. B \subseteq Nat /\ B # {}
    <2>1. PICK b \in Nat : \A id \in DOMAIN fs : id <= b
        BY DEF FilesTyped
    <2>2. b \in B
        BY <2>1
    <2> QED
        BY <2>2
<1> HIDE DEF B
<1>2. PICK m \in B : \A y \in B : m <= y
    BY <1>1, LeastId
<1>3. m \in Nat /\ \A x \in S : x <= m
    BY <1>2 DEF B
<1>4. m \in S
    <2> SUFFICES ASSUME m \notin S PROVE FALSE
        OBVIOUS
    <2>1. m - 1 \in Nat /\ \A x \in S : x <= m - 1
        BY <1>0, <1>3
    <2>2. m - 1 \in B
        BY <2>1 DEF B
    <2> QED
        BY <1>2, <1>3, <2>2
<1> HIDE DEF S
<1>5. \A x, y \in S : x >= y /\ y >= x => x = y
    BY <1>0
<1>6. NewestOf(fs) = m
    <2>1. \A x \in S : m >= x
        BY <1>0, <1>3
    <2>2. NewestOf(fs) = CHOOSE x \in S : \A y \in S : x >= y
        BY DEF NewestOf, Max, S
    <2> QED
        BY <1>4, <1>5, <2>1, <2>2
<1> QED
    BY <1>0, <1>3, <1>4, <1>6 DEF S

\* Every record of s starts at a first cell of f behind offset off.
Starts(s, f, off) ==
    \A x \in Elems(s) : \E j \in 1..Len(f) : j > off /\ f[j][3] = 1 /\ x[1] = f[j][1]

LEMMA RecordsStart ==
    ASSUME NEW f \in Seq(Cell)
    PROVE  \A off \in Nat : Starts(Records(f, off), f, off)
<1> DEFINE S == {off \in Nat : Starts(Records(f, off), f, off)}
<1>1. ASSUME NEW off \in Nat, ~ValidAt(f, off) PROVE off \in S
    <2>1. Records(f, off) = << >>
        BY <1>1, ScanNil
    <2>2. Elems(<< >>) = {}
        BY DEF Elems
    <2> QED
        BY <2>1, <2>2 DEF Starts
<1>2. ASSUME NEW off \in Nat, ValidAt(f, off), off + RecordAt(f, off)[2] \in S
      PROVE  off \in S
    <2> DEFINE x == RecordAt(f, off)
               next == off + x[2]
               t == Records(f, next)
               u == <<x>>
    <2>1. Records(f, off) = u \o t
        BY <1>2, ScanCons
    <2>2. x \in Rec /\ next \in Nat /\ x[2] \in Nat /\ x[2] # 0 /\ next > off /\ off < Len(f)
        BY <1>2, ValidNext
    <2>3. t \in Seq(Rec)
        BY <2>2, RecordsType
    <2>4. Starts(t, f, next)
        BY <1>2
    <2>5. off + 1 \in 1..Len(f) /\ f[off + 1][3] = 1 /\ x[1] = f[off + 1][1] /\ Len(f) \in Nat
        BY <1>2, <2>2, CellShape DEF ValidAt, RecordAt
    <2> HIDE DEF x, next, t
    <2>6. u \in Seq(Rec) /\ Elems(u) = {x}
        <3>1. u \in Seq(Rec) /\ Len(u) = 1 /\ u[1] = x
            BY <2>2
        <3> HIDE DEF u
        <3> QED
            BY <3>1 DEF Elems
    <2> HIDE DEF u
    <2>7. Elems(u \o t) = Elems(u) \cup Elems(t)
        BY <2>3, <2>6, ElemsConcat
    <2>8. Starts(u \o t, f, off)
        <3>1. ASSUME NEW y \in Elems(u \o t)
              PROVE  \E j \in 1..Len(f) : j > off /\ f[j][3] = 1 /\ y[1] = f[j][1]
            <4>1. CASE y = x
                BY <2>5, <4>1
            <4>2. CASE y \in Elems(t)
                <5>1. PICK j \in 1..Len(f) : j > next /\ f[j][3] = 1 /\ y[1] = f[j][1]
                    BY <2>4, <4>2 DEF Starts
                <5>2. j > off
                    BY <2>2, <5>1
                <5> QED
                    BY <5>1, <5>2
            <4> QED
                BY <2>6, <2>7, <4>1, <4>2
        <3> QED
            BY <3>1 DEF Starts
    <2> QED
        BY <2>1, <2>8
<1> HIDE DEF S
<1>3. \A off \in Nat : off \in S
    BY <1>1, <1>2, ScanInduction
<1> QED
    BY <1>3 DEF S

LEMMA PartsType ==
    ASSUME NEW fs, FilesTyped(fs), NEW hf \in Nat \X Nat
    PROVE  /\ \A id : From(hf, id) \in Nat /\ Part(fs, hf, id) \in Seq(Rec)
           /\ Parts(fs, hf) \in Seq(Seq(Rec)) /\ Len(Parts(fs, hf)) = NewestOf(fs)
           /\ \A id \in 1..NewestOf(fs) : Parts(fs, hf)[id] = Part(fs, hf, id)
<1>1. NewestOf(fs) \in Nat
    BY NewestFile
<1>2. \A id : From(hf, id) \in Nat
    BY DEF From
<1>3. ASSUME NEW id PROVE Part(fs, hf, id) \in Seq(Rec)
    <2>1. CASE id \in DOMAIN fs /\ id >= hf[1]
        <3>1. fs[id] \in Seq(Cell) /\ From(hf, id) \in Nat
            BY <1>2, <2>1 DEF FilesTyped
        <3>2. Records(fs[id], From(hf, id)) \in Seq(Rec)
            BY <3>1, RecordsType
        <3> QED
            BY <2>1, <3>2 DEF Part
    <2>2. CASE ~(id \in DOMAIN fs /\ id >= hf[1])
        BY <2>2, EmptySeq DEF Part
    <2> QED
        BY <2>1, <2>2
<1> DEFINE n == NewestOf(fs)
           P == Parts(fs, hf)
           E == Seq(Rec)
<1>4. P = [id \in 1..n |-> Part(fs, hf, id)]
    BY DEF Parts
<1>5. \A id : Part(fs, hf, id) \in E
    BY <1>3
<1>6. n \in Nat
    BY <1>1
<1> HIDE DEF n, P, E
<1>7. P \in [1..n -> E]
    BY <1>4, <1>5
<1>8. P \in Seq(E) /\ Len(P) = n
    BY <1>6, <1>7
<1>9. \A id \in 1..n : P[id] = Part(fs, hf, id)
    BY <1>4
<1> QED
    BY <1>2, <1>3, <1>8, <1>9 DEF n, P, E

----------------------------------------------------------------------------
\* The order of the deliveries.

\* Every record that starts in cells f behind offset off was pushed after all
\* the records of R.
Newer(f, off, R) == \A i \in 1..Len(f) : i > off /\ f[i][3] = 1 => \A r \in R : r < f[i][1]

\* So with every file of fs, read from head h on.
Fresh(fs, h, R) == \A id \in DOMAIN fs : Newer(fs[id], From(h, id), R)

\* A new process would find no record older than one that is done with.
FreshDisk == released \subseteq 0..pushed /\ Fresh(files, headFile, released)

\* Nor will this one; while it recovers, its head is the head file's.
FreshMemory ==
    /\ pc \notin {"down", "recover"} => Fresh(files, <<segments[1].id, headOff>>, released)
    /\ pc \in {"down", "recover"} => peeked = None
    /\ pc = "down" => headOff = 0
    /\ pc = "recover" => headOff = IF segments = << >> THEN 0 ELSE Start(segments[1].id)

\* The cached record is the one at the head.
FreshPeeked ==
    peeked # None =>
        /\ headOff + 1 \in 1..Len(HeadCells)
        /\ HeadCells[headOff + 1][1] = peeked[1]
        /\ peeked[2] >= 1
        /\ \A r \in released : r < peeked[1]

FreshInv == FreshDisk /\ FreshMemory /\ FreshPeeked

\* Cutting, emptying, removing or spoiling files brings nothing back.
LEMMA LessFresh ==
    ASSUME NEW fs, NEW gs, NEW h, NEW R, Fresh(fs, h, R),
           \A id \in DOMAIN gs : id \in DOMAIN fs /\ Weaker(gs[id], fs[id])
    PROVE  Fresh(gs, h, R)
<1> SUFFICES ASSUME NEW id \in DOMAIN gs,
                    NEW i \in 1..Len(gs[id]), i > From(h, id), gs[id][i][3] = 1, NEW r \in R
             PROVE  r < gs[id][i][1]
    BY DEF Fresh, Newer
<1>1. id \in DOMAIN fs /\ i \in 1..Len(fs[id]) /\ gs[id][i][1] = fs[id][i][1] /\ fs[id][i][3] = 1
    BY DEF Weaker
<1> QED
    BY <1>1 DEF Fresh, Newer

LEMMA PutFresh ==
    ASSUME NEW fs, NEW gs, NEW h, NEW R, Fresh(fs, h, R), NEW t \in DOMAIN fs, NEW g,
           Put(gs, fs, t, g), Weaker(g, fs[t])
    PROVE  Fresh(gs, h, R)
<1>1. \A f : Weaker(f, f)
    BY DEF Weaker
<1>2. \A id \in DOMAIN gs : id \in DOMAIN fs /\ Weaker(gs[id], fs[id])
    BY <1>1 DEF Put
<1> QED
    BY <1>2, LessFresh

\* Nor does a new record at the end.
LEMMA AppendFresh ==
    ASSUME DiskInv, CellsInv, pc = "idle", NEW k \in Nat, NEW n \in 0..k,
           NEW h, NEW R, R \subseteq 0..pushed, Fresh(files, h, R)
    PROVE  Fresh(Appended(pushed + 1, k, n), h, R)
<1> DEFINE p == pushed
           fs == files
           t == Last(Rolled(k)).id
           f == IF t \in DOMAIN fs THEN fs[t] ELSE << >>
           c == SubSeq(encode(p + 1, k), 1, n)
           gs == Appended(p + 1, k, n)
           o == From(h, t)
<1>1. p \in Nat /\ \A id \in DOMAIN fs : fs[id] \in Seq(Cell)
    BY CellsFacts
<1>2. Put(gs, fs, t, f \o c)
    BY DEF Put, Appended, With, Cells
<1>3. f \in Seq(Cell)
    BY <1>1, EmptySeq
<1>4. c \in Seq(Cell) /\ Len(c) = n /\ \A i \in 1..n : c[i] = <<p + 1, k, i>>
    BY <1>1, EncodeCells
<1>5. Newer(f, o, R)
    <2>1. CASE t \in DOMAIN fs
        BY <2>1 DEF Fresh
    <2>2. CASE t \notin DOMAIN fs
        <3>1. Len(f) = 0
            BY <2>2
        <3> QED
            BY <3>1 DEF Newer
    <2> QED
        BY <2>1, <2>2
<1>6. Fresh(fs, h, R) /\ R \subseteq 0..p
    OBVIOUS
<1> HIDE DEF fs, t, f, c, gs, p, o
<1> DEFINE g == f \o c
           l == Len(f)
<1>7. /\ Len(g) = l + n /\ l \in Nat
      /\ \A i \in 1..l : g[i] = f[i]
      /\ \A i \in 1..n : g[l + i] = c[i]
    <2>1. Len(f) \in Nat
        BY <1>3, CellShape
    <2> QED
        BY <1>3, <1>4, <2>1, AppendCells
<1> HIDE DEF g, l
<1>8. Newer(g, o, R)
    <2> SUFFICES ASSUME NEW i \in 1..Len(g), i > o, g[i][3] = 1, NEW r \in R
                 PROVE  r < g[i][1]
        BY DEF Newer
    <2>1. CASE i <= l
        <3>1. i \in 1..Len(f) /\ g[i] = f[i]
            BY <1>7, <2>1 DEF l
        <3> QED
            BY <1>5, <3>1 DEF Newer
    <2>2. CASE ~(i <= l)
        <3>1. i - l \in 1..n /\ i = l + (i - l)
            BY <1>7, <2>2
        <3>2. g[i] = c[i - l]
            BY <1>7, <3>1
        <3>3. g[i][1] = p + 1
            BY <1>4, <3>1, <3>2
        <3> QED
            BY <1>1, <1>6, <3>3
    <2> QED
        BY <2>1, <2>2
<1>9. ASSUME NEW id \in DOMAIN gs PROVE Newer(gs[id], From(h, id), R)
    <2>1. CASE id = t
        BY <1>2, <1>8, <2>1 DEF Put, g, o
    <2>2. CASE id # t
        BY <1>2, <1>6, <2>2 DEF Put, Fresh
    <2> QED
        BY <2>1, <2>2
<1> QED
    BY <1>9 DEF Fresh, gs, p

\* The first segment, and the record at the head if one can be read.
LEMMA HeadFacts ==
    ASSUME DiskInv, CellsInv, pc \notin {"down", "recover"}
    PROVE  /\ segments[1].id \in DOMAIN files /\ segments[1].id \in Nat
           /\ HeadCells = files[segments[1].id] /\ HeadCells \in Seq(Cell)
           /\ \A id \in DOMAIN files : id \in Nat /\ segments[1].id <= id
           /\ headOff \in Nat /\ Len(HeadCells) \in Nat
           /\ \A i \in 1..Len(HeadCells) : HeadCells[i][1] \in 0..pushed
<1>1. /\ Len(segments) \in Nat /\ Len(segments) >= 1 /\ DOMAIN files \subseteq Nat \ {0}
      /\ \A i \in 1..Len(segments) : segments[i].id \in DOMAIN files
      /\ \A id \in DOMAIN files : segments[1].id <= id
    BY OldestFirst
<1>2. segments[1].id \in DOMAIN files
    BY <1>1
<1>3. HeadCells = files[segments[1].id]
    BY <1>2 DEF HeadCells, Cells
<1>4. /\ \A id \in DOMAIN files : files[id] \in Seq(Cell)
      /\ headOff \in Nat /\ CellIds(files, pushed) /\ pushed \in Nat
    BY CellsFacts
<1> DEFINE f == HeadCells
           p == pushed
<1>5. f \in Seq(Cell) /\ p \in Nat /\ \A i \in 1..Len(f) : f[i][1] <= p
    BY <1>2, <1>3, <1>4 DEF CellIds
<1> HIDE DEF f, p
<1>6. Len(f) \in Nat /\ \A i \in 1..Len(f) : f[i][1] \in 0..p
    BY <1>5, CellShape
<1> QED
    BY <1>1, <1>2, <1>3, <1>4, <1>5, <1>6 DEF f, p

LEMMA HeadFresh ==
    ASSUME DiskInv, CellsInv, FreshInv, pc = "idle", Readable
    PROVE  /\ HeadRecord[1] \in 0..pushed /\ HeadRecord[2] \in Nat /\ HeadRecord[2] >= 1
           /\ headOff + 1 \in 1..Len(HeadCells) /\ HeadCells[headOff + 1][1] = HeadRecord[1]
           /\ \A r \in released : r < HeadRecord[1]
<1>1. /\ segments[1].id \in DOMAIN files /\ HeadCells = files[segments[1].id]
      /\ HeadCells \in Seq(Cell) /\ headOff \in Nat /\ Len(HeadCells) \in Nat
      /\ \A i \in 1..Len(HeadCells) : HeadCells[i][1] \in 0..pushed
    BY HeadFacts
<1>2. HeadRecord[2] \in Nat
    BY HeadRecordType
<1>3. CASE peeked # None
    BY <1>1, <1>2, <1>3 DEF FreshInv, FreshPeeked, HeadRecord
<1>4. CASE peeked = None
    <2> DEFINE f == HeadCells
    <2>1. ValidAt(f, headOff) /\ HeadRecord = RecordAt(f, headOff)
        BY <1>4 DEF Readable, HeadRecord
    <2>2. /\ headOff < Len(f) /\ f[headOff + 1][3] = 1 /\ f[headOff + 1][2] \in 1..MaxRecord
          /\ HeadRecord[1] = f[headOff + 1][1] /\ HeadRecord[2] = f[headOff + 1][2]
        BY <2>1 DEF ValidAt, RecordAt
    <2>3. headOff + 1 \in 1..Len(f) /\ headOff + 1 > headOff
        BY <1>1, <2>2
    <2>4. HeadRecord[2] >= 1
        BY <2>2, DiskQueueAssumption
    <2>5. Newer(f, headOff, released)
        <3>1. Fresh(files, <<segments[1].id, headOff>>, released)
            BY DEF FreshInv, FreshMemory
        <3>2. From(<<segments[1].id, headOff>>, segments[1].id) = headOff
            BY DEF From
        <3> QED
            BY <1>1, <3>1, <3>2 DEF Fresh
    <2> QED
        BY <1>1, <1>2, <2>2, <2>3, <2>4, <2>5 DEF Newer
<1> QED
    BY <1>3, <1>4

\* Records of the first segment are older than everything behind them.
LEMMA Consumed ==
    ASSUME DiskInv, CellsInv, FreshInv, pc \notin {"down", "recover"}, NEW S, NEW m \in Nat,
           \A x \in S : \E i \in 1..Len(HeadCells) : HeadCells[i][1] = x /\ i <= m
    PROVE  /\ released \cup S \subseteq 0..pushed
           /\ \A id \in DOMAIN files : id # segments[1].id => Newer(files[id], 0, released \cup S)
           /\ m >= headOff => Newer(HeadCells, m, released \cup S)
<1> DEFINE a == segments[1].id
           fs == files
           f == HeadCells
           R == released
<1>1. /\ a \in DOMAIN fs /\ f = fs[a] /\ headOff \in Nat /\ Len(f) \in Nat /\ a \in Nat
      /\ \A id \in DOMAIN fs : id \in Nat /\ a <= id
      /\ \A i \in 1..Len(f) : f[i][1] \in 0..pushed
    BY HeadFacts
<1>2. Aged(fs)
    BY CellsFacts
<1>3. Fresh(fs, <<a, headOff>>, R) /\ R \subseteq 0..pushed
    BY DEF FreshInv, FreshMemory, FreshDisk
<1>4. From(<<a, headOff>>, a) = headOff /\ \A id : id # a => From(<<a, headOff>>, id) = 0
    BY DEF From
<1> HIDE DEF a, fs, f, R
<1>5. R \cup S \subseteq 0..pushed
    BY <1>1, <1>3 DEF f
<1>6. ASSUME NEW id \in DOMAIN fs, id # a PROVE Newer(fs[id], 0, R \cup S)
    <2> SUFFICES ASSUME NEW j \in 1..Len(fs[id]), j > 0, fs[id][j][3] = 1, NEW x \in R \cup S
                 PROVE  x < fs[id][j][1]
        BY DEF Newer
    <2>1. CASE x \in R
        BY <1>3, <1>4, <1>6, <2>1 DEF Fresh, Newer
    <2>2. CASE x \in S
        <3>1. PICK i \in 1..Len(f) : f[i][1] = x
            BY <2>2 DEF f
        <3>2. a < id
            BY <1>1, <1>6
        <3> QED
            BY <1>1, <1>2, <3>1, <3>2 DEF Aged, Earlier
    <2> QED
        BY <2>1, <2>2
<1>7. ASSUME m >= headOff PROVE Newer(f, m, R \cup S)
    <2> SUFFICES ASSUME NEW j \in 1..Len(f), j > m, f[j][3] = 1, NEW x \in R \cup S
                 PROVE  x < f[j][1]
        BY DEF Newer
    <2>1. CASE x \in R
        <3>1. j > headOff
            BY <1>1, <1>7
        <3> QED
            BY <1>1, <1>3, <1>4, <2>1, <3>1 DEF Fresh, Newer
    <2>2. CASE x \in S
        <3>1. PICK i \in 1..Len(f) : f[i][1] = x /\ i <= m
            BY <2>2 DEF f
        <3>2. i < j
            BY <1>1, <3>1
        <3> QED
            BY <1>1, <1>2, <3>1, <3>2 DEF Aged, Earlier
    <2> QED
        BY <2>1, <2>2
<1> QED
    BY <1>5, <1>6, <1>7 DEF a, fs, f, R

\* When every file is fresh from its beginning on, any head will do.
LEMMA AllFresh ==
    ASSUME NEW fs, NEW R, \A id \in DOMAIN fs : Newer(fs[id], 0, R), NEW a, NEW o \in Nat
    PROVE  Fresh(fs, <<a, o>>, R)
<1> SUFFICES ASSUME NEW id \in DOMAIN fs, NEW i \in 1..Len(fs[id]), i > From(<<a, o>>, id),
                    fs[id][i][3] = 1, NEW r \in R
             PROVE  r < fs[id][i][1]
    BY DEF Fresh, Newer
<1>1. i > 0
    OBVIOUS
<1> QED
    BY <1>1 DEF Newer

LEMMA EmptiedFresh ==
    ASSUME CellsInv', pc' \notin {"down", "recover"}, peeked' = None, released' \subseteq 0..pushed',
           \A id \in DOMAIN files' : Newer(files'[id], 0, released')
    PROVE  FreshInv'
<1> DEFINE fs == files'
           R == released'
           hf == headFile'
           o == headOff'
           a == segments'[1].id
<1>1. hf \in Nat \X Nat /\ o \in Nat /\ \A id \in DOMAIN fs : Newer(fs[id], 0, R)
    BY DEF CellsInv
<1> HIDE DEF fs, R, hf, o, a
<1>2. hf = <<hf[1], hf[2]>> /\ hf[2] \in Nat
    BY <1>1
<1>3. Fresh(fs, <<a, o>>, R) /\ Fresh(fs, <<hf[1], hf[2]>>, R)
    BY <1>1, <1>2, AllFresh
<1>4. Fresh(fs, hf, R)
    BY <1>2, <1>3
<1> QED
    BY <1>3, <1>4 DEF FreshInv, FreshDisk, FreshMemory, FreshPeeked, fs, R, hf, o, a

\* The calls whose failure may bring a record back, and the failed roll.
Undone == {"head", "remove", "truncate", "roll"}

\* The end of a process.
LEMMA ExitFresh ==
    ASSUME Exit, released' \subseteq 0..pushed', Fresh(files', headFile', released')
    PROVE  FreshInv'
BY DEF Exit, FreshInv, FreshDisk, FreshMemory, FreshPeeked

\* The ids that dropHead and resetOnly release are ids of the first segment.
LEMMA ReleasedCells ==
    ASSUME DiskInv, CellsInv, FreshInv, pc \notin {"down", "recover"}, NEW rec,
           rec # None => pc = "idle" /\ Readable /\ rec = HeadRecord
    PROVE  LET S == IF rec = None THEN Ids(files[segments[1].id], headOff) ELSE {rec[1]}
           IN  /\ released \cup S \subseteq 0..pushed
               /\ \A id \in DOMAIN files : id # segments[1].id => Newer(files[id], 0, released \cup S)
<1> DEFINE f == HeadCells
           S == IF rec = None THEN Ids(files[segments[1].id], headOff) ELSE {rec[1]}
           m == Len(f)
<1>1. f = files[segments[1].id] /\ headOff \in Nat /\ m \in Nat
    BY HeadFacts
<1>2. \A x \in S : \E i \in 1..Len(HeadCells) : HeadCells[i][1] = x /\ i <= m
    <2>1. CASE rec = None
        <3>1. S = Ids(f, headOff)
            BY <1>1, <2>1
        <3>2. \A x \in Ids(f, headOff) : \E i \in (headOff + 1)..m : f[i][1] = x
            BY DEF Ids
        <3> HIDE DEF f, S, m
        <3>3. \A i \in (headOff + 1)..m : i \in 1..m /\ i <= m
            BY <1>1
        <3> QED
            BY <3>1, <3>2, <3>3 DEF f, m
    <2>2. CASE rec # None
        <3>1. headOff + 1 \in 1..Len(HeadCells) /\ HeadCells[headOff + 1][1] = rec[1]
            BY <2>2, HeadFresh
        <3> QED
            BY <1>1, <2>2, <3>1
    <2> QED
        BY <2>1, <2>2
<1> HIDE DEF S, m, f
<1>3. /\ released \cup S \subseteq 0..pushed
      /\ \A id \in DOMAIN files : id # segments[1].id => Newer(files[id], 0, released \cup S)
    BY <1>1, <1>2, Consumed
<1> QED
    BY <1>3 DEF S

LEMMA DropFresh ==
    ASSUME DiskInv, CellsInv, FreshInv, CellsInv', pc \notin {"down", "recover"}, NEW rec,
           NEW next \in {"bound_head", "open_head", "ack_head"}, dropHead(rec, next), ~Fails("remove"),
           rec # None => pc = "idle" /\ Readable /\ rec = HeadRecord
    PROVE  FreshInv'
<1> DEFINE a == segments[1].id
           S == IF rec = None THEN Ids(files[segments[1].id], headOff) ELSE {rec[1]}
<1>1. /\ files' = Without(files, a) /\ peeked' = None /\ pc' = next
      /\ released' = released \cup S /\ pushed' = pushed
    BY DEF dropHead, unpeek
<1>2. /\ released \cup S \subseteq 0..pushed
      /\ \A id \in DOMAIN files : id # a => Newer(files[id], 0, released \cup S)
    BY ReleasedCells
<1>3. \A id \in DOMAIN files' : id \in DOMAIN files /\ id # a /\ files'[id] = files[id]
    BY <1>1 DEF Without
<1> HIDE DEF S
<1>4. \A id \in DOMAIN files' : Newer(files'[id], 0, released')
    BY <1>1, <1>2, <1>3
<1> QED
    BY <1>1, <1>2, <1>4, EmptiedFresh

LEMMA ResetFresh ==
    ASSUME DiskInv, CellsInv, FreshInv, CellsInv', pc = "idle", NEW rec, resetOnly(rec), ~Fails("truncate"),
           rec # None => Readable /\ rec = HeadRecord
    PROVE  FreshInv'
<1> DEFINE a == segments[1].id
           S == IF rec = None THEN Ids(files[segments[1].id], headOff) ELSE {rec[1]}
<1>1. /\ files' = [files EXCEPT ![a] = << >>] /\ peeked' = None /\ pc' = "ack_head"
      /\ released' = released \cup S /\ pushed' = pushed
    BY DEF resetOnly, resetHead
<1>2. /\ released \cup S \subseteq 0..pushed
      /\ \A id \in DOMAIN files : id # a => Newer(files[id], 0, released \cup S)
    BY ReleasedCells
<1>3. \A id \in DOMAIN files' : id \in DOMAIN files /\ files'[id] = IF id = a THEN << >> ELSE files[id]
    BY <1>1
<1> HIDE DEF S
<1>4. ASSUME NEW id \in DOMAIN files' PROVE Newer(files'[id], 0, released')
    <2>1. CASE id = a
        <3>1. files'[id] = << >> /\ Len(<< >>) = 0
            BY <1>3, <2>1
        <3> QED
            BY <3>1 DEF Newer
    <2>2. CASE id # a
        BY <1>1, <1>2, <1>3, <2>2
    <2> QED
        BY <2>1, <2>2
<1> QED
    BY <1>1, <1>2, <1>4, EmptiedFresh

LEMMA AdvanceFresh ==
    ASSUME DiskInv, CellsInv, FreshInv, Ack_advance, ~Fails("head")
    PROVE  FreshInv'
<1> DEFINE a == segments[1].id
           x == HeadRecord[1]
           m == headOff + HeadRecord[2]
           R == released \cup {x}
<1>1. /\ pc = "idle" /\ Readable /\ pc' = pc /\ files' = files /\ peeked' = None
      /\ headFile' = <<a, m>> /\ headOff' = m /\ released' = R /\ pushed' = pushed
      /\ segments' = [segments EXCEPT ![1].records = @ - 1]
    BY DEF Ack_advance, NextHead
<1>2. segments'[1].id = a
    <2>1. Len(segments) \in Nat /\ Len(segments) >= 1 /\ Shaped(segments)
        BY <1>1, OldestFirst
    <2>2. 1 \in DOMAIN segments /\ DOMAIN segments[1] = {"id", "size", "records"}
        BY <2>1, Shape
    <2> QED
        BY <1>1, <2>2
<1>3. headOff \in Nat /\ HeadCells = files[a]
    BY <1>1, HeadFacts
<1>4. /\ HeadRecord[2] \in Nat /\ HeadRecord[2] >= 1
      /\ headOff + 1 \in 1..Len(HeadCells) /\ HeadCells[headOff + 1][1] = x
    BY <1>1, HeadFresh
<1>5. m \in Nat /\ headOff + 1 <= m /\ m >= headOff
    BY <1>3, <1>4
<1> HIDE DEF x, m
<1>6. \A y \in {x} : \E i \in 1..Len(HeadCells) : HeadCells[i][1] = y /\ i <= m
    BY <1>4, <1>5
<1>7. /\ R \subseteq 0..pushed /\ Newer(HeadCells, m, R)
      /\ \A id \in DOMAIN files : id # a => Newer(files[id], 0, R)
    BY <1>1, <1>5, <1>6, Consumed
<1>8. From(<<a, m>>, a) = m /\ \A id : id # a => From(<<a, m>>, id) = 0
    BY DEF From
<1> HIDE DEF a, R
<1>9. Fresh(files, <<a, m>>, R)
    BY <1>3, <1>7, <1>8 DEF Fresh
<1> QED
    BY <1>1, <1>2, <1>7, <1>9 DEF FreshInv, FreshDisk, FreshMemory, FreshPeeked

LEMMA PushFresh ==
    ASSUME DiskInv, CellsInv, FreshInv, Push \/ Push_torn \/ Push_fails
    PROVE  FreshInv'
<1>1. PICK k \in Sizes, n \in Nat :
         /\ n \in 0..k /\ pc = "idle" /\ pushed' = pushed + 1 /\ headFile' = headFile
         /\ files' = Appended(pushed + 1, k, n) /\ released' = released
         /\ \/ Exit
            \/ /\ headOff' = headOff /\ peeked' = peeked /\ pc' \in {"idle", "bound"}
               /\ segments' = Rolled(k) \/ segments' = [Rolled(k) EXCEPT ![Len(Rolled(k))].size = @ + k,
                                                                          ![Len(Rolled(k))].records = @ + 1]
    <2>0. \A k \in Sizes : k \in Nat /\ k \in 0..k /\ \A n \in 0..(k - 1) : n \in Nat /\ n \in 0..k
        BY DiskQueueAssumption
    <2>1. CASE Push
        BY <2>0, <2>1 DEF Push
    <2>2. CASE Push_torn
        BY <2>0, <2>2 DEF Push_torn
    <2>3. CASE Push_fails
        BY <2>0, <2>3 DEF Push_fails
    <2> QED
        BY <2>1, <2>2, <2>3
<1>2. k \in Nat /\ pushed \in Nat
    BY DiskQueueAssumption, CellsFacts
<1>3. released \subseteq 0..pushed /\ Fresh(files, headFile, released)
      /\ Fresh(files, <<segments[1].id, headOff>>, released)
    BY <1>1 DEF FreshInv, FreshDisk, FreshMemory
<1>4. Fresh(files', headFile, released) /\ Fresh(files', <<segments[1].id, headOff>>, released)
    BY <1>1, <1>2, <1>3, AppendFresh
<1>5. released' \subseteq 0..pushed'
    BY <1>1, <1>2, <1>3
<1>6. CASE Exit
    BY <1>1, <1>4, <1>5, <1>6, ExitFresh
<1>7. CASE ~Exit
    <2>1. segments'[1].id = segments[1].id
        <3>1. Rolled(k)[1].id = segments[1].id /\ Shaped(Rolled(k)) /\ Len(Rolled(k)) \in 1..Len(Rolled(k))
            <4>1. Len(segments) \in Nat /\ Len(segments) >= 1 /\ Shaped(segments)
                BY <1>1, OldestFirst
            <4>2. PICK X : segments \in Seq(Seg(X))
                BY <4>1 DEF Shaped
            <4> DEFINE y == [id |-> Last(segments).id + 1, size |-> 0, records |-> 0]
            <4>3. Append(segments, y)[1] = segments[1]
                <5> HIDE DEF y
                <5> QED
                    BY <4>1, <4>2
            <4>4. Rolled(k) = Append(segments, y) \/ Rolled(k) = segments
                BY DEF Rolled
            <4> QED
                BY <1>1, <4>3, <4>4, RolledTail
        <3>2. CASE segments' = Rolled(k)
            BY <3>1, <3>2
        <3>3. CASE segments' # Rolled(k)
            <4> DEFINE r == Rolled(k)
                       l == Len(r)
            <4>0. /\ segments' = [r EXCEPT ![l].size = @ + k, ![l].records = @ + 1]
                  /\ Shaped(r) /\ l \in 1..Len(r)
                BY <1>1, <1>7, <3>1, <3>3
            <4> HIDE DEF r, l
            <4>1. Relabelled(segments', Rolled(k))
                BY <4>0, CountPushed DEF r
            <4> QED
                BY <3>1, <4>1 DEF Relabelled
        <3> QED
            BY <3>2, <3>3
    <2>2. FreshMemory'
        BY <1>1, <1>4, <1>7, <2>1 DEF FreshMemory
    <2>3. FreshPeeked'
        <3> SUFFICES ASSUME peeked # None
                     PROVE  /\ headOff + 1 \in 1..Len(HeadCells') /\ HeadCells'[headOff + 1][1] = peeked[1]
            BY <1>1, <1>7 DEF FreshInv, FreshPeeked
        <3> DEFINE f == HeadCells
                   t == Last(Rolled(k)).id
                   c == SubSeq(encode(pushed + 1, k), 1, n)
        <3>1. /\ segments[1].id \in DOMAIN files /\ f = files[segments[1].id] /\ f \in Seq(Cell)
              /\ headOff \in Nat
            BY <1>1, HeadFacts
        <3>2. headOff + 1 \in 1..Len(f) /\ f[headOff + 1][1] = peeked[1]
            BY DEF FreshInv, FreshPeeked
        <3>3. HeadCells' = f \/ HeadCells' = f \o c
            <4> DEFINE b == segments[1].id
            <4>1. files' = With(files, t, Cells(t) \o c)
                BY <1>1 DEF Appended
            <4> HIDE DEF c, t
            <4>2. b \in DOMAIN files' /\ files'[b] = IF b = t THEN Cells(t) \o c ELSE files[b]
                BY <3>1, <4>1 DEF With
            <4>3. HeadCells' = files'[b]
                BY <2>1, <4>2 DEF HeadCells, Cells
            <4>4. b = t => Cells(t) = f
                BY <3>1 DEF Cells
            <4> QED
                BY <3>1, <4>2, <4>3, <4>4
        <3>4. c \in Seq(Cell) /\ Len(c) \in Nat
            <4>1. pushed + 1 \in Nat /\ k \in Nat /\ n \in 0..k /\ n \in Nat
                BY <1>1, <1>2
            <4>2. c \in Seq(Cell) /\ Len(c) = n
                BY <4>1, EncodeCells
            <4> QED
                BY <4>1, <4>2
        <3> HIDE DEF f, c
        <3>5. Len(f) \in Nat
            BY <3>1
        <3>6. /\ Len(f \o c) = Len(f) + Len(c)
              /\ \A i \in 1..Len(f) : (f \o c)[i] = f[i]
            BY <3>1, <3>4, AppendCells
        <3>7. CASE HeadCells' = f
            BY <3>2, <3>7
        <3>8. CASE HeadCells' = f \o c
            BY <3>2, <3>4, <3>5, <3>6, <3>8
        <3> QED
            BY <3>3, <3>7, <3>8
    <2> QED
        BY <1>1, <1>4, <1>5, <2>2, <2>3 DEF FreshInv, FreshDisk
<1> QED
    BY <1>6, <1>7

LEMMA ScanFresh ==
    ASSUME DiskInv, CellsInv, FreshInv, scanSegment
    PROVE  FreshInv'
<1> DEFINE id == NextSegment
           size == ScanEnd(files[id], Start(id))
           g == Truncated(files[id], size)
<1>1. /\ pc = "recover" /\ pc' = pc /\ todo # {} /\ headFile' = headFile /\ peeked' = peeked
      /\ released' = released /\ pushed' = pushed
    BY DEF scanSegment, history
<1>2. /\ id \in todo /\ todo \subseteq DOMAIN files /\ DOMAIN files \subseteq Nat \ {0}
      /\ \A j \in DOMAIN files : headFile[1] <= j
      /\ Shaped(segments) /\ \A i \in 1..Len(segments) : segments[i].id \in DOMAIN files
                                                        /\ segments[i].id < id
    <2>1. /\ todo \subseteq DOMAIN files /\ DOMAIN files \subseteq Nat \ {0} /\ Shaped(segments)
          /\ DOMAIN files = SegIds(segments) \cup todo
          /\ \A i \in 1..Len(segments) : \A t \in todo : segments[i].id < t
          /\ \A j \in DOMAIN files : headFile[1] <= j
        BY <1>1 DEF DiskInv, SegmentsInv, HeadInv
    <2>2. \E x \in todo : \A y \in todo : x <= y
        BY <1>1, <2>1, LeastId
    <2>3. id \in todo
        BY <2>2 DEF NextSegment
    <2>4. \A i \in 1..Len(segments) : segments[i].id \in SegIds(segments)
        BY DEF SegIds
    <2> QED
        BY <2>1, <2>3, <2>4
<1>3. files[id] \in Seq(Cell) /\ Start(id) \in Nat /\ headFile[1] \in Nat
    BY <1>2, CellsFacts
<1>4. ~(id < headFile[1])
    BY <1>2, <1>3
<1> DEFINE new == [id |-> id, size |-> size, records |-> Len(Records(files[id], Start(id)))]
<1>5. /\ files' = [files EXCEPT ![id] = g] /\ segments' = Append(segments, new)
      /\ headOff' = IF id = headFile[1] THEN headFile[2] ELSE headOff
    BY <1>4 DEF scanSegment
<1>6. Fresh(files', headFile, released)
    <2>1. size \in Nat
        BY <1>3, ScanEndType
    <2>2. Weaker(g, files[id])
        BY <1>3, <2>1, TruncatedWeaker
    <2> HIDE DEF g
    <2>3. Put(files', files, id, g)
        BY <1>2, <1>5 DEF Put
    <2>4. Fresh(files, headFile, released) /\ id \in DOMAIN files
        BY <1>2 DEF FreshInv, FreshDisk
    <2> HIDE DEF id
    <2> QED
        BY <2>2, <2>3, <2>4, PutFresh
<1>7. segments' # << >> /\ headOff' = Start(segments[1].id)'
    <2>0. PICK X : segments \in Seq(Seg(X))
        BY <1>2 DEF Shaped
    <2> DEFINE u == segments'
               s == segments
    <2>1. Len(u) = Len(s) + 1 /\ Len(s) \in Nat /\ u # << >> /\ u[Len(s) + 1] = new
          /\ \A i \in 1..Len(s) : u[i] = s[i]
        <3> HIDE DEF new
        <3> QED
            BY <1>5, <2>0
    <2>2. CASE segments = << >>
        <3>1. u[1].id = id
            BY <2>1, <2>2
        <3>2. headOff = 0
            BY <1>1, <2>2 DEF FreshInv, FreshMemory
        <3> QED
            BY <1>1, <1>5, <2>1, <3>1, <3>2 DEF Start
    <2>3. CASE segments # << >>
        <3>1. Len(s) >= 1
            BY <1>2, <2>3, Shape
        <3>2. u[1] = s[1] /\ s[1].id \in DOMAIN files /\ s[1].id < id
            BY <1>2, <2>1, <3>1
        <3>3. id # headFile[1]
            BY <1>2, <1>3, <3>2
        <3>4. headOff = Start(s[1].id)
            BY <1>1, <2>3 DEF FreshInv, FreshMemory
        <3> QED
            BY <1>1, <1>5, <2>1, <3>2, <3>3, <3>4 DEF Start
    <2> QED
        BY <2>2, <2>3
<1>8. peeked = None
    BY <1>1 DEF FreshInv, FreshMemory
<1> QED
    BY <1>1, <1>6, <1>7, <1>8 DEF FreshInv, FreshDisk, FreshMemory, FreshPeeked

LEMMA RecoveredFresh ==
    ASSUME DiskInv, CellsInv, FreshInv, CellsInv', recover_done
    PROVE  FreshInv'
<1>1. /\ pc = "recover" /\ pc' = "open_bound" /\ todo = {} /\ headFile' = headFile /\ peeked' = peeked
      /\ headOff' = headOff /\ released' = released /\ pushed' = pushed
    BY DEF recover_done, history
<1>2. peeked = None /\ released \subseteq 0..pushed /\ Fresh(files, headFile, released)
    BY <1>1 DEF FreshInv, FreshDisk, FreshMemory
<1>3. CASE segments = << >>
    <2>1. files' = With(files, 1, Cells(1))
        BY <1>3 DEF recover_done
    <2>2. DOMAIN files = {}
        <3>1. DOMAIN files = SegIds(segments) \cup todo
            BY <1>1 DEF DiskInv, SegmentsInv
        <3>2. SegIds(<< >>) = {}
            BY DEF SegIds
        <3> QED
            BY <1>1, <1>3, <3>1, <3>2
    <2>3. \A id \in DOMAIN files' : files'[id] = << >> /\ Len(files'[id]) = 0
        BY <2>1, <2>2 DEF With, Cells
    <2>4. \A id \in DOMAIN files' : Newer(files'[id], 0, released')
        BY <2>3 DEF Newer
    <2> QED
        BY <1>1, <1>2, <2>4, EmptiedFresh
<1>4. CASE segments # << >>
    <2>1. files' = files /\ segments' = segments
        BY <1>4 DEF recover_done
    <2> DEFINE a == segments[1].id
    <2>2. headOff = Start(a)
        BY <1>1, <1>4 DEF FreshInv, FreshMemory
    <2>3. \A id \in DOMAIN files : From(<<a, headOff>>, id) = From(headFile, id)
        <3>1. /\ Shaped(segments) /\ Increasing(segments) /\ DOMAIN files = SegIds(segments)
              /\ \A id \in DOMAIN files : headFile[1] <= id /\ id \in Nat
            BY <1>1 DEF DiskInv, SegmentsInv, HeadInv
        <3>2. Len(segments) \in Nat /\ Len(segments) >= 1 /\ a \in DOMAIN files /\ headFile[1] \in Nat
            <4>1. Len(segments) \in Nat /\ Len(segments) >= 1
                BY <1>4, <3>1, Shape
            <4> QED
                BY <3>1, <4>1, CellsFacts DEF SegIds
        <3>3. ASSUME NEW id \in DOMAIN files, id # a PROVE From(headFile, id) = 0
            <4>1. PICK i \in 1..Len(segments) : segments[i].id = id
                BY <3>1 DEF SegIds
            <4>2. 1 \in 1..Len(segments) /\ 1 < i
                BY <3>2, <3>3, <4>1
            <4>3. a < id
                BY <3>1, <4>1, <4>2 DEF Increasing
            <4>4. headFile[1] # id
                BY <3>1, <3>2, <4>3
            <4> QED
                BY <4>4 DEF From
        <3> QED
            BY <2>2, <3>3 DEF From, Start
    <2>4. Fresh(files, <<a, headOff>>, released)
        BY <1>2, <2>3 DEF Fresh
    <2> QED
        BY <1>1, <1>2, <2>1, <2>4 DEF FreshInv, FreshDisk, FreshMemory, FreshPeeked
<1> QED
    BY <1>3, <1>4

LEMMA CorruptFresh ==
    ASSUME DiskInv, CellsInv, FreshInv, Corrupt
    PROVE  FreshInv'
<1>1. /\ pc = "idle" /\ pc' = pc /\ headFile' = headFile /\ headOff' = headOff /\ peeked' = peeked
      /\ segments' = segments /\ pushed' = pushed /\ released' = released
    BY DEF Corrupt, memory
<1>2. PICK t \in DOMAIN files, g \in Seq(Cell) :
         /\ Put(files', files, t, g) /\ Weaker(g, files[t]) /\ Len(g) = Len(files[t])
         /\ \A j \in 1..Len(g) : g[j][1] = files[t][j][1]
    BY CorruptCell
<1>3. Fresh(files, headFile, released) /\ Fresh(files, <<segments[1].id, headOff>>, released)
    BY <1>1 DEF FreshInv, FreshDisk, FreshMemory
<1>4. Fresh(files', headFile, released) /\ Fresh(files', <<segments[1].id, headOff>>, released)
    BY <1>2, <1>3, PutFresh
<1>5. segments[1].id \in DOMAIN files /\ HeadCells = files[segments[1].id]
    BY <1>1, HeadFacts
<1>6. Len(HeadCells') = Len(HeadCells) /\ \A j \in 1..Len(HeadCells) : HeadCells'[j][1] = HeadCells[j][1]
    <2>1. segments[1].id \in DOMAIN files' /\ HeadCells' = files'[segments[1].id]
        BY <1>1, <1>2, <1>5 DEF HeadCells, Cells, Put
    <2> QED
        BY <1>2, <1>5, <2>1 DEF Put
<1> QED
    BY <1>1, <1>4, <1>6 DEF FreshInv, FreshDisk, FreshMemory, FreshPeeked

\* No call of Undone fails: the disk forgets what the process has done with.
LEMMA FreshNext ==
    ASSUME DiskInv, CellsInv, FreshInv, CellsInv', faults \in Seq(Faults), [DiskQueueNext]_dqVars,
           ~Failed(Undone)'
    PROVE  FreshInv'
<1>0. /\ FreshDisk /\ FreshMemory /\ FreshPeeked
      /\ released \subseteq 0..pushed /\ Fresh(files, headFile, released)
    BY DEF FreshInv, FreshDisk
<1>a. \A kind \in Undone : ~Fails(kind)
    BY CallFailed
<1>b. ~Fails("head") /\ ~Fails("remove") /\ ~Fails("truncate") /\ ~Fails("roll")
    BY <1>a DEF Undone
<1>1. CASE Open
    <2>1. /\ pc = "down" /\ pc' = "recover" /\ files' = files /\ headFile' = headFile /\ released' = released
          /\ pushed' = pushed /\ segments' = segments /\ headOff' = headOff /\ peeked' = peeked
        BY <1>1 DEF Open, disk, history
    <2>2. segments = << >>
        BY <2>1 DEF DiskInv, SegmentsInv
    <2> QED
        BY <1>0, <2>1, <2>2 DEF FreshInv, FreshDisk, FreshMemory, FreshPeeked
<1>2. CASE scanSegment \/ recover_done
    BY <1>2, ScanFresh, RecoveredFresh
<1>3. CASE Push \/ Push_torn \/ Push_fails
    BY <1>3, PushFresh
<1>4. CASE enforceBound_drop
    <2>1. PICK next \in {"bound_head", "open_head", "ack_head"} : dropHead(None, next)
        BY <1>4 DEF enforceBound_drop
    <2>2. pc \notin {"down", "recover"}
        BY <1>4 DEF enforceBound_drop
    <2> QED
        BY <1>b, <2>1, <2>2, DropFresh
<1>5. CASE enforceBound_done
    <2>1. /\ pc \notin {"down", "recover"} /\ pc' = "idle" /\ files' = files /\ headFile' = headFile
          /\ released' = released /\ pushed' = pushed /\ segments' = segments /\ headOff' = headOff
          /\ peeked' = peeked
        BY <1>5 DEF enforceBound_done, disk, memory, history
    <2>2. HeadCells' = HeadCells
        BY <2>1 DEF HeadCells, Cells
    <2> QED
        BY <1>0, <2>1, <2>2 DEF FreshInv, FreshDisk, FreshMemory, FreshPeeked
<1>6. CASE writeHead
    <2>1. /\ pc \notin {"down", "recover"} /\ pc' \in {"bound", "open_bound", "idle"} /\ files' = files
          /\ headFile' = <<segments[1].id, headOff>>
          /\ released' = released /\ pushed' = pushed /\ segments' = segments /\ headOff' = headOff
          /\ peeked' = peeked
        BY <1>6, <1>b DEF writeHead, memory, HeadSegment
    <2>2. HeadCells' = HeadCells
        BY <2>1 DEF HeadCells, Cells
    <2> QED
        BY <1>0, <2>1, <2>2 DEF FreshInv, FreshDisk, FreshMemory, FreshPeeked
<1>7. CASE Peek
    <2>1. /\ pc = "idle" /\ pc' = pc /\ Readable /\ files' = files /\ headFile' = headFile
          /\ released' = released /\ pushed' = pushed /\ segments' = segments /\ headOff' = headOff
          /\ peeked' = HeadRecord
        BY <1>7 DEF Peek, disk, history
    <2>2. HeadCells' = HeadCells
        BY <2>1 DEF HeadCells, Cells
    <2>3. FreshPeeked'
        BY <2>1, <2>2, HeadFresh DEF FreshPeeked
    <2> QED
        BY <1>0, <2>1, <2>3 DEF FreshInv, FreshDisk, FreshMemory
<1>8. CASE Ack_advance
    BY <1>8, <1>b, AdvanceFresh
<1>9. CASE Ack_last
    <2>1. pc = "idle" /\ Readable /\ (dropHead(HeadRecord, "ack_head") \/ resetOnly(HeadRecord))
        BY <1>9 DEF Ack_last
    <2> QED
        BY <1>b, <2>1, DropFresh, ResetFresh
<1>10. CASE Ack_discard
    <2>1. pc = "idle" /\ (dropHead(None, "ack_head") \/ resetOnly(None))
        BY <1>10 DEF Ack_discard
    <2> QED
        BY <1>b, <2>1, DropFresh, ResetFresh
<1>11. CASE Close
    <2>1. /\ pc = "idle" /\ headFile' = <<segments[1].id, headOff>> /\ files' = files
          /\ Exit /\ pushed' = pushed /\ released' = released
        BY <1>11 DEF Close, history
    <2> QED
        BY <1>0, <2>1, ExitFresh DEF FreshMemory
<1>12. CASE Crash \/ recover_fails \/ Close_fails
    BY <1>0, <1>12, ExitFresh DEF Crash, recover_fails, Close_fails, disk, history
<1>13. CASE recover_skip
    BY <1>13, NothingSkipped
<1>14. CASE roll_fails
    BY <1>14, <1>b DEF roll_fails
<1>15. CASE Corrupt
    BY <1>15, CorruptFresh
<1>16. CASE UNCHANGED dqVars
    <2>1. HeadCells' = HeadCells
        BY <1>16 DEF HeadCells, Cells, dqVars, disk, memory
    <2> QED
        BY <1>0, <1>16, <2>1 DEF FreshInv, FreshDisk, FreshMemory, FreshPeeked, Start, dqVars, disk, memory, history
<1> QED
    BY <1>1, <1>2, <1>3, <1>4, <1>5, <1>6, <1>7, <1>8, <1>9, <1>10, <1>11, <1>12, <1>13, <1>14, <1>15, <1>16
    DEF DiskQueueNext

LEMMA FreshInit == DiskQueueInit => FreshInv
<1> SUFFICES ASSUME DiskQueueInit PROVE FreshInv
    OBVIOUS
<1>1. files = << >> /\ headOff = 0 /\ peeked = None /\ pushed = 0 /\ released = {} /\ pc = "down"
    BY DEF DiskQueueInit
<1>2. DOMAIN files = {}
    BY <1>1
<1> QED
    BY <1>1, <1>2 DEF FreshInv, FreshDisk, FreshMemory, FreshPeeked, Fresh

\* FreshInv holds as long as no call of Undone has failed.
OrderInv ==
    /\ faults \in Seq(Faults)
    /\ ~Failed({"roll"}) => DiskInv /\ CellsInv
    /\ ~Failed(Undone) => FreshInv

LEMMA FailedMore ==
    ASSUME NEW A, NEW B, A \subseteq B
    PROVE  (Failed(A) => Failed(B)) /\ (Failed(A)' => Failed(B)')
BY DEF Failed

\* Peek hands out the records in the order of their pushes, across evictions,
\* crashes and restarts, appends and opens that fail and cells that go bad: no
\* record is older than one acknowledged or dropped before.  Without a failed
\* roll only a failed write of the head file, removal or truncation undoes it.
THEOREM DeliveryOrdered == DiskQueueSpec => [](Failed({"roll"}) \/ DeliveredInOrder)
<1>1. DiskQueueInit => OrderInv
    <2> SUFFICES ASSUME DiskQueueInit PROVE OrderInv
        OBVIOUS
    <2>1. faults \in Seq(Faults)
        BY EmptySeq DEF DiskQueueInit
    <2> QED
        BY <2>1, DiskInvInit, CellsInit, FreshInit DEF OrderInv
<1>2. OrderInv /\ [DiskQueueNext]_dqVars => OrderInv'
    <2> SUFFICES ASSUME OrderInv, [DiskQueueNext]_dqVars PROVE OrderInv'
        OBVIOUS
    <2>1. faults \in Seq(Faults)
        BY DEF OrderInv
    <2>2. faults' \in Seq(Faults) /\ \A kinds : Failed(kinds) => Failed(kinds)'
        BY <2>1, FaultsGrow
    <2>3. ASSUME ~Failed({"roll"})' PROVE DiskInv /\ CellsInv /\ DiskInv' /\ CellsInv'
        <3>1. DiskInv /\ CellsInv
            BY <2>2, <2>3 DEF OrderInv
        <3> QED
            BY <2>1, <2>3, <3>1, DiskInvNext, CellsNext
    <2>4. ASSUME ~Failed(Undone)' PROVE FreshInv'
        <3>1. ~Failed({"roll"})'
            BY <2>4, FailedMore DEF Undone
        <3>2. FreshInv
            BY <2>2, <2>4 DEF OrderInv
        <3> QED
            BY <2>1, <2>3, <2>4, <3>1, <3>2, FreshNext
    <2> QED
        BY <2>2, <2>3, <2>4 DEF OrderInv
<1>3. OrderInv => (Failed({"roll"}) \/ DeliveredInOrder)
    <2> SUFFICES ASSUME OrderInv, ~Failed({"roll"}), ~Failed({"head", "remove", "truncate"}), peeked # None
                 PROVE  \A r \in released : r < peeked[1]
        BY DEF DeliveredInOrder
    <2>1. ~Failed(Undone)
        BY DEF Failed, Undone
    <2> QED
        BY <2>1 DEF OrderInv, FreshInv, FreshPeeked
<1> QED
    BY <1>1, <1>2, <1>3, PTL DEF DiskQueueSpec
=============================================================================
