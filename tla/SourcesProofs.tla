---------------------------- MODULE SourcesProofs ----------------------------
(***************************************************************************)
(* The replay of a CSV file (internal/collectors/sim_csv.go), for any file, *)
(* replaced or removed at any moment: a pass delivers its well-formed rows. *)
(***************************************************************************)
EXTENDS Sources, SequenceTheorems, TLAPS

\* Rows g of a file with these rows are the well-formed ones of its first n,
\* in order.
WellFormed(g, rows, n) ==
    /\ ToSet(g) = {i \in 1..n : Good(rows[i])}
    /\ \A i, j \in 1..Len(g) : i < j => g[i] < g[j]

\* A reader of rows, n of them read.
ReaderAt(p, rows, n) == p = [rows |-> rows, pos |-> n] /\ Len(rows) \in Nat /\ n \in 0..Len(rows)

Progress(p, g) ==
    g \in Seq(Nat) /\ \E rows, n : ReaderAt(p, rows, n) /\ WellFormed(g, rows, n)

\* A pass that is over has delivered every well-formed row of its file.
Complete(e) == WellFormed(e.given, e.rows, Len(e.rows))

\* Only the end of a file makes the source give its reader up.
CsvInv ==
    /\ file \in Files \cup {NoFile}
    /\ Progress(pass, given)
    /\ opened \/ closed \/ AtEnd(pass)
    /\ Complete(ended)

LEMMA FromStartProgress ==
    ASSUME file \in Files \cup {NoFile}, CanOpen
    PROVE  Progress(FromStart, << >>) /\ FromStart.rows = file.rows /\ FromStart.pos = 0
<1>1. file.rows \in Seq(ToSet(file.rows))
    BY CsvAssumption DEF CanOpen
<1>2. Len(file.rows) \in Nat
    BY <1>1, LenProperties
<1>3. ReaderAt(FromStart, file.rows, 0)
    BY <1>2 DEF ReaderAt, FromStart
<1>4. WellFormed(<< >>, file.rows, 0)
    <2>1. ToSet(<< >>) = {} /\ 1..0 = {} /\ Len(<< >>) = 0
        BY EmptySeq DEF ToSet
    <2> QED
        BY <2>1 DEF WellFormed
<1>5. << >> \in Seq(Nat)
    BY EmptySeq
<1> QED
    BY <1>3, <1>4, <1>5 DEF Progress, FromStart

\* A row that is read is delivered if it is well formed.
LEMMA RowProgress ==
    ASSUME NEW p, NEW g, Progress(p, g), ~AtEnd(p), Row(p, g)
    PROVE  Progress(pass', given') /\ done' = done
<1>1. PICK rows, n : ReaderAt(p, rows, n) /\ WellFormed(g, rows, n)
    BY DEF Progress
<1>2. n + 1 \in 0..Len(rows) /\ n \in Nat /\ p.pos = n /\ p.rows = rows
    BY <1>1 DEF ReaderAt, AtEnd
<1>3. ReaderAt(pass', rows, n + 1)
    BY <1>1, <1>2 DEF ReaderAt, Row
<1>4. g \in Seq(Nat) /\ Len(g) \in Nat
    BY LenProperties DEF Progress
<1>5. ToSet(g) = {i \in 1..n : Good(rows[i])} /\ \A i, j \in 1..Len(g) : i < j => g[i] < g[j]
    BY <1>1 DEF WellFormed
<1>7. CASE Good(rows[n + 1])
    <2>1. given' = Append(g, n + 1)
        BY <1>2, <1>7 DEF Row
    <2> DEFINE h == Append(g, n + 1)
               m == Len(g)
    <2>2. /\ h \in Seq(Nat) /\ Len(h) = m + 1 /\ h[m + 1] = n + 1
          /\ \A i \in 1..m : h[i] = g[i]
        BY <1>2, <1>4, AppendProperties
    <2> HIDE DEF h
    <2>3. \A i \in 1..m : g[i] \in 1..n
        BY <1>5 DEF ToSet
    <2>4. ToSet(h) = ToSet(g) \cup {n + 1}
        <3>1. 1..(m + 1) = 1..m \cup {m + 1}
            BY <1>4
        <3>2. DOMAIN g = 1..m /\ DOMAIN h = 1..(m + 1)
            BY <1>4, <2>2, LenProperties
        <3> QED
            BY <2>2, <3>1, <3>2 DEF ToSet
    <2>5. {i \in 1..(n + 1) : Good(rows[i])} = {i \in 1..n : Good(rows[i])} \cup {n + 1}
        BY <1>2, <1>7
    <2>6. ASSUME NEW i \in 1..(m + 1), NEW j \in 1..(m + 1), i < j PROVE h[i] < h[j]
        <3>1. CASE j = m + 1
            <4>1. i \in 1..m
                BY <1>4, <2>6, <3>1
            <4>2. h[i] \in 1..n
                BY <2>2, <2>3, <4>1
            <4> QED
                BY <1>2, <2>2, <3>1, <4>2
        <3>2. CASE j # m + 1
            <4>1. i \in 1..m /\ j \in 1..m
                BY <1>4, <2>6, <3>2
            <4> QED
                BY <1>5, <2>2, <2>6, <4>1
        <3> QED
            BY <3>1, <3>2
    <2>7. WellFormed(h, rows, n + 1)
        BY <1>5, <2>2, <2>4, <2>5, <2>6 DEF WellFormed
    <2> QED
        BY <1>3, <2>1, <2>2, <2>7 DEF Progress, Row, h
<1>8. CASE ~Good(rows[n + 1])
    <2>1. given' = g
        BY <1>2, <1>8 DEF Row
    <2>2. {i \in 1..(n + 1) : Good(rows[i])} = {i \in 1..n : Good(rows[i])}
        BY <1>2, <1>8
    <2>3. WellFormed(g, rows, n + 1)
        BY <1>5, <2>2 DEF WellFormed
    <2> QED
        BY <1>3, <1>4, <2>1, <2>3 DEF Progress, Row
<1> QED
    BY <1>7, <1>8

\* What is well formed does not change, the columns being fixed.
LEMMA ProgressLater ==
    ASSUME columns' = columns, Progress(pass', given')
    PROVE  Progress(pass, given)'
<1>1. PICK rows, n : ReaderAt(pass', rows, n) /\ WellFormed(given', rows, n)
    BY DEF Progress
<1>2. \A row : Good(row)' <=> Good(row)
    BY DEF Good
<1>3. WellFormed(given, rows, n)'
    BY <1>1, <1>2 DEF WellFormed
<1>4. ReaderAt(pass, rows, n)'
    BY <1>1 DEF ReaderAt
<1> QED
    BY <1>3, <1>4 DEF Progress

LEMMA CompleteLater ==
    ASSUME columns' = columns, Complete(ended')
    PROVE  Complete(ended)'
<1>1. \A row : Good(row)' <=> Good(row)
    BY DEF Good
<1> QED
    BY <1>1 DEF Complete, WellFormed

LEMMA OverComplete ==
    ASSUME NEW p, NEW g, Progress(p, g), AtEnd(p)
    PROVE  Complete(Over(p, g))
<1>1. PICK rows, n : ReaderAt(p, rows, n) /\ WellFormed(g, rows, n)
    BY DEF Progress
<1>2. p.rows = rows /\ n = Len(rows)
    BY <1>1 DEF ReaderAt, AtEnd
<1>3. Over(p, g).rows = rows /\ Over(p, g).given = g
    BY <1>2 DEF Over
<1> QED
    BY <1>1, <1>2, <1>3 DEF Complete

LEMMA CsvReadProgress ==
    ASSUME CsvInv, CsvRead
    PROVE  CsvInv'
<1>0. /\ file' = file /\ columns' = columns /\ ~closed /\ file \in Files \cup {NoFile}
      /\ Progress(pass, given) /\ (opened \/ AtEnd(pass)) /\ Complete(ended)
    BY DEF CsvRead, CsvInv
<1>1. SUFFICES /\ Progress(pass', given') /\ Complete(ended')
               /\ opened' \/ pass'.pos = Len(pass'.rows)
    BY <1>0, ProgressLater, CompleteLater DEF CsvInv, AtEnd
<1>2. CASE UNCHANGED <<opened, pass, given, ended>>
    BY <1>0, <1>2 DEF AtEnd
<1>3. CASE ~done /\ (opened \/ CanOpen) /\ ~UNCHANGED <<opened, pass, given, ended>>
    <2>1. PICK p : p = IF opened THEN pass ELSE FromStart
        OBVIOUS
    <2>2. PICK before : before = IF opened THEN given ELSE << >>
        OBVIOUS
    <2>3. Progress(p, before)
        BY <1>0, <1>3, <2>1, <2>2, FromStartProgress
    <2>4. IF AtEnd(p) THEN EndOfFile(p, before) /\ ended' = Over(p, before)
          ELSE Row(p, before) /\ ended' = IF opened THEN ended ELSE Over(pass, given)
        BY <1>3, <2>1, <2>2 DEF CsvRead
    <2>5. CASE ~AtEnd(p)
        <3>1. Progress(pass', given') /\ opened'
            BY <2>3, <2>4, <2>5, RowProgress DEF Row
        <3>2. Complete(ended')
            BY <1>0, <2>4, <2>5, OverComplete
        <3> QED
            BY <3>1, <3>2
    <2>6. CASE AtEnd(p)
        <3>1. Complete(ended')
            BY <2>3, <2>4, <2>6, OverComplete
        <3>2. CASE pass' = p /\ given' = before
            BY <2>3, <2>6, <3>1, <3>2 DEF AtEnd
        <3>3. CASE CanOpen /\ file.rows # << >> /\ Row(FromStart, << >>)
            <4>1. Progress(FromStart, << >>) /\ FromStart.rows = file.rows /\ FromStart.pos = 0
                BY <1>0, <3>3, FromStartProgress
            <4>2. file.rows \in Seq(ToSet(file.rows))
                BY <1>0, <3>3, CsvAssumption DEF CanOpen
            <4>3. Len(file.rows) # 0
                BY <3>3, <4>2, EmptySeq
            <4>4. ~AtEnd(FromStart)
                BY <4>1, <4>3 DEF AtEnd
            <4>5. Progress(pass', given') /\ opened'
                BY <3>3, <4>1, <4>4, RowProgress DEF Row
            <4> QED
                BY <3>1, <4>5
        <3>4. CASE CanOpen /\ pass' = FromStart /\ given' = << >> /\ opened' = TRUE
            BY <1>0, <3>1, <3>4, FromStartProgress
        <3> QED
            BY <2>4, <2>6, <3>2, <3>3, <3>4 DEF EndOfFile
    <2> QED
        BY <2>5, <2>6
<1> QED
    BY <1>2, <1>3 DEF CsvRead

LEMMA CsvOtherProgress ==
    ASSUME CsvInv, file' \in Files \cup {NoFile}, UNCHANGED <<columns, pass, given, ended>>,
           closed' \/ UNCHANGED <<opened, closed>>
    PROVE  CsvInv'
<1>1. Progress(pass', given') /\ Complete(ended') /\ columns' = columns
    BY DEF CsvInv
<1>2. Progress(pass, given)' /\ Complete(ended)'
    BY <1>1, ProgressLater, CompleteLater
<1>3. (opened \/ closed \/ AtEnd(pass))'
    BY DEF CsvInv, AtEnd
<1> QED
    BY <1>2, <1>3 DEF CsvInv

\* Whenever a pass over a CSV file is over, because the source calls itself
\* exhausted or because it opens the file again for the next pass, it has
\* delivered all the well-formed rows of that file, each once and in order,
\* whatever happened to the file meanwhile: for any files and any columns.
THEOREM ReplayComplete == SourcesSpec => []PassComplete
<1>1. SourcesInit => CsvInv
    <2> SUFFICES ASSUME SourcesInit PROVE CsvInv
        OBVIOUS
    <2>1. /\ file = NoFile /\ pass = [rows |-> << >>, pos |-> 0] /\ given = << >>
          /\ ended = Over(pass, given)
        BY DEF SourcesInit
    <2>2. ToSet(<< >>) = {} /\ 1..0 = {} /\ Len(<< >>) = 0 /\ << >> \in Seq(Nat)
        BY EmptySeq DEF ToSet
    <2>3. ReaderAt(pass, << >>, 0) /\ WellFormed(given, << >>, 0)
        BY <2>1, <2>2 DEF ReaderAt, WellFormed
    <2>4. Progress(pass, given) /\ AtEnd(pass)
        BY <2>1, <2>2, <2>3 DEF Progress, AtEnd
    <2>5. Complete(ended)
        BY <2>1, <2>4, OverComplete
    <2> QED
        BY <2>1, <2>4, <2>5 DEF CsvInv
<1>2. CsvInv /\ [SourcesNext]_sourcesVars => CsvInv'
    <2> SUFFICES ASSUME CsvInv, [SourcesNext]_sourcesVars PROVE CsvInv'
        OBVIOUS
    <2>1. file \in Files \cup {NoFile}
        BY DEF CsvInv
    <2>2. CASE UNCHANGED csvVars
        BY <2>1, <2>2, CsvOtherProgress DEF csvVars
    <2>3. CASE CsvRead
        BY <2>3, CsvReadProgress
    <2>4. CASE CsvClose
        BY <2>1, <2>4, CsvOtherProgress DEF CsvClose
    <2>5. CASE FileTurns
        BY <2>5, CsvOtherProgress DEF FileTurns
    <2>6. UNCHANGED csvVars \/ CsvRead \/ CsvClose \/ FileTurns
        BY DEF SourcesNext, ModbusCycle, ModbusDevice, ModbusServer, CsvCycle, CsvFile, PollerEnds, Refused,
               sourcesVars
    <2> QED
        BY <2>2, <2>3, <2>4, <2>5, <2>6
<1>3. CsvInv => PassComplete
    BY DEF CsvInv, Complete, WellFormed, PassComplete
<1> QED
    BY <1>1, <1>2, <1>3, PTL DEF SourcesSpec
=============================================================================
