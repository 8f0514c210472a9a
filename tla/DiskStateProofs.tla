-------------------------- MODULE DiskStateProofs ---------------------------
(***************************************************************************)
(* The disk queue until a call fails: its memory says what is on the disk,  *)
(* and what is on the disk is a queue.  And what still holds when removals  *)
(* and truncations fail: no stored record is lost.                          *)
(***************************************************************************)
EXTENDS DiskQueueProofs, FiniteSetTheorems

\* Sequences P[1] .. P[n] joined.  P is blank behind n.
Row(P, n) == [id \in 1..n |-> P[id]]

Flat(P, n) == FlattenSeq(Row(P, n))

Positive == Nat \ {0}

Ends(P, n) == \A id \in Positive : id > n => P[id] = << >>

LEMMA FlatShape ==
    ASSUME NEW X, NEW P \in [Positive -> Seq(X)], NEW n \in Nat
    PROVE  /\ Row(P, n) \in Seq(Seq(X)) /\ Len(Row(P, n)) = n
           /\ \A id \in 1..n : Row(P, n)[id] = P[id]
           /\ Flat(P, n) = FlattenSeq(Row(P, n)) /\ Flat(P, n) \in Seq(X)
<1> DEFINE S == [id \in 1..n |-> P[id]]
           E == Seq(X)
<1>0. Row(P, n) = S
    BY DEF Row
<1>1. \A id \in 1..n : P[id] \in E
    BY DEF Positive
<1> HIDE DEF E
<1>2. S \in [1..n -> E]
    BY <1>1
<1>3. \A id \in 1..n : S[id] = P[id]
    OBVIOUS
<1> HIDE DEF S
<1>4. S \in Seq(E) /\ Len(S) = n
    BY <1>2
<1>5. Flat(P, n) = FlattenSeq(S)
    BY <1>0 DEF Flat
<1>6. FlattenSeq(S) \in Seq(X)
    BY <1>4, FlattenType DEF E
<1> QED
    BY <1>0, <1>3, <1>4, <1>5, <1>6 DEF E

LEMMA FlatStretch ==
    ASSUME NEW X, NEW P \in [Positive -> Seq(X)], NEW n \in Nat, NEW m \in Nat, n <= m, Ends(P, n)
    PROVE  Flat(P, m) = Flat(P, n)
<1> DEFINE S == Row(P, n)
           T == Row(P, m)
           B == [id \in 1..(m - n) |-> << >>]
           E == Seq(X)
<1>1. S \in Seq(E) /\ Len(S) = n /\ (\A id \in 1..n : S[id] = P[id]) /\ Flat(P, n) = FlattenSeq(S)
    BY FlatShape
<1>2. T \in Seq(E) /\ Len(T) = m /\ (\A id \in 1..m : T[id] = P[id]) /\ Flat(P, m) = FlattenSeq(T)
    BY FlatShape
<1>3. m - n \in Nat
    OBVIOUS
<1>4. B \in Seq(E) /\ Len(B) = m - n /\ \A i \in 1..(m - n) : B[i] = << >>
    <2>1. << >> \in E
        BY EmptySeq
    <2> HIDE DEF E
    <2>2. B \in [1..(m - n) -> E]
        BY <2>1
    <2>3. \A i \in 1..(m - n) : B[i] = << >>
        OBVIOUS
    <2> HIDE DEF B
    <2> QED
        BY <1>3, <2>2, <2>3
<1> HIDE DEF S, T, B
<1> DEFINE U == S \o B
<1>5. /\ U \in Seq(E) /\ Len(U) = n + (m - n)
      /\ \A i \in 1..(n + (m - n)) : U[i] = IF i <= n THEN S[i] ELSE B[i - n]
    <2>1. S \in Seq(E) /\ B \in Seq(E)
        BY <1>1, <1>4
    <2> HIDE DEF E
    <2>2. /\ U \in Seq(E) /\ Len(U) = Len(S) + Len(B)
          /\ \A i \in 1..(Len(S) + Len(B)) : U[i] = IF i <= Len(S) THEN S[i] ELSE B[i - Len(S)]
        BY <2>1, ConcatProperties
    <2> HIDE DEF U
    <2> QED
        BY <1>1, <1>4, <2>2
<1> HIDE DEF U
<1>6. \A i \in 1..m : T[i] = U[i]
    <2> SUFFICES ASSUME NEW i \in 1..m PROVE T[i] = U[i]
        OBVIOUS
    <2>1. CASE i <= n
        <3>1. i \in 1..n /\ i \in 1..(n + (m - n))
            BY <2>1
        <3>2. T[i] = P[i] /\ S[i] = P[i]
            BY <1>1, <1>2, <3>1
        <3>3. U[i] = S[i]
            BY <1>5, <2>1, <3>1
        <3> QED
            BY <3>2, <3>3
    <2>2. CASE ~(i <= n)
        <3>1. i > n /\ i \in Positive /\ i - n \in 1..(m - n) /\ i \in 1..(n + (m - n))
            BY <2>2 DEF Positive
        <3>2. T[i] = << >>
            BY <1>2, <3>1 DEF Ends
        <3>3. U[i] = << >>
            BY <1>4, <1>5, <2>2, <3>1
        <3> QED
            BY <3>2, <3>3
    <2> QED
        BY <2>1, <2>2
<1>7. T = U
    <2>1. Len(U) = m
        BY <1>5
    <2> HIDE DEF E
    <2> QED
        BY <1>2, <1>5, <1>6, <2>1, SeqEqual
<1>8. FlattenSeq(U) = FlattenSeq(S) \o FlattenSeq(B)
    BY <1>1, <1>4, FlattenConcat DEF U, E
<1>9. FlattenSeq(B) = << >>
    BY <1>4, FlattenBlank DEF Blank, E
<1>10. FlattenSeq(S) \in Seq(X)
    BY <1>1, FlattenType DEF E
<1>11. FlattenSeq(S) \o << >> = FlattenSeq(S)
    BY <1>10, ConcatEmptySeq
<1> QED
    BY <1>1, <1>2, <1>7, <1>8, <1>9, <1>11

\* Only position a changes, and it is the first one, or the last one.
FirstOnly(P, Q, a) ==
    \A id \in Positive : /\ id < a => P[id] = << >> /\ Q[id] = << >>
                         /\ id > a => P[id] = Q[id]

LastOnly(P, Q, a) ==
    \A id \in Positive : /\ id < a => P[id] = Q[id]
                         /\ id > a => P[id] = << >> /\ Q[id] = << >>

LEMMA Bound3 ==
    ASSUME NEW n \in Nat, NEW m \in Nat, NEW a \in Positive
    PROVE  \E b \in Nat : n <= b /\ m <= b /\ a \in 1..b
<1>1. n + m + a \in Nat /\ n <= n + m + a /\ m <= n + m + a /\ a \in 1..(n + m + a)
    BY DEF Positive
<1> QED
    BY <1>1

LEMMA FlatFirst ==
    ASSUME NEW X, NEW P \in [Positive -> Seq(X)], NEW Q \in [Positive -> Seq(X)],
           NEW n \in Nat, NEW m \in Nat, Ends(P, n), Ends(Q, m),
           NEW a \in Positive, FirstOnly(P, Q, a)
    PROVE  SameRest(X, P[a], Q[a], Flat(P, n), Flat(Q, m))
<1>1. PICK b \in Nat : n <= b /\ m <= b /\ a \in 1..b
    BY Bound3
<1> DEFINE S == Row(P, b)
           T == Row(Q, b)
<1>2. S \in Seq(Seq(X)) /\ Len(S) = b /\ (\A id \in 1..b : S[id] = P[id]) /\ Flat(P, b) = FlattenSeq(S)
    BY <1>1, FlatShape, Zenon
<1>3. T \in Seq(Seq(X)) /\ Len(T) = b /\ (\A id \in 1..b : T[id] = Q[id]) /\ Flat(Q, b) = FlattenSeq(T)
    BY <1>1, FlatShape, Zenon
<1>4. Flat(P, b) = Flat(P, n)
    BY <1>1, FlatStretch
<1>5. Flat(Q, b) = Flat(Q, m)
    BY <1>1, FlatStretch
<1> HIDE DEF S, T
<1>6. LeadingChange(S, T, a)
    <2>1. \A i \in 1..b : i \in Positive
        BY DEF Positive
    <2> QED
        BY <1>2, <1>3, <2>1 DEF LeadingChange, FirstOnly
<1>7. a \in 1..Len(S)
    BY <1>1, <1>2
<1>8. SameRest(X, S[a], T[a], FlattenSeq(S), FlattenSeq(T))
    <2>1. S \in Seq(Seq(X)) /\ T \in Seq(Seq(X))
        BY <1>2, <1>3, Zenon
    <2> QED
        BY <2>1, <1>6, <1>7, FlattenFirst
<1>9. S[a] = P[a] /\ T[a] = Q[a]
    BY <1>1, <1>2, <1>3, Zenon
<1> QED
    BY <1>2, <1>3, <1>4, <1>5, <1>8, <1>9

LEMMA FlatLast ==
    ASSUME NEW X, NEW P \in [Positive -> Seq(X)], NEW Q \in [Positive -> Seq(X)],
           NEW n \in Nat, NEW m \in Nat, Ends(P, n), Ends(Q, m),
           NEW a \in Positive, LastOnly(P, Q, a)
    PROVE  SameFront(X, P[a], Q[a], Flat(P, n), Flat(Q, m))
<1>1. PICK b \in Nat : n <= b /\ m <= b /\ a \in 1..b
    BY Bound3
<1> DEFINE S == Row(P, b)
           T == Row(Q, b)
<1>2. S \in Seq(Seq(X)) /\ Len(S) = b /\ (\A id \in 1..b : S[id] = P[id]) /\ Flat(P, b) = FlattenSeq(S)
    BY <1>1, FlatShape, Zenon
<1>3. T \in Seq(Seq(X)) /\ Len(T) = b /\ (\A id \in 1..b : T[id] = Q[id]) /\ Flat(Q, b) = FlattenSeq(T)
    BY <1>1, FlatShape, Zenon
<1>4. Flat(P, b) = Flat(P, n)
    BY <1>1, FlatStretch
<1>5. Flat(Q, b) = Flat(Q, m)
    BY <1>1, FlatStretch
<1> HIDE DEF S, T
<1>6. TrailingChange(S, T, a)
    <2>1. \A i \in 1..b : i \in Positive
        BY DEF Positive
    <2> QED
        BY <1>2, <1>3, <2>1 DEF TrailingChange, LastOnly
<1>7. a \in 1..Len(S)
    BY <1>1, <1>2
<1>8. SameFront(X, S[a], T[a], FlattenSeq(S), FlattenSeq(T))
    <2>1. S \in Seq(Seq(X)) /\ T \in Seq(Seq(X))
        BY <1>2, <1>3, Zenon
    <2> QED
        BY <2>1, <1>6, <1>7, FlattenLast
<1>9. S[a] = P[a] /\ T[a] = Q[a]
    BY <1>1, <1>2, <1>3, Zenon
<1> QED
    BY <1>2, <1>3, <1>4, <1>5, <1>8, <1>9

\* One map, joined up to two places behind which it is blank.
LEMMA FlatSame ==
    ASSUME NEW X, NEW P \in [Positive -> Seq(X)], NEW n \in Nat, NEW m \in Nat, Ends(P, n), Ends(P, m)
    PROVE  Flat(P, n) = Flat(P, m)
<1>1. n <= m \/ m <= n
    OBVIOUS
<1> QED
    BY <1>1, FlatStretch

----------------------------------------------------------------------------
\* By segment: the records that a scan finds, the cells, and the cells that
\* recovery keeps; and each of them joined.
PartMap(fs, hf) == [id \in Positive |-> Part(fs, hf, id)]
Joined(fs, hf) == Flat(PartMap(fs, hf), NewestOf(fs))

CellsOf(fs, id) == IF id \in DOMAIN fs THEN fs[id] ELSE << >>
CellMap(fs) == [id \in Positive |-> CellsOf(fs, id)]
Used(fs) == Flat(CellMap(fs), NewestOf(fs))

KeptOf(fs, hf, id) ==
    IF id \in DOMAIN fs THEN Truncated(fs[id], ScanEnd(fs[id], From(hf, id))) ELSE << >>
KeptMap(fs, hf) == [id \in Positive |-> KeptOf(fs, hf, id)]
Kept(fs, hf) == Flat(KeptMap(fs, hf), NewestOf(fs))

LEMMA FromType == ASSUME NEW hf \in Nat \X Nat, NEW id PROVE From(hf, id) \in Nat
BY DEF From

LEMMA MapTypes ==
    ASSUME NEW fs, FilesTyped(fs), NEW hf \in Nat \X Nat
    PROVE  /\ NewestOf(fs) \in Nat
           /\ PartMap(fs, hf) \in [Positive -> Seq(Rec)] /\ Ends(PartMap(fs, hf), NewestOf(fs))
           /\ CellMap(fs) \in [Positive -> Seq(Cell)] /\ Ends(CellMap(fs), NewestOf(fs))
           /\ KeptMap(fs, hf) \in [Positive -> Seq(Cell)] /\ Ends(KeptMap(fs, hf), NewestOf(fs))
<1>1. NewestOf(fs) \in Nat /\ \A id \in DOMAIN fs : id <= NewestOf(fs)
    BY NewestFile
<1>2. ASSUME NEW id PROVE Part(fs, hf, id) \in Seq(Rec)
    BY PartsType
<1>3. << >> \in Seq(Cell)
    BY EmptySeq
<1>4. \A id \in DOMAIN fs : fs[id] \in Seq(Cell)
    BY DEF FilesTyped
<1>5. ASSUME NEW id PROVE CellsOf(fs, id) \in Seq(Cell)
    BY <1>3, <1>4 DEF CellsOf
<1>6. ASSUME NEW id PROVE KeptOf(fs, hf, id) \in Seq(Cell)
    <2>1. CASE id \in DOMAIN fs
        <3> DEFINE f == fs[id]
                   off == From(hf, id)
        <3>1. f \in Seq(Cell) /\ off \in Nat
            BY <1>4, <2>1, FromType
        <3> HIDE DEF f, off
        <3>2. ScanEnd(f, off) \in Nat
            BY <3>1, ScanEndType
        <3>3. Truncated(f, ScanEnd(f, off)) \in Seq(Cell)
            BY <3>1, <3>2, TruncatedCells
        <3> QED
            BY <2>1, <3>3 DEF KeptOf, f, off
    <2>2. CASE id \notin DOMAIN fs
        BY <1>3, <2>2 DEF KeptOf
    <2> QED
        BY <2>1, <2>2
<1>7. ASSUME NEW id \in Positive, id > NewestOf(fs)
      PROVE  Part(fs, hf, id) = << >> /\ CellsOf(fs, id) = << >> /\ KeptOf(fs, hf, id) = << >>
    <2>1. id \notin DOMAIN fs
        BY <1>1, <1>7 DEF Positive
    <2> QED
        BY <2>1 DEF Part, CellsOf, KeptOf
<1>8. PartMap(fs, hf) \in [Positive -> Seq(Rec)] /\ Ends(PartMap(fs, hf), NewestOf(fs))
    BY <1>2, <1>7 DEF PartMap, Ends
<1>9. CellMap(fs) \in [Positive -> Seq(Cell)] /\ Ends(CellMap(fs), NewestOf(fs))
    BY <1>5, <1>7 DEF CellMap, Ends
<1>10. KeptMap(fs, hf) \in [Positive -> Seq(Cell)] /\ Ends(KeptMap(fs, hf), NewestOf(fs))
    BY <1>6, <1>7 DEF KeptMap, Ends
<1> QED
    BY <1>1, <1>8, <1>9, <1>10

LEMMA JoinedType ==
    ASSUME NEW fs, FilesTyped(fs), NEW hf \in Nat \X Nat
    PROVE  /\ Joined(fs, hf) \in Seq(Rec) /\ Used(fs) \in Seq(Cell) /\ Kept(fs, hf) \in Seq(Cell)
           /\ Len(Joined(fs, hf)) \in Nat /\ Len(Used(fs)) \in Nat /\ Len(Kept(fs, hf)) \in Nat
<1>1. /\ NewestOf(fs) \in Nat
      /\ PartMap(fs, hf) \in [Positive -> Seq(Rec)]
      /\ CellMap(fs) \in [Positive -> Seq(Cell)]
      /\ KeptMap(fs, hf) \in [Positive -> Seq(Cell)]
    BY MapTypes
<1>2. Joined(fs, hf) \in Seq(Rec)
    BY <1>1, FlatShape DEF Joined
<1>3. Used(fs) \in Seq(Cell)
    BY <1>1, FlatShape DEF Used
<1>4. Kept(fs, hf) \in Seq(Cell)
    BY <1>1, FlatShape DEF Kept
<1> QED
    BY <1>2, <1>3, <1>4, LenProperties

LEMMA PartsJoined == ASSUME NEW fs, NEW hf PROVE FlattenSeq(Parts(fs, hf)) = Joined(fs, hf)
<1>1. Parts(fs, hf) = Row(PartMap(fs, hf), NewestOf(fs))
    <2> DEFINE n == NewestOf(fs)
    <2>1. 1..n \subseteq Positive
        BY DEF Positive
    <2> QED
        BY <2>1 DEF Parts, Row, PartMap
<1> QED
    BY <1>1 DEF Joined, Flat

LEMMA UnreadJoined == Unread = Joined(files, headFile) /\ Unread' = Joined(files', headFile')
<1>1. Unread' = FlattenSeq(Parts(files', headFile'))
    BY DEF Unread, Parts, Part, From, Start, NewestOf, Newest
<1> QED
    BY <1>1, UnreadIs, PartsJoined

LEMMA DiskUsedIs == DiskUsed = Len(Used(files))
<1> DEFINE n == NewestOf(files)
<1>1. 1..n \subseteq Positive
    BY DEF Positive
<1>2. [id \in 1..n |-> IF id \in DOMAIN files THEN files[id] ELSE << >>] = Row(CellMap(files), n)
    BY <1>1 DEF Row, CellMap, CellsOf
<1> QED
    BY <1>2 DEF DiskUsed, Newest, NewestOf, Used, Flat, Cells

\* The effect of a change to the first, or to the last segment.
LEMMA JoinedFirst ==
    ASSUME NEW fs, NEW gs, NEW hf \in Nat \X Nat, NEW hg \in Nat \X Nat,
           FilesTyped(fs), FilesTyped(gs), NEW a \in Positive,
           FirstOnly(PartMap(fs, hf), PartMap(gs, hg), a)
    PROVE  SameRest(Rec, Part(fs, hf, a), Part(gs, hg, a), Joined(fs, hf), Joined(gs, hg))
<1> DEFINE P == PartMap(fs, hf)
           Q == PartMap(gs, hg)
           n == NewestOf(fs)
           m == NewestOf(gs)
<1>1. n \in Nat /\ P \in [Positive -> Seq(Rec)] /\ Ends(P, n)
    BY MapTypes
<1>2. m \in Nat /\ Q \in [Positive -> Seq(Rec)] /\ Ends(Q, m)
    BY MapTypes
<1>3. P[a] = Part(fs, hf, a) /\ Q[a] = Part(gs, hg, a)
    BY DEF PartMap
<1> HIDE DEF P, Q, n, m
<1>4. SameRest(Rec, P[a], Q[a], Flat(P, n), Flat(Q, m))
    BY <1>1, <1>2, FlatFirst DEF P, Q
<1> QED
    BY <1>3, <1>4 DEF P, Q, n, m, Joined

LEMMA JoinedLast ==
    ASSUME NEW fs, NEW gs, NEW hf \in Nat \X Nat, NEW hg \in Nat \X Nat,
           FilesTyped(fs), FilesTyped(gs), NEW a \in Positive,
           LastOnly(PartMap(fs, hf), PartMap(gs, hg), a)
    PROVE  SameFront(Rec, Part(fs, hf, a), Part(gs, hg, a), Joined(fs, hf), Joined(gs, hg))
<1> DEFINE P == PartMap(fs, hf)
           Q == PartMap(gs, hg)
           n == NewestOf(fs)
           m == NewestOf(gs)
<1>1. n \in Nat /\ P \in [Positive -> Seq(Rec)] /\ Ends(P, n)
    BY MapTypes
<1>2. m \in Nat /\ Q \in [Positive -> Seq(Rec)] /\ Ends(Q, m)
    BY MapTypes
<1>3. P[a] = Part(fs, hf, a) /\ Q[a] = Part(gs, hg, a)
    BY DEF PartMap
<1> HIDE DEF P, Q, n, m
<1>4. SameFront(Rec, P[a], Q[a], Flat(P, n), Flat(Q, m))
    BY <1>1, <1>2, FlatLast DEF P, Q
<1> QED
    BY <1>3, <1>4 DEF P, Q, n, m, Joined

LEMMA UsedFirst ==
    ASSUME NEW fs, NEW gs, FilesTyped(fs), FilesTyped(gs), NEW a \in Positive,
           FirstOnly(CellMap(fs), CellMap(gs), a)
    PROVE  SameRest(Cell, CellsOf(fs, a), CellsOf(gs, a), Used(fs), Used(gs))
<1> DEFINE P == CellMap(fs)
           Q == CellMap(gs)
           n == NewestOf(fs)
           m == NewestOf(gs)
<1>0. <<0, 0>> \in Nat \X Nat
    OBVIOUS
<1>1. n \in Nat /\ P \in [Positive -> Seq(Cell)] /\ Ends(P, n)
    BY <1>0, MapTypes
<1>2. m \in Nat /\ Q \in [Positive -> Seq(Cell)] /\ Ends(Q, m)
    BY <1>0, MapTypes
<1>3. P[a] = CellsOf(fs, a) /\ Q[a] = CellsOf(gs, a)
    BY DEF CellMap
<1> HIDE DEF P, Q, n, m
<1>4. SameRest(Cell, P[a], Q[a], Flat(P, n), Flat(Q, m))
    BY <1>1, <1>2, FlatFirst DEF P, Q
<1> QED
    BY <1>3, <1>4 DEF P, Q, n, m, Used

LEMMA UsedLast ==
    ASSUME NEW fs, NEW gs, FilesTyped(fs), FilesTyped(gs), NEW a \in Positive,
           LastOnly(CellMap(fs), CellMap(gs), a)
    PROVE  SameFront(Cell, CellsOf(fs, a), CellsOf(gs, a), Used(fs), Used(gs))
<1> DEFINE P == CellMap(fs)
           Q == CellMap(gs)
           n == NewestOf(fs)
           m == NewestOf(gs)
<1>0. <<0, 0>> \in Nat \X Nat
    OBVIOUS
<1>1. n \in Nat /\ P \in [Positive -> Seq(Cell)] /\ Ends(P, n)
    BY <1>0, MapTypes
<1>2. m \in Nat /\ Q \in [Positive -> Seq(Cell)] /\ Ends(Q, m)
    BY <1>0, MapTypes
<1>3. P[a] = CellsOf(fs, a) /\ Q[a] = CellsOf(gs, a)
    BY DEF CellMap
<1> HIDE DEF P, Q, n, m
<1>4. SameFront(Cell, P[a], Q[a], Flat(P, n), Flat(Q, m))
    BY <1>1, <1>2, FlatLast DEF P, Q
<1> QED
    BY <1>3, <1>4 DEF P, Q, n, m, Used

LEMMA JoinedSame ==
    ASSUME NEW fs, NEW gs, NEW hf \in Nat \X Nat, NEW hg \in Nat \X Nat,
           FilesTyped(fs), FilesTyped(gs),
           \A id \in Positive : Part(fs, hf, id) = Part(gs, hg, id)
    PROVE  Joined(fs, hf) = Joined(gs, hg)
<1> DEFINE P == PartMap(fs, hf)
           Q == PartMap(gs, hg)
           n == NewestOf(fs)
           m == NewestOf(gs)
<1>1. n \in Nat /\ P \in [Positive -> Seq(Rec)] /\ Ends(P, n)
    BY MapTypes
<1>2. m \in Nat /\ Q \in [Positive -> Seq(Rec)] /\ Ends(Q, m)
    BY MapTypes
<1>3. \A id \in Positive : P[id] = Q[id]
    BY DEF PartMap
<1> HIDE DEF P, Q, n, m
<1>4. Flat(P, n) = Flat(Q, m)
    <2>1. P = Q
        BY <1>1, <1>2, <1>3
    <2>2. Ends(P, m)
        BY <1>2, <2>1
    <2> QED
        BY <1>1, <1>2, <2>1, <2>2, FlatSame
<1> QED
    BY <1>4 DEF P, Q, n, m, Joined

LEMMA KeptSame ==
    ASSUME NEW fs, NEW gs, NEW hf \in Nat \X Nat, NEW hg \in Nat \X Nat,
           FilesTyped(fs), FilesTyped(gs),
           \A id \in Positive : KeptOf(fs, hf, id) = KeptOf(gs, hg, id)
    PROVE  Kept(fs, hf) = Kept(gs, hg)
<1> DEFINE P == KeptMap(fs, hf)
           Q == KeptMap(gs, hg)
           n == NewestOf(fs)
           m == NewestOf(gs)
<1>1. n \in Nat /\ P \in [Positive -> Seq(Cell)] /\ Ends(P, n)
    BY MapTypes
<1>2. m \in Nat /\ Q \in [Positive -> Seq(Cell)] /\ Ends(Q, m)
    BY MapTypes
<1>3. \A id \in Positive : P[id] = Q[id]
    BY DEF KeptMap
<1> HIDE DEF P, Q, n, m
<1>4. Flat(P, n) = Flat(Q, m)
    <2>1. P = Q
        BY <1>1, <1>2, <1>3
    <2>2. Ends(P, m)
        BY <1>2, <2>1
    <2> QED
        BY <1>1, <1>2, <2>1, <2>2, FlatSame
<1> QED
    BY <1>4 DEF P, Q, n, m, Kept

\* Where recovery would cut nothing, it keeps every cell.
LEMMA KeptUsed ==
    ASSUME NEW fs, NEW hf \in Nat \X Nat, FilesTyped(fs),
           \A id \in Positive : KeptOf(fs, hf, id) = CellsOf(fs, id)
    PROVE  Kept(fs, hf) = Used(fs)
<1> DEFINE P == KeptMap(fs, hf)
           Q == CellMap(fs)
           n == NewestOf(fs)
<1>1. n \in Nat /\ P \in [Positive -> Seq(Cell)] /\ Ends(P, n)
    BY MapTypes
<1>2. Q \in [Positive -> Seq(Cell)] /\ Ends(Q, n)
    BY MapTypes
<1>3. \A id \in Positive : P[id] = Q[id]
    BY DEF KeptMap, CellMap
<1> HIDE DEF P, Q, n
<1>4. Flat(P, n) = Flat(Q, n)
    <2>1. P = Q
        BY <1>1, <1>2, <1>3
    <2>2. Ends(P, n)
        BY <1>2, <2>1
    <2> QED
        BY <1>1, <1>2, <2>1, <2>2, FlatSame
<1> QED
    BY <1>4 DEF P, Q, n, Kept, Used

LEMMA RestLen ==
    ASSUME NEW X, NEW x \in Seq(X), NEW y \in Seq(X), NEW u, NEW v, SameRest(X, x, y, u, v)
    PROVE  Len(u) \in Nat /\ Len(v) \in Nat /\ Len(v) = Len(u) - Len(x) + Len(y)
<1>1. PICK R \in Seq(X) : u = x \o R /\ v = y \o R
    BY DEF SameRest
<1>2. Len(x) \in Nat /\ Len(y) \in Nat /\ Len(R) \in Nat
    BY LenProperties
<1>3. Len(x \o R) = Len(x) + Len(R)
    BY ConcatProperties
<1>4. Len(y \o R) = Len(y) + Len(R)
    BY ConcatProperties
<1> QED
    BY <1>1, <1>2, <1>3, <1>4

LEMMA FrontLen ==
    ASSUME NEW X, NEW x \in Seq(X), NEW y \in Seq(X), NEW u, NEW v, SameFront(X, x, y, u, v)
    PROVE  Len(u) \in Nat /\ Len(v) \in Nat /\ Len(v) = Len(u) - Len(x) + Len(y)
<1>1. PICK L \in Seq(X) : u = L \o x /\ v = L \o y
    BY DEF SameFront
<1>2. Len(x) \in Nat /\ Len(y) \in Nat /\ Len(L) \in Nat
    BY LenProperties
<1>3. Len(L \o x) = Len(L) + Len(x)
    BY ConcatProperties
<1>4. Len(L \o y) = Len(L) + Len(y)
    BY ConcatProperties
<1> QED
    BY <1>1, <1>2, <1>3, <1>4

\* The newest file is replaced, or a newer one is added.
LEMMA PutLast ==
    ASSUME NEW fs, NEW gs, FilesTyped(fs), NEW t \in Positive, NEW g \in Seq(Cell), Put(gs, fs, t, g),
           \A id \in DOMAIN fs : id <= t, NEW hf \in Nat \X Nat, hf[1] <= t
    PROVE  /\ FilesTyped(gs)
           /\ SameFront(Rec, Part(fs, hf, t), Records(g, From(hf, t)), Joined(fs, hf), Joined(gs, hf))
           /\ SameFront(Cell, CellsOf(fs, t), g, Used(fs), Used(gs))
<1>1. FilesTyped(gs)
    BY PutTyped DEF Positive
<1>2. DOMAIN gs = DOMAIN fs \cup {t} /\ gs[t] = g /\ \A id \in DOMAIN fs : id # t => gs[id] = fs[id]
    BY DEF Put
<1>3. \A id \in Positive : /\ id < t => (id \in DOMAIN gs <=> id \in DOMAIN fs) /\ id # t
                           /\ id > t => id \notin DOMAIN gs /\ id \notin DOMAIN fs
    BY <1>2 DEF Positive
<1>4. \A id \in Positive : /\ id < t => Part(fs, hf, id) = Part(gs, hf, id) /\ CellsOf(fs, id) = CellsOf(gs, id)
                           /\ id > t => /\ Part(fs, hf, id) = << >> /\ Part(gs, hf, id) = << >>
                                        /\ CellsOf(fs, id) = << >> /\ CellsOf(gs, id) = << >>
    BY <1>2, <1>3 DEF Part, CellsOf
<1>5. LastOnly(PartMap(fs, hf), PartMap(gs, hf), t)
    BY <1>4 DEF LastOnly, PartMap
<1>6. LastOnly(CellMap(fs), CellMap(gs), t)
    BY <1>4 DEF LastOnly, CellMap
<1>7. SameFront(Rec, Part(fs, hf, t), Part(gs, hf, t), Joined(fs, hf), Joined(gs, hf))
    BY <1>1, <1>5, JoinedLast
<1>8. SameFront(Cell, CellsOf(fs, t), CellsOf(gs, t), Used(fs), Used(gs))
    BY <1>1, <1>6, UsedLast
<1>9. Part(gs, hf, t) = Records(g, From(hf, t)) /\ CellsOf(gs, t) = g
    <2>1. t >= hf[1] /\ t \in DOMAIN gs
        BY <1>2 DEF Positive
    <2> QED
        BY <1>2, <2>1 DEF Part, CellsOf
<1> QED
    BY <1>1, <1>7, <1>8, <1>9

\* The oldest file is removed.
LEMMA RemoveOldest ==
    ASSUME NEW fs, FilesTyped(fs), NEW a \in DOMAIN fs, \A id \in DOMAIN fs : a <= id,
           NEW hf \in Nat \X Nat, hf[1] <= a
    PROVE  /\ FilesTyped(Without(fs, a))
           /\ SameRest(Rec, Records(fs[a], From(hf, a)), << >>, Joined(fs, hf), Joined(Without(fs, a), hf))
           /\ SameRest(Cell, fs[a], << >>, Used(fs), Used(Without(fs, a)))
<1> DEFINE gs == Without(fs, a)
<1>0. a \in Positive /\ DOMAIN fs \subseteq Positive
    BY DEF FilesTyped, Positive
<1>1. DOMAIN gs = DOMAIN fs \ {a} /\ \A id \in DOMAIN gs : gs[id] = fs[id]
    BY DEF Without
<1> HIDE DEF gs
<1>2. FilesTyped(gs)
    BY <1>1 DEF FilesTyped
<1>3. \A id \in Positive : /\ id < a => id \notin DOMAIN gs /\ id \notin DOMAIN fs
                           /\ id > a => (id \in DOMAIN gs <=> id \in DOMAIN fs)
    BY <1>0, <1>1 DEF Positive
<1>4. \A id \in Positive : /\ id > a => Part(fs, hf, id) = Part(gs, hf, id) /\ CellsOf(fs, id) = CellsOf(gs, id)
                           /\ id < a => /\ Part(fs, hf, id) = << >> /\ Part(gs, hf, id) = << >>
                                        /\ CellsOf(fs, id) = << >> /\ CellsOf(gs, id) = << >>
    BY <1>1, <1>3 DEF Part, CellsOf
<1>5. FirstOnly(PartMap(fs, hf), PartMap(gs, hf), a)
    BY <1>4 DEF FirstOnly, PartMap
<1>6. FirstOnly(CellMap(fs), CellMap(gs), a)
    BY <1>4 DEF FirstOnly, CellMap
<1>7. SameRest(Rec, Part(fs, hf, a), Part(gs, hf, a), Joined(fs, hf), Joined(gs, hf))
    BY <1>0, <1>2, <1>5, JoinedFirst
<1>8. SameRest(Cell, CellsOf(fs, a), CellsOf(gs, a), Used(fs), Used(gs))
    BY <1>0, <1>2, <1>6, UsedFirst
<1>9. Part(fs, hf, a) = Records(fs[a], From(hf, a)) /\ CellsOf(fs, a) = fs[a]
    <2>1. a >= hf[1]
        BY <1>0 DEF Positive
    <2> QED
        BY <2>1 DEF Part, CellsOf
<1>10. Part(gs, hf, a) = << >> /\ CellsOf(gs, a) = << >>
    BY <1>1 DEF Part, CellsOf
<1> QED
    BY <1>2, <1>7, <1>8, <1>9, <1>10 DEF gs

\* The head file moves on, in the oldest file.
LEMMA MoveHead ==
    ASSUME NEW fs, FilesTyped(fs), NEW a \in DOMAIN fs, \A id \in DOMAIN fs : a <= id,
           NEW hf \in Nat \X Nat, hf[1] <= a, NEW off \in Nat
    PROVE  /\ SameRest(Rec, Records(fs[a], From(hf, a)), Records(fs[a], off),
                       Joined(fs, hf), Joined(fs, <<a, off>>))
           /\ From(<<a, off>>, a) = off /\ \A id \in DOMAIN fs : id # a => From(<<a, off>>, id) = From(hf, id)
<1> DEFINE hg == <<a, off>>
<1>0. a \in Positive /\ DOMAIN fs \subseteq Positive /\ a \in Nat
    BY DEF FilesTyped, Positive
<1>1. hg \in Nat \X Nat /\ hg[1] = a /\ hg[2] = off
    BY <1>0
<1> HIDE DEF hg
<1>2. \A id \in DOMAIN fs : id # a => /\ From(hg, id) = 0 /\ From(hf, id) = 0
                                      /\ id >= hg[1] /\ id >= hf[1]
    BY <1>0, <1>1 DEF From, Positive
<1>3. \A id \in Positive : /\ id < a => id \notin DOMAIN fs
                           /\ id > a => id # a
    BY <1>0 DEF Positive
<1>4. \A id \in Positive : /\ id < a => Part(fs, hf, id) = << >> /\ Part(fs, hg, id) = << >>
                           /\ id > a => Part(fs, hf, id) = Part(fs, hg, id)
    BY <1>2, <1>3 DEF Part
<1>5. FirstOnly(PartMap(fs, hf), PartMap(fs, hg), a)
    BY <1>4 DEF FirstOnly, PartMap
<1>6. SameRest(Rec, Part(fs, hf, a), Part(fs, hg, a), Joined(fs, hf), Joined(fs, hg))
    BY <1>0, <1>1, <1>5, JoinedFirst
<1>7. From(hg, a) = off
    BY <1>1 DEF From
<1>8. Part(fs, hf, a) = Records(fs[a], From(hf, a)) /\ Part(fs, hg, a) = Records(fs[a], off)
    <2>1. a >= hf[1] /\ a >= hg[1]
        BY <1>0, <1>1 DEF Positive
    <2> QED
        BY <1>7, <2>1 DEF Part
<1>9. \A id \in DOMAIN fs : id # a => From(hg, id) = From(hf, id)
    BY <1>2
<1> QED
    BY <1>6, <1>7, <1>8, <1>9 DEF hg

----------------------------------------------------------------------------
\* What holds until a call fails.

\* Where the unread part of the i-th segment starts.
Offset(i, ho) == IF i = 1 THEN ho ELSE 0

\* A segment in memory describes its file, which ends with a whole record.
SoundSeg(f, off, s) == Whole(f, off) /\ s.size = Len(f) /\ s.records = Len(Records(f, off))

Sound(fs, ss, ho) == \A i \in 1..Len(ss) : SoundSeg(fs[ss[i].id], Offset(i, ho), ss[i])

\* The head file says where this process reads on.
Located(hf, ss, ho) == \A i \in 1..Len(ss) : From(hf, ss[i].id) = Offset(i, ho)

\* No id is missing between two files.
Contiguous(D) == \A a, b \in D : \A c \in Nat : a <= c /\ c <= b => c \in D

Counted(fs, hf, c, b) == c = Len(Joined(fs, hf)) /\ b = Len(Used(fs))

\* The files recovery is done with.
Minus(fs, td) == [id \in DOMAIN fs \ td |-> fs[id]]

\* The only segment has been emptied, and the head file still points into it.
Emptied ==
    pc = "ack_head" /\ Len(segments) = 1 /\ files[segments[1].id] = << >> /\ headOff = 0

StateInv ==
    /\ Contiguous(DOMAIN files)
    /\ pc # "recover" => todo = {}
    /\ pc \in {"down", "recover"} => peeked = None
    /\ pc = "down" => count = 0 /\ bytes = 0
    /\ segments = << >> => headOff = 0
    /\ Sound(files, segments, headOff)
    /\ Located(headFile, segments, headOff) \/ Emptied
    /\ pc = "recover" => Counted(Minus(files, todo), headFile, count, bytes)
    /\ pc \notin {"down", "recover"} => Counted(files, headFile, count, bytes)
    /\ peeked # None => /\ ValidAt(files[segments[1].id], headOff)
                        /\ RecordAt(files[segments[1].id], headOff) = peeked
    /\ pc \in {"idle", "ack_head"} => ~OverBudget

\* No call fails in this step.
Clean == faults \in Seq(Faults) /\ faults' = faults

LEMMA CleanCalls == ASSUME Clean, NEW kind, Fails(kind) PROVE FALSE
<1> DEFINE s == faults
<1>1. s \in Seq(Faults) /\ kind \in Faults /\ Append(s, kind) = s
    BY DEF Clean, Fails
<1> HIDE DEF s
<1>2. Len(Append(s, kind)) = Len(s) + 1 /\ Len(s) \in Nat
    BY <1>1
<1> QED
    BY <1>1, <1>2

\* The records are small enough for the reader.
RecordsFit == \A k \in Sizes : k <= MaxRecord

\* A running process: its first segment is the oldest file, and so on.
LEMMA Running ==
    ASSUME DiskInv, CellsInv, StateInv, pc \notin {"down", "recover"}
    PROVE  /\ Len(segments) \in Nat /\ Len(segments) >= 1 /\ 1 \in 1..Len(segments)
           /\ segments[1].id \in DOMAIN files /\ segments[1].id \in Positive /\ DOMAIN files \subseteq Positive
           /\ \A id \in DOMAIN files : segments[1].id <= id
           /\ headFile[1] <= segments[1].id /\ headFile \in Nat \X Nat /\ headOff \in Nat
           /\ FilesTyped(files) /\ files[segments[1].id] \in Seq(Cell)
           /\ SoundSeg(files[segments[1].id], headOff, segments[1])
           /\ Counted(files, headFile, count, bytes)
<1>1. /\ Len(segments) \in Nat /\ Len(segments) >= 1
      /\ DOMAIN files \subseteq Nat \ {0}
      /\ \A i \in 1..Len(segments) : segments[i].id \in DOMAIN files
      /\ \A id \in DOMAIN files : segments[1].id <= id
      /\ HeadInv
    BY OldestFirst
<1>2. 1 \in 1..Len(segments) /\ segments[1].id \in DOMAIN files /\ segments[1].id \in Positive
      /\ DOMAIN files \subseteq Positive
    BY <1>1 DEF Positive
<1>3. headFile[1] <= segments[1].id
    BY <1>1, <1>2 DEF HeadInv
<1>4. FilesTyped(files) /\ headFile \in Nat \X Nat /\ headOff \in Nat /\ files[segments[1].id] \in Seq(Cell)
    BY <1>2, CellsFacts
<1>5. SoundSeg(files[segments[1].id], headOff, segments[1])
    BY <1>2 DEF StateInv, Sound, Offset
<1>6. Counted(files, headFile, count, bytes)
    BY DEF StateInv
<1> QED
    BY <1>1, <1>2, <1>3, <1>4, <1>5, <1>6

\* Between operations the head file points at the record to read next.
LEMMA RunningLocated ==
    ASSUME DiskInv, CellsInv, StateInv, pc \notin {"down", "recover"}, pc # "ack_head"
    PROVE  /\ Located(headFile, segments, headOff)
           /\ From(headFile, segments[1].id) = headOff
<1>1. Located(headFile, segments, headOff)
    BY DEF StateInv, Emptied
<1>2. 1 \in 1..Len(segments)
    BY Running
<1> QED
    BY <1>1, <1>2 DEF Located, Offset

\* StateInv of a running process.
LEMMA StateRunning ==
    ASSUME pc' \notin {"down", "recover"}, segments' # << >>,
           Contiguous(DOMAIN files'), todo' = {}, Sound(files', segments', headOff'),
           Located(headFile', segments', headOff') \/ Emptied',
           Counted(files', headFile', count', bytes'),
           peeked' = None \/ (/\ ValidAt(files'[segments'[1].id], headOff')
                              /\ RecordAt(files'[segments'[1].id], headOff') = peeked'),
           pc' \in {"idle", "ack_head"} => ~OverBudget'
    PROVE  StateInv'
BY DEF StateInv

LEMMA StateExit ==
    ASSUME Contiguous(DOMAIN files'), Exit
    PROVE  StateInv'
<1>1. /\ segments' = << >> /\ headOff' = 0 /\ count' = 0 /\ bytes' = 0 /\ peeked' = None /\ todo' = {}
      /\ pc' = "down"
    BY DEF Exit
<1>2. 1..Len(segments') = {}
    BY <1>1
<1>3. Sound(files', segments', headOff') /\ Located(headFile', segments', headOff')
    BY <1>2 DEF Sound, Located
<1> QED
    BY <1>1, <1>3 DEF StateInv

----------------------------------------------------------------------------
\* Removing the oldest segment.
LEMMA ContiguousRemove ==
    ASSUME NEW D, D \subseteq Nat, Contiguous(D), NEW a \in D, \A id \in D : a <= id
    PROVE  Contiguous(D \ {a})
<1> SUFFICES ASSUME NEW x \in D \ {a}, NEW y \in D \ {a}, NEW c \in Nat, x <= c, c <= y
             PROVE  c \in D \ {a}
    BY DEF Contiguous
<1>1. c \in D
    BY DEF Contiguous
<1>2. x # a /\ a <= x /\ x \in Nat /\ a \in Nat
    OBVIOUS
<1> QED
    BY <1>1, <1>2

LEMMA SoundRemove ==
    ASSUME NEW fs, NEW ss, NEW ho, NEW hf, Shaped(ss), Increasing(ss), Len(ss) > 1,
           Sound(fs, ss, ho), Located(hf, ss, ho), \A i \in 1..Len(ss) : ss[i].id \in DOMAIN fs
    PROVE  Sound(Without(fs, ss[1].id), Tail(ss), 0) /\ Located(hf, Tail(ss), 0)
<1> DEFINE u == Tail(ss)
           a == ss[1].id
           gs == Without(fs, a)
<1>1. PICK X : ss \in Seq(Seg(X))
    BY DEF Shaped
<1>2. Len(ss) \in Nat /\ \A i \in 1..Len(ss) : ss[i].id \in Nat
    BY Shape
<1>3. Len(u) = Len(ss) - 1 /\ \A i \in 1..Len(u) : u[i] = ss[i + 1]
    <2>1. ss # << >>
        BY <1>1, EmptySeq
    <2> QED
        BY <1>1, <2>1, HeadTailProperties
<1>4. DOMAIN gs = DOMAIN fs \ {a} /\ \A id \in DOMAIN gs : gs[id] = fs[id]
    BY DEF Without
<1> HIDE DEF u, gs
<1>5. ASSUME NEW i \in 1..Len(u)
      PROVE  /\ i + 1 \in 1..Len(ss) /\ Offset(i + 1, ho) = 0 /\ Offset(i, 0) = 0
             /\ gs[u[i].id] = fs[ss[i + 1].id]
    <2>1. i + 1 \in 1..Len(ss) /\ i + 1 # 1 /\ 1 \in 1..Len(ss) /\ 1 < i + 1
        BY <1>2, <1>3
    <2>2. ss[1].id < ss[i + 1].id
        BY <2>1 DEF Increasing
    <2>3. ss[i + 1].id \in DOMAIN gs
        BY <1>2, <1>4, <2>1, <2>2
    <2> QED
        BY <1>3, <1>4, <2>1, <2>3 DEF Offset
<1>6. Sound(gs, u, 0)
    BY <1>3, <1>5 DEF Sound
<1>7. Located(hf, u, 0)
    BY <1>3, <1>5 DEF Located
<1> QED
    BY <1>6, <1>7 DEF u, gs

LEMMA DropState ==
    ASSUME DiskInv, CellsInv, StateInv, Clean, pc \in {"idle", "bound", "open_bound"}, Len(segments) > 1,
           NEW rec, NEW next \in {"bound_head", "open_head", "ack_head"}, dropHead(rec, next),
           next = "ack_head" => pc = "idle"
    PROVE  /\ StateInv'
           /\ headFile' = headFile /\ pushed' = pushed /\ accepted' = accepted
           /\ files' = Without(files, segments[1].id)
           /\ SameRest(Rec, Records(files[segments[1].id], headOff), << >>, Unread, Unread')
<1> DEFINE a == segments[1].id
           fs == files
           gs == Without(fs, a)
           hf == headFile
<1>1. /\ Len(segments) \in Nat /\ Len(segments) >= 1
      /\ a \in DOMAIN fs /\ DOMAIN fs \subseteq Positive /\ \A id \in DOMAIN fs : a <= id
      /\ hf[1] <= a /\ hf \in Nat \X Nat /\ headOff \in Nat /\ FilesTyped(fs) /\ fs[a] \in Seq(Cell)
      /\ SoundSeg(fs[a], headOff, segments[1]) /\ Counted(fs, hf, count, bytes)
    BY Running
<1>2. Located(hf, segments, headOff) /\ From(hf, a) = headOff
    BY RunningLocated
<1>3. /\ files' = gs /\ segments' = Tail(segments) /\ pc' = next
      /\ headOff' = 0 /\ peeked' = None /\ headFile' = hf /\ todo' = todo
      /\ pushed' = pushed /\ accepted' = accepted
      /\ \E acked \in {0, 1} : count' = count - acked - (segments[1].records - acked)
      /\ bytes' = bytes - segments[1].size
    <2>1. ~Fails("remove")
        BY CleanCalls
    <2> QED
        BY <2>1 DEF dropHead, unpeek
<1>4. todo = {}
    BY DEF StateInv
<1>5. /\ SoundSeg(fs[a], headOff, segments[1])
      /\ Records(fs[a], headOff) \in Seq(Rec) /\ Len(Records(fs[a], headOff)) \in Nat /\ Len(fs[a]) \in Nat
    <2>1. Records(fs[a], headOff) \in Seq(Rec)
        BY <1>1, RecordsType
    <2> QED
        BY <1>1, <2>1, LenProperties
<1>6. segments[1].records = Len(Records(fs[a], headOff)) /\ segments[1].size = Len(fs[a])
    BY <1>1 DEF SoundSeg
<1>7. /\ FilesTyped(gs)
      /\ SameRest(Rec, Records(fs[a], headOff), << >>, Joined(fs, hf), Joined(gs, hf))
      /\ SameRest(Cell, fs[a], << >>, Used(fs), Used(gs))
    BY <1>1, <1>2, RemoveOldest
<1>8. << >> \in Seq(Rec) /\ << >> \in Seq(Cell) /\ Len(<< >>) = 0
    BY EmptySeq
<1> HIDE DEF gs
<1> DEFINE x == Records(fs[a], headOff)
           e == << >>
           u == Joined(fs, hf)
           v == Joined(gs, hf)
           w == Used(fs)
           z == Used(gs)
           c == fs[a]
<1> HIDE DEF x, e, u, v, w, z, c
<1>9. Len(u) \in Nat /\ Len(v) \in Nat /\ Len(v) = Len(u) - Len(x) + Len(e)
    <2>1. x \in Seq(Rec) /\ e \in Seq(Rec) /\ SameRest(Rec, x, e, u, v)
        BY <1>5, <1>7, <1>8 DEF x, e, u, v
    <2> QED
        BY <2>1, RestLen
<1>10. Len(w) \in Nat /\ Len(z) \in Nat /\ Len(z) = Len(w) - Len(c) + Len(e)
    <2>1. c \in Seq(Cell) /\ e \in Seq(Cell) /\ SameRest(Cell, c, e, w, z)
        BY <1>1, <1>7, <1>8 DEF c, e, w, z
    <2> QED
        BY <2>1, RestLen
<1>100. Len(e) = 0
    BY <1>8 DEF e
<1>11. Counted(gs, hf, count', bytes')
    <2>1. count = Len(u) /\ bytes = Len(w)
        BY <1>1 DEF Counted, u, w
    <2>2. segments[1].records = Len(x) /\ segments[1].size = Len(c) /\ Len(x) \in Nat /\ Len(c) \in Nat
        BY <1>5, <1>6 DEF x, c
    <2>3. count' = Len(v)
        BY <1>3, <1>9, <1>100, <2>1, <2>2
    <2>4. bytes' = Len(z)
        BY <1>3, <1>10, <1>100, <2>1, <2>2
    <2> QED
        BY <2>3, <2>4 DEF Counted, v, z
<1>12. Shaped(segments) /\ Increasing(segments) /\ \A i \in 1..Len(segments) : segments[i].id \in DOMAIN fs
    BY OldestFirst
<1>13. Sound(gs, Tail(segments), 0) /\ Located(hf, Tail(segments), 0)
    BY <1>2, <1>12, SoundRemove DEF StateInv, gs
<1>14. Contiguous(DOMAIN gs)
    <2>1. DOMAIN gs = DOMAIN fs \ {a}
        BY DEF gs, Without
    <2>2. Contiguous(DOMAIN fs) /\ DOMAIN fs \subseteq Nat
        BY <1>1 DEF StateInv, Positive
    <2> QED
        BY <1>1, <2>1, <2>2, ContiguousRemove
<1>15. Tail(segments) # << >>
    BY <1>12, TailSegments
<1>16. pc' \in {"idle", "ack_head"} => ~OverBudget'
    <2> SUFFICES ASSUME next = "ack_head" PROVE ~(bytes' > MaxBytes)
        BY <1>3 DEF OverBudget
    <2>1. ~OverBudget
        BY DEF StateInv
    <2>2. bytes \in Nat /\ ~(bytes > MaxBytes)
        BY <1>1, <1>10, <2>1 DEF OverBudget, Counted, w
    <2> QED
        BY <1>3, <1>5, <1>6, <2>2, DiskQueueAssumption
<1>17. StateInv'
    <2>1. files' = gs
        BY <1>3 DEF gs
    <2>2. pc' \notin {"down", "recover"} /\ segments' # << >> /\ todo' = {}
        BY <1>3, <1>4, <1>15
    <2>3. /\ Contiguous(DOMAIN files') /\ Sound(files', segments', headOff')
          /\ Located(headFile', segments', headOff') /\ Counted(files', headFile', count', bytes')
        BY <1>3, <1>11, <1>13, <1>14, <2>1
    <2>4. peeked' = None
        BY <1>3
    <2> QED
        BY <1>16, <2>2, <2>3, <2>4, StateRunning, Zenon
<1>18. SameRest(Rec, Records(fs[a], headOff), << >>, Unread, Unread')
    <2>1. Unread = Joined(fs, hf)
        BY UnreadJoined
    <2>2. Unread' = Joined(files', headFile')
        BY UnreadJoined
    <2>3. Unread' = Joined(gs, hf)
        BY <1>3, <2>2 DEF gs
    <2> QED
        BY <1>7, <2>1, <2>3
<1>19. files' = Without(files, segments[1].id)
    BY <1>3 DEF gs
<1> QED
    BY <1>3, <1>17, <1>18, <1>19

----------------------------------------------------------------------------
\* Emptying the only segment.
LEMMA EmptyScan ==
    /\ \A off \in Nat : Records(<< >>, off) = << >> /\ ScanEnd(<< >>, off) = off
    /\ Whole(<< >>, 0) /\ << >> \in Seq(Cell) /\ << >> \in Seq(Rec) /\ Len(<< >>) = 0
<1> DEFINE f == << >>
<1>1. f \in Seq(Cell) /\ f \in Seq(Rec) /\ Len(f) = 0
    BY EmptySeq
<1> HIDE DEF f
<1>2. \A off \in Nat : ~ValidAt(f, off)
    BY <1>1 DEF ValidAt
<1>3. \A off \in Nat : Records(f, off) = << >> /\ ScanEnd(f, off) = off
    BY <1>1, <1>2, ScanNil
<1>4. Whole(f, 0)
    BY <1>1, <1>3 DEF Whole
<1> QED
    BY <1>1, <1>3, <1>4 DEF f

LEMMA FlatBlank ==
    ASSUME NEW X, NEW P \in [Positive -> Seq(X)], NEW n \in Nat, \A id \in Positive : P[id] = << >>
    PROVE  Flat(P, n) = << >>
<1>1. /\ Row(P, n) \in Seq(Seq(X)) /\ Len(Row(P, n)) = n
      /\ \A id \in 1..n : Row(P, n)[id] = P[id]
      /\ Flat(P, n) = FlattenSeq(Row(P, n))
    BY FlatShape, Zenon
<1>2. \A id \in 1..n : id \in Positive
    BY DEF Positive
<1>3. Blank(Row(P, n))
    BY <1>1, <1>2 DEF Blank
<1> QED
    BY <1>1, <1>3, FlattenBlank

LEMMA JoinedBlank ==
    ASSUME NEW fs, FilesTyped(fs), NEW hf \in Nat \X Nat, \A id \in DOMAIN fs : fs[id] = << >>
    PROVE  Joined(fs, hf) = << >> /\ Used(fs) = << >>
<1>1. \A id : Part(fs, hf, id) = << >>
    <2>1. \A id : From(hf, id) \in Nat
        BY FromType
    <2> QED
        BY <2>1, EmptyScan DEF Part
<1>2. \A id : CellsOf(fs, id) = << >>
    BY DEF CellsOf
<1>3. /\ NewestOf(fs) \in Nat
      /\ PartMap(fs, hf) \in [Positive -> Seq(Rec)] /\ CellMap(fs) \in [Positive -> Seq(Cell)]
    BY MapTypes
<1>4. \A id \in Positive : PartMap(fs, hf)[id] = << >> /\ CellMap(fs)[id] = << >>
    BY <1>1, <1>2 DEF PartMap, CellMap
<1>5. Joined(fs, hf) = << >>
    BY <1>3, <1>4, FlatBlank DEF Joined
<1>6. Used(fs) = << >>
    BY <1>3, <1>4, FlatBlank DEF Used
<1> QED
    BY <1>5, <1>6

LEMMA EmptyOldest ==
    ASSUME NEW fs, NEW gs, FilesTyped(fs), NEW a \in DOMAIN fs, \A id \in DOMAIN fs : a <= id,
           NEW hf \in Nat \X Nat, hf[1] <= a, Put(gs, fs, a, << >>)
    PROVE  /\ FilesTyped(gs)
           /\ SameRest(Rec, Records(fs[a], From(hf, a)), << >>, Joined(fs, hf), Joined(gs, hf))
<1>0. a \in Positive /\ a \in Nat \ {0} /\ DOMAIN fs \subseteq Positive
    BY DEF FilesTyped, Positive
<1>1. DOMAIN gs = DOMAIN fs /\ gs[a] = << >> /\ \A id \in DOMAIN fs : id # a => gs[id] = fs[id]
    BY DEF Put
<1>2. FilesTyped(gs)
    BY <1>0, EmptyScan, PutTyped
<1>3. \A id \in Positive : /\ id < a => id \notin DOMAIN fs
                           /\ id > a => id # a
    BY <1>0 DEF Positive
<1>4. \A id \in Positive : /\ id > a => Part(fs, hf, id) = Part(gs, hf, id)
                           /\ id < a => Part(fs, hf, id) = << >> /\ Part(gs, hf, id) = << >>
    BY <1>1, <1>3 DEF Part
<1>5. FirstOnly(PartMap(fs, hf), PartMap(gs, hf), a)
    BY <1>4 DEF FirstOnly, PartMap
<1>6. SameRest(Rec, Part(fs, hf, a), Part(gs, hf, a), Joined(fs, hf), Joined(gs, hf))
    BY <1>0, <1>2, <1>5, JoinedFirst
<1>7. Part(fs, hf, a) = Records(fs[a], From(hf, a)) /\ Part(gs, hf, a) = << >>
    <2>1. a >= hf[1] /\ From(hf, a) \in Nat
        BY <1>0, FromType DEF Positive
    <2> QED
        BY <1>1, <2>1, EmptyScan DEF Part
<1> QED
    BY <1>2, <1>6, <1>7

LEMMA ResetState ==
    ASSUME DiskInv, CellsInv, StateInv, Clean, pc = "idle", ~(Len(segments) > 1), NEW rec, resetOnly(rec)
    PROVE  /\ StateInv'
           /\ headFile' = headFile /\ pushed' = pushed /\ accepted' = accepted
           /\ files' = [files EXCEPT ![segments[1].id] = << >>]
           /\ SameRest(Rec, Records(files[segments[1].id], headOff), << >>, Unread, Unread')
<1> DEFINE a == segments[1].id
           fs == files
           gs == [fs EXCEPT ![a] = << >>]
           hf == headFile
           s == [id |-> a, size |-> 0, records |-> 0]
<1>1. /\ Len(segments) \in Nat /\ Len(segments) >= 1
      /\ a \in DOMAIN fs /\ DOMAIN fs \subseteq Positive /\ \A id \in DOMAIN fs : a <= id
      /\ hf[1] <= a /\ hf \in Nat \X Nat /\ headOff \in Nat /\ FilesTyped(fs) /\ fs[a] \in Seq(Cell)
    BY Running
<1>2. From(hf, a) = headOff
    BY RunningLocated
<1>3. /\ files' = gs /\ segments' = <<s>> /\ pc' = "ack_head"
      /\ headOff' = 0 /\ peeked' = None /\ headFile' = hf /\ todo' = todo
      /\ pushed' = pushed /\ accepted' = accepted /\ count' = 0 /\ bytes' = 0
    <2>1. ~Fails("truncate")
        BY CleanCalls
    <2>2. peeked' = None /\ headFile' = hf /\ todo' = todo /\ pushed' = pushed /\ accepted' = accepted
        BY DEF resetOnly
    <2>3. files' = gs /\ segments' = <<s>> /\ headOff' = 0 /\ bytes' = 0 /\ count' = 0 /\ resetHead
        BY <2>1, Zenon DEF resetOnly
    <2> QED
        BY <2>2, <2>3 DEF resetHead
<1>4. todo = {} /\ Contiguous(DOMAIN fs)
    BY DEF StateInv
<1>5. DOMAIN gs = DOMAIN fs /\ gs[a] = << >> /\ Put(gs, fs, a, << >>)
    BY <1>1 DEF Put
<1> HIDE DEF gs
<1>6. /\ FilesTyped(gs)
      /\ SameRest(Rec, Records(fs[a], headOff), << >>, Joined(fs, hf), Joined(gs, hf))
    BY <1>1, <1>2, <1>5, EmptyOldest
<1>7. DOMAIN fs = {a}
    <2>1. Shaped(segments) /\ DOMAIN fs = SegIds(segments)
        BY OldestFirst
    <2>2. Len(segments) = 1
        <3> DEFINE n == Len(segments)
        <3>1. n \in Nat /\ n >= 1 /\ ~(n > 1)
            BY <1>1
        <3> HIDE DEF n
        <3>2. n = 1
            BY <3>1
        <3> QED
            BY <3>2 DEF n
    <2> QED
        BY <2>1, <2>2 DEF SegIds
<1>8. Joined(gs, hf) = << >> /\ Used(gs) = << >>
    BY <1>1, <1>5, <1>6, <1>7, JoinedBlank
<1>9. Counted(gs, hf, 0, 0)
    BY <1>8, EmptyScan DEF Counted
<1>10. Len(<<s>>) = 1 /\ <<s>>[1] = s /\ s.id = a /\ s.size = 0 /\ s.records = 0 /\ <<s>> # << >>
    OBVIOUS
<1> HIDE DEF s
<1>11. Sound(gs, <<s>>, 0)
    <2>1. SoundSeg(<< >>, 0, s)
        BY <1>10, EmptyScan DEF SoundSeg
    <2>2. \A i \in 1..1 : i = 1
        OBVIOUS
    <2> QED
        BY <1>5, <1>10, <2>1, <2>2 DEF Sound, Offset
<1>12. Emptied'
    BY <1>3, <1>5, <1>10 DEF Emptied
<1>13. ~OverBudget'
    BY <1>3, <1>10 DEF OverBudget
<1>14. StateInv'
    <2>1. pc' \notin {"down", "recover"} /\ segments' # << >> /\ todo' = {} /\ peeked' = None
        BY <1>3, <1>4, <1>10
    <2>2. /\ Contiguous(DOMAIN files') /\ Sound(files', segments', headOff')
          /\ Counted(files', headFile', count', bytes')
        BY <1>3, <1>4, <1>5, <1>9, <1>11
    <2> QED
        BY <1>12, <1>13, <2>1, <2>2, StateRunning, Zenon
<1>15. Unread = Joined(fs, hf) /\ Unread' = Joined(gs, hf)
    BY <1>3, UnreadJoined
<1>16. SameRest(Rec, Records(fs[a], headOff), << >>, Unread, Unread')
    BY <1>6, <1>15
<1>17. files' = [files EXCEPT ![segments[1].id] = << >>]
    BY <1>3 DEF gs
<1> QED
    BY <1>3, <1>14, <1>16, <1>17

----------------------------------------------------------------------------
\* Acknowledging the oldest record.
LEMMA HeadIs ==
    ASSUME DiskInv, CellsInv, StateInv, pc = "idle"
    PROVE  LET f == files[segments[1].id]
           IN /\ Readable <=> ValidAt(f, headOff)
              /\ Readable => HeadRecord = RecordAt(f, headOff)
<1>1. HeadCells = files[segments[1].id]
    BY HeadFacts
<1> QED
    BY <1>1 DEF Readable, HeadRecord, StateInv

LEMMA RestTail ==
    ASSUME NEW X, NEW x \in Seq(X), x # << >>, NEW u, NEW v, SameRest(X, x, Tail(x), u, v)
    PROVE  u # << >> /\ v = Tail(u) /\ Head(u) = Head(x)
<1> DEFINE t == Tail(x)
           n == Len(x)
<1>1. PICK R \in Seq(X) : u = x \o R /\ v = t \o R
    BY DEF SameRest
<1>2. /\ t \in Seq(X) /\ Len(t) = n - 1 /\ (\A i \in 1..Len(t) : t[i] = x[i + 1]) /\ Head(x) = x[1]
    <2>1. Head(x) = x[1]
        BY DEF Head
    <2> QED
        BY <2>1, HeadTailProperties
<1> DEFINE m == Len(R)
<1>3. n \in Nat /\ n > 0 /\ m \in Nat
    BY EmptySeq
<1> HIDE DEF t
<1>4. u \in Seq(X) /\ Len(u) = n + m /\ \A i \in 1..(n + m) : u[i] = IF i <= n THEN x[i] ELSE R[i - n]
    BY <1>1, ConcatProperties
<1>5. v \in Seq(X) /\ Len(v) = (n - 1) + m
      /\ \A i \in 1..((n - 1) + m) : v[i] = IF i <= n - 1 THEN t[i] ELSE R[i - (n - 1)]
    <2>1. /\ t \o R \in Seq(X) /\ Len(t \o R) = Len(t) + m
          /\ \A i \in 1..(Len(t) + m) : (t \o R)[i] = IF i <= Len(t) THEN t[i] ELSE R[i - Len(t)]
        BY <1>2, ConcatProperties
    <2> QED
        BY <1>1, <1>2, <2>1
<1> HIDE DEF n, m
<1>6. u # << >> /\ 1 \in 1..(n + m)
    BY <1>3, <1>4, EmptySeq
<1> DEFINE w == Tail(u)
<1>7. w \in Seq(X) /\ Len(w) = (n + m) - 1 /\ \A i \in 1..Len(w) : w[i] = u[i + 1]
    BY <1>4, <1>6, HeadTailProperties
<1> HIDE DEF w
<1>8. ASSUME NEW i \in 1..Len(v) PROVE v[i] = w[i]
    <2>1. i \in 1..Len(w) /\ i + 1 \in 1..(n + m) /\ i \in 1..((n - 1) + m)
        BY <1>3, <1>5, <1>7
    <2>2. w[i] = u[i + 1]
        BY <1>7, <2>1
    <2>3. CASE i <= n - 1
        <3>1. i + 1 <= n /\ i \in 1..Len(t)
            BY <1>2, <1>3, <2>1, <2>3 DEF n
        <3> QED
            BY <1>2, <1>4, <1>5, <2>1, <2>2, <2>3, <3>1
    <2>4. CASE ~(i <= n - 1)
        <3>1. ~(i + 1 <= n) /\ (i + 1) - n = i - (n - 1)
            BY <1>3, <2>1, <2>4
        <3> QED
            BY <1>4, <1>5, <2>1, <2>2, <2>4, <3>1
    <2> QED
        BY <2>3, <2>4
<1>9. v = w
    <2>1. Len(v) = Len(w)
        BY <1>3, <1>5, <1>7
    <2> QED
        BY <1>5, <1>7, <1>8, <2>1, SeqEqual
<1>10. Head(u) = Head(x)
    <2>1. Head(u) = u[1]
        BY DEF Head
    <2> QED
        BY <1>2, <1>3, <1>4, <1>6, <2>1
<1> QED
    BY <1>6, <1>9, <1>10 DEF w

LEMMA FewerRecords ==
    ASSUME NEW s, Shaped(s), Len(s) >= 1, NEW x
    PROVE  LET u == [s EXCEPT ![1].records = x]
           IN /\ Len(u) = Len(s) /\ u # << >>
              /\ u[1].id = s[1].id /\ u[1].size = s[1].size /\ u[1].records = x
              /\ \A i \in 1..Len(s) : i # 1 => u[i] = s[i]
              /\ \A i \in 1..Len(s) : u[i].id = s[i].id
<1> DEFINE u == [s EXCEPT ![1].records = x]
<1>1. /\ Len(s) \in Nat /\ DOMAIN s = 1..Len(s) /\ 1 \in 1..Len(s)
      /\ \A i \in 1..Len(s) : DOMAIN s[i] = {"id", "size", "records"}
    BY Shape
<1>2. Relabelled(u, s)
    BY <1>1, UpdateRecords, Zenon
<1>3. Len(u) = Len(s) /\ \A i \in 1..Len(s) : u[i].id = s[i].id
    BY <1>2 DEF Relabelled
<1>4. u # << >>
    <2>1. Shaped(u)
        BY <1>2 DEF Relabelled
    <2>2. u # << >> <=> Len(u) > 0
        BY <2>1, Shape
    <2> QED
        BY <1>1, <1>3, <2>2
<1>5. u[1] = [s[1] EXCEPT !.records = x] /\ \A i \in 1..Len(s) : i # 1 => u[i] = s[i]
    BY <1>1
<1>6. u[1].size = s[1].size /\ u[1].records = x
    BY <1>1, <1>5
<1> QED
    BY <1>3, <1>4, <1>5, <1>6

LEMMA AdvanceState ==
    ASSUME DiskInv, CellsInv, StateInv, Clean, Ack_advance
    PROVE  StateInv' /\ Unread # << >> /\ Unread' = Tail(Unread)
<1> DEFINE a == segments[1].id
           fs == files
           f == fs[a]
           hf == headFile
           ho == headOff
           k == HeadRecord[2]
           next == ho + k
           hg == <<a, next>>
           u == [segments EXCEPT ![1].records = @ - 1]
<1>0. pc = "idle" /\ Readable
    BY DEF Ack_advance
<1>1. /\ Len(segments) \in Nat /\ Len(segments) >= 1
      /\ a \in DOMAIN fs /\ DOMAIN fs \subseteq Positive /\ \A id \in DOMAIN fs : a <= id
      /\ hf[1] <= a /\ hf \in Nat \X Nat /\ ho \in Nat /\ FilesTyped(fs) /\ f \in Seq(Cell)
      /\ SoundSeg(f, ho, segments[1]) /\ Counted(fs, hf, count, bytes)
    BY <1>0, Running
<1>2. Located(hf, segments, ho) /\ From(hf, a) = ho
    BY <1>0, RunningLocated
<1>3. ValidAt(f, ho) /\ HeadRecord = RecordAt(f, ho)
    BY <1>0, HeadIs
<1>4. /\ headFile' = hg /\ headOff' = next /\ count' = count - 1 /\ segments' = u /\ peeked' = None
      /\ files' = fs /\ bytes' = bytes /\ todo' = todo /\ pc' = pc
    <2>1. ~Fails("head")
        BY CleanCalls
    <2> QED
        BY <2>1 DEF Ack_advance, NextHead
<1>5. k \in Nat /\ next \in Nat
    BY <1>1, <1>3, ValidNext
<1>6. /\ Records(f, ho) # << >>
      /\ Records(f, next) = Tail(Records(f, ho))
      /\ Len(Records(f, next)) = Len(Records(f, ho)) - 1
      /\ Whole(f, ho) => Whole(f, next)
    BY <1>1, <1>3, AdvanceScan
<1>7. Records(f, ho) \in Seq(Rec) /\ Records(f, next) \in Seq(Rec)
      /\ Len(Records(f, ho)) \in Nat /\ Len(Records(f, next)) \in Nat
    <2>1. Records(f, ho) \in Seq(Rec)
        BY <1>1, RecordsType
    <2>2. Records(f, next) \in Seq(Rec)
        BY <1>1, <1>5, RecordsType
    <2> QED
        BY <2>1, <2>2, LenProperties
<1>8. Shaped(segments) /\ Increasing(segments) /\ \A i \in 1..Len(segments) : segments[i].id \in DOMAIN fs
    BY <1>0, OldestFirst
<1>9. /\ Len(u) = Len(segments) /\ u # << >>
      /\ u[1].id = a /\ u[1].size = segments[1].size /\ u[1].records = segments[1].records - 1
      /\ \A i \in 1..Len(segments) : i # 1 => u[i] = segments[i]
      /\ \A i \in 1..Len(segments) : u[i].id = segments[i].id
    <2> DEFINE w == segments[1].records - 1
    <2>1. 1 \in DOMAIN segments
        BY <1>1, <1>8, Shape
    <2>2. u = [segments EXCEPT ![1].records = w]
        BY <2>1
    <2> HIDE DEF w
    <2> QED
        BY <1>1, <1>8, <2>2, FewerRecords DEF w
<1> HIDE DEF u
<1>10. /\ SameRest(Rec, Records(f, ho), Records(f, next), Joined(fs, hf), Joined(fs, hg))
       /\ From(hg, a) = next /\ \A id \in DOMAIN fs : id # a => From(hg, id) = From(hf, id)
    <2>1. /\ FilesTyped(fs) /\ a \in DOMAIN fs /\ (\A id \in DOMAIN fs : a <= id)
          /\ hf \in Nat \X Nat /\ hf[1] <= a /\ next \in Nat /\ From(hf, a) = ho
        BY <1>1, <1>2, <1>5
    <2> HIDE DEF next, fs, hf, a, ho
    <2>2. /\ SameRest(Rec, Records(fs[a], From(hf, a)), Records(fs[a], next), Joined(fs, hf), Joined(fs, <<a, next>>))
          /\ From(<<a, next>>, a) = next
          /\ \A id \in DOMAIN fs : id # a => From(<<a, next>>, id) = From(hf, id)
        BY <2>1, MoveHead
    <2> QED
        BY <2>1, <2>2
<1>11. Located(hg, u, next)
    <2>1. ASSUME NEW i \in 1..Len(segments) PROVE From(hg, u[i].id) = Offset(i, next)
        <3>1. CASE i = 1
            BY <1>9, <1>10, <3>1 DEF Offset
        <3>2. CASE i # 1
            <4>1. 1 \in 1..Len(segments) /\ 1 < i
                BY <1>1, <3>2
            <4>2. segments[1].id < segments[i].id /\ segments[i].id \in Nat
                BY <1>8, <4>1, Shape DEF Increasing
            <4>3. segments[i].id # a /\ segments[i].id \in DOMAIN fs
                BY <1>1, <1>8, <4>2 DEF Positive
            <4>4. From(hf, segments[i].id) = 0
                BY <1>2, <3>2 DEF Located, Offset
            <4> QED
                BY <1>9, <1>10, <3>2, <4>3, <4>4 DEF Offset
        <3> QED
            BY <3>1, <3>2
    <2> QED
        BY <1>9, <2>1 DEF Located
<1>12. Sound(fs, u, next)
    <2>1. ASSUME NEW i \in 1..Len(segments) PROVE SoundSeg(fs[u[i].id], Offset(i, next), u[i])
        <3>1. CASE i = 1
            <4>1. Whole(f, next) /\ u[1].size = Len(f)
                BY <1>1, <1>6, <1>9 DEF SoundSeg
            <4>2. u[1].records = Len(Records(f, next))
                BY <1>1, <1>6, <1>9 DEF SoundSeg
            <4> QED
                BY <1>9, <3>1, <4>1, <4>2 DEF SoundSeg, Offset
        <3>2. CASE i # 1
            <4>1. SoundSeg(fs[segments[i].id], Offset(i, ho), segments[i])
                BY DEF StateInv, Sound
            <4> QED
                BY <1>9, <3>2, <4>1 DEF Offset
        <3> QED
            BY <3>1, <3>2
    <2> QED
        BY <1>9, <2>1 DEF Sound
<1> DEFINE x == Records(f, ho)
           y == Records(f, next)
           v == Joined(fs, hf)
           w == Joined(fs, hg)
<1>13. x \in Seq(Rec) /\ y \in Seq(Rec) /\ SameRest(Rec, x, y, v, w) /\ Len(x) \in Nat /\ Len(y) = Len(x) - 1
    BY <1>6, <1>7, <1>10
<1>14. x # << >> /\ y = Tail(x)
    BY <1>6
<1> HIDE DEF x, y, v, w
<1>15. Len(v) \in Nat /\ Len(w) = Len(v) - Len(x) + Len(y)
    BY <1>13, RestLen
<1>16. v # << >> /\ w = Tail(v)
    BY <1>13, <1>14, RestTail
<1>17. Counted(fs, hg, count - 1, bytes)
    <2>1. count = Len(v) /\ bytes = Len(Used(fs))
        BY <1>1 DEF Counted, v
    <2>2. count - 1 = Len(w)
        BY <1>13, <1>15, <2>1
    <2> QED
        BY <2>1, <2>2 DEF Counted, w
<1>18. todo = {} /\ Contiguous(DOMAIN fs) /\ ~OverBudget
    BY <1>0 DEF StateInv
<1>19. StateInv'
    <2>1. pc' \notin {"down", "recover"} /\ segments' # << >> /\ todo' = {} /\ peeked' = None
        BY <1>0, <1>4, <1>9, <1>18
    <2>2. /\ Contiguous(DOMAIN files') /\ Sound(files', segments', headOff')
          /\ Located(headFile', segments', headOff')
          /\ Counted(files', headFile', count', bytes')
        BY <1>4, <1>11, <1>12, <1>17, <1>18
    <2>3. ~OverBudget'
        BY <1>4, <1>9, <1>18 DEF OverBudget
    <2> QED
        BY <2>1, <2>2, <2>3, StateRunning, Zenon
<1>20. Unread = v /\ Unread' = w
    <2>1. Unread = Joined(fs, hf) /\ Unread' = Joined(files', headFile')
        BY UnreadJoined
    <2> QED
        BY <1>4, <2>1 DEF v, w
<1> QED
    BY <1>16, <1>19, <1>20

LEMMA DropCounts ==
    ASSUME NEW rec, (\E next : dropHead(rec, next)) \/ resetOnly(rec)
    PROVE  /\ rec # None => dropped' = dropped
           /\ rec = None => dropped' = dropped + (segments[1].records - 0)
BY DEF dropHead, resetOnly

LEMMA AckLastState ==
    ASSUME DiskInv, CellsInv, StateInv, Clean, Ack_last
    PROVE  StateInv' /\ Unread # << >> /\ Unread' = Tail(Unread) /\ dropped' = dropped
<1> DEFINE f == files[segments[1].id]
           ho == headOff
           next == ho + HeadRecord[2]
<1>1. /\ pc = "idle" /\ Readable /\ next >= segments[1].size
      /\ IF Len(segments) > 1 THEN dropHead(HeadRecord, "ack_head") ELSE resetOnly(HeadRecord)
    BY DEF Ack_last
<1>2. f \in Seq(Cell) /\ ho \in Nat /\ SoundSeg(f, ho, segments[1])
    BY <1>1, Running
<1>3. ValidAt(f, ho) /\ HeadRecord = RecordAt(f, ho)
    BY <1>1, HeadIs
<1>4. HeadRecord[2] \in Nat /\ HeadRecord[2] # 0 /\ next \in Nat
    BY <1>2, <1>3, ValidNext
<1>5. HeadRecord # None
    BY <1>4 DEF None
<1>6. StateInv' /\ SameRest(Rec, Records(f, ho), << >>, Unread, Unread')
    <2>1. CASE Len(segments) > 1
        BY <1>1, <2>1, DropState
    <2>2. CASE ~(Len(segments) > 1)
        BY <1>1, <2>2, ResetState
    <2> QED
        BY <2>1, <2>2
<1>7. dropped' = dropped
    BY <1>1, <1>5, DropCounts
<1>8. Records(f, ho) # << >> /\ Records(f, ho) \in Seq(Rec) /\ Tail(Records(f, ho)) = << >>
    <2>1. Records(f, ho) # << >> /\ Records(f, next) = Tail(Records(f, ho))
        BY <1>2, <1>3, AdvanceScan
    <2>2. ~ValidAt(f, next)
        <3>1. next >= Len(f)
            BY <1>1, <1>2 DEF SoundSeg
        <3>2. Len(f) \in Nat
            BY <1>2, CellShape
        <3> HIDE DEF next
        <3> QED
            BY <1>4, <3>1, <3>2 DEF ValidAt
    <2>3. Records(f, next) = << >>
        BY <1>2, <1>4, <2>2, ScanNil
    <2>4. Records(f, ho) \in Seq(Rec)
        BY <1>2, RecordsType
    <2> QED
        BY <2>1, <2>3, <2>4
<1> DEFINE x == Records(f, ho)
           u == Unread
           v == Unread'
<1>9. x \in Seq(Rec) /\ x # << >> /\ SameRest(Rec, x, Tail(x), u, v)
    BY <1>6, <1>8
<1> HIDE DEF x, u, v
<1>10. u # << >> /\ v = Tail(u)
    BY <1>9, RestTail
<1> QED
    BY <1>6, <1>7, <1>10 DEF u, v

LEMMA DiscardState ==
    ASSUME DiskInv, CellsInv, StateInv, Clean, Ack_discard, dropped \in Nat
    PROVE  StateInv' /\ Unread' = Unread /\ dropped' = dropped
<1> DEFINE f == files[segments[1].id]
           ho == headOff
<1>1. /\ pc = "idle" /\ ~Readable
      /\ IF Len(segments) > 1 THEN dropHead(None, "ack_head") ELSE resetOnly(None)
    BY DEF Ack_discard
<1>2. f \in Seq(Cell) /\ ho \in Nat /\ SoundSeg(f, ho, segments[1])
    BY <1>1, Running
<1>3. ~ValidAt(f, ho)
    BY <1>1, HeadIs
<1>4. Records(f, ho) = << >>
    BY <1>2, <1>3, ScanNil
<1>5. StateInv' /\ SameRest(Rec, Records(f, ho), << >>, Unread, Unread')
    <2>1. CASE Len(segments) > 1
        BY <1>1, <2>1, DropState
    <2>2. CASE ~(Len(segments) > 1)
        BY <1>1, <2>2, ResetState
    <2> QED
        BY <2>1, <2>2
<1>6. Unread' = Unread
    BY <1>4, <1>5 DEF SameRest
<1>7. dropped' = dropped
    <2>1. segments[1].records = 0
        BY <1>2, <1>4, EmptyScan DEF SoundSeg
    <2>2. dropped' = dropped + (segments[1].records - 0)
        BY <1>1, DropCounts
    <2> QED
        BY <2>1, <2>2
<1> QED
    BY <1>5, <1>6, <1>7

LEMMA EvictState ==
    ASSUME DiskInv, CellsInv, StateInv, Clean, enforceBound_drop
    PROVE  /\ StateInv'
           /\ SameRest(Rec, Records(files[segments[1].id], headOff), << >>, Unread, Unread')
           /\ dropped' = dropped + (Len(Records(files[segments[1].id], headOff)) - 0)
<1>1. PICK next \in {"bound_head", "open_head"} :
         pc \in {"idle", "bound", "open_bound"} /\ dropHead(None, next) /\ Len(segments) > 1
         /\ pc \notin {"down", "recover"}
    BY DEF enforceBound_drop, OverBudget
<1>2. /\ StateInv'
      /\ SameRest(Rec, Records(files[segments[1].id], headOff), << >>, Unread, Unread')
    BY <1>1, DropState
<1>3. segments[1].records = Len(Records(files[segments[1].id], headOff))
    BY <1>1, Running DEF SoundSeg
<1>4. dropped' = dropped + (segments[1].records - 0)
    BY <1>1, DropCounts
<1> QED
    BY <1>2, <1>3, <1>4

----------------------------------------------------------------------------
\* The steps that change neither the segments nor what is on the disk.
LEMMA SameUnread ==
    ASSUME files' = files, headFile' = headFile
    PROVE  Unread' = Unread
BY UnreadJoined

LEMMA QuietState ==
    ASSUME DiskInv, CellsInv, StateInv, enforceBound_done \/ Peek \/ UNCHANGED dqVars
    PROVE  StateInv' /\ Unread' = Unread /\ dropped' = dropped
<1>1. CASE enforceBound_done
    <2>1. /\ pc \notin {"down", "recover"} /\ pc' = "idle" /\ ~OverBudget
          /\ files' = files /\ headFile' = headFile /\ segments' = segments /\ headOff' = headOff
          /\ count' = count /\ bytes' = bytes /\ peeked' = peeked /\ todo' = todo /\ dropped' = dropped
          /\ pc # "ack_head" /\ pc # "recover"
        BY <1>1 DEF enforceBound_done, disk, memory
    <2>2. Located(headFile, segments, headOff)
        BY <2>1, RunningLocated
    <2>3. ~OverBudget'
        BY <2>1 DEF OverBudget
    <2>4. StateInv'
        BY <2>1, <2>2, <2>3 DEF StateInv
    <2> QED
        BY <2>1, <2>4, SameUnread
<1>2. CASE Peek
    <2>1. /\ pc = "idle" /\ pc' = pc /\ Readable /\ peeked' = HeadRecord
          /\ files' = files /\ headFile' = headFile /\ segments' = segments /\ headOff' = headOff
          /\ count' = count /\ bytes' = bytes /\ todo' = todo /\ dropped' = dropped
        BY <1>2 DEF Peek, disk
    <2>2. ValidAt(files[segments[1].id], headOff) /\ HeadRecord = RecordAt(files[segments[1].id], headOff)
        BY <2>1, HeadIs
    <2>3. ~OverBudget'
        BY <2>1 DEF OverBudget, StateInv
    <2>4. Located(headFile, segments, headOff)
        BY <2>1, RunningLocated
    <2>5. StateInv'
        BY <2>1, <2>2, <2>3, <2>4 DEF StateInv
    <2> QED
        BY <2>1, <2>5, SameUnread
<1>3. CASE UNCHANGED dqVars
    <2>1. /\ pc' = pc
          /\ files' = files /\ headFile' = headFile /\ segments' = segments /\ headOff' = headOff
          /\ count' = count /\ bytes' = bytes /\ peeked' = peeked /\ todo' = todo /\ dropped' = dropped
        BY <1>3 DEF dqVars, disk, memory
    <2>2. OverBudget' = OverBudget /\ Emptied' = Emptied
        BY <2>1 DEF OverBudget, Emptied
    <2>3. StateInv'
        BY <2>1, <2>2 DEF StateInv
    <2> QED
        BY <2>1, <2>3, SameUnread
<1> QED
    BY <1>1, <1>2, <1>3

LEMMA OpenState ==
    ASSUME DiskInv, CellsInv, StateInv, Open
    PROVE  StateInv' /\ Unread' = Unread /\ dropped' = dropped
<1>1. /\ pc = "down" /\ pc' = "recover" /\ todo' = DOMAIN files
      /\ files' = files /\ headFile' = headFile /\ segments' = segments /\ headOff' = headOff
      /\ count' = count /\ bytes' = bytes /\ peeked' = peeked /\ dropped' = dropped
    BY DEF Open, disk
<1>2. segments = << >>
    BY <1>1 DEF DiskInv, SegmentsInv
<1>3. /\ Contiguous(DOMAIN files) /\ peeked = None /\ count = 0 /\ bytes = 0 /\ headOff = 0
      /\ Sound(files, segments, headOff)
    BY <1>1, <1>2 DEF StateInv
<1>4. Located(headFile, segments, headOff)
    BY <1>2 DEF Located
<1> DEFINE gs == Minus(files, DOMAIN files)
<1>5. DOMAIN gs = {}
    BY DEF Minus
<1>6. FilesTyped(gs) /\ headFile \in Nat \X Nat
    <2>1. headFile \in Nat \X Nat
        BY DEF CellsInv
    <2>2. 0 \in Nat /\ \A id \in DOMAIN gs : id <= 0
        BY <1>5
    <2> QED
        BY <1>5, <2>1, <2>2 DEF FilesTyped
<1>7. Joined(gs, headFile) = << >> /\ Used(gs) = << >>
    BY <1>5, <1>6, JoinedBlank
<1>8. Counted(gs, headFile, 0, 0)
    BY <1>7, EmptyScan DEF Counted
<1>9. StateInv'
    BY <1>1, <1>2, <1>3, <1>4, <1>8 DEF StateInv
<1> QED
    BY <1>1, <1>9, SameUnread

----------------------------------------------------------------------------
\* Writing the head file, and the ends of the process.
LEMMA HeadWritten ==
    ASSUME DiskInv, CellsInv, StateInv, pc \notin {"down", "recover"}
    PROVE  LET hg == <<segments[1].id, headOff>>
           IN Joined(files, hg) = Joined(files, headFile) /\ Located(hg, segments, headOff)
<1> DEFINE a == segments[1].id
           hg == <<a, headOff>>
           f == files[a]
<1>1. /\ Len(segments) \in Nat /\ Len(segments) >= 1
      /\ a \in DOMAIN files /\ DOMAIN files \subseteq Positive /\ \A id \in DOMAIN files : a <= id
      /\ headFile[1] <= a /\ headFile \in Nat \X Nat /\ headOff \in Nat /\ FilesTyped(files)
    BY Running
<1>2. /\ SameRest(Rec, Records(f, From(headFile, a)), Records(f, headOff),
                  Joined(files, headFile), Joined(files, hg))
      /\ From(hg, a) = headOff /\ \A id \in DOMAIN files : id # a => From(hg, id) = From(headFile, id)
    BY <1>1, MoveHead
<1>3. /\ Increasing(segments) /\ \A i \in 1..Len(segments) : segments[i].id \in DOMAIN files
      /\ 1 \in 1..Len(segments)
    BY <1>1, OldestFirst
<1>4. \A i \in 1..Len(segments) : i # 1 => i > 1 /\ segments[i].id # a
    <2> SUFFICES ASSUME NEW i \in 1..Len(segments), i # 1 PROVE i > 1 /\ segments[i].id # a
        OBVIOUS
    <2>1. 1 < i
        BY <1>1
    <2>2. a < segments[i].id /\ a \in Nat /\ segments[i].id \in Nat
        BY <1>1, <1>3, <2>1 DEF Increasing, Positive
    <2> QED
        BY <2>1, <2>2
<1>5. Records(f, From(headFile, a)) = Records(f, headOff) /\ Located(hg, segments, headOff)
    <2>1. CASE Located(headFile, segments, headOff)
        <3>1. From(headFile, a) = headOff
            BY <1>3, <2>1 DEF Located, Offset
        <3> HIDE DEF hg, a
        <3>2. \A i \in 1..Len(segments) : From(hg, segments[i].id) = Offset(i, headOff)
            BY <1>2, <1>3, <1>4, <2>1 DEF Located, Offset, a
        <3> QED
            BY <3>1, <3>2 DEF Located
    <2>2. CASE Emptied
        <3>1. Len(segments) = 1 /\ f = << >> /\ headOff = 0
            BY <2>2 DEF Emptied
        <3>2. From(headFile, a) \in Nat
            BY <1>1, FromType
        <3>3. \A i \in 1..1 : i = 1
            OBVIOUS
        <3> HIDE DEF hg, a
        <3>4. Located(hg, segments, headOff)
            BY <1>2, <3>1, <3>3 DEF Located, Offset, a
        <3> QED
            BY <3>1, <3>2, <3>4, EmptyScan
    <2> QED
        BY <2>1, <2>2 DEF StateInv
<1>6. Joined(files, hg) = Joined(files, headFile)
    BY <1>2, <1>5 DEF SameRest
<1> QED
    BY <1>5, <1>6

LEMMA WriteHeadState ==
    ASSUME DiskInv, CellsInv, StateInv, Clean, writeHead
    PROVE  StateInv' /\ Unread' = Unread /\ dropped' = dropped
<1>1. /\ pc \notin {"down", "recover"} /\ pc' \notin {"down", "recover"}
      /\ pc' \in {"idle", "ack_head"} => pc = "ack_head"
      /\ headFile' = <<segments[1].id, headOff>>
      /\ files' = files /\ segments' = segments /\ headOff' = headOff
      /\ count' = count /\ bytes' = bytes /\ peeked' = peeked /\ todo' = todo /\ dropped' = dropped
    <2>1. ~Fails("head")
        BY CleanCalls
    <2>2. pc \in {"bound_head", "open_head", "ack_head"}
        BY DEF writeHead
    <2>3. /\ headFile' = <<segments[1].id, headOff>>
          /\ pc' = CASE pc = "bound_head" -> "bound"
                     [] pc = "open_head" -> "open_bound"
                     [] pc = "ack_head" -> "idle"
        BY <2>1 DEF writeHead, HeadSegment
    <2>4. /\ pc' \notin {"down", "recover"}
          /\ pc' \in {"idle", "ack_head"} => pc = "ack_head"
        BY <2>2, <2>3
    <2> QED
        BY <2>2, <2>3, <2>4 DEF writeHead, memory
<1>2. Joined(files', headFile') = Joined(files, headFile) /\ Located(headFile', segments', headOff')
    BY <1>1, HeadWritten
<1>3. Counted(files', headFile', count', bytes')
    BY <1>1, <1>2, Running DEF Counted
<1>4. segments # << >>
    BY <1>1, OldestFirst
<1>5. /\ todo = {} /\ Contiguous(DOMAIN files) /\ Sound(files, segments, headOff)
      /\ (peeked = None \/ (/\ ValidAt(files[segments[1].id], headOff)
                            /\ RecordAt(files[segments[1].id], headOff) = peeked))
      /\ pc = "ack_head" => ~OverBudget
    BY <1>1 DEF StateInv
<1>6. pc' \in {"idle", "ack_head"} => ~OverBudget'
    BY <1>1, <1>5 DEF OverBudget
<1>7. StateInv'
    <2>1. /\ Contiguous(DOMAIN files') /\ todo' = {} /\ Sound(files', segments', headOff') /\ segments' # << >>
          /\ (peeked' = None \/ (/\ ValidAt(files'[segments'[1].id], headOff')
                                 /\ RecordAt(files'[segments'[1].id], headOff') = peeked'))
        BY <1>1, <1>4, <1>5
    <2> QED
        BY <1>1, <1>2, <1>3, <1>6, <2>1, StateRunning, Zenon
<1>8. Unread' = Unread
    BY <1>2, UnreadJoined
<1> QED
    BY <1>1, <1>7, <1>8

LEMMA ExitState ==
    ASSUME DiskInv, CellsInv, StateInv, Close \/ Crash
    PROVE  StateInv' /\ Unread' = Unread /\ pc' = "down" /\ dropped' = 0
<1>1. Exit /\ files' = files
    BY DEF Close, Crash, disk
<1>2. StateInv'
    <2>1. Contiguous(DOMAIN files')
        BY <1>1 DEF StateInv
    <2> QED
        BY <1>1, <2>1, StateExit
<1>3. Joined(files', headFile') = Joined(files, headFile)
    <2>1. CASE Close
        <3>1. headFile' = <<segments[1].id, headOff>> /\ pc = "idle"
            BY <2>1 DEF Close
        <3> QED
            BY <1>1, <3>1, HeadWritten
    <2>2. CASE Crash
        <3>1. headFile' = headFile
            BY <2>2 DEF Crash, disk
        <3> QED
            BY <1>1, <3>1
    <2> QED
        BY <2>1, <2>2
<1>4. Unread' = Unread
    BY <1>3, UnreadJoined
<1> QED
    BY <1>1, <1>2, <1>4 DEF Exit

----------------------------------------------------------------------------
\* Pushing a record.

\* The segments that a push of size k writes to: the last one is sound, even
\* when it is a new one.
RolledOK(ss, n, t, f) ==
    /\ Shaped(ss) /\ n \in Nat /\ n >= 1 /\ Len(ss) = n /\ ss[n].id = t /\ t \in Positive
    /\ \A id \in DOMAIN files : id <= t
    /\ headFile[1] <= t
    /\ f \in Seq(Cell)
    /\ From(headFile, t) = Offset(n, headOff)
    /\ SoundSeg(f, Offset(n, headOff), ss[n])
    /\ \A i \in 1..n : i # n => i \in 1..Len(segments) /\ ss[i] = segments[i] /\ ss[i].id # t
    /\ ss[1].id = segments[1].id
    /\ Contiguous(DOMAIN files \cup {t})

LEMMA RolledSound ==
    ASSUME DiskInv, CellsInv, StateInv, pc = "idle", NEW k
    PROVE  LET t == Last(Rolled(k)).id
           IN RolledOK(Rolled(k), Len(Rolled(k)), t, CellsOf(files, t))
<1> DEFINE ss == Rolled(k)
           t == Last(ss).id
           f == CellsOf(files, t)
           m == Len(segments)
           tail == Last(segments)
<1>1. /\ m \in Nat /\ m >= 1 /\ DOMAIN files \subseteq Positive
      /\ headFile[1] <= segments[1].id /\ headFile \in Nat \X Nat /\ headOff \in Nat /\ FilesTyped(files)
    BY Running
<1>2. /\ Shaped(segments) /\ Increasing(segments)
      /\ \A i \in 1..m : segments[i].id \in DOMAIN files
      /\ DOMAIN files = SegIds(segments)
    BY OldestFirst
<1>3. Shaped(ss) /\ headFile[1] <= t
    BY RolledTail
<1>4. t \in Positive /\ \A id \in DOMAIN files : id <= t
    BY RolledNewest DEF Positive
<1>5. /\ Located(headFile, segments, headOff) /\ Sound(files, segments, headOff)
      /\ Contiguous(DOMAIN files)
    BY RunningLocated DEF StateInv
<1>6. tail = segments[m] /\ m \in 1..m /\ 1 \in 1..m
    BY <1>1 DEF Last
<1>7. f \in Seq(Cell)
    BY <1>1, EmptyScan DEF CellsOf, FilesTyped
<1>8. \A i \in 1..m : i # m => i < m /\ segments[i].id < segments[m].id
                              /\ segments[i].id \in Nat /\ segments[m].id \in Nat
    <2> SUFFICES ASSUME NEW i \in 1..m, i # m
                 PROVE  i < m /\ segments[i].id < segments[m].id
                        /\ segments[i].id \in Nat /\ segments[m].id \in Nat
        OBVIOUS
    <2>1. i < m
        BY <1>1
    <2>2. segments[i].id < segments[m].id
        BY <1>2, <1>6, <2>1 DEF Increasing
    <2> QED
        BY <1>1, <1>2, <1>6, <2>1, <2>2 DEF Positive
<1>9. CASE ss = segments
    <2>1. t = segments[m].id /\ t \in DOMAIN files /\ DOMAIN files \cup {t} = DOMAIN files
        BY <1>2, <1>6, <1>9
    <2>2. f = files[t]
        BY <2>1 DEF CellsOf
    <2>3. From(headFile, t) = Offset(m, headOff) /\ SoundSeg(f, Offset(m, headOff), ss[m])
        BY <1>5, <1>6, <1>9, <2>1, <2>2 DEF Located, Sound
    <2>4. \A i \in 1..m : i # m => i \in 1..m /\ ss[i] = segments[i] /\ ss[i].id # t
        BY <1>8, <1>9, <2>1
    <2> QED
        BY <1>1, <1>3, <1>4, <1>5, <1>7, <1>9, <2>1, <2>3, <2>4 DEF RolledOK
<1>10. CASE ss # segments
    <2> DEFINE s == [id |-> tail.id + 1, size |-> 0, records |-> 0]
    <2>1. ss = Append(segments, s)
        BY <1>10 DEF Rolled
    <2>2. PICK X : segments \in Seq(Seg(X))
        BY <1>2 DEF Shaped
    <2>3. Len(ss) = m + 1 /\ ss[m + 1] = s /\ \A i \in 1..m : ss[i] = segments[i]
        <3> HIDE DEF s
        <3> QED
            BY <2>1, <2>2, AppendProperties
    <2>4. s.id = tail.id + 1 /\ s.size = 0 /\ s.records = 0
        OBVIOUS
    <2> HIDE DEF s
    <2>5. t = segments[m].id + 1
        BY <1>6, <2>3, <2>4 DEF Last
    <2>6. \A id \in DOMAIN files : id <= segments[m].id /\ id \in Nat /\ segments[m].id \in Nat
        <3> SUFFICES ASSUME NEW id \in DOMAIN files PROVE id <= segments[m].id /\ id \in Nat /\ segments[m].id \in Nat
            OBVIOUS
        <3>1. PICK i \in 1..m : segments[i].id = id
            BY <1>2 DEF SegIds
        <3>2. id \in Nat /\ segments[m].id \in Nat
            BY <1>1, <1>2, <1>6 DEF Positive
        <3> QED
            BY <1>8, <3>1, <3>2
    <2>7. t \notin DOMAIN files /\ f = << >>
        <3>1. t \notin DOMAIN files
            BY <1>6, <2>5, <2>6
        <3> QED
            BY <3>1 DEF CellsOf
    <2>8. headFile[1] # t /\ From(headFile, t) = 0
        <3>1. headFile[1] \in Nat /\ segments[1].id <= segments[m].id /\ segments[1].id \in Nat /\ segments[m].id \in Nat
            BY <1>1, <1>2, <1>6, <2>6
        <3>2. headFile[1] # t
            BY <1>1, <2>5, <3>1
        <3> QED
            BY <3>2 DEF From
    <2>9. Offset(m + 1, headOff) = 0 /\ m + 1 \in Nat /\ m + 1 >= 1
        BY <1>1 DEF Offset
    <2>10. SoundSeg(f, 0, s)
        BY <2>4, <2>7, EmptyScan DEF SoundSeg
    <2>11. \A i \in 1..(m + 1) : i # m + 1 => i \in 1..m /\ ss[i] = segments[i] /\ ss[i].id # t
        <3>1. \A i \in 1..(m + 1) : i # m + 1 => i \in 1..m
            BY <1>1
        <3> QED
            BY <1>2, <2>3, <2>7, <3>1
    <2>12. Contiguous(DOMAIN files \cup {t})
        <3> SUFFICES ASSUME NEW x \in DOMAIN files \cup {t}, NEW y \in DOMAIN files \cup {t},
                            NEW c \in Nat, x <= c, c <= y, c # t
                     PROVE  c \in DOMAIN files
            BY DEF Contiguous
        <3>1. segments[m].id \in DOMAIN files /\ segments[m].id \in Nat /\ t = segments[m].id + 1
            BY <1>2, <1>6, <2>5, <2>6
        <3>2. c <= segments[m].id
            BY <2>6, <3>1
        <3>3. x \in DOMAIN files
            BY <3>1, <3>2
        <3> QED
            BY <1>5, <3>1, <3>2, <3>3 DEF Contiguous
    <2>13. ss[1].id = segments[1].id
        BY <1>6, <2>3
    <2>14. ss[m + 1].id = t /\ SoundSeg(f, Offset(m + 1, headOff), ss[m + 1])
        BY <1>6, <2>3, <2>4, <2>5, <2>9, <2>10
    <2> QED
        BY <1>3, <1>4, <1>7, <2>3, <2>8, <2>9, <2>11, <2>12, <2>13, <2>14 DEF RolledOK
<1> QED
    BY <1>9, <1>10

\* The files after an append to the tail: the unread part of the tail grows
\* from x to y, and everything before it stays.
LEMMA AppendedFront ==
    ASSUME DiskInv, CellsInv, StateInv, pc = "idle", NEW id, NEW k, NEW n,
           CellsOf(files, Last(Rolled(k)).id) \o SubSeq(encode(id, k), 1, n) \in Seq(Cell)
    PROVE  LET m == Len(Rolled(k))
               t == Last(Rolled(k)).id
               f == CellsOf(files, t)
               g == f \o SubSeq(encode(id, k), 1, n)
               gs == Appended(id, k, n)
           IN /\ Put(gs, files, t, g) /\ DOMAIN gs = DOMAIN files \cup {t}
              /\ SameFront(Rec, Records(f, Offset(m, headOff)), Records(g, Offset(m, headOff)),
                           Joined(files, headFile), Joined(gs, headFile))
              /\ SameFront(Cell, f, g, Used(files), Used(gs))
<1> DEFINE m == Len(Rolled(k))
           t == Last(Rolled(k)).id
           f == CellsOf(files, t)
           g == f \o SubSeq(encode(id, k), 1, n)
           gs == Appended(id, k, n)
<1>0. RolledOK(Rolled(k), m, t, f)
    BY RolledSound
<1>3. Put(gs, files, t, g)
    BY DEF Put, Appended, With, CellsOf, Cells
<1>7. f = CellsOf(files, t) /\ g \in Seq(Cell)
    OBVIOUS
<1> HIDE DEF m, t, f, g, gs
<1>1. /\ t \in Positive /\ \A i \in DOMAIN files : i <= t
      /\ headFile[1] <= t /\ From(headFile, t) = Offset(m, headOff)
    BY <1>0 DEF RolledOK
<1>2. FilesTyped(files) /\ headFile \in Nat \X Nat
    BY CellsFacts
<1>4. DOMAIN gs = DOMAIN files \cup {t}
    BY <1>3 DEF Put
<1>5. /\ SameFront(Rec, Part(files, headFile, t), Records(g, From(headFile, t)),
                   Joined(files, headFile), Joined(gs, headFile))
      /\ SameFront(Cell, CellsOf(files, t), g, Used(files), Used(gs))
    BY <1>1, <1>2, <1>3, <1>7, PutLast
<1>6. Part(files, headFile, t) = Records(f, From(headFile, t))
    <2>1. CASE t \in DOMAIN files
        <3>1. t >= headFile[1]
            BY <1>1, <1>2 DEF Positive
        <3> QED
            BY <1>7, <2>1, <3>1 DEF Part, CellsOf
    <2>2. CASE t \notin DOMAIN files
        <3>1. f = << >> /\ From(headFile, t) \in Nat
            BY <1>2, <1>7, <2>2, FromType DEF CellsOf
        <3> QED
            BY <2>2, <3>1, EmptyScan DEF Part
    <2> QED
        BY <2>1, <2>2
<1> QED
    BY <1>1, <1>3, <1>4, <1>5, <1>6, <1>7 DEF m, t, f, g, gs

\* The segments once the record is counted in the last one.
LEMMA CountedPush ==
    ASSUME NEW ss, Shaped(ss), NEW n \in Nat, n >= 1, Len(ss) = n, NEW k, NEW us,
           us = [ss EXCEPT ![n].size = @ + k, ![n].records = @ + 1]
    PROVE  /\ Len(us) = n /\ us # << >>
           /\ \A i \in 1..n : us[i].id = ss[i].id /\ (i # n => us[i] = ss[i])
           /\ us[n].size = ss[n].size + k /\ us[n].records = ss[n].records + 1
<1>1. n \in 1..n /\ n > 0
    OBVIOUS
<1>2. /\ Relabelled(us, ss)
    BY <1>1, CountPushed
<1>3. Len(us) = n /\ Shaped(us) /\ \A i \in 1..n : us[i].id = ss[i].id
    BY <1>2 DEF Relabelled
<1>4. us # << >>
    BY <1>1, <1>3, Shape
<1>5. DOMAIN ss = 1..n /\ DOMAIN ss[n] = {"id", "size", "records"}
    BY <1>1, Shape
<1>6. us[n].size = ss[n].size + k /\ us[n].records = ss[n].records + 1
    BY <1>1, <1>5
<1>7. \A i \in 1..n : i # n => us[i] = ss[i]
    BY <1>5
<1> QED
    BY <1>3, <1>4, <1>6, <1>7

LEMMA FrontAppend ==
    ASSUME NEW X, NEW x \in Seq(X), NEW e \in X, NEW u, NEW v, SameFront(X, x, Append(x, e), u, v)
    PROVE  v = Append(u, e)
<1>1. PICK L \in Seq(X) : u = L \o x /\ v = L \o Append(x, e)
    BY DEF SameFront
<1>2. Append(x, e) = x \o <<e>> /\ <<e>> \in Seq(X)
    OBVIOUS
<1>3. L \o (x \o <<e>>) = (L \o x) \o <<e>>
    BY <1>2, ConcatAssociative
<1>4. L \o x \in Seq(X)
    OBVIOUS
<1>5. (L \o x) \o <<e>> = Append(L \o x, e)
    BY <1>4
<1> QED
    BY <1>1, <1>2, <1>3, <1>5

LEMMA PushState ==
    ASSUME DiskInv, CellsInv, StateInv, RecordsFit, Push
    PROVE  /\ StateInv' /\ dropped' = dropped
           /\ \E k \in Sizes : Unread' = Append(Unread, <<pushed + 1, k>>)
<1>1. PICK k \in Sizes :
         /\ pc = "idle" /\ pc' = "bound" /\ pushed < MaxPush
         /\ files' = Appended(pushed + 1, k, k)
         /\ segments' = [Rolled(k) EXCEPT ![Len(Rolled(k))].size = @ + k,
                                          ![Len(Rolled(k))].records = @ + 1]
         /\ count' = count + 1 /\ bytes' = bytes + k
         /\ headFile' = headFile /\ headOff' = headOff /\ dropped' = dropped
         /\ peeked' = peeked /\ todo' = todo
    BY DEF Push, Grown
<1> DEFINE ss == Rolled(k)
           n == Len(ss)
           t == Last(ss).id
           f == CellsOf(files, t)
           id == pushed + 1
           g == f \o encode(id, k)
           gs == Appended(id, k, k)
           ho == headOff
           o == Offset(n, ho)
           us == [ss EXCEPT ![n].size = @ + k, ![n].records = @ + 1]
<1>2. RolledOK(ss, n, t, f)
    BY <1>1, RolledSound
<1>3. k \in Nat \ {0} /\ k \in Nat /\ k <= MaxRecord /\ id \in Nat /\ <<id, k>> \in Rec
    <2>1. k \in Nat \ {0}
        BY DiskQueueAssumption
    <2>2. pushed \in Nat
        BY CellsFacts
    <2> QED
        BY <2>1, <2>2 DEF RecordsFit, Rec
<1>4. /\ Shaped(ss) /\ n \in Nat /\ n >= 1 /\ ss[n].id = t /\ f \in Seq(Cell)
      /\ From(headFile, t) = o /\ SoundSeg(f, o, ss[n])
      /\ \A i \in 1..n : i # n => i \in 1..Len(segments) /\ ss[i] = segments[i] /\ ss[i].id # t
      /\ ss[1].id = segments[1].id
      /\ Contiguous(DOMAIN files \cup {t})
    BY <1>2 DEF RolledOK
<1>5. /\ ho \in Nat /\ o \in Nat /\ segments # << >> /\ todo = {}
      /\ Located(headFile, segments, ho) /\ Sound(files, segments, ho)
      /\ Counted(files, headFile, count, bytes) /\ segments[1].id \in DOMAIN files
      /\ Len(segments) \in Nat /\ Len(segments) >= 1
      /\ \A i \in 1..Len(segments) : segments[i].id \in DOMAIN files
    <2>1. ho \in Nat /\ o \in Nat
        BY CellsFacts DEF Offset
    <2>2. /\ Counted(files, headFile, count, bytes) /\ segments[1].id \in DOMAIN files
          /\ Len(segments) \in Nat /\ Len(segments) >= 1
        BY <1>1, Running
    <2>3. segments # << >> /\ \A i \in 1..Len(segments) : segments[i].id \in DOMAIN files
        BY <1>1, OldestFirst
    <2> QED
        BY <1>1, <2>1, <2>2, <2>3, RunningLocated DEF StateInv
<1>6. /\ g \in Seq(Cell) /\ Len(g) = Len(f) + k /\ Whole(g, o)
      /\ Records(g, o) = Append(Records(f, o), <<id, k>>)
    <2>1. Whole(f, o)
        BY <1>4 DEF SoundSeg
    <2>2. f \in Seq(Cell) /\ o \in Nat /\ id \in Nat /\ k \in Nat \ {0} /\ k <= MaxRecord
        BY <1>3, <1>4, <1>5
    <2> HIDE DEF f, o, id
    <2> QED
        BY <2>1, <2>2, PushScan
<1>7. /\ Put(gs, files, t, g) /\ DOMAIN gs = DOMAIN files \cup {t}
      /\ SameFront(Rec, Records(f, o), Records(g, o), Joined(files, headFile), Joined(gs, headFile))
      /\ SameFront(Cell, f, g, Used(files), Used(gs))
    <2>1. g = f \o SubSeq(encode(id, k), 1, k)
        BY <1>3, WholeEncoding
    <2>2. f \o SubSeq(encode(id, k), 1, k) \in Seq(Cell) /\ pc = "idle"
        BY <1>1, <1>6, <2>1
    <2>3. LET h == f \o SubSeq(encode(id, k), 1, k)
          IN /\ Put(gs, files, t, h) /\ DOMAIN gs = DOMAIN files \cup {t}
             /\ SameFront(Rec, Records(f, o), Records(h, o), Joined(files, headFile), Joined(gs, headFile))
             /\ SameFront(Cell, f, h, Used(files), Used(gs))
        BY <2>2, AppendedFront
    <2> HIDE DEF g
    <2> QED
        BY <2>1, <2>3
<1>8. /\ Len(us) = n /\ us # << >>
      /\ \A i \in 1..n : us[i].id = ss[i].id /\ (i # n => us[i] = ss[i])
      /\ us[n].size = ss[n].size + k /\ us[n].records = ss[n].records + 1
    <2> HIDE DEF ss
    <2> QED
        BY <1>4, CountedPush
<1>9. files' = gs /\ segments' = us
    BY <1>1
<1>10. gs[t] = g /\ \A i \in DOMAIN files : i # t => gs[i] = files[i]
    BY <1>7 DEF Put
<1>11. Records(f, o) \in Seq(Rec) /\ Len(Records(g, o)) = Len(Records(f, o)) + 1
       /\ Len(f) \in Nat /\ Len(Records(f, o)) \in Nat
    <2> DEFINE x == Records(f, o)
               e == <<id, k>>
    <2>1. x \in Seq(Rec)
        BY <1>4, <1>5, RecordsType
    <2>2. Records(g, o) = Append(x, e) /\ e \in Rec
        BY <1>3, <1>6
    <2> HIDE DEF x, e
    <2>3. Len(Append(x, e)) = Len(x) + 1 /\ Len(x) \in Nat
        BY <2>1, <2>2
    <2>4. Len(f) \in Nat
        BY <1>4, CellShape
    <2> QED
        BY <2>1, <2>2, <2>3, <2>4 DEF x
<1> HIDE DEF us, gs, g, f, ss, n, t, o, id
<1>12. Sound(gs, us, ho)
    <2> SUFFICES ASSUME NEW i \in 1..n PROVE SoundSeg(gs[us[i].id], Offset(i, ho), us[i])
        BY <1>8 DEF Sound
    <2>1. CASE i = n
        <3>1. gs[us[i].id] = g /\ Offset(i, ho) = o
            BY <1>4, <1>8, <1>10, <2>1 DEF o
        <3>2. us[n].size = Len(g) /\ us[n].records = Len(Records(g, o))
            BY <1>4, <1>6, <1>8, <1>11 DEF SoundSeg
        <3> QED
            BY <1>6, <2>1, <3>1, <3>2 DEF SoundSeg
    <2>2. CASE i # n
        <3>1. us[i] = segments[i] /\ i \in 1..Len(segments) /\ segments[i].id # t
            BY <1>4, <1>8, <2>2
        <3>2. gs[us[i].id] = files[segments[i].id]
            BY <1>5, <1>10, <3>1
        <3> QED
            BY <1>5, <3>1, <3>2 DEF Sound
    <2> QED
        BY <2>1, <2>2
<1>13. Located(headFile, us, ho)
    <2> SUFFICES ASSUME NEW i \in 1..n PROVE From(headFile, us[i].id) = Offset(i, ho)
        BY <1>8 DEF Located
    <2>1. CASE i = n
        BY <1>4, <1>8, <2>1 DEF o
    <2>2. CASE i # n
        BY <1>4, <1>5, <1>8, <2>2 DEF Located
    <2> QED
        BY <2>1, <2>2
<1>14. Counted(gs, headFile, count + 1, bytes + k)
    <2> DEFINE x == Records(f, o)
               y == Records(g, o)
               u == Joined(files, headFile)
               v == Joined(gs, headFile)
               w == Used(files)
               z == Used(gs)
    <2>1. /\ x \in Seq(Rec) /\ y \in Seq(Rec) /\ SameFront(Rec, x, y, u, v) /\ Len(y) = Len(x) + 1
          /\ Len(x) \in Nat /\ SameFront(Cell, f, g, w, z) /\ count = Len(u) /\ bytes = Len(w)
        BY <1>5, <1>6, <1>7, <1>11, RecordsType DEF Counted
    <2> HIDE DEF x, y, u, v, w, z
    <2>2. Len(u) \in Nat /\ Len(v) \in Nat /\ Len(v) = Len(u) - Len(x) + Len(y)
        BY <2>1, FrontLen
    <2>3. Len(w) \in Nat /\ Len(z) \in Nat /\ Len(z) = Len(w) - Len(f) + Len(g)
        <3>1. f \in Seq(Cell) /\ g \in Seq(Cell) /\ SameFront(Cell, f, g, w, z)
            BY <1>4, <1>6, <2>1
        <3> QED
            BY <3>1, FrontLen
    <2>4. Len(v) = Len(u) + 1
        BY <2>1, <2>2
    <2>5. Len(z) = Len(w) + k
        BY <1>3, <1>6, <1>11, <2>3
    <2> QED
        BY <2>1, <2>4, <2>5 DEF Counted, v, z
<1>15. peeked = None \/ (/\ ValidAt(gs[us[1].id], ho) /\ RecordAt(gs[us[1].id], ho) = peeked)
    <2> DEFINE a == segments[1].id
               c == files[a]
    <2> SUFFICES ASSUME peeked # None PROVE ValidAt(gs[us[1].id], ho) /\ RecordAt(gs[us[1].id], ho) = peeked
        OBVIOUS
    <2>1. ValidAt(c, ho) /\ RecordAt(c, ho) = peeked
        BY DEF StateInv
    <2>2. us[1].id = a
        <3>1. 1 \in 1..n
            BY <1>4
        <3> QED
            BY <1>4, <1>8, <3>1
    <2>3. CASE a # t
        BY <1>5, <1>10, <2>1, <2>2, <2>3
    <2>4. CASE a = t
        <3>1. c = f /\ gs[a] = g
            BY <1>5, <1>10, <2>4 DEF f, CellsOf
        <3>2. Agree(f, g, Len(f))
            <4>1. encode(id, k) \in Seq(Cell)
                <5>1. k \in 0..k
                    BY <1>3
                <5> QED
                    BY <1>3, <5>1, EncodeCells, WholeEncoding
            <4>2. \A i \in 1..Len(f) : g[i] = f[i]
                BY <1>4, <4>1, AppendCells DEF g
            <4>3. Len(f) <= Len(g)
                BY <1>3, <1>6, <1>11
            <4> QED
                BY <4>2, <4>3 DEF Agree
        <3>3. ho + RecordAt(f, ho)[2] <= Len(f) /\ ValidAt(f, ho)
            BY <1>4, <1>5, <2>1, <3>1, ValidNext
        <3>4. ValidAt(g, ho) /\ RecordAt(g, ho) = RecordAt(f, ho)
            BY <1>4, <1>5, <1>6, <1>11, <3>2, <3>3, ValidSame
        <3> QED
            BY <2>1, <2>2, <3>1, <3>4
    <2> QED
        BY <2>3, <2>4
<1>16. StateInv'
    <2>1. /\ pc' \notin {"down", "recover"} /\ pc' \notin {"idle", "ack_head"} /\ segments' # << >> /\ todo' = {}
        BY <1>1, <1>5, <1>8, <1>9
    <2>2. /\ Contiguous(DOMAIN files') /\ Sound(files', segments', headOff')
          /\ Located(headFile', segments', headOff') /\ Counted(files', headFile', count', bytes')
        BY <1>1, <1>4, <1>7, <1>9, <1>12, <1>13, <1>14
    <2>3. peeked' = None \/ (/\ ValidAt(files'[segments'[1].id], headOff')
                             /\ RecordAt(files'[segments'[1].id], headOff') = peeked')
        BY <1>1, <1>9, <1>15
    <2> QED
        BY <2>1, <2>2, <2>3, StateRunning, Zenon
<1>17. Unread' = Append(Unread, <<id, k>>)
    <2> DEFINE x == Records(f, o)
               e == <<id, k>>
               u == Joined(files, headFile)
               v == Joined(gs, headFile)
    <2>1. x \in Seq(Rec) /\ e \in Rec /\ SameFront(Rec, x, Append(x, e), u, v)
        BY <1>3, <1>6, <1>7, <1>11
    <2>2. Unread = u /\ Unread' = v
        BY <1>1, <1>9, UnreadJoined
    <2> HIDE DEF x, e, u, v
    <2>3. v = Append(u, e)
        BY <2>1, FrontAppend
    <2> QED
        BY <2>2, <2>3 DEF e
<1> QED
    BY <1>1, <1>16, <1>17 DEF id

LEMMA TornState ==
    ASSUME DiskInv, CellsInv, StateInv, RecordsFit, Push_torn
    PROVE  StateInv' /\ Unread' = Unread /\ pc' = "down" /\ dropped' = 0
<1>0. PICK k \in Sizes : \E n \in 0..(k - 1) :
         /\ pc = "idle" /\ files' = Appended(pushed + 1, k, n) /\ headFile' = headFile /\ Exit
    BY DEF Push_torn
<1>1. PICK n \in 0..(k - 1) :
         /\ pc = "idle" /\ files' = Appended(pushed + 1, k, n) /\ headFile' = headFile /\ Exit
    BY <1>0
<1> DEFINE m == Len(Rolled(k))
           t == Last(Rolled(k)).id
           f == CellsOf(files, t)
           id == pushed + 1
           g == f \o SubSeq(encode(id, k), 1, n)
           gs == Appended(id, k, n)
           o == Offset(m, headOff)
<1>2. f \in Seq(Cell) /\ Whole(f, o) /\ Contiguous(DOMAIN files \cup {t})
    BY <1>1, RolledSound DEF RolledOK, SoundSeg
<1>3. o \in Nat /\ id \in Nat /\ k \in Nat \ {0} /\ k <= MaxRecord
    <2>1. k \in Nat \ {0}
        BY DiskQueueAssumption
    <2>2. pushed \in Nat /\ headOff \in Nat
        BY CellsFacts
    <2>3. o \in Nat
        BY <2>2 DEF Offset
    <2> QED
        BY <2>1, <2>2, <2>3 DEF RecordsFit
<1>4. g \in Seq(Cell) /\ Records(g, o) = Records(f, o)
    <2> HIDE DEF f, o, id
    <2> QED
        BY <1>2, <1>3, TornScan
<1>5. /\ DOMAIN gs = DOMAIN files \cup {t}
      /\ SameFront(Rec, Records(f, o), Records(g, o), Joined(files, headFile), Joined(gs, headFile))
    <2>1. CellsOf(files, Last(Rolled(k)).id) \o SubSeq(encode(id, k), 1, n) \in Seq(Cell)
        BY <1>4
    <2> QED
        BY <1>1, <2>1, AppendedFront
<1>6. Joined(files', headFile') = Joined(files, headFile)
    <2> HIDE DEF f, g, o
    <2> QED
        BY <1>1, <1>4, <1>5 DEF SameFront
<1>7. Contiguous(DOMAIN files')
    BY <1>1, <1>2, <1>5
<1>8. StateInv'
    BY <1>1, <1>7, StateExit
<1>9. Unread' = Unread
    BY <1>6, UnreadJoined
<1> QED
    BY <1>1, <1>8, <1>9 DEF Exit

----------------------------------------------------------------------------
\* Recovery.
LEMMA Scanned ==
    ASSUME DiskInv, CellsInv, scanSegment
    PROVE  LET id == NextSegment
               f == files[id]
               o == From(headFile, id)
               g == Truncated(f, ScanEnd(f, o))
           IN /\ pc = "recover" /\ pc' = "recover" /\ headFile' = headFile /\ dropped' = dropped /\ peeked' = peeked
              /\ id \in todo /\ todo' = todo \ {id} /\ id \in DOMAIN files /\ id \in Positive
              /\ headFile[1] <= id /\ \A d \in DOMAIN files \ todo : d < id
              /\ \A i \in 1..Len(segments) : segments[i].id < id /\ segments[i].id \in DOMAIN files
              /\ f \in Seq(Cell) /\ o \in Nat /\ g \in Seq(Cell) /\ Len(g) = ScanEnd(f, o)
              /\ Records(g, o) = Records(f, o) /\ Whole(g, o)
              /\ Put(files', files, id, g) /\ DOMAIN files' = DOMAIN files
              /\ segments' = Append(segments, [id |-> id, size |-> Len(g), records |-> Len(Records(g, o))])
              /\ headOff' = IF id = headFile[1] THEN headFile[2] ELSE headOff
              /\ count' = count + Len(Records(g, o)) /\ bytes' = bytes + Len(g)
<1> DEFINE id == NextSegment
           f == files[id]
           o == From(headFile, id)
           g == Truncated(f, ScanEnd(f, o))
<1>1. /\ pc = "recover" /\ pc' = "recover" /\ todo # {} /\ todo' = todo \ {id} /\ headFile' = headFile
      /\ dropped' = dropped /\ peeked' = peeked
    BY DEF scanSegment
<1>2. /\ DOMAIN files = SegIds(segments) \cup todo
      /\ \A i \in 1..Len(segments) : \A t \in todo : segments[i].id < t
      /\ DOMAIN files \subseteq Nat \ {0} /\ HeadInv
    BY <1>1 DEF DiskInv, SegmentsInv
<1>3. id \in todo
    <2>1. todo \subseteq Nat
        BY <1>2
    <2>2. \E x \in todo : \A y \in todo : x <= y
        BY <1>1, <2>1, LeastId
    <2>3. QED
        BY <2>2 DEF NextSegment
<1>4. id \in DOMAIN files /\ id \in Positive /\ headFile[1] <= id /\ ~(id < headFile[1])
    <2>1. id \in DOMAIN files /\ id \in Nat \ {0}
        BY <1>2, <1>3
    <2>2. QED
        BY <1>2, <2>1 DEF HeadInv, Positive
<1>5. /\ \A d \in DOMAIN files \ todo : d < id
      /\ \A i \in 1..Len(segments) : segments[i].id < id /\ segments[i].id \in DOMAIN files
    BY <1>2, <1>3 DEF SegIds
<1>6. f \in Seq(Cell) /\ o \in Nat /\ o = Start(id)
    BY <1>4, CellsFacts DEF From, Start
<1>7. /\ g \in Seq(Cell) /\ Len(g) = ScanEnd(f, o)
      /\ Records(g, o) = Records(f, o) /\ Whole(g, o)
    <2> HIDE DEF f, o
    <2> QED
        BY <1>6, TruncatedScan
<1>8. /\ files' = [files EXCEPT ![id] = Truncated(@, ScanEnd(f, Start(id)))]
      /\ segments' = Append(segments, [id |-> id, size |-> ScanEnd(f, Start(id)),
                                       records |-> Len(Records(f, Start(id)))])
      /\ headOff' = IF id = headFile[1] THEN headFile[2] ELSE headOff
      /\ count' = count + Len(Records(f, Start(id))) /\ bytes' = bytes + ScanEnd(f, Start(id))
    BY <1>4 DEF scanSegment
<1>9. Put(files', files, id, g) /\ DOMAIN files' = DOMAIN files
    BY <1>4, <1>6, <1>8 DEF Put
<1> QED
    BY <1>1, <1>3, <1>4, <1>5, <1>6, <1>7, <1>8, <1>9

LEMMA ScanState ==
    ASSUME DiskInv, CellsInv, StateInv, scanSegment
    PROVE  StateInv' /\ Unread' = Unread /\ dropped' = dropped
<1> DEFINE id == NextSegment
           f == files[id]
           o == From(headFile, id)
           g == Truncated(f, ScanEnd(f, o))
           s == [id |-> id, size |-> Len(g), records |-> Len(Records(g, o))]
           n == Len(segments)
           hf == headFile
           ss == segments
           fs == files
           gs == files'
           us == segments'
           ho == headOff
           hp == headOff'
           m == Minus(fs, todo)
           mg == Minus(gs, todo')
<1>1. /\ pc = "recover" /\ pc' = "recover" /\ headFile' = hf /\ dropped' = dropped /\ peeked' = peeked
      /\ id \in todo /\ todo' = todo \ {id} /\ id \in DOMAIN fs /\ id \in Positive
      /\ hf[1] <= id /\ \A d \in DOMAIN fs \ todo : d < id
      /\ \A i \in 1..n : ss[i].id < id /\ ss[i].id \in DOMAIN fs
      /\ f \in Seq(Cell) /\ o \in Nat /\ g \in Seq(Cell)
      /\ Records(g, o) = Records(f, o) /\ Whole(g, o)
      /\ Put(gs, fs, id, g) /\ DOMAIN gs = DOMAIN fs
      /\ us = Append(ss, s)
      /\ hp = IF id = hf[1] THEN hf[2] ELSE ho
      /\ count' = count + Len(Records(g, o)) /\ bytes' = bytes + Len(g)
    BY Scanned
<1>2. s.id = id /\ s.size = Len(g) /\ s.records = Len(Records(g, o))
    OBVIOUS
<1>3. Shaped(ss) /\ HeadInv /\ FilesTyped(fs) /\ hf \in Nat \X Nat /\ ho \in Nat /\ n \in Nat
    BY CellsFacts, Shape DEF DiskInv, SegmentsInv
<1>4. /\ Contiguous(DOMAIN fs) /\ peeked = None /\ (ss = << >> => ho = 0)
      /\ Sound(fs, ss, ho) /\ Located(hf, ss, ho) /\ Counted(m, hf, count, bytes)
    BY <1>1 DEF StateInv, Emptied
<1>5. Len(us) = n + 1 /\ us[n + 1] = s /\ (\A i \in 1..n : us[i] = ss[i]) /\ us # << >>
    <2>1. PICK X : ss \in Seq(Seg(X))
        BY <1>3 DEF Shaped
    <2> HIDE DEF s
    <2>2. Len(us) = n + 1 /\ us[n + 1] = s /\ \A i \in 1..n : us[i] = ss[i]
        BY <1>1, <2>1, AppendProperties
    <2>3. us # << >>
        <3>1. Len(<< >>) = 0
            BY EmptySeq
        <3> QED
            BY <1>3, <2>2, <3>1
    <2> QED
        BY <2>2, <2>3
<1>6. gs[id] = g /\ \A i \in DOMAIN fs : i # id => gs[i] = fs[i]
    BY <1>1 DEF Put
<1>7. DOMAIN fs \subseteq Nat /\ id \in Nat
    BY <1>1, <1>3 DEF FilesTyped
<1> HIDE DEF gs, us, hp, s, g, o, f, id, n
<1>8. /\ Offset(n + 1, hp) = o /\ hp = IF n = 0 THEN o ELSE ho
    <2>1. CASE n = 0
        <3>1. ss = << >>
            BY <1>3, <2>1, Shape DEF n
        <3> QED
            BY <1>1, <1>4, <2>1, <3>1 DEF Offset, o, From
    <2>2. CASE n # 0
        <3>1. 1 \in 1..n /\ n + 1 # 1
            BY <1>3, <2>2
        <3>2. ss[1].id < id /\ ss[1].id \in DOMAIN fs
            BY <1>1, <3>1
        <3>3. hf[1] <= ss[1].id /\ hf[1] \in Nat
            BY <1>3, <3>2 DEF HeadInv
        <3>4. id # hf[1]
            BY <1>7, <3>2, <3>3
        <3> QED
            BY <1>1, <2>2, <3>1, <3>4 DEF Offset, o, From
    <2> QED
        BY <2>1, <2>2
<1>9. \A i \in 1..n : Offset(i, hp) = Offset(i, ho) /\ gs[ss[i].id] = fs[ss[i].id]
    <2> SUFFICES ASSUME NEW i \in 1..n PROVE Offset(i, hp) = Offset(i, ho) /\ gs[ss[i].id] = fs[ss[i].id]
        OBVIOUS
    <2>1. n # 0
        BY <1>3
    <2>2. ss[i].id # id
        BY <1>1, <1>7
    <2> QED
        BY <1>1, <1>6, <1>8, <2>1, <2>2
<1>10. \A i \in 1..(n + 1) : i \in 1..n \/ i = n + 1
    BY <1>3
<1>11. Sound(gs, us, hp)
    <2>1. \A i \in 1..n : SoundSeg(gs[us[i].id], Offset(i, hp), us[i])
        BY <1>4, <1>5, <1>9 DEF Sound, n
    <2>2. SoundSeg(gs[us[n + 1].id], Offset(n + 1, hp), us[n + 1])
        BY <1>1, <1>2, <1>5, <1>6, <1>8 DEF SoundSeg
    <2> QED
        BY <1>5, <1>10, <2>1, <2>2 DEF Sound
<1>12. Located(hf, us, hp)
    <2>1. \A i \in 1..n : From(hf, us[i].id) = Offset(i, hp)
        BY <1>4, <1>5, <1>9 DEF Located, n
    <2>2. From(hf, us[n + 1].id) = Offset(n + 1, hp)
        BY <1>2, <1>5, <1>8 DEF o
    <2> QED
        BY <1>5, <1>10, <2>1, <2>2 DEF Located
<1>13. /\ FilesTyped(m) /\ Put(mg, m, id, g) /\ \A d \in DOMAIN m : d <= id
      /\ id \notin DOMAIN m
    <2>1. DOMAIN m = DOMAIN fs \ todo /\ \A d \in DOMAIN m : m[d] = fs[d]
        BY DEF Minus
    <2>2. DOMAIN mg = DOMAIN gs \ (todo \ {id}) /\ \A d \in DOMAIN mg : mg[d] = gs[d]
        BY <1>1 DEF Minus
    <2>3. DOMAIN mg = DOMAIN m \cup {id}
        BY <1>1, <2>1, <2>2
    <2> HIDE DEF m, mg
    <2>4. FilesTyped(m)
        BY <1>3, <2>1 DEF FilesTyped
    <2>5. \A d \in DOMAIN m : d <= id
        BY <1>1, <1>7, <2>1
    <2>6. id \notin DOMAIN m
        BY <1>1, <2>1
    <2>7. Put(mg, m, id, g)
        BY <1>6, <2>1, <2>2, <2>3 DEF Put
    <2> QED
        BY <2>4, <2>5, <2>6, <2>7
<1>14. Counted(mg, hf, count', bytes')
    <2> HIDE DEF m, mg
    <2>1. /\ SameFront(Rec, Part(m, hf, id), Records(g, From(hf, id)), Joined(m, hf), Joined(mg, hf))
          /\ SameFront(Cell, CellsOf(m, id), g, Used(m), Used(mg))
        BY <1>1, <1>3, <1>13, PutLast
    <2>2. Part(m, hf, id) = << >> /\ CellsOf(m, id) = << >>
        BY <1>13 DEF Part, CellsOf
    <2> DEFINE x == << >>
               y == Records(g, o)
               u == Joined(m, hf)
               v == Joined(mg, hf)
               w == Used(m)
               z == Used(mg)
    <2>3. /\ x \in Seq(Rec) /\ x \in Seq(Cell) /\ Len(x) = 0 /\ y \in Seq(Rec) /\ Len(y) \in Nat /\ Len(g) \in Nat
          /\ SameFront(Rec, x, y, u, v) /\ SameFront(Cell, x, g, w, z)
          /\ count = Len(u) /\ bytes = Len(w) /\ count' = count + Len(y) /\ bytes' = bytes + Len(g)
        <3>1. y \in Seq(Rec)
            BY <1>1, RecordsType
        <3>2. Len(y) \in Nat /\ Len(g) \in Nat
            BY <1>1, <3>1, LenProperties
        <3> QED
            BY <1>1, <1>4, <2>1, <2>2, <3>1, <3>2, EmptyScan DEF Counted, o
    <2> HIDE DEF x, y, u, v, w, z
    <2>4. Len(u) \in Nat /\ Len(v) \in Nat /\ Len(v) = Len(u) - Len(x) + Len(y)
        <3>1. x \in Seq(Rec) /\ y \in Seq(Rec) /\ SameFront(Rec, x, y, u, v)
            BY <2>3
        <3> QED
            BY <3>1, FrontLen
    <2>5. Len(w) \in Nat /\ Len(z) \in Nat /\ Len(z) = Len(w) - Len(x) + Len(g)
        <3>1. x \in Seq(Cell) /\ g \in Seq(Cell) /\ SameFront(Cell, x, g, w, z)
            BY <1>1, <2>3
        <3> QED
            BY <3>1, FrontLen
    <2>6. count' = Len(v)
        BY <2>3, <2>4
    <2>7. bytes' = Len(z)
        BY <2>3, <2>5
    <2> QED
        BY <2>6, <2>7 DEF Counted, v, z
<1>15. StateInv'
    <2>1. /\ Contiguous(DOMAIN files') /\ peeked' = None /\ segments' # << >> /\ pc' = "recover"
        BY <1>1, <1>4, <1>5 DEF gs, us
    <2>2. Sound(files', segments', headOff')
        BY <1>11 DEF gs, us, hp
    <2>3. Located(headFile', segments', headOff')
        BY <1>1, <1>12 DEF us, hp
    <2>4. Counted(Minus(files', todo'), headFile', count', bytes')
        BY <1>1, <1>14 DEF gs
    <2> HIDE DEF m, mg
    <2> QED
        BY <2>1, <2>2, <2>3, <2>4 DEF StateInv
<1>16. Joined(gs, hf) = Joined(fs, hf)
    <2>1. FilesTyped(gs)
        BY <1>1, <1>3, PutTyped DEF Positive
    <2>2. \A d \in Positive : Part(gs, hf, d) = Part(fs, hf, d)
        <3>1. Part(gs, hf, id) = Part(fs, hf, id)
            BY <1>1, <1>6 DEF Part, o, f
        <3>2. \A d \in Positive : d # id => Part(gs, hf, d) = Part(fs, hf, d)
            BY <1>1, <1>6 DEF Part
        <3> QED
            BY <3>1, <3>2
    <2> QED
        BY <1>3, <2>1, <2>2, JoinedSame
<1>17. Unread' = Unread
    BY <1>1, <1>16, UnreadJoined DEF gs
<1> QED
    BY <1>1, <1>15, <1>17

LEMMA UsedSame ==
    ASSUME NEW fs, NEW gs, FilesTyped(fs), FilesTyped(gs),
           \A id \in Positive : CellsOf(fs, id) = CellsOf(gs, id)
    PROVE  Used(fs) = Used(gs)
<1> DEFINE P == CellMap(fs)
           Q == CellMap(gs)
           n == NewestOf(fs)
           m == NewestOf(gs)
<1>0. <<0, 0>> \in Nat \X Nat
    OBVIOUS
<1>1. n \in Nat /\ P \in [Positive -> Seq(Cell)] /\ Ends(P, n)
    BY <1>0, MapTypes
<1>2. m \in Nat /\ Q \in [Positive -> Seq(Cell)] /\ Ends(Q, m)
    BY <1>0, MapTypes
<1>3. \A id \in Positive : P[id] = Q[id]
    BY DEF CellMap
<1> HIDE DEF P, Q, n, m
<1>4. Flat(P, n) = Flat(Q, m)
    <2>1. P = Q
        BY <1>1, <1>2, <1>3
    <2>2. Ends(P, m)
        BY <1>2, <2>1
    <2> QED
        BY <1>1, <1>2, <2>1, <2>2, FlatSame
<1> QED
    BY <1>4 DEF P, Q, n, m, Used

LEMMA RecoveredState ==
    ASSUME DiskInv, CellsInv, StateInv, recover_done
    PROVE  StateInv' /\ Unread' = Unread /\ dropped' = dropped
<1> DEFINE m == Minus(files, todo)
           hf == headFile
<1>1. /\ pc = "recover" /\ pc' = "open_bound" /\ todo = {} /\ todo' = {} /\ headFile' = hf /\ headOff' = headOff
      /\ count' = count /\ bytes' = bytes /\ dropped' = dropped /\ peeked' = peeked
    BY DEF recover_done
<1>2. /\ Contiguous(DOMAIN files) /\ peeked = None /\ (segments = << >> => headOff = 0)
      /\ Sound(files, segments, headOff) /\ Located(hf, segments, headOff)
      /\ Counted(m, hf, count, bytes)
    BY <1>1 DEF StateInv, Emptied
<1>3. FilesTyped(files) /\ hf \in Nat \X Nat
    BY CellsFacts
<1>4. DOMAIN files = SegIds(segments) /\ HeadInv
    BY <1>1 DEF DiskInv, SegmentsInv
<1>5. DOMAIN m = DOMAIN files /\ (\A id \in DOMAIN m : m[id] = files[id]) /\ FilesTyped(m)
    <2>1. DOMAIN m = DOMAIN files /\ \A id \in DOMAIN m : m[id] = files[id]
        BY <1>1 DEF Minus
    <2> HIDE DEF m
    <2> QED
        BY <1>3, <2>1 DEF FilesTyped
<1> HIDE DEF m
<1>6. Joined(m, hf) = Joined(files, hf) /\ Used(m) = Used(files)
    <2>1. \A id \in Positive : Part(m, hf, id) = Part(files, hf, id) /\ CellsOf(m, id) = CellsOf(files, id)
        BY <1>5 DEF Part, CellsOf
    <2>2. Joined(m, hf) = Joined(files, hf)
        BY <1>3, <1>5, <2>1, JoinedSame
    <2>3. Used(m) = Used(files)
        BY <1>3, <1>5, <2>1, UsedSame
    <2> QED
        BY <2>2, <2>3
<1>7. Counted(files, hf, count, bytes)
    BY <1>2, <1>6 DEF Counted
<1>8. CASE segments # << >>
    <2>1. segments' = segments /\ files' = files
        BY <1>8 DEF recover_done
    <2>2. StateInv'
        <3>1. /\ pc' \notin {"down", "recover"} /\ pc' \notin {"idle", "ack_head"} /\ segments' # << >> /\ todo' = {}
              /\ peeked' = None
            BY <1>1, <1>2, <1>8, <2>1
        <3>2. /\ Contiguous(DOMAIN files') /\ Sound(files', segments', headOff')
              /\ Located(headFile', segments', headOff') /\ Counted(files', headFile', count', bytes')
            BY <1>1, <1>2, <1>7, <2>1
        <3> QED
            BY <3>1, <3>2, StateRunning, Zenon
    <2> QED
        BY <1>1, <2>1, <2>2, SameUnread
<1>9. CASE segments = << >>
    <2> DEFINE s == [id |-> 1, size |-> 0, records |-> 0]
               gs == With(files, 1, Cells(1))
    <2>1. segments' = <<s>> /\ files' = gs
        BY <1>9 DEF recover_done
    <2>2. DOMAIN files = {}
        <3>1. 1..Len(segments) = {}
            BY <1>9
        <3> QED
            BY <1>4, <3>1 DEF SegIds
    <2>3. DOMAIN gs = {1} /\ gs[1] = << >>
        BY <2>2 DEF With, Cells
    <2>4. s.id = 1 /\ s.size = 0 /\ s.records = 0 /\ Len(<<s>>) = 1 /\ <<s>>[1] = s /\ <<s>> # << >>
        OBVIOUS
    <2> HIDE DEF gs, s
    <2>5. FilesTyped(gs)
        <3>1. 1 \in Nat \ {0} /\ 1 <= 1 /\ << >> \in Seq(Cell)
            BY EmptyScan
        <3>2. \E b \in Nat : \A id \in DOMAIN gs : id <= b
            BY <2>3, <3>1
        <3>3. DOMAIN gs \subseteq Nat \ {0} /\ \A id \in DOMAIN gs : gs[id] \in Seq(Cell)
            BY <2>3, <3>1
        <3> QED
            BY <3>2, <3>3 DEF FilesTyped
    <2>6. Joined(gs, hf) = << >> /\ Used(gs) = << >>
        BY <1>3, <2>3, <2>5, JoinedBlank
    <2>7. Joined(files, hf) = << >> /\ Used(files) = << >>
        BY <1>3, <2>2, JoinedBlank
    <2>8. Counted(gs, hf, count, bytes)
        BY <1>7, <2>6, <2>7 DEF Counted
    <2>9. From(hf, 1) = 0
        <3>1. hf[1] = 0
            BY <1>4, <2>2 DEF HeadInv
        <3> QED
            BY <3>1 DEF From
    <2>10. \A i \in 1..1 : i = 1
        OBVIOUS
    <2>11. Located(hf, <<s>>, 0)
        BY <2>4, <2>9, <2>10 DEF Located, Offset
    <2>12. Sound(gs, <<s>>, 0)
        <3>1. SoundSeg(<< >>, 0, s)
            BY <2>4, EmptyScan DEF SoundSeg
        <3> QED
            BY <2>3, <2>4, <2>10, <3>1 DEF Sound, Offset
    <2>13. Contiguous(DOMAIN gs)
        <3>1. \A c \in Nat : 1 <= c /\ c <= 1 => c = 1
            OBVIOUS
        <3> QED
            BY <2>3, <3>1 DEF Contiguous
    <2>14. StateInv'
        <3>1. /\ pc' \notin {"down", "recover"} /\ pc' \notin {"idle", "ack_head"} /\ segments' # << >> /\ todo' = {}
              /\ peeked' = None
            BY <1>1, <1>2, <2>1, <2>4
        <3>2. /\ Contiguous(DOMAIN files') /\ Sound(files', segments', headOff')
              /\ Located(headFile', segments', headOff') /\ Counted(files', headFile', count', bytes')
            BY <1>1, <1>2, <1>9, <2>1, <2>8, <2>11, <2>12, <2>13
        <3> QED
            BY <3>1, <3>2, StateRunning, Zenon
    <2>15. Unread' = Unread
        BY <1>1, <2>1, <2>6, <2>7, UnreadJoined
    <2> QED
        BY <1>1, <2>14, <2>15
<1> QED
    BY <1>8, <1>9

----------------------------------------------------------------------------
\* Every step.

\* The variables that only record what has happened.
HistInv ==
    /\ pc \in Pcs
    /\ dropped \in Nat
    /\ accepted \subseteq 1..pushed /\ released \subseteq 1..pushed

\* As long as no call has failed, everything holds.
Healthy == faults = << >> => DiskInv /\ CellsInv /\ StateInv /\ HistInv

QueueInv == faults \in Seq(Faults) /\ Healthy

LEMMA StateInit == DiskQueueInit => StateInv /\ HistInv /\ faults \in Seq(Faults) /\ faults = << >>
<1> SUFFICES ASSUME DiskQueueInit PROVE StateInv /\ HistInv /\ faults \in Seq(Faults) /\ faults = << >>
    OBVIOUS
<1>1. /\ files = << >> /\ segments = << >> /\ headOff = 0 /\ count = 0 /\ bytes = 0 /\ dropped = 0
      /\ peeked = None /\ todo = {} /\ pc = "down"
      /\ pushed = 0 /\ accepted = {} /\ released = {} /\ faults = << >>
    BY DEF DiskQueueInit
<1>2. 1..Len(segments) = {} /\ DOMAIN files = {}
    BY <1>1
<1>3. Contiguous(DOMAIN files) /\ Sound(files, segments, headOff) /\ Located(headFile, segments, headOff)
    BY <1>2 DEF Contiguous, Sound, Located
<1>4. StateInv
    BY <1>1, <1>3 DEF StateInv
<1>5. HistInv
    BY <1>1 DEF HistInv, Pcs
<1>6. faults \in Seq(Faults)
    BY <1>1, EmptySeq
<1> QED
    BY <1>1, <1>4, <1>5, <1>6

\* What the releases put into the history are records of the files.
LEMMA IdsPushed ==
    ASSUME CellsInv, NEW id \in DOMAIN files, NEW off \in Nat
    PROVE  Ids(files[id], off) \subseteq 1..pushed
<1>1. files[id] \in Seq(Cell) /\ CellIds(files, pushed) /\ pushed \in Nat
    BY CellsFacts
<1> DEFINE f == files[id]
<1>2. Len(f) \in Nat /\ \A i \in 1..Len(f) : f[i][1] \in Nat /\ f[i][1] <= pushed
    BY <1>1, CellShape DEF CellIds
<1> HIDE DEF f
<1>3. \A i \in (off + 1)..Len(f) : i \in 1..Len(f)
    BY <1>2
<1>4. Ids(f, off) \subseteq 1..pushed
    BY <1>1, <1>2, <1>3 DEF Ids
<1> QED
    BY <1>4 DEF f

LEMMA HeadIdPushed ==
    ASSUME DiskInv, CellsInv, StateInv, pc = "idle", Readable
    PROVE  HeadRecord[1] \in 1..pushed
<1> DEFINE a == segments[1].id
           f == files[a]
<1>1. a \in DOMAIN files /\ f \in Seq(Cell) /\ headOff \in Nat
    BY Running
<1>2. ValidAt(f, headOff) /\ HeadRecord = RecordAt(f, headOff)
    BY HeadIs
<1>3. CellIds(files, pushed) /\ pushed \in Nat
    BY CellsFacts
<1>4. Len(f) \in Nat /\ headOff + 1 \in 1..Len(f)
    BY <1>1, <1>2, CellShape DEF ValidAt
<1>5. f[headOff + 1][3] = 1 /\ HeadRecord[1] = f[headOff + 1][1]
    BY <1>2 DEF ValidAt, RecordAt
<1>6. f[headOff + 1][1] \in Nat /\ f[headOff + 1][1] <= pushed /\ f[headOff + 1][1] >= 1
    BY <1>1, <1>3, <1>4, <1>5, CellShape DEF CellIds
<1> QED
    BY <1>3, <1>5, <1>6

LEMMA ReleasedByDrop ==
    ASSUME DiskInv, CellsInv, StateInv, HistInv, pc \notin {"down", "recover"},
           NEW rec, rec = None \/ rec[1] \in 1..pushed,
           (\E next : dropHead(rec, next)) \/ resetOnly(rec)
    PROVE  released' \subseteq 1..pushed /\ pushed' = pushed /\ accepted' = accepted
<1>1. /\ released' = released \cup IF rec = None THEN Ids(files[segments[1].id], headOff) ELSE {rec[1]}
      /\ pushed' = pushed /\ accepted' = accepted
    BY DEF dropHead, resetOnly
<1>2. Ids(files[segments[1].id], headOff) \subseteq 1..pushed
    BY Running, IdsPushed
<1> QED
    BY <1>1, <1>2 DEF HistInv

LEMMA StateNext ==
    ASSUME DiskInv, CellsInv, StateInv, HistInv, Clean, RecordsFit, [DiskQueueNext]_dqVars
    PROVE  StateInv' /\ dropped' \in Nat
<1>1. dropped \in Nat
    BY DEF HistInv
<1>2. CASE Open
    BY <1>1, <1>2, OpenState
<1>3. CASE scanSegment
    BY <1>1, <1>3, ScanState
<1>4. CASE recover_done
    BY <1>1, <1>4, RecoveredState
<1>5. CASE Push
    BY <1>1, <1>5, PushState
<1>6. CASE Push_torn
    BY <1>6, TornState
<1>7. CASE Push_fails \/ Corrupt \/ recover_skip \/ recover_fails \/ roll_fails \/ Close_fails
    BY <1>7, CleanCalls DEF Push_fails, Corrupt, recover_skip, recover_fails, roll_fails, Close_fails
<1>8. CASE enforceBound_drop
    <2>1. pc \notin {"down", "recover"}
        BY <1>8 DEF enforceBound_drop
    <2>2. Len(Records(files[segments[1].id], headOff)) \in Nat
        BY <2>1, Running, RecordsType, LenProperties
    <2>3. StateInv' /\ dropped' = dropped + (Len(Records(files[segments[1].id], headOff)) - 0)
        BY <1>8, EvictState
    <2> QED
        BY <1>1, <2>2, <2>3
<1>9. CASE enforceBound_done \/ Peek \/ UNCHANGED dqVars
    BY <1>1, <1>9, QuietState
<1>10. CASE writeHead
    BY <1>1, <1>10, WriteHeadState
<1>11. CASE Ack_advance
    <2>1. dropped' = dropped
        BY <1>11 DEF Ack_advance
    <2> QED
        BY <1>1, <1>11, <2>1, AdvanceState
<1>12. CASE Ack_last
    BY <1>1, <1>12, AckLastState
<1>13. CASE Ack_discard
    BY <1>1, <1>13, DiscardState
<1>14. CASE Close \/ Crash
    BY <1>14, ExitState
<1> QED
    BY <1>2, <1>3, <1>4, <1>5, <1>6, <1>7, <1>8, <1>9, <1>10, <1>11, <1>12, <1>13, <1>14 DEF DiskQueueNext

LEMMA HistNext ==
    ASSUME DiskInv, CellsInv, StateInv, HistInv, Clean, RecordsFit, [DiskQueueNext]_dqVars
    PROVE  HistInv'
<1>0. StateInv' /\ dropped' \in Nat
    BY StateNext
<1>1. /\ pc \in Pcs /\ pushed \in Nat
      /\ accepted \subseteq 1..pushed /\ released \subseteq 1..pushed
    BY CellsFacts DEF HistInv
<1>2. CASE Open \/ scanSegment \/ recover_done \/ enforceBound_done \/ Peek \/ writeHead
           \/ Close \/ Crash \/ UNCHANGED dqVars
    <2>1. pushed' = pushed /\ accepted' = accepted /\ released' = released
        BY <1>2 DEF Open, scanSegment, recover_done, enforceBound_done, Peek, writeHead, Close, Crash,
                    dqVars, history
    <2>2. pc' \in Pcs
        <3>1. pc' \in Pcs \/ pc' = pc
            BY <1>2 DEF Open, scanSegment, recover_done, enforceBound_done, Peek, writeHead, Close, Crash,
                        dqVars, Exit, Pcs
        <3> QED
            BY <1>1, <3>1
    <2> QED
        BY <1>0, <1>1, <2>1, <2>2 DEF HistInv
<1>3. CASE Push \/ Push_torn
    <2>1. /\ pushed' = pushed + 1 /\ released' = released
          /\ accepted' = accepted \/ accepted' = accepted \cup {pushed + 1}
          /\ pc' \in Pcs
        BY <1>3 DEF Push, Push_torn, Exit, Pcs
    <2>2. 1..pushed \subseteq 1..(pushed + 1) /\ pushed + 1 \in 1..(pushed + 1)
        BY <1>1
    <2> QED
        BY <1>0, <1>1, <2>1, <2>2 DEF HistInv
<1>4. CASE Push_fails \/ Corrupt \/ recover_skip \/ recover_fails \/ roll_fails \/ Close_fails
    BY <1>4, CleanCalls DEF Push_fails, Corrupt, recover_skip, recover_fails, roll_fails, Close_fails
<1>5. CASE Ack_advance
    <2>1. /\ pushed' = pushed /\ accepted' = accepted /\ released' = released \cup {HeadRecord[1]} /\ pc' = pc
          /\ pc = "idle" /\ Readable
        BY <1>5 DEF Ack_advance
    <2>2. HeadRecord[1] \in 1..pushed
        BY <2>1, HeadIdPushed
    <2> QED
        BY <1>0, <1>1, <2>1, <2>2 DEF HistInv
<1>6. CASE enforceBound_drop \/ Ack_last \/ Ack_discard
    <2>1. PICK rec : /\ pc \notin {"down", "recover"}
                     /\ rec = None \/ (rec = HeadRecord /\ pc = "idle" /\ Readable)
                     /\ \/ \E next \in Pcs : dropHead(rec, next)
                        \/ resetOnly(rec)
        BY <1>6 DEF enforceBound_drop, Ack_last, Ack_discard, Pcs
    <2>2. rec = None \/ rec[1] \in 1..pushed
        BY <2>1, HeadIdPushed
    <2>3. released' \subseteq 1..pushed /\ pushed' = pushed /\ accepted' = accepted
        BY <2>1, <2>2, ReleasedByDrop
    <2>4. pc' \in Pcs
        BY <1>1, <2>1 DEF dropHead, resetOnly, resetHead, Pcs
    <2> QED
        BY <1>0, <1>1, <2>3, <2>4 DEF HistInv
<1> QED
    BY <1>2, <1>3, <1>4, <1>5, <1>6 DEF DiskQueueNext

LEMMA QueueInvNext ==
    ASSUME RecordsFit
    PROVE  QueueInv /\ [DiskQueueNext]_dqVars => QueueInv'
<1> SUFFICES ASSUME QueueInv, [DiskQueueNext]_dqVars PROVE QueueInv'
    OBVIOUS
<1>1. faults \in Seq(Faults) /\ Healthy
    BY DEF QueueInv
<1>2. faults' \in Seq(Faults) /\ (faults' = << >> => faults' = faults)
    BY <1>1, FaultsGrow
<1>3. ASSUME faults' = << >> PROVE DiskInv' /\ CellsInv' /\ StateInv' /\ HistInv'
    <2>1. faults = << >> /\ Clean
        BY <1>1, <1>2, <1>3 DEF Clean
    <2>2. DiskInv /\ CellsInv /\ StateInv /\ HistInv
        BY <1>1, <2>1 DEF Healthy
    <2>3. ~Failed({"roll"})'
        <3>1. Len(faults') = 0
            BY <1>3
        <3> QED
            BY <3>1 DEF Failed
    <2> QED
        BY <1>1, <2>1, <2>2, <2>3, DiskInvNext, CellsNext, StateNext, HistNext
<1> QED
    BY <1>2, <1>3 DEF QueueInv, Healthy

LEMMA QueueInvAlways == ASSUME RecordsFit PROVE DiskQueueSpec => []QueueInv
<1>1. DiskQueueInit => QueueInv
    BY DiskInvInit, CellsInit, StateInit DEF QueueInv, Healthy
<1>2. QueueInv /\ [DiskQueueNext]_dqVars => QueueInv'
    BY QueueInvNext
<1> QED
    BY <1>1, <1>2, PTL DEF DiskQueueSpec

----------------------------------------------------------------------------
\* What the process will deliver is what is unread on the disk.

LEMMA Consecutive ==
    ASSUME NEW ss, Shaped(ss), Increasing(ss), Contiguous(SegIds(ss)), Len(ss) >= 1
    PROVE  \A i \in 1..Len(ss) : ss[i].id = ss[1].id + (i - 1)
<1> DEFINE m == Len(ss)
           id(i) == ss[i].id
           S == {n \in Nat : n + 1 \in 1..m => id(n + 1) = id(1) + n}
<1>1. /\ m \in Nat /\ \A i \in 1..m : id(i) \in Nat
      /\ \A x : x \in SegIds(ss) <=> \E i \in 1..m : id(i) = x
    BY Shape
<1>2. \A i, j \in 1..m : i < j => id(i) < id(j)
    BY DEF Increasing
<1>3. 0 \in S
    <2>1. 1 \in 1..m
        BY <1>1
    <2> QED
        BY <1>1, <2>1
<1>4. ASSUME NEW n \in Nat, n \in S PROVE n + 1 \in S
    <2> SUFFICES ASSUME (n + 1) + 1 \in 1..m PROVE id((n + 1) + 1) = id(1) + (n + 1)
        BY <1>4
    <2> DEFINE a == id(n + 1)
               b == id((n + 1) + 1)
               c == a + 1
    <2>1. n + 1 \in 1..m /\ 1 \in 1..m /\ n + 1 < (n + 1) + 1
        BY <1>1
    <2>2. a = id(1) + n /\ a \in Nat /\ b \in Nat /\ a < b /\ id(1) \in Nat
        BY <1>1, <1>2, <1>4, <2>1
    <2>3. c \in SegIds(ss)
        <3>1. a \in SegIds(ss) /\ b \in SegIds(ss)
            BY <1>1, <2>1
        <3>2. c \in Nat /\ a <= c /\ c <= b
            BY <2>2
        <3> HIDE DEF a, b, c
        <3> QED
            BY <3>1, <3>2 DEF Contiguous
    <2>4. PICK j \in 1..m : id(j) = c
        BY <1>1, <2>3
    <2> HIDE DEF id
    <2>5. ~(j < n + 1) /\ j # n + 1
        <3>1. j < n + 1 => id(j) < a
            BY <1>2, <2>1
        <3> QED
            BY <2>2, <2>4, <3>1
    <2>6. ~(j > (n + 1) + 1)
        <3>1. j > (n + 1) + 1 => b < id(j)
            BY <1>2
        <3> QED
            BY <2>2, <2>4, <3>1
    <2>7. j = (n + 1) + 1
        BY <1>1, <2>5, <2>6
    <2> QED
        BY <2>2, <2>4, <2>7
<1>5. \A n \in Nat : n \in S
    <2> HIDE DEF S
    <2> QED
        BY <1>3, <1>4, SetInduction
<1> SUFFICES ASSUME NEW i \in 1..m PROVE id(i) = id(1) + (i - 1)
    OBVIOUS
<1>6. i - 1 \in Nat /\ (i - 1) + 1 = i
    BY <1>1
<1>7. i - 1 \in S
    BY <1>5, <1>6
<1> HIDE DEF id
<1> QED
    BY <1>6, <1>7

LEMMA PendingUnread ==
    ASSUME DiskInv, CellsInv, StateInv, pc \notin {"down", "recover"}, Located(headFile, segments, headOff)
    PROVE  Unread = Pending
<1> DEFINE m == Len(segments)
           a == segments[1].id
           n == NewestOf(files)
           P == Row(PartMap(files, headFile), n)
           Q == [i \in 1..m |-> Records(files[segments[i].id], Offset(i, headOff))]
<1>1. /\ m \in Nat /\ m >= 1 /\ 1 \in 1..m /\ a \in Positive
      /\ headFile[1] <= a /\ headFile \in Nat \X Nat /\ headOff \in Nat /\ FilesTyped(files)
      /\ DOMAIN files \subseteq Positive
    BY Running
<1>0. a \in Nat /\ a >= 1 /\ m \in Nat /\ m >= 1
    BY <1>1 DEF Positive
<1>2. /\ Shaped(segments) /\ Increasing(segments) /\ DOMAIN files = SegIds(segments)
      /\ \A i \in 1..m : segments[i].id \in DOMAIN files
      /\ \A id \in DOMAIN files : a <= id
      /\ \A id : id \in SegIds(segments) <=> \E i \in 1..m : segments[i].id = id
    BY OldestFirst, Shape
<1>3. \A i \in 1..m : segments[i].id = a + (i - 1)
    BY <1>1, <1>2, Consecutive DEF StateInv
<1>4. /\ n \in Nat /\ PartMap(files, headFile) \in [Positive -> Seq(Rec)]
      /\ Ends(PartMap(files, headFile), n)
    BY <1>1, MapTypes
<1>5. n = (a - 1) + m /\ a - 1 \in Nat
    <2>1. a - 1 \in Nat
        BY <1>1 DEF Positive
    <2>2. m \in 1..m /\ segments[m].id = (a - 1) + m
        <3>1. m \in 1..m
            BY <1>0
        <3>2. segments[m].id = a + (m - 1)
            BY <1>3, <3>1
        <3> HIDE DEF m, a
        <3>3. a + (m - 1) = (a - 1) + m
            BY <1>0
        <3> QED
            BY <3>1, <3>2, <3>3
    <2>3. n >= segments[m].id
        BY <1>1, <1>2, <2>2, NewestFile
    <2>4. n = 0 \/ n \in DOMAIN files
        BY <1>1, NewestFile
    <2>5. n <= (a - 1) + m
        <3>1. CASE n = 0
            BY <1>1, <2>1, <3>1
        <3>2. CASE n \in DOMAIN files
            <4>1. PICK i \in 1..m : segments[i].id = n
                BY <1>2, <3>2
            <4>2. n = a + (i - 1)
                BY <1>3, <4>1
            <4> QED
                BY <1>1, <2>1, <4>2 DEF Positive
        <3> QED
            BY <2>4, <3>1, <3>2
    <2> HIDE DEF n, a, m
    <2>6. n \in Nat /\ n >= (a - 1) + m
        BY <1>4, <2>2, <2>3
    <2> QED
        BY <1>0, <2>1, <2>5, <2>6
<1>6. /\ P \in Seq(Seq(Rec)) /\ Len(P) = n /\ Joined(files, headFile) = FlattenSeq(P)
      /\ \A id \in 1..n : P[id] = PartMap(files, headFile)[id]
    <2> DEFINE M == PartMap(files, headFile)
    <2> HIDE DEF M
    <2>1. M \in [Positive -> Seq(Rec)]
        BY <1>4 DEF M
    <2>2. /\ Row(M, n) \in Seq(Seq(Rec)) /\ Len(Row(M, n)) = n
          /\ \A id \in 1..n : Row(M, n)[id] = M[id]
          /\ Flat(M, n) = FlattenSeq(Row(M, n))
        BY <1>4, <2>1, FlatShape, Zenon
    <2> QED
        BY <2>2 DEF M, Joined
<1>7. \A id \in 1..n : P[id] = Part(files, headFile, id)
    <2>1. \A id \in 1..n : id \in Positive
        BY <1>4 DEF Positive
    <2> QED
        BY <1>6, <2>1 DEF PartMap
<1>8. Q \in Seq(Seq(Rec)) /\ Len(Q) = m
    <2>1. \A i \in 1..m : Records(files[segments[i].id], Offset(i, headOff)) \in Seq(Rec)
        <3> SUFFICES ASSUME NEW i \in 1..m PROVE Records(files[segments[i].id], Offset(i, headOff)) \in Seq(Rec)
            OBVIOUS
        <3>1. Offset(i, headOff) \in Nat /\ files[segments[i].id] \in Seq(Cell)
            BY <1>1, <1>2 DEF Offset, FilesTyped
        <3> QED
            BY <3>1, RecordsType
    <2> DEFINE E == Seq(Rec)
    <2> HIDE DEF E
    <2>2. Q \in [1..m -> E]
        BY <2>1 DEF E
    <2> HIDE DEF Q, m
    <2>3. Q \in Seq(E) /\ Len(Q) = m
        BY <1>1, <2>2
    <2> QED
        BY <2>3 DEF E
<1>9. \A i \in 1..(a - 1) : P[i] = << >>
    <2> SUFFICES ASSUME NEW i \in 1..(a - 1) PROVE P[i] = << >>
        OBVIOUS
    <2>1. i \in 1..n /\ i \in Nat /\ i < a
        BY <1>1, <1>5 DEF Positive
    <2>2. i \notin DOMAIN files
        BY <1>1, <1>2, <2>1 DEF Positive
    <2> QED
        BY <1>7, <2>1, <2>2 DEF Part
<1>10. \A i \in 1..m : Q[i] = P[(a - 1) + i]
    <2> SUFFICES ASSUME NEW i \in 1..m PROVE Q[i] = P[(a - 1) + i]
        OBVIOUS
    <2> DEFINE id == segments[i].id
    <2>1. id = (a - 1) + i /\ id \in 1..n
        <3>1. id = a + (i - 1)
            BY <1>3
        <3> HIDE DEF id, a, m, n
        <3> QED
            BY <1>0, <1>5, <3>1
    <2>2. id \in DOMAIN files /\ id >= headFile[1]
        <3>1. id \in DOMAIN files /\ a <= id
            BY <1>2
        <3> QED
            BY <1>1, <3>1 DEF Positive
    <2>3. P[id] = Records(files[id], From(headFile, id))
        BY <1>7, <2>1, <2>2 DEF Part
    <2>4. From(headFile, id) = Offset(i, headOff)
        BY DEF Located
    <2>5. Q[i] = Records(files[id], Offset(i, headOff))
        OBVIOUS
    <2> HIDE DEF id, Q, P
    <2> QED
        BY <2>1, <2>3, <2>4, <2>5
<1>11. FlattenSeq(Q) = Pending
    <2>1. \A i \in 1..Len(segments) : Cells(segments[i].id) = files[segments[i].id]
        BY OldestFirst DEF Cells
    <2> QED
        BY <2>1 DEF Pending, Offset
<1> DEFINE b == a - 1
<1> HIDE DEF P, Q, n, m, b
<1>12. FlattenSeq(P) = FlattenSeq(Q)
    <2>1. /\ P \in Seq(Seq(Rec)) /\ Q \in Seq(Seq(Rec)) /\ b \in Nat /\ Len(P) = b + Len(Q)
          /\ \A i \in 1..b : P[i] = << >>
          /\ \A i \in 1..Len(Q) : Q[i] = P[b + i]
        BY <1>5, <1>6, <1>8, <1>9, <1>10 DEF b
    <2> QED
        BY <2>1, FlattenWindow
<1> QED
    BY <1>6, <1>11, <1>12, UnreadJoined

----------------------------------------------------------------------------
\* The properties.
LEMMA StateTypes ==
    ASSUME DiskInv, CellsInv, StateInv, HistInv, faults \in Seq(Faults)
    PROVE  DiskQueueTypeOK
<1>1. /\ FilesTyped(files) /\ headFile \in Nat \X Nat /\ headOff \in Nat /\ peeked \in Nat \X Nat
      /\ pushed \in 0..MaxPush
    BY CellsFacts DEF CellsInv, Rec
<1>2. \A id \in DOMAIN files : files[id] \in Seq(Nat \X Nat \X Nat)
    BY <1>1 DEF FilesTyped, Cell
<1>3. todo \subseteq DOMAIN files
    <2>1. CASE pc = "recover"
        BY <2>1 DEF DiskInv, SegmentsInv
    <2>2. CASE pc # "recover"
        BY <2>2 DEF StateInv
    <2> QED
        BY <2>1, <2>2
<1>4. count \in Nat /\ bytes \in Nat
    <2>1. \A fs : FilesTyped(fs) => Len(Joined(fs, headFile)) \in Nat /\ Len(Used(fs)) \in Nat
        BY <1>1, JoinedType, LenProperties
    <2>2. CASE pc = "down"
        BY <2>2 DEF StateInv
    <2>3. CASE pc = "recover"
        <3> DEFINE m == Minus(files, todo)
        <3>1. DOMAIN m = DOMAIN files \ todo /\ \A id \in DOMAIN m : m[id] = files[id]
            BY DEF Minus
        <3>2. Counted(m, headFile, count, bytes)
            BY <2>3 DEF StateInv
        <3> HIDE DEF m
        <3>3. FilesTyped(m)
            BY <1>1, <3>1 DEF FilesTyped
        <3> QED
            BY <2>1, <3>2, <3>3 DEF Counted
    <2>4. CASE pc \notin {"down", "recover"}
        <3>1. Counted(files, headFile, count, bytes)
            BY <2>4 DEF StateInv
        <3> QED
            BY <1>1, <2>1, <3>1 DEF Counted
    <2> QED
        BY <2>2, <2>3, <2>4
<1>5. segments \in Seq([id : Nat, size : Nat, records : Nat])
    <2> DEFINE s == segments
               T == [id : Nat, size : Nat, records : Nat]
    <2>1. PICK X : s \in Seq(Seg(X))
        BY DEF DiskInv, SegmentsInv, Shaped
    <2>2. ASSUME NEW i \in 1..Len(s) PROVE s[i] \in T
        <3>1. s[i] \in Seg(X)
            BY <2>1, <2>2, ElementOfSeq
        <3>2. /\ s[i] = [id |-> s[i].id, size |-> s[i].size, records |-> s[i].records]
              /\ s[i].id \in Nat
            BY <3>1 DEF Seg
        <3>3. SoundSeg(files[s[i].id], Offset(i, headOff), s[i])
            BY <2>2 DEF StateInv, Sound
        <3>4. files[s[i].id] \in Seq(Cell) /\ Offset(i, headOff) \in Nat
            <4>1. s[i].id \in DOMAIN files
                <5>1. s # << >> /\ s[i].id \in SegIds(s)
                    BY <2>2 DEF SegIds
                <5> QED
                    BY <5>1 DEF DiskInv, SegmentsInv
            <4> QED
                BY <1>1, <4>1 DEF FilesTyped, Offset
        <3>5. s[i].size \in Nat /\ s[i].records \in Nat
            <4>1. Records(files[s[i].id], Offset(i, headOff)) \in Seq(Rec)
                BY <3>4, RecordsType
            <4> QED
                BY <3>3, <3>4, <4>1, LenProperties DEF SoundSeg
        <3> HIDE DEF s
        <3> QED
            BY <3>2, <3>5
    <2>3. s \in [1..Len(s) -> T]
        <3>1. s \in [1..Len(s) -> Seg(X)] /\ Len(s) \in Nat
            BY <2>1, LenProperties
        <3> HIDE DEF s, T
        <3> QED
            BY <2>2, <3>1
    <2>4. Len(s) \in Nat
        BY <2>1, LenProperties
    <2> HIDE DEF s, T
    <2>5. s \in Seq(T)
        BY <2>3, <2>4
    <2> QED
        BY <2>5 DEF s, T
<1>6. DOMAIN files \subseteq Nat \ {0} /\ pc \in Pcs /\ dropped \in Nat
      /\ accepted \subseteq 1..pushed /\ released \subseteq 1..pushed
    BY <1>1 DEF HistInv, FilesTyped
<1> QED
    BY <1>1, <1>2, <1>3, <1>4, <1>5, <1>6 DEF DiskQueueTypeOK

LEMMA StateBetween ==
    ASSUME DiskInv, CellsInv, StateInv
    PROVE  CountersExact /\ RestartInvisible /\ DiskBound
<1> SUFFICES ASSUME pc = "idle"
             PROVE  /\ count = Len(Pending) /\ bytes = DiskUsed /\ Unread = Pending
                    /\ DiskUsed <= MaxBytes \/ Cardinality(DOMAIN files) = 1
    BY DEF CountersExact, RestartInvisible, DiskBound
<1>1. Unread = Pending
    BY RunningLocated, PendingUnread
<1>2. Counted(files, headFile, count, bytes) /\ Len(segments) \in Nat /\ Len(segments) >= 1 /\ FilesTyped(files)
      /\ headFile \in Nat \X Nat
    BY Running
<1>3. count = Len(Pending) /\ bytes = DiskUsed
    BY <1>1, <1>2, UnreadJoined, DiskUsedIs DEF Counted
<1>4. ~(bytes > MaxBytes) \/ ~(Len(segments) > 1)
    BY DEF StateInv, OverBudget
<1>5. CASE ~(bytes > MaxBytes)
    <2>1. bytes \in Nat
        BY <1>2, JoinedType, LenProperties DEF Counted
    <2>2. bytes <= MaxBytes
        BY <1>5, <2>1, DiskQueueAssumption
    <2> QED
        BY <1>1, <1>3, <2>2
<1>6. CASE ~(Len(segments) > 1)
    <2>1. Len(segments) = 1
        <3> DEFINE n == Len(segments)
        <3>1. n \in Nat /\ n >= 1 /\ ~(n > 1)
            BY <1>2, <1>6
        <3> HIDE DEF n
        <3>2. n = 1
            BY <3>1
        <3> QED
            BY <3>2 DEF n
    <2>2. DOMAIN files = {segments[1].id}
        BY <2>1, OldestFirst DEF SegIds
    <2>3. Cardinality(DOMAIN files) = 1
        BY <2>2, FS_Singleton
    <2> QED
        BY <1>1, <1>3, <2>3
<1> QED
    BY <1>4, <1>5, <1>6

LEMMA StatePeeked ==
    ASSUME DiskInv, CellsInv, StateInv
    PROVE  PeekedIsHead
<1> SUFFICES ASSUME peeked # None PROVE Pending # << >> /\ Head(Pending) = peeked
    BY DEF PeekedIsHead
<1> DEFINE a == segments[1].id
           f == files[a]
           ho == headOff
           next == ho + RecordAt(f, ho)[2]
<1>1. pc \notin {"down", "recover"} /\ ValidAt(f, ho) /\ RecordAt(f, ho) = peeked
    BY DEF StateInv
<1>2. /\ f \in Seq(Cell) /\ ho \in Nat /\ FilesTyped(files) /\ a \in DOMAIN files
      /\ \A id \in DOMAIN files : a <= id
      /\ headFile \in Nat \X Nat /\ headFile[1] <= a /\ 1 \in 1..Len(segments)
    BY <1>1, Running
<1>3. f # << >>
    <2>1. ho < Len(f)
        BY <1>1 DEF ValidAt
    <2> QED
        BY <1>2, <2>1, EmptyScan
<1>4. Located(headFile, segments, ho)
    BY <1>3 DEF StateInv, Emptied
<1>5. Unread = Pending
    BY <1>1, <1>4, PendingUnread
<1>6. From(headFile, a) = ho
    BY <1>2, <1>4 DEF Located, Offset
<1>7. /\ Records(f, ho) # << >> /\ Head(Records(f, ho)) = peeked
      /\ Records(f, next) = Tail(Records(f, ho)) /\ next \in Nat /\ Records(f, ho) \in Seq(Rec)
    BY <1>1, <1>2, AdvanceScan, ValidNext, RecordsType
<1>8. SameRest(Rec, Records(f, ho), Records(f, next), Joined(files, headFile), Joined(files, <<a, next>>))
    <2> HIDE DEF next
    <2>1. SameRest(Rec, Records(f, From(headFile, a)), Records(f, next),
                   Joined(files, headFile), Joined(files, <<a, next>>))
        BY <1>2, <1>7, MoveHead
    <2> QED
        BY <1>6, <2>1
<1> DEFINE x == Records(f, ho)
           u == Joined(files, headFile)
           v == Joined(files, <<a, next>>)
<1>9. x \in Seq(Rec) /\ x # << >> /\ SameRest(Rec, x, Tail(x), u, v) /\ Head(x) = peeked /\ Unread = u
    BY <1>7, <1>8, UnreadJoined
<1> HIDE DEF x, u, v
<1>10. u # << >> /\ Head(u) = Head(x)
    BY <1>9, RestTail
<1> QED
    BY <1>5, <1>9, <1>10

\* As long as no call of the operating system has failed, and whatever moment
\* the process is killed at, the types are as declared: no counter of
\* diskqueue.go goes below zero.
THEOREM DiskQueueTyped ==
    ASSUME RecordsFit
    PROVE  DiskQueueSpec => [](faults = << >> => DiskQueueTypeOK)
<1>1. QueueInv => (faults = << >> => DiskQueueTypeOK)
    BY StateTypes DEF QueueInv, Healthy
<1> QED
    BY <1>1, QueueInvAlways, PTL

\* As long as no call has failed, Len() and Bytes() are, between two
\* operations, what is on the disk, and a restart at that moment would deliver
\* exactly what the process was going to.
THEOREM RestartIsInvisible ==
    ASSUME RecordsFit
    PROVE  DiskQueueSpec => [](faults = << >> => CountersExact /\ RestartInvisible)
<1>1. QueueInv => (faults = << >> => CountersExact /\ RestartInvisible)
    BY StateBetween DEF QueueInv, Healthy
<1> QED
    BY <1>1, QueueInvAlways, PTL

\* As long as no call has failed, the files stay inside MaxBytes between two
\* operations, or there is only one.
THEOREM DiskStaysBounded ==
    ASSUME RecordsFit
    PROVE  DiskQueueSpec => [](faults = << >> => DiskBound)
<1>1. QueueInv => (faults = << >> => DiskBound)
    BY StateBetween DEF QueueInv, Healthy
<1> QED
    BY <1>1, QueueInvAlways, PTL

\* As long as no call has failed, the record that Peek has cached is the one
\* that Ack removes, whatever Push has evicted in between.
THEOREM AckRemovesPeeked ==
    ASSUME RecordsFit
    PROVE  DiskQueueSpec => [](faults = << >> => PeekedIsHead)
<1>1. QueueInv => (faults = << >> => PeekedIsHead)
    BY StatePeeked DEF QueueInv, Healthy
<1> QED
    BY <1>1, QueueInvAlways, PTL

-----------------------------------------------------------------------------
\* The disk queue is a ports.Queue: what is unread on the disk changes only
\* as StoreQueue allows, at whatever moment the process is killed.
\*
\* The hard part is that an eviction spares the newest record, also when it
\* is recovery that evicts: what recovery will keep either fits into the
\* budget, or the newest file still has an unread record.

\* No record is larger than the whole budget.
RecordsFitBudget == \A k \in Sizes : k <= MaxBytes

\* What recovery keeps of each file fits into the budget.
FitsInv == \A id \in DOMAIN files : ScanEnd(files[id], From(headFile, id)) <= MaxBytes

\* What recovery keeps of all of them does, or the newest file has a record.
TailInv ==
    \/ Len(Kept(files, headFile)) <= MaxBytes
    \/ Part(files, headFile, NewestOf(files)) # << >>

LEMMA SegBytesFit == SegBytes \in Nat /\ SegBytes <= MaxBytes
<1>1. MaxBytes \in Nat /\ MaxBytes >= 1 /\ SegmentBytes \in Nat
    BY DiskQueueAssumption
<1> DEFINE h == MaxBytes \div 2
<1>2. h \in Nat /\ h <= MaxBytes
    BY <1>1
<1> HIDE DEF h
<1>3. CASE SegmentBytes > h
    BY <1>1, <1>2, <1>3 DEF SegBytes, h
<1>4. CASE ~(SegmentBytes > h)
    BY <1>1, <1>2, <1>4 DEF SegBytes, h
<1> QED
    BY <1>3, <1>4

LEMMA FlatSingle ==
    ASSUME NEW X, NEW P \in [Positive -> Seq(X)], NEW n \in Nat, Ends(P, n), NEW a \in Positive,
           \A id \in Positive : id # a => P[id] = << >>
    PROVE  Flat(P, n) = P[a]
<1> DEFINE Q == [id \in Positive |-> << >>]
<1>1. << >> \in Seq(X)
    BY EmptySeq
<1>2. Q \in [Positive -> Seq(X)] /\ Q[a] = << >> /\ \A id \in Positive : Q[id] = << >>
    BY <1>1
<1> HIDE DEF Q
<1>3. Ends(Q, n) /\ FirstOnly(P, Q, a)
    <2>1. \A id \in Positive : (id < a => id # a) /\ (id > a => id # a)
        BY DEF Positive
    <2> QED
        BY <1>2, <2>1 DEF Ends, FirstOnly
<1>4. SameRest(X, P[a], Q[a], Flat(P, n), Flat(Q, n))
    BY <1>2, <1>3, FlatFirst
<1>5. Flat(Q, n) = << >>
    BY <1>2, FlatBlank
<1>6. PICK R \in Seq(X) : Flat(P, n) = P[a] \o R /\ << >> = << >> \o R
    BY <1>2, <1>4, <1>5 DEF SameRest
<1> DEFINE x == P[a]
<1>7. x \in Seq(X)
    OBVIOUS
<1> HIDE DEF x
<1>8. R = << >> /\ x \o << >> = x
    BY <1>1, <1>6, <1>7, ConcatEmptySeq
<1> QED
    BY <1>6, <1>8 DEF x

LEMMA FlatNonempty ==
    ASSUME NEW X, NEW P \in [Positive -> Seq(X)], NEW n \in Nat, NEW a \in 1..n, P[a] # << >>
    PROVE  Flat(P, n) # << >>
<1> DEFINE S == Row(P, n)
<1>1. S \in Seq(Seq(X)) /\ Len(S) = n /\ (\A id \in 1..n : S[id] = P[id]) /\ Flat(P, n) = FlattenSeq(S)
    BY FlatShape, Zenon
<1> HIDE DEF S
<1>2. a \in 1..Len(S) /\ S[a] # << >>
    BY <1>1
<1>3. /\ FlattenSeq(S) = (FlattenSeq(Before(S, a)) \o S[a]) \o FlattenSeq(After(S, a))
      /\ FlattenSeq(Before(S, a)) \in Seq(X) /\ FlattenSeq(After(S, a)) \in Seq(X)
      /\ S[a] \in Seq(X)
    BY <1>1, <1>2, FlattenAt
<1> DEFINE x == FlattenSeq(Before(S, a))
           y == S[a]
           z == FlattenSeq(After(S, a))
<1>4. x \in Seq(X) /\ y \in Seq(X) /\ z \in Seq(X) /\ FlattenSeq(S) = (x \o y) \o z /\ y # << >>
    BY <1>2, <1>3
<1> HIDE DEF x, y, z
<1>5. x \o y \in Seq(X) /\ Len(x \o y) = Len(x) + Len(y) /\ Len(x) \in Nat /\ Len(y) \in Nat
    BY <1>4
<1>6. Len((x \o y) \o z) = Len(x \o y) + Len(z) /\ Len(z) \in Nat
    BY <1>4, <1>5, ConcatProperties
<1>7. Len(y) # 0
    BY <1>4, EmptySeq
<1>8. Len(FlattenSeq(S)) # 0
    BY <1>4, <1>5, <1>6, <1>7
<1>9. Len(<< >>) = 0
    BY EmptySeq
<1> QED
    BY <1>1, <1>8, <1>9

LEMMA JoinedNonempty ==
    ASSUME NEW fs, FilesTyped(fs), NEW hf \in Nat \X Nat, NEW t \in DOMAIN fs, Part(fs, hf, t) # << >>
    PROVE  Joined(fs, hf) # << >>
<1> DEFINE P == PartMap(fs, hf)
           n == NewestOf(fs)
<1>1. n \in Nat /\ P \in [Positive -> Seq(Rec)]
    BY MapTypes
<1>2. t \in 1..n /\ t \in Positive
    BY <1>1, NewestFile DEF FilesTyped, Positive
<1>3. P[t] # << >>
    BY <1>2 DEF PartMap
<1> HIDE DEF P, n
<1>4. Flat(P, n) # << >>
    BY <1>1, <1>2, <1>3, FlatNonempty
<1> QED
    BY <1>4 DEF P, n, Joined

LEMMA KeptSingle ==
    ASSUME NEW fs, FilesTyped(fs), NEW hf \in Nat \X Nat, NEW a, DOMAIN fs = {a}
    PROVE  Len(Kept(fs, hf)) = ScanEnd(fs[a], From(hf, a))
<1> DEFINE P == KeptMap(fs, hf)
           n == NewestOf(fs)
<1>1. n \in Nat /\ P \in [Positive -> Seq(Cell)] /\ Ends(P, n)
    BY MapTypes
<1>2. a \in Positive /\ fs[a] \in Seq(Cell) /\ From(hf, a) \in Nat
    BY FromType DEF FilesTyped, Positive
<1>3. P[a] = Truncated(fs[a], ScanEnd(fs[a], From(hf, a))) /\ \A id \in Positive : id # a => P[id] = << >>
    BY <1>2 DEF KeptMap, KeptOf
<1> HIDE DEF P, n
<1>4. Flat(P, n) = P[a]
    BY <1>1, <1>2, <1>3, FlatSingle
<1>5. Len(P[a]) = ScanEnd(fs[a], From(hf, a))
    BY <1>2, <1>3, TruncatedScan
<1> QED
    BY <1>4, <1>5 DEF P, n, Kept

LEMMA TruncatedWhole ==
    ASSUME NEW f \in Seq(Cell)
    PROVE  Truncated(f, Len(f)) = f
<1>1. Len(f) \in Nat /\ \A i \in 1..Len(f) : i <= Len(f)
    BY CellShape
<1>2. /\ Truncated(f, Len(f)) \in Seq(Cell) /\ Len(Truncated(f, Len(f))) = Len(f)
      /\ \A i \in 1..Len(f) : Truncated(f, Len(f))[i] = f[i]
    BY <1>1, TruncatedCells
<1> DEFINE g == Truncated(f, Len(f))
<1> HIDE DEF g
<1>3. g = f
    BY <1>2, SeqEqual DEF g
<1> QED
    BY <1>3 DEF g

\* Where every file is whole from where its scan starts, recovery cuts nothing.
LEMMA KeptWhole ==
    ASSUME NEW fs, FilesTyped(fs), NEW hf \in Nat \X Nat,
           \A id \in DOMAIN fs : Whole(fs[id], From(hf, id))
    PROVE  Kept(fs, hf) = Used(fs)
<1>1. \A id : KeptOf(fs, hf, id) = CellsOf(fs, id)
    <2> SUFFICES ASSUME NEW id \in DOMAIN fs PROVE KeptOf(fs, hf, id) = fs[id]
        BY DEF KeptOf, CellsOf
    <2>1. fs[id] \in Seq(Cell) /\ ScanEnd(fs[id], From(hf, id)) = Len(fs[id])
        BY DEF FilesTyped, Whole
    <2> QED
        BY <2>1, TruncatedWhole DEF KeptOf
<1> QED
    BY <1>1, KeptUsed

----------------------------------------------------------------------------
\* A running process.
LEMMA LocatedWhole ==
    ASSUME DiskInv, CellsInv, StateInv, pc \notin {"down", "recover"}, Located(headFile, segments, headOff)
    PROVE  /\ \A id \in DOMAIN files : /\ Whole(files[id], From(headFile, id))
                                       /\ ScanEnd(files[id], From(headFile, id)) = Len(files[id])
           /\ Len(Kept(files, headFile)) = bytes
<1>1. /\ FilesTyped(files) /\ headFile \in Nat \X Nat /\ Counted(files, headFile, count, bytes)
    BY Running
<1>2. \A id \in DOMAIN files : Whole(files[id], From(headFile, id))
    <2> SUFFICES ASSUME NEW id \in DOMAIN files PROVE Whole(files[id], From(headFile, id))
        OBVIOUS
    <2>1. PICK i \in 1..Len(segments) : segments[i].id = id
        BY OldestFirst DEF SegIds
    <2>2. From(headFile, id) = Offset(i, headOff) /\ SoundSeg(files[id], Offset(i, headOff), segments[i])
        BY <2>1 DEF Located, StateInv, Sound
    <2> QED
        BY <2>2 DEF SoundSeg
<1>3. Kept(files, headFile) = Used(files)
    BY <1>1, <1>2, KeptWhole
<1> QED
    BY <1>1, <1>2, <1>3 DEF Counted, Whole

\* Between operations the whole budget holds what recovery would keep.
AtRest == DiskInv /\ CellsInv /\ StateInv /\ FitsInv /\ pc \in {"idle", "ack_head"}

KeptFits == Len(Kept(files, headFile)) <= MaxBytes

LEMMA RestFits == AtRest => KeptFits
<1> SUFFICES ASSUME AtRest PROVE Len(Kept(files, headFile)) <= MaxBytes
    BY DEF KeptFits
<1>1. DiskInv /\ CellsInv /\ StateInv /\ FitsInv /\ pc \in {"idle", "ack_head"} /\ pc \notin {"down", "recover"}
    BY DEF AtRest
<1>2. /\ FilesTyped(files) /\ headFile \in Nat \X Nat /\ Len(segments) \in Nat /\ Len(segments) >= 1
    BY <1>1, Running
<1>3. CASE Len(segments) = 1
    <2>1. DOMAIN files = {segments[1].id}
        BY <1>1, <1>3, OldestFirst DEF SegIds
    <2>2. Len(Kept(files, headFile)) = ScanEnd(files[segments[1].id], From(headFile, segments[1].id))
        BY <1>2, <2>1, KeptSingle
    <2> QED
        BY <1>1, <2>1, <2>2 DEF FitsInv
<1>4. CASE Len(segments) # 1
    <2>1. Len(segments) > 1
        <3> DEFINE n == Len(segments)
        <3>1. n \in Nat /\ n >= 1 /\ n # 1
            BY <1>2, <1>4
        <3> HIDE DEF n
        <3>2. n > 1
            BY <3>1
        <3> QED
            BY <3>2 DEF n
    <2>2. Located(headFile, segments, headOff)
        BY <1>1, <1>4 DEF StateInv, Emptied
    <2>3. Len(Kept(files, headFile)) = bytes
        BY <1>1, <2>2, LocatedWhole
    <2>4. ~(bytes > MaxBytes) /\ bytes \in Nat
        <3>1. ~OverBudget
            BY <1>1 DEF StateInv
        <3>2. Len(Kept(files, headFile)) \in Nat
            BY <1>2, JoinedType
        <3> QED
            BY <2>1, <2>3, <3>1, <3>2 DEF OverBudget
    <2> QED
        BY <2>3, <2>4, DiskQueueAssumption
<1> QED
    BY <1>3, <1>4

LEMMA RestFitsNext == AtRest' => KeptFits'
BY RestFits, PTL

----------------------------------------------------------------------------
\* Each file fits.
LEMMA FitsPut ==
    ASSUME FitsInv, headFile' = headFile, NEW t, NEW g, Put(files', files, t, g),
           ScanEnd(g, From(headFile, t)) <= MaxBytes
    PROVE  FitsInv'
BY DEF FitsInv, Put

LEMMA FitsFewer ==
    ASSUME FitsInv, headFile' = headFile, NEW a, files' = Without(files, a) \/ files' = files
    PROVE  FitsInv'
BY DEF FitsInv, Without

\* The segment that a push of size k writes to has room, or is empty.
LEMMA RolledRoom ==
    ASSUME DiskInv, CellsInv, StateInv, pc = "idle", NEW k \in Nat
    PROVE  LET s == Last(Rolled(k)).size
           IN s \in Nat /\ (s = 0 \/ s + k <= SegBytes)
<1> DEFINE t == Last(Rolled(k)).id
           s == Last(Rolled(k)).size
           f == CellsOf(files, t)
<1>1. f \in Seq(Cell) /\ Rolled(k)[Len(Rolled(k))].size = Len(f)
    BY RolledSound DEF RolledOK, SoundSeg
<1>2. s = Len(f)
    BY <1>1 DEF Last
<1>3. s \in Nat
    BY <1>1, <1>2, CellShape
<1>4. CASE Rolled(k) = segments
    <2>1. ~(s > 0 /\ s + k > SegBytes)
        <3> SUFFICES ASSUME s > 0, s + k > SegBytes PROVE FALSE
            OBVIOUS
        <3>1. Rolled(k) = Append(segments, [id |-> Last(segments).id + 1, size |-> 0, records |-> 0])
            BY <1>4 DEF Rolled
        <3>2. PICK X : segments \in Seq(Seg(X))
            BY OldestFirst DEF Shaped
        <3> DEFINE e == [id |-> Last(segments).id + 1, size |-> 0, records |-> 0]
        <3>3. Len(Append(segments, e)) = Len(segments) + 1 /\ Len(segments) \in Nat
            <4> HIDE DEF e
            <4> QED
                BY <3>2, AppendProperties, LenProperties
        <3> QED
            BY <1>4, <3>1, <3>3
    <2> HIDE DEF s
    <2> QED
        BY <1>3, <2>1, SegBytesFit DEF s
<1>5. CASE Rolled(k) # segments
    <2> DEFINE e == [id |-> Last(segments).id + 1, size |-> 0, records |-> 0]
    <2>1. Rolled(k) = Append(segments, e)
        BY <1>5 DEF Rolled
    <2>2. PICK X : segments \in Seq(Seg(X))
        BY OldestFirst DEF Shaped
    <2>3. e.size = 0
        OBVIOUS
    <2> HIDE DEF e
    <2>4. Append(segments, e)[Len(Append(segments, e))] = e
        BY <2>2, AppendProperties, LenProperties
    <2> QED
        BY <2>1, <2>3, <2>4 DEF Last
<1> QED
    BY <1>4, <1>5

LEMMA NewestIs ==
    ASSUME NEW fs, FilesTyped(fs), NEW t \in DOMAIN fs, \A id \in DOMAIN fs : id <= t
    PROVE  NewestOf(fs) = t
<1>1. t \in Nat /\ t # 0 /\ DOMAIN fs \subseteq Nat
    BY DEF FilesTyped
<1>2. NewestOf(fs) \in Nat /\ t <= NewestOf(fs) /\ (NewestOf(fs) = 0 \/ NewestOf(fs) \in DOMAIN fs)
    BY NewestFile
<1>3. NewestOf(fs) \in DOMAIN fs
    BY <1>1, <1>2
<1> QED
    BY <1>1, <1>2, <1>3

LEMMA PushFits ==
    ASSUME DiskInv, CellsInv, StateInv, RecordsFit, RecordsFitBudget, FitsInv, Push
    PROVE  FitsInv' /\ TailInv'
<1>1. PICK k \in Sizes : pc = "idle" /\ files' = Appended(pushed + 1, k, k) /\ headFile' = headFile
    BY DEF Push
<1> DEFINE m == Len(Rolled(k))
           t == Last(Rolled(k)).id
           f == CellsOf(files, t)
           id == pushed + 1
           g == f \o encode(id, k)
           o == Offset(m, headOff)
           s == Last(Rolled(k)).size
<1>2. /\ f \in Seq(Cell) /\ Whole(f, o) /\ From(headFile, t) = o /\ s = Len(f)
      /\ t \in Positive /\ headFile[1] <= t /\ \A i \in DOMAIN files : i <= t
    BY <1>1, RolledSound DEF RolledOK, SoundSeg, Last
<1>3. o \in Nat /\ id \in Nat /\ k \in Nat \ {0} /\ k \in Nat /\ k <= MaxRecord /\ k <= MaxBytes
    <2>1. k \in Nat \ {0}
        BY DiskQueueAssumption
    <2>2. pushed \in Nat /\ headOff \in Nat
        BY CellsFacts
    <2>3. o \in Nat
        BY <2>2 DEF Offset
    <2> QED
        BY <2>1, <2>2, <2>3 DEF RecordsFit, RecordsFitBudget
<1>4. /\ g \in Seq(Cell) /\ Len(g) = Len(f) + k /\ Whole(g, o)
      /\ Records(g, o) = Append(Records(f, o), <<id, k>>)
    <2> HIDE DEF f, o, id
    <2>1. /\ f \in Seq(Cell) /\ o \in Nat /\ Whole(f, o) /\ id \in Nat /\ k \in Nat \ {0} /\ k <= MaxRecord
        BY <1>2, <1>3
    <2> QED
        BY <2>1, PushScan, Zenon
<1>5. Put(files', files, t, g) /\ DOMAIN files' = DOMAIN files \cup {t}
    <2>1. g = f \o SubSeq(encode(id, k), 1, k)
        BY <1>3, WholeEncoding
    <2>2. f \o SubSeq(encode(id, k), 1, k) \in Seq(Cell) /\ pc = "idle"
        BY <1>1, <1>4, <2>1
    <2>3. LET h == f \o SubSeq(encode(id, k), 1, k)
          IN Put(files', files, t, h) /\ DOMAIN files' = DOMAIN files \cup {t}
        BY <1>1, <2>2, AppendedFront
    <2> HIDE DEF g
    <2> QED
        BY <2>1, <2>3
<1>6. ScanEnd(g, From(headFile, t)) <= MaxBytes
    <2>1. s \in Nat /\ (s = 0 \/ s + k <= SegBytes)
        BY <1>1, <1>3, RolledRoom
    <2>2. ScanEnd(g, From(headFile, t)) = s + k
        BY <1>2, <1>4 DEF Whole
    <2> HIDE DEF s
    <2>3. s + k <= MaxBytes
        BY <1>3, <2>1, SegBytesFit, DiskQueueAssumption
    <2> QED
        BY <2>2, <2>3
<1>7. FitsInv'
    <2> HIDE DEF g, t
    <2> QED
        BY <1>1, <1>5, <1>6, FitsPut
<1>8. Part(files', headFile', NewestOf(files')) # << >>
    <2>1. FilesTyped(files) /\ headFile \in Nat \X Nat
        BY CellsFacts
    <2>2. FilesTyped(files')
        <3> HIDE DEF g, t
        <3> QED
            BY <1>2, <1>4, <1>5, <2>1, PutTyped DEF Positive
    <2>3. t \in DOMAIN files' /\ \A i \in DOMAIN files' : i <= t
        BY <1>2, <1>5 DEF Positive
    <2>4. NewestOf(files') = t
        <3> HIDE DEF t
        <3> QED
            BY <2>2, <2>3, NewestIs
    <2>5. t >= headFile[1] /\ files'[t] = g
        BY <1>2, <1>5, <2>1 DEF Put, Positive
    <2>6. Part(files', headFile', t) = Records(g, o)
        BY <1>1, <1>2, <2>3, <2>5 DEF Part
    <2>7. Records(g, o) # << >>
        <3> DEFINE x == Records(f, o)
                   e == <<id, k>>
        <3>1. x \in Seq(Rec) /\ Records(g, o) = Append(x, e)
            BY <1>2, <1>3, <1>4, RecordsType
        <3> HIDE DEF x, e
        <3>2. Append(x, e) # << >>
            BY <3>1
        <3> QED
            BY <3>1, <3>2
    <2> QED
        BY <2>4, <2>6, <2>7
<1> QED
    BY <1>7, <1>8 DEF TailInv

LEMMA TornFits ==
    ASSUME DiskInv, CellsInv, StateInv, RecordsFit, FitsInv, Push_torn
    PROVE  FitsInv' /\ TailInv'
<1>0. PICK k \in Sizes : \E n \in 0..(k - 1) :
         pc = "idle" /\ files' = Appended(pushed + 1, k, n) /\ headFile' = headFile
    BY DEF Push_torn
<1>1. PICK n \in 0..(k - 1) :
         pc = "idle" /\ files' = Appended(pushed + 1, k, n) /\ headFile' = headFile
    BY <1>0
<1> DEFINE m == Len(Rolled(k))
           t == Last(Rolled(k)).id
           f == CellsOf(files, t)
           id == pushed + 1
           g == f \o SubSeq(encode(id, k), 1, n)
           o == Offset(m, headOff)
           hf == headFile
<1>2. f \in Seq(Cell) /\ Whole(f, o) /\ From(hf, t) = o /\ t \in Positive
    BY <1>1, RolledSound DEF RolledOK, SoundSeg
<1>3. o \in Nat /\ id \in Nat /\ k \in Nat \ {0} /\ k <= MaxRecord
    <2>1. k \in Nat \ {0}
        BY DiskQueueAssumption
    <2>2. pushed \in Nat /\ headOff \in Nat
        BY CellsFacts
    <2>3. o \in Nat
        BY <2>2 DEF Offset
    <2> QED
        BY <2>1, <2>2, <2>3 DEF RecordsFit
<1>4. g \in Seq(Cell) /\ ScanEnd(g, o) = Len(f) /\ n \in 0..k
    <2>1. n \in 0..k
        BY <1>3
    <2> HIDE DEF f, o, id
    <2> QED
        BY <1>2, <1>3, <2>1, TornScan
<1>5. Put(files', files, t, g) /\ DOMAIN files' = DOMAIN files \cup {t}
    <2>1. CellsOf(files, Last(Rolled(k)).id) \o SubSeq(encode(id, k), 1, n) \in Seq(Cell)
        BY <1>4
    <2> QED
        BY <1>1, <2>1, AppendedFront
<1>6. FilesTyped(files) /\ hf \in Nat \X Nat /\ files'[t] = g /\ t \in DOMAIN files'
      /\ \A i \in DOMAIN files : i # t => files'[i] = files[i]
    BY <1>5, CellsFacts DEF Put
<1>7. FilesTyped(files')
    <2> HIDE DEF g, t
    <2> QED
        BY <1>2, <1>4, <1>5, <1>6, PutTyped DEF Positive
<1>8. (t \in DOMAIN files => f = files[t]) /\ (t \notin DOMAIN files => f = << >>)
    BY DEF CellsOf
<1>9. ScanEnd(g, From(hf, t)) <= MaxBytes
    <2>1. CASE t \in DOMAIN files
        BY <1>2, <1>4, <1>8, <2>1 DEF FitsInv, Whole
    <2>2. CASE t \notin DOMAIN files
        <3>1. Len(f) = 0
            BY <1>8, <2>2, EmptyScan
        <3> QED
            BY <1>2, <1>4, <3>1, DiskQueueAssumption
    <2> QED
        BY <2>1, <2>2
<1>10. FitsInv'
    <2> HIDE DEF g, t
    <2> QED
        BY <1>1, <1>5, <1>9, FitsPut
<1>11. KeptOf(files', hf, t) = KeptOf(files, hf, t)
    <2>1. KeptOf(files', hf, t) = Truncated(g, Len(f))
        BY <1>2, <1>4, <1>6 DEF KeptOf
    <2>2. Truncated(g, Len(f)) = f
        <3>1. SubSeq(encode(id, k), 1, n) \in Seq(Cell)
            <4> HIDE DEF id
            <4>1. k \in Nat
                BY <1>3
            <4> QED
                BY <1>3, <1>4, <4>1, EncodeCells
        <3> DEFINE c == SubSeq(encode(id, k), 1, n)
        <3> HIDE DEF c, f
        <3>2. /\ Len(f \o c) = Len(f) + Len(c) /\ (\A i \in 1..Len(f) : (f \o c)[i] = f[i])
              /\ Len(f) \in Nat /\ Len(c) \in Nat /\ f \o c \in Seq(Cell)
            BY <1>2, <3>1, AppendCells, CellShape DEF c
        <3>3. \A i \in 1..Len(f) : i <= Len(f \o c)
            BY <3>2
        <3> DEFINE h == Truncated(f \o c, Len(f))
        <3>4. h \in Seq(Cell) /\ Len(h) = Len(f) /\ \A i \in 1..Len(f) : h[i] = f[i]
            BY <3>2, <3>3, TruncatedCells
        <3> HIDE DEF h
        <3>5. h = f
            BY <1>2, <3>4, SeqEqual
        <3> QED
            BY <3>5 DEF h, c
    <2>3. KeptOf(files, hf, t) = f
        <3>1. CASE t \in DOMAIN files
            <4>1. KeptOf(files, hf, t) = Truncated(f, Len(f))
                BY <1>2, <1>8, <3>1 DEF KeptOf, Whole
            <4> QED
                BY <1>2, <4>1, TruncatedWhole
        <3>2. CASE t \notin DOMAIN files
            BY <1>8, <3>2 DEF KeptOf
        <3> QED
            BY <3>1, <3>2
    <2> QED
        BY <2>1, <2>2, <2>3
<1>12. Kept(files', hf) = Kept(files, hf)
    <2>1. \A i \in Positive : KeptOf(files', hf, i) = KeptOf(files, hf, i)
        <3>1. \A i \in Positive : i # t => KeptOf(files', hf, i) = KeptOf(files, hf, i)
            BY <1>5, <1>6 DEF KeptOf
        <3> QED
            BY <1>11, <3>1
    <2> QED
        BY <1>6, <1>7, <2>1, KeptSame
<1>13. KeptFits
    BY <1>1, RestFits DEF AtRest
<1> QED
    BY <1>1, <1>10, <1>12, <1>13 DEF TailInv, KeptFits

LEMMA MovedFits ==
    ASSUME DiskInv, CellsInv, StateInv, FitsInv, pc \notin {"down", "recover"},
           NEW off \in Nat, files' = files, headFile' = <<segments[1].id, off>>,
           Whole(files[segments[1].id], off)
    PROVE  FitsInv'
<1> DEFINE a == segments[1].id
           f == files[a]
           hg == <<a, off>>
<1>1. /\ a \in DOMAIN files /\ DOMAIN files \subseteq Positive /\ \A id \in DOMAIN files : a <= id
      /\ headFile[1] <= a /\ headFile \in Nat \X Nat /\ FilesTyped(files) /\ 1 \in 1..Len(segments)
    BY Running
<1>2. From(hg, a) = off /\ \A id \in DOMAIN files : id # a => From(hg, id) = From(headFile, id)
    <2> HIDE DEF a
    <2>1. /\ FilesTyped(files) /\ a \in DOMAIN files /\ (\A id \in DOMAIN files : a <= id)
          /\ headFile \in Nat \X Nat /\ headFile[1] <= a
        BY <1>1
    <2>2. /\ From(<<a, off>>, a) = off
          /\ \A id \in DOMAIN files : id # a => From(<<a, off>>, id) = From(headFile, id)
        BY <2>1, MoveHead
    <2> QED
        BY <2>2
<1>3. Len(f) <= MaxBytes
    <2>1. CASE Located(headFile, segments, headOff)
        <3>1. ScanEnd(f, From(headFile, a)) = Len(f)
            BY <1>1, <2>1, LocatedWhole
        <3> QED
            BY <1>1, <3>1 DEF FitsInv
    <2>2. CASE Emptied
        <3>1. Len(f) = 0
            BY <2>2, EmptyScan DEF Emptied
        <3> QED
            BY <3>1, DiskQueueAssumption
    <2> QED
        BY <2>1, <2>2 DEF StateInv
<1>4. ScanEnd(f, off) = Len(f)
    BY DEF Whole
<1> HIDE DEF hg
<1>5. \A id \in DOMAIN files : ScanEnd(files[id], From(hg, id)) <= MaxBytes
    BY <1>2, <1>3, <1>4 DEF FitsInv
<1> QED
    BY <1>5 DEF FitsInv, hg

\* Writing the head file where it already points.
LEMMA HeadSame ==
    ASSUME DiskInv, CellsInv, StateInv, pc \notin {"down", "recover"}, Located(headFile, segments, headOff),
           files' = files, headFile' = <<segments[1].id, headOff>>
    PROVE  /\ Kept(files', headFile') = Kept(files, headFile)
           /\ NewestOf(files') = NewestOf(files)
           /\ \A id : Part(files', headFile', id) = Part(files, headFile, id)
<1> DEFINE a == segments[1].id
           hg == <<a, headOff>>
<1>1. /\ a \in DOMAIN files /\ DOMAIN files \subseteq Positive /\ \A id \in DOMAIN files : a <= id
      /\ headFile[1] <= a /\ headFile \in Nat \X Nat /\ FilesTyped(files) /\ 1 \in 1..Len(segments)
      /\ headOff \in Nat
    BY Running
<1>a. headFile' = hg /\ files' = files
    OBVIOUS
<1>3. From(headFile, a) = headOff
    BY <1>1 DEF Located, Offset
<1> HIDE DEF a
<1>2. From(hg, a) = headOff /\ \A id \in DOMAIN files : id # a => From(hg, id) = From(headFile, id)
    BY <1>1, MoveHead
<1>4. hg \in Nat \X Nat /\ hg[1] = a
    BY <1>1 DEF Positive
<1> HIDE DEF hg
<1>5. \A id \in DOMAIN files : From(hg, id) = From(headFile, id) /\ id >= hg[1] /\ id >= headFile[1]
    <2> SUFFICES ASSUME NEW id \in DOMAIN files
                 PROVE  From(hg, id) = From(headFile, id) /\ id >= hg[1] /\ id >= headFile[1]
        OBVIOUS
    <2>1. id \in Nat /\ a \in Nat /\ headFile[1] \in Nat /\ a <= id
        BY <1>1 DEF Positive
    <2> QED
        BY <1>1, <1>2, <1>3, <1>4, <2>1
<1>6. \A id : Part(files, hg, id) = Part(files, headFile, id) /\ KeptOf(files, hg, id) = KeptOf(files, headFile, id)
    BY <1>5 DEF Part, KeptOf
<1>7. Kept(files, hg) = Kept(files, headFile)
    BY <1>1, <1>4, <1>6, KeptSame
<1> QED
    BY <1>a, <1>6, <1>7

LEMMA HeadFits ==
    ASSUME DiskInv, CellsInv, StateInv, FitsInv, TailInv, Clean, writeHead \/ Close,
           DiskInv', CellsInv', StateInv'
    PROVE  FitsInv' /\ TailInv'
<1>1. pc \notin {"down", "recover"} /\ files' = files /\ headFile' = <<segments[1].id, headOff>>
    <2>1. ~Fails("head")
        BY CleanCalls
    <2> QED
        BY <2>1 DEF writeHead, Close, HeadSegment
<1>2. headOff \in Nat /\ SoundSeg(files[segments[1].id], headOff, segments[1])
    BY <1>1, Running
<1>3. FitsInv'
    BY <1>1, <1>2, MovedFits DEF SoundSeg
<1>4. CASE Located(headFile, segments, headOff)
    <2>1. /\ Kept(files', headFile') = Kept(files, headFile)
          /\ NewestOf(files') = NewestOf(files)
          /\ \A id : Part(files', headFile', id) = Part(files, headFile, id)
        BY <1>1, <1>4, HeadSame, Zenon
    <2> QED
        BY <1>3, <2>1 DEF TailInv
<1>5. CASE Emptied
    <2>1. pc = "ack_head"
        BY <1>5 DEF Emptied
    <2>2. pc' = "idle"
        <3>1. ~Fails("head")
            BY CleanCalls
        <3> QED
            BY <2>1, <3>1 DEF writeHead, Close
    <2>3. AtRest'
        BY <1>3, <2>2 DEF AtRest
    <2> QED
        BY <1>3, <2>3, RestFitsNext DEF KeptFits, TailInv
<1> QED
    BY <1>3, <1>4, <1>5 DEF StateInv

LEMMA ScanFits ==
    ASSUME DiskInv, CellsInv, StateInv, FitsInv, TailInv, scanSegment
    PROVE  FitsInv' /\ TailInv'
<1> DEFINE id == NextSegment
           f == files[id]
           hf == headFile
           o == From(hf, id)
           g == Truncated(f, ScanEnd(f, o))
<1>1. /\ headFile' = hf /\ id \in DOMAIN files /\ id \in Positive
      /\ f \in Seq(Cell) /\ o \in Nat /\ g \in Seq(Cell) /\ Len(g) = ScanEnd(f, o)
      /\ Records(g, o) = Records(f, o) /\ Whole(g, o)
      /\ Put(files', files, id, g) /\ DOMAIN files' = DOMAIN files
    BY Scanned
<1>2. ScanEnd(g, o) = ScanEnd(f, o)
    BY <1>1 DEF Whole
<1>3. FitsInv'
    <2>1. ScanEnd(f, o) <= MaxBytes
        BY <1>1 DEF FitsInv
    <2> HIDE DEF g, id
    <2> QED
        BY <1>1, <1>2, <2>1, FitsPut
<1>4. files'[id] = g /\ \A i \in DOMAIN files : i # id => files'[i] = files[i]
    BY <1>1 DEF Put
<1>5. FilesTyped(files) /\ hf \in Nat \X Nat
    BY CellsFacts
<1>6. FilesTyped(files')
    <2> HIDE DEF g, id
    <2> QED
        BY <1>1, <1>5, PutTyped DEF Positive
<1>7. KeptOf(files', hf, id) = KeptOf(files, hf, id)
    <2>1. KeptOf(files', hf, id) = Truncated(g, Len(g))
        BY <1>1, <1>4 DEF KeptOf, Whole
    <2>2. Truncated(g, Len(g)) = g
        <3> HIDE DEF g
        <3> QED
            BY <1>1, TruncatedWhole
    <2>3. KeptOf(files, hf, id) = g
        BY <1>1 DEF KeptOf
    <2> QED
        BY <2>1, <2>2, <2>3
<1>8. Part(files', hf, id) = Part(files, hf, id)
    BY <1>1, <1>4 DEF Part
<1> HIDE DEF id, g
<1>9. \A i : Part(files', hf, i) = Part(files, hf, i) /\ KeptOf(files', hf, i) = KeptOf(files, hf, i)
    <2>1. \A i : i # id => Part(files', hf, i) = Part(files, hf, i) /\ KeptOf(files', hf, i) = KeptOf(files, hf, i)
        BY <1>1, <1>4 DEF Part, KeptOf
    <2> QED
        BY <1>7, <1>8, <2>1
<1>10. Kept(files', hf) = Kept(files, hf)
    BY <1>5, <1>6, <1>9, KeptSame
<1>11. NewestOf(files') = NewestOf(files)
    BY <1>1 DEF NewestOf
<1> QED
    BY <1>1, <1>3, <1>9, <1>10, <1>11 DEF TailInv

LEMMA RecoveredFits ==
    ASSUME DiskInv, CellsInv, FitsInv, TailInv, recover_done, CellsInv'
    PROVE  FitsInv' /\ TailInv'
<1>1. headFile' = headFile /\ pc = "recover" /\ todo = {}
    BY DEF recover_done
<1>2. CASE segments # << >>
    <2>1. files' = files
        BY <1>2 DEF recover_done
    <2> QED
        BY <1>1, <2>1 DEF FitsInv, TailInv
<1>3. CASE segments = << >>
    <2>1. DOMAIN files = {}
        <3>1. 1..Len(segments) = {}
            BY <1>3
        <3> QED
            BY <1>1, <3>1 DEF SegIds, DiskInv, SegmentsInv
    <2>2. DOMAIN files' = {1} /\ files'[1] = << >>
        BY <1>3, <2>1 DEF recover_done, With, Cells
    <2>3. headFile[1] = 0
        BY <2>1 DEF DiskInv, HeadInv
    <2>4. From(headFile, 1) = 0 /\ ScanEnd(<< >>, 0) = 0 /\ 0 <= MaxBytes
        BY <2>3, EmptyScan, DiskQueueAssumption DEF From
    <2>5. FitsInv'
        BY <1>1, <2>2, <2>4 DEF FitsInv
    <2>6. FilesTyped(files') /\ headFile' \in Nat \X Nat
        BY DEF CellsInv, FilesOK
    <2>7. Len(Kept(files', headFile')) = ScanEnd(files'[1], From(headFile', 1))
        BY <2>2, <2>6, KeptSingle
    <2> QED
        BY <1>1, <2>2, <2>4, <2>5, <2>7 DEF TailInv
<1> QED
    BY <1>2, <1>3

LEMMA RestTailInv == ASSUME AtRest' PROVE TailInv'
BY RestFitsNext DEF KeptFits, TailInv

LEMMA AdvanceFits ==
    ASSUME DiskInv, CellsInv, StateInv, FitsInv, Clean, Ack_advance, DiskInv', CellsInv', StateInv'
    PROVE  FitsInv' /\ TailInv'
<1> DEFINE f == files[segments[1].id]
           next == headOff + HeadRecord[2]
<1>1. pc = "idle" /\ pc' = "idle" /\ Readable /\ files' = files /\ headFile' = <<segments[1].id, next>>
    <2>1. ~Fails("head")
        BY CleanCalls
    <2> QED
        BY <2>1 DEF Ack_advance, NextHead
<1>2. headOff \in Nat /\ f \in Seq(Cell) /\ Whole(f, headOff)
    BY <1>1, Running DEF SoundSeg
<1>3. ValidAt(f, headOff) /\ HeadRecord = RecordAt(f, headOff)
    BY <1>1, HeadIs
<1>4. next \in Nat /\ Whole(f, next)
    BY <1>2, <1>3, ValidNext, AdvanceScan
<1>5. FitsInv'
    <2> HIDE DEF next
    <2> QED
        BY <1>1, <1>4, MovedFits
<1>6. AtRest'
    BY <1>1, <1>5 DEF AtRest
<1> QED
    BY <1>5, <1>6, RestTailInv

LEMMA ConsumedFits ==
    ASSUME DiskInv, CellsInv, StateInv, FitsInv, Clean, Ack_last \/ Ack_discard,
           DiskInv', CellsInv', StateInv'
    PROVE  FitsInv' /\ TailInv'
<1> DEFINE a == segments[1].id
           f == files[a]
<1>1. PICK rec : pc = "idle" /\ IF Len(segments) > 1 THEN dropHead(rec, "ack_head") ELSE resetOnly(rec)
    BY DEF Ack_last, Ack_discard
<1>2. pc' = "ack_head"
    <2>1. ~Fails("remove") /\ ~Fails("truncate")
        BY CleanCalls
    <2> QED
        BY <1>1, <2>1 DEF dropHead, resetOnly, resetHead
<1>3. FitsInv'
    <2>1. CASE Len(segments) > 1
        <3>1. headFile' = headFile /\ files' = Without(files, a)
            BY <1>1, <2>1, DropState
        <3> QED
            BY <3>1, FitsFewer
    <2>2. CASE ~(Len(segments) > 1)
        <3>1. headFile' = headFile /\ files' = [files EXCEPT ![a] = << >>]
            BY <1>1, <2>2, ResetState
        <3>2. /\ a \in DOMAIN files /\ headOff \in Nat /\ f \in Seq(Cell) /\ Whole(f, headOff)
            BY <1>1, Running DEF SoundSeg
        <3>3. From(headFile, a) = headOff
            BY <1>1, RunningLocated
        <3>4. headOff <= MaxBytes
            <4>1. headOff <= ScanEnd(f, headOff)
                BY <3>2, ScanEndType
            <4>2. ScanEnd(f, headOff) <= MaxBytes /\ ScanEnd(f, headOff) \in Nat
                BY <3>2, <3>3, ScanEndType DEF FitsInv
            <4> QED
                BY <3>2, <4>1, <4>2, DiskQueueAssumption
        <3>5. Put(files', files, a, << >>)
            BY <3>1, <3>2 DEF Put
        <3>6. ScanEnd(<< >>, From(headFile, a)) <= MaxBytes
            BY <3>2, <3>3, <3>4, EmptyScan
        <3> HIDE DEF a
        <3> QED
            BY <3>1, <3>5, <3>6, FitsPut
    <2> QED
        BY <2>1, <2>2
<1>4. AtRest'
    BY <1>2, <1>3 DEF AtRest
<1> QED
    BY <1>3, <1>4, RestTailInv

\* An eviction leaves a record behind.
LEMMA EvictFits ==
    ASSUME DiskInv, CellsInv, StateInv, FitsInv, TailInv, Clean, enforceBound_drop
    PROVE  FitsInv' /\ TailInv' /\ Unread' # << >>
<1> DEFINE a == segments[1].id
           n == NewestOf(files)
           gs == Without(files, a)
           hf == headFile
<1>1. PICK next \in {"bound_head", "open_head"} :
         pc \in {"idle", "bound", "open_bound"} /\ dropHead(None, next) /\ Len(segments) > 1 /\ bytes > MaxBytes
         /\ pc \notin {"down", "recover"} /\ pc # "ack_head"
    BY DEF enforceBound_drop, OverBudget
<1>2. headFile' = hf /\ files' = gs
    BY <1>1, DropState
<1>3. FilesTyped(files) /\ hf \in Nat \X Nat /\ a \in DOMAIN files /\ (\A id \in DOMAIN files : a <= id) /\ hf[1] <= a
    BY <1>1, Running
<1>4. Part(files, hf, n) # << >>
    <2>1. Len(Kept(files, hf)) = bytes
        BY <1>1, RunningLocated, LocatedWhole
    <2>2. Len(Kept(files, hf)) \in Nat
        BY <1>3, JoinedType
    <2>3. ~(Len(Kept(files, hf)) <= MaxBytes)
        BY <1>1, <2>1, <2>2, DiskQueueAssumption
    <2> QED
        BY <2>3 DEF TailInv
<1>5. n \in DOMAIN files
    BY <1>4 DEF Part
<1>6. n # a
    <2>1. Shaped(segments) /\ Increasing(segments) /\ \A i \in 1..Len(segments) : segments[i].id \in DOMAIN files
        BY <1>1, OldestFirst
    <2>2. 1 \in 1..Len(segments) /\ 2 \in 1..Len(segments)
        <3> DEFINE m == Len(segments)
        <3>1. m \in Nat /\ m > 1
            BY <1>1, Running
        <3> HIDE DEF m
        <3>2. 1 \in 1..m /\ 2 \in 1..m
            BY <3>1
        <3> QED
            BY <3>2 DEF m
    <2>3. a < segments[2].id /\ segments[2].id \in DOMAIN files
        BY <2>1, <2>2 DEF Increasing
    <2>4. segments[2].id <= n /\ segments[2].id \in Nat /\ n \in Nat /\ a \in Nat
        BY <1>3, <2>3, NewestFile DEF FilesTyped
    <2> HIDE DEF n, a
    <2> QED
        BY <2>3, <2>4
<1>7. FilesTyped(gs)
    BY <1>3, RemoveOldest
<1>8. n \in DOMAIN gs /\ \A id \in DOMAIN gs : id <= n
    BY <1>3, <1>5, <1>6, NewestFile DEF Without
<1>9. Part(gs, hf, n) = Part(files, hf, n)
    BY <1>5, <1>6, <1>8 DEF Part, Without
<1> HIDE DEF gs, n
<1>10. NewestOf(gs) = n
    BY <1>7, <1>8, NewestIs
<1>11. Joined(gs, hf) # << >>
    BY <1>3, <1>4, <1>7, <1>8, <1>9, JoinedNonempty
<1>12. FitsInv'
    BY <1>2, FitsFewer DEF gs
<1>13. TailInv'
    BY <1>2, <1>4, <1>9, <1>10 DEF TailInv
<1>14. Unread' # << >>
    BY <1>2, <1>11, UnreadJoined
<1> QED
    BY <1>12, <1>13, <1>14

LEMMA QuietFits ==
    ASSUME FitsInv, TailInv, files' = files, headFile' = headFile
    PROVE  FitsInv' /\ TailInv'
BY DEF FitsInv, TailInv

LEMMA FitsNext ==
    ASSUME DiskInv, CellsInv, StateInv, FitsInv, TailInv, Clean, RecordsFit, RecordsFitBudget,
           [DiskQueueNext]_dqVars, DiskInv', CellsInv', StateInv'
    PROVE  FitsInv' /\ TailInv'
<1>1. CASE Open \/ enforceBound_done \/ Peek \/ Crash \/ UNCHANGED dqVars
    <2>1. files' = files /\ headFile' = headFile
        BY <1>1 DEF Open, enforceBound_done, Peek, Crash, dqVars, disk
    <2> QED
        BY <2>1, QuietFits
<1>2. CASE scanSegment
    BY <1>2, ScanFits
<1>3. CASE recover_done
    BY <1>3, RecoveredFits
<1>4. CASE Push
    BY <1>4, PushFits
<1>5. CASE Push_torn
    BY <1>5, TornFits
<1>6. CASE Push_fails \/ Corrupt \/ recover_skip \/ recover_fails \/ roll_fails \/ Close_fails
    BY <1>6, CleanCalls DEF Push_fails, Corrupt, recover_skip, recover_fails, roll_fails, Close_fails
<1>7. CASE enforceBound_drop
    BY <1>7, EvictFits
<1>8. CASE writeHead \/ Close
    BY <1>8, HeadFits
<1>9. CASE Ack_advance
    BY <1>9, AdvanceFits
<1>10. CASE Ack_last \/ Ack_discard
    BY <1>10, ConsumedFits
<1> QED
    BY <1>1, <1>2, <1>3, <1>4, <1>5, <1>6, <1>7, <1>8, <1>9, <1>10 DEF DiskQueueNext

----------------------------------------------------------------------------
\* The invariant of a queue none of whose calls fails.
RefineInv == QueueInv /\ StateInv /\ HistInv /\ FitsInv /\ TailInv /\ faults = << >>

LEMMA NoFaults ==
    ASSUME Faults = {}, NEW s \in Seq(Faults)
    PROVE  s = << >>
<1>1. \A i \in 1..Len(s) : s[i] \in Faults
    BY ElementOfSeq
<1>2. Len(s) \in Nat /\ ~(1 \in 1..Len(s))
    BY <1>1, LenProperties
<1>3. Len(s) = 0
    BY <1>2
<1> QED
    BY <1>3, EmptySeq

LEMMA RefineInit == DiskQueueInit => RefineInv
<1> SUFFICES ASSUME DiskQueueInit PROVE RefineInv
    OBVIOUS
<1>1. QueueInv /\ StateInv /\ HistInv /\ faults = << >>
    BY DiskInvInit, CellsInit, StateInit DEF QueueInv, Healthy
<1>2. DOMAIN files = {}
    BY DEF DiskQueueInit
<1>3. FilesTyped(files) /\ headFile \in Nat \X Nat
    BY <1>1, CellsFacts DEF QueueInv, Healthy
<1>4. Kept(files, headFile) = Used(files) /\ Used(files) = << >>
    BY <1>2, <1>3, KeptWhole, JoinedBlank
<1>5. Len(Kept(files, headFile)) <= MaxBytes
    BY <1>4, EmptyScan, DiskQueueAssumption
<1> QED
    BY <1>1, <1>2, <1>5 DEF RefineInv, FitsInv, TailInv

LEMMA RefineNext ==
    ASSUME Faults = {}, RecordsFit, RecordsFitBudget
    PROVE  RefineInv /\ [DiskQueueNext]_dqVars => RefineInv'
<1> SUFFICES ASSUME RefineInv, [DiskQueueNext]_dqVars PROVE RefineInv'
    OBVIOUS
<1>1. QueueInv /\ StateInv /\ FitsInv /\ TailInv /\ faults = << >>
    BY DEF RefineInv
<1>2. DiskInv /\ CellsInv /\ faults \in Seq(Faults)
    BY <1>1 DEF QueueInv, Healthy
<1>3. QueueInv'
    BY <1>1, QueueInvNext
<1>4. faults' \in Seq(Faults) /\ Healthy'
    BY <1>3 DEF QueueInv
<1>5. faults' = << >>
    BY <1>4, NoFaults
<1>6. DiskInv' /\ CellsInv' /\ StateInv' /\ HistInv'
    BY <1>4, <1>5 DEF Healthy
<1>7. FitsInv' /\ TailInv'
    BY <1>1, <1>2, <1>4, <1>5, <1>6, FitsNext DEF Clean
<1> QED
    BY <1>3, <1>5, <1>6, <1>7 DEF RefineInv

LEMMA RestSub ==
    ASSUME NEW X, NEW x \in Seq(X), NEW u, NEW v, SameRest(X, x, << >>, u, v), v # << >>
    PROVE  /\ Len(x) = 0 => v = u
           /\ Len(x) # 0 => Len(x) \in 1..(Len(u) - 1) /\ v = SubSeq(u, Len(x) + 1, Len(u))
<1>1. PICK R \in Seq(X) : u = x \o R /\ v = << >> \o R
    BY DEF SameRest
<1>2. v = R /\ << >> \in Seq(X)
    BY <1>1, ConcatEmptySeq, EmptySeq
<1>3. CASE Len(x) = 0
    <2>1. x = << >>
        BY <1>3, EmptySeq
    <2> QED
        BY <1>1, <1>3, <2>1
<1>4. CASE Len(x) # 0
    <2> DEFINE n == Len(x)
               m == Len(R)
               w == SubSeq(u, n + 1, n + m)
    <2>1. n \in Nat /\ m \in Nat /\ n # 0
        BY <1>4, LenProperties
    <2>2. /\ u \in Seq(X) /\ Len(u) = n + m
          /\ \A i \in 1..(n + m) : u[i] = IF i <= n THEN x[i] ELSE R[i - n]
        BY <1>1, ConcatProperties
    <2>3. m # 0
        BY <1>2, EmptySeq
    <2> HIDE DEF n, m
    <2>4. \A i \in (n + 1)..(n + m) : u[i] \in X
        <3>1. \A i \in (n + 1)..(n + m) : i \in 1..(n + m)
            BY <2>1
        <3>2. \A i \in 1..(n + m) : u[i] \in X
            BY <2>2, ElementOfSeq
        <3> QED
            BY <3>1, <3>2
    <2>5. /\ w \in Seq(X) /\ Len(w) = IF n + 1 <= n + m THEN (n + m) - (n + 1) + 1 ELSE 0
          /\ \A i \in 1..((n + m) - (n + 1) + 1) : w[i] = u[(n + 1) + i - 1]
        <3>1. n + 1 \in Int /\ n + m \in Int
            BY <2>1
        <3> QED
            BY <2>4, <3>1, SubSeqProperties
    <2>6. Len(w) = m /\ (n + m) - (n + 1) + 1 = m
        BY <2>1, <2>3, <2>5
    <2>7. \A i \in 1..m : w[i] = R[i]
        <3> SUFFICES ASSUME NEW i \in 1..m PROVE w[i] = R[i]
            OBVIOUS
        <3>1. (n + 1) + i - 1 = n + i /\ n + i \in 1..(n + m) /\ ~(n + i <= n) /\ (n + i) - n = i
            BY <2>1
        <3>2. w[i] = u[n + i]
            BY <2>5, <2>6, <3>1
        <3> QED
            BY <2>2, <3>1, <3>2
    <2>8. w = R
        <3> HIDE DEF w
        <3> QED
            BY <2>5, <2>6, <2>7, SeqEqual DEF m
    <2>9. n \in 1..((n + m) - 1)
        BY <2>1, <2>3
    <2> QED
        BY <1>2, <1>4, <2>2, <2>8, <2>9 DEF n
<1> QED
    BY <1>3, <1>4

----------------------------------------------------------------------------
\* Each step of the disk queue is a step of StoreQueue, or leaves it alone.

LEMMA PushIsPush ==
    ASSUME RefineInv, RecordsFit, Push
    PROVE  Abstract!QueuePush
<1>1. DiskInv /\ CellsInv /\ StateInv
    BY DEF RefineInv, QueueInv, Healthy
<1>2. PICK k \in Sizes : Unread' = Append(Unread, <<pushed + 1, k>>)
    BY <1>1, PushState
<1>3. dropped' = dropped
    BY DEF Push
<1>4. pushed + 1 \in 1..MaxPush
    <2>1. pushed < MaxPush
        BY DEF Push
    <2>2. pushed \in Nat
        BY <1>1, CellsFacts
    <2> QED
        BY <2>1, <2>2, DiskQueueAssumption
<1>5. <<pushed + 1, k>> \in (1..MaxPush) \X Sizes
    BY <1>4
<1> QED
    BY <1>2, <1>3, <1>5 DEF Abstract!QueuePush

LEMMA AckIsAck ==
    ASSUME RefineInv, Clean, Ack_advance \/ Ack_last
    PROVE  Abstract!QueueAck
<1>1. DiskInv /\ CellsInv /\ StateInv
    BY DEF RefineInv, QueueInv, Healthy
<1>2. Unread # << >> /\ Unread' = Tail(Unread)
    BY <1>1, AdvanceState, AckLastState
<1>3. dropped' = dropped
    BY <1>1, AckLastState DEF Ack_advance
<1> QED
    BY <1>2, <1>3 DEF Abstract!QueueAck

LEMMA EvictIsEvict ==
    ASSUME RefineInv, Clean, enforceBound_drop
    PROVE  Abstract!QueueEvict \/ (Unread' = Unread /\ dropped' = dropped)
<1> DEFINE x == Records(files[segments[1].id], headOff)
<1>1. DiskInv /\ CellsInv /\ StateInv /\ FitsInv /\ TailInv /\ dropped \in Nat
    BY DEF RefineInv, QueueInv, Healthy, HistInv
<1>2. SameRest(Rec, x, << >>, Unread, Unread') /\ dropped' = dropped + (Len(x) - 0)
    BY <1>1, EvictState
<1>3. Unread' # << >>
    BY <1>1, EvictFits
<1>4. x \in Seq(Rec)
    <2>1. pc \notin {"down", "recover"}
        BY DEF enforceBound_drop
    <2> QED
        BY <1>1, <2>1, Running, RecordsType
<1> DEFINE n == Len(x)
<1>5. n \in Nat
    BY <1>4, LenProperties
<1>6. /\ n = 0 => Unread' = Unread
      /\ n # 0 => n \in 1..(Len(Unread) - 1) /\ Unread' = SubSeq(Unread, n + 1, Len(Unread))
    <2> DEFINE u == Unread
               v == Unread'
    <2>1. SameRest(Rec, x, << >>, u, v) /\ v # << >>
        BY <1>2, <1>3
    <2> HIDE DEF x, u, v
    <2>2. /\ Len(x) = 0 => v = u
          /\ Len(x) # 0 => Len(x) \in 1..(Len(u) - 1) /\ v = SubSeq(u, Len(x) + 1, Len(u))
        BY <1>4, <2>1, RestSub
    <2> QED
        BY <2>2 DEF u, v
<1>7. dropped' = dropped + n
    BY <1>2, <1>5
<1> HIDE DEF n
<1>8. CASE n = 0
    BY <1>1, <1>6, <1>7, <1>8
<1>9. CASE n # 0
    BY <1>6, <1>7, <1>9 DEF Abstract!QueueEvict
<1> QED
    BY <1>8, <1>9

LEMMA QueueStep ==
    ASSUME RefineInv, Clean, RecordsFit, [DiskQueueNext]_dqVars
    PROVE  [Abstract!QueueNext]_<<Unread, dropped>>
<1>0. DiskInv /\ CellsInv /\ StateInv /\ dropped \in Nat
    BY DEF RefineInv, QueueInv, Healthy, HistInv
<1>1. CASE Push
    BY <1>1, PushIsPush DEF Abstract!QueueNext
<1>2. CASE Ack_advance \/ Ack_last
    BY <1>2, AckIsAck DEF Abstract!QueueNext
<1>3. CASE enforceBound_drop
    BY <1>3, EvictIsEvict DEF Abstract!QueueNext
<1>4. CASE Push_torn \/ Close \/ Crash
    <2>1. Unread' = Unread /\ dropped' = 0
        BY <1>0, <1>4, TornState, ExitState
    <2> QED
        BY <2>1 DEF Abstract!QueueNext, Abstract!QueueRestart
<1>5. CASE Push_fails \/ Corrupt \/ recover_skip \/ recover_fails \/ roll_fails \/ Close_fails
    BY <1>5, CleanCalls DEF Push_fails, Corrupt, recover_skip, recover_fails, roll_fails, Close_fails
<1>6. CASE \/ Open \/ scanSegment \/ recover_done \/ writeHead \/ Ack_discard
           \/ enforceBound_done \/ Peek \/ UNCHANGED dqVars
    <2>1. Unread' = Unread /\ dropped' = dropped
        BY <1>0, <1>6, OpenState, ScanState, RecoveredState, WriteHeadState, DiscardState, QuietState, Zenon
    <2> QED
        BY <2>1
<1> QED
    BY <1>1, <1>2, <1>3, <1>4, <1>5, <1>6 DEF DiskQueueNext

\* The disk queue of diskqueue.go keeps the promise of ports.Queue, of which
\* the bridge makes its own: for every budget, segment size and set of record
\* sizes that fit both the reader and the budget, whatever moment the process
\* is killed at - in the middle of an append, between the removal of a segment
\* and the write of the head file, during recovery - the records a new process
\* finds unread have changed only by a push at the end, an ack at the front, or
\* a counted eviction that spares the newest.
THEOREM DiskQueueIsQueue ==
    ASSUME Faults = {}, RecordsFit, RecordsFitBudget
    PROVE  DiskQueueSpec => ImplementsQueue
<1>1. DiskQueueInit => Abstract!QueueInit
    <2> SUFFICES ASSUME DiskQueueInit PROVE Unread = << >> /\ dropped = 0
        BY DEF Abstract!QueueInit
    <2>1. DOMAIN files = {} /\ dropped = 0
        BY DEF DiskQueueInit
    <2>2. FilesTyped(files) /\ headFile \in Nat \X Nat
        BY CellsInit, CellsFacts
    <2>3. Joined(files, headFile) = << >>
        BY <2>1, <2>2, JoinedBlank
    <2> QED
        BY <2>1, <2>3, UnreadJoined
<1>2. RefineInv /\ [DiskQueueNext]_dqVars => RefineInv'
    BY RefineNext
<1>3. RefineInv /\ RefineInv' /\ [DiskQueueNext]_dqVars => [Abstract!QueueNext]_<<Unread, dropped>>
    <2> SUFFICES ASSUME RefineInv, RefineInv', [DiskQueueNext]_dqVars
                 PROVE  [Abstract!QueueNext]_<<Unread, dropped>>
        OBVIOUS
    <2>1. faults' = faults /\ faults \in Seq(Faults)
        BY DEF RefineInv, QueueInv, Healthy
    <2> QED
        BY <2>1, QueueStep DEF Clean
<1> QED
    BY <1>1, <1>2, <1>3, RefineInit, PTL DEF DiskQueueSpec, ImplementsQueue, Abstract!QueueSpec

-----------------------------------------------------------------------------
\* Removals and truncations that fail, and crashes, never lose a record.

\* The records a scan of cells f from offset o finds.
RecIds(f, o) == {r[1] : r \in Elems(Records(f, o))}

\* Each record of f that Push has stored is released, or read from offset o on.
Keeps(f, o, acc, rel) == Ids(f, 0) \cap acc \subseteq rel \cup RecIds(f, o)

LEMMA RecIdsSeen ==
    ASSUME NEW fs, NEW p, FilesOK(fs, p), NEW id \in DOMAIN fs, NEW o \in Nat
    PROVE  RecIds(fs[id], o) \subseteq Ids(fs[id], o) /\ Ids(fs[id], o) \subseteq Ids(fs[id], 0)
<1> DEFINE f == fs[id]
<1>1. f \in Seq(Cell) /\ Aged(fs) /\ \A i \in 1..Len(f) : f[i][3] = 1 => f[i][1] >= 1
    BY DEF FilesOK, FilesTyped, CellIds
<1>3. Len(f) \in Nat
    BY <1>1, CellShape
<1> HIDE DEF f
<1>4. Starts(Records(f, o), f, o)
    BY <1>1, RecordsStart
<1>5. RecIds(f, o) \subseteq Ids(f, o)
    <2> SUFFICES ASSUME NEW x \in RecIds(f, o) PROVE x \in Ids(f, o)
        OBVIOUS
    <2>1. PICK r \in Elems(Records(f, o)) : x = r[1]
        BY DEF RecIds
    <2>2. PICK j \in 1..Len(f) : j > o /\ f[j][3] = 1 /\ r[1] = f[j][1]
        BY <1>4 DEF Starts
    <2>3. j \in (o + 1)..Len(f)
        BY <1>3, <2>2
    <2>4. x # 0
        BY <1>1, <2>1, <2>2
    <2> QED
        BY <2>1, <2>2, <2>3, <2>4 DEF Ids
<1>6. Ids(f, o) \subseteq Ids(f, 0)
    <2>1. \A i \in (o + 1)..Len(f) : i \in (0 + 1)..Len(f)
        BY <1>3
    <2> QED
        BY <2>1 DEF Ids
<1> QED
    BY <1>5, <1>6 DEF f

LEMMA RecIdsNone ==
    ASSUME NEW f \in Seq(Cell), NEW o \in Nat, ~ValidAt(f, o)
    PROVE  RecIds(f, o) = {}
<1>1. Records(f, o) = << >>
    BY ScanNil
<1>2. Elems(<< >>) = {}
    BY EmptySeq DEF Elems
<1> QED
    BY <1>1, <1>2 DEF RecIds

LEMMA RecIdsNext ==
    ASSUME NEW f \in Seq(Cell), NEW o \in Nat, ValidAt(f, o)
    PROVE  RecIds(f, o) = {RecordAt(f, o)[1]} \cup RecIds(f, o + RecordAt(f, o)[2])
<1> DEFINE r == RecordAt(f, o)
           next == o + r[2]
           t == Records(f, next)
<1>1. r \in Rec /\ next \in Nat
    BY ValidNext
<1>2. t \in Seq(Rec)
    BY <1>1, RecordsType
<1>3. Records(f, o) = <<r>> \o t
    BY ScanCons
<1> HIDE DEF r, next, t
<1>4. <<r>> \in Seq(Rec) /\ Elems(<<r>>) = {r}
    <2>1. <<r>> \in Seq(Rec) /\ Len(<<r>>) = 1 /\ <<r>>[1] = r
        BY <1>1
    <2> QED
        BY <2>1 DEF Elems
<1> DEFINE s == <<r>>
<1>a. s \in Seq(Rec)
    BY <1>4
<1> HIDE DEF s
<1>5. Elems(s \o t) = Elems(s) \cup Elems(t)
    BY <1>2, <1>a, ElemsConcat
<1>6. Elems(Records(f, o)) = {r} \cup Elems(t)
    BY <1>3, <1>4, <1>5 DEF s
<1> QED
    BY <1>6 DEF RecIds, r, next, t

\* The last record of a whole file.
LEMMA RecIdsLast ==
    ASSUME NEW f \in Seq(Cell), NEW o \in Nat, ValidAt(f, o), o + RecordAt(f, o)[2] >= Len(f)
    PROVE  RecIds(f, o) = {RecordAt(f, o)[1]}
<1> DEFINE next == o + RecordAt(f, o)[2]
<1>1. next \in Nat /\ Len(f) \in Nat
    BY ValidNext, CellShape
<1>2. ~ValidAt(f, next)
    <2>1. ~(next < Len(f))
        BY <1>1
    <2> HIDE DEF next
    <2> QED
        BY <2>1 DEF ValidAt
<1>3. RecIds(f, next) = {}
    BY <1>1, <1>2, RecIdsNone
<1> QED
    BY <1>3, RecIdsNext

LEMMA AppendedIds ==
    ASSUME NEW f \in Seq(Cell), NEW id \in Nat \ {0}, NEW k \in Nat, NEW n \in 0..k
    PROVE  LET g == f \o SubSeq(encode(id, k), 1, n)
           IN /\ Ids(f, 0) \subseteq Ids(g, 0) /\ Ids(g, 0) \subseteq Ids(f, 0) \cup {id}
              /\ n # 0 => id \in Ids(g, 0)
<1> DEFINE c == SubSeq(encode(id, k), 1, n)
           g == f \o c
<1>1. c \in Seq(Cell) /\ Len(c) = n /\ \A i \in 1..n : c[i] = <<id, k, i>>
    BY EncodeCells
<1>2. Len(f) \in Nat
    BY CellShape
<1> HIDE DEF c
<1>3. /\ g \in Seq(Cell) /\ Len(g) = Len(f) + Len(c)
      /\ \A i \in 1..Len(f) : g[i] = f[i]
      /\ \A i \in 1..Len(c) : g[Len(f) + i] = c[i]
    BY <1>1, AppendCells
<1> DEFINE m == Len(f)
<1> HIDE DEF g, m
<1>a. m \in Nat /\ Len(g) = m + n /\ (\A i \in 1..m : g[i] = f[i])
    BY <1>1, <1>2, <1>3 DEF m
<1>b. \A i \in 1..n : g[m + i] = <<id, k, i>>
    BY <1>1, <1>3 DEF m
<1>c. \A i \in 1..n : g[m + i][1] = id
    <2> SUFFICES ASSUME NEW i \in 1..n PROVE g[m + i][1] = id
        OBVIOUS
    <2>1. g[m + i] = <<id, k, i>>
        BY <1>b
    <2> QED
        BY <2>1
<1>4. /\ m \in Nat /\ Len(g) = m + n /\ (\A i \in 1..m : g[i] = f[i])
      /\ \A i \in 1..n : g[m + i][1] = id
    BY <1>a, <1>c
<1>5. Ids(f, 0) \subseteq Ids(g, 0)
    <2>1. \A i \in 1..m : i \in 1..(m + n)
        BY <1>4
    <2> QED
        BY <1>4, <2>1 DEF Ids, m
<1>6. Ids(g, 0) \subseteq Ids(f, 0) \cup {id}
    <2> SUFFICES ASSUME NEW i \in 1..(m + n), g[i][1] # 0 PROVE g[i][1] \in Ids(f, 0) \cup {id}
        BY <1>4 DEF Ids
    <2>1. CASE i \in 1..m
        BY <1>4, <2>1 DEF Ids, m
    <2>2. CASE i \notin 1..m
        <3>1. i - m \in 1..n /\ m + (i - m) = i
            BY <1>4, <2>2
        <3> QED
            BY <1>4, <3>1
    <2> QED
        BY <2>1, <2>2
<1>7. ASSUME n # 0 PROVE id \in Ids(g, 0)
    <2>1. n \in 1..n /\ m + n \in 1..(m + n)
        BY <1>4, <1>7
    <2>2. g[m + n][1] = id
        BY <1>4, <2>1
    <2> QED
        BY <1>4, <2>1, <2>2 DEF Ids
<1> QED
    BY <1>5, <1>6, <1>7 DEF g, c

LEMMA PushedIds ==
    ASSUME NEW f \in Seq(Cell), NEW o \in Nat, Whole(f, o),
           NEW id \in Nat \ {0}, NEW k \in Nat \ {0}, k <= MaxRecord
    PROVE  RecIds(f \o encode(id, k), o) = RecIds(f, o) \cup {id}
<1> DEFINE g == f \o encode(id, k)
           e == <<id, k>>
           t == Records(f, o)
<1>1. Records(g, o) = Append(t, e)
    BY PushScan
<1>2. t \in Seq(Rec) /\ e \in Rec
    BY RecordsType DEF Rec
<1>3. e[1] = id
    OBVIOUS
<1> HIDE DEF t, e
<1>4. Elems(Append(t, e)) = Elems(t) \cup {e}
    <2>1. <<e>> \in Seq(Rec) /\ Elems(<<e>>) = {e}
        <3>1. <<e>> \in Seq(Rec) /\ Len(<<e>>) = 1 /\ <<e>>[1] = e
            BY <1>2
        <3> QED
            BY <3>1 DEF Elems
    <2>2. Append(t, e) = t \o <<e>>
        BY <1>2, AppendIsConcat
    <2> DEFINE s == <<e>>
    <2>a. s \in Seq(Rec)
        BY <2>1
    <2> HIDE DEF s
    <2>3. Elems(t \o s) = Elems(t) \cup Elems(s)
        BY <1>2, <2>a, ElemsConcat
    <2> QED
        BY <2>1, <2>2, <2>3 DEF s
<1> QED
    BY <1>1, <1>3, <1>4 DEF RecIds, t

LEMMA TruncatedIds ==
    ASSUME NEW f \in Seq(Cell), NEW n \in Nat
    PROVE  Ids(Truncated(f, n), 0) \subseteq Ids(f, 0)
<1> DEFINE g == Truncated(f, n)
<1>1. Len(g) = n /\ \A i \in 1..n : g[i] = IF i <= Len(f) THEN f[i] ELSE Zero
    BY TruncatedCells
<1>2. Len(f) \in Nat
    BY CellShape
<1> HIDE DEF g
<1> SUFFICES ASSUME NEW i \in 1..n, g[i][1] # 0 PROVE g[i][1] \in Ids(f, 0)
    BY <1>1 DEF Ids, g
<1>3. i <= Len(f)
    BY <1>1 DEF Zero
<1>4. i \in 1..Len(f) /\ g[i] = f[i]
    BY <1>1, <1>2, <1>3
<1> QED
    BY <1>4 DEF Ids

----------------------------------------------------------------------------
\* The invariant.

\* On the disk: a stored record is released or in a file, and a new process
\* would find it there.
DiskKeeps ==
    /\ accepted \subseteq released \cup UNION {Ids(files[id], 0) : id \in DOMAIN files}
    /\ \A id \in DOMAIN files : Keeps(files[id], From(headFile, id), accepted, released)

\* A segment that this process reads to its end.
LiveSeg(i) ==
    LET f == files[segments[i].id]
        o == Offset(i, headOff)
    IN /\ Keeps(f, o, accepted, released)
       /\ Whole(f, o) /\ segments[i].size = Len(f)
       /\ Whole(f, From(headFile, segments[i].id)) \/ Emptied

\* A head segment that could not be removed: all of it is released.
DeadSeg(i) ==
    /\ i = 1 /\ Len(segments) > 1
    /\ Ids(files[segments[1].id], 0) \cap accepted \subseteq released

MemoryKeeps ==
    /\ segments = << >> => headOff = 0
    /\ pc \in {"down", "recover"} => peeked = None
    /\ \A i \in 1..Len(segments) : LiveSeg(i) \/ DeadSeg(i)
    /\ peeked # None => /\ ValidAt(files[segments[1].id], headOff)
                        /\ RecordAt(files[segments[1].id], headOff) = peeked

KeepInv == accepted \subseteq 1..pushed /\ DiskKeeps /\ MemoryKeeps

\* A step stores nothing that is already in a file, and takes nothing back.
Forward ==
    /\ accepted \subseteq accepted' /\ released \subseteq released'
    /\ \A id \in DOMAIN files : Ids(files[id], 0) \cap accepted' \subseteq accepted

LEMMA KeepsMore ==
    ASSUME NEW f, NEW o, NEW acc, NEW rel, NEW acc2, NEW rel2, Keeps(f, o, acc, rel),
           Ids(f, 0) \cap acc2 \subseteq acc, rel \subseteq rel2
    PROVE  Keeps(f, o, acc2, rel2)
BY DEF Keeps

LEMMA GoneKeeps ==
    ASSUME NEW f, NEW o, NEW acc, NEW rel, Ids(f, 0) \cap acc \subseteq rel
    PROVE  Keeps(f, o, acc, rel)
BY DEF Keeps

LEMMA KeptDisk ==
    ASSUME DiskKeeps, Forward, accepted' = accepted, files' = files, headFile' = headFile
    PROVE  DiskKeeps'
<1>1. \A id \in DOMAIN files : Keeps(files[id], From(headFile, id), accepted', released')
    BY KeepsMore DEF DiskKeeps, Forward
<1> QED
    BY <1>1 DEF DiskKeeps, Forward

LEMMA KeptMoved ==
    ASSUME DiskInv, CellsInv, pc \notin {"down", "recover"}, DiskKeeps, Forward, accepted' = accepted,
           files' = files, NEW off \in Nat, headFile' = <<segments[1].id, off>>,
           Keeps(files[segments[1].id], off, accepted, released')
    PROVE  DiskKeeps' /\ \A id \in DOMAIN files : id # segments[1].id => From(headFile', id) = From(headFile, id)
<1> DEFINE a == segments[1].id
           hg == <<a, off>>
<1>1. /\ FilesTyped(files) /\ a \in DOMAIN files /\ (\A id \in DOMAIN files : a <= id)
      /\ headFile \in Nat \X Nat /\ headFile[1] <= a
    <2>1. Len(segments) \in Nat /\ Len(segments) >= 1
        BY OldestFirst
    <2> QED
        BY <2>1, OldestFirst, CellsFacts DEF HeadInv
<1>2. From(hg, a) = off /\ \A id \in DOMAIN files : id # a => From(hg, id) = From(headFile, id)
    <2> HIDE DEF a
    <2> QED
        BY <1>1, MoveHead
<1>3. \A id \in DOMAIN files : Keeps(files[id], From(hg, id), accepted, released')
    <2> SUFFICES ASSUME NEW id \in DOMAIN files PROVE Keeps(files[id], From(hg, id), accepted, released')
        OBVIOUS
    <2>1. CASE id = a
        BY <1>2, <2>1
    <2>2. CASE id # a
        <3>1. Keeps(files[id], From(headFile, id), accepted, released)
            BY DEF DiskKeeps
        <3>2. Keeps(files[id], From(headFile, id), accepted, released')
            BY <3>1, KeepsMore DEF Forward
        <3> QED
            BY <1>2, <2>2, <3>2
    <2> QED
        BY <2>1, <2>2
<1> QED
    BY <1>2, <1>3 DEF DiskKeeps, Forward

LEMMA KeptPut ==
    ASSUME DiskKeeps, Forward, headFile' = headFile, NEW t, NEW g, Put(files', files, t, g),
           accepted' \subseteq accepted \cup Ids(g, 0),
           t \in DOMAIN files => Ids(files[t], 0) \cap accepted \subseteq released' \cup Ids(g, 0),
           Keeps(g, From(headFile, t), accepted', released')
    PROVE  DiskKeeps'
<1>1. /\ DOMAIN files' = DOMAIN files \cup {t} /\ files'[t] = g
      /\ \A id \in DOMAIN files : id # t => files'[id] = files[id]
    BY DEF Put
<1>2. ASSUME NEW x \in accepted' PROVE x \in released' \/ \E id \in DOMAIN files' : x \in Ids(files'[id], 0)
    <2>1. CASE x \in Ids(g, 0)
        BY <1>1, <2>1
    <2>2. CASE x \notin Ids(g, 0)
        <3>1. x \in accepted
            BY <2>2, <1>2
        <3>2. x \in released \/ \E id \in DOMAIN files : x \in Ids(files[id], 0)
            BY <3>1 DEF DiskKeeps
        <3>3. CASE x \in released
            BY <3>3 DEF Forward
        <3>4. ASSUME NEW id \in DOMAIN files, x \in Ids(files[id], 0)
              PROVE  x \in released' \/ \E j \in DOMAIN files' : x \in Ids(files'[j], 0)
            <4>1. CASE id = t
                BY <2>2, <3>1, <3>4, <4>1
            <4>2. CASE id # t
                BY <1>1, <3>4, <4>2
            <4> QED
                BY <4>1, <4>2
        <3> QED
            BY <3>2, <3>3, <3>4
    <2> QED
        BY <2>1, <2>2
<1>3. ASSUME NEW id \in DOMAIN files' PROVE Keeps(files'[id], From(headFile, id), accepted', released')
    <2>1. CASE id = t
        BY <1>1, <2>1
    <2>2. CASE id # t
        <3>1. id \in DOMAIN files /\ files'[id] = files[id]
            BY <1>1, <1>3, <2>2
        <3>2. Keeps(files[id], From(headFile, id), accepted, released)
            BY <3>1 DEF DiskKeeps
        <3>3. Keeps(files[id], From(headFile, id), accepted', released')
            BY <3>1, <3>2, KeepsMore DEF Forward
        <3> QED
            BY <3>1, <3>3
    <2> QED
        BY <2>1, <2>2
<1> QED
    BY <1>2, <1>3 DEF DiskKeeps

LEMMA KeptRemoved ==
    ASSUME DiskKeeps, Forward, accepted' = accepted, headFile' = headFile, NEW a,
           files' = Without(files, a), Ids(files[a], 0) \cap accepted \subseteq released'
    PROVE  DiskKeeps'
<1>1. DOMAIN files' = DOMAIN files \ {a} /\ \A id \in DOMAIN files : id # a => files'[id] = files[id]
    BY DEF Without
<1>2. ASSUME NEW x \in accepted PROVE x \in released' \/ \E id \in DOMAIN files' : x \in Ids(files'[id], 0)
    <2>1. x \in released \/ \E id \in DOMAIN files : x \in Ids(files[id], 0)
        BY <1>2 DEF DiskKeeps
    <2>2. CASE x \in released
        BY <2>2 DEF Forward
    <2>3. ASSUME NEW id \in DOMAIN files, x \in Ids(files[id], 0)
          PROVE  x \in released' \/ \E j \in DOMAIN files' : x \in Ids(files'[j], 0)
        <3>1. CASE id = a
            BY <1>2, <2>3, <3>1
        <3>2. CASE id # a
            BY <1>1, <2>3, <3>2
        <3> QED
            BY <3>1, <3>2
    <2> QED
        BY <2>1, <2>2, <2>3
<1>3. ASSUME NEW id \in DOMAIN files' PROVE Keeps(files'[id], From(headFile, id), accepted, released')
    <2>1. id \in DOMAIN files /\ files'[id] = files[id]
        BY <1>1, <1>3
    <2>2. Keeps(files[id], From(headFile, id), accepted, released)
        BY <2>1 DEF DiskKeeps
    <2>3. Keeps(files[id], From(headFile, id), accepted, released')
        BY <2>1, <2>2, KeepsMore DEF Forward
    <2> QED
        BY <2>1, <2>3
<1> QED
    BY <1>2, <1>3 DEF DiskKeeps

\* A segment that a step leaves alone.
LEMMA LiveSame ==
    ASSUME Forward, NEW i, NEW j, LiveSeg(j), pc # "ack_head", segments[j].id \in DOMAIN files,
           segments'[i].id = segments[j].id, segments'[i].size = segments[j].size,
           files'[segments[j].id] = files[segments[j].id],
           Offset(i, headOff') = Offset(j, headOff),
           From(headFile', segments[j].id) = From(headFile, segments[j].id)
    PROVE  LiveSeg(i)'
<1> DEFINE f == files[segments[j].id]
           o == Offset(j, headOff)
<1>1. Keeps(f, o, accepted, released) /\ Whole(f, o) /\ segments[j].size = Len(f)
      /\ Whole(f, From(headFile, segments[j].id))
    BY DEF LiveSeg, Emptied
<1>2. Keeps(f, o, accepted', released')
    BY <1>1, KeepsMore DEF Forward
<1> QED
    BY <1>1, <1>2 DEF LiveSeg

LEMMA DeadSame ==
    ASSUME Forward, DeadSeg(1), segments[1].id \in DOMAIN files, segments'[1].id = segments[1].id,
           Len(segments') > 1, files'[segments[1].id] = files[segments[1].id]
    PROVE  DeadSeg(1)'
BY DEF DeadSeg, Forward

----------------------------------------------------------------------------
\* The failures a record does not outlive.
Harmful == {"append", "roll", "head", "corrupt"}

LEMMA HarmlessCalls ==
    ASSUME faults \in Seq(Faults), ~Failed(Harmful)', NEW kind \in Harmful, Fails(kind)
    PROVE  FALSE
BY CallFailed

LEMMA KeepsFiles ==
    ASSUME DiskInv, CellsInv, pc \notin {"down", "recover"}
    PROVE  /\ Len(segments) \in Nat /\ Len(segments) >= 1 /\ 1 \in 1..Len(segments)
           /\ segments[1].id \in DOMAIN files /\ segments[1].id \in Positive
           /\ \A id \in DOMAIN files : segments[1].id <= id
           /\ \A i \in 1..Len(segments) : /\ segments[i].id \in DOMAIN files
                                          /\ i # 1 => segments[i].id # segments[1].id
           /\ headFile[1] <= segments[1].id /\ headFile \in Nat \X Nat /\ headOff \in Nat
           /\ FilesTyped(files) /\ \A id \in DOMAIN files : files[id] \in Seq(Cell)
<1>1. /\ Len(segments) \in Nat /\ Len(segments) >= 1 /\ DOMAIN files \subseteq Nat \ {0}
      /\ \A i \in 1..Len(segments) : segments[i].id \in DOMAIN files
      /\ \A id \in DOMAIN files : segments[1].id <= id
      /\ Shaped(segments) /\ Increasing(segments) /\ HeadInv
    BY OldestFirst
<1>2. 1 \in 1..Len(segments) /\ \A i \in 1..Len(segments) : i # 1 => 1 < i
    BY <1>1
<1>3. \A i \in 1..Len(segments) : i # 1 => segments[i].id # segments[1].id
    BY <1>1, <1>2 DEF Increasing
<1>4. /\ headFile \in Nat \X Nat /\ headOff \in Nat
      /\ FilesTyped(files) /\ \A id \in DOMAIN files : files[id] \in Seq(Cell)
    BY CellsFacts
<1> QED
    BY <1>1, <1>2, <1>3, <1>4 DEF HeadInv, Positive

LEMMA HeadKeeps ==
    ASSUME DiskInv, CellsInv, MemoryKeeps, pc \notin {"down", "recover"}
    PROVE  /\ LiveSeg(1) \/ DeadSeg(1)
           /\ Keeps(files[segments[1].id], headOff, accepted, released)
<1>1. LiveSeg(1) \/ DeadSeg(1)
    BY KeepsFiles DEF MemoryKeeps
<1>2. Offset(1, headOff) = headOff
    BY DEF Offset
<1> QED
    BY <1>1, <1>2, GoneKeeps DEF LiveSeg, DeadSeg

LEMMA KeepExit ==
    ASSUME accepted' \subseteq 1..pushed', DiskKeeps', Exit
    PROVE  KeepInv'
<1>1. segments' = << >> /\ headOff' = 0 /\ peeked' = None
    BY DEF Exit
<1>2. 1..Len(segments') = {}
    BY <1>1
<1>3. MemoryKeeps'
    BY <1>1, <1>2 DEF MemoryKeeps
<1> QED
    BY <1>3 DEF KeepInv

LEMMA NothingNew ==
    ASSUME accepted' = accepted, released \subseteq released'
    PROVE  Forward
BY DEF Forward

LEMMA KeepCrash ==
    ASSUME KeepInv, Crash \/ recover_fails
    PROVE  KeepInv'
<1>1. files' = files /\ headFile' = headFile /\ accepted' = accepted /\ released' = released /\ pushed' = pushed /\ Exit
    BY DEF Crash, recover_fails, disk, history
<1>2. DiskKeeps'
    BY <1>1, NothingNew, KeptDisk DEF KeepInv
<1> QED
    BY <1>1, <1>2, KeepExit DEF KeepInv

LEMMA KeepClose ==
    ASSUME DiskInv, CellsInv, KeepInv, Close
    PROVE  KeepInv'
<1>1. /\ files' = files /\ headFile' = <<segments[1].id, headOff>> /\ accepted' = accepted /\ released' = released
      /\ pushed' = pushed /\ Exit /\ pc \notin {"down", "recover"}
    BY DEF Close, history
<1>2. Keeps(files[segments[1].id], headOff, accepted, released') /\ headOff \in Nat
    BY <1>1, HeadKeeps, KeepsFiles DEF KeepInv
<1>3. DiskKeeps'
    BY <1>1, <1>2, NothingNew, KeptMoved DEF KeepInv
<1> QED
    BY <1>1, <1>3, KeepExit DEF KeepInv

LEMMA KeepQuiet ==
    ASSUME DiskInv, CellsInv, KeepInv, Open \/ enforceBound_done \/ Peek \/ UNCHANGED dqVars
    PROVE  KeepInv'
<1>1. /\ files' = files /\ headFile' = headFile /\ segments' = segments /\ headOff' = headOff
      /\ accepted' = accepted /\ released' = released /\ pushed' = pushed
    BY DEF Open, enforceBound_done, Peek, dqVars, disk, memory, history
<1>2. DiskKeeps'
    BY <1>1, NothingNew, KeptDisk DEF KeepInv
<1>3. CASE Open
    <2>1. segments = << >> /\ peeked = None /\ headOff = 0 /\ peeked' = peeked
        BY <1>3 DEF Open, DiskInv, SegmentsInv, KeepInv, MemoryKeeps
    <2>2. 1..Len(segments') = {}
        BY <1>1, <2>1
    <2> QED
        BY <1>1, <1>2, <2>1, <2>2 DEF KeepInv, MemoryKeeps
<1>4. CASE UNCHANGED dqVars
    <2>1. pc' = pc /\ peeked' = peeked
        BY <1>4 DEF dqVars, memory
    <2> QED
        BY <1>1, <1>2, <2>1 DEF KeepInv, MemoryKeeps, LiveSeg, DeadSeg, Emptied
<1>5. CASE enforceBound_done \/ Peek
    <2>1. pc \notin {"down", "recover"} /\ pc # "ack_head" /\ pc' = "idle"
        BY <1>5 DEF enforceBound_done, Peek
    <2>2. \A i \in 1..Len(segments) : LiveSeg(i)' \/ DeadSeg(i)'
        <3> SUFFICES ASSUME NEW i \in 1..Len(segments) PROVE LiveSeg(i)' \/ DeadSeg(i)'
            OBVIOUS
        <3>1. CASE LiveSeg(i)
            BY <1>1, <2>1, <3>1, LiveSame, NothingNew, KeepsFiles
        <3>2. CASE DeadSeg(i)
            BY <1>1, <3>2 DEF DeadSeg
        <3> QED
            BY <3>1, <3>2 DEF KeepInv, MemoryKeeps
    <2>3. peeked' # None => /\ ValidAt(files[segments[1].id], headOff)
                            /\ RecordAt(files[segments[1].id], headOff) = peeked'
        <3>1. CASE enforceBound_done
            BY <3>1 DEF enforceBound_done, memory, KeepInv, MemoryKeeps
        <3>2. CASE Peek
            <4>1. HeadCells = files[segments[1].id]
                BY <3>2, HeadFacts DEF Peek
            <4> QED
                BY <3>2, <4>1 DEF Peek, Readable, HeadRecord, KeepInv, MemoryKeeps
        <3> QED
            BY <1>5, <3>1, <3>2
    <2> QED
        BY <1>1, <1>2, <2>1, <2>2, <2>3 DEF KeepInv, MemoryKeeps
<1> QED
    BY <1>3, <1>4, <1>5

LEMMA KeepWriteHead ==
    ASSUME DiskInv, CellsInv, KeepInv, faults \in Seq(Faults), ~Failed(Harmful)', writeHead
    PROVE  KeepInv'
<1> DEFINE a == segments[1].id
<1>1. /\ files' = files /\ headFile' = <<a, headOff>> /\ segments' = segments /\ headOff' = headOff
      /\ accepted' = accepted /\ released' = released /\ pushed' = pushed /\ peeked' = peeked
      /\ pc \notin {"down", "recover"} /\ pc' \notin {"down", "recover"} /\ pc' # "ack_head"
    <2>1. ~Fails("head")
        BY HarmlessCalls DEF Harmful
    <2> QED
        BY <2>1 DEF writeHead, memory, HeadSegment
<1>2. /\ Keeps(files[a], headOff, accepted, released') /\ headOff \in Nat
    BY <1>1, HeadKeeps, KeepsFiles DEF KeepInv
<1>3. DiskKeeps' /\ \A id \in DOMAIN files : id # a => From(headFile', id) = From(headFile, id)
    BY <1>1, <1>2, NothingNew, KeptMoved DEF KeepInv
<1>4. From(headFile', a) = headOff
    BY <1>1 DEF From
<1>5. \A i \in 1..Len(segments) : LiveSeg(i)' \/ DeadSeg(i)'
    <2> SUFFICES ASSUME NEW i \in 1..Len(segments) PROVE LiveSeg(i)' \/ DeadSeg(i)'
        OBVIOUS
    <2>1. CASE DeadSeg(i)
        BY <1>1, <2>1 DEF DeadSeg
    <2>2. CASE LiveSeg(i) /\ i = 1
        <3>1. /\ Keeps(files[a], headOff, accepted, released) /\ Whole(files[a], headOff) /\ segments[1].size = Len(files[a])
            BY <2>2 DEF LiveSeg, Offset
        <3> QED
            BY <1>1, <1>4, <2>2, <3>1 DEF LiveSeg, Offset
    <2>3. CASE LiveSeg(i) /\ i # 1
        <3>1. segments[i].id \in DOMAIN files /\ segments[i].id # a
            BY <1>1, <2>3, KeepsFiles
        <3>2. ~Emptied
            <4> DEFINE m == Len(segments)
            <4> HIDE DEF m
            <4>0. i \in 1..m /\ i # 1
                BY <2>3 DEF m
            <4>1. m # 1
                BY <4>0
            <4> QED
                BY <4>1 DEF Emptied, m
        <3> QED
            BY <1>1, <1>3, <2>3, <3>1, <3>2 DEF LiveSeg
    <2> QED
        BY <2>1, <2>2, <2>3 DEF KeepInv, MemoryKeeps
<1> QED
    BY <1>1, <1>3, <1>5 DEF KeepInv, MemoryKeeps

----------------------------------------------------------------------------
\* Recovery.

\* The segment a scan adds is read from where the head file says, and the
\* ones before it stay.
LEMMA ScannedPlace ==
    ASSUME DiskInv, CellsInv, segments = << >> => headOff = 0, scanSegment
    PROVE  LET id == NextSegment
               n == Len(segments)
               o == From(headFile, id)
           IN /\ n \in Nat /\ Len(segments') = n + 1 /\ segments' # << >>
              /\ segments'[n + 1].id = id /\ segments'[n + 1].size = ScanEnd(files[id], o)
              /\ Offset(n + 1, headOff') = o
              /\ \A i \in 1..n : /\ segments'[i] = segments[i]
                                 /\ segments[i].id \in DOMAIN files /\ segments[i].id # id
                                 /\ Offset(i, headOff') = Offset(i, headOff)
<1> DEFINE id == NextSegment
           f == files[id]
           o == From(headFile, id)
           g == Truncated(f, ScanEnd(f, o))
           s == [id |-> id, size |-> Len(g), records |-> Len(Records(g, o))]
           n == Len(segments)
           hf == headFile
           ss == segments
           us == segments'
           ho == headOff
           hp == headOff'
<1>1. /\ id \in DOMAIN files /\ hf[1] <= id
      /\ \A i \in 1..n : ss[i].id < id /\ ss[i].id \in DOMAIN files
      /\ us = Append(ss, s) /\ Len(g) = ScanEnd(f, o)
      /\ hp = IF id = hf[1] THEN hf[2] ELSE ho
    BY Scanned
<1>2. s.id = id /\ s.size = Len(g)
    OBVIOUS
<1>3. Shaped(ss) /\ HeadInv /\ FilesTyped(files) /\ n \in Nat
    BY CellsFacts, Shape DEF DiskInv, SegmentsInv
<1>4. Len(us) = n + 1 /\ us[n + 1] = s /\ (\A i \in 1..n : us[i] = ss[i]) /\ us # << >>
    <2>1. PICK X : ss \in Seq(Seg(X))
        BY <1>3 DEF Shaped
    <2> HIDE DEF s
    <2>2. Len(us) = n + 1 /\ us[n + 1] = s /\ \A i \in 1..n : us[i] = ss[i]
        BY <1>1, <2>1, AppendProperties
    <2>3. us # << >>
        <3>1. Len(<< >>) = 0
            BY EmptySeq
        <3> QED
            BY <1>3, <2>2, <3>1
    <2> QED
        BY <2>2, <2>3
<1>5. DOMAIN files \subseteq Nat /\ id \in Nat
    BY <1>1, <1>3 DEF FilesTyped
<1>6. n = 0 => ss = << >>
    BY <1>3, Shape
<1> HIDE DEF us, hp, s, g, o, f, id, n
<1>7. /\ Offset(n + 1, hp) = o /\ hp = IF n = 0 THEN o ELSE ho
    <2>1. CASE n = 0
        BY <1>1, <1>6, <2>1 DEF Offset, o, From
    <2>2. CASE n # 0
        <3>1. 1 \in 1..n /\ n + 1 # 1
            BY <1>3, <2>2
        <3>2. ss[1].id < id /\ ss[1].id \in DOMAIN files
            BY <1>1, <3>1
        <3>3. hf[1] <= ss[1].id /\ hf[1] \in Nat
            BY <1>3, <3>2 DEF HeadInv
        <3>4. id # hf[1]
            BY <1>5, <3>2, <3>3
        <3> QED
            BY <1>1, <2>2, <3>1, <3>4 DEF Offset, o, From
    <2> QED
        BY <2>1, <2>2
<1>8. \A i \in 1..n : Offset(i, hp) = Offset(i, ho) /\ ss[i].id # id
    <2> SUFFICES ASSUME NEW i \in 1..n PROVE Offset(i, hp) = Offset(i, ho) /\ ss[i].id # id
        OBVIOUS
    <2>1. n # 0
        BY <1>3
    <2>2. ss[i].id # id
        BY <1>1, <1>5
    <2> QED
        BY <1>7, <2>1, <2>2
<1>9. us[n + 1].id = id /\ us[n + 1].size = ScanEnd(f, o)
    BY <1>1, <1>2, <1>4
<1> QED
    BY <1>1, <1>3, <1>4, <1>7, <1>8, <1>9 DEF us, hp, o, f, id, n

LEMMA KeepScan ==
    ASSUME DiskInv, CellsInv, KeepInv, scanSegment, CellsInv'
    PROVE  KeepInv'
<1> DEFINE id == NextSegment
           f == files[id]
           o == From(headFile, id)
           g == Truncated(f, ScanEnd(f, o))
           n == Len(segments)
<1>1. /\ pc = "recover" /\ pc' = "recover" /\ headFile' = headFile /\ peeked' = peeked
      /\ id \in DOMAIN files /\ f \in Seq(Cell) /\ o \in Nat /\ Len(g) = ScanEnd(f, o)
      /\ Records(g, o) = Records(f, o) /\ Whole(g, o) /\ Put(files', files, id, g) /\ DOMAIN files' = DOMAIN files
    BY Scanned
<1>2. accepted' = accepted /\ released' = released /\ pushed' = pushed /\ Forward
    BY NothingNew DEF scanSegment, history
<1>3. files'[id] = g /\ \A i \in DOMAIN files : i # id => files'[i] = files[i]
    BY <1>1 DEF Put
<1>4. RecIds(g, o) = RecIds(f, o) /\ RecIds(g, o) \subseteq Ids(g, 0) /\ Ids(g, 0) \subseteq Ids(f, 0)
    <2>1. FilesOK(files', pushed') /\ id \in DOMAIN files'
        BY <1>1 DEF CellsInv
    <2>2. RecIds(files'[id], o) \subseteq Ids(files'[id], o) /\ Ids(files'[id], o) \subseteq Ids(files'[id], 0)
        <3> HIDE DEF id, o
        <3> QED
            BY <1>1, <2>1, RecIdsSeen
    <2>3. ScanEnd(f, o) \in Nat
        BY <1>1, ScanEndType
    <2>4. Ids(g, 0) \subseteq Ids(f, 0)
        BY <1>1, <2>3, TruncatedIds
    <2> QED
        BY <1>1, <1>3, <2>2, <2>4 DEF RecIds
<1>5. Keeps(f, o, accepted, released)
    BY <1>1 DEF KeepInv, DiskKeeps
<1>6. Keeps(g, o, accepted, released) /\ Ids(f, 0) \cap accepted \subseteq released \cup Ids(g, 0)
    BY <1>4, <1>5 DEF Keeps
<1>7. DiskKeeps'
    <2> HIDE DEF g, id
    <2> QED
        BY <1>1, <1>2, <1>6, KeptPut DEF KeepInv
<1>8. peeked = None /\ (segments = << >> => headOff = 0) /\ \A i \in 1..n : LiveSeg(i) \/ DeadSeg(i)
    BY <1>1 DEF KeepInv, MemoryKeeps
<1>9. /\ n \in Nat /\ Len(segments') = n + 1 /\ segments' # << >>
      /\ segments'[n + 1].id = id /\ segments'[n + 1].size = ScanEnd(files[id], o)
      /\ Offset(n + 1, headOff') = o
      /\ \A i \in 1..n : /\ segments'[i] = segments[i]
                         /\ segments[i].id \in DOMAIN files /\ segments[i].id # id
                         /\ Offset(i, headOff') = Offset(i, headOff)
    BY <1>8, ScannedPlace
<1> HIDE DEF g, o, id, n
<1>m. PICK m \in Nat : m = n
    BY <1>9
<1>10. \A i \in 1..n : LiveSeg(i)' \/ DeadSeg(i)'
    <2> SUFFICES ASSUME NEW i \in 1..n PROVE LiveSeg(i)' \/ DeadSeg(i)'
        OBVIOUS
    <2>1. /\ segments'[i] = segments[i] /\ segments[i].id \in DOMAIN files /\ segments[i].id # id
          /\ Offset(i, headOff') = Offset(i, headOff) /\ files'[segments[i].id] = files[segments[i].id]
        BY <1>3, <1>9
    <2>2. CASE LiveSeg(i)
        BY <1>1, <1>2, <2>1, <2>2, LiveSame
    <2>3. CASE DeadSeg(i)
        <3>1. i = 1 /\ DeadSeg(1)
            BY <2>3 DEF DeadSeg
        <3>2. n + 1 > 1
            BY <1>9
        <3>3. Len(segments') > 1
            BY <1>9, <3>2
        <3>4. DeadSeg(1)'
            BY <1>2, <2>1, <3>1, <3>3, DeadSame
        <3> QED
            BY <3>1, <3>4
    <2> QED
        BY <1>8, <2>2, <2>3
<1>11. LiveSeg(m + 1)'
    <2>1. files'[segments'[m + 1].id] = g /\ segments'[m + 1].size = Len(g)
        BY <1>1, <1>3, <1>9, <1>m
    <2>2. From(headFile', segments'[m + 1].id) = o
        BY <1>1, <1>9, <1>m DEF o
    <2> QED
        BY <1>1, <1>2, <1>6, <1>9, <1>m, <2>1, <2>2 DEF LiveSeg
<1>12. \A i \in 1..(m + 1) : i \in 1..m \/ i = m + 1
    OBVIOUS
<1>13. \A i \in 1..Len(segments') : LiveSeg(i)' \/ DeadSeg(i)'
    BY <1>9, <1>10, <1>11, <1>12, <1>m
<1> QED
    BY <1>1, <1>2, <1>7, <1>8, <1>9, <1>13 DEF KeepInv, MemoryKeeps

LEMMA KeepRecovered ==
    ASSUME DiskInv, CellsInv, KeepInv, recover_done
    PROVE  KeepInv'
<1>1. /\ pc = "recover" /\ todo = {} /\ pc' = "open_bound" /\ headFile' = headFile /\ headOff' = headOff
      /\ peeked' = peeked /\ accepted' = accepted /\ released' = released /\ pushed' = pushed /\ Forward
    BY NothingNew DEF recover_done, history
<1>2. peeked = None
    BY <1>1 DEF KeepInv, MemoryKeeps
<1>3. CASE segments # << >>
    <2>1. files' = files /\ segments' = segments
        BY <1>3 DEF recover_done
    <2>2. DiskKeeps'
        BY <1>1, <2>1, KeptDisk DEF KeepInv
    <2>3. \A i \in 1..Len(segments) : segments[i].id \in DOMAIN files
        BY <1>1 DEF DiskInv, SegmentsInv, SegIds
    <2>4. \A i \in 1..Len(segments) : LiveSeg(i)' \/ DeadSeg(i)'
        <3> SUFFICES ASSUME NEW i \in 1..Len(segments) PROVE LiveSeg(i)' \/ DeadSeg(i)'
            OBVIOUS
        <3>1. CASE LiveSeg(i)
            BY <1>1, <2>1, <2>3, <3>1, LiveSame
        <3>2. CASE DeadSeg(i)
            BY <1>1, <2>1, <3>2 DEF DeadSeg
        <3> QED
            BY <3>1, <3>2 DEF KeepInv, MemoryKeeps
    <2> QED
        BY <1>1, <1>2, <1>3, <2>1, <2>2, <2>4 DEF KeepInv, MemoryKeeps
<1>4. CASE segments = << >>
    <2>1. DOMAIN files = {}
        <3>1. 1..Len(segments) = {}
            BY <1>4
        <3> QED
            BY <1>1, <3>1 DEF SegIds, DiskInv, SegmentsInv
    <2>2. /\ DOMAIN files' = {1} /\ files'[1] = << >>
          /\ segments' = <<[id |-> 1, size |-> 0, records |-> 0]>> /\ headOff' = 0
        BY <1>1, <1>4, <2>1 DEF recover_done, With, Cells, KeepInv, MemoryKeeps
    <2>3. headFile[1] = 0
        BY <2>1 DEF DiskInv, HeadInv
    <2>4. From(headFile, 1) = 0 /\ Whole(<< >>, 0) /\ Len(<< >>) = 0
        BY <2>3, EmptyScan DEF From
    <2>5. Ids(<< >>, 0) = {}
        BY <2>4 DEF Ids
    <2>6. \A o : Keeps(<< >>, o, accepted, released)
        BY <2>5 DEF Keeps
    <2>7. DiskKeeps'
        BY <1>1, <2>1, <2>2, <2>6 DEF DiskKeeps, KeepInv
    <2>8. Len(segments') = 1 /\ segments'[1].id = 1 /\ segments'[1].size = 0 /\ segments' # << >>
        BY <2>2
    <2>9. LiveSeg(1)'
        BY <1>1, <2>2, <2>4, <2>6, <2>8 DEF LiveSeg, Offset
    <2>10. \A i \in 1..Len(segments') : i = 1
        BY <2>8
    <2> QED
        BY <1>1, <1>2, <2>7, <2>8, <2>9, <2>10 DEF KeepInv, MemoryKeeps
<1> QED
    BY <1>3, <1>4

----------------------------------------------------------------------------
\* Pushing a record.

\* The segments that a push writes to: the last one is read to its end, even
\* when it is a new one.
RolledLive(ss, n, t, f) ==
    /\ Shaped(ss) /\ n \in Nat /\ n >= 1 /\ Len(ss) = n /\ ss[n].id = t /\ t \in Positive
    /\ \A id \in DOMAIN files : id <= t
    /\ f \in Seq(Cell) /\ ss[n].size = Len(f)
    /\ Whole(f, Offset(n, headOff)) /\ Whole(f, From(headFile, t))
    /\ Keeps(f, Offset(n, headOff), accepted, released) /\ Keeps(f, From(headFile, t), accepted, released)
    /\ \A i \in 1..n : i # n => i \in 1..Len(segments) /\ ss[i] = segments[i] /\ ss[i].id # t
    /\ ss[1].id = segments[1].id /\ Len(segments) <= n

LEMMA RolledLives ==
    ASSUME DiskInv, CellsInv, KeepInv, pc = "idle", NEW k
    PROVE  LET t == Last(Rolled(k)).id
           IN RolledLive(Rolled(k), Len(Rolled(k)), t, CellsOf(files, t))
<1> DEFINE ss == Rolled(k)
           t == Last(ss).id
           f == CellsOf(files, t)
           m == Len(segments)
           tail == Last(segments)
<1>1. /\ m \in Nat /\ m >= 1 /\ FilesTyped(files)
      /\ headFile[1] <= segments[1].id /\ headFile \in Nat \X Nat /\ headOff \in Nat
      /\ \A i \in 1..m : segments[i].id \in DOMAIN files
    BY KeepsFiles
<1>2. /\ Shaped(segments) /\ Increasing(segments) /\ DOMAIN files = SegIds(segments)
    BY OldestFirst
<1>3. Shaped(ss)
    BY RolledTail
<1>4. t \in Positive /\ \A id \in DOMAIN files : id <= t
    BY RolledNewest DEF Positive
<1>6. tail = segments[m] /\ m \in 1..m /\ 1 \in 1..m
    BY <1>1 DEF Last
<1>7. f \in Seq(Cell)
    BY <1>1, EmptyScan DEF CellsOf, FilesTyped
<1>8. DOMAIN files \subseteq Nat
    BY <1>1 DEF FilesTyped
<1>9. CASE ss = segments
    <2>1. t = segments[m].id /\ t \in DOMAIN files
        BY <1>1, <1>6, <1>9
    <2>2. f = files[t]
        BY <2>1 DEF CellsOf
    <2>3. LiveSeg(m)
        <3>1. LiveSeg(m) \/ DeadSeg(m)
            BY <1>6 DEF KeepInv, MemoryKeeps
        <3>2. ~DeadSeg(m)
            <4>1. ~(m = 1 /\ m > 1)
                BY <1>1
            <4> QED
                BY <4>1 DEF DeadSeg
        <3> QED
            BY <3>1, <3>2
    <2>4. /\ Keeps(f, Offset(m, headOff), accepted, released) /\ Whole(f, Offset(m, headOff))
          /\ ss[m].size = Len(f) /\ Whole(f, From(headFile, t))
        BY <1>9, <2>1, <2>2, <2>3 DEF LiveSeg, Emptied
    <2>5. Keeps(f, From(headFile, t), accepted, released)
        BY <2>1, <2>2 DEF KeepInv, DiskKeeps
    <2>6. \A i \in 1..m : i # m => i \in 1..m /\ ss[i] = segments[i] /\ ss[i].id # t
        <3> SUFFICES ASSUME NEW i \in 1..m, i # m PROVE segments[i].id # segments[m].id
            BY <1>9, <2>1
        <3>1. i < m
            BY <1>1
        <3>2. segments[i].id < segments[m].id
            BY <1>2, <1>6, <3>1 DEF Increasing
        <3> QED
            BY <1>1, <1>6, <1>8, <3>2
    <2>7. m <= m /\ ss[m].id = t
        BY <1>1, <1>9, <2>1
    <2> QED
        BY <1>1, <1>3, <1>4, <1>7, <1>9, <2>4, <2>5, <2>6, <2>7 DEF RolledLive
<1>10. CASE ss # segments
    <2> DEFINE s == [id |-> tail.id + 1, size |-> 0, records |-> 0]
    <2>1. ss = Append(segments, s)
        BY <1>10 DEF Rolled
    <2>2. PICK X : segments \in Seq(Seg(X))
        BY <1>2 DEF Shaped
    <2>3. Len(ss) = m + 1 /\ ss[m + 1] = s /\ \A i \in 1..m : ss[i] = segments[i]
        <3> HIDE DEF s
        <3> QED
            BY <2>1, <2>2, AppendProperties
    <2>4. s.id = tail.id + 1 /\ s.size = 0
        OBVIOUS
    <2> HIDE DEF s
    <2>5. t = segments[m].id + 1
        BY <1>6, <2>3, <2>4 DEF Last
    <2>6. \A id \in DOMAIN files : id <= segments[m].id /\ id \in Nat /\ segments[m].id \in Nat
        <3> SUFFICES ASSUME NEW id \in DOMAIN files PROVE id <= segments[m].id /\ id \in Nat /\ segments[m].id \in Nat
            OBVIOUS
        <3>1. PICK i \in 1..m : segments[i].id = id
            BY <1>2 DEF SegIds
        <3>2. id \in Nat /\ segments[m].id \in Nat
            BY <1>1, <1>6, <1>8
        <3>3. i = m \/ i < m
            BY <1>1
        <3>4. i < m => segments[i].id < segments[m].id
            BY <1>2, <1>6 DEF Increasing
        <3> QED
            BY <3>1, <3>2, <3>3, <3>4
    <2>7. t \notin DOMAIN files /\ f = << >>
        <3>1. t \notin DOMAIN files
            BY <1>6, <2>5, <2>6
        <3> QED
            BY <3>1 DEF CellsOf
    <2>8. headFile[1] # t /\ From(headFile, t) = 0
        <3>1. headFile[1] \in Nat /\ segments[1].id <= segments[m].id /\ segments[1].id \in Nat /\ segments[m].id \in Nat
            BY <1>1, <1>6, <2>6
        <3>2. headFile[1] # t
            BY <1>1, <2>5, <3>1
        <3> QED
            BY <3>2 DEF From
    <2>9. Offset(m + 1, headOff) = 0 /\ m + 1 \in Nat /\ m + 1 >= 1 /\ m <= m + 1
        BY <1>1 DEF Offset
    <2>10. Whole(f, 0) /\ Len(f) = 0 /\ Keeps(f, 0, accepted, released)
        <3>1. Whole(f, 0) /\ Len(f) = 0
            BY <2>7, EmptyScan
        <3>2. Ids(f, 0) = {}
            BY <3>1 DEF Ids
        <3> QED
            BY <3>1, <3>2 DEF Keeps
    <2>11. \A i \in 1..(m + 1) : i # m + 1 => i \in 1..m /\ ss[i] = segments[i] /\ ss[i].id # t
        <3>1. \A i \in 1..(m + 1) : i # m + 1 => i \in 1..m
            BY <1>1
        <3> QED
            BY <1>1, <2>3, <2>7, <3>1
    <2>12. ss[1].id = segments[1].id
        BY <1>6, <2>3
    <2>13. ss[m + 1].id = t /\ ss[m + 1].size = Len(f)
        BY <1>6, <2>3, <2>4, <2>5, <2>10
    <2> QED
        BY <1>3, <1>4, <1>7, <2>3, <2>8, <2>9, <2>10, <2>11, <2>12, <2>13 DEF RolledLive
<1> QED
    BY <1>9, <1>10

\* The file that the first n cells of a record are appended to.
LEMMA AppendedPut ==
    ASSUME DiskInv, CellsInv, pc = "idle", NEW id, NEW k, NEW n
    PROVE  LET t == Last(Rolled(k)).id
               gs == Appended(id, k, n)
           IN /\ Put(gs, files, t, CellsOf(files, t) \o SubSeq(encode(id, k), 1, n))
              /\ DOMAIN gs = DOMAIN files \cup {t}
BY DEF Appended, With, Put, CellsOf, Cells

LEMMA KeepsPush ==
    ASSUME NEW f \in Seq(Cell), NEW o \in Nat, Whole(f, o), NEW acc, NEW rel, Keeps(f, o, acc, rel),
           NEW id \in Nat \ {0}, NEW k \in Nat \ {0}, k <= MaxRecord
    PROVE  LET g == f \o encode(id, k)
           IN /\ g \in Seq(Cell) /\ Len(g) = Len(f) + k /\ Whole(g, o)
              /\ Ids(f, 0) \subseteq Ids(g, 0) /\ id \in Ids(g, 0)
              /\ Keeps(g, o, acc \cup {id}, rel)
<1> DEFINE g == f \o encode(id, k)
<1>1. g \in Seq(Cell) /\ Len(g) = Len(f) + k /\ Whole(g, o)
    BY PushScan
<1>2. SubSeq(encode(id, k), 1, k) = encode(id, k)
    BY WholeEncoding
<1>a. k \in 0..k /\ k \in Nat /\ k # 0
    OBVIOUS
<1>b. LET h == f \o SubSeq(encode(id, k), 1, k)
      IN Ids(f, 0) \subseteq Ids(h, 0) /\ Ids(h, 0) \subseteq Ids(f, 0) \cup {id} /\ id \in Ids(h, 0)
    BY <1>a, AppendedIds
<1>3. Ids(f, 0) \subseteq Ids(g, 0) /\ Ids(g, 0) \subseteq Ids(f, 0) \cup {id} /\ id \in Ids(g, 0)
    BY <1>2, <1>b
<1>4. RecIds(g, o) = RecIds(f, o) \cup {id}
    BY PushedIds
<1> HIDE DEF g
<1>5. Keeps(g, o, acc \cup {id}, rel)
    BY <1>3, <1>4 DEF Keeps
<1> QED
    BY <1>1, <1>3, <1>5 DEF g

LEMMA ValidGrown ==
    ASSUME NEW f \in Seq(Cell), NEW c \in Seq(Cell), NEW o \in Nat, ValidAt(f, o)
    PROVE  ValidAt(f \o c, o) /\ RecordAt(f \o c, o) = RecordAt(f, o)
<1> DEFINE g == f \o c
<1>1. g \in Seq(Cell) /\ Len(g) = Len(f) + Len(c) /\ \A i \in 1..Len(f) : g[i] = f[i]
    BY AppendCells
<1>2. Len(f) \in Nat /\ Len(c) \in Nat
    BY CellShape
<1> HIDE DEF g
<1>3. Agree(f, g, Len(f))
    BY <1>1, <1>2 DEF Agree
<1>4. o + RecordAt(f, o)[2] <= Len(f)
    BY ValidNext
<1> QED
    BY <1>1, <1>2, <1>3, <1>4, ValidSame DEF g

LEMMA KeepPush ==
    ASSUME DiskInv, CellsInv, KeepInv, RecordsFit, Push
    PROVE  KeepInv'
<1>1. PICK k \in Sizes :
         /\ pc = "idle" /\ pc' = "bound" /\ files' = Appended(pushed + 1, k, k)
         /\ segments' = [Rolled(k) EXCEPT ![Len(Rolled(k))].size = @ + k,
                                          ![Len(Rolled(k))].records = @ + 1]
         /\ headFile' = headFile /\ headOff' = headOff /\ peeked' = peeked
         /\ pushed' = pushed + 1 /\ accepted' = accepted \cup {pushed + 1} /\ released' = released
    BY DEF Push
<1>2. PICK n : n = Len(Rolled(k))
    OBVIOUS
<1>3. PICK t : t = Last(Rolled(k)).id
    OBVIOUS
<1>4. PICK id : id = pushed + 1
    OBVIOUS
<1> DEFINE ss == Rolled(k)
           f == CellsOf(files, t)
           g == f \o encode(id, k)
           us == segments'
           gs == files'
           hf == headFile
           ho == headOff
           acc == accepted \cup {id}
<1>5. RolledLive(ss, n, t, f)
    BY <1>1, <1>2, <1>3, RolledLives
<1>6. /\ Shaped(ss) /\ n \in Nat /\ n >= 1 /\ Len(ss) = n /\ ss[n].id = t /\ t \in Positive
      /\ f \in Seq(Cell) /\ ss[n].size = Len(f)
      /\ Whole(f, Offset(n, ho)) /\ Whole(f, From(hf, t))
      /\ Keeps(f, Offset(n, ho), accepted, released) /\ Keeps(f, From(hf, t), accepted, released)
      /\ \A i \in 1..n : i # n => i \in 1..Len(segments) /\ ss[i] = segments[i] /\ ss[i].id # t
      /\ ss[1].id = segments[1].id /\ Len(segments) <= n
    BY <1>5 DEF RolledLive
<1>7. k \in Nat \ {0} /\ k <= MaxRecord /\ id \in Nat \ {0} /\ pushed \in Nat /\ ho \in Nat /\ hf \in Nat \X Nat
      /\ Offset(n, ho) \in Nat /\ From(hf, t) \in Nat
    <2>1. k \in Nat \ {0} /\ pushed \in Nat /\ ho \in Nat /\ hf \in Nat \X Nat /\ k <= MaxRecord
        BY DiskQueueAssumption, CellsFacts DEF RecordsFit
    <2> QED
        BY <1>4, <2>1, FromType DEF Offset
<1>8. \A i \in 1..Len(segments) : segments[i].id \in DOMAIN files
    BY <1>1, KeepsFiles
<1>9. Put(gs, files, t, g) /\ DOMAIN gs = DOMAIN files \cup {t}
    <2>1. g = f \o SubSeq(encode(id, k), 1, k)
        BY <1>7, WholeEncoding
    <2>2. Put(gs, files, t, f \o SubSeq(encode(id, k), 1, k)) /\ DOMAIN gs = DOMAIN files \cup {t}
        BY <1>1, <1>3, <1>4, AppendedPut
    <2> HIDE DEF g
    <2> QED
        BY <2>1, <2>2
<1>10. gs[t] = g /\ (\A i \in DOMAIN files : i # t => gs[i] = files[i]) /\ (t \in DOMAIN files => files[t] = f)
    BY <1>9 DEF Put, CellsOf
<1>11. /\ Len(us) = n /\ us # << >>
       /\ \A i \in 1..n : us[i].id = ss[i].id /\ (i # n => us[i] = ss[i])
       /\ us[n].size = ss[n].size + k
    <2> HIDE DEF ss
    <2> QED
        BY <1>1, <1>2, <1>6, CountedPush DEF ss
<1>12. Forward
    <2>1. \A i \in DOMAIN files : id \notin Ids(files[i], 0)
        <3> SUFFICES ASSUME NEW i \in DOMAIN files, id \in Ids(files[i], 0) PROVE FALSE
            OBVIOUS
        <3>1. id \in 1..pushed
            BY IdsPushed
        <3> QED
            BY <1>4, <1>7, <3>1
    <2> QED
        BY <1>1, <1>4, <2>1 DEF Forward
<1>13. /\ g \in Seq(Cell) /\ Len(g) = Len(f) + k /\ Whole(g, From(hf, t)) /\ Whole(g, Offset(n, ho))
       /\ Ids(f, 0) \subseteq Ids(g, 0) /\ id \in Ids(g, 0)
       /\ Keeps(g, From(hf, t), acc, released) /\ Keeps(g, Offset(n, ho), acc, released)
    <2> DEFINE p == From(hf, t)
               o == Offset(n, ho)
    <2> HIDE DEF f, p, o
    <2>1. /\ g \in Seq(Cell) /\ Len(g) = Len(f) + k /\ Whole(g, p)
          /\ Ids(f, 0) \subseteq Ids(g, 0) /\ id \in Ids(g, 0) /\ Keeps(g, p, acc, released)
        BY <1>6, <1>7, KeepsPush DEF p
    <2>2. Whole(g, o) /\ Keeps(g, o, acc, released)
        BY <1>6, <1>7, KeepsPush DEF o
    <2> QED
        BY <2>1, <2>2 DEF p, o
<1>14. DiskKeeps'
    <2> HIDE DEF f, g
    <2>1. accepted' \subseteq accepted \cup Ids(g, 0) /\ Keeps(g, From(hf, t), accepted', released')
        BY <1>1, <1>4, <1>13
    <2>2. t \in DOMAIN files => Ids(files[t], 0) \cap accepted \subseteq released' \cup Ids(g, 0)
        BY <1>10, <1>13
    <2> QED
        BY <1>1, <1>9, <1>12, <2>1, <2>2, KeptPut DEF KeepInv
<1> HIDE DEF f, g, ss
<1>15. ASSUME NEW i \in 1..n PROVE LiveSeg(i)' \/ DeadSeg(i)'
    <2>1. CASE i = n
        <3>1. us[n].id = t /\ us[n].size = Len(g)
            BY <1>6, <1>11, <1>13, <2>1, <1>15
        <3>2. LiveSeg(n)'
            BY <1>1, <1>4, <1>10, <1>13, <3>1 DEF LiveSeg
        <3> QED
            BY <2>1, <3>2
    <2>2. CASE i # n
        <3>1. /\ i \in 1..Len(segments) /\ us[i] = segments[i] /\ segments[i].id # t
            BY <1>6, <1>11, <1>15, <2>2
        <3>2. segments[i].id \in DOMAIN files /\ gs[segments[i].id] = files[segments[i].id]
            BY <1>8, <1>10, <3>1
        <3>3. LiveSeg(i) \/ DeadSeg(i)
            BY <3>1 DEF KeepInv, MemoryKeeps
        <3>4. CASE LiveSeg(i)
            BY <1>1, <1>12, <3>1, <3>2, <3>4, LiveSame
        <3>5. CASE DeadSeg(i)
            <4>1. i = 1 /\ DeadSeg(1)
                BY <3>5 DEF DeadSeg
            <4>2. n > 1
                BY <1>6, <1>15, <2>2, <4>1
            <4>3. DeadSeg(1)'
                BY <1>11, <1>12, <3>1, <3>2, <4>1, <4>2, DeadSame
            <4> QED
                BY <4>1, <4>3
        <3> QED
            BY <3>3, <3>4, <3>5
    <2> QED
        BY <2>1, <2>2
<1>16. peeked # None => ValidAt(gs[us[1].id], ho) /\ RecordAt(gs[us[1].id], ho) = peeked
    <2> DEFINE a == segments[1].id
               c == files[a]
    <2> SUFFICES ASSUME peeked # None PROVE ValidAt(gs[us[1].id], ho) /\ RecordAt(gs[us[1].id], ho) = peeked
        OBVIOUS
    <2>1. ValidAt(c, ho) /\ RecordAt(c, ho) = peeked
        BY DEF KeepInv, MemoryKeeps
    <2>2. us[1].id = a
        <3>1. 1 \in 1..n
            BY <1>6
        <3> QED
            BY <1>6, <1>11, <3>1
    <2>3. a \in DOMAIN files
        BY <1>1, KeepsFiles
    <2>4. CASE a # t
        BY <1>10, <2>1, <2>2, <2>3, <2>4
    <2>5. CASE a = t
        <3>1. c = f /\ gs[a] = g
            BY <1>10, <2>3, <2>5
        <3>2. encode(id, k) \in Seq(Cell)
            <4>1. k \in 0..k /\ k \in Nat /\ id \in Nat
                BY <1>7
            <4> QED
                BY <4>1, EncodeCells, WholeEncoding
        <3>3. ValidAt(g, ho) /\ RecordAt(g, ho) = RecordAt(f, ho)
            BY <1>6, <1>7, <2>1, <3>1, <3>2, ValidGrown DEF g
        <3> QED
            BY <2>1, <2>2, <3>1, <3>3
    <2> QED
        BY <2>4, <2>5
<1>17. accepted' \subseteq 1..pushed'
    <2>1. accepted \subseteq 1..pushed
        BY DEF KeepInv
    <2>2. 1..pushed \subseteq 1..id /\ id \in 1..id
        BY <1>4, <1>7
    <2> QED
        BY <1>1, <1>4, <2>1, <2>2
<1> QED
    BY <1>1, <1>11, <1>14, <1>15, <1>16, <1>17 DEF KeepInv, MemoryKeeps

LEMMA KeepTorn ==
    ASSUME DiskInv, CellsInv, KeepInv, RecordsFit, Push_torn
    PROVE  KeepInv'
<1>0. PICK k \in Sizes : \E n \in 0..(k - 1) :
         /\ pc = "idle" /\ files' = Appended(pushed + 1, k, n) /\ headFile' = headFile /\ Exit
         /\ pushed' = pushed + 1 /\ accepted' = accepted /\ released' = released
    BY DEF Push_torn
<1>1. PICK n \in 0..(k - 1) :
         /\ pc = "idle" /\ files' = Appended(pushed + 1, k, n) /\ headFile' = headFile /\ Exit
         /\ pushed' = pushed + 1 /\ accepted' = accepted /\ released' = released
    BY <1>0
<1>2. PICK t : t = Last(Rolled(k)).id
    OBVIOUS
<1>3. PICK id : id = pushed + 1
    OBVIOUS
<1> DEFINE f == CellsOf(files, t)
           g == f \o SubSeq(encode(id, k), 1, n)
           p == From(headFile, t)
<1>4. RolledLive(Rolled(k), Len(Rolled(k)), t, f)
    BY <1>1, <1>2, RolledLives
<1>5. f \in Seq(Cell) /\ Whole(f, p) /\ Keeps(f, p, accepted, released)
    BY <1>4 DEF RolledLive
<1>6. /\ k \in Nat \ {0} /\ k <= MaxRecord /\ id \in Nat \ {0} /\ id \in Nat /\ pushed \in Nat /\ k \in Nat /\ n \in 0..k
    <2>1. k \in Nat \ {0} /\ pushed \in Nat /\ k <= MaxRecord
        BY DiskQueueAssumption, CellsFacts DEF RecordsFit
    <2> QED
        BY <1>3, <2>1
<1>7. p \in Nat
    BY CellsFacts, FromType
<1>8. Put(files', files, t, g)
    BY <1>1, <1>2, <1>3, AppendedPut
<1>9. t \in DOMAIN files => files[t] = f
    BY DEF CellsOf
<1> HIDE DEF f, p
<1>10. Ids(f, 0) \subseteq Ids(g, 0) /\ Ids(g, 0) \subseteq Ids(f, 0) \cup {id}
    BY <1>5, <1>6, AppendedIds
<1>11. RecIds(g, p) = RecIds(f, p)
    <2>1. Records(g, p) = Records(f, p)
        BY <1>5, <1>6, <1>7, TornScan
    <2> QED
        BY <2>1 DEF RecIds
<1> HIDE DEF g
<1>12. id \notin accepted /\ accepted \subseteq 1..pushed /\ 1..pushed \subseteq 1..id
    <2>1. id \notin 1..pushed /\ 1..pushed \subseteq 1..id
        BY <1>3, <1>6
    <2> QED
        BY <2>1 DEF KeepInv
<1>13. Keeps(g, p, accepted, released)
    BY <1>5, <1>10, <1>11, <1>12 DEF Keeps
<1>14. DiskKeeps'
    <2>1. Forward
        BY <1>1, NothingNew
    <2>2. t \in DOMAIN files => Ids(files[t], 0) \cap accepted \subseteq released' \cup Ids(g, 0)
        BY <1>9, <1>10
    <2>3. accepted' \subseteq accepted \cup Ids(g, 0) /\ Keeps(g, From(headFile, t), accepted', released')
        BY <1>1, <1>13 DEF p
    <2> QED
        BY <1>1, <1>8, <2>1, <2>2, <2>3, KeptPut DEF KeepInv
<1>15. accepted' \subseteq 1..pushed'
    BY <1>1, <1>3, <1>12
<1> QED
    BY <1>1, <1>14, <1>15, KeepExit

----------------------------------------------------------------------------
\* Consuming records.

\* What a counting drop releases.
LEMMA GoneCounted ==
    ASSUME DiskInv, CellsInv, KeepInv, pc \notin {"down", "recover"},
           released' = released \cup Ids(files[segments[1].id], headOff)
    PROVE  Ids(files[segments[1].id], 0) \cap accepted \subseteq released'
<1>1. Keeps(files[segments[1].id], headOff, accepted, released)
    BY HeadKeeps DEF KeepInv
<1>2. RecIds(files[segments[1].id], headOff) \subseteq Ids(files[segments[1].id], headOff)
    <2>1. FilesOK(files, pushed) /\ headOff \in Nat /\ segments[1].id \in DOMAIN files
        BY CellsFacts, KeepsFiles
    <2> QED
        BY <2>1, RecIdsSeen
<1> QED
    BY <1>1, <1>2 DEF Keeps

LEMMA HeadReads ==
    ASSUME DiskInv, CellsInv, KeepInv, pc = "idle", Readable
    PROVE  /\ ValidAt(files[segments[1].id], headOff)
           /\ HeadRecord = RecordAt(files[segments[1].id], headOff)
<1>1. HeadCells = files[segments[1].id]
    BY HeadFacts
<1> QED
    BY <1>1 DEF KeepInv, MemoryKeeps, Readable, HeadRecord

\* What an ack of the last record of a segment releases.
LEMMA GoneRead ==
    ASSUME DiskInv, CellsInv, KeepInv, pc = "idle", Readable,
           headOff + HeadRecord[2] >= segments[1].size,
           released' = released \cup {HeadRecord[1]}
    PROVE  Ids(files[segments[1].id], 0) \cap accepted \subseteq released'
<1> DEFINE f == files[segments[1].id]
<1>1. ValidAt(f, headOff) /\ HeadRecord = RecordAt(f, headOff)
    BY HeadReads
<1>2. f \in Seq(Cell) /\ headOff \in Nat
    BY KeepsFiles
<1>3. CASE LiveSeg(1)
    <2>1. Keeps(f, headOff, accepted, released) /\ segments[1].size = Len(f)
        BY <1>3 DEF LiveSeg, Offset
    <2>2. RecIds(f, headOff) = {RecordAt(f, headOff)[1]}
        BY <1>1, <1>2, <2>1, RecIdsLast
    <2> QED
        BY <1>1, <2>1, <2>2 DEF Keeps
<1>4. CASE DeadSeg(1)
    BY <1>4 DEF DeadSeg
<1> QED
    BY <1>3, <1>4, HeadKeeps DEF KeepInv

LEMMA KeepDrop ==
    ASSUME DiskInv, CellsInv, KeepInv, pc \in {"idle", "bound", "open_bound"}, Len(segments) > 1,
           NEW rec, NEW next \in {"bound_head", "open_head", "ack_head"}, dropHead(rec, next),
           Ids(files[segments[1].id], 0) \cap accepted \subseteq released'
    PROVE  KeepInv'
<1>1. PICK a : a = segments[1].id
    OBVIOUS
<1>2. /\ headFile' = headFile /\ accepted' = accepted /\ released \subseteq released' /\ pushed' = pushed
      /\ peeked' = None /\ headOff' = 0 /\ pc \notin {"down", "recover"} /\ pc # "ack_head"
    BY DEF dropHead, unpeek
<1>3. Forward
    BY <1>2, NothingNew
<1>4. /\ Len(segments) \in Nat /\ a \in DOMAIN files
      /\ \A i \in 1..Len(segments) : segments[i].id \in DOMAIN files /\ (i # 1 => segments[i].id # a)
    BY <1>1, <1>2, KeepsFiles
<1>5. \A i \in 1..Len(segments) : i # 1 => LiveSeg(i)
    BY DEF KeepInv, MemoryKeeps, DeadSeg
<1>6. Shaped(segments) /\ Len(segments) >= 1
    BY <1>2, OldestFirst
<1>7. CASE files' = Without(files, a) /\ segments' = Tail(segments) /\ pc' = next
    <2>1. DiskKeeps'
        BY <1>1, <1>2, <1>3, <1>7, KeptRemoved DEF KeepInv
    <2>2. /\ Len(segments') = Len(segments) - 1 /\ \A i \in 1..Len(segments') : segments'[i] = segments[i + 1]
        <3>1. PICK X : segments \in Seq(Seg(X))
            BY <1>6 DEF Shaped
        <3>2. segments # << >>
            BY EmptySeq
        <3> QED
            BY <1>7, <3>1, <3>2, HeadTailProperties
    <2>3. segments' # << >>
        <3>1. Len(segments') # 0
            BY <1>4, <2>2
        <3> QED
            BY <3>1, EmptySeq
    <2>4. ASSUME NEW i \in 1..Len(segments') PROVE LiveSeg(i)'
        <3>1. PICK j : j = i + 1
            OBVIOUS
        <3>2. j \in 1..Len(segments) /\ j # 1
            BY <1>4, <2>2, <3>1
        <3>3. segments'[i] = segments[j] /\ LiveSeg(j) /\ segments[j].id \in DOMAIN files /\ segments[j].id # a
            BY <1>4, <1>5, <2>2, <3>1, <3>2
        <3>4. files'[segments[j].id] = files[segments[j].id]
            BY <1>7, <3>3 DEF Without
        <3>5. Offset(i, headOff') = Offset(j, headOff)
            BY <1>2, <3>2 DEF Offset
        <3> QED
            BY <1>2, <1>3, <3>3, <3>4, <3>5, LiveSame
    <2> QED
        BY <1>2, <1>7, <2>1, <2>3, <2>4 DEF KeepInv, MemoryKeeps
<1>8. CASE /\ files' = files /\ segments' = [segments EXCEPT ![1].records = segments'[1].records]
           /\ pc' \in {"failed", "idle"}
    <2>1. DiskKeeps'
        BY <1>2, <1>3, <1>8, KeptDisk DEF KeepInv
    <2>2. /\ Len(segments') = Len(segments) /\ segments' # << >>
          /\ segments'[1].id = a
          /\ \A i \in 1..Len(segments) : i # 1 => segments'[i] = segments[i]
        <3> DEFINE x == segments'[1].records
        <3> HIDE DEF x
        <3>1. segments' = [segments EXCEPT ![1].records = x]
            BY <1>8 DEF x
        <3> QED
            BY <1>1, <1>6, <3>1, FewerRecords
    <2>3. ASSUME NEW i \in 1..Len(segments') PROVE LiveSeg(i)' \/ DeadSeg(i)'
        <3>1. CASE i = 1
            <4>1. DeadSeg(1)'
                BY <1>1, <1>2, <1>8, <2>2 DEF DeadSeg
            <4> QED
                BY <3>1, <4>1
        <3>2. CASE i # 1
            <4>1. segments'[i] = segments[i] /\ LiveSeg(i) /\ segments[i].id \in DOMAIN files
                BY <1>4, <1>5, <2>2, <2>3, <3>2
            <4>2. Offset(i, headOff') = Offset(i, headOff)
                BY <3>2 DEF Offset
            <4> QED
                BY <1>2, <1>3, <1>8, <4>1, <4>2, LiveSame
        <3> QED
            BY <3>1, <3>2
    <2> QED
        BY <1>2, <1>8, <2>1, <2>2, <2>3 DEF KeepInv, MemoryKeeps
<1>9. \/ files' = Without(files, a) /\ segments' = Tail(segments) /\ pc' = next
      \/ /\ files' = files /\ \E x : segments' = [segments EXCEPT ![1].records = x]
         /\ pc' \in {"failed", "idle"}
    BY <1>1 DEF dropHead
<1>10. ASSUME NEW x, segments' = [segments EXCEPT ![1].records = x]
       PROVE  segments' = [segments EXCEPT ![1].records = segments'[1].records]
    <2>1. segments'[1].records = x
        BY <1>6, <1>10, FewerRecords
    <2> QED
        BY <1>10, <2>1
<1> QED
    BY <1>7, <1>8, <1>9, <1>10

LEMMA KeepReset ==
    ASSUME DiskInv, CellsInv, KeepInv, pc = "idle", ~(Len(segments) > 1), NEW rec, resetOnly(rec),
           Ids(files[segments[1].id], 0) \cap accepted \subseteq released',
           Whole(files[segments[1].id], headOff) => Whole(files[segments[1].id], headOff + rec[2])
    PROVE  KeepInv'
<1>1. PICK a : a = segments[1].id
    OBVIOUS
<1>2. PICK f : f = files[a]
    OBVIOUS
<1>3. /\ headFile' = headFile /\ accepted' = accepted /\ released \subseteq released' /\ pushed' = pushed
      /\ peeked' = None
    BY DEF resetOnly
<1>4. Forward
    BY <1>3, NothingNew
<1>5. Len(segments) = 1 /\ a \in DOMAIN files /\ Shaped(segments) /\ Len(segments) >= 1
    <2> DEFINE n == Len(segments)
    <2>1. n \in Nat /\ n >= 1 /\ ~(n > 1) /\ a \in DOMAIN files /\ Shaped(segments)
        BY <1>1, KeepsFiles, OldestFirst
    <2> HIDE DEF n
    <2>2. n = 1
        BY <2>1
    <2> QED
        BY <2>1, <2>2 DEF n
<1>6. LiveSeg(1)
    BY <1>5, HeadKeeps DEF DeadSeg, KeepInv
<1>7. Whole(f, headOff) /\ segments[1].size = Len(f) /\ Whole(f, From(headFile, a)) /\ Whole(f, headOff + rec[2])
    BY <1>1, <1>2, <1>6 DEF LiveSeg, Offset, Emptied
<1>8. Ids(f, 0) \cap accepted \subseteq released'
    BY <1>1, <1>2
<1>9. \A i \in 1..1 : i = 1
    OBVIOUS
<1>10. CASE /\ files' = [files EXCEPT ![a] = << >>] /\ segments' = <<[id |-> a, size |-> 0, records |-> 0]>>
            /\ headOff' = 0 /\ pc' = "ack_head"
    <2>1. Ids(<< >>, 0) = {} /\ Whole(<< >>, 0) /\ Len(<< >>) = 0
        <3>1. Len(<< >>) = 0 /\ (0 + 1)..0 = {}
            BY EmptySeq
        <3> QED
            BY <3>1, EmptyScan DEF Ids
    <2>2. Put(files', files, a, << >>) /\ files'[a] = << >>
        BY <1>5, <1>10 DEF Put
    <2>3. \A o : Keeps(<< >>, o, accepted, released')
        BY <2>1, GoneKeeps
    <2>4. DiskKeeps'
        BY <1>2, <1>3, <1>4, <1>8, <2>2, <2>3, KeptPut DEF KeepInv
    <2>5. Len(segments') = 1 /\ segments'[1].id = a /\ segments'[1].size = 0 /\ segments' # << >>
        BY <1>10
    <2>6. Emptied'
        BY <1>10, <2>2, <2>5 DEF Emptied
    <2>7. LiveSeg(1)'
        BY <1>3, <1>10, <2>1, <2>2, <2>3, <2>5, <2>6 DEF LiveSeg, Offset
    <2> QED
        BY <1>3, <1>9, <1>10, <2>4, <2>5, <2>7 DEF KeepInv, MemoryKeeps
<1>11. ASSUME NEW x, files' = files, segments' = [segments EXCEPT ![1].records = x],
              headOff' = headOff + rec[2], pc' = pc
       PROVE  KeepInv'
    <2>1. DiskKeeps'
        BY <1>3, <1>4, <1>11, KeptDisk DEF KeepInv
    <2>2. Len(segments') = 1 /\ segments'[1].id = a /\ segments'[1].size = Len(f) /\ segments' # << >>
        <3> DEFINE ss == segments
                   us == [ss EXCEPT ![1].records = x]
        <3>1. Shaped(ss) /\ Len(ss) >= 1
            BY <1>5
        <3> HIDE DEF ss
        <3>2. Len(us) = Len(ss) /\ us # << >> /\ us[1].id = ss[1].id /\ us[1].size = ss[1].size
            BY <3>1, FewerRecords, Zenon
        <3> QED
            BY <1>1, <1>5, <1>7, <1>11, <3>2 DEF ss
    <2>3. Keeps(f, headOff', accepted', released')
        BY <1>3, <1>8, GoneKeeps
    <2>4. LiveSeg(1)'
        BY <1>2, <1>3, <1>7, <1>11, <2>2, <2>3 DEF LiveSeg, Offset
    <2> QED
        BY <1>3, <1>9, <1>11, <2>1, <2>2, <2>4 DEF KeepInv, MemoryKeeps
<1> QED
    BY <1>1, <1>10, <1>11 DEF resetOnly, resetHead

LEMMA KeepAdvance ==
    ASSUME DiskInv, CellsInv, KeepInv, faults \in Seq(Faults), ~Failed(Harmful)', Ack_advance
    PROVE  KeepInv'
<1>1. PICK a : a = segments[1].id
    OBVIOUS
<1>2. PICK f : f = files[a]
    OBVIOUS
<1>3. PICK r : r = HeadRecord
    OBVIOUS
<1>4. PICK next : next = headOff + r[2]
    OBVIOUS
<1>5. PICK w : w = segments[1].records - 1
    OBVIOUS
<1>6. /\ headFile' = <<a, next>> /\ files' = files /\ headOff' = next /\ pc' = pc /\ pc = "idle" /\ Readable
      /\ accepted' = accepted /\ released' = released \cup {r[1]} /\ pushed' = pushed /\ peeked' = None
    <2>1. ~Fails("head")
        BY HarmlessCalls DEF Harmful
    <2> QED
        BY <1>1, <1>3, <1>4, <2>1 DEF Ack_advance, NextHead
<1>7. Forward
    BY <1>6, NothingNew
<1>8. ValidAt(f, headOff) /\ r = RecordAt(f, headOff)
    BY <1>1, <1>2, <1>3, <1>6, HeadReads
<1>9. /\ Len(segments) >= 1 /\ Len(segments) \in Nat /\ a \in DOMAIN files /\ f \in Seq(Cell) /\ headOff \in Nat
      /\ \A i \in 1..Len(segments) : segments[i].id \in DOMAIN files /\ (i # 1 => segments[i].id # a)
    BY <1>1, <1>2, <1>6, KeepsFiles
<1>10. next \in Nat /\ (Whole(f, headOff) => Whole(f, next))
    BY <1>4, <1>8, <1>9, ValidNext, AdvanceScan
<1>11. RecIds(f, headOff) = {r[1]} \cup RecIds(f, next)
    BY <1>4, <1>8, <1>9, RecIdsNext
<1>12. Keeps(f, headOff, accepted, released)
    BY <1>1, <1>2, <1>6, HeadKeeps DEF KeepInv
<1>13. Keeps(f, next, accepted, released')
    BY <1>6, <1>11, <1>12 DEF Keeps
<1>14. DiskKeeps' /\ \A id \in DOMAIN files : id # a => From(headFile', id) = From(headFile, id)
    BY <1>1, <1>2, <1>6, <1>7, <1>10, <1>13, KeptMoved DEF KeepInv
<1>15. /\ Len(segments') = Len(segments) /\ segments' # << >>
       /\ segments'[1].id = a /\ segments'[1].size = segments[1].size
       /\ \A i \in 1..Len(segments) : i # 1 => segments'[i] = segments[i]
    <2>1. Shaped(segments)
        BY <1>6, OldestFirst
    <2>2. 1 \in DOMAIN segments
        BY <1>9, <2>1, Shape
    <2>3. segments' = [segments EXCEPT ![1].records = w]
        BY <1>5, <2>2 DEF Ack_advance
    <2> QED
        BY <1>1, <1>9, <2>1, <2>3, FewerRecords
<1>16. ASSUME NEW i \in 1..Len(segments) PROVE LiveSeg(i)' \/ DeadSeg(i)'
    <2>1. CASE i = 1 /\ LiveSeg(1)
        <3>1. Whole(f, next) /\ segments[1].size = Len(f)
            BY <1>1, <1>2, <1>10, <2>1 DEF LiveSeg, Offset
        <3>2. From(headFile', a) = next
            BY <1>6 DEF From
        <3>3. LiveSeg(1)'
            BY <1>2, <1>6, <1>13, <1>15, <3>1, <3>2 DEF LiveSeg, Offset
        <3> QED
            BY <2>1, <3>3
    <2>2. CASE i = 1 /\ DeadSeg(1)
        <3>1. Len(segments') > 1
            BY <1>15, <2>2 DEF DeadSeg
        <3>2. DeadSeg(1)'
            BY <1>1, <1>6, <1>7, <1>9, <1>15, <2>2, <3>1, DeadSame
        <3> QED
            BY <2>2, <3>2
    <2>3. CASE i # 1
        <3>1. LiveSeg(i)
            BY <2>3 DEF KeepInv, MemoryKeeps, DeadSeg
        <3>2. segments'[i] = segments[i] /\ segments[i].id \in DOMAIN files /\ segments[i].id # a
            BY <1>9, <1>15, <2>3
        <3>3. From(headFile', segments[i].id) = From(headFile, segments[i].id)
            BY <1>14, <3>2
        <3>4. Offset(i, headOff') = Offset(i, headOff)
            BY <2>3 DEF Offset
        <3> QED
            BY <1>6, <1>7, <3>1, <3>2, <3>3, <3>4, LiveSame
    <2> QED
        BY <2>1, <2>2, <2>3 DEF KeepInv, MemoryKeeps, DeadSeg
<1> QED
    BY <1>6, <1>14, <1>15, <1>16 DEF KeepInv, MemoryKeeps

LEMMA KeepDropped ==
    ASSUME DiskInv, CellsInv, KeepInv, enforceBound_drop
    PROVE  KeepInv'
<1>1. PICK next \in {"bound_head", "open_head", "ack_head"} : dropHead(None, next)
    BY DEF enforceBound_drop
<1>2. pc \in {"idle", "bound", "open_bound"} /\ pc \notin {"down", "recover"} /\ Len(segments) > 1
    BY DEF enforceBound_drop, OverBudget
<1>3. released' = released \cup Ids(files[segments[1].id], headOff)
    BY <1>1 DEF dropHead
<1>4. Ids(files[segments[1].id], 0) \cap accepted \subseteq released'
    BY <1>2, <1>3, GoneCounted
<1> QED
    BY <1>1, <1>2, <1>4, KeepDrop

LEMMA KeepDiscard ==
    ASSUME DiskInv, CellsInv, KeepInv, Ack_discard
    PROVE  KeepInv'
<1>1. pc = "idle" /\ pc \notin {"down", "recover"} /\ pc \in {"idle", "bound", "open_bound"}
    BY DEF Ack_discard
<1>2. released' = released \cup Ids(files[segments[1].id], headOff)
    BY DEF Ack_discard, dropHead, resetOnly
<1>3. Ids(files[segments[1].id], 0) \cap accepted \subseteq released'
    BY <1>1, <1>2, GoneCounted
<1>4. CASE Len(segments) > 1
    <2>1. dropHead(None, "ack_head")
        BY <1>4 DEF Ack_discard
    <2> QED
        BY <1>1, <1>3, <1>4, <2>1, KeepDrop
<1>5. CASE ~(Len(segments) > 1)
    <2>1. resetOnly(None)
        BY <1>5 DEF Ack_discard
    <2>2. headOff + None[2] = headOff
        BY <1>1, KeepsFiles DEF None
    <2> QED
        BY <1>1, <1>3, <1>5, <2>1, <2>2, KeepReset
<1> QED
    BY <1>4, <1>5

LEMMA KeepLast ==
    ASSUME DiskInv, CellsInv, KeepInv, Ack_last
    PROVE  KeepInv'
<1>1. /\ pc = "idle" /\ pc \notin {"down", "recover"} /\ pc \in {"idle", "bound", "open_bound"} /\ Readable
      /\ headOff + HeadRecord[2] >= segments[1].size
    BY DEF Ack_last
<1>2. PICK f : f = files[segments[1].id]
    OBVIOUS
<1>3. ValidAt(f, headOff) /\ HeadRecord = RecordAt(f, headOff) /\ f \in Seq(Cell) /\ headOff \in Nat
    BY <1>1, <1>2, HeadReads, KeepsFiles
<1>4. HeadRecord # None /\ (Whole(f, headOff) => Whole(f, headOff + HeadRecord[2]))
    <2>1. RecordAt(f, headOff) # None
        BY <1>3, DiskQueueAssumption DEF ValidAt, RecordAt, None
    <2> QED
        BY <1>3, <2>1, AdvanceScan
<1>5. PICK r : r = HeadRecord
    OBVIOUS
<1>6. released' = released \cup {r[1]}
    BY <1>4, <1>5 DEF Ack_last, dropHead, resetOnly
<1>7. Ids(f, 0) \cap accepted \subseteq released'
    BY <1>1, <1>2, <1>5, <1>6, GoneRead
<1>8. CASE Len(segments) > 1
    <2>1. dropHead(r, "ack_head")
        BY <1>5, <1>8 DEF Ack_last
    <2> QED
        BY <1>1, <1>2, <1>7, <1>8, <2>1, KeepDrop
<1>9. CASE ~(Len(segments) > 1)
    <2>1. resetOnly(r)
        BY <1>5, <1>9 DEF Ack_last
    <2> QED
        BY <1>1, <1>2, <1>4, <1>5, <1>7, <1>9, <2>1, KeepReset
<1> QED
    BY <1>8, <1>9

LEMMA KeepNext ==
    ASSUME RecordsFit, DiskInv, CellsInv, CellsInv', KeepInv, faults \in Seq(Faults), ~Failed(Harmful)',
           [DiskQueueNext]_dqVars
    PROVE  KeepInv'
<1>1. CASE Open \/ enforceBound_done \/ Peek \/ UNCHANGED dqVars
    BY <1>1, KeepQuiet
<1>2. CASE scanSegment
    BY <1>2, KeepScan
<1>3. CASE recover_done
    BY <1>3, KeepRecovered
<1>4. CASE Push
    BY <1>4, KeepPush
<1>5. CASE Push_torn
    BY <1>5, KeepTorn
<1>6. CASE Push_fails \/ Corrupt \/ roll_fails \/ Close_fails
    BY <1>6, HarmlessCalls DEF Push_fails, Corrupt, roll_fails, Close_fails, Harmful
<1>7. CASE enforceBound_drop
    BY <1>7, KeepDropped
<1>8. CASE writeHead
    BY <1>8, KeepWriteHead
<1>9. CASE Ack_advance
    BY <1>9, KeepAdvance
<1>10. CASE Ack_last
    BY <1>10, KeepLast
<1>11. CASE Ack_discard
    BY <1>11, KeepDiscard
<1>12. CASE Close
    BY <1>12, KeepClose
<1>13. CASE Crash \/ recover_fails
    BY <1>13, KeepCrash
<1>14. CASE recover_skip
    BY <1>14, NothingSkipped
<1> QED
    BY <1>1, <1>2, <1>3, <1>4, <1>5, <1>6, <1>7, <1>8, <1>9, <1>10, <1>11, <1>12, <1>13, <1>14 DEF DiskQueueNext

LEMMA KeepInit ==
    ASSUME DiskQueueInit
    PROVE  KeepInv
<1>1. accepted = {} /\ segments = << >> /\ headOff = 0 /\ peeked = None /\ files = << >>
    BY DEF DiskQueueInit
<1>2. 1..Len(segments) = {} /\ DOMAIN files = {}
    BY <1>1, EmptySeq
<1> QED
    BY <1>1, <1>2 DEF KeepInv, DiskKeeps, MemoryKeeps

\* What a new process finds is what the files keep.
LEMMA KeptIsUnread ==
    ASSUME DiskInv, CellsInv, KeepInv
    PROVE  NoSilentLoss
<1> DEFINE P == Parts(files, headFile)
           n == NewestOf(files)
<1>1. FilesTyped(files) /\ headFile \in Nat \X Nat /\ headFile[1] \in Nat /\ HeadInv /\ DOMAIN files \subseteq Nat \ {0}
    BY CellsFacts DEF DiskInv, FilesTyped
<1>2. /\ P \in Seq(Seq(Rec)) /\ Len(P) = n /\ \A id \in 1..n : P[id] = Part(files, headFile, id)
    BY <1>1, PartsType
<1>3. Elems(Unread) = UNION {Elems(P[i]) : i \in 1..Len(P)}
    BY <1>2, FlattenElems, UnreadIs
<1> SUFFICES ASSUME NEW x \in accepted, x \notin released
             PROVE  x \in {Unread[i][1] : i \in 1..Len(Unread)}
    BY DEF NoSilentLoss
<1>4. PICK id \in DOMAIN files : x \in Ids(files[id], 0)
    BY DEF KeepInv, DiskKeeps
<1>5. x \in RecIds(files[id], From(headFile, id))
    BY <1>4 DEF KeepInv, DiskKeeps, Keeps
<1>6. id \in 1..n
    BY <1>1, NewestFile
<1>7. P[id] = Records(files[id], From(headFile, id))
    <2>1. id >= headFile[1]
        BY <1>1 DEF HeadInv
    <2> QED
        BY <1>2, <1>6, <2>1 DEF Part
<1>8. PICK r \in Elems(P[id]) : x = r[1]
    BY <1>5, <1>7 DEF RecIds
<1>9. r \in Elems(Unread)
    BY <1>2, <1>3, <1>6, <1>8
<1> QED
    BY <1>8, <1>9 DEF Elems

LossInv == faults \in Seq(Faults) /\ (~Failed(Harmful) => DiskInv /\ CellsInv /\ KeepInv)

\* A record that Push has stored is readable by the next process until it is
\* acknowledged or counted as dropped, whatever moment the process is killed at
\* and however many removals, truncations and opens in recovery fail: losing one
\* takes a failed append, roll or write of the head file, or a cell gone bad.
THEOREM LossIsExplained ==
    ASSUME RecordsFit
    PROVE  DiskQueueSpec => []LossExplained
<1>1. DiskQueueInit => LossInv
    <2> SUFFICES ASSUME DiskQueueInit PROVE LossInv
        OBVIOUS
    <2>1. faults \in Seq(Faults)
        BY EmptySeq DEF DiskQueueInit
    <2> QED
        BY <2>1, DiskInvInit, CellsInit, KeepInit DEF LossInv
<1>2. LossInv /\ [DiskQueueNext]_dqVars => LossInv'
    <2> SUFFICES ASSUME LossInv, [DiskQueueNext]_dqVars PROVE LossInv'
        OBVIOUS
    <2>1. faults \in Seq(Faults)
        BY DEF LossInv
    <2>2. faults' \in Seq(Faults) /\ (Failed(Harmful) => Failed(Harmful)')
        BY <2>1, FaultsGrow
    <2>3. ASSUME ~Failed(Harmful)' PROVE DiskInv' /\ CellsInv' /\ KeepInv'
        <3>1. DiskInv /\ CellsInv /\ KeepInv
            BY <2>2, <2>3 DEF LossInv
        <3>2. ~Failed({"roll"})'
            BY <2>3, FailedMore DEF Harmful
        <3>3. DiskInv' /\ CellsInv'
            BY <2>1, <3>1, <3>2, DiskInvNext, CellsNext
        <3> QED
            BY <2>1, <2>3, <3>1, <3>3, KeepNext
    <2> QED
        BY <2>2, <2>3 DEF LossInv
<1>3. LossInv => LossExplained
    BY KeptIsUnread DEF LossInv, LossExplained, Harmful
<1> QED
    BY <1>1, <1>2, <1>3, PTL DEF DiskQueueSpec
=============================================================================
