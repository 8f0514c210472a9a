----------------------------- MODULE CsvSource -----------------------------
(***************************************************************************)
(* CSVSource in internal/collectors/sim_csv.go: a file replayed row by row, *)
(* once or in a loop.  Read holds the source's lock and is one step.  The   *)
(* file may be replaced or removed; an open one is then read on.            *)
(*                                                                         *)
(* A file is its header, a set of columns (empty when it has none), and its *)
(* rows: a value for each column, Text where it is not a number, or BadRow, *)
(* which the CSV reader refuses.                                            *)
(***************************************************************************)
EXTENDS Plant

CONSTANTS Files, NoFile, Text, BadRow

ASSUME CsvAssumption ==
    NoFile \notin Files /\ \A f \in Files : f.rows \in Seq(ToSet(f.rows))

VARIABLES loop,      \* configuration: start again at the end of the file
          columns,   \* column by tag name
          file,      \* the file at the path, or NoFile
          opened,    \* the reader is open
          pass,      \* the rows of the file opened last, and how many were read
          given,     \* history: the rows of this pass that were delivered
          ended,     \* history: the pass that was over last, and what it delivered
          done,      \* exhausted
          closed,
          cout,      \* readings of the last cycle
          cresult    \* how it ended: "none", "ok", "empty", "failed"

csvVars == <<loop, columns, file, opened, pass, given, ended, done, closed, cout, cresult>>

\* NewCSVSource; a column "none" is a missing block, replaced by the name.
Columns(refs) ==
    [n \in {refs[i].tag.name : i \in 1..Len(refs)} |->
        LET c == Last(SelectSeq(refs, LAMBDA r : r.tag.name = n)).tag.column
        IN IF c = "none" THEN n ELSE c]

\* open.
CanOpen == file # NoFile /\ \A n \in DOMAIN columns : columns[n] \in file.header
FromStart == [rows |-> file.rows, pos |-> 0]

\* The row has a number for every tag.
Good(row) == row # BadRow /\ \A n \in DOMAIN columns : row[columns[n]] # Text

Result(result, readings) == cresult' = result /\ cout' = readings

\* The reader of p returns its next row, which becomes the readings.
Row(p, before) ==
    LET i == p.pos + 1
    IN /\ opened' = TRUE
       /\ pass' = [p EXCEPT !.pos = i]
       /\ IF Good(p.rows[i])
          THEN /\ given' = Append(before, i)
               /\ Result("ok", [n \in DOMAIN columns |-> p.rows[i][columns[n]]])
          ELSE given' = before /\ Result("failed", << >>)
       /\ UNCHANGED done

\* Mutant: the end is seen one row early.
AtEnd_early(p) == p.pos + 1 >= Len(p.rows)

\* io.EOF.
AtEnd(p) == p.pos = Len(p.rows)

\* The end of the file: the source is exhausted, or opens the file again.
EndOfFile(p, before) ==
    \/ /\ ~loop
       /\ opened' = FALSE /\ done' = TRUE /\ pass' = p /\ given' = before
       /\ Result("empty", << >>)
    \/ /\ loop /\ ~CanOpen
       /\ opened' = FALSE /\ pass' = p /\ given' = before
       /\ Result("failed", << >>) /\ UNCHANGED done
    \/ /\ loop /\ CanOpen
       /\ IF file.rows # << >> THEN Row(FromStart, << >>)
          ELSE /\ opened' = TRUE /\ pass' = FromStart /\ given' = << >>
               /\ Result("failed", << >>) /\ UNCHANGED done

\* The reader is given up: p is over, with the rows before delivered.
Over(p, before) == [rows |-> p.rows, given |-> before]

CsvRead ==
    /\ ~closed
    /\ \/ done /\ Result("empty", << >>) /\ UNCHANGED <<opened, pass, given, ended, done>>
       \/ /\ ~done /\ ~opened /\ ~CanOpen
          /\ Result("failed", << >>) /\ UNCHANGED <<opened, pass, given, ended, done>>
       \/ /\ ~done /\ (opened \/ CanOpen)
          /\ LET p == IF opened THEN pass ELSE FromStart
                 before == IF opened THEN given ELSE << >>
             IN IF AtEnd(p)
                THEN EndOfFile(p, before) /\ ended' = Over(p, before)
                ELSE Row(p, before) /\ ended' = IF opened THEN ended ELSE Over(pass, given)
    /\ UNCHANGED <<loop, columns, file, closed>>

CsvClose ==
    /\ ~closed
    /\ closed' = TRUE /\ opened' = FALSE
    /\ UNCHANGED <<loop, columns, file, pass, given, ended, done, cout, cresult>>

\* Somebody replaces or removes the file.
FileTurns ==
    /\ file' \in (Files \cup {NoFile}) \ {file}
    /\ UNCHANGED <<loop, columns, opened, pass, given, ended, done, closed, cout, cresult>>

\* A pass that is over, because the source calls itself exhausted or opens the
\* file again, has delivered the well-formed rows of one file, all of them, each
\* once and in order: whatever happened to the file meanwhile, and though rows
\* that are not well formed made Read fail in between.
PassComplete ==
    /\ ToSet(ended.given) = {i \in 1..Len(ended.rows) : Good(ended.rows[i])}
    /\ \A i, j \in 1..Len(ended.given) : i < j => ended.given[i] < ended.given[j]
=============================================================================
