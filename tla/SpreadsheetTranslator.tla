------------------------ MODULE SpreadsheetTranslator -------------------------
(***************************************************************************)
(* The two buttons that turn the tables of a page into a spreadsheet, to   *)
(* be pasted into one, and a pasted spreadsheet into tables: wysiwyg.js    *)
(* replaces the bars by tabs, and SpreadsheetTranslator.js looks for       *)
(* tables in what the tabs separate.  A spreadsheet is a sequence of rows, *)
(* a row a non-empty sequence of cells.                                    *)
(***************************************************************************)
EXTENDS WikiTables

CONSTANT Qualified  \* the cells that begin with a qualified name, as a class has

Mark(mark) ==
  CASE mark = "" -> <<>>
    [] mark = "!" -> <<"!">>
    [] mark = "-" -> <<"-">>
    [] mark = "-!" -> <<"-", "!">>

\* The last bar of a line goes with its line break: on the last line of a text
\* that does not end with one the bar becomes a tab, and the row has an empty
\* cell at its end.
ToSpreadsheet(text) ==
  [i \in DOMAIN text |->
     IF ~IsRow(text[i]) THEN <<text[i].suffix>>
     ELSE IF text[i].suffix = <<>> /\ i < Len(text)
          THEN <<Mark(text[i].mark)>> \o text[i].cells
          ELSE <<Mark(text[i].mark)>> \o Append(text[i].cells, text[i].suffix)]

LineSize(row) == Max({0} \cup {k \in DOMAIN row : row[k] # <<>>})

IsMarked(row) == row[1] \in {Mark("!"), Mark("-"), Mark("-!")}

\* A line with a qualified name, or one with a wider line below it before the
\* next empty line or "!".
IsImplicitTableStart(rows, i) ==
  \/ rows[i][1] \in Qualified
  \/ \E k \in i..Len(rows) :
       /\ LineSize(rows[k]) > 1
       /\ \A j \in i..k : rows[j][1] # Mark("!") /\ LineSize(rows[j]) # 0

\* Empty, or with something in the column of the mark.
IsNotTableLine(row, columnsToSkip) ==
  LineSize(row) = 0 \/ \E k \in 1..columnsToSkip : row[k] # <<>>

LastLine_WithBlanks(rows, first, columnsToSkip) ==
  Max({k \in first..Len(rows) :
         \A j \in (first + 1)..k : \A c \in 1..columnsToSkip : rows[j][c] = <<>>})

\* The last line of the table that starts at the first.
LastLine(rows, first, columnsToSkip) ==
  Max({k \in first..Len(rows) :
         \A j \in (first + 1)..k : ~IsNotTableLine(rows[j], columnsToSkip)})

Smaller(m, n) == IF m < n THEN m ELSE n
Larger(m, n) == IF m < n THEN n ELSE m

Width_TableSize(rows, first, i) ==
  IF i =< first + 1 THEN LineSize(rows[i])
  ELSE Smaller(LineSize(rows[first + 1]), Len(rows[i]))

\* The second line decides on the size of the table, below which the lines
\* after it keep their empty cells.
Width(rows, first, i) ==
  IF i =< first + 1 THEN LineSize(rows[i])
  ELSE Smaller(Larger(LineSize(rows[first + 1]), LineSize(rows[i])), Len(rows[i]))

ProcessTable(rows, first, columnsToSkip, mark) ==
  [k \in 1..(LastLine(rows, first, columnsToSkip) - first + 1) |->
     TableRow(IF k = 1 THEN mark ELSE "",
              SubSeq(rows[first + k - 1], columnsToSkip + 1, Width(rows, first, first + k - 1)),
              <<>>)]

\* The lines that come of row i and of the table that starts there, if one does.
LinesFrom(rows, i) ==
  IF IsMarked(rows[i])
  THEN ProcessTable(rows, i, 1, CHOOSE m \in Marks : Mark(m) = rows[i][1])
  ELSE IF IsImplicitTableStart(rows, i)
       THEN ProcessTable(rows, i, IF rows[i][1] = <<>> THEN 1 ELSE 0, "")
       ELSE <<Line(rows[i][1])>>

\* A row of a table that started above it has its line already.
ProcessRow(rows, text, i) ==
  IF i =< Len(text) THEN text ELSE text \o LinesFrom(rows, i)

GetFitNesseTables(rows) ==
  FoldLeft(LAMBDA text, i : ProcessRow(rows, text, i), <<>>, [i \in DOMAIN rows |-> i])

===============================================================================
