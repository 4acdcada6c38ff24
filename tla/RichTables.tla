------------------------------ MODULE RichTables ------------------------------
(***************************************************************************)
(* The tables of a page in the rich text editor: what wikitextToFragment   *)
(* makes of their lines, what domToWikitext writes for them, and the       *)
(* buttons that insert and delete cells, rows and columns.  A document is  *)
(* a sequence of blocks, paragraphs and tables; a cell has its text and    *)
(* the number of columns it spans.                                         *)
(***************************************************************************)
EXTENDS WikiTables

Paragraph(lines) == [table |-> FALSE, lines |-> lines]
Table(escaped, rows) == [table |-> TRUE, escaped |-> escaped, rows |-> rows]
Row(hidden, cells) == [hidden |-> hidden, cells |-> cells]
Cell(text) == [text |-> text, span |-> 1]

(* spanTableColumns: the last cell of a row reaches the end of the longest.   *)

MaxCells(rows) == Max({0} \cup {Len(rows[i].cells) : i \in DOMAIN rows})

SpanTableColumns_Added(rows) ==
  [i \in DOMAIN rows |->
     [rows[i] EXCEPT !.cells =
        [c \in DOMAIN @ |->
           IF c = Len(@) THEN [@[c] EXCEPT !.span = MaxCells(rows) - c]
           ELSE [@[c] EXCEPT !.span = 1]]]]

SpanTableColumns(rows) ==
  [i \in DOMAIN rows |->
     [rows[i] EXCEPT !.cells =
        [c \in DOMAIN @ |->
           IF c = Len(@) THEN [@[c] EXCEPT !.span = MaxCells(rows) - c + 1]
           ELSE [@[c] EXCEPT !.span = 1]]]]

-----------------------------------------------------------------------------
(* wikitextToFragment, of a text whose cells and prose hold no markup of their *)
(* own: the nested table that a "!(" opens in a cell is outside the model.     *)

OpensMarkup(text) ==
  \E k \in 1..(Len(text) - 1) :
    <<text[k], text[k + 1]>> \in {<<"!", "(">>, <<"!", "-">>, <<"-", "-">>}

\* No nested table, literal text or strike-out starts on any line.
WithoutMarkup(lines) ==
  \A i \in DOMAIN lines :
    /\ \A c \in DOMAIN lines[i].cells : ~OpensMarkup(lines[i].cells[c])
    /\ ~OpensMarkup(lines[i].suffix)

\* Every bar but the last of a line opens a cell, and what follows the last
\* one is a cell too.
ColumnsOf(line) ==
  IF Trim(line.suffix) = <<>> /\ (line.mark = "" \/ line.cells # <<>>) THEN line.cells
  ELSE Append(line.cells, line.suffix)

CellsOf(line) == [c \in DOMAIN ColumnsOf(line) |-> Cell(Trim(ColumnsOf(line)[c]))]

\* A bar on its own closes a row.
IsBareBar(line) ==
  line.mark = "" /\ line.cells = <<>> /\ Trim(line.suffix) = <<>>

RowOf(line) == Row(line.mark \in {"-", "-!"}, CellsOf(line))

EndsWithTable(blocks) == blocks # <<>> /\ Last(blocks).table

\* "Just ensure you can type between two tables"
NewTable(blocks, line) ==
  blocks \o (IF EndsWithTable(blocks) THEN <<Paragraph(<<>>)>> ELSE <<>>)
         \o <<Table(line.mark \in {"!", "-!"}, <<RowOf(line)>>)>>

AddRow(blocks, line) ==
  IF IsBareBar(line) THEN blocks
  ELSE Append(Front(blocks), [Last(blocks) EXCEPT !.rows = Append(@, RowOf(line))])

\* The table or paragraph of the line above is open until an empty line or a
\* line of the other kind.
AddLine(doc, line) ==
  IF line = Blank THEN [doc EXCEPT !.open = "nothing"]
  ELSE IF IsRow(line) /\ doc.open = "table"
       THEN [doc EXCEPT !.blocks = AddRow(doc.blocks, line)]
  ELSE IF IsRow(line) /\ ~IsBareBar(line)
       THEN [blocks |-> NewTable(doc.blocks, line), open |-> "table"]
  ELSE IF doc.open = "paragraph"
       THEN [doc EXCEPT !.blocks =
               Append(Front(@), Paragraph(Append(Last(@).lines, line)))]
  ELSE [blocks |-> Append(doc.blocks, Paragraph(<<line>>)), open |-> "paragraph"]

Spanned(block) ==
  IF block.table THEN [block EXCEPT !.rows = SpanTableColumns(@)] ELSE block

SpannedAll(blocks) == [k \in DOMAIN blocks |-> Spanned(blocks[k])]

WikitextToFragment(text) ==
  SpannedAll(FoldLeft(AddLine, [blocks |-> <<>>, open |-> "nothing"], text).blocks)

-----------------------------------------------------------------------------
(* domToWikitext *)

MarkOf_NotHidden(block) == IF block.escaped THEN "!" ELSE ""

\* The marks are written before the first row, which decides on the "-".
MarkOf(block) ==
  LET hidden == block.rows # <<>> /\ block.rows[1].hidden
  IN CASE hidden /\ block.escaped -> "-!"
       [] hidden /\ ~block.escaped -> "-"
       [] ~hidden /\ block.escaped -> "!"
       [] OTHER -> ""

LineOf(block, i) ==
  TableRow(IF i = 1 THEN MarkOf(block) ELSE "",
           [c \in DOMAIN block.rows[i].cells |->
              LET text == block.rows[i].cells[c].text
              IN IF text = <<>> THEN <<" ">> ELSE <<" ">> \o text \o <<" ">>],
           <<>>)

LinesOf_NoBlank(block) ==
  IF ~block.table THEN IF block.lines = <<>> THEN <<>> ELSE Append(block.lines, Blank)
  ELSE [i \in DOMAIN block.rows |-> LineOf(block, i)]

\* A table without rows is its mark.
LinesOf(block) ==
  IF ~block.table THEN IF block.lines = <<>> THEN <<>> ELSE Append(block.lines, Blank)
  ELSE IF block.rows = <<>>
       THEN <<IF block.escaped THEN Line(<<"!">>) ELSE Blank>>
       ELSE Append([i \in DOMAIN block.rows |-> LineOf(block, i)], Blank)

\* Without empty lines at the start, and with one at the end.
Stripped(text) ==
  LET solid == {i \in DOMAIN text : text[i] # Blank}
  IN IF solid = {} THEN <<Blank>>
     ELSE Append(SubSeq(text, Min(solid), Max(solid)), Blank)

DomToWikitext(blocks) ==
  Stripped(FoldLeft(\o, <<>>, [k \in DOMAIN blocks |-> LinesOf(blocks[k])]))

-----------------------------------------------------------------------------
(* The buttons, for the cell c of the row i of a table's rows *)

Spliced(cells, k) == InsertAt(cells, k, Cell(<<>>))

InsertTableCell(rows, i, c, after) ==
  SpanTableColumns([rows EXCEPT ![i].cells = Spliced(@, IF after THEN c + 1 ELSE c)])

\* As many cells as the row of the focus has, and not hidden.
InsertTableRow(rows, i, after) ==
  SpanTableColumns(InsertAt(rows, IF after THEN i + 1 ELSE i,
                            Row(FALSE, [c \in DOMAIN rows[i].cells |-> Cell(<<>>)])))

InsertTableColumn_AtFocus(rows, c, after) ==
  LET k == IF after THEN c + 1 ELSE c
  IN SpanTableColumns(
       [i \in DOMAIN rows |->
          IF i = 1 \/ k > Len(rows[i].cells) THEN rows[i]
          ELSE [rows[i] EXCEPT !.cells = ReplaceAt(@, k, Cell(<<>>))]])

\* The first row, the title of the table, stays as it is.
InsertTableColumn(rows, c, after) ==
  LET k == IF after THEN c + 1 ELSE c
  IN SpanTableColumns(
       [i \in DOMAIN rows |->
          IF i = 1 THEN rows[i]
          ELSE [rows[i] EXCEPT !.cells =
                  Spliced(@, IF k =< Len(@) THEN k ELSE Len(@) + 1)]])

DeleteTableCell(rows, i, c) ==
  SpanTableColumns([rows EXCEPT ![i].cells = RemoveAt(@, c)])

DeleteTableRow(rows, i) == SpanTableColumns(RemoveAt(rows, i))

DeleteTableColumn(rows, c) ==
  SpanTableColumns(
    [i \in DOMAIN rows |->
       IF i = 1 \/ c > Len(rows[i].cells) THEN rows[i]
       ELSE [rows[i] EXCEPT !.cells = RemoveAt(@, c)]])

===============================================================================
