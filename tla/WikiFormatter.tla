---------------------------- MODULE WikiFormatter -----------------------------
(***************************************************************************)
(* WikiFormatter.js: the button, and the option for every save, that pads  *)
(* the cells of a page's tables until the bars of their rows line up.  A   *)
(* row with fewer cells than the longest gives its last cell the columns   *)
(* that are left.                                                          *)
(***************************************************************************)
EXTENDS WikiTables

Total(widths) == FoldLeft(+, 0, widths)

Nested == <<"!", "(">>

\* A line that starts with a bar or with "!|"; "-|" and "-!|" are none.
IsTableRow(line) == line.mark \in {"", "!"}

(* splitRow: the columns of a row are its cells and its suffix.  The first    *)
(* row with a "!" makes wikificationPrevention true, and its "!" becomes the  *)
(* first character of its first column.                                       *)

Prevents(rows) == {i \in DOMAIN rows : rows[i].mark = "!"}

SplitRow_NoPlaceholder(rows, i) == TrimAll(Append(rows[i].cells, rows[i].suffix))

SplitRow(rows, i) ==
  LET columns == Append(rows[i].cells, rows[i].suffix)
      first ==
        IF Prevents(rows) # {} /\ i = Min(Prevents(rows))
        THEN <<"!">> \o columns[1] ELSE columns[1]
  IN TrimAll(<<first>> \o Tail(columns))

(* calculateColumnWidths: of a table whose rows hold those columns but the    *)
(* last.                                                                      *)

NumberOfColumns(table) == Max({Len(table[i]) : i \in DOMAIN table})

Spans(table, i) == Len(table[i]) < NumberOfColumns(table)

\* The rows whose cell in column c is not the last of a short row.
RowsWith(table, c) ==
  {i \in DOMAIN table : c < Len(table[i]) \/ (c = Len(table[i]) /\ ~Spans(table, i))}

MaxWidths(table) ==
  Computed([c \in 1..NumberOfColumns(table) |->
              Max({Len(table[i][c]) : i \in RowsWith(table, c)})])

\* The widest last cell of the rows that are n cells short, 0 if there is none.
ColspanWidth(table, n) ==
  Max({0} \cup {Len(Last(table[i])) :
                  i \in {k \in DOMAIN table : Len(table[k]) = NumberOfColumns(table) - n}})

WidthOfLast_NoSeparators(widths, n) ==
  Total(SubSeq(widths, Len(widths) - n + 1, Len(widths)))

\* The columns and the bars between them.
WidthOfLast(widths, n) ==
  Total(SubSeq(widths, Len(widths) - n + 1, Len(widths))) + n - 1

\* One more for each of the last n columns in turn.
SpreadOutExcess(widths, excess, n) ==
  LET rest == Len(widths) - n
  IN SubSeq(widths, 1, rest) \o
     [k \in 1..n |->
        widths[rest + k] + excess \div n + (IF k =< excess % n THEN 1 ELSE 0)]

\* From the cells that span two columns on to those that span them all.
Adjusted(widths, excess, n) ==
  IF excess > 0 THEN SpreadOutExcess(widths, excess, n) ELSE widths

AdjustedWidths(table) ==
  FoldLeft(LAMBDA widths, n :
             Adjusted(widths, ColspanWidth(table, n - 1) - WidthOfLast(widths, n), n),
           MaxWidths(table), [k \in 1..(NumberOfColumns(table) - 1) |-> k + 1])

ColumnWidth(table, widths, i, c) ==
  IF Spans(table, i) /\ c = Len(table[i])
  THEN WidthOfLast(widths, Len(widths) - Len(table[i]) + 1)
  ELSE widths[c]

RightPad(cell, width) == cell \o [k \in 1..(width - Len(cell)) |-> " "]

PaddedTo(table, widths) ==
  [i \in DOMAIN table |->
     Computed([c \in DOMAIN table[i] |->
                 IF table[i][c] = Nested THEN Nested
                 ELSE RightPad(table[i][c], ColumnWidth(table, widths, i, c))])]

Padded(table) == PaddedTo(table, AdjustedWidths(table))

(* formatTable: with wikificationPrevention the first row gets "!|" for its   *)
(* first two characters.  The second of them is the first character of its    *)
(* first column, the bar after an empty one, or the line break after a bar    *)
(* that stands alone.                                                         *)

WithoutSecond_KeepsPlaceholder(columns) == columns

WithoutSecond(columns) ==
  IF columns[1] = <<>> THEN Tail(columns) ELSE <<Tail(columns[1])>> \o Tail(columns)

LiteralRow(columns) == TableRow("!", Front(columns), Last(columns))

Plain(padded, columns, i) == TableRow("", padded[i], Last(columns[i]))

FormatColumns(columns, prevents) ==
  LET padded == Computed(Padded([i \in DOMAIN columns |-> Front(columns[i])]))
      first == IF columns[1] = <<<<>>>> THEN 2 ELSE 1
      literal ==
        IF first = 2 THEN <<<<>>>> \o Append(padded[2], Last(columns[2]))
        ELSE WithoutSecond(Append(padded[1], Last(columns[1])))
  IN Computed(
       IF prevents
       THEN <<LiteralRow(literal)>> \o
            [i \in 1..(Len(columns) - first) |-> Plain(padded, columns, i + first)]
       ELSE [i \in DOMAIN columns |-> Plain(padded, columns, i)])

FormatTable(rows) ==
  FormatColumns(Computed([i \in DOMAIN rows |-> SplitRow(rows, i)]), Prevents(rows) # {})

\* Consecutive table rows are formatted together.
FormatLine(done, line) ==
  IF IsTableRow(line) THEN [done EXCEPT !.table = Append(@, line)]
  ELSE [text |-> done.text \o FormatTable(done.table) \o <<line>>, table |-> <<>>]

Format(text) ==
  Front(FoldLeft(FormatLine, [text |-> <<>>, table |-> <<>>], Append(text, Blank)).text)

-----------------------------------------------------------------------------
(* What lines up *)

\* The cells with the bars behind them, after the bar or the "!|" of the row.
CellsLength(cells) == Total([c \in DOMAIN cells |-> Len(cells[c]) + 1])

Length(line) == (IF line.mark = "!" THEN 2 ELSE 1) + CellsLength(line.cells)

\* A cell that opens a nested table is not padded, nor is a first cell that looks
\* like one with the mark of its row.
HoldsNested(line) ==
  \E c \in DOMAIN line.cells :
    line.cells[c] = Nested \/ (c = 1 /\ line.mark = "!" /\ line.cells[c] = Tail(Nested))

LineUp(above, below) ==
  /\ IsTableRow(above) /\ above.cells # <<>> /\ ~HoldsNested(above)
  /\ IsTableRow(below) /\ below.cells # <<>> /\ ~HoldsNested(below)
  => Length(above) = Length(below)

===============================================================================
