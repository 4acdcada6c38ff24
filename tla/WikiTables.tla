----------------------------- MODULE WikiTables ------------------------------
(***************************************************************************)
(* The wiki text of a page as far as its tables go: a sequence of lines, a *)
(* line being what "|" separates on it.  A table row has a mark before its *)
(* first bar, its cells, and a suffix, what follows its last bar; a line   *)
(* of prose is a suffix alone.  A cell is a sequence of characters, of     *)
(* which just the blank, the mark "!" and the bracket that opens a nested  *)
(* table are told apart from letters.                                      *)
(*                                                                         *)
(* TablesOf is what the wiki's parser makes of the lines: the meaning that *)
(* the tools of the editors must not change.                               *)
(***************************************************************************)
EXTENDS Integers, SequencesExt

Marks == {"", "!", "-", "-!"}
Prose == "prose"

\* The characters that are told apart from letters, and any other string.
Characters == {" ", "!", "-", "("} \cup STRING
CellText == Seq(Characters)
WikiLine == [mark : Marks \cup {Prose}, cells : Seq(CellText), suffix : CellText]

TableRow(mark, cells, suffix) == [mark |-> mark, cells |-> cells, suffix |-> suffix]
Line(text) == TableRow(Prose, <<>>, text)
Blank == Line(<<>>)

\* The sequence itself, whose elements TLC now evaluates just once.
Computed(seq) == <<>> \o seq

IsRow(line) == line.mark # Prose

Trim(cell) ==
  LET solid == {k \in DOMAIN cell : cell[k] # " "}
  IN IF solid = {} THEN <<>> ELSE SubSeq(cell, Min(solid), Max(solid))

TrimAll(cells) == Computed([k \in DOMAIN cells |-> Trim(cells[k])])

(* Table.parse and translateCellBody: the parser sees the marks of the rows   *)
(* and their cells, without the blanks around these.                          *)

ParsedLine(line) == IF IsRow(line) THEN TableRow(line.mark, TrimAll(line.cells), <<>>) ELSE Blank

Parsed(text) == Computed([i \in DOMAIN text |-> ParsedLine(text[i])])

\* A table starts at any of the marks; a row goes on with the table above it if it
\* starts with the bar alone.
StartsTable(lines, i) ==
  /\ IsRow(lines[i])
  /\ \/ i = 1
     \/ ~IsRow(lines[i - 1])
     \/ lines[i].mark # ""

\* No table begins right below another one.
Apart(text) == \A i \in 2..Len(text) : StartsTable(text, i) => ~IsRow(text[i - 1])

Opens(line) == [mark |-> line.mark, rows |-> <<line.cells>>]

ReadLine(lines, tables, i) ==
  IF StartsTable(lines, i) THEN Append(tables, Opens(lines[i]))
  ELSE IF IsRow(lines[i])
       THEN Append(Front(tables), [Last(tables) EXCEPT !.rows = Append(@, lines[i].cells)])
  ELSE tables

TablesIn(lines) ==
  FoldLeft(LAMBDA tables, i : ReadLine(lines, tables, i), <<>>, [i \in DOMAIN lines |-> i])

TablesOf(text) == TablesIn(Parsed(text))

==============================================================================
