---------------------------- MODULE TableEditing ------------------------------
(***************************************************************************)
(* An author and the tables of a page: lines typed into the text area or   *)
(* rows pasted from a spreadsheet, the text area's buttons, the switch to  *)
(* the rich text editor and its buttons for tables, and the switch back.   *)
(* The tools themselves are in WikiFormatter, SpreadsheetTranslator and    *)
(* RichTables.  Each button is pressed on a text of the kind it is for.    *)
(***************************************************************************)
EXTENDS WikiFormatter, SpreadsheetTranslator, RichTables

CONSTANTS
  Lines,       \* the lines that are typed
  SheetRows,   \* the rows that are pasted
  Autoformat,  \* the option to format a text that is written
  MaxLines, MaxTools, MaxEdits
               \* bounds: of the lines; of the tools used; of the edits made

ASSUME LinesAssumption == Lines \subseteq WikiLine
ASSUME SheetRowsAssumption == SheetRows \subseteq Seq(CellText) \ {<<>>}
ASSUME QualifiedAssumption == Qualified \subseteq CellText \ {<<>>}
ASSUME AutoformatAssumption == Autoformat \in BOOLEAN
ASSUME BoundsAssumption == {MaxLines, MaxTools, MaxEdits} \subseteq Nat

VARIABLES
  shown,   \* what the editor shows: "text", "sheet" or "rich"
  text,    \* the wiki text of the text area
  sheet,   \* the spreadsheet in the text area
  doc,     \* the blocks in the rich text editor
  tools,   \* the tools used
  edits    \* the edits made in the rich text editor

vars == <<shown, text, sheet, doc, tools, edits>>

Init ==
  /\ shown = "text" /\ text = <<Blank>>
  /\ sheet = <<>> /\ doc = <<>>
  /\ tools = 0 /\ edits = 0

Use == tools < MaxTools /\ tools' = tools + 1

TypeLine(line) ==
  /\ shown = "text" /\ tools = 0 /\ Len(text) < MaxLines
  /\ text' = IF text = <<Blank>> THEN <<line>> ELSE Append(text, line)
  /\ UNCHANGED <<shown, sheet, doc, tools, edits>>

PasteRow(row) ==
  /\ text = <<Blank>> /\ tools = 0 /\ Len(sheet) < MaxLines
  /\ shown' = "sheet" /\ sheet' = Append(sheet, row)
  /\ UNCHANGED <<text, doc, tools, edits>>

FormatWiki ==
  /\ shown = "text" /\ Use
  /\ text' = Format(text)
  /\ UNCHANGED <<shown, sheet, doc, edits>>

WikiToSpreadsheet ==
  /\ shown = "text" /\ Use
  /\ shown' = "sheet" /\ sheet' = ToSpreadsheet(text)
  /\ UNCHANGED <<text, doc, edits>>

SpreadsheetToWiki ==
  /\ shown = "sheet" /\ sheet # <<>> /\ Use
  /\ shown' = "text" /\ text' = GetFitNesseTables(sheet) /\ sheet' = <<>>
  /\ UNCHANGED <<doc, edits>>

\* Of a text with which RichTables deals.
LoadWysiwygDocument ==
  /\ shown = "text" /\ WithoutMarkup(text) /\ Use
  /\ shown' = "rich" /\ doc' = WikitextToFragment(text)
  /\ UNCHANGED <<text, sheet, edits>>

LoadWikiText ==
  /\ shown = "rich" /\ Use
  /\ shown' = "text" /\ doc' = <<>>
  /\ text' = IF Autoformat THEN Format(DomToWikitext(doc)) ELSE DomToWikitext(doc)
  /\ UNCHANGED <<sheet, edits>>

(* Buttons of the rich text editor, with the focus in a cell.                 *)

Edit(k, rows) ==
  /\ shown = "rich" /\ edits < MaxEdits /\ edits' = edits + 1
  /\ doc' = [doc EXCEPT ![k].rows = rows]
  /\ UNCHANGED <<shown, text, sheet, tools>>

Tables == {k \in DOMAIN doc : doc[k].table}

Insert ==
  \E k \in Tables : \E i \in DOMAIN doc[k].rows : \E c \in DOMAIN doc[k].rows[i].cells :
    \E after \in BOOLEAN : LET rows == doc[k].rows IN
      \/ Edit(k, InsertTableCell(rows, i, c, after))
      \/ Edit(k, InsertTableRow(rows, i, after))
      \/ Edit(k, InsertTableColumn(rows, c, after))

Delete ==
  \E k \in Tables : \E i \in DOMAIN doc[k].rows : \E c \in DOMAIN doc[k].rows[i].cells :
    LET rows == doc[k].rows IN
      \/ Edit(k, DeleteTableCell(rows, i, c))
      \/ Edit(k, DeleteTableRow(rows, i))
      \/ Edit(k, DeleteTableColumn(rows, c))

DeleteTable ==
  \E k \in Tables :
    /\ \E i \in DOMAIN doc[k].rows : doc[k].rows[i].cells # <<>>
    /\ shown = "rich" /\ edits < MaxEdits /\ edits' = edits + 1
    /\ doc' = RemoveAt(doc, k)
    /\ UNCHANGED <<shown, text, sheet, tools>>

Next ==
  \/ \E line \in Lines : TypeLine(line)
  \/ \E row \in SheetRows : PasteRow(row)
  \/ FormatWiki \/ WikiToSpreadsheet \/ SpreadsheetToWiki
  \/ LoadWysiwygDocument \/ LoadWikiText
  \/ Insert \/ Delete \/ DeleteTable

Spec == Init /\ [][Next]_vars

-----------------------------------------------------------------------------
(* Properties of the formatter *)

\* The rows of a formatted table are equally long, whatever columns their cells
\* span and however far a last cell makes the columns it spans grow, unless two
\* lines of the text became one.
RowsLineUp ==
  \A done \in {Format(text)} :
    Len(done) = Len(text) => \A i \in 2..Len(done) : LineUp(done[i - 1], done[i])

\* No table begins right below another one.
TablesApart == Apart(text)

\* A text in which something separates the tables and that is formatted on every
\* save does not change from save to save.
FormatsOnce == TablesApart => \A done \in {Format(text)} : Format(done) = done

\* Formatting changes neither the tables of a page nor what their cells hold.
FormattingKeepsTables == TablesOf(Format(text)) = TablesOf(text)

\* The same of a text in which something separates the tables.
FormattingKeepsSeparateTables == TablesApart => FormattingKeepsTables

(* Properties of the spreadsheet *)

AddFilled(some, cell) == IF cell = <<>> THEN some ELSE Append(some, cell)

\* The cells that are not empty, in order.
Filled(cells) == FoldLeft(AddFilled, <<>>, cells)

ContentsOf(line) ==
  Filled(<<IF IsRow(line) THEN Mark(line.mark) ELSE <<>>>> \o Append(line.cells, line.suffix))

\* Whatever is pasted, each line of the result has what its row had in it, in
\* order: the first column becomes a mark, a cell or a line of prose.
NothingDropped ==
  LET result == GetFitNesseTables(sheet)
  IN /\ Len(result) = Len(sheet)
     /\ \A i \in DOMAIN sheet : ContentsOf(result[i]) = Filled(sheet[i])

\* An empty line above a table, no empty row, no empty cell at a row's end, and
\* no prose that a spreadsheet takes for the start of a table.
FitForSpreadsheet ==
  \A i \in DOMAIN text :
    /\ IsRow(text[i]) =>
         /\ text[i].cells # <<>> /\ text[i].suffix = <<>>
         /\ Last(text[i].cells) # <<>>
         /\ i > 1 => IsRow(text[i - 1]) \/ text[i - 1] = Blank
    /\ ~IsRow(text[i]) =>
         text[i].suffix \notin Qualified \cup {Mark(m) : m \in Marks \ {""}}

\* Tables that went to a spreadsheet and came back are the tables they were,
\* their marks included.
SpreadsheetKeepsTables ==
  FitForSpreadsheet => TablesOf(GetFitNesseTables(ToSpreadsheet(text \o <<Blank>>))) = TablesOf(text)

(* Properties of the rich text editor *)

\* The rows of a table on the screen are equally wide after every edit, except
\* those without cells.
RowsFillTheTable ==
  \A k \in DOMAIN doc : doc[k].table =>
    \A i \in DOMAIN doc[k].rows :
      LET cells == doc[k].rows[i].cells
      IN cells # <<>> =>
           Total([c \in DOMAIN cells |-> cells[c].span]) = MaxCells(doc[k].rows)

ShownTable(block) ==
  [mark |-> MarkOf(block),
   rows |-> [i \in DOMAIN block.rows |->
               [c \in DOMAIN block.rows[i].cells |-> block.rows[i].cells[c].text]]]

AddShown(tables, block) ==
  IF block.table THEN Append(tables, ShownTable(block)) ELSE tables

ShownTables(blocks) == FoldLeft(AddShown, <<>>, blocks)

\* Every row has a cell; one without is written, and read, as a bare bar.
NoEmptyRows(blocks) ==
  \A k \in DOMAIN blocks :
    IF blocks[k].table
    THEN /\ blocks[k].rows # <<>>
         /\ \A i \in DOMAIN blocks[k].rows : blocks[k].rows[i].cells # <<>>
    ELSE \A i \in DOMAIN blocks[k].lines : ~IsBareBar(blocks[k].lines[i])

\* The text written for the rich text editor has the tables that it shows, with
\* what is hidden and what is literal, and so has what it is read into again.
WritesWhatItShows ==
  NoEmptyRows(doc) =>
    \A written \in {DomToWikitext(doc)}, tables \in {ShownTables(doc)} :
      TablesOf(written) = tables /\ ShownTables(WikitextToFragment(written)) = tables

\* Every row has a cell, and nothing behind its last bar: the wiki's parser takes
\* a line for no row otherwise.
WholeRows(lines) ==
  \A i \in DOMAIN lines :
    IsRow(lines[i]) => lines[i].cells # <<>> /\ Trim(lines[i].suffix) = <<>>

\* A look at the rich text editor changes no table of a text in which something
\* separates the tables and no cell opens a table of its own or other markup.
LookingChangesNothing ==
  TablesApart /\ WholeRows(text) /\ WithoutMarkup(text) =>
    TablesOf(DomToWikitext(WikitextToFragment(text))) = TablesOf(text)

RowTexts(row) == Filled([c \in DOMAIN row.cells |-> row.cells[c].text])

BlockTexts(block) ==
  IF block.table
  THEN FoldLeft(\o, <<>>, [i \in DOMAIN block.rows |-> RowTexts(block.rows[i])])
  ELSE <<>>

TextsOf(blocks) == FoldLeft(\o, <<>>, [k \in DOMAIN blocks |-> BlockTexts(blocks[k])])

\* What is inserted pushes no text out, nor does it change the order of texts.
InsertingKeepsTexts == [][Insert => TextsOf(doc') = TextsOf(doc)]_vars

===============================================================================
