--------------------------- MODULE MCTableEditing -----------------------------
(* An instance of TableEditing for TLC: rows of one to three cells, narrow    *)
(* and wide, with each mark, nested tables, a bare bar, a row that no bar      *)
(* ends, and what separates tables.                                           *)
EXTENDS TableEditing

A == <<"a">>
B == <<" ", "b">>
Wide == <<"a", "b", "a", "b", "a">>

MCLines ==
  {TableRow("", <<B>>, A), TableRow("", <<Wide>>, <<>>), TableRow("", <<A, B>>, <<>>),
   TableRow("", <<B, A, <<>>>>, <<>>), TableRow("!", <<B>>, <<>>),
   TableRow("-", <<A, A>>, <<>>), TableRow("-!", <<A>>, <<>>), Line(A), Blank,
   TableRow("", <<>>, <<>>), TableRow("", <<Nested, A>>, <<>>), TableRow("!", <<<<"(">>, A>>, <<>>)}

Class == <<"c", ".", "c">>
MCQualified == {Class}

MCSheetRows ==
  {<<<<>>>>, <<A>>, <<Class>>, <<A, A>>, <<<<>>, A>>, <<<<>>, <<>>, A>>, <<A, A, <<>>>>,
   <<Mark("!"), A>>, <<Mark("-!")>>, <<Mark("-"), <<>>, A>>}
===============================================================================
