-------------------------- MODULE MCRichTextEditing ----------------------------
(* An instance of RichTextEditing for TLC: lines of each kind, with markup    *)
(* that overlaps, and blocks of several lines that may not be closed.         *)
EXTENDS RichTextEditing

MCLines ==
  {<<>>, <<"one">>, <<"''", "two", "'''", "both", "''", "bold", "'''", "plain",
                       "'''''", "both", "''", "bold">>,
   <<"*1", "item">>, <<"*2", "${v}", "item">>, <<"11", "[[", "''", "PageOne", "''", "]]">>,
   <<"!1", "see", " ", "PageTwo">>, <<"!define", "name">>,
   <<"!img", "!-", "''", "-!", "--", "struck", "--">>,
   <<"!*", "title">>, <<"*!">>, <<"----">>, <<"----", "hidden">>,
   <<"{{{", "code">>, <<"code", "}}}">>, <<"literal", "!-", "--">>, <<"-!", "--", "literal">>}
===============================================================================
