--------------------------- MODULE MCWysiwygEditor ----------------------------
(* An instance of WysiwygEditor for TLC: a plain change, a table, a template, *)
(* and a change that neither conversion can make.                             *)
EXTENDS WysiwygEditor

MCChanges == {"line", "table", "template", "unreadable", "unwritable"}
===============================================================================
