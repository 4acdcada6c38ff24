---------------------------- MODULE RichTextEditing ----------------------------
(***************************************************************************)
(* An author who types the lines of a page into the text area, looks at    *)
(* them in the rich text editor, goes back, and looks again: what the      *)
(* conversions of RichText, one after the other, make of a page.           *)
(***************************************************************************)
EXTENDS RichText

CONSTANTS
  Lines,              \* the lines that are typed, each a sequence of tokens
  MaxLines, MaxLooks  \* bounds: of the lines; of the looks

ASSUME LinesAssumption == Lines \subseteq Seq(Tokens)
ASSUME BoundsAssumption == {MaxLines, MaxLooks} \subseteq Nat

VARIABLES
  shown,   \* the editor shown: "text" or "rich"
  text,    \* the lines in the text area
  doc,     \* the document in the rich text editor
  source,  \* history: the lines that were typed
  first,   \* history: the document that the first look showed
  tidy,    \* history: whether that document is Tidy
  looks    \* the times that the rich text was shown

vars == <<shown, text, doc, source, first, tidy, looks>>

(* What goes wrong by itself.                                                 *)

Decorations == {"b", "i", "strike"}

\* A line that goes on with a paragraph, the state of the reader being s, and
\* starts with markup or the name of a page: the editor breaks lines before
\* words only.
GoesOnWithMarkup(s, line) ==
  /\ In(s, "p") /\ ~InVerbatim(s) /\ Last(s.doc).op # "open"
  /\ line # <<>> /\ line[1] \in Inline \cup {"!img"}

\* An image right below a list: the editor puts it into the last item.
ImageBelowList(s, line) ==
  /\ In(s, "li") /\ ~InVerbatim(s)
  /\ line # <<>> /\ line[1] = "!img"

\* The elements that are begun and not ended: a walk goes into them and out again.
\* What is ended out of order belongs to none.
Enter(path, node) ==
  CASE node.op = "open" -> Append(path, node.tag)
    [] node.op = "close" -> IF path # <<>> /\ Last(path) = node.tag THEN Front(path) ELSE <<"none">>
    [] node.op = "text" -> path

OpenElements(nodes) == FoldLeft(Enter, <<>>, nodes)

\* The elements that the k-th node of a document is in.
Path(document, k) == OpenElements(SubSeq(document, 1, k - 1))

\* A collapsible section that begins in the item of a list.
HasSectionInItem(document) ==
  \E k \in DOMAIN document : document[k] = Opening("div") /\ "li" \in Range(Path(document, k))

\* A decoration that goes on after a line break, on a line that does not close it.
HasDecoratedBreak(document) ==
  \E k \in DOMAIN document :
    document[k] = Text(BR) /\ Range(Path(document, k)) \cap Decorations # {}

\* The line is joined to the one above it.
IsJoined(s, line) == GoesOnWithMarkup(s, line) \/ ImageBelowList(s, line)

AddWord(words, token) == IF IsWord(token) THEN Append(words, token) ELSE words
Words(tokens) == FoldLeft(AddWord, <<>>, tokens)

\* A line that begins with "----" is a rule, and nothing else.
HidesWords(line) == line # <<>> /\ line[1] = "----" /\ Words(line) # <<>>

Tidy(lines, document) ==
  /\ \A k \in DOMAIN lines :
       /\ ~IsJoined(FoldLeft(AddLine, Start, SubSeq(lines, 1, k - 1)), lines[k])
       /\ ~HidesWords(lines[k])
  /\ ~HasSectionInItem(document)
  /\ ~HasDecoratedBreak(document)

-----------------------------------------------------------------------------
\* Every element that is begun is ended, in its order.
IsWellNested(document) == OpenElements(document) = <<>>

Node == [op : {"open", "close"}, tag : Tags] \cup [op : {"text"}, tag : Tokens]

TypeOK ==
  /\ shown \in {"text", "rich"}
  /\ text \in Seq(Seq(Tokens)) /\ source \in Seq(Seq(Tokens))
  /\ doc \in Seq(Node)
  /\ IsWellNested(doc)
  /\ first \in Seq(Node) /\ tidy \in BOOLEAN
  /\ looks \in 0..MaxLooks

Init ==
  /\ shown = "text" /\ text = <<<<>>>> /\ source = text
  /\ doc = <<>> /\ first = <<>> /\ tidy = FALSE /\ looks = 0

TypeLine(line) ==
  /\ shown = "text" /\ looks = 0 /\ Len(text) < MaxLines
  /\ text' = IF text = <<<<>>>> THEN <<line>> ELSE Append(text, line)
  /\ source' = text'
  /\ UNCHANGED <<shown, doc, first, tidy, looks>>

\* A text that cannot be read stays where it is.
LoadWysiwygDocument ==
  /\ shown = "text" /\ looks < MaxLooks
  /\ \E read \in {ReadText(text)} : ~read.thrown /\ doc' = read.doc
  /\ shown' = "rich" /\ looks' = looks + 1
  /\ IF looks = 0 THEN first' = doc' /\ tidy' = Tidy(source, doc') ELSE UNCHANGED <<first, tidy>>
  /\ UNCHANGED <<text, source>>

LoadWikiText ==
  /\ shown = "rich"
  /\ shown' = "text" /\ text' = DomToWikitext(doc) /\ doc' = <<>>
  /\ UNCHANGED <<source, first, tidy, looks>>

Next ==
  \/ \E line \in Lines : TypeLine(line)
  \/ LoadWysiwygDocument
  \/ LoadWikiText

Spec == Init /\ [][Next]_vars

-----------------------------------------------------------------------------
(* What an author relies on.                                                  *)

WordsIn(lines) == FoldLeft(LAMBDA words, line : words \o Words(line), <<>>, lines)
WordLines(lines) ==
  SelectSeq([k \in DOMAIN lines |-> Words(lines[k])], LAMBDA line : line # <<>>)

\* Each word of a document, with the elements that it is in: in their order, but
\* for those that decorate it.
PlaceOf(word, path) ==
  [word |-> word, decorations |-> Range(path) \cap Decorations,
   path |-> SelectSeq(path, LAMBDA tag : tag \notin Decorations)]

Places(document) ==
  LET isWord(k) == document[k].op = "text" /\ IsWord(document[k].tag)
      words == SelectSeq([k \in DOMAIN document |-> k], isWord)
  IN [n \in DOMAIN words |-> PlaceOf(document[words[n]].tag, Path(document, words[n]))]

AddShown(words, node) == IF node.op = "text" THEN AddWord(words, node.tag) ELSE words
WordsShown(document) == FoldLeft(AddShown, <<>>, document)

Looks == shown = "text" /\ shown' = "rich"
GoesBack == shown = "rich" /\ shown' = "text"

\* Whatever the text, all its words are shown in rich text, in their order, but for
\* those behind a rule.
NothingIsHidden ==
  [][Looks /\ (\A k \in DOMAIN text : ~HidesWords(text[k])) => WordsShown(doc') = WordsIn(text)]_vars

\* Words that were typed on lines of their own stay on lines of their own.
LinesStayApart == [][GoesBack /\ tidy => WordLines(text') = WordLines(source)]_vars

\* An author who goes back to the text and looks again sees each word where it was.
SeesTheSameAgain == [][Looks /\ tidy => Places(doc') = Places(first)]_vars

\* The first look writes the text its own way, the second leaves it alone.
LooksSettle == [][GoesBack /\ looks > 1 /\ tidy => text' = text]_vars

\* Only a section that begins in the item of a list can make a text unreadable.
ReadsWhatIsTidy ==
  shown = "text" =>
    \A read \in {ReadText(text)} : HasSectionInItem(read.doc) \/ ~read.thrown

===============================================================================
