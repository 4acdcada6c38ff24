------------------------------- MODULE RichText --------------------------------
(***************************************************************************)
(* wikitext.js: how the rich text editor reads a wiki text and writes it   *)
(* back, tables apart, which are in RichTables.                            *)
(*                                                                         *)
(* A text is a sequence of lines and a line a sequence of tokens: what the *)
(* rules of wikitext.js match, and words for what is between the matches.  *)
(* White space is left out, and so no two quote tokens are typed next to   *)
(* each other.  A document is what a walk through it meets: the start and  *)
(* the end of each element, and texts.  The elements that are started and  *)
(* not ended are the ancestors of "holder", the last of them holder.       *)
(***************************************************************************)
EXTENDS Integers, SequencesExt

Names == {"PageOne", "PageTwo"}
Quotes == {"''", "'''", "'''''"}
Inline == Names \cup Quotes \cup {"--", "{{{", "}}}", "!-", "-!", "[[", "]]", "${v}"}

\* The tokens of the rules for a whole line, the markers of list items among
\* them: two levels of each kind.
Markers == [ul |-> <<"*1", "*2">>, ol |-> <<"11", "12">>]
IsMarker(token) == \E tag \in {"ul", "ol"} : token \in Range(Markers[tag])
ListTag(token) == IF token \in Range(Markers["ul"]) THEN "ul" ELSE "ol"
Depth(token) == CHOOSE k \in 1..2 : Markers[ListTag(token)][k] = token
Definitions == {"!define", "#"}

BR == "<br>"
NL == "\n"
Space == " "

Markup ==
  (Inline \ Names) \cup Definitions \cup Range(Markers["ul"]) \cup Range(Markers["ol"])
    \cup {"!1", "!*", "*!", "----", "!img", BR, NL, Space, "'"}

\* What is left are words, of letters only.
IsWord(token) == token \notin Markup

\* What words that follow each other without a space are read as.
RunTogether == "words"

Tokens == Markup \cup Names \cup {RunTogether} \cup STRING

Opening(tag) == [op |-> "open", tag |-> tag]
Closing(tag) == [op |-> "close", tag |-> tag]
Text(token) == [op |-> "text", tag |-> token]

\* "link" is an anchor with a label in brackets, "a" one that a name makes.
wikiInlineTags == {"a", "link", "tt", "b", "i", "strike", "img"}
Tags == wikiInlineTags \cup {"p", "pre", "ul", "ol", "li", "div", "h1", "hr"}

\* The indices that a search for the last text of an element stops at: it goes
\* into inline elements, and past empty ones.
Stops(doc) ==
  {k \in DOMAIN doc :
     /\ doc[k].op = "close" => doc[k].tag \notin wikiInlineTags
     /\ doc[k].op = "open" /\ doc[k].tag \in wikiInlineTags /\ k < Len(doc)
          => doc[k + 1] # Closing(doc[k].tag)}

IsOpenOrBreak(node) == node.op = "open" \/ node = Text(BR)

NeedsLineBreak(doc) == IsOpenOrBreak(doc[Max(Stops(doc))])

-----------------------------------------------------------------------------
(* wikitextToFragment: its variables, holder being the end of path.           *)

Start ==
  [doc |-> <<>>, path |-> <<>>, listDepth |-> <<>>,
   decorationStatus |-> {}, decorationStack |-> <<>>,
   header |-> FALSE, sections |-> 0,
   rules |-> <<>>,    \* those that go behind the section that holder is in
   thrown |-> FALSE]

\* getSelfOrAncestor, which does not look beyond a section; 0 if there is none.
Ancestor(s, tag) ==
  Max({0} \cup {k \in DOMAIN s.path :
                  s.path[k] = tag /\ \A i \in (k + 1)..Len(s.path) : s.path[i] # "div"})

In(s, tag) == Ancestor(s, tag) > 0
InVerbatim(s) == In(s, "tt") \/ In(s, "pre")

Put(s, token) == [s EXCEPT !.doc = Append(@, Text(token))]

Open(s, tag) == [s EXCEPT !.doc = Append(@, Opening(tag)), !.path = Append(@, tag)]

Rule == <<Opening("hr"), Closing("hr")>>

\* Makes the n-th ancestor the holder, the fragment if n is 0.
HolderIs(s, n) ==
  IF n < 0 THEN [s EXCEPT !.thrown = TRUE]
  ELSE [s EXCEPT
    !.doc = @ \o [k \in 1..(Len(s.path) - n) |-> Closing(s.path[Len(s.path) + 1 - k])]
              \o (IF n = 0 THEN s.rules ELSE <<>>),
    !.path = SubSeq(@, 1, n),
    !.rules = IF n = 0 THEN <<>> ELSE @]

AppendBogusLineBreak(s) == IF NeedsLineBreak(s.doc) THEN Put(s, BR) ELSE s

OpenParagraph(s) == IF In(s, "p") THEN s ELSE Open(s, "p")

\* Ends the k-th ancestor, a block, and makes the n-th the holder.
CloseBlock(s, k, n) == HolderIs(AppendBogusLineBreak(HolderIs(s, k)), n)

CloseParagraph(s) ==
  IF In(s, "p") THEN CloseBlock(s, Ancestor(s, "p"), Ancestor(s, "p") - 1) ELSE s

CloseList_KeepsDepth(s) ==
  HolderIs(s, IF In(s, "li") THEN Ancestor(s, "li") - 2 ELSE Len(s.path) - 1)

CloseList(s) ==
  [IF In(s, "li") THEN CloseBlock(s, Ancestor(s, "li"), Ancestor(s, "li") - 2)
   ELSE HolderIs(s, Len(s.path) - 1)
   EXCEPT !.listDepth = IF @ = <<>> THEN @ ELSE Front(@)]

\* The last ancestor that closeToFragment does not pass by; 0 if there is none.
LastBlock(s, stopTag) ==
  Max({0} \cup {k \in DOMAIN s.path :
                  s.path[k] \in {stopTag, "div", "p", "li", "ul", "ol", "pre"}})

CloseBlockAt(s, k, stopTag) ==
  IF k = 0 \/ s.path[k] \in {stopTag, "div"} THEN s
  ELSE CASE s.path[k] = "p" -> CloseParagraph(s)
         [] s.path[k] = "pre" -> HolderIs(s, k - 1)
         [] OTHER -> CloseList(s)

CloseLastBlock(s, stopTag) == CloseBlockAt(s, LastBlock(s, stopTag), stopTag)

HolderIsBlock(s, stopTag) == HolderIs(s, LastBlock(s, stopTag))

\* There are no more blocks to end than ancestors.
CloseToFragment(s, stopTag) ==
  HolderIsBlock(FoldLeft(LAMBDA t, tag : CloseLastBlock(t, stopTag), s, s.path), stopTag)

(* Decorations *)

HandleOpenInlineCode(s, name) ==
  LET in == Open(IF s.path = <<>> THEN OpenParagraph(s) ELSE s, name)
  IN [in EXCEPT !.decorationStatus = @ \cup {name}, !.decorationStack = Append(@, name)]

\* As many elements are ended as decorations were opened since that one, and all
\* but the last are started again.
CloseDecoration(s, index, n) ==
  IF n < 0 THEN HolderIs(s, n)
  ELSE FoldLeft(Open, [HolderIs(s, n) EXCEPT !.decorationStatus = @ \ {s.decorationStack[index]},
                                             !.decorationStack = RemoveAt(@, index)],
                SubSeq(s.path, n + 2, Len(s.path)))

CloseDecorationAt(s, index) ==
  CloseDecoration(s, index, Len(s.path) - (Len(s.decorationStack) - index + 1))

HandleCloseInlineCode(s, name) ==
  CloseDecorationAt(s, Max({k \in DOMAIN s.decorationStack : s.decorationStack[k] = name}))

HandleInline(s, name) ==
  IF name \in s.decorationStatus THEN HandleCloseInlineCode(s, name)
  ELSE HandleOpenInlineCode(s, name)

\* The decorations that a quote token begins or ends, in this order.
DecorationsOf(s, token) ==
  CASE token = "'''" -> <<"b">>
    [] token = "''" -> <<"i">>
    [] token = "--" -> <<"strike">>
    [] token = "'''''" /\ "i" \in s.decorationStatus -> <<"i", "b">>
    [] OTHER -> <<"b", "i">>

HandleQuotes(s, token) == FoldLeft(HandleInline, s, DecorationsOf(s, token))

(* Lists *)

OpenList(s, tag, depth) ==
  [Open(Open(IF In(s, "li") THEN HolderIs(s, Ancestor(s, "li") - 1) ELSE s, tag), "li")
   EXCEPT !.listDepth = Append(@, depth)]

IsDeeper(s, depth) == Len(s.listDepth) > 1 /\ depth < Last(s.listDepth)

CloseDeeperLists(s, depth) ==
  FoldLeft(LAMBDA t, d : IF IsDeeper(t, depth) THEN CloseList(t) ELSE t, s, s.listDepth)

\* Ends an item, and the lists that are in it.
CloseItem(s, depth) ==
  CASE IsDeeper(s, depth) -> CloseDeeperLists(s, depth)
    [] ~IsDeeper(s, depth) /\ In(s, "li") -> CloseBlock(s, Ancestor(s, "li"), Ancestor(s, "li") - 1)
    [] OTHER -> [s EXCEPT !.thrown = TRUE]

SameList(s, depth) ==
  [Open(CloseItem(s, depth), "li") EXCEPT !.listDepth = Append(Front(@), depth)]

HandleList(s, token) ==
  IF s.listDepth = <<>> \/ Depth(token) > Last(s.listDepth)
  THEN OpenList(CloseToFragment(s, "li"), ListTag(token), Depth(token))
  ELSE SameList(s, Depth(token))

(* handleLine *)

\* The paragraph that a "!define" or a "#" began.
InDefinition(s) ==
  /\ In(s, "p")
  /\ \E k \in 1..(Len(s.doc) - 1) :
       /\ s.doc[k] = Opening("p") /\ s.doc[k + 1].tag \in Definitions
       /\ \A i \in (k + 1)..Len(s.doc) : s.doc[i] # Opening("p")

\* What is found at the start of a line ends a list, and a paragraph is begun
\* for what is in none.
OpenParagraphIfNeeded(s) ==
  IF (s.listDepth = <<>> /\ ~s.header) \/ s.path = <<>> THEN OpenParagraph(s) ELSE s

MakeRoom(s, first) ==
  OpenParagraphIfNeeded(
    IF first /\ ~In(s, "p") /\ ~InVerbatim(s) /\ ~s.header THEN CloseToFragment(s, "div") ELSE s)

HandleText_NoBreak(s, word, first) == Put(MakeRoom(s, first), word)

\* Words that go on with a paragraph go on a line of their own.
HandleText(s, word, first) ==
  Put(MakeRoom(IF first /\ In(s, "p") /\ Last(s.doc).op # "open" /\ Last(s.doc) # Text(BR)
               THEN Put(s, BR) ELSE s, first), word)

HandleEscaped(s, token) ==
  CASE token = "!-" /\ ~In(s, "tt") -> Open(s, "tt")
    [] token = "-!" /\ In(s, "tt") -> HolderIs(s, Ancestor(s, "tt") - 1)
    [] OTHER -> Put(s, token)

HandleCodeBlock(s, token) ==
  CASE token = "{{{" /\ ~In(s, "pre") -> Open(s, "pre")
    [] token = "}}}" /\ In(s, "pre") -> HolderIs(s, Ancestor(s, "pre") - 1)
    [] OTHER -> Put(s, token)

HandleWikiPageName(s, name) == HolderIs(Put(Open(s, "a"), name), Len(s.path))

\* The label of a link is read like a line, of which the rules for the start of
\* one find nothing to do in an anchor.
HandleLinks(s, token) ==
  CASE token = "[[" -> Open(s, "link")
    [] token = "]]" /\ In(s, "link") -> HolderIs(s, Ancestor(s, "link") - 1)
    [] OTHER -> Put(s, token)

HandleVariable(s, token) == Put(s, token)

HandleInlineRule(s, token) ==
  CASE token \in {"!-", "-!"} -> HandleEscaped(s, token)
    [] token \notin {"!-", "-!"} /\ In(s, "tt") -> Put(s, token)
    [] token \in {"{{{", "}}}"} /\ ~In(s, "tt") -> HandleCodeBlock(s, token)
    [] token \in Names /\ ~In(s, "tt") ->
         IF In(s, "pre") \/ In(s, "link") THEN Put(s, token) ELSE HandleWikiPageName(s, token)
    [] token \in {"[[", "]]"} /\ ~In(s, "tt") ->
         IF In(s, "pre") THEN Put(s, token) ELSE HandleLinks(s, token)
    [] token = "${v}" -> HandleVariable(s, token)
    [] OTHER -> HandleQuotes(s, token)

\* Text that no rule takes.
Plain(s, token) ==
  Put(IF s.listDepth = <<>> /\ ~s.header THEN OpenParagraph(s) ELSE s, token)

\* An image goes where the holder is, into the last item of a list above it too.
HandleImage(s) ==
  IF InVerbatim(s) THEN Plain(s, "!img")
  ELSE HolderIs(Open(OpenParagraph(s), "img"), Len(OpenParagraph(s).path))

HandleToken(s, token, first) ==
  IF s.thrown THEN s
  ELSE IF token = "!img" THEN HandleImage(s)
  ELSE IF token \in Inline THEN HandleInlineRule(MakeRoom(s, first), token)
  ELSE HandleText(s, token, first)

EndLine(s) ==
  IF InVerbatim(s) THEN Put(s, BR)
  ELSE IF InDefinition(s) THEN CloseParagraph(s)
  ELSE s

Rest(s, tokens, first) ==
  EndLine(FoldLeft(LAMBDA t, k : HandleToken(t, tokens[k], first /\ k = 1), s,
                   [k \in DOMAIN tokens |-> k]))

OpenHeader(s) == [Open(CloseToFragment(s, "div"), "h1") EXCEPT !.header = TRUE]
CloseHeader(s) == [HolderIs(s, Ancestor(s, "h1") - 1) EXCEPT !.header = FALSE]

HandleHeader(s, tokens) == CloseHeader(Rest(OpenHeader(s), tokens, FALSE))

HandleDefinition(s, token) == Put(OpenParagraph(CloseToFragment(s, "div")), token)

OpenSection(s) == [Open(CloseParagraph(s), "div") EXCEPT !.sections = @ + 1]

OpenContent(s) == IF s.thrown THEN s ELSE OpenParagraph(s)

HandleCollapsibleBlock_NoTitle(s, title) == OpenContent(OpenSection(s))

HandleCollapsibleBlock(s, title) ==
  OpenContent(IF title = <<>> THEN OpenSection(s)
              ELSE CloseParagraph(Rest(OpenSection(s), title, TRUE)))

LeaveSection(s) == IF s.path = <<>> THEN s ELSE HolderIs(s, Len(s.path) - 1)

CloseCollapsibleBlock(s) ==
  IF s.sections = 0 THEN s
  ELSE OpenParagraph(LeaveSection(CloseToFragment([s EXCEPT !.sections = @ - 1], "div")))

\* The rules for the start of a line that leave the rest of it to the others.
Lead(s, token) ==
  CASE InVerbatim(s) -> Plain(s, token)
    [] ~InVerbatim(s) /\ IsMarker(token) -> HandleList(s, token)
    [] OTHER -> HandleDefinition(s, token)

\* A line by its first token.  A header ends a code block.
HandleLine(s, line) ==
  CASE line = <<>> -> EndLine(s)
    [] line # <<>> /\ line[1] = "!1" -> HandleHeader(s, Tail(line))
    [] line # <<>> /\ (IsMarker(line[1]) \/ line[1] \in Definitions) ->
         Rest(Lead(s, line[1]), Tail(line), FALSE)
    [] line # <<>> /\ line[1] = "!*" ->
         EndLine(IF In(s, "tt") THEN FoldLeft(Plain, s, line)
                 ELSE HandleCollapsibleBlock(s, Tail(line)))
    [] line = <<"*!">> ->
         EndLine(IF In(s, "tt") THEN Plain(s, line[1]) ELSE CloseCollapsibleBlock(s))
    [] OTHER -> Rest(s, line, TRUE)

\* "----" goes to the end of the document, wherever holder is.
PutRule(s) ==
  IF s.path = <<>> THEN [s EXCEPT !.doc = @ \o Rule] ELSE [s EXCEPT !.rules = @ \o Rule]

HandleRule(s) == PutRule(CloseToFragment(s, "div"))

AddLine(s, line) ==
  IF s.thrown THEN s
  ELSE IF line # <<>> /\ line[1] = "----" THEN HandleRule(s)
  ELSE IF line = <<>> /\ ~In(s, "pre") THEN CloseToFragment(s, "div")
  ELSE HandleLine([s EXCEPT !.decorationStatus = {}, !.decorationStack = <<>>], line)

ReadText_LeftOpen(text) == FoldLeft(AddLine, Start, text)

CloseText(s) == IF s.thrown THEN s ELSE HolderIs(CloseToFragment(s, "div"), 0)

ReadText(text) == CloseText(FoldLeft(AddLine, Start, text))

-----------------------------------------------------------------------------
(* domToWikitext: texts is out, and path the ancestors of the node.           *)

wikiOpenTokens ==
  [tag \in {"h1", "b", "i", "strike", "pre", "div"} |->
     CASE tag = "h1" -> "!1" [] tag = "b" -> "'''" [] tag = "i" -> "''"
       [] tag = "strike" -> "--" [] tag = "pre" -> "{{{" [] tag = "div" -> "!*"]

PushToken_NoCancel(out, token) == Append(out, token)

\* Two tokens that cancel each other are left out, and a quote token goes before
\* its like so that they can.
PushToken(out, token) ==
  LET n == Len(out)
      both == {"'''", "''"}
  IN IF n = 0 \/ token \notin both THEN Append(out, token)
     ELSE IF out[n] = token THEN Front(out)
     ELSE IF n > 1 /\ out[n] \in both /\ out[n - 1] = token
          THEN Append(SubSeq(out, 1, n - 2), out[n])
     ELSE Append(out, token)

FollowsInline(doc, k) ==
  k > 1 /\ (doc[k - 1].op = "text" \/ (doc[k - 1].op = "close" /\ doc[k - 1].tag \in wikiInlineTags))

\* A line break at the end of a block.
IsBogusLineBreak(doc, k) ==
  \A j \in (k + 1)..Len(doc) :
    (\A i \in (k + 1)..(j - 1) : doc[i].op = "close" /\ doc[i].tag \in wikiInlineTags \cup {"pre"})
      => doc[j].op = "close"

ClosingOf(doc, k) == Min({j \in (k + 1)..Len(doc) : doc[j] = Closing(doc[k].tag)})

IsEmptyParagraph(doc, k) ==
  /\ doc[k] = Opening("p")
  /\ \A j \in (k + 1)..ClosingOf(doc, k) :
       doc[j] # Opening("img") /\ (doc[j].op = "text" => doc[j] = Text(BR))

Level_Flat(path) == IF \E k \in DOMAIN path : path[k] \in {"ul", "ol"} THEN 1 ELSE 0

Level(path) == Cardinality({k \in DOMAIN path : path[k] \in {"ul", "ol"}})

\* The model has markers for two levels: a deeper list is written like the second.
MarkerLevel(path) == IF Level(path) > 1 THEN 2 ELSE 1

Parent(path) == IF path = <<>> THEN "fragment" ELSE Last(path)

\* A link without a label is not written.
LinkTokens == [open |-> <<"[[">>, close |-> <<"]]">>]

OpenTokens(doc, k, path) ==
  LET tag == doc[k].tag
      line == IF FollowsInline(doc, k) THEN <<NL>> ELSE <<>>
  IN CASE tag = "h1" -> line \o <<"!1">>
       [] tag = "hr" -> line \o <<"----", NL>>
       [] tag \in {"ul", "ol"} ->
            IF Level(path) = 0 THEN line ELSE IF Parent(path) = "li" THEN <<NL>> ELSE <<>>
       [] tag = "li" -> <<Markers[IF Parent(path) = "ol" THEN "ol" ELSE "ul"][MarkerLevel(path)]>>
       [] tag = "tt" -> IF doc[k + 1] = Closing("tt") THEN <<>> ELSE <<"!-">>
       [] tag \in {"pre", "div"} -> <<wikiOpenTokens[tag]>>
       [] tag = "link" -> IF doc[k + 1] = Closing("link") THEN <<>> ELSE LinkTokens.open
       [] tag = "img" -> <<"!img">>
       [] OTHER -> <<>>

CloseTokens(doc, k, path) ==
  LET tag == doc[k].tag
  IN CASE tag = "p" ->
            IF \E j \in 1..(k - 1) : doc[j] = Opening("p") /\ ClosingOf(doc, j) = k
                                     /\ doc[j + 1] = Text("!define")
            THEN <<NL>> ELSE <<NL, NL>>
       [] tag \in {"ul", "ol"} -> IF Level(path) = 0 THEN <<NL>> ELSE <<>>
       [] tag = "h1" -> <<NL>>
       [] tag = "li" -> \* not of an item that has a list in it
            IF doc[Max({j \in 1..(k - 1) : doc[j].tag = "li"})].op = "open" THEN <<NL>> ELSE <<>>
       [] tag = "tt" -> IF doc[k - 1] = Opening("tt") THEN <<>> ELSE <<"-!">>
       [] tag = "pre" ->
            IF Parent(path) = "li" /\ doc[k + 1] # Opening("pre") THEN <<NL, "}}}">> ELSE <<"}}}">>
       [] tag = "div" -> <<"*!", NL>>
       [] tag = "link" -> IF doc[k - 1] = Opening("link") THEN <<>> ELSE LinkTokens.close
       [] OTHER -> <<>>

TextTokens(doc, k, path) ==
  IF doc[k] # Text(BR) THEN <<doc[k].tag>>
  ELSE IF {"pre", "tt"} \cap Range(path) # {} \/ ~IsBogusLineBreak(doc, k) THEN <<NL>>
  ELSE <<>>

\* What a node writes, path being the ancestors of the node or of its end.
NodeTokens(doc, k, path) ==
  CASE doc[k].op = "open" -> OpenTokens(doc, k, path)
    [] doc[k].op = "close" -> CloseTokens(doc, k, path)
    [] doc[k].op = "text" -> TextTokens(doc, k, path)

Write(w, doc, k, path) ==
  [w EXCEPT
    !.out = IF doc[k].op # "text" /\ doc[k].tag \in {"b", "i", "strike"}
            THEN PushToken(@, wikiOpenTokens[doc[k].tag])
            ELSE @ \o NodeTokens(doc, k, path),
    !.path = IF doc[k].op = "open" THEN Append(path, doc[k].tag) ELSE path]

Visit(w, doc, k) ==
  IF k =< w.skip THEN w
  ELSE IF IsEmptyParagraph(doc, k) THEN [w EXCEPT !.skip = ClosingOf(doc, k)]
  ELSE Write(w, doc, k, IF doc[k].op = "close" THEN Front(w.path) ELSE w.path)

\* Quotes that meet are read from the left, five, three or two of them.
ReadQuotes(n) ==
  LET rest == << <<>>, <<"'">>, <<"''">>, <<"'''">>, <<"'''", "'">> >>
  IN [k \in 1..(n \div 5) |-> "'''''"] \o rest[(n % 5) + 1]

QuotesOf(token) ==
  CASE token = "''" -> 2 [] token = "'''" -> 3 [] token = "'''''" -> 5 [] OTHER -> 0

\* The lines that the tokens make when they are read again.
AddToken(t, token, line) ==
  CASE token = NL -> [lines |-> Append(t.lines, line), line |-> <<>>, quotes |-> 0]
    [] line # <<>> /\ IsWord(token) /\ IsWord(Last(line)) ->
         [t EXCEPT !.line[Len(line)] = RunTogether]
    [] OTHER -> [t EXCEPT !.line = Append(line, token), !.quotes = 0]

LinesOf(tokens) ==
  LET add(t, token) ==
        IF token \in Quotes THEN [t EXCEPT !.quotes = @ + QuotesOf(token)]
        ELSE AddToken(t, token, t.line \o ReadQuotes(t.quotes))
  IN FoldLeft(add, [lines |-> <<>>, line |-> <<>>, quotes |-> 0], Append(tokens, NL)).lines

\* Without empty lines at the start, and with one at most at the end.
Stripped(lines) ==
  LET solid == {k \in DOMAIN lines : lines[k] # <<>>}
  IN IF solid = {} THEN <<<<>>>>
     ELSE SubSeq(lines, Min(solid), Min({Max(solid) + 1, Len(lines)}))

DomToWikitext(doc) ==
  Stripped(LinesOf(FoldLeft(LAMBDA w, k : Visit(w, doc, k), [out |-> <<>>, path |-> <<>>, skip |-> 0],
                            [k \in DOMAIN doc |-> k]).out))

===============================================================================
