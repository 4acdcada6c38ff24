---------------------------- MODULE RichTextProofs ----------------------------
(***************************************************************************)
(* What the rich text editor makes of a page, for lines of any tokens.     *)
(*                                                                         *)
(* The reader appends to the document and keeps the ancestors of the node  *)
(* it appends to.  Each of its rules is shown to leave them the elements   *)
(* that are open in the document (Reader), so that closing them in the end *)
(* leaves none open, and to add to the words of the document those that    *)
(* it takes (Shows), so that these are in the end the words of the text.   *)
(* What is read behind the last section, the rules that wait for its end,  *)
(* is whole and has no words.                                              *)
(*                                                                         *)
(* A loop of the code is a fold, and what its body preserves holds of its  *)
(* result (Folding).  A rule that closes blocks ends some of the ancestors *)
(* from the last one back, a decoration that is closed ends those above it *)
(* and opens them again: neither shows or takes a word.                    *)
(*                                                                         *)
(* The writer makes lines of tokens, whatever the document.                *)
(***************************************************************************)
EXTENDS RichTextEditing, SequenceTheorems, TLAPS

-----------------------------------------------------------------------------
(* Documents *)

EnterNode(given, path, node) == Enter(path, node)
ShowNode(given, words, node) == AddShown(words, node)
AnyValue(given, k, value) == TRUE

E == INSTANCE Folding WITH Op <- EnterNode, Inv <- AnyValue
W == INSTANCE Folding WITH Op <- ShowNode, Inv <- AnyValue

LEMMA NodesAre ==
  /\ \A tag \in Tags : Opening(tag) \in Node /\ Closing(tag) \in Node
  /\ \A token \in Tokens : Text(token) \in Node
BY Zenon DEF Opening, Closing, Text, Node

LEMMA LiteralTags ==
  /\ {"p", "pre", "ul", "ol", "li", "div", "h1", "hr"} \subseteq Tags
  /\ {"a", "link", "tt", "b", "i", "strike", "img"} \subseteq Tags
BY Zenon DEF Tags, wikiInlineTags

LEMMA LiteralTokens ==
  /\ Markup \subseteq Tokens /\ Names \subseteq Tokens /\ RunTogether \in Tokens
  /\ BR \in Markup /\ NL \in Markup /\ Inline \ Names \subseteq Markup /\ Definitions \subseteq Markup
  /\ {"!1", "!*", "*!", "----", "!img", "'"} \subseteq Markup
  /\ \A token : IsMarker(token) => token \in Markup
BY Zenon DEF Tokens, Markup, IsMarker

LEMMA EnteringNodes ==
  ASSUME NEW path, NEW tag
  PROVE  /\ Enter(path, Opening(tag)) = Append(path, tag)
         /\ Enter(path, Text(tag)) = path
         /\ path # <<>> /\ Last(path) = tag => Enter(path, Closing(tag)) = Front(path)
BY DEF Enter, Opening, Closing, Text

LEMMA ShowingNodes ==
  ASSUME NEW words, NEW tag
  PROVE  /\ AddShown(words, Opening(tag)) = words
         /\ AddShown(words, Closing(tag)) = words
         /\ AddShown(words, Text(tag)) = AddWord(words, tag)
BY DEF AddShown, Opening, Closing, Text

LEMMA OpenElementsIsFold ==
  ASSUME NEW nodes
  PROVE  OpenElements(nodes) = E!Fold(0, <<>>, nodes)
BY Zenon DEF OpenElements, E!Fold, EnterNode, FoldLeft, MapThenFoldSet,
             E!MapThenFoldSet, Max, E!Max

LEMMA WordsShownIsFold ==
  ASSUME NEW nodes
  PROVE  WordsShown(nodes) = W!Fold(0, <<>>, nodes)
BY Zenon DEF WordsShown, W!Fold, ShowNode, FoldLeft, MapThenFoldSet,
             W!MapThenFoldSet, Max, W!Max

LEMMA Joined ==
  ASSUME NEW T, NEW s \in Seq(T), NEW t \in Seq(T)
  PROVE  /\ Len(s) \in Nat /\ Len(t) \in Nat /\ s \o t \in Seq(T)
         /\ DOMAIN s = 1..Len(s) /\ DOMAIN t = 1..Len(t)
         /\ DOMAIN (s \o t) = 1..(Len(s) + Len(t))
         /\ \A k \in 1..Len(s) : (s \o t)[k] = s[k]
         /\ \A k \in 1..Len(t) : (s \o t)[Len(s) + k] = t[k]
OBVIOUS

LEMMA OpenElementsJoined ==
  ASSUME NEW nodes \in Seq(Node), NEW more \in Seq(Node)
  PROVE  OpenElements(nodes \o more) = E!Fold(0, OpenElements(nodes), more)
<1> HIDE DEF Node
<1> DEFINE m == Len(nodes)
           n == Len(more)
           both == nodes \o more
<1>0. /\ m \in Nat /\ n \in Nat
      /\ DOMAIN nodes = 1..m /\ DOMAIN more = 1..n /\ DOMAIN both = 1..(m + n)
      /\ \A k \in 1..m : both[k] = nodes[k]
      /\ \A k \in 1..n : both[m + k] = more[k]
  BY Joined
<1> HIDE DEF m, n, both
<1>1. E!Fold(0, <<>>, both) = E!Fold(0, E!Fold(0, <<>>, nodes), more)
  BY <1>0, E!FoldJoined
<1> QED BY Zenon, <1>1, OpenElementsIsFold DEF both

LEMMA WordsShownJoined ==
  ASSUME NEW nodes \in Seq(Node), NEW more \in Seq(Node)
  PROVE  WordsShown(nodes \o more) = W!Fold(0, WordsShown(nodes), more)
<1> HIDE DEF Node
<1> DEFINE m == Len(nodes)
           n == Len(more)
           both == nodes \o more
<1>0. /\ m \in Nat /\ n \in Nat
      /\ DOMAIN nodes = 1..m /\ DOMAIN more = 1..n /\ DOMAIN both = 1..(m + n)
      /\ \A k \in 1..m : both[k] = nodes[k]
      /\ \A k \in 1..n : both[m + k] = more[k]
  BY Joined
<1> HIDE DEF m, n, both
<1>1. W!Fold(0, <<>>, both) = W!Fold(0, W!Fold(0, <<>>, nodes), more)
  BY <1>0, W!FoldJoined
<1> QED BY Zenon, <1>1, WordsShownIsFold DEF both

\* The empty document, and one that goes on with another node.
LEMMA NoNodes == OpenElements(<<>>) = <<>> /\ WordsShown(<<>>) = <<>>
<1>1. DOMAIN <<>> = 1..0  OBVIOUS
<1> QED
  BY Zenon, <1>1, OpenElementsIsFold, WordsShownIsFold, E!FoldOfFew, W!FoldOfFew

LEMMA OneNodeMore ==
  ASSUME NEW nodes \in Seq(Node), NEW node \in Node
  PROVE  /\ Append(nodes, node) \in Seq(Node)
         /\ OpenElements(Append(nodes, node)) = Enter(OpenElements(nodes), node)
         /\ WordsShown(Append(nodes, node)) = AddShown(WordsShown(nodes), node)
<1> HIDE DEF Node
<1> DEFINE one == <<node>>
<1>1. /\ one \in Seq(Node) /\ DOMAIN one = 1..1 /\ one[1] = node
      /\ Append(nodes, node) \in Seq(Node) /\ Append(nodes, node) = nodes \o one
  OBVIOUS
<1> HIDE DEF one
<1>2. E!Fold(0, OpenElements(nodes), one) = Enter(OpenElements(nodes), node)
  <2>1. E!Fold(0, OpenElements(nodes), one) = EnterNode(0, OpenElements(nodes), one[1])
    BY <1>1, E!FoldOfFew
  <2> QED BY Zenon, <1>1, <2>1 DEF EnterNode
<1>3. W!Fold(0, WordsShown(nodes), one) = AddShown(WordsShown(nodes), node)
  <2>1. W!Fold(0, WordsShown(nodes), one) = ShowNode(0, WordsShown(nodes), one[1])
    BY <1>1, W!FoldOfFew
  <2> QED BY Zenon, <1>1, <2>1 DEF ShowNode
<1> QED BY Zenon, <1>1, <1>2, <1>3, OpenElementsJoined, WordsShownJoined

\* The ends of the elements that are open, from the last one back.
Ends(path, n) == [k \in 1..(Len(path) - n) |-> Closing(path[Len(path) + 1 - k])]

LEMMA EndingElements ==
  ASSUME NEW path \in Seq(Tags), NEW n \in 0..Len(path)
  PROVE  /\ Ends(path, n) \in Seq(Node)
         /\ SubSeq(path, 1, n) \in Seq(Tags) /\ Len(SubSeq(path, 1, n)) = n
         /\ E!Fold(0, path, Ends(path, n)) = SubSeq(path, 1, n)
<1> DEFINE size == Len(path)
           m == size - n
           f == [k \in 0..m |-> SubSeq(path, 1, size - k)]
<1>1. m \in Nat /\ DOMAIN Ends(path, n) = 1..m /\ size \in Nat /\ n \in Nat
  BY DEF Ends
<1>2. Ends(path, n) \in Seq(Node)
  <2>1. \A k \in 1..m : path[size + 1 - k] \in Tags  OBVIOUS
  <2>2. \A k \in 1..m : Closing(path[size + 1 - k]) \in Node
    BY Zenon, <2>1, NodesAre
  <2> HIDE DEF Node
  <2> QED BY <1>1, <2>2 DEF Ends
<1>3. f[0] = path  BY <1>1
<1>4. ASSUME NEW k \in 1..m
      PROVE  f[k] = EnterNode(0, f[k - 1], Ends(path, n)[k])
  <2> DEFINE before == SubSeq(path, 1, size - (k - 1))
  <2>1. /\ f[k - 1] = before /\ f[k] = SubSeq(path, 1, size - k)
        /\ Ends(path, n)[k] = Closing(path[size + 1 - k])
    BY <1>1 DEF Ends
  <2>2. before # <<>> /\ Last(before) = path[size + 1 - k] /\ Front(before) = SubSeq(path, 1, size - k)
    <3>1. size - (k - 1) \in 1..size /\ size + 1 - k = size - (k - 1)  BY <1>1
    <3>2. Len(before) = size - (k - 1)  BY <3>1
    <3>3. before # <<>>
      <4>1. Len(<<>>) = 0 /\ Len(before) # 0  BY <3>1, <3>2
      <4> HIDE DEF before
      <4> QED BY Zenon, <4>1
    <3>4. Last(before) = path[size + 1 - k]  BY <3>1, <3>2 DEF Last
    <3>5. Front(before) = SubSeq(path, 1, size - k)  BY <3>1, <3>2 DEF Front
    <3> QED BY <3>3, <3>4, <3>5
  <2> HIDE DEF before, f
  <2>3. Enter(before, Closing(path[size + 1 - k])) = Front(before)
    BY Zenon, <2>2, EnteringNodes
  <2> QED BY Zenon, <2>1, <2>2, <2>3 DEF EnterNode
<1>5. f[m] = SubSeq(path, 1, n)  BY <1>1
<1> HIDE DEF f, m
<1>6. E!Follows(0, path, Ends(path, n), m, f)  BY <1>3, <1>4 DEF E!Follows
<1>7. E!Fold(0, path, Ends(path, n)) = f[m]  BY <1>1, <1>6, E!FoldIs
<1>8. SubSeq(path, 1, n) \in Seq(Tags) /\ Len(SubSeq(path, 1, n)) = n  OBVIOUS
<1> QED BY <1>2, <1>5, <1>7, <1>8

\* Nodes without texts show no words.
NoTexts(nodes) == \A k \in DOMAIN nodes : nodes[k].op # "text"

LEMMA NothingMoreShown ==
  ASSUME NEW words, NEW nodes \in Seq(Node), NoTexts(nodes)
  PROVE  W!Fold(0, words, nodes) = words
<1> HIDE DEF Node
<1> DEFINE n == Len(nodes)
           f == [k \in 0..n |-> words]
<1>1. n \in Nat /\ DOMAIN nodes = 1..n  OBVIOUS
<1>2. \A k \in 1..n : AddShown(words, nodes[k]) = words
  BY Zenon, <1>1 DEF NoTexts, AddShown
<1>3. f[0] = words /\ f[n] = words /\ \A k \in 1..n : f[k] = words /\ f[k - 1] = words
  BY <1>1
<1> HIDE DEF n, f
<1>4. \A k \in 1..n : f[k] = ShowNode(0, f[k - 1], nodes[k])
  BY Zenon, <1>2, <1>3 DEF ShowNode
<1>5. W!Follows(0, words, nodes, n, f)  BY Zenon, <1>3, <1>4 DEF W!Follows
<1> QED BY <1>1, <1>3, <1>5, W!FoldIs

LEMMA EndsAreNoTexts ==
  ASSUME NEW path, NEW n
  PROVE  NoTexts(Ends(path, n))
<1>1. \A tag : Closing(tag).op # "text"  BY DEF Closing
<1> QED BY Zenon, <1>1 DEF NoTexts, Ends

-----------------------------------------------------------------------------
(* The reader *)

Readers ==
  [doc : Seq(Node), path : Seq(Tags), listDepth : Seq(Int),
   decorationStatus : SUBSET Tags, decorationStack : Seq(Tags),
   header : BOOLEAN, sections : Int, rules : Seq(Node), thrown : BOOLEAN]

\* The ancestors of holder are the elements that are open, the rules to come are
\* whole, and each decoration that is on was opened.
Reader(s) ==
  /\ s \in Readers
  /\ OpenElements(s.doc) = s.path
  /\ OpenElements(s.rules) = <<>> /\ NoTexts(s.rules)
  /\ s.decorationStatus \subseteq Range(s.decorationStack)

\* What a reader that has not failed has read so far are these words.
Shows(s, words) == Reader(s) /\ (s.thrown \/ WordsShown(s.doc) = words)

LEMMA ReaderFields ==
  ASSUME NEW s, Reader(s)
  PROVE  /\ s.doc \in Seq(Node) /\ s.path \in Seq(Tags) /\ s.listDepth \in Seq(Int)
         /\ s.decorationStatus \in SUBSET Tags /\ s.decorationStack \in Seq(Tags)
         /\ s.header \in BOOLEAN /\ s.sections \in Int /\ s.rules \in Seq(Node)
         /\ s.thrown \in BOOLEAN
         /\ OpenElements(s.doc) = s.path
         /\ OpenElements(s.rules) = <<>> /\ NoTexts(s.rules)
         /\ s.decorationStatus \subseteq Range(s.decorationStack)
         /\ Len(s.path) \in Nat
<1> HIDE DEF Node
<1>1. s \in Readers  BY Zenon DEF Reader
<1>2. /\ s.doc \in Seq(Node) /\ s.path \in Seq(Tags) /\ s.listDepth \in Seq(Int)
      /\ s.decorationStatus \in SUBSET Tags /\ s.decorationStack \in Seq(Tags)
      /\ s.header \in BOOLEAN /\ s.sections \in Int /\ s.rules \in Seq(Node)
      /\ s.thrown \in BOOLEAN
  BY <1>1 DEF Readers
<1>3. Len(s.path) \in Nat  BY <1>2
<1> QED BY Zenon, <1>2, <1>3 DEF Reader

LEMMA StartShows == Shows(Start, <<>>) /\ Start.path = <<>> /\ ~Start.thrown
<1> HIDE DEF Node
<1>1. Start \in Readers  BY DEF Start, Readers
<1>2. /\ Start.doc = <<>> /\ Start.path = <<>> /\ Start.rules = <<>> /\ ~Start.thrown
      /\ Start.decorationStatus = {}
  BY DEF Start
<1>3. NoTexts(<<>>)  BY DEF NoTexts
<1> QED BY Zenon, <1>1, <1>2, <1>3, NoNodes DEF Reader, Shows

\* A token that is put into the document is shown if it is a word.
LEMMA PutShows ==
  ASSUME NEW s, NEW words, Shows(s, words), NEW token \in Tokens
  PROVE  /\ Shows(Put(s, token), AddWord(words, token))
         /\ Put(s, token).path = s.path
<1> HIDE DEF Node
<1> DEFINE t == Put(s, token)
           nodes == Append(s.doc, Text(token))
<1>1. Reader(s) /\ s.doc \in Seq(Node) /\ s.path = OpenElements(s.doc) /\ s \in Readers
  BY Zenon, ReaderFields DEF Shows, Reader
<1>2. Text(token) \in Node  BY Zenon, NodesAre
<1>3. /\ nodes \in Seq(Node) /\ OpenElements(nodes) = Enter(s.path, Text(token))
      /\ WordsShown(nodes) = AddShown(WordsShown(s.doc), Text(token))
  BY Zenon, <1>1, <1>2, OneNodeMore
<1>4. OpenElements(nodes) = s.path /\ WordsShown(nodes) = AddWord(WordsShown(s.doc), token)
  BY Zenon, <1>3, EnteringNodes, ShowingNodes
<1> HIDE DEF nodes
<1>5. /\ t \in Readers /\ t.doc = nodes /\ t.path = s.path /\ t.rules = s.rules
      /\ t.decorationStatus = s.decorationStatus /\ t.decorationStack = s.decorationStack
      /\ t.thrown = s.thrown
  BY <1>1, <1>3 DEF Put, Readers, nodes
<1> HIDE DEF t
<1> QED BY Zenon, <1>1, <1>4, <1>5 DEF Shows, Reader, t

LEMMA OpenShows ==
  ASSUME NEW s, NEW words, Shows(s, words), NEW tag \in Tags
  PROVE  /\ Shows(Open(s, tag), words)
         /\ Open(s, tag).path = Append(s.path, tag)
         /\ Open(s, tag).decorationStatus = s.decorationStatus
         /\ Open(s, tag).decorationStack = s.decorationStack
<1> HIDE DEF Node
<1> DEFINE t == Open(s, tag)
           nodes == Append(s.doc, Opening(tag))
           longer == Append(s.path, tag)
<1>1. /\ Reader(s) /\ s.doc \in Seq(Node) /\ s.path = OpenElements(s.doc)
      /\ s.path \in Seq(Tags) /\ s \in Readers
  BY Zenon, ReaderFields DEF Shows, Reader
<1>2. Opening(tag) \in Node  BY Zenon, NodesAre
<1>3. /\ nodes \in Seq(Node) /\ OpenElements(nodes) = Enter(s.path, Opening(tag))
      /\ WordsShown(nodes) = AddShown(WordsShown(s.doc), Opening(tag))
  BY Zenon, <1>1, <1>2, OneNodeMore
<1>4. OpenElements(nodes) = longer /\ WordsShown(nodes) = WordsShown(s.doc)
  BY Zenon, <1>3, EnteringNodes, ShowingNodes
<1>5. longer \in Seq(Tags)  BY <1>1
<1> HIDE DEF nodes, longer
<1>6. /\ t \in Readers /\ t.doc = nodes /\ t.path = longer /\ t.rules = s.rules
      /\ t.decorationStatus = s.decorationStatus /\ t.decorationStack = s.decorationStack
      /\ t.thrown = s.thrown
  BY <1>1, <1>3, <1>5 DEF Open, Readers, nodes, longer
<1> HIDE DEF t
<1>7. Shows(t, words)  BY Zenon, <1>1, <1>4, <1>6 DEF Shows, Reader
<1> QED BY Zenon, <1>6, <1>7 DEF t, longer

\* It ends the elements below the n-th, and puts the rules behind the last section.
LEMMA HolderIsShows ==
  ASSUME NEW s, NEW words, Shows(s, words), NEW n \in Int, n =< Len(s.path)
  PROVE  /\ Shows(HolderIs(s, n), words)
         /\ n >= 0 => /\ Len(HolderIs(s, n).path) = n
                      /\ HolderIs(s, n).path = SubSeq(s.path, 1, n)
         /\ HolderIs(s, n).decorationStatus = s.decorationStatus
         /\ HolderIs(s, n).decorationStack = s.decorationStack
<1> HIDE DEF Node
<1> DEFINE t == HolderIs(s, n)
<1>0. /\ Reader(s) /\ s.doc \in Seq(Node) /\ s.path = OpenElements(s.doc)
      /\ s.path \in Seq(Tags) /\ s \in Readers
      /\ s.rules \in Seq(Node) /\ OpenElements(s.rules) = <<>> /\ NoTexts(s.rules)
  BY Zenon, ReaderFields DEF Shows, Reader
<1>1. CASE n < 0
  <2>1. t = [s EXCEPT !.thrown = TRUE]  BY <1>1 DEF HolderIs
  <2>2. /\ t \in Readers /\ t.doc = s.doc /\ t.path = s.path /\ t.rules = s.rules
        /\ t.decorationStatus = s.decorationStatus /\ t.decorationStack = s.decorationStack
        /\ t.thrown
    BY <1>0, <2>1 DEF Readers
  <2> HIDE DEF t
  <2>3. Shows(t, words)  BY Zenon, <1>0, <2>2 DEF Shows, Reader
  <2> QED BY <1>1, <2>2, <2>3 DEF t
<1>2. CASE n >= 0
  <2> DEFINE ends == Ends(s.path, n)
             ended == s.doc \o ends
             rules == IF n = 0 THEN s.rules ELSE <<>>
             nodes == ended \o rules
             shorter == SubSeq(s.path, 1, n)
             left == IF n = 0 THEN <<>> ELSE s.rules
  <2>1. n \in 0..Len(s.path)  BY <1>0, <1>2
  <2>2. /\ ends \in Seq(Node) /\ shorter \in Seq(Tags) /\ Len(shorter) = n
        /\ E!Fold(0, s.path, ends) = shorter
    BY Zenon, <1>0, <2>1, EndingElements
  <2>3. W!Fold(0, WordsShown(s.doc), ends) = WordsShown(s.doc)
    BY Zenon, <2>2, EndsAreNoTexts, NothingMoreShown
  <2> HIDE DEF ends
  <2>4. OpenElements(ended) = shorter /\ WordsShown(ended) = WordsShown(s.doc)
    BY Zenon, <1>0, <2>2, <2>3, OpenElementsJoined, WordsShownJoined
  <2>5. ended \in Seq(Node)  BY <1>0, <2>2
  <2> HIDE DEF ended
  <2>6. /\ nodes \in Seq(Node) /\ OpenElements(nodes) = shorter
        /\ WordsShown(nodes) = WordsShown(ended)
    <3>1. CASE n = 0
      <4>1. shorter = <<>>  BY <3>1
      <4>2. rules = s.rules /\ nodes \in Seq(Node)  BY <3>1, <2>5, <1>0
      <4> HIDE DEF rules, shorter
      <4>3. OpenElements(nodes) = E!Fold(0, <<>>, s.rules)
        BY Zenon, <4>1, <4>2, <2>4, <2>5, <1>0, OpenElementsJoined
      <4>4. WordsShown(nodes) = W!Fold(0, WordsShown(ended), s.rules)
        BY Zenon, <4>2, <2>5, <1>0, WordsShownJoined
      <4> QED
        BY Zenon, <4>1, <4>2, <4>3, <4>4, <1>0, OpenElementsIsFold, NothingMoreShown
    <3>2. CASE n # 0
      <4>1. nodes = ended  BY <3>2, <2>5
      <4> QED BY Zenon, <4>1, <2>4, <2>5
    <3> QED BY <3>1, <3>2
  <2>7. /\ left \in Seq(Node) /\ OpenElements(left) = <<>> /\ NoTexts(left)
    <3>1. <<>> \in Seq(Node) /\ DOMAIN <<>> = {}  OBVIOUS
    <3> QED BY Zenon, <1>0, <3>1, NoNodes DEF NoTexts
  <2> HIDE DEF shorter
  <2>8. t = [s EXCEPT !.doc = nodes, !.path = shorter, !.rules = left]
    <3>1. ~(n < 0)  BY <1>2
    <3> QED BY Zenon, <3>1 DEF HolderIs, Ends, ends, ended, shorter
  <2> HIDE DEF t, nodes, left
  <2>9. /\ t \in Readers /\ t.doc = nodes /\ t.path = shorter /\ t.rules = left
        /\ t.decorationStatus = s.decorationStatus /\ t.decorationStack = s.decorationStack
        /\ t.thrown = s.thrown
    BY <1>0, <2>2, <2>6, <2>7, <2>8 DEF Readers
  <2>10. Shows(t, words)
    BY Zenon, <1>0, <2>4, <2>6, <2>7, <2>9 DEF Shows, Reader
  <2> QED BY Zenon, <2>2, <2>9, <2>10 DEF t, shorter
<1> QED BY <1>1, <1>2

LEMMA FieldsShow ==
  ASSUME NEW s, NEW words, Shows(s, words), NEW t \in Readers,
         t.doc = s.doc, t.path = s.path, t.rules = s.rules,
         t.decorationStatus \subseteq Range(t.decorationStack), s.thrown => t.thrown
  PROVE  Shows(t, words)
BY Zenon DEF Shows, Reader

LEMMA OtherFieldsShow ==
  ASSUME NEW s, NEW words, Shows(s, words)
  PROVE  /\ Shows([s EXCEPT !.thrown = TRUE], words)
         /\ \A depths \in Seq(Int) :
              /\ Shows([s EXCEPT !.listDepth = depths], words)
              /\ [s EXCEPT !.listDepth = depths].path = s.path
         /\ \A header \in BOOLEAN : Shows([s EXCEPT !.header = header], words)
         /\ \A sections \in Int : Shows([s EXCEPT !.sections = sections], words)
<1> HIDE DEF Node
<1>1. /\ s \in Readers /\ s.decorationStatus \subseteq Range(s.decorationStack)
  BY Zenon, ReaderFields DEF Shows, Reader
<1>2. Shows([s EXCEPT !.thrown = TRUE], words)
  <2> DEFINE t == [s EXCEPT !.thrown = TRUE]
  <2>1. /\ t \in Readers /\ t.doc = s.doc /\ t.path = s.path /\ t.rules = s.rules
        /\ t.decorationStatus = s.decorationStatus /\ t.decorationStack = s.decorationStack
        /\ t.thrown
    BY <1>1 DEF Readers
  <2> HIDE DEF t
  <2>2. Shows(t, words)  BY Zenon, <1>1, <2>1, FieldsShow
  <2> QED BY Zenon, <2>2 DEF t
<1>3. ASSUME NEW depths \in Seq(Int)
      PROVE  /\ Shows([s EXCEPT !.listDepth = depths], words)
             /\ [s EXCEPT !.listDepth = depths].path = s.path
  <2> DEFINE t == [s EXCEPT !.listDepth = depths]
  <2>1. /\ t \in Readers /\ t.doc = s.doc /\ t.path = s.path /\ t.rules = s.rules
        /\ t.decorationStatus = s.decorationStatus /\ t.decorationStack = s.decorationStack
        /\ t.thrown = s.thrown
    BY <1>1 DEF Readers
  <2> HIDE DEF t
  <2>2. Shows(t, words)  BY Zenon, <1>1, <2>1, FieldsShow
  <2> QED BY Zenon, <2>1, <2>2 DEF t
<1>4. ASSUME NEW header \in BOOLEAN
      PROVE  Shows([s EXCEPT !.header = header], words)
  <2> DEFINE t == [s EXCEPT !.header = header]
  <2>1. /\ t \in Readers /\ t.doc = s.doc /\ t.path = s.path /\ t.rules = s.rules
        /\ t.decorationStatus = s.decorationStatus /\ t.decorationStack = s.decorationStack
        /\ t.thrown = s.thrown
    BY <1>1 DEF Readers
  <2> HIDE DEF t
  <2>2. Shows(t, words)  BY Zenon, <1>1, <2>1, FieldsShow
  <2> QED BY Zenon, <2>2 DEF t
<1>5. ASSUME NEW sections \in Int
      PROVE  Shows([s EXCEPT !.sections = sections], words)
  <2> DEFINE t == [s EXCEPT !.sections = sections]
  <2>1. /\ t \in Readers /\ t.doc = s.doc /\ t.path = s.path /\ t.rules = s.rules
        /\ t.decorationStatus = s.decorationStatus /\ t.decorationStack = s.decorationStack
        /\ t.thrown = s.thrown
    BY <1>1 DEF Readers
  <2> HIDE DEF t
  <2>2. Shows(t, words)  BY Zenon, <1>1, <2>1, FieldsShow
  <2> QED BY Zenon, <2>2 DEF t
<1> QED BY Zenon, <1>2, <1>3, <1>4, <1>5

\* The decorations that are on, and those that were opened.
LEMMA DecorationsShow ==
  ASSUME NEW s, NEW words, Shows(s, words), NEW status \in SUBSET Tags,
         NEW stack \in Seq(Tags), status \subseteq Range(stack)
  PROVE  Shows([s EXCEPT !.decorationStatus = status, !.decorationStack = stack], words)
<1> HIDE DEF Node
<1> DEFINE t == [s EXCEPT !.decorationStatus = status, !.decorationStack = stack]
<1>1. s \in Readers  BY Zenon DEF Shows, Reader
<1>2. /\ t \in Readers /\ t.doc = s.doc /\ t.path = s.path /\ t.rules = s.rules
      /\ t.decorationStatus = status /\ t.decorationStack = stack
      /\ t.thrown = s.thrown
  BY <1>1 DEF Readers
<1> HIDE DEF t
<1>3. Shows(t, words)  BY Zenon, <1>2, FieldsShow
<1> QED BY Zenon, <1>3 DEF t

\* The last of some ancestors, or none.
LEMMA LastOfAncestors ==
  ASSUME NEW s, Reader(s), NEW those \in SUBSET DOMAIN s.path
  PROVE  Max({0} \cup those) \in 0..Len(s.path)
<1> DEFINE n == Len(s.path)
           all == {0} \cup those
<1>1. n \in Nat /\ DOMAIN s.path = 1..n
  <2>1. s.path \in Seq(Tags)  BY Zenon, ReaderFields
  <2> QED BY <2>1
<1> HIDE DEF n
<1>2. all \in SUBSET (0..n) /\ all # {}  BY <1>1
<1> HIDE DEF all
<1>3. E!Max(all) \in all  BY Zenon, <1>1, <1>2, E!MaxOfBounded
<1> QED BY Zenon, <1>2, <1>3 DEF Max, E!Max, all, n

LEMMA AncestorIs ==
  ASSUME NEW s, Reader(s), NEW tag
  PROVE  Ancestor(s, tag) \in 0..Len(s.path) /\ Len(s.path) \in Nat
<1> DEFINE those == {k \in DOMAIN s.path :
                       s.path[k] = tag /\ \A i \in (k + 1)..Len(s.path) : s.path[i] # "div"}
<1>1. those \in SUBSET DOMAIN s.path  OBVIOUS
<1>2. Ancestor(s, tag) = Max({0} \cup those)  BY Zenon DEF Ancestor
<1> HIDE DEF those
<1> QED BY Zenon, <1>1, <1>2, LastOfAncestors, ReaderFields

LEMMA LastBlockIs ==
  ASSUME NEW s, Reader(s), NEW stopTag
  PROVE  LastBlock(s, stopTag) \in 0..Len(s.path) /\ Len(s.path) \in Nat
<1> DEFINE those == {k \in DOMAIN s.path :
                       s.path[k] \in {stopTag, "div", "p", "li", "ul", "ol", "pre"}}
<1>1. those \in SUBSET DOMAIN s.path  OBVIOUS
<1>2. LastBlock(s, stopTag) = Max({0} \cup those)  BY Zenon DEF LastBlock
<1> HIDE DEF those
<1> QED BY Zenon, <1>1, <1>2, LastOfAncestors, ReaderFields

-----------------------------------------------------------------------------
(* Blocks *)

LEMMA NotWords ==
  ASSUME NEW words, NEW token \in Markup
  PROVE  AddWord(words, token) = words
BY Zenon DEF AddWord, IsWord

LEMMA AppendBogusLineBreakShows ==
  ASSUME NEW s, NEW words, Shows(s, words)
  PROVE  Shows(AppendBogusLineBreak(s), words) /\ AppendBogusLineBreak(s).path = s.path
<1>1. BR \in Tokens /\ AddWord(words, BR) = words
  BY Zenon, LiteralTokens, NotWords
<1> QED BY Zenon, <1>1, PutShows DEF AppendBogusLineBreak

LEMMA OpenParagraphShows ==
  ASSUME NEW s, NEW words, Shows(s, words)
  PROVE  Shows(OpenParagraph(s), words)
<1>1. "p" \in Tags  BY Zenon, LiteralTags
<1> QED BY Zenon, <1>1, OpenShows DEF OpenParagraph

LEMMA CloseBlockShows ==
  ASSUME NEW s, NEW words, Shows(s, words), NEW k \in 0..Len(s.path), NEW n \in Int, n =< k
  PROVE  Shows(CloseBlock(s, k, n), words)
<1> DEFINE ended == HolderIs(s, k)
           broken == AppendBogusLineBreak(ended)
<1>1. Len(s.path) \in Nat  BY Zenon, ReaderFields DEF Shows
<1>2. k \in Int /\ k >= 0 /\ k =< Len(s.path)  BY <1>1
<1>3. Shows(ended, words) /\ Len(ended.path) = k  BY Zenon, <1>2, HolderIsShows
<1> HIDE DEF ended
<1>4. Shows(broken, words) /\ broken.path = ended.path
  BY Zenon, <1>3, AppendBogusLineBreakShows
<1> HIDE DEF broken
<1>5. Shows(HolderIs(broken, n), words)  BY Zenon, <1>3, <1>4, HolderIsShows
<1> QED BY Zenon, <1>5 DEF CloseBlock, broken, ended

\* Ends an ancestor, or some above it.
LEMMA EndingAncestors ==
  ASSUME NEW s, NEW words, Shows(s, words), NEW tag, NEW d \in Nat
  PROVE  /\ Shows(CloseBlock(s, Ancestor(s, tag), Ancestor(s, tag) - d), words)
         /\ Shows(HolderIs(s, Ancestor(s, tag) - d), words)
         /\ Shows(HolderIs(s, Len(s.path) - d), words)
<1> DEFINE k == Ancestor(s, tag)
<1>1. k \in 0..Len(s.path) /\ Len(s.path) \in Nat
  BY Zenon, AncestorIs DEF Shows
<1> HIDE DEF k
<1>2. /\ k - d \in Int /\ k - d =< k /\ k - d =< Len(s.path)
      /\ Len(s.path) - d \in Int /\ Len(s.path) - d =< Len(s.path)
  BY <1>1
<1>3. Shows(CloseBlock(s, k, k - d), words)
  BY Zenon, <1>1, <1>2, CloseBlockShows
<1>4. Shows(HolderIs(s, k - d), words) /\ Shows(HolderIs(s, Len(s.path) - d), words)
  BY Zenon, <1>2, HolderIsShows
<1> QED BY Zenon, <1>3, <1>4 DEF k

LEMMA CloseParagraphShows ==
  ASSUME NEW s, NEW words, Shows(s, words)
  PROVE  Shows(CloseParagraph(s), words)
BY Zenon, EndingAncestors, 1 \in Nat DEF CloseParagraph

LEMMA CloseListShows ==
  ASSUME NEW s, NEW words, Shows(s, words)
  PROVE  Shows(CloseList(s), words)
<1> DEFINE t == IF In(s, "li") THEN CloseBlock(s, Ancestor(s, "li"), Ancestor(s, "li") - 2)
                ELSE HolderIs(s, Len(s.path) - 1)
           depths == IF t.listDepth = <<>> THEN t.listDepth ELSE Front(t.listDepth)
<1>1. Shows(t, words)  BY Zenon, EndingAncestors, 1 \in Nat, 2 \in Nat
<1> HIDE DEF t
<1>2. depths \in Seq(Int)
  <2>1. t.listDepth \in Seq(Int)  BY Zenon, <1>1, ReaderFields DEF Shows
  <2> QED BY <2>1 DEF Front
<1> HIDE DEF depths
<1>3. Shows([t EXCEPT !.listDepth = depths], words)
  BY Zenon, <1>1, <1>2, OtherFieldsShow
<1> QED BY Zenon, <1>3 DEF CloseList, t, depths

LEMMA CloseLastBlockShows ==
  ASSUME NEW s, NEW words, Shows(s, words), NEW stopTag
  PROVE  /\ Shows(CloseLastBlock(s, stopTag), words)
         /\ Shows(HolderIsBlock(s, stopTag), words)
<1> DEFINE k == LastBlock(s, stopTag)
<1>1. k \in 0..Len(s.path) /\ Len(s.path) \in Nat
  BY Zenon, LastBlockIs DEF Shows
<1> HIDE DEF k
<1>2. k \in Int /\ k - 1 \in Int /\ k =< Len(s.path) /\ k - 1 =< Len(s.path)
  BY <1>1
<1>3. Shows(HolderIs(s, k), words) /\ Shows(HolderIs(s, k - 1), words)
  BY Zenon, <1>2, HolderIsShows
<1>4. Shows(CloseParagraph(s), words) /\ Shows(CloseList(s), words)
  BY Zenon, CloseParagraphShows, CloseListShows
<1>5. Shows(CloseBlockAt(s, k, stopTag), words)
  <2>1. CASE k = 0 \/ s.path[k] \in {stopTag, "div"}
    BY Zenon, <2>1 DEF CloseBlockAt
  <2>2. CASE ~(k = 0 \/ s.path[k] \in {stopTag, "div"})
    <3>1. CASE s.path[k] = "p"
      <4>1. s.path[k] # "pre"  BY <3>1
      <4> QED BY Zenon, <2>2, <3>1, <4>1, <1>4 DEF CloseBlockAt
    <3>2. CASE s.path[k] = "pre"
      <4>1. s.path[k] # "p"  BY <3>2
      <4> QED BY Zenon, <2>2, <3>2, <4>1, <1>3 DEF CloseBlockAt
    <3>3. CASE s.path[k] # "p" /\ s.path[k] # "pre"
      BY Zenon, <2>2, <3>3, <1>4 DEF CloseBlockAt
    <3> QED BY Zenon, <3>1, <3>2, <3>3
  <2> QED BY Zenon, <2>1, <2>2
<1> QED BY Zenon, <1>3, <1>5 DEF CloseLastBlock, HolderIsBlock, k

\* What is given to a fold: the words that were read, and what the loop is about.
CloseNext(given, s, tag) == CloseLastBlock(s, given[2])
CloseDeeper(given, s, d) == IF IsDeeper(s, given[2]) THEN CloseList(s) ELSE s
ShowsFirst(given, k, s) == Shows(s, given[1])

C == INSTANCE Folding WITH Op <- CloseNext, Inv <- ShowsFirst
D == INSTANCE Folding WITH Op <- CloseDeeper, Inv <- ShowsFirst

LEMMA CloseToFragmentIsFold ==
  ASSUME NEW given, NEW s
  PROVE  CloseToFragment(s, given[2]) = HolderIsBlock(C!Fold(given, s, s.path), given[2])
BY Zenon DEF CloseToFragment, C!Fold, CloseNext, FoldLeft, MapThenFoldSet,
             C!MapThenFoldSet, Max, C!Max

LEMMA CloseDeeperListsIsFold ==
  ASSUME NEW given, NEW s
  PROVE  CloseDeeperLists(s, given[2]) = D!Fold(given, s, s.listDepth)
BY Zenon DEF CloseDeeperLists, D!Fold, CloseDeeper, FoldLeft, MapThenFoldSet,
             D!MapThenFoldSet, Max, D!Max

LEMMA Pair ==
  ASSUME NEW a, NEW b
  PROVE  \E given : given[1] = a /\ given[2] = b
<1>1. <<a, b>>[1] = a /\ <<a, b>>[2] = b  OBVIOUS
<1> QED BY Zenon, <1>1

LEMMA CloseToFragmentShows ==
  ASSUME NEW s, NEW words, Shows(s, words), NEW stopTag
  PROVE  Shows(CloseToFragment(s, stopTag), words)
<1>1. PICK given : given[1] = words /\ given[2] = stopTag  BY Zenon, Pair
<1> DEFINE n == Len(s.path)
           closed == C!Fold(given, s, s.path)
<1>2. n \in Nat /\ DOMAIN s.path = 1..n
  <2>1. s.path \in Seq(Tags)  BY Zenon, ReaderFields DEF Shows
  <2> QED BY <2>1
<1> HIDE DEF n
<1>3. ShowsFirst(given, 0, s)  BY Zenon, <1>1 DEF ShowsFirst
<1>4. C!Preserves(given, s.path, n)
  BY Zenon, <1>1, CloseLastBlockShows DEF C!Preserves, ShowsFirst, CloseNext
<1>5. ShowsFirst(given, n, closed)  BY <1>2, <1>3, <1>4, C!FoldKeeps
<1> HIDE DEF closed
<1>6. Shows(HolderIsBlock(closed, stopTag), words)
  BY Zenon, <1>1, <1>5, CloseLastBlockShows DEF ShowsFirst
<1> QED BY Zenon, <1>1, <1>6, CloseToFragmentIsFold DEF closed

LEMMA CloseDeeperListsShows ==
  ASSUME NEW s, NEW words, Shows(s, words), NEW depth
  PROVE  Shows(CloseDeeperLists(s, depth), words)
<1>1. PICK given : given[1] = words /\ given[2] = depth  BY Zenon, Pair
<1> DEFINE n == Len(s.listDepth)
           closed == D!Fold(given, s, s.listDepth)
<1>2. n \in Nat /\ DOMAIN s.listDepth = 1..n
  <2>1. s.listDepth \in Seq(Int)  BY Zenon, ReaderFields DEF Shows
  <2> QED BY <2>1
<1> HIDE DEF n
<1>3. ShowsFirst(given, 0, s)  BY Zenon, <1>1 DEF ShowsFirst
<1>4. D!Preserves(given, s.listDepth, n)
  BY Zenon, <1>1, CloseListShows DEF D!Preserves, ShowsFirst, CloseDeeper
<1>5. ShowsFirst(given, n, closed)  BY <1>2, <1>3, <1>4, D!FoldKeeps
<1> QED BY Zenon, <1>1, <1>5, CloseDeeperListsIsFold DEF ShowsFirst

-----------------------------------------------------------------------------
(* Decorations *)

OpenNext(given, s, tag) == Open(s, tag)
InlineNext(given, s, name) == HandleInline(s, name)
ShowsGiven(given, k, s) == Shows(s, given)

O == INSTANCE Folding WITH Op <- OpenNext, Inv <- ShowsGiven
I == INSTANCE Folding WITH Op <- InlineNext, Inv <- ShowsGiven

LEMMA HandleOpenInlineCodeShows ==
  ASSUME NEW s, NEW words, Shows(s, words), NEW name \in Tags
  PROVE  Shows(HandleOpenInlineCode(s, name), words)
<1> DEFINE in == Open(IF s.path = <<>> THEN OpenParagraph(s) ELSE s, name)
           status == in.decorationStatus \cup {name}
           stack == Append(in.decorationStack, name)
<1>1. Shows(in, words)  BY Zenon, OpenParagraphShows, OpenShows
<1> HIDE DEF in
<1>2. /\ in.decorationStatus \in SUBSET Tags /\ in.decorationStack \in Seq(Tags)
      /\ in.decorationStatus \subseteq Range(in.decorationStack)
  BY Zenon, <1>1, ReaderFields DEF Shows
<1>3. status \in SUBSET Tags /\ stack \in Seq(Tags)  BY <1>2
<1>4. status \subseteq Range(stack)
  <2>1. /\ DOMAIN in.decorationStack \subseteq DOMAIN stack
        /\ \A k \in DOMAIN in.decorationStack : stack[k] = in.decorationStack[k]
        /\ \E k \in DOMAIN stack : stack[k] = name
    <3>1. Len(in.decorationStack) + 1 \in DOMAIN stack /\ stack[Len(in.decorationStack) + 1] = name
      BY <1>2
    <3> QED BY <1>2, <3>1
  <2> HIDE DEF stack
  <2> QED BY Zenon, <1>2, <2>1 DEF Range
<1> HIDE DEF status, stack
<1>5. Shows([in EXCEPT !.decorationStatus = status, !.decorationStack = stack], words)
  BY Zenon, <1>1, <1>3, <1>4, DecorationsShow
<1> QED BY Zenon, <1>5 DEF HandleOpenInlineCode, in, status, stack

\* The decorations that are left when one is closed.
LEMMA OneLess ==
  ASSUME NEW stack \in Seq(Tags), NEW index \in DOMAIN stack
  PROVE  /\ RemoveAt(stack, index) \in Seq(Tags)
         /\ Range(stack) \ {stack[index]} \subseteq Range(RemoveAt(stack, index))
<1> DEFINE n == Len(stack)
           left == SubSeq(stack, 1, index - 1)
           right == SubSeq(stack, index + 1, n)
<1>1. n \in Nat /\ index \in 1..n /\ DOMAIN stack = 1..n  OBVIOUS
<1>2. /\ left \in Seq(Tags) /\ Len(left) = index - 1
      /\ \A k \in 1..(index - 1) : left[k] = stack[k]
  BY <1>1
<1>3. /\ right \in Seq(Tags) /\ Len(right) = n - index
      /\ \A k \in 1..(n - index) : right[k] = stack[index + k]
  BY <1>1
<1> HIDE DEF n, left, right
<1>4. /\ left \o right \in Seq(Tags) /\ DOMAIN (left \o right) = 1..(n - 1)
      /\ \A k \in 1..(index - 1) : (left \o right)[k] = left[k]
      /\ \A k \in 1..(n - index) : (left \o right)[(index - 1) + k] = right[k]
  <2> DEFINE both == left \o right
             a == Len(left)
             b == Len(right)
  <2>1. /\ both \in Seq(Tags) /\ DOMAIN both = 1..(a + b)
        /\ \A k \in 1..a : both[k] = left[k]
        /\ \A k \in 1..b : both[a + k] = right[k]
    <3> HIDE DEF both, a, b
    <3>1. left \in Seq(Tags) /\ right \in Seq(Tags)  BY <1>2, <1>3
    <3> QED BY <3>1, Joined DEF both, a, b
  <2>2. a = index - 1 /\ b = n - index /\ a + b = n - 1  BY <1>1, <1>2, <1>3
  <2> HIDE DEF both, a, b
  <2>3. /\ both \in Seq(Tags) /\ DOMAIN both = 1..(n - 1)
        /\ \A k \in 1..(index - 1) : both[k] = left[k]
        /\ \A k \in 1..(n - index) : both[(index - 1) + k] = right[k]
    BY Zenon, <2>1, <2>2
  <2> QED BY Zenon, <2>3 DEF both
<1>5. ASSUME NEW k \in 1..n, k # index
      PROVE  \E j \in 1..(n - 1) : (left \o right)[j] = stack[k]
  <2>1. CASE k < index
    <3>1. k \in 1..(index - 1) /\ k \in 1..(n - 1)  BY <1>1, <2>1
    <3> QED BY <1>2, <1>4, <3>1
  <2>2. CASE k > index
    <3> DEFINE d == k - index
    <3>1. /\ d \in 1..(n - index) /\ (index - 1) + d \in 1..(n - 1)
          /\ index + d = k
      BY <1>1, <2>2
    <3>2. (left \o right)[(index - 1) + d] = stack[k]  BY <1>3, <1>4, <3>1
    <3> QED BY <3>1, <3>2
  <2>3. k < index \/ k > index  BY <1>1, <1>5
  <2> QED BY Zenon, <2>1, <2>2, <2>3
<1>6. RemoveAt(stack, index) = left \o right
  BY Zenon DEF RemoveAt, left, right, n
<1>7. Range(stack) \ {stack[index]} \subseteq Range(left \o right)
  <2> DEFINE both == left \o right
  <2>1. DOMAIN both = 1..(n - 1)  BY Zenon, <1>4
  <2>2. \A k \in 1..n : k # index => \E j \in DOMAIN both : both[j] = stack[k]
    BY Zenon, <1>5, <2>1
  <2> HIDE DEF both
  <2>3. Range(stack) \ {stack[index]} \subseteq Range(both)
    BY Zenon, <1>1, <2>2 DEF Range
  <2> QED BY Zenon, <2>3 DEF both
<1> QED BY Zenon, <1>4, <1>6, <1>7

LEMMA OpeningElements ==
  ASSUME NEW s, NEW words, Shows(s, words), NEW tags \in Seq(Tags)
  PROVE  Shows(FoldLeft(Open, s, tags), words)
<1>1. FoldLeft(Open, s, tags) = O!Fold(words, s, tags)
  BY Zenon DEF O!Fold, OpenNext, FoldLeft, MapThenFoldSet, O!MapThenFoldSet, Max, O!Max
<1> DEFINE n == Len(tags)
<1>2. n \in Nat /\ DOMAIN tags = 1..n /\ \A k \in 1..n : tags[k] \in Tags
  OBVIOUS
<1> HIDE DEF n
<1>3. ShowsGiven(words, 0, s)  BY Zenon DEF ShowsGiven
<1>4. O!Preserves(words, tags, n)
  BY Zenon, <1>2, OpenShows DEF O!Preserves, ShowsGiven, OpenNext
<1>5. ShowsGiven(words, n, O!Fold(words, s, tags))
  BY <1>2, <1>3, <1>4, O!FoldKeeps
<1> QED BY Zenon, <1>1, <1>5 DEF ShowsGiven

LEMMA CloseDecorationShows ==
  ASSUME NEW s, NEW words, Shows(s, words), NEW index \in DOMAIN s.decorationStack,
         NEW n \in Int, n < Len(s.path)
  PROVE  Shows(CloseDecoration(s, index, n), words)
<1> DEFINE ended == HolderIs(s, n)
           tags == SubSeq(s.path, n + 2, Len(s.path))
           status == ended.decorationStatus \ {s.decorationStack[index]}
           stack == RemoveAt(ended.decorationStack, index)
           undecorated == [ended EXCEPT !.decorationStatus = status, !.decorationStack = stack]
<1>1. /\ s.path \in Seq(Tags) /\ Len(s.path) \in Nat
      /\ s.decorationStatus \in SUBSET Tags /\ s.decorationStack \in Seq(Tags)
      /\ s.decorationStatus \subseteq Range(s.decorationStack)
  BY Zenon, ReaderFields DEF Shows
<1>2. n =< Len(s.path)  BY <1>1
<1>3. /\ Shows(ended, words) /\ ended.decorationStatus = s.decorationStatus
      /\ ended.decorationStack = s.decorationStack
  BY Zenon, <1>2, HolderIsShows
<1> HIDE DEF ended
<1>4. CASE n < 0  BY Zenon, <1>3, <1>4 DEF CloseDecoration, ended
<1>5. CASE ~(n < 0)
  <2>1. tags \in Seq(Tags)
    <3>1. n + 2 >= 1  BY <1>5
    <3> QED BY <1>1, <1>5, <3>1
  <2>2. stack \in Seq(Tags) /\ status \in SUBSET Tags /\ status \subseteq Range(stack)
    BY Zenon, <1>1, <1>3, OneLess
  <2> HIDE DEF stack, status, tags
  <2>3. Shows(undecorated, words)  BY Zenon, <1>3, <2>2, DecorationsShow
  <2> HIDE DEF undecorated
  <2>4. Shows(FoldLeft(Open, undecorated, tags), words)
    BY Zenon, <2>1, <2>3, OpeningElements
  <2>5. CloseDecoration(s, index, n) = FoldLeft(Open, undecorated, tags)
    BY Zenon, <1>5 DEF CloseDecoration, undecorated, status, stack, tags, ended
  <2> QED BY Zenon, <2>4, <2>5
<1> QED BY Zenon, <1>4, <1>5

LEMMA HandleInlineShows ==
  ASSUME NEW s, NEW words, Shows(s, words), NEW name \in Tags
  PROVE  Shows(HandleInline(s, name), words)
<1>1. CASE name \notin s.decorationStatus
  BY Zenon, <1>1, HandleOpenInlineCodeShows DEF HandleInline
<1>2. CASE name \in s.decorationStatus
  <2> DEFINE stack == s.decorationStack
             those == {k \in DOMAIN stack : stack[k] = name}
             index == Max(those)
             n == Len(s.path) - (Len(stack) - index + 1)
  <2>1. /\ stack \in Seq(Tags) /\ Len(s.path) \in Nat
        /\ s.decorationStatus \subseteq Range(stack)
    BY Zenon, ReaderFields DEF Shows
  <2>2. Len(stack) \in Nat /\ DOMAIN stack = 1..Len(stack)  BY <2>1
  <2>3. those # {}  BY Zenon, <1>2, <2>1 DEF Range
  <2>4. those \in SUBSET (0..Len(stack))  BY <2>2
  <2> HIDE DEF those
  <2>5. E!Max(those) \in those  BY Zenon, <2>2, <2>3, <2>4, E!MaxOfBounded
  <2>6. index \in DOMAIN stack  BY Zenon, <2>5 DEF Max, E!Max, those
  <2> HIDE DEF index, stack
  <2>7. n \in Int /\ n < Len(s.path)  BY <2>1, <2>2, <2>6
  <2> HIDE DEF n
  <2>8. Shows(CloseDecoration(s, index, n), words)
    BY Zenon, <2>6, <2>7, CloseDecorationShows DEF stack
  <2> QED
    BY Zenon, <1>2, <2>8
       DEF HandleInline, HandleCloseInlineCode, CloseDecorationAt, index, those, n, stack
<1> QED BY Zenon, <1>1, <1>2

LEMMA DecorationsAre ==
  ASSUME NEW s, NEW token
  PROVE  DecorationsOf(s, token) \in Seq(Tags)
<1>1. \A a, b \in Tags : <<a>> \in Seq(Tags) /\ <<a, b>> \in Seq(Tags)  OBVIOUS
<1>2. "b" \in Tags /\ "i" \in Tags /\ "strike" \in Tags  BY Zenon, LiteralTags
<1>3. /\ <<"b">> \in Seq(Tags) /\ <<"i">> \in Seq(Tags) /\ <<"strike">> \in Seq(Tags)
      /\ <<"i", "b">> \in Seq(Tags) /\ <<"b", "i">> \in Seq(Tags)
  BY Zenon, <1>1, <1>2
<1> QED BY Zenon, <1>3 DEF DecorationsOf

LEMMA HandleQuotesShows ==
  ASSUME NEW s, NEW words, Shows(s, words), NEW token
  PROVE  Shows(HandleQuotes(s, token), words)
<1> DEFINE names == DecorationsOf(s, token)
           n == Len(names)
<1>1. FoldLeft(HandleInline, s, names) = I!Fold(words, s, names)
  BY Zenon DEF I!Fold, InlineNext, FoldLeft, MapThenFoldSet, I!MapThenFoldSet, Max, I!Max
<1>2. n \in Nat /\ DOMAIN names = 1..n /\ \A k \in 1..n : names[k] \in Tags
  BY DecorationsAre
<1> HIDE DEF n, names
<1>3. ShowsGiven(words, 0, s)  BY Zenon DEF ShowsGiven
<1>4. I!Preserves(words, names, n)
  BY Zenon, <1>2, HandleInlineShows DEF I!Preserves, ShowsGiven, InlineNext
<1>5. ShowsGiven(words, n, I!Fold(words, s, names))
  BY <1>2, <1>3, <1>4, I!FoldKeeps
<1> QED BY Zenon, <1>1, <1>5 DEF ShowsGiven, HandleQuotes, names

-----------------------------------------------------------------------------
(* Lists *)

LEMMA MarkersAre ==
  ASSUME NEW token, IsMarker(token)
  PROVE  ListTag(token) \in Tags /\ Depth(token) \in Int
<1>1. ListTag(token) \in {"ul", "ol"} /\ token \in Range(Markers[ListTag(token)])
  BY Zenon DEF IsMarker, ListTag
<1>2. \A tag \in {"ul", "ol"} : DOMAIN Markers[tag] = 1..2  BY DEF Markers
<1>3. \E k \in 1..2 : Markers[ListTag(token)][k] = token
  BY Zenon, <1>1, <1>2 DEF Range
<1>4. Depth(token) \in 1..2  BY Zenon, <1>3 DEF Depth
<1>5. Depth(token) \in Int  BY <1>4
<1> QED BY Zenon, <1>1, <1>5, LiteralTags

LEMMA OpenListShows ==
  ASSUME NEW s, NEW words, Shows(s, words), NEW tag \in Tags, NEW depth \in Int
  PROVE  Shows(OpenList(s, tag, depth), words)
<1> DEFINE t == Open(Open(IF In(s, "li") THEN HolderIs(s, Ancestor(s, "li") - 1) ELSE s, tag), "li")
           depths == Append(t.listDepth, depth)
<1>1. Shows(t, words)
  BY Zenon, EndingAncestors, OpenShows, LiteralTags, 1 \in Nat
<1> HIDE DEF t
<1>2. depths \in Seq(Int)
  <2>1. t.listDepth \in Seq(Int)  BY Zenon, <1>1, ReaderFields DEF Shows
  <2> QED BY <2>1
<1> HIDE DEF depths
<1>3. Shows([t EXCEPT !.listDepth = depths], words)
  BY Zenon, <1>1, <1>2, OtherFieldsShow
<1> QED BY Zenon, <1>3 DEF OpenList, t, depths

LEMMA SameListShows ==
  ASSUME NEW s, NEW words, Shows(s, words), NEW depth \in Int
  PROVE  Shows(SameList(s, depth), words)
<1>1. Shows(CloseItem(s, depth), words)
  BY Zenon, CloseDeeperListsShows, EndingAncestors, OtherFieldsShow, 1 \in Nat DEF CloseItem
<1> DEFINE t == Open(CloseItem(s, depth), "li")
           depths == Append(Front(t.listDepth), depth)
<1>2. Shows(t, words)  BY Zenon, <1>1, OpenShows, LiteralTags
<1> HIDE DEF t
<1>3. depths \in Seq(Int)
  <2>1. t.listDepth \in Seq(Int)  BY Zenon, <1>2, ReaderFields DEF Shows
  <2>2. Front(t.listDepth) \in Seq(Int)  BY <2>1 DEF Front
  <2> QED BY <2>2
<1> HIDE DEF depths
<1>4. Shows([t EXCEPT !.listDepth = depths], words)
  BY Zenon, <1>2, <1>3, OtherFieldsShow
<1> QED BY Zenon, <1>4 DEF SameList, t, depths

LEMMA HandleListShows ==
  ASSUME NEW s, NEW words, Shows(s, words), NEW token, IsMarker(token)
  PROVE  Shows(HandleList(s, token), words)
BY Zenon, MarkersAre, CloseToFragmentShows, OpenListShows, SameListShows DEF HandleList

-----------------------------------------------------------------------------
(* Tokens *)

LEMMA MakeRoomShows ==
  ASSUME NEW s, NEW words, Shows(s, words), NEW begins
  PROVE  Shows(MakeRoom(s, begins), words)
BY Zenon, OpenParagraphShows, CloseToFragmentShows DEF MakeRoom, OpenParagraphIfNeeded

\* Tokens that are no words add nothing to what is shown.
LEMMA MarkupShows ==
  ASSUME NEW s, NEW words, Shows(s, words), NEW token \in Markup
  PROVE  Shows(s, AddWord(words, token))
BY Zenon, NotWords

LEMMA HandleTextShows ==
  ASSUME NEW s, NEW words, Shows(s, words), NEW word \in Tokens, NEW begins
  PROVE  Shows(HandleText(s, word, begins), AddWord(words, word))
<1> DEFINE t == IF begins /\ In(s, "p") /\ Last(s.doc).op # "open" /\ Last(s.doc) # Text(BR)
                THEN Put(s, BR) ELSE s
<1>1. BR \in Tokens /\ AddWord(words, BR) = words
  BY Zenon, LiteralTokens, NotWords
<1>2. Shows(t, words)  BY Zenon, <1>1, PutShows
<1> HIDE DEF t
<1>3. Shows(Put(MakeRoom(t, begins), word), AddWord(words, word))
  BY Zenon, <1>2, MakeRoomShows, PutShows
<1> QED BY Zenon, <1>3 DEF HandleText, t

LEMMA InlineTokens ==
  /\ {"!-", "-!", "{{{", "}}}", "[[", "]]"} \subseteq Markup
  /\ Inline \subseteq Tokens
<1>1. {"!-", "-!", "{{{", "}}}", "[[", "]]"} \subseteq Inline \ Names
  <2>1. {"!-", "-!", "{{{", "}}}", "[[", "]]"} \subseteq Inline
    BY Zenon DEF Inline
  <2>2. \A token \in {"!-", "-!", "{{{", "}}}", "[[", "]]"} : token \notin Names
    BY DEF Names
  <2> QED BY Zenon, <2>1, <2>2
<1> QED BY Zenon, <1>1, LiteralTokens

LEMMA HandleEscapedShows ==
  ASSUME NEW s, NEW words, Shows(s, words), NEW token \in Tokens
  PROVE  Shows(HandleEscaped(s, token), AddWord(words, token))
<1>1. ASSUME token \in {"!-", "-!"}
      PROVE  /\ Shows(Open(s, "tt"), AddWord(words, token))
             /\ Shows(HolderIs(s, Ancestor(s, "tt") - 1), AddWord(words, token))
  BY Zenon, <1>1, InlineTokens, MarkupShows, OpenShows, EndingAncestors, LiteralTags, 1 \in Nat
<1>2. Shows(Put(s, token), AddWord(words, token))  BY Zenon, PutShows
<1> QED BY Zenon, <1>1, <1>2 DEF HandleEscaped

LEMMA HandleCodeBlockShows ==
  ASSUME NEW s, NEW words, Shows(s, words), NEW token \in Tokens
  PROVE  Shows(HandleCodeBlock(s, token), AddWord(words, token))
<1>1. ASSUME token \in {"{{{", "}}}"}
      PROVE  /\ Shows(Open(s, "pre"), AddWord(words, token))
             /\ Shows(HolderIs(s, Ancestor(s, "pre") - 1), AddWord(words, token))
  BY Zenon, <1>1, InlineTokens, MarkupShows, OpenShows, EndingAncestors, LiteralTags, 1 \in Nat
<1>2. Shows(Put(s, token), AddWord(words, token))  BY Zenon, PutShows
<1> QED BY Zenon, <1>1, <1>2 DEF HandleCodeBlock

LEMMA HandleLinksShows ==
  ASSUME NEW s, NEW words, Shows(s, words), NEW token \in Tokens
  PROVE  Shows(HandleLinks(s, token), AddWord(words, token))
<1>1. ASSUME token \in {"[[", "]]"}
      PROVE  /\ Shows(Open(s, "link"), AddWord(words, token))
             /\ Shows(HolderIs(s, Ancestor(s, "link") - 1), AddWord(words, token))
  BY Zenon, <1>1, InlineTokens, MarkupShows, OpenShows, EndingAncestors, LiteralTags, 1 \in Nat
<1>2. Shows(Put(s, token), AddWord(words, token))  BY Zenon, PutShows
<1> QED BY Zenon, <1>1, <1>2 DEF HandleLinks

\* An element that is opened and ended again, with what was put into it.
LEMMA ElementShows ==
  ASSUME NEW s, Reader(s), NEW words, NEW tag \in Tags, NEW t, Shows(t, words),
         t.path = Append(s.path, tag)
  PROVE  Shows(HolderIs(t, Len(s.path)), words)
<1>1. s.path \in Seq(Tags)  BY Zenon, ReaderFields
<1>2. Len(s.path) \in Int /\ Len(s.path) =< Len(t.path)  BY <1>1
<1> QED BY Zenon, <1>2, HolderIsShows

LEMMA HandleWikiPageNameShows ==
  ASSUME NEW s, NEW words, Shows(s, words), NEW name \in Tokens
  PROVE  Shows(HandleWikiPageName(s, name), AddWord(words, name))
<1> DEFINE t == Put(Open(s, "a"), name)
<1>1. "a" \in Tags  BY Zenon, LiteralTags
<1>2. Shows(Open(s, "a"), words) /\ Open(s, "a").path = Append(s.path, "a")
  BY Zenon, <1>1, OpenShows
<1>3. Shows(t, AddWord(words, name)) /\ t.path = Append(s.path, "a")
  BY Zenon, <1>2, PutShows
<1> HIDE DEF t
<1>4. Shows(HolderIs(t, Len(s.path)), AddWord(words, name))
  BY Zenon, <1>1, <1>3, ElementShows DEF Shows
<1> QED BY Zenon, <1>4 DEF HandleWikiPageName, t

LEMMA PlainShows ==
  ASSUME NEW s, NEW words, Shows(s, words), NEW token \in Tokens
  PROVE  Shows(Plain(s, token), AddWord(words, token))
BY Zenon, OpenParagraphShows, PutShows DEF Plain

LEMMA HandleImageShows ==
  ASSUME NEW s, NEW words, Shows(s, words)
  PROVE  Shows(HandleImage(s), words)
<1> DEFINE t == OpenParagraph(s)
<1>1. "img" \in Tags /\ "!img" \in Tokens /\ AddWord(words, "!img") = words
  BY Zenon, LiteralTags, LiteralTokens, NotWords
<1>2. Shows(Plain(s, "!img"), words)  BY Zenon, <1>1, PlainShows
<1>3. Shows(t, words)  BY Zenon, OpenParagraphShows
<1> HIDE DEF t
<1>4. Shows(Open(t, "img"), words) /\ Open(t, "img").path = Append(t.path, "img")
  BY Zenon, <1>1, <1>3, OpenShows
<1>5. Shows(HolderIs(Open(t, "img"), Len(t.path)), words)
  BY Zenon, <1>1, <1>3, <1>4, ElementShows DEF Shows
<1> QED BY Zenon, <1>2, <1>5 DEF HandleImage, t

LEMMA HandleInlineRuleShows ==
  ASSUME NEW s, NEW words, Shows(s, words), NEW token \in Inline
  PROVE  Shows(HandleInlineRule(s, token), AddWord(words, token))
<1>1. token \in Tokens  BY Zenon, InlineTokens
<1>2. /\ Shows(Put(s, token), AddWord(words, token))
      /\ Shows(HandleEscaped(s, token), AddWord(words, token))
      /\ Shows(HandleCodeBlock(s, token), AddWord(words, token))
      /\ Shows(HandleWikiPageName(s, token), AddWord(words, token))
      /\ Shows(HandleLinks(s, token), AddWord(words, token))
      /\ Shows(HandleVariable(s, token), AddWord(words, token))
  BY Zenon, <1>1, PutShows, HandleEscapedShows, HandleCodeBlockShows, HandleWikiPageNameShows,
     HandleLinksShows DEF HandleVariable
<1>3. ASSUME token \notin Names
      PROVE  Shows(HandleQuotes(s, token), AddWord(words, token))
  BY Zenon, <1>3, HandleQuotesShows, MarkupShows, LiteralTokens
<1> QED BY Zenon, <1>2, <1>3 DEF HandleInlineRule

LEMMA HandleTokenShows ==
  ASSUME NEW s, NEW words, Shows(s, words), NEW token \in Tokens, NEW begins
  PROVE  Shows(HandleToken(s, token, begins), AddWord(words, token))
<1>1. CASE s.thrown  BY Zenon, <1>1 DEF HandleToken, Shows
<1>2. CASE ~s.thrown /\ token = "!img"
  <2>1. Shows(HandleImage(s), AddWord(words, token))
    BY Zenon, <1>2, HandleImageShows, MarkupShows, LiteralTokens
  <2> QED BY Zenon, <1>2, <2>1 DEF HandleToken
<1>3. CASE ~s.thrown /\ token # "!img" /\ token \in Inline
  BY Zenon, <1>3, MakeRoomShows, HandleInlineRuleShows DEF HandleToken
<1>4. CASE ~s.thrown /\ token # "!img" /\ token \notin Inline
  BY Zenon, <1>4, HandleTextShows DEF HandleToken
<1> QED BY Zenon, <1>1, <1>2, <1>3, <1>4

LEMMA EndLineShows ==
  ASSUME NEW s, NEW words, Shows(s, words)
  PROVE  Shows(EndLine(s), words)
<1>1. BR \in Tokens /\ AddWord(words, BR) = words
  BY Zenon, LiteralTokens, NotWords
<1> QED BY Zenon, <1>1, PutShows, CloseParagraphShows DEF EndLine

-----------------------------------------------------------------------------
(* Lines *)

WordNext(given, words, token) == AddWord(words, token)
TokenNext(given, s, k) == HandleToken(s, given[2][k], given[3] /\ k = 1)
PlainNext(given, s, token) == Plain(s, token)
IsWords(given, k, words) == words \in Seq(Tokens)
ShowsSoFar(given, k, s) == Shows(s, given[1][k])

A == INSTANCE Folding WITH Op <- WordNext, Inv <- IsWords
T == INSTANCE Folding WITH Op <- TokenNext, Inv <- ShowsSoFar
P == INSTANCE Folding WITH Op <- PlainNext, Inv <- ShowsSoFar

\* The words that were read, and those of the tokens.
Told(words, tokens) == A!Fold(0, words, tokens)

LEMMA WordsAreTold ==
  ASSUME NEW tokens
  PROVE  Words(tokens) = Told(<<>>, tokens)
BY Zenon DEF Words, Told, A!Fold, WordNext, FoldLeft, MapThenFoldSet, A!MapThenFoldSet, Max, A!Max

LEMMA LineIs ==
  ASSUME NEW tokens \in Seq(Tokens)
  PROVE  /\ Len(tokens) \in Nat /\ DOMAIN tokens = 1..Len(tokens)
         /\ \A k \in 1..Len(tokens) : tokens[k] \in Tokens
OBVIOUS

LEMMA WordsAre ==
  ASSUME NEW tokens \in Seq(Tokens), NEW words \in Seq(Tokens)
  PROVE  Told(words, tokens) \in Seq(Tokens) /\ Words(tokens) \in Seq(Tokens)
<1> DEFINE n == Len(tokens)
<1>1. n \in Nat /\ DOMAIN tokens = 1..n /\ \A k \in 1..n : tokens[k] \in Tokens
  BY Zenon, LineIs
<1> HIDE DEF n
<1>2. \A some \in Seq(Tokens), token \in Tokens : AddWord(some, token) \in Seq(Tokens)
  <2>1. \A some \in Seq(Tokens), token \in Tokens : Append(some, token) \in Seq(Tokens)
    OBVIOUS
  <2> QED BY Zenon, <2>1 DEF AddWord
<1>3. A!Preserves(0, tokens, n)
  BY Zenon, <1>1, <1>2 DEF A!Preserves, IsWords, WordNext
<1>4. IsWords(0, 0, words) /\ IsWords(0, 0, <<>>)  BY DEF IsWords
<1>5. IsWords(0, n, A!Fold(0, words, tokens)) /\ IsWords(0, n, A!Fold(0, <<>>, tokens))
  BY <1>1, <1>3, <1>4, A!FoldKeeps
<1> QED BY Zenon, <1>5, WordsAreTold DEF IsWords, Told

\* What is told is what was read, and then the words of the line.
LEMMA ToldAfterwards ==
  ASSUME NEW tokens \in Seq(Tokens), NEW words \in Seq(Tokens)
  PROVE  Told(words, tokens) = words \o Words(tokens)
<1> DEFINE n == Len(tokens)
<1>1. n \in Nat /\ DOMAIN tokens = 1..n /\ \A k \in 1..n : tokens[k] \in Tokens
  BY Zenon, LineIs
<1> HIDE DEF n
<1>2. PICK f : A!Follows(0, <<>>, tokens, n, f) /\ A!Fold(0, <<>>, tokens) = f[n]
  BY <1>1, A!FoldIsChain DEF A!IsChain
<1>3. \A some \in Seq(Tokens), token \in Tokens :
        /\ AddWord(some, token) \in Seq(Tokens)
        /\ AddWord(words \o some, token) = words \o AddWord(some, token)
  <2>1. \A some \in Seq(Tokens), token \in Tokens :
          /\ Append(some, token) \in Seq(Tokens)
          /\ Append(words \o some, token) = words \o Append(some, token)
    OBVIOUS
  <2> QED BY Zenon, <2>1 DEF AddWord
<1>4. /\ f[0] = <<>>
      /\ \A k \in 1..n : f[k] = AddWord(f[k - 1], tokens[k])
  BY Zenon, <1>2 DEF A!Follows, WordNext
<1>5. \A k \in 0..n : f[k] \in Seq(Tokens)
  <2>1. A!Preserves(0, tokens, n)
    BY Zenon, <1>1, <1>3 DEF A!Preserves, IsWords, WordNext
  <2>2. IsWords(0, 0, <<>>)  BY DEF IsWords
  <2>3. \A k \in 0..n : IsWords(0, k, f[k])
    BY <1>1, <1>2, <2>1, <2>2, A!ChainKeeps
  <2> QED BY Zenon, <2>3 DEF IsWords
<1> DEFINE g == [k \in 0..n |-> words \o f[k]]
<1>6. /\ \A k \in 1..n : k \in 0..n /\ k - 1 \in 0..n
      /\ 0 \in 0..n /\ n \in 0..n /\ words \o <<>> = words
  BY <1>1
<1>7. A!Follows(0, words, tokens, n, g)
  BY Zenon, <1>1, <1>3, <1>4, <1>5, <1>6 DEF A!Follows, WordNext
<1>8. g[n] = words \o f[n]  BY Zenon, <1>6
<1> HIDE DEF g
<1>9. A!Fold(0, words, tokens) = g[n]  BY <1>1, <1>7, A!FoldIs
<1> QED BY Zenon, <1>2, <1>8, <1>9, WordsAreTold DEF Told

LEMMA ToldFirst ==
  ASSUME NEW line \in Seq(Tokens), line # <<>>, NEW words
  PROVE  /\ line[1] \in Tokens /\ Tail(line) \in Seq(Tokens)
         /\ Told(words, line) = Told(AddWord(words, line[1]), Tail(line))
<1> DEFINE front == <<line[1]>>
           back == Tail(line)
           m == Len(front)
           n == Len(back)
<1>1. /\ m \in Nat /\ DOMAIN front = 1..m /\ \A k \in 1..m : line[k] = front[k]
      /\ n \in Nat /\ DOMAIN back = 1..n /\ \A k \in 1..n : line[m + k] = back[k]
      /\ DOMAIN line = 1..(m + n)
  OBVIOUS
<1>2. /\ back \in Seq(Tokens) /\ line[1] \in Tokens /\ front[1] = line[1]
      /\ DOMAIN front = 1..1
  OBVIOUS
<1> HIDE DEF front, back, m, n
<1>3. A!Fold(0, words, line) = A!Fold(0, A!Fold(0, words, front), back)
  BY <1>1, A!FoldJoined
<1>4. A!Fold(0, words, front) = WordNext(0, words, front[1])
  <2>1. \A seq : DOMAIN seq = 1..1 => A!Fold(0, words, seq) = WordNext(0, words, seq[1])
    BY A!FoldOfFew
  <2> QED BY Zenon, <1>2, <2>1
<1> QED BY Zenon, <1>2, <1>3, <1>4 DEF Told, WordNext, back

LEMMA ToldNothing ==
  ASSUME NEW words
  PROVE  Told(words, <<>>) = words
<1>1. DOMAIN <<>> = 1..0  OBVIOUS
<1> QED BY Zenon, <1>1, A!FoldOfFew DEF Told

LEMMA RestIsFold ==
  ASSUME NEW given, NEW s
  PROVE  Rest(s, given[2], given[3])
           = EndLine(T!Fold(given, s, [k \in DOMAIN given[2] |-> k]))
BY Zenon DEF Rest, T!Fold, TokenNext, FoldLeft, MapThenFoldSet, T!MapThenFoldSet, Max, T!Max

LEMMA RestShows ==
  ASSUME NEW s, NEW words, Shows(s, words), NEW tokens \in Seq(Tokens), NEW begins
  PROVE  Shows(Rest(s, tokens, begins), Told(words, tokens))
<1> DEFINE n == Len(tokens)
<1>1. n \in Nat /\ DOMAIN tokens = 1..n /\ \A k \in 1..n : tokens[k] \in Tokens
  BY Zenon, LineIs
<1> HIDE DEF n
<1>2. PICK f : A!Follows(0, words, tokens, n, f) /\ A!Fold(0, words, tokens) = f[n]
  BY <1>1, A!FoldIsChain DEF A!IsChain
<1>3. f[0] = words /\ \A k \in 1..n : f[k] = AddWord(f[k - 1], tokens[k])
  BY Zenon, <1>2 DEF A!Follows, WordNext
<1> DEFINE given == <<f, tokens, begins>>
<1>4. given[1] = f /\ given[2] = tokens /\ given[3] = begins  OBVIOUS
<1> HIDE DEF given
<1> DEFINE places == [k \in DOMAIN given[2] |-> k]
           read == T!Fold(given, s, places)
<1>5. DOMAIN places = 1..n /\ \A k \in 1..n : places[k] = k
  BY Zenon, <1>1, <1>4
<1> HIDE DEF places
<1>6. ShowsSoFar(given, 0, s)  BY Zenon, <1>3, <1>4 DEF ShowsSoFar
<1>7. T!Preserves(given, places, n)
  <2>1. ASSUME NEW k \in 1..n, NEW t, Shows(t, f[k - 1])
        PROVE  Shows(TokenNext(given, t, k), f[k])
    <3>1. Shows(HandleToken(t, tokens[k], given[3] /\ k = 1), AddWord(f[k - 1], tokens[k]))
      BY <1>1, <2>1, HandleTokenShows
    <3> QED BY Zenon, <1>3, <1>4, <3>1 DEF TokenNext
  <2> QED BY Zenon, <1>4, <1>5, <2>1 DEF T!Preserves, ShowsSoFar
<1>8. ShowsSoFar(given, n, read)  BY <1>1, <1>5, <1>6, <1>7, T!FoldKeeps
<1> HIDE DEF read
<1>9. Shows(EndLine(read), f[n])
  BY Zenon, <1>4, <1>8, EndLineShows DEF ShowsSoFar
<1> QED BY Zenon, <1>2, <1>4, <1>9, RestIsFold DEF read, places, Told

LEMMA LiteralLineShows ==
  ASSUME NEW s, NEW words, Shows(s, words), NEW tokens \in Seq(Tokens)
  PROVE  Shows(FoldLeft(Plain, s, tokens), Told(words, tokens))
<1> DEFINE n == Len(tokens)
<1>1. n \in Nat /\ DOMAIN tokens = 1..n /\ \A k \in 1..n : tokens[k] \in Tokens
  BY Zenon, LineIs
<1> HIDE DEF n
<1>2. PICK f : A!Follows(0, words, tokens, n, f) /\ A!Fold(0, words, tokens) = f[n]
  BY <1>1, A!FoldIsChain DEF A!IsChain
<1>3. f[0] = words /\ \A k \in 1..n : f[k] = AddWord(f[k - 1], tokens[k])
  BY Zenon, <1>2 DEF A!Follows, WordNext
<1>4. PICK given : given[1] = f /\ given[2] = tokens  BY Zenon, Pair
<1>5. ShowsSoFar(given, 0, s)  BY Zenon, <1>3, <1>4 DEF ShowsSoFar
<1>6. P!Preserves(given, tokens, n)
  BY Zenon, <1>1, <1>3, <1>4, PlainShows DEF P!Preserves, ShowsSoFar, PlainNext
<1>7. ShowsSoFar(given, n, P!Fold(given, s, tokens))
  BY <1>1, <1>5, <1>6, P!FoldKeeps
<1>8. FoldLeft(Plain, s, tokens) = P!Fold(given, s, tokens)
  BY Zenon DEF P!Fold, PlainNext, FoldLeft, MapThenFoldSet, P!MapThenFoldSet, Max, P!Max
<1> QED BY Zenon, <1>2, <1>4, <1>7, <1>8 DEF ShowsSoFar, Told

\* A token of markup at the start of a line leaves the words to the rest of it.
LEMMA ToldAfterMarkup ==
  ASSUME NEW line \in Seq(Tokens), line # <<>>, line[1] \in Markup, NEW words
  PROVE  Tail(line) \in Seq(Tokens) /\ Told(words, line) = Told(words, Tail(line))
BY Zenon, ToldFirst, NotWords

LEMMA HandleHeaderShows ==
  ASSUME NEW s, NEW words, Shows(s, words), NEW tokens \in Seq(Tokens)
  PROVE  Shows(HandleHeader(s, tokens), Told(words, tokens))
<1> DEFINE t == CloseToFragment(s, "div")
           read == Rest(OpenHeader(s), tokens, FALSE)
           ended == HolderIs(read, Ancestor(read, "h1") - 1)
<1>1. Shows(Open(t, "h1"), words)
  BY Zenon, CloseToFragmentShows, OpenShows, LiteralTags
<1> HIDE DEF t
<1>2. Shows(OpenHeader(s), words)
  BY Zenon, <1>1, OtherFieldsShow DEF OpenHeader, t
<1>3. Shows(read, Told(words, tokens))  BY Zenon, <1>2, RestShows
<1> HIDE DEF read
<1>4. Shows(ended, Told(words, tokens))
  BY Zenon, <1>3, EndingAncestors, 1 \in Nat
<1> HIDE DEF ended
<1>5. Shows([ended EXCEPT !.header = FALSE], Told(words, tokens))
  BY Zenon, <1>4, OtherFieldsShow
<1> QED BY Zenon, <1>5 DEF HandleHeader, CloseHeader, ended, read

LEMMA LeadShows ==
  ASSUME NEW s, NEW words, Shows(s, words), NEW token, IsMarker(token) \/ token \in Definitions
  PROVE  Shows(Lead(s, token), words)
<1>1. token \in Markup /\ token \in Tokens  BY Zenon, LiteralTokens
<1>2. AddWord(words, token) = words  BY Zenon, <1>1, NotWords
<1>3. Shows(Plain(s, token), words)  BY Zenon, <1>1, <1>2, PlainShows
<1>4. Shows(HandleDefinition(s, token), words)
  <2>1. Shows(OpenParagraph(CloseToFragment(s, "div")), words)
    BY Zenon, CloseToFragmentShows, OpenParagraphShows
  <2> QED BY Zenon, <1>1, <1>2, <2>1, PutShows DEF HandleDefinition
<1>5. IsMarker(token) => Shows(HandleList(s, token), words)
  BY Zenon, HandleListShows
<1> QED BY Zenon, <1>3, <1>4, <1>5 DEF Lead

LEMMA OpenSectionShows ==
  ASSUME NEW s, NEW words, Shows(s, words)
  PROVE  Shows(OpenSection(s), words)
<1> DEFINE t == Open(CloseParagraph(s), "div")
<1>1. Shows(t, words)  BY Zenon, CloseParagraphShows, OpenShows, LiteralTags
<1> HIDE DEF t
<1>2. t.sections + 1 \in Int
  <2>1. t.sections \in Int  BY Zenon, <1>1, ReaderFields DEF Shows
  <2> QED BY <2>1
<1>3. Shows([t EXCEPT !.sections = t.sections + 1], words)
  BY Zenon, <1>1, <1>2, OtherFieldsShow
<1> QED BY Zenon, <1>3 DEF OpenSection, t

LEMMA HandleCollapsibleBlockShows ==
  ASSUME NEW s, NEW words, Shows(s, words), NEW title \in Seq(Tokens)
  PROVE  Shows(HandleCollapsibleBlock(s, title), Told(words, title))
<1>1. Shows(OpenSection(s), words)  BY Zenon, OpenSectionShows
<1>2. Shows(CloseParagraph(Rest(OpenSection(s), title, TRUE)), Told(words, title))
  BY Zenon, <1>1, RestShows, CloseParagraphShows
<1>3. title = <<>> => Shows(OpenSection(s), Told(words, title))
  BY Zenon, <1>1, ToldNothing
<1>4. \A t : Shows(t, Told(words, title)) => Shows(OpenContent(t), Told(words, title))
  BY Zenon, OpenParagraphShows DEF OpenContent
<1> QED BY Zenon, <1>2, <1>3, <1>4 DEF HandleCollapsibleBlock

LEMMA CloseCollapsibleBlockShows ==
  ASSUME NEW s, NEW words, Shows(s, words)
  PROVE  Shows(CloseCollapsibleBlock(s), words)
<1> DEFINE t == [s EXCEPT !.sections = s.sections - 1]
<1>1. s.sections - 1 \in Int
  <2>1. s.sections \in Int  BY Zenon, ReaderFields DEF Shows
  <2> QED BY <2>1
<1>2. Shows(t, words)  BY Zenon, <1>1, OtherFieldsShow
<1> HIDE DEF t
<1>3. Shows(CloseToFragment(t, "div"), words)
  BY Zenon, <1>2, CloseToFragmentShows
<1>4. Shows(LeaveSection(CloseToFragment(t, "div")), words)
  BY Zenon, <1>3, EndingAncestors, 1 \in Nat DEF LeaveSection
<1> QED BY Zenon, <1>4, OpenParagraphShows DEF CloseCollapsibleBlock, t

LEMMA HandleLineShows ==
  ASSUME NEW s, NEW words, Shows(s, words), NEW line \in Seq(Tokens)
  PROVE  Shows(HandleLine(s, line), Told(words, line))
<1>1. CASE line = <<>>
  <2>1. Shows(EndLine(s), Told(words, line))
    BY Zenon, <1>1, EndLineShows, ToldNothing
  <2>2. line # <<"*!">>  BY <1>1
  <2> QED BY Zenon, <1>1, <2>1, <2>2 DEF HandleLine
<1>2. ASSUME line # <<>>, line[1] = "!1"
      PROVE  Shows(HandleHeader(s, Tail(line)), Told(words, line))
  <2>1. line[1] \in Markup  BY Zenon, <1>2, LiteralTokens
  <2> QED BY Zenon, <1>2, <2>1, ToldAfterMarkup, HandleHeaderShows
<1>3. ASSUME line # <<>>, IsMarker(line[1]) \/ line[1] \in Definitions
      PROVE  Shows(Rest(Lead(s, line[1]), Tail(line), FALSE), Told(words, line))
  <2>1. line[1] \in Markup  BY Zenon, <1>3, LiteralTokens
  <2> QED BY Zenon, <1>3, <2>1, ToldAfterMarkup, LeadShows, RestShows
<1>4. ASSUME line # <<>>, line[1] = "!*"
      PROVE  Shows(EndLine(IF In(s, "tt") THEN FoldLeft(Plain, s, line)
                           ELSE HandleCollapsibleBlock(s, Tail(line))), Told(words, line))
  <2>1. line[1] \in Markup  BY Zenon, <1>4, LiteralTokens
  <2>2. Shows(HandleCollapsibleBlock(s, Tail(line)), Told(words, line))
    BY Zenon, <1>4, <2>1, ToldAfterMarkup, HandleCollapsibleBlockShows
  <2>3. Shows(FoldLeft(Plain, s, line), Told(words, line))
    BY Zenon, LiteralLineShows
  <2> QED BY Zenon, <2>2, <2>3, EndLineShows
<1>5. ASSUME line = <<"*!">>
      PROVE  Shows(EndLine(IF In(s, "tt") THEN Plain(s, line[1]) ELSE CloseCollapsibleBlock(s)),
                   Told(words, line))
  <2>1. line # <<>> /\ line[1] = "*!" /\ Tail(line) = <<>>  BY <1>5
  <2>2. line[1] \in Markup /\ line[1] \in Tokens /\ AddWord(words, line[1]) = words
    BY Zenon, <2>1, LiteralTokens, NotWords
  <2>3. Told(words, line) = words
    BY Zenon, <2>1, <2>2, ToldAfterMarkup, ToldNothing
  <2>4. Shows(Plain(s, line[1]), words) /\ Shows(CloseCollapsibleBlock(s), words)
    BY Zenon, <2>2, PlainShows, CloseCollapsibleBlockShows
  <2> QED BY Zenon, <2>3, <2>4, EndLineShows
<1>6. Shows(Rest(s, line, TRUE), Told(words, line))  BY Zenon, RestShows
<1> QED BY Zenon, <1>1, <1>2, <1>3, <1>4, <1>5, <1>6 DEF HandleLine

LEMMA RuleIsWhole ==
  /\ Rule \in Seq(Node) /\ NoTexts(Rule)
  /\ E!Fold(0, <<>>, Rule) = <<>>
<1> DEFINE none == <<>>
           one == Append(none, Opening("hr"))
<1>1. Opening("hr") \in Node /\ Closing("hr") \in Node
  BY Zenon, NodesAre, LiteralTags
<1>2. none \in Seq(Node) /\ OpenElements(none) = none
  <2>1. none \in Seq(Node)  OBVIOUS
  <2> QED BY Zenon, <2>1, NoNodes
<1> HIDE DEF none
<1>3. one \in Seq(Node) /\ OpenElements(one) = Append(none, "hr")
  <2>1. one \in Seq(Node) /\ OpenElements(one) = Enter(OpenElements(none), Opening("hr"))
    BY Zenon, <1>1, <1>2, OneNodeMore
  <2>2. Enter(none, Opening("hr")) = Append(none, "hr")  BY Zenon, EnteringNodes
  <2> QED BY Zenon, <1>2, <2>1, <2>2
<1> HIDE DEF one
<1>4. /\ Append(one, Closing("hr")) \in Seq(Node)
      /\ OpenElements(Append(one, Closing("hr"))) = Enter(Append(none, "hr"), Closing("hr"))
  BY Zenon, <1>1, <1>3, OneNodeMore
<1>5. LET path == Append(none, "hr")
      IN path # <<>> /\ Last(path) = "hr" /\ Front(path) = <<>>
  BY DEF Last, Front, none
<1>6. Enter(Append(none, "hr"), Closing("hr")) = <<>>
  BY Zenon, <1>5, EnteringNodes
<1>7. Rule = Append(one, Closing("hr"))  BY DEF Rule, one, none
<1>8. NoTexts(Rule)  BY DEF NoTexts, Rule, Opening, Closing
<1> QED BY Zenon, <1>4, <1>6, <1>7, <1>8, OpenElementsIsFold

LEMMA HandleRuleShows ==
  ASSUME NEW s, NEW words, Shows(s, words)
  PROVE  Shows(HandleRule(s), words)
<1> DEFINE t == CloseToFragment(s, "div")
           nodes == t.doc \o Rule
           rules == t.rules \o Rule
<1>1. Shows(t, words)  BY Zenon, CloseToFragmentShows
<1> HIDE DEF t
<1>2. /\ t \in Readers /\ t.doc \in Seq(Node) /\ t.rules \in Seq(Node)
      /\ OpenElements(t.doc) = t.path /\ OpenElements(t.rules) = <<>> /\ NoTexts(t.rules)
      /\ t.decorationStatus \subseteq Range(t.decorationStack)
  BY Zenon, <1>1, ReaderFields DEF Shows, Reader
<1>3. nodes \in Seq(Node) /\ rules \in Seq(Node)  BY <1>2, RuleIsWhole
<1>4. CASE t.path = <<>>
  <2>1. OpenElements(nodes) = <<>> /\ WordsShown(nodes) = WordsShown(t.doc)
    BY Zenon, <1>2, <1>4, RuleIsWhole, OpenElementsJoined, WordsShownJoined, NothingMoreShown
  <2> DEFINE u == [t EXCEPT !.doc = nodes]
  <2> HIDE DEF nodes, Node
  <2>2. /\ u \in Readers /\ u.doc = nodes /\ u.path = t.path /\ u.rules = t.rules
        /\ u.decorationStatus = t.decorationStatus /\ u.decorationStack = t.decorationStack
        /\ u.thrown = t.thrown
    BY <1>2, <1>3 DEF Readers
  <2> HIDE DEF u
  <2>3. Shows(u, words)
    BY Zenon, <1>1, <1>2, <1>4, <2>1, <2>2 DEF Shows, Reader
  <2> QED BY Zenon, <1>4, <2>3 DEF HandleRule, PutRule, u, nodes, t
<1>5. CASE t.path # <<>>
  <2>1. OpenElements(rules) = <<>>
    BY Zenon, <1>2, RuleIsWhole, OpenElementsJoined
  <2>2. NoTexts(rules)  BY <1>2, RuleIsWhole DEF NoTexts
  <2> DEFINE u == [t EXCEPT !.rules = rules]
  <2> HIDE DEF rules, Node
  <2>3. /\ u \in Readers /\ u.doc = t.doc /\ u.path = t.path /\ u.rules = rules
        /\ u.decorationStatus = t.decorationStatus /\ u.decorationStack = t.decorationStack
        /\ u.thrown = t.thrown
    BY <1>2, <1>3 DEF Readers
  <2> HIDE DEF u
  <2>4. Shows(u, words)
    BY Zenon, <1>1, <1>2, <2>1, <2>2, <2>3 DEF Shows, Reader
  <2> QED BY Zenon, <1>5, <2>4 DEF HandleRule, PutRule, u, rules, t
<1> QED BY Zenon, <1>4, <1>5

-----------------------------------------------------------------------------
(* Texts *)

\* A rule, and the line that it is on.
BeginsWithRule(line) == line # <<>> /\ line[1] = "----"

LEMMA AddLineReads ==
  ASSUME NEW s, NEW words, Shows(s, words), NEW line \in Seq(Tokens)
  PROVE  /\ Reader(AddLine(s, line))
         /\ ~BeginsWithRule(line) => Shows(AddLine(s, line), Told(words, line))
         /\ BeginsWithRule(line) => Shows(AddLine(s, line), words)
<1> DEFINE t == [s EXCEPT !.decorationStatus = {}, !.decorationStack = <<>>]
<1>1. Shows(t, words)
  <2>1. {} \in SUBSET Tags /\ <<>> \in Seq(Tags) /\ {} \subseteq Range(<<>>)
    BY DEF Range
  <2> QED BY Zenon, <2>1, DecorationsShow
<1> HIDE DEF t
<1>2. CASE s.thrown  BY Zenon, <1>2 DEF AddLine, Shows
<1>3. CASE ~s.thrown /\ BeginsWithRule(line)
  BY Zenon, <1>3, HandleRuleShows DEF AddLine, Shows, BeginsWithRule
<1>4. CASE ~s.thrown /\ line = <<>> /\ ~In(s, "pre")
  <2>1. Shows(CloseToFragment(s, "div"), Told(words, line))
    BY Zenon, <1>4, CloseToFragmentShows, ToldNothing
  <2> QED BY Zenon, <1>4, <2>1 DEF AddLine, Shows, BeginsWithRule
<1>5. CASE ~s.thrown /\ ~BeginsWithRule(line) /\ (line = <<>> => In(s, "pre"))
  <2>1. Shows(HandleLine(t, line), Told(words, line))
    BY Zenon, <1>1, HandleLineShows
  <2>2. AddLine(s, line) = HandleLine(t, line)
    BY Zenon, <1>5 DEF AddLine, t, BeginsWithRule
  <2> QED BY Zenon, <1>5, <2>1, <2>2 DEF Shows
<1> QED BY Zenon, <1>2, <1>3, <1>4, <1>5

LEMMA AddLineShows ==
  ASSUME NEW s, NEW words \in Seq(Tokens), Shows(s, words),
         NEW line \in Seq(Tokens), ~HidesWords(line)
  PROVE  Shows(AddLine(s, line), words \o Words(line))
<1>1. Told(words, line) = words \o Words(line) /\ words \o <<>> = words
  BY ToldAfterwards
<1>2. BeginsWithRule(line) => Words(line) = <<>>
  BY Zenon DEF HidesWords, BeginsWithRule
<1> QED BY Zenon, <1>1, <1>2, AddLineReads

LineNext(given, s, line) == AddLine(s, line)
WordsNext(given, words, line) == words \o Words(line)
ReadsOn(given, k, s) == Reader(s)

R == INSTANCE Folding WITH Op <- LineNext, Inv <- ReadsOn
L == INSTANCE Folding WITH Op <- LineNext, Inv <- ShowsSoFar
V == INSTANCE Folding WITH Op <- WordsNext, Inv <- IsWords

LEMMA TextIs ==
  ASSUME NEW lines \in Seq(Seq(Tokens))
  PROVE  /\ Len(lines) \in Nat /\ DOMAIN lines = 1..Len(lines)
         /\ \A k \in 1..Len(lines) : lines[k] \in Seq(Tokens)
OBVIOUS

LEMMA LinesRead ==
  ASSUME NEW lines \in Seq(Seq(Tokens))
  PROVE  Reader(FoldLeft(AddLine, Start, lines))
<1> DEFINE n == Len(lines)
<1>1. n \in Nat /\ DOMAIN lines = 1..n /\ \A k \in 1..n : lines[k] \in Seq(Tokens)
  BY Zenon, TextIs
<1> HIDE DEF n
<1>2. FoldLeft(AddLine, Start, lines) = R!Fold(0, Start, lines)
  BY Zenon DEF R!Fold, LineNext, FoldLeft, MapThenFoldSet, R!MapThenFoldSet, Max, R!Max
<1>3. ReadsOn(0, 0, Start)  BY Zenon, StartShows DEF ReadsOn, Shows
<1>4. \A s : Reader(s) => Shows(s, WordsShown(s.doc))  BY Zenon DEF Shows
<1>5. R!Preserves(0, lines, n)
  BY Zenon, <1>1, <1>4, AddLineReads DEF R!Preserves, ReadsOn, LineNext
<1>6. ReadsOn(0, n, R!Fold(0, Start, lines))  BY <1>1, <1>3, <1>5, R!FoldKeeps
<1> QED BY Zenon, <1>2, <1>6 DEF ReadsOn

LEMMA LinesShown ==
  ASSUME NEW lines \in Seq(Seq(Tokens)), \A k \in DOMAIN lines : ~HidesWords(lines[k])
  PROVE  Shows(FoldLeft(AddLine, Start, lines), WordsIn(lines))
<1> DEFINE n == Len(lines)
<1>1. n \in Nat /\ DOMAIN lines = 1..n /\ \A k \in 1..n : lines[k] \in Seq(Tokens)
  BY Zenon, TextIs
<1> HIDE DEF n
<1>2. PICK f : V!Follows(0, <<>>, lines, n, f) /\ V!Fold(0, <<>>, lines) = f[n]
  BY <1>1, V!FoldIsChain DEF V!IsChain
<1>3. f[0] = <<>> /\ \A k \in 1..n : f[k] = f[k - 1] \o Words(lines[k])
  BY Zenon, <1>2 DEF V!Follows, WordsNext
<1>4. \A k \in 0..n : f[k] \in Seq(Tokens)
  <2>1. \A some \in Seq(Tokens), more \in Seq(Tokens) : some \o more \in Seq(Tokens)
    OBVIOUS
  <2>2. IsWords(0, 0, <<>>)  BY DEF IsWords
  <2>3. V!Preserves(0, lines, n)
    BY Zenon, <1>1, <2>1, WordsAre DEF V!Preserves, IsWords, WordsNext
  <2>4. \A k \in 0..n : IsWords(0, k, f[k])
    BY <1>1, <1>2, <2>2, <2>3, V!ChainKeeps
  <2> QED BY Zenon, <2>4 DEF IsWords
<1>5. \A k \in 1..n : k - 1 \in 0..n  BY <1>1
<1>6. PICK given : given[1] = f  BY Zenon, Pair
<1>7. ShowsSoFar(given, 0, Start)
  BY Zenon, <1>3, <1>6, StartShows DEF ShowsSoFar
<1>8. L!Preserves(given, lines, n)
  BY Zenon, <1>1, <1>3, <1>4, <1>5, <1>6, AddLineShows DEF L!Preserves, ShowsSoFar, LineNext
<1>9. ShowsSoFar(given, n, L!Fold(given, Start, lines))
  BY <1>1, <1>7, <1>8, L!FoldKeeps
<1>10. FoldLeft(AddLine, Start, lines) = L!Fold(given, Start, lines)
  BY Zenon DEF L!Fold, LineNext, FoldLeft, MapThenFoldSet, L!MapThenFoldSet, Max, L!Max
<1>11. WordsIn(lines) = V!Fold(0, <<>>, lines)
  BY Zenon DEF WordsIn, V!Fold, WordsNext, FoldLeft, MapThenFoldSet, V!MapThenFoldSet, Max, V!Max
<1> QED BY Zenon, <1>2, <1>6, <1>9, <1>10, <1>11 DEF ShowsSoFar

\* A text that can be read makes a document of whole elements, which shows its words.
LEMMA TextRead ==
  ASSUME NEW lines \in Seq(Seq(Tokens)), ~ReadText(lines).thrown
  PROVE  /\ ReadText(lines).doc \in Seq(Node)
         /\ IsWellNested(ReadText(lines).doc)
         /\ (\A k \in DOMAIN lines : ~HidesWords(lines[k]))
              => WordsShown(ReadText(lines).doc) = WordsIn(lines)
<1> DEFINE s == FoldLeft(AddLine, Start, lines)
           closed == CloseToFragment(s, "div")
           ended == HolderIs(closed, 0)
           hidden == ~\A k \in DOMAIN lines : ~HidesWords(lines[k])
<1>1. Reader(s) /\ (~hidden => Shows(s, WordsIn(lines)))
  BY Zenon, LinesRead, LinesShown
<1>2. ReadText(lines) = CloseText(s)  BY Zenon DEF ReadText
<1> HIDE DEF s, hidden
<1>3. Shows(s, WordsShown(s.doc))  BY Zenon, <1>1 DEF Shows
<1>4. ~s.thrown /\ ReadText(lines) = ended  BY Zenon, <1>2 DEF CloseText
<1>5. ASSUME NEW words, Shows(s, words)
      PROVE  Shows(ended, words) /\ ended.path = <<>>
  <2>1. Shows(closed, words)  BY Zenon, <1>5, CloseToFragmentShows
  <2> HIDE DEF closed
  <2>2. Len(closed.path) \in Nat  BY Zenon, <2>1, ReaderFields DEF Shows
  <2>3. 0 \in Int /\ 0 =< Len(closed.path) /\ 0 >= 0  BY <2>2
  <2>4. Shows(ended, words) /\ ended.path = SubSeq(closed.path, 1, 0)
    BY Zenon, <2>1, <2>3, HolderIsShows
  <2>5. SubSeq(closed.path, 1, 0) = <<>>  OBVIOUS
  <2> QED BY Zenon, <2>4, <2>5
<1> HIDE DEF ended
<1>6. Reader(ended) /\ ended.path = <<>>  BY Zenon, <1>3, <1>5 DEF Shows
<1>7. ended.doc \in Seq(Node) /\ OpenElements(ended.doc) = <<>>
  BY Zenon, <1>6, ReaderFields
<1>8. ~hidden => WordsShown(ended.doc) = WordsIn(lines)
  BY Zenon, <1>1, <1>4, <1>5 DEF Shows
<1> QED BY Zenon, <1>4, <1>7, <1>8 DEF IsWellNested, hidden

-----------------------------------------------------------------------------
(* The writer *)

Writer(w) == w \in [out : Seq(Tokens), path : {w.path}, skip : {w.skip}]

LEMMA WriterStep ==
  ASSUME NEW w, Writer(w)
  PROVE  /\ w.out \in Seq(Tokens)
         /\ \A skip : Writer([w EXCEPT !.skip = skip])
         /\ \A path : \A out \in Seq(Tokens) : Writer([w EXCEPT !.out = out, !.path = path])
BY DEF Writer

LEMMA FewTokens ==
  /\ <<>> \in Seq(Tokens)
  /\ \A a, b \in Tokens : <<a>> \in Seq(Tokens) /\ <<a, b>> \in Seq(Tokens)
  /\ \A s, t \in Seq(Tokens) : s \o t \in Seq(Tokens)
OBVIOUS

LEMMA WrittenTokens ==
  /\ BR \in Tokens /\ NL \in Tokens /\ "'" \in Tokens
  /\ Inline \subseteq Tokens
  /\ {"!1", "!*", "*!", "----", "!img"} \subseteq Tokens
  /\ \A path : \A tag \in {"ul", "ol"} : Markers[tag][MarkerLevel(path)] \in Tokens
<1>1. Inline \subseteq Tokens  BY Zenon, InlineTokens
<1>2. ASSUME NEW path, NEW tag \in {"ul", "ol"}
      PROVE  Markers[tag][MarkerLevel(path)] \in Tokens
  <2>1. MarkerLevel(path) \in 1..2  BY DEF MarkerLevel
  <2>2. DOMAIN Markers[tag] = 1..2  BY DEF Markers
  <2>3. Markers[tag][MarkerLevel(path)] \in Range(Markers[tag])
    BY Zenon, <2>1, <2>2 DEF Range
  <2> QED BY Zenon, <2>3 DEF Tokens, Markup
<1> QED BY Zenon, <1>1, <1>2, LiteralTokens

LEMMA PushTokenWrites ==
  ASSUME NEW out \in Seq(Tokens), NEW token \in Tokens
  PROVE  PushToken(out, token) \in Seq(Tokens)
<1> DEFINE n == Len(out)
<1>1. Append(out, token) \in Seq(Tokens) /\ Front(out) \in Seq(Tokens)
  BY DEF Front
<1>2. n > 1 => Append(SubSeq(out, 1, n - 2), out[n]) \in Seq(Tokens)  OBVIOUS
<1> QED BY Zenon, <1>1, <1>2 DEF PushToken

LEMMA OpenTokensAre ==
  ASSUME NEW nodes, NEW k, NEW path
  PROVE  OpenTokens(nodes, k, path) \in Seq(Tokens)
<1> DEFINE line == IF FollowsInline(nodes, k) THEN <<NL>> ELSE <<>>
           Written == Seq(Tokens)
<1>1. line \in Written /\ <<NL>> \in Written /\ <<>> \in Written
  BY Zenon, FewTokens, WrittenTokens
<1>2. {"!-", "[["} \subseteq Tokens /\ {"{{{", "!*"} \subseteq Tokens
  BY Zenon, WrittenTokens DEF Inline
<1>3. /\ <<"!1">> \in Written /\ <<"----", NL>> \in Written /\ <<"!-">> \in Written
      /\ <<"[[">> \in Written /\ <<"!img">> \in Written
  BY Zenon, FewTokens, WrittenTokens, <1>2
<1>4. LinkTokens.open \in Written
  <2>1. LinkTokens.open = <<"[[">>  BY DEF LinkTokens
  <2> QED BY Zenon, <1>3, <2>1
<1>5. \A tag \in {"pre", "div"} : <<wikiOpenTokens[tag]>> \in Written
  <2>1. wikiOpenTokens["pre"] = "{{{" /\ wikiOpenTokens["div"] = "!*"
    BY DEF wikiOpenTokens
  <2> QED BY Zenon, <1>2, <2>1, FewTokens
<1>6. <<Markers[IF Parent(path) = "ol" THEN "ol" ELSE "ul"][MarkerLevel(path)]>> \in Written
  <2> DEFINE tag == IF Parent(path) = "ol" THEN "ol" ELSE "ul"
  <2>1. tag \in {"ul", "ol"}  BY Zenon
  <2> HIDE DEF tag
  <2>2. Markers[tag][MarkerLevel(path)] \in Tokens
    BY Zenon, <2>1, WrittenTokens
  <2>3. <<Markers[tag][MarkerLevel(path)]>> \in Written
    BY Zenon, <2>2, FewTokens
  <2> QED BY Zenon, <2>3 DEF tag
<1>7. line \o <<"!1">> \in Written /\ line \o <<"----", NL>> \in Written
  BY Zenon, <1>1, <1>3, FewTokens
<1> HIDE DEF line, Written
<1>8. OpenTokens(nodes, k, path) \in Written
  BY Zenon, <1>1, <1>3, <1>4, <1>5, <1>6, <1>7 DEF OpenTokens, line
<1> QED BY Zenon, <1>8 DEF Written

LEMMA CloseTokensAre ==
  ASSUME NEW nodes, NEW k, NEW path
  PROVE  CloseTokens(nodes, k, path) \in Seq(Tokens)
<1> DEFINE Written == Seq(Tokens)
<1>1. {"-!", "}}}", "]]", "*!", NL} \subseteq Tokens
  BY Zenon, WrittenTokens DEF Inline
<1>2. /\ <<>> \in Written /\ <<NL>> \in Written /\ <<NL, NL>> \in Written /\ <<"-!">> \in Written
      /\ <<NL, "}}}">> \in Written /\ <<"}}}">> \in Written /\ <<"*!", NL>> \in Written
      /\ <<"]]">> \in Written
  BY Zenon, FewTokens, <1>1
<1>3. LinkTokens.close \in Written
  <2>1. LinkTokens.close = <<"]]">>  BY DEF LinkTokens
  <2> QED BY Zenon, <1>2, <2>1
<1> HIDE DEF Written
<1>4. CloseTokens(nodes, k, path) \in Written
  BY Zenon, <1>2, <1>3 DEF CloseTokens
<1> QED BY Zenon, <1>4 DEF Written

LEMMA NodeTokensAre ==
  ASSUME NEW nodes \in Seq(Node), NEW k \in DOMAIN nodes, NEW path
  PROVE  NodeTokens(nodes, k, path) \in Seq(Tokens)
<1>1. nodes[k] \in Node  OBVIOUS
<1>2. nodes[k].op \in {"open", "close", "text"} /\ (nodes[k].op = "text" => nodes[k].tag \in Tokens)
  BY <1>1 DEF Node
<1>3. nodes[k].op = "text" => TextTokens(nodes, k, path) \in Seq(Tokens)
  BY Zenon, <1>2, FewTokens, WrittenTokens DEF TextTokens
<1> QED BY Zenon, <1>2, <1>3, OpenTokensAre, CloseTokensAre DEF NodeTokens

LEMMA VisitWrites ==
  ASSUME NEW nodes \in Seq(Node), NEW w, Writer(w), NEW k \in DOMAIN nodes
  PROVE  Writer(Visit(w, nodes, k))
<1>1. ASSUME NEW path
      PROVE  Writer(Write(w, nodes, k, path))
  <2> DEFINE out == IF nodes[k].op # "text" /\ nodes[k].tag \in {"b", "i", "strike"}
                    THEN PushToken(w.out, wikiOpenTokens[nodes[k].tag])
                    ELSE w.out \o NodeTokens(nodes, k, path)
  <2>1. w.out \in Seq(Tokens)  BY Zenon, WriterStep
  <2>2. \A tag \in {"b", "i", "strike"} : wikiOpenTokens[tag] \in Tokens
    <3>1. /\ wikiOpenTokens["b"] = "'''" /\ wikiOpenTokens["i"] = "''"
          /\ wikiOpenTokens["strike"] = "--"
      BY DEF wikiOpenTokens
    <3>2. {"'''", "''", "--"} \subseteq Tokens
      BY Zenon, WrittenTokens DEF Inline, Quotes
    <3> QED BY Zenon, <3>1, <3>2
  <2>3. out \in Seq(Tokens)
    <3>1. CASE nodes[k].op # "text" /\ nodes[k].tag \in {"b", "i", "strike"}
      BY Zenon, <3>1, <2>1, <2>2, PushTokenWrites
    <3>2. CASE ~(nodes[k].op # "text" /\ nodes[k].tag \in {"b", "i", "strike"})
      BY Zenon, <3>2, <2>1, NodeTokensAre, FewTokens
    <3> QED BY Zenon, <3>1, <3>2
  <2> HIDE DEF out
  <2>4. \A other : Writer([w EXCEPT !.out = out, !.path = other])
    BY Zenon, <2>3, WriterStep
  <2> QED BY Zenon, <2>4 DEF Write, out
<1>2. \A skip : Writer([w EXCEPT !.skip = skip])  BY Zenon, WriterStep
<1> QED BY Zenon, <1>1, <1>2 DEF Visit

VisitNext(given, w, k) == Visit(w, given, k)
Writes(given, k, w) == Writer(w)
Liners == [lines : Seq(Seq(Tokens)), line : Seq(Tokens), quotes : Nat]
LinesNext(given, t, token) ==
  IF token \in Quotes THEN [t EXCEPT !.quotes = @ + QuotesOf(token)]
  ELSE AddToken(t, token, t.line \o ReadQuotes(t.quotes))
MakesLines(given, k, t) == t \in Liners

G == INSTANCE Folding WITH Op <- VisitNext, Inv <- Writes
H == INSTANCE Folding WITH Op <- LinesNext, Inv <- MakesLines

NothingWritten == [out |-> <<>>, path |-> <<>>, skip |-> 0]

LEMMA NodesWrite ==
  ASSUME NEW nodes \in Seq(Node)
  PROVE  FoldLeft(LAMBDA w, k : Visit(w, nodes, k), NothingWritten, [k \in DOMAIN nodes |-> k]).out
           \in Seq(Tokens)
<1> DEFINE n == Len(nodes)
           places == [k \in DOMAIN nodes |-> k]
<1>1. n \in Nat /\ DOMAIN nodes = 1..n /\ DOMAIN places = 1..n /\ \A k \in 1..n : places[k] = k
  OBVIOUS
<1>2. Writes(nodes, 0, NothingWritten)  BY DEF Writes, Writer, NothingWritten
<1>3. G!Preserves(nodes, places, n)
  BY Zenon, <1>1, VisitWrites DEF G!Preserves, Writes, VisitNext
<1>4. FoldLeft(LAMBDA w, k : Visit(w, nodes, k), NothingWritten, places)
        = G!Fold(nodes, NothingWritten, places)
  BY Zenon DEF G!Fold, VisitNext, FoldLeft, MapThenFoldSet, G!MapThenFoldSet, Max, G!Max
<1> HIDE DEF n, places
<1>5. Writes(nodes, n, G!Fold(nodes, NothingWritten, places))
  BY <1>1, <1>2, <1>3, G!FoldKeeps
<1> QED BY Zenon, <1>4, <1>5, WriterStep DEF Writes, places

LEMMA ReadQuotesAre ==
  ASSUME NEW n \in Nat
  PROVE  ReadQuotes(n) \in Seq(Tokens)
<1> DEFINE rest == << <<>>, <<"'">>, <<"''">>, <<"'''">>, <<"'''", "'">> >>
<1>1. {"'", "''", "'''", "'''''"} \subseteq Tokens
  BY Zenon, WrittenTokens DEF Inline, Quotes
<1>2. rest[1] = <<>> /\ rest[2] = <<"'">> /\ rest[3] = <<"''">> /\ rest[4] = <<"'''">>
      /\ rest[5] = <<"'''", "'">>
  OBVIOUS
<1>3. \A i \in {1, 2, 3, 4, 5} : rest[i] \in Seq(Tokens)
  BY Zenon, <1>1, <1>2, FewTokens
<1> HIDE DEF rest
<1>4. (n % 5) + 1 \in {1, 2, 3, 4, 5} /\ n \div 5 \in Nat  OBVIOUS
<1>5. [k \in 1..(n \div 5) |-> "'''''"] \in Seq(Tokens)
  <2> DEFINE five == "'''''"
  <2>1. five \in Tokens  BY Zenon, <1>1
  <2> HIDE DEF five
  <2>2. [k \in 1..(n \div 5) |-> five] \in Seq(Tokens)  BY <1>4, <2>1
  <2> QED BY Zenon, <2>2 DEF five
<1>6. rest[(n % 5) + 1] \in Seq(Tokens)  BY Zenon, <1>3, <1>4
<1> QED BY Zenon, <1>5, <1>6, FewTokens DEF ReadQuotes, rest

LEMMA LinesNextMakes ==
  ASSUME NEW t \in Liners, NEW token \in Tokens
  PROVE  LinesNext(0, t, token) \in Liners
<1> DEFINE line == t.line \o ReadQuotes(t.quotes)
<1>1. t.lines \in Seq(Seq(Tokens)) /\ t.line \in Seq(Tokens) /\ t.quotes \in Nat
  BY DEF Liners
<1>2. line \in Seq(Tokens)  BY Zenon, <1>1, ReadQuotesAre, FewTokens
<1> HIDE DEF line
<1>3. [t EXCEPT !.quotes = @ + QuotesOf(token)] \in Liners
  <2>1. t.quotes + QuotesOf(token) \in Nat  BY <1>1 DEF QuotesOf
  <2> QED BY <2>1 DEF Liners
<1>4. [lines |-> Append(t.lines, line), line |-> <<>>, quotes |-> 0] \in Liners
  BY <1>1, <1>2 DEF Liners
<1>5. [t EXCEPT !.line[Len(line)] = RunTogether] \in Liners
  <2> DEFINE word == RunTogether
             longer == [t.line EXCEPT ![Len(line)] = word]
  <2>1. word \in Tokens  BY Zenon, LiteralTokens
  <2> HIDE DEF word
  <2>2. longer \in Seq(Tokens)
    <3> DEFINE n == Len(t.line)
    <3>1. n \in Nat /\ t.line \in [1..n -> Tokens]  BY <1>1
    <3> HIDE DEF n
    <3>2. longer \in [1..n -> Tokens]  BY <2>1, <3>1
    <3> HIDE DEF longer
    <3> QED BY <3>1, <3>2
  <2> HIDE DEF longer
  <2>3. [t EXCEPT !.line = longer] \in Liners  BY <2>2 DEF Liners
  <2>4. [t EXCEPT !.line[Len(line)] = word] = [t EXCEPT !.line = longer]
    BY DEF longer
  <2> QED BY Zenon, <2>3, <2>4 DEF word
<1>6. [t EXCEPT !.line = Append(line, token), !.quotes = 0] \in Liners
  <2>1. Append(line, token) \in Seq(Tokens)  BY <1>2
  <2> QED BY <2>1 DEF Liners
<1>7. AddToken(t, token, line) \in Liners
  BY Zenon, <1>4, <1>5, <1>6 DEF AddToken
<1> QED BY Zenon, <1>3, <1>7 DEF LinesNext, line

NoLines == [lines |-> <<>>, line |-> <<>>, quotes |-> 0]

LEMMA LinesOfAre ==
  ASSUME NEW tokens \in Seq(Tokens)
  PROVE  LinesOf(tokens) \in Seq(Seq(Tokens))
<1> DEFINE all == Append(tokens, NL)
           n == Len(all)
<1>1. n \in Nat /\ DOMAIN all = 1..n /\ \A k \in 1..n : all[k] \in Tokens
  <2>1. all \in Seq(Tokens)  BY WrittenTokens
  <2> QED BY <2>1, LineIs
<1>2. MakesLines(0, 0, NoLines)  BY DEF MakesLines, Liners, NoLines
<1> HIDE DEF n, all
<1>3. H!Preserves(0, all, n)
  BY Zenon, <1>1, LinesNextMakes DEF H!Preserves, MakesLines
<1>4. MakesLines(0, n, H!Fold(0, NoLines, all))
  BY <1>1, <1>2, <1>3, H!FoldKeeps
<1>5. LinesOf(tokens) = H!Fold(0, NoLines, all).lines
  BY Zenon DEF LinesOf, H!Fold, LinesNext, FoldLeft, MapThenFoldSet, H!MapThenFoldSet, Max, H!Max,
               NoLines, all
<1> QED BY <1>4, <1>5 DEF MakesLines, Liners

LEMMA StrippedAre ==
  ASSUME NEW lines \in Seq(Seq(Tokens))
  PROVE  Stripped(lines) \in Seq(Seq(Tokens))
<1> DEFINE n == Len(lines)
           solid == {k \in DOMAIN lines : lines[k] # <<>>}
           from == Min(solid)
           ends == {Max(solid) + 1, n}
           to == Min(ends)
<1>1. n \in Nat /\ DOMAIN lines = 1..n  OBVIOUS
<1>2. <<<<>>>> \in Seq(Seq(Tokens))  OBVIOUS
<1>3. CASE solid = {}  BY Zenon, <1>2, <1>3 DEF Stripped
<1>4. CASE solid # {}
  <2>1. solid \in SUBSET (0..n) /\ solid \in SUBSET Nat /\ solid \in SUBSET (1..n)
    BY <1>1
  <2> HIDE DEF solid
  <2>2. E!Min(solid) \in solid /\ E!Max(solid) \in solid
    BY Zenon, <1>1, <1>4, <2>1, E!MinOfNaturals, E!MaxOfBounded
  <2>3. from \in 1..n /\ Max(solid) \in 1..n
    BY Zenon, <2>1, <2>2 DEF Min, Max, E!Min, E!Max
  <2>4. ends \in SUBSET Nat /\ ends # {} /\ n \in ends  BY <1>1, <2>3
  <2>5. to \in Nat /\ to =< n
    <3>1. E!Min(ends) \in ends /\ \A y \in ends : E!Min(ends) =< y
      BY Zenon, <2>4, E!MinOfNaturals
    <3> HIDE DEF ends
    <3> QED BY Zenon, <2>4, <3>1 DEF Min, E!Min
  <2> HIDE DEF from, to
  <2>6. SubSeq(lines, from, to) \in Seq(Seq(Tokens))  BY <1>1, <2>3, <2>5
  <2> QED BY Zenon, <1>4, <2>6 DEF Stripped, from, to, ends, n, solid
<1> QED BY Zenon, <1>3, <1>4

LEMMA TextWritten ==
  ASSUME NEW nodes \in Seq(Node)
  PROVE  DomToWikitext(nodes) \in Seq(Seq(Tokens))
BY Zenon, NodesWrite, LinesOfAre, StrippedAre DEF DomToWikitext, NothingWritten

-----------------------------------------------------------------------------
(* What holds of every behaviour *)

\* The text, the document and the history are what the conversions make, and every
\* element of a document is ended, in its order: of any lines, for any number of looks.
THEOREM TypeCorrect == Spec => []TypeOK
<1>1. Init => TypeOK
  <2>1. 0 \in 0..MaxLooks  BY BoundsAssumption
  <2>2. <<<<>>>> \in Seq(Seq(Tokens)) /\ <<>> \in Seq(Node)  OBVIOUS
  <2> QED BY Zenon, <2>1, <2>2, NoNodes DEF Init, TypeOK, IsWellNested
<1>2. TypeOK /\ [Next]_vars => TypeOK'
  <2> SUFFICES ASSUME TypeOK, [Next]_vars
               PROVE  TypeOK'
    OBVIOUS
  <2>1. ASSUME NEW line \in Lines, TypeLine(line)
        PROVE  TypeOK'
    <3>1. line \in Seq(Tokens) /\ text \in Seq(Seq(Tokens))
      BY Zenon, LinesAssumption DEF TypeOK
    <3>2. <<line>> \in Seq(Seq(Tokens)) /\ Append(text, line) \in Seq(Seq(Tokens))
      BY <3>1
    <3> QED BY Zenon, <2>1, <3>2 DEF TypeLine, TypeOK, IsWellNested
  <2>2. CASE LoadWysiwygDocument
    <3>1. looks + 1 \in 0..MaxLooks
      BY <2>2, BoundsAssumption DEF LoadWysiwygDocument, TypeOK
    <3>2. ~ReadText(text).thrown /\ doc' = ReadText(text).doc
      BY Zenon, <2>2 DEF LoadWysiwygDocument
    <3>3. doc' \in Seq(Node) /\ IsWellNested(doc')
      BY Zenon, <3>2, TextRead DEF TypeOK
    <3>4. Tidy(source, doc') \in BOOLEAN  BY Zenon DEF Tidy
    <3>5. first' \in Seq(Node) /\ tidy' \in BOOLEAN
      BY Zenon, <2>2, <3>3, <3>4 DEF LoadWysiwygDocument, TypeOK
    <3> QED
      BY Zenon, <2>2, <3>1, <3>3, <3>5 DEF LoadWysiwygDocument, TypeOK, IsWellNested
  <2>3. CASE LoadWikiText
    <3>1. DomToWikitext(doc) \in Seq(Seq(Tokens))
      BY Zenon, TextWritten DEF TypeOK
    <3>2. <<>> \in Seq(Node)  OBVIOUS
    <3> QED
      BY Zenon, <2>3, <3>1, <3>2, NoNodes DEF LoadWikiText, TypeOK, IsWellNested
  <2>4. CASE UNCHANGED vars  BY Zenon, <2>4 DEF vars, TypeOK, IsWellNested
  <2> QED BY Zenon, <2>1, <2>2, <2>3, <2>4 DEF Next
<1> QED BY <1>1, <1>2, PTL DEF Spec

\* The rich text shows all the words of the text area, in their order, those behind a
\* rule apart.  A text may overlap its markup, leave blocks open and close what is not
\* open: each rule of the reader puts the words that it takes into the document, and
\* none takes any out.
THEOREM WordsAreShown == Spec => NothingIsHidden
<1>1. TypeOK /\ [Next]_vars =>
        [Looks /\ (\A k \in DOMAIN text : ~HidesWords(text[k])) => WordsShown(doc') = WordsIn(text)]_vars
  <2> SUFFICES ASSUME TypeOK, Next, Looks, \A k \in DOMAIN text : ~HidesWords(text[k])
               PROVE  WordsShown(doc') = WordsIn(text)
    BY Zenon
  <2>1. LoadWysiwygDocument
    <3>1. \A line : ~TypeLine(line)  BY Zenon DEF TypeLine, Looks
    <3>2. ~LoadWikiText  BY DEF LoadWikiText, Looks
    <3> QED BY Zenon, <3>1, <3>2 DEF Next
  <2>2. ~ReadText(text).thrown /\ doc' = ReadText(text).doc /\ text \in Seq(Seq(Tokens))
    BY Zenon, <2>1 DEF LoadWysiwygDocument, TypeOK
  <2> QED BY Zenon, <2>2, TextRead
<1> QED BY <1>1, TypeCorrect, PTL DEF Spec, NothingIsHidden

===============================================================================
