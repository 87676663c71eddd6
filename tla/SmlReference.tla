---------------------------- MODULE SmlReference ------------------------------
(***************************************************************************)
(* What SML text means, without a parser: which sequences of tokens spell  *)
(* an item, and what the limits allow.  The properties compare SmlText     *)
(* with it.                                                                *)
(***************************************************************************)
EXTENDS SmlText, FiniteSetsExt

IsList(item) == Type(item) = <<"L">>

RECURSIVE Subitems(_)

\* The item and everything in it.
Subitems(item) ==
  {item} \cup IF IsList(item) THEN UNION {Subitems(x) : x \in ToSet(Values(item))} ELSE {}

RECURSIVE Depth(_)

Depth(item) == IF IsList(item) THEN 1 + Max({0} \cup {Depth(x) : x \in ToSet(Values(item))}) ELSE 0

RECURSIVE Total(_)

Total(item) == 1 + IF IsList(item) THEN FoldLeft(LAMBDA n, x : n + Total(x), 0, Values(item)) ELSE 0

WithinLimits(item) ==
  /\ Depth(item) <= MaxDepth /\ Total(item) <= MaxTotalItems
  /\ \A x \in Subitems(item) :
       Len(Values(x)) * Width(Type(x)) <= IF IsList(x) THEN MaxListItems ELSE MaxItemBytes

Renderable(item) ==
  /\ Depth(item) <= MaxNestingDepth
  /\ \A x \in Subitems(item) :
       /\ Type(x) \in ItemKinds
       /\ Type(x)[1] = "F" => \A v \in ToSet(Values(x)) : Finite(Type(x), v)
       /\ Len(Values(x)) * Width(Type(x)) <= MaxEncodedLength

\* Tokens between the header of a leaf and its `>'.
SpellsLeaf(ts, item) ==
  /\ \A t \in ToSet(ts) : t[1] \in ElementClass(Type(item)) /\ ValueError(Type(item), t) = None
  /\ FlattenSeq([i \in DOMAIN ts |-> ElementValues(Type(item), ts[i])]) = Values(item)

RECURSIVE Spells(_, _)
RECURSIVE SpellsAll(_, _)

Spells(ts, item) ==
  /\ Len(ts) >= 3 /\ ts[1] = <<"Lt">> /\ ts[2] = <<"Word", Type(item)>> /\ Last(ts) = <<"Gt">>
  /\ LET counted == Len(ts) >= 6 /\ ts[3] = <<"LBracket">>
         body == SubSeq(ts, IF counted THEN 6 ELSE 3, Len(ts) - 1)
     IN  /\ counted => ts[4] = <<"Int", Len(Values(item)), FALSE>> /\ ts[5] = <<"RBracket">>
         /\ IF IsList(item) THEN SpellsAll(body, Values(item)) ELSE SpellsLeaf(body, item)

SpellsAll(ts, items) ==
  IF items = <<>> THEN ts = <<>>
  ELSE \E n \in 1..Len(ts) :
         Spells(SubSeq(ts, 1, n), Head(items)) /\ SpellsAll(SubSeq(ts, n + 1, Len(ts)), Tail(items))

-----------------------------------------------------------------------------
(* Texts of small items and messages, with and without counts.            *)

Framed(type, n, bodies) ==
  {<<<<"Lt">>, <<"Word", type>>>> \o count \o body \o <<<<"Gt">>>> :
     count \in {<<>>, <<<<"LBracket">>, <<"Int", n, FALSE>>, <<"RBracket">>>>}, body \in bodies}

OneTexts == Framed(<<"U", 1>>, 1, {<<<<"Int", 1, FALSE>>>>})
EmptyTexts == Framed(<<"L">>, 0, {<<>>})

ListTexts ==
  EmptyTexts \cup Framed(<<"L">>, 1, OneTexts) \cup Framed(<<"L">>, 1, Framed(<<"L">>, 1, OneTexts))
    \cup Framed(<<"L">>, 2, {a \o b : a \in OneTexts, b \in EmptyTexts})
    \cup Framed(<<"L">>, 2, {a \o b : a \in EmptyTexts, b \in OneTexts})

LeafTexts ==
  Framed(<<"A">>, 0, {<<>>})
    \cup Framed(<<"A">>, 2, {<<<<"Str", <<1, 2>>>>>>, <<<<"Str", <<1>>>>, <<"Hex", 1>>>>,
                             <<<<"Hex", 1>>, <<"Hex", 1>>>>})
    \cup Framed(<<"B">>, 1, {<<<<"Hex", 7>>>>})
    \cup Framed(<<"BOOLEAN">>, 2, {<<<<"Word", <<"TRUE">>>>, <<"Word", <<"FALSE">>>>>>})
    \cup Framed(<<"I", 1>>, 1, {<<<<"Int", -1, FALSE>>>>, <<<<"Hex", 1>>>>})
    \cup Framed(<<"U", 2>>, 1, {<<<<"Int", 1, FALSE>>>>, <<<<"Hex", 1>>>>})
    \cup Framed(<<"F", 4>>, 1, {<<<<"Float", 3>>>>})

Sentences ==
  {[message |-> FALSE, text |-> t \o <<<<"End">>>>] : t \in ListTexts \cup LeafTexts}
    \cup {[message |-> TRUE,
           text |-> <<<<"Word", <<"S", 1, "F", 13>>>>, <<"Word", <<"W">>>>>> \o t \o <<<<"Dot">>, <<"End">>>>] :
            t \in {<<>>} \cup ListTexts \cup LeafTexts}

\* By length, what these texts begin with.
Beginnings ==
  [n \in 1..20 |-> {[message |-> x.message, text |-> SubSeq(x.text, 1, n)] :
                     x \in {y \in Sentences : Len(y.text) >= n}}]

-----------------------------------------------------------------------------
(* Properties.                                                             *)

\* The parser never holds more than its limits, at any point of any text and
\* not only in what it accepts: open Lists, children, bytes of the item that is
\* being read and items in all.
ParserIsBounded ==
  /\ Len(s.stack) <= MaxDepth /\ s.nodes <= MaxTotalItems
  /\ \A i \in DOMAIN s.stack : Len(s.stack[i].children) <= MaxListItems
  /\ Len(s.leaf) * Width(s.kind) <= MaxItemBytes

\* Whatever text the parser accepts spells exactly the message it returns, to
\* the end of the input, and the message is within the limits.
ParsedIsSpelled ==
  s.result = "Ok" =>
    LET front == IF s.message
                 THEN <<<<"Word", <<"S", s.header[1], "F", s.header[2]>>>>>>
                      \o IF s.wait THEN <<<<"Word", <<"W">>>>>> ELSE <<>>
                 ELSE <<>>
        back  == (IF s.message THEN <<<<"Dot">>>> ELSE <<>>) \o <<<<"End">>>>
        ts    == SubSeq(text, Len(front) + 1, Len(text) - Len(back))
    IN  /\ text = front \o ts \o back
        /\ IF s.body = <<>> THEN s.message /\ ts = <<>>
           ELSE Spells(ts, s.body[1]) /\ WithinLimits(s.body[1])

\* No text within the limits is refused, and none that could still become one
\* is refused early: when the parser gives up, no sentence begins with the
\* tokens it has scanned, one of lookahead included.
NoSentenceRefused ==
  given = None /\ s.result \notin {None, "Ok"} /\ Len(text) \in DOMAIN Beginnings =>
    [message |-> s.message, text |-> text] \notin Beginnings[Len(text)]

\* The parser accepts exactly the texts that spell a message within the limits,
\* returns what they spell, gives up at the first token no such text has, and
\* applies the limits while it reads.
ParseIsExact == ParserIsBounded /\ ParsedIsSpelled /\ NoSentenceRefused

\* What is formatted is parsed again to the same document, unless the parser's
\* limits are smaller; the formatter refuses exactly what no text can say,
\* before anything is written.
RoundTrip ==
  given # None =>
    /\ phase = "parse" /\ s.result = "Ok" =>
         <<s.header, s.wait, s.body>> = <<given.header, given.wait, given.body>>
    /\ phase = "parse" /\ s.result \notin {None, "Ok"} =>
         \E x \in ToSet(given.body) : ~WithinLimits(x)
    /\ phase \in {"check", "measure"} /\ s.result # None =>
         \E x \in ToSet(given.body) : ~Renderable(x)
    /\ phase \in {"render", "parse"} => \A x \in ToSet(given.body) : Renderable(x)

=============================================================================
