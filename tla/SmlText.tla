------------------------------- MODULE SmlText --------------------------------
(***************************************************************************)
(* SML text: the canonical formatter (src/sml/formatter.rs) and the strict *)
(* parser with its lazily scanned, one-token lookahead (src/sml/parser.rs).*)
(*                                                                         *)
(* Text is a sequence of tokens; the layout between them is left out.  A   *)
(* token is a tuple that begins with its kind; a word is the sequence of   *)
(* its runs of letters and digits (S1F13 is <<"S", 1, "F", 13>>).  An item *)
(* is <<type, values>>, its type the word that names it.  Bytes are scaled *)
(* to Radix values, floats are in halves (2 is 1.0), Booleans 1 and 0.     *)
(***************************************************************************)
EXTENDS Integers, SequencesExt

CONSTANTS
  None,
  Radix,             \* values of one byte, in place of 256; half are ASCII
  Quotable,          \* bytes that may stand inside quotes
  F4Limit, F8Limit,  \* the first values that are not finite
  MaxDepth, MaxTotalItems, MaxListItems, MaxItemBytes,   \* DecodeLimits
  MaxNestingDepth,   \* MAX_DECODE_NESTING_DEPTH
  MaxEncodedLength,  \* the largest Length field
  Documents,         \* what is formatted: [header, wait, body]
  Alphabets          \* [tokens, length]: what arbitrary texts are made of, and their bound

ASSUME SmlAssumption ==
  /\ Radix \in Nat \ {0, 1} /\ Quotable \subseteq 0..(Radix \div 2 - 1)
  /\ MaxDepth \in 1..MaxNestingDepth /\ MaxItemBytes \in 1..MaxEncodedLength
  /\ MaxTotalItems \in Nat \ {0} /\ MaxListItems \in Nat \ {0}

VARIABLES
  given,    \* the document that is formatted, or None
  phase,    \* check, measure, render, parse
  work,     \* the walk's explicit stack, its top first
  source,   \* what was written; None: an arbitrary text
  text,     \* what was scanned so far, the end of the input included
  look,     \* the lookahead, or None
  s         \* the parser

vars == <<given, phase, work, source, text, look, s>>

Type(item) == item[1]
Values(item) == item[2]

MaxStream == 127
MaxFunction == 255

Widths == {1, 2, 4, 8}

\* ItemKind: the types of the strict dialect.
ItemKinds ==
  {<<"L">>, <<"B">>, <<"BOOLEAN">>, <<"A">>, <<"F", 4>>, <<"F", 8>>}
    \cup {<<c, w>> : c \in {"I", "U"}, w \in Widths}

\* J and JIS8 exist in SECS-II and are refused.
UnsupportedTypes == {<<"J">>, <<"JIS", 8>>}

Width(kind) == IF Len(kind) = 2 THEN kind[2] ELSE 1

\* IntegerElement::from_scanned.
InRange(kind, n) ==
  IF kind[1] = "U" THEN n \in 0..(Radix ^ Width(kind) - 1)
  ELSE n \in -(Radix ^ Width(kind) \div 2)..(Radix ^ Width(kind) \div 2 - 1)

\* The conversion of parse_float_body, and is_finite.
Finite(kind, n) == n < IF kind = <<"F", 4>> THEN F4Limit ELSE F8Limit

-----------------------------------------------------------------------------
(* The formatter.  A document has a header <<stream, function>>, or <<>>   *)
(* when it is an item alone, and a body <<item>> or <<>>.                  *)

\* check_sml_semantics: of one node of the preorder walk.
SemanticError(item, level) ==
  CASE Type(item) \in {<<"J">>, <<"C">>} -> "UnsupportedType"
    [] Type(item)[1] = "F" ->
         IF \E v \in ToSet(Values(item)) : ~Finite(Type(item), v) THEN "NonFiniteFloat" ELSE None
    [] Type(item) = <<"L">> -> IF level > MaxNestingDepth THEN "DepthExceeded" ELSE None
    [] OTHER -> None

\* EncodedItemPlan::new.
EncodeFailure(item) ==
  IF Len(Values(item)) * Width(Type(item)) > MaxEncodedLength THEN "NotEncodable" ELSE None

\* Children at their level, to be visited in their order.
Children(item, level) ==
  IF Type(item) = <<"L">> THEN [i \in DOMAIN Values(item) |-> <<Values(item)[i], level + 1>>]
  ELSE <<>>

\* One node of the two walks of validate_and_measure: nothing is written
\* before both have seen the whole tree.
Visit ==
  /\ phase \in {"check", "measure"} /\ work # <<>> /\ s.result = None
  /\ LET item == work[1][1]
         level == work[1][2]
         error == IF phase = "check" THEN SemanticError(item, level) ELSE EncodeFailure(item)
     IN  IF error # None THEN s' = [s EXCEPT !.result = error] /\ UNCHANGED work
         ELSE work' = Children(item, level) \o Tail(work) /\ UNCHANGED s
  /\ UNCHANGED <<given, phase, source, text, look>>

HeaderTokens ==
  IF given.header = <<>> THEN <<>>
  ELSE <<<<"Word", <<"S", given.header[1], "F", given.header[2]>>>>>>
       \o IF given.wait THEN <<<<"Word", <<"W">>>>>> ELSE <<>>

\* format_message writes the header once the body is validated.
Validated ==
  /\ phase \in {"check", "measure"} /\ work = <<>>
  /\ phase' = IF phase = "check" THEN "measure" ELSE "render"
  /\ work' = [i \in DOMAIN given.body |-> <<given.body[i], 1>>]
  /\ source' = IF phase = "check" THEN <<>> ELSE HeaderTokens
  /\ UNCHANGED <<given, text, look, s>>

\* write_ascii_body: maximal quoted runs, and every other byte as 0xHH.
AsciiBody(bytes) ==
  FoldLeft(LAMBDA ts, b :
             IF b \notin Quotable THEN Append(ts, <<"Hex", b>>)
             ELSE IF ts # <<>> /\ Last(ts)[1] = "Str"
             THEN Append(Front(ts), <<"Str", Append(Last(ts)[2], b)>>)
             ELSE Append(ts, <<"Str", <<b>>>>),
           <<>>, bytes)

\* Mutant: an integral value is written as it displays.
FloatToken_AsDisplayed(v) == IF v % 2 = 0 THEN <<"Int", v \div 2, FALSE>> ELSE <<"Float", v>>

\* write_float_item: an integral value displays as an integer and gets ".0".
FloatToken(v) == <<"Float", v>>

\* The elements of write_item_open, write_scalar_item and write_float_item.
ElementTokens(item) ==
  LET each(Op(_)) == [i \in DOMAIN Values(item) |-> Op(Values(item)[i])]
  IN  CASE Type(item) = <<"B">> -> each(LAMBDA v : <<"Hex", v>>)
        [] Type(item) = <<"BOOLEAN">> ->
             each(LAMBDA v : <<"Word", <<IF v = 1 THEN "TRUE" ELSE "FALSE">>>>)
        [] Type(item) = <<"A">> -> AsciiBody(Values(item))
        [] Type(item)[1] = "F" -> each(FloatToken)
        [] Type(item)[1] \in {"I", "U"} -> each(LAMBDA v : <<"Int", v, FALSE>>)
        [] Type(item) = <<"L">> -> <<>>

\* write_item_text: an item, with the `>' of a List that has children deferred.
RenderItem ==
  /\ phase = "render" /\ work # <<>> /\ work[1] # <<"Close">>
  /\ LET item == work[1][1]
         open == <<<<"Lt">>, <<"Word", Type(item)>>, <<"LBracket">>,
                   <<"Int", Len(Values(item)), FALSE>>, <<"RBracket">>>> \o ElementTokens(item)
     IN  IF Type(item) = <<"L">> /\ Values(item) # <<>>
         THEN /\ source' = source \o open
              /\ work' = Append(Children(item, work[1][2]), <<"Close">>) \o Tail(work)
         ELSE source' = source \o Append(open, <<"Gt">>) /\ work' = Tail(work)
  /\ UNCHANGED <<given, phase, text, look, s>>

RenderClose ==
  /\ phase = "render" /\ work # <<>> /\ work[1] = <<"Close">>
  /\ source' = Append(source, <<"Gt">>) /\ work' = Tail(work)
  /\ UNCHANGED <<given, phase, text, look, s>>

\* A message ends with a period; then it is parsed.
Rendered ==
  /\ phase = "render" /\ work = <<>> /\ phase' = "parse"
  /\ source' = IF given.header = <<>> THEN source ELSE Append(source, <<"Dot">>)
  /\ UNCHANGED <<given, work, text, look, s>>

Format == Visit \/ Validated \/ RenderItem \/ RenderClose \/ Rendered

-----------------------------------------------------------------------------
(* The parser.                                                             *)

\* parse_message and parse_item; ItemCursor::new.
NewParser(message) ==
  [pc |-> IF message THEN "header" ELSE "item", message |-> message, header |-> <<>>,
   wait |-> FALSE, kind |-> <<>>, declared |-> None, leaf |-> <<>>, stack |-> <<>>, nodes |-> 0,
   body |-> <<>>, result |-> None]

\* What an arbitrary text may go on with.
Continuations ==
  UNION {a.tokens : a \in {b \in Alphabets : Len(text) < b.length /\ ToSet(text) \subseteq b.tokens}}

\* Scanner::next_token on demand; a Bad token is a lexical error.
Scan ==
  /\ phase = "parse" /\ s.result = None /\ look = None
  /\ \E t \in IF source = None THEN {<<"End">>} \cup Continuations
              ELSE {IF Len(text) < Len(source) THEN source[Len(text) + 1] ELSE <<"End">>} :
       /\ text' = Append(text, t)
       /\ IF t[1] = "Bad" THEN s' = [s EXCEPT !.result = t[2]] /\ UNCHANGED look
          ELSE look' = t /\ UNCHANGED s
  /\ UNCHANGED <<given, phase, work, source>>

\* A step at control point pc: `next' consumes the lookahead, `peek' does not.
At(pc) ==
  /\ phase = "parse" /\ s.result = None /\ look # None /\ s.pc = pc
  /\ UNCHANGED <<given, phase, work, source, text>>

Consume == look' = None
Keep == UNCHANGED look

Is(kind) == look[1] = kind
Fail(error) == s' = [s EXCEPT !.result = error]

\* parse_header_word: S, digits, F, digits and nothing else.
HeaderShape(word) == Len(word) = 4 /\ word[1] = "S" /\ word[3] = "F"

ReadHeader ==
  /\ At("header") /\ Consume
  /\ IF ~Is("Word") THEN Fail("UnexpectedToken")
     ELSE IF ~HeaderShape(look[2]) THEN Fail("InvalidMessageHeader")
     ELSE IF look[2][2] > MaxStream THEN Fail("StreamOutOfRange")
     ELSE IF look[2][4] > MaxFunction THEN Fail("FunctionOutOfRange")
     ELSE s' = [s EXCEPT !.pc = "wait", !.header = <<look[2][2], look[2][4]>>]

ReadWaitBit ==
  /\ At("wait")
  /\ IF look = <<"Word", <<"W">>>> THEN Consume /\ s' = [s EXCEPT !.pc = "body", !.wait = TRUE]
     ELSE Keep /\ s' = [s EXCEPT !.pc = "body"]

ReadBody ==
  /\ At("body") /\ Keep
  /\ s' = [s EXCEPT !.pc = IF Is("Lt") THEN "item" ELSE "end"]

\* parse_one_item: `<' and the total of items.
StartItem ==
  /\ At("item") /\ Consume
  /\ IF ~Is("Lt") THEN Fail("UnexpectedToken")
     ELSE IF s.nodes + 1 > MaxTotalItems THEN Fail("TotalItemsExceeded")
     ELSE s' = [s EXCEPT !.pc = "type", !.nodes = @ + 1]

\* Mutant: the List that would be too deep is opened.
TooDeep_OffByOne(kind) == kind = <<"L">> /\ Len(s.stack) > MaxDepth

\* Mutant: the deepest List that is allowed is refused.
TooDeep_Early(kind) == kind = <<"L">> /\ Len(s.stack) + 1 >= MaxDepth

TooDeep(kind) == kind = <<"L">> /\ Len(s.stack) + 1 > MaxDepth

\* classify_item_type, and the depth of a List, before its count is scanned.
ReadType ==
  /\ At("type") /\ Consume
  /\ IF ~Is("Word") THEN Fail("UnexpectedToken")
     ELSE IF look[2] \in UnsupportedTypes THEN Fail("UnsupportedType")
     ELSE IF look[2] \notin ItemKinds THEN Fail("UnknownType")
     ELSE IF TooDeep(look[2]) THEN Fail("DepthExceeded")
     ELSE s' = [s EXCEPT !.pc = "count", !.kind = look[2]]

\* The declared count against the limits: check_declared_bytes, or a List.
BeginBody(declared) ==
  LET claim == IF declared = None THEN 0 ELSE declared
  IN  IF s.kind = <<"L">>
      THEN IF claim > MaxListItems THEN Fail("ListItemsExceeded")
           ELSE s' = [s EXCEPT !.pc = "list", !.declared = None,
                               !.stack = Append(@, [children |-> <<>>, declared |-> declared])]
      ELSE IF claim * Width(s.kind) > MaxItemBytes THEN Fail("ItemBytesExceeded")
      ELSE s' = [s EXCEPT !.pc = "leaf", !.declared = declared, !.leaf = <<>>]

\* parse_declared_count.
ReadCount ==
  /\ At("count")
  /\ IF Is("LBracket") THEN Consume /\ s' = [s EXCEPT !.pc = "number"]
     ELSE Keep /\ BeginBody(None)

ReadNumber ==
  /\ At("number") /\ Consume
  /\ IF Is("Int") /\ ~look[3] /\ look[2] >= 0
     THEN s' = [s EXCEPT !.pc = "bracket", !.declared = look[2]]
     ELSE Fail("InvalidCount")

ReadBracket ==
  /\ At("bracket") /\ Consume
  /\ IF Is("RBracket") THEN BeginBody(s.declared) ELSE Fail("UnexpectedToken")

\* What an element may be: parse_binary_body, parse_boolean_body,
\* parse_ascii_body, parse_integer_body and parse_float_body.
ElementClass(kind) ==
  CASE kind = <<"B">> -> {"Hex"} [] kind = <<"BOOLEAN">> -> {"Word"} [] kind = <<"A">> -> {"Str", "Hex"}
    [] kind[1] \in {"I", "U"} -> {"Int", "Hex"} [] kind[1] = "F" -> {"Float"}

\* Mutant: the quotes of a fragment are counted.
Gain_Quotes(t) == IF t[1] = "Str" THEN Len(t[2]) + 2 ELSE 1

\* How many values a token stands for: a fragment is all its characters.
Gain(t) == IF t[1] = "Str" THEN Len(t[2]) ELSE 1

\* What is wrong with the value of an element of the right class.
ValueError(kind, t) ==
  CASE kind = <<"BOOLEAN">> -> IF t[2] \in {<<"TRUE">>, <<"FALSE">>} THEN None ELSE "InvalidBoolean"
    [] kind = <<"A">> -> IF t[1] = "Hex" /\ t[2] >= Radix \div 2 THEN "InvalidAsciiByte" ELSE None
    [] kind[1] \in {"I", "U"} -> IF InRange(kind, t[2]) THEN None ELSE "IntegerOverflow"
    [] kind[1] = "F" -> IF Finite(kind, t[2]) THEN None ELSE "NonFiniteFloat"
    [] OTHER -> None

ElementValues(kind, t) ==
  IF t[1] = "Str" THEN t[2]
  ELSE <<IF kind = <<"BOOLEAN">> THEN (IF t[2] = <<"TRUE">> THEN 1 ELSE 0) ELSE t[2]>>

\* admit_body_element: the count with the new element.
Admitted(t) == Len(s.leaf) + Gain(t)

ReadElement ==
  /\ At("leaf") /\ ~Is("Gt") /\ Consume
  /\ IF look[1] \notin ElementClass(s.kind) THEN Fail("UnexpectedToken")
     ELSE IF Admitted(look) * Width(s.kind) > MaxItemBytes THEN Fail("ItemBytesExceeded")
     ELSE IF s.declared # None /\ Admitted(look) > s.declared THEN Fail("CountMismatch")
     ELSE IF ValueError(s.kind, look) # None THEN Fail(ValueError(s.kind, look))
     ELSE s' = [s EXCEPT !.leaf = @ \o ElementValues(s.kind, look)]

\* attach: to the innermost open List, or the root is complete.
Attach(stack, item) ==
  IF stack = <<>>
  THEN s' = [s EXCEPT !.stack = stack, !.body = <<item>>, !.leaf = <<>>,
                      !.pc = IF s.message THEN "end" ELSE "trail"]
  ELSE LET frame == [Last(stack) EXCEPT !.children = Append(@, item)]
       IN  IF frame.declared = None /\ Len(frame.children) > MaxListItems
           THEN Fail("ListItemsExceeded")
           ELSE s' = [s EXCEPT !.stack = Append(Front(stack), frame), !.leaf = <<>>, !.pc = "list"]

\* check_declared_count.
CloseLeaf ==
  /\ At("leaf") /\ Is("Gt") /\ Consume
  /\ IF s.declared # None /\ Len(s.leaf) # s.declared THEN Fail("CountMismatch")
     ELSE Attach(s.stack, <<s.kind, s.leaf>>)

\* admit_list_child, before the child is scanned.
AdmitChild ==
  /\ At("list") /\ Is("Lt") /\ Keep
  /\ LET frame == Last(s.stack)
         next == Len(frame.children) + 1
     IN  IF next > MaxListItems THEN Fail("ListItemsExceeded")
         ELSE IF frame.declared # None /\ next > frame.declared THEN Fail("CountMismatch")
         ELSE s' = [s EXCEPT !.pc = "item"]

\* Mutant: the count of a List is checked only when it is exceeded.
Complete_Shortfall(frame) == TRUE

Complete(frame) == frame.declared = None \/ frame.declared = Len(frame.children)

CloseList ==
  /\ At("list") /\ ~Is("Lt")
  /\ IF ~Is("Gt") THEN Keep /\ Fail("UnexpectedToken")
     ELSE /\ Consume
          /\ IF ~Complete(Last(s.stack)) THEN Fail("CountMismatch")
             ELSE Attach(Front(s.stack), <<<<"L">>, Last(s.stack).children>>)

ReadTerminator ==
  /\ At("end") /\ Consume
  /\ IF Is("Dot") THEN s' = [s EXCEPT !.pc = "trail"]
     ELSE Fail(IF Is("End") THEN "MissingTerminator" ELSE "UnexpectedToken")

\* Nothing may follow.
ReadTrailing == At("trail") /\ Keep /\ Fail(IF Is("End") THEN "Ok" ELSE "TrailingInput")

Parse ==
  \/ Scan \/ ReadHeader \/ ReadWaitBit \/ ReadBody \/ StartItem \/ ReadType \/ ReadCount
  \/ ReadNumber \/ ReadBracket \/ ReadElement \/ CloseLeaf \/ AdmitChild \/ CloseList
  \/ ReadTerminator \/ ReadTrailing

-----------------------------------------------------------------------------

Init ==
  /\ text = <<>> /\ look = None
  /\ \/ /\ given = None /\ phase = "parse" /\ work = <<>> /\ source = None
        /\ s \in {NewParser(m) : m \in BOOLEAN}
     \/ /\ given \in Documents /\ phase = "check" /\ source = <<>>
        /\ work = [i \in DOMAIN given.body |-> <<given.body[i], 1>>]
        /\ s = NewParser(given.header # <<>>)

\* A result is final.
Finished == s.result # None /\ UNCHANGED vars

Next == Format \/ Parse \/ Finished

Spec == Init /\ [][Next]_vars

=============================================================================
