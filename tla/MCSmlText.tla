------------------------------ MODULE MCSmlText -------------------------------
(***************************************************************************)
(* Arbitrary texts over two alphabets, and documents to format.            *)
(***************************************************************************)
EXTENDS SmlReference

Punctuation == {<<"Lt">>, <<"Gt">>, <<"LBracket">>, <<"RBracket">>}

Word(runs) == <<"Word", runs>>

\* Nested Lists with and without counts.
ListTokens ==
  Punctuation \cup {Word(<<"L">>), Word(<<"U", 1>>), <<"Int", 0, FALSE>>, <<"Int", 1, FALSE>>,
                    <<"Int", 2, FALSE>>, <<"Int", 3, FALSE>>, <<"Bad", "InvalidCharacter">>}

\* Every kind of leaf and of element, and messages.
LeafTokens ==
  Punctuation
    \cup {Word(w) : w \in {<<"A">>, <<"B">>, <<"BOOLEAN">>, <<"F", 4>>, <<"I", 1>>, <<"U", 2>>,
                           <<"J">>, <<"Q">>, <<"TRUE">>, <<"FALSE">>, <<"W">>, <<"S", 1, "F", 13>>,
                           <<"S", 1, "F", 13, "W">>, <<"S", 128, "F", 1>>, <<"S", 1, "F", 256>>}}
    \cup {<<"Int", n, FALSE>> : n \in {-1, 1, 2}} \cup {<<"Int", 70, TRUE>>, <<"Int", 1, TRUE>>}
    \cup {<<"Hex", 1>>, <<"Hex", 7>>, <<"Float", 3>>, <<"Float", 20>>, <<"Dot">>,
          <<"Str", <<>>>>, <<"Str", <<1>>>>, <<"Str", <<1, 2>>>>, <<"Bad", "UnterminatedString">>}

MCAlphabets == {[tokens |-> ListTokens, length |-> 13], [tokens |-> LeafTokens, length |-> 10]}

Leaves ==
  {<<<<"A">>, <<>>>>, <<<<"A">>, <<1, 2>>>>, <<<<"A">>, <<3, 1>>>>, <<<<"B">>, <<7>>>>,
   <<<<"BOOLEAN">>, <<1, 0>>>>, <<<<"I", 1>>, <<-1>>>>, <<<<"U", 1>>, <<1, 2>>>>, <<<<"U", 2>>, <<1>>>>}

Floats == {<<<<"F", 4>>, <<3>>>>, <<<<"F", 4>>, <<4>>>>, <<<<"F", 8>>, <<20>>>>}

List(items) == <<<<"L">>, items>>

One == <<<<"U", 1>>, <<1>>>>

Lists ==
  {List(<<>>), List(<<One>>), List(<<One, List(<<>>)>>), List(<<List(<<One>>)>>),
   List(<<List(<<>>), One>>)}

Document(header, wait, body) == [header |-> header, wait |-> wait, body |-> body]

\* Too deep, too long, unsupported and not finite ones included.
MCDocuments ==
  {Document(<<>>, FALSE, <<x>>) :
     x \in Leaves \cup Floats \cup Lists
           \cup {List(<<x>>) : x \in Lists} \cup {List(<<y, x>>) : x \in Lists, y \in Floats}
           \cup {List(<<List(<<List(<<List(<<>>)>>)>>)>>), List(<<One, One, One>>),
                 <<<<"A">>, <<1, 1, 1, 1, 1, 1, 1, 1, 1>>>>, <<<<"J">>, <<1>>>>, List(<<<<<<"C">>, <<1>>>>>>),
                 <<<<"F", 4>>, <<20>>>>, List(<<<<<<"F", 8>>, <<40>>>>, <<<<"J">>, <<>>>>>>),
                 List(<<<<<<"A">>, <<1, 1, 1, 1, 1, 1, 1, 1, 1>>>>, <<<<"J">>, <<>>>>>>)}}
    \cup {Document(<<1, 13>>, w, b) : w \in BOOLEAN, b \in {<<>>, <<One>>, <<List(<<One>>)>>}}

=============================================================================
