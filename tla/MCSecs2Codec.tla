----------------------------- MODULE MCSecs2Codec -----------------------------
(* Small instances of Secs2Codec.                                          *)
EXTENDS Secs2Codec

\* Each byte serves as a header, as a length and as content: 0, List with one or
\* two Length Bytes, an unknown format, Boolean, ASCII, Localized and U2.
ShortTexts == UNION {[1..n -> {0, 1, 2, 5, 37, 65, 73, 169}] : n \in 0..5}

\* Lists of Lists and Booleans, complete, cut short and overlong.
DeepTexts == {<<1>> \o t : t \in UNION {[1..n -> {0, 1, 2, 37}] : n \in 5..7}}

AllTexts == ShortTexts \cup DeepTexts

Zeros(n) == [i \in 1..n |-> 0]

Scalars ==
  {[code |-> Binary, body |-> Zeros(n)] : n \in {0, 1, 2, 3, 8, 9, 10, 26, 27}}
  \cup {[code |-> Boolean, body |-> b] : b \in {<<>>, <<0, 1>>}}
  \cup {[code |-> Localized, body |-> <<258>> \o Zeros(n)] : n \in {0, 1, 7, 8}}
  \cup {[code |-> 42, body |-> b] : b \in {<<>>, <<<<1, 2>>>>, <<<<1, 2>>, <<3, 4>>>>}}
  \cup {[code |-> 44, body |-> <<<<1, 2, 3, 4>>>>], [code |-> 40, body |-> <<Zeros(8)>>]}

Leaves == {[code |-> Boolean, body |-> <<1>>], [code |-> Binary, body |-> Zeros(4)]}

ListsOf(children, sizes) ==
  {[code |-> List, body |-> s] : s \in UNION {[1..n -> children] : n \in sizes}}

SmallLists == ListsOf(Leaves, 0..2)

AllItems ==
  Scalars \cup ListsOf(Leaves, 0..4) \cup ListsOf(Leaves \cup SmallLists, 1..3)
  \cup ListsOf(ListsOf(SmallLists, {1, 2}), {1})
  \cup {[code |-> List, body |-> [i \in 1..n |-> [code |-> List, body |-> <<>>]]] : n \in {5, 8}}

=============================================================================
