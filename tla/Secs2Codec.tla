------------------------------ MODULE Secs2Codec ------------------------------
(***************************************************************************)
(* The SECS-II item codec (src/secs2/codec): the explicit-stack decoder of *)
(* decode.rs and the two-pass encoder of encode.rs, one step per iteration *)
(* of their loops, with the limits of limits.rs and the text profile of    *)
(* hsms/profile/secs2.rs.                                                  *)
(*                                                                         *)
(* A behaviour either decodes a text and encodes the item it found, or     *)
(* encodes an item and decodes the bytes.  An item is [code, body]: the    *)
(* children of a List, bytes, Booleans as 0 and 1, the big-endian bytes of *)
(* each number, and for Localized the encoding code before the bytes.      *)
(***************************************************************************)
EXTENDS Integers, Sequences, FiniteSetsExt

CONSTANTS
  None,
  Texts,            \* Message Texts offered to the decoder
  Items,            \* items offered to the encoder
  LengthRadix,      \* values of one Length Byte, 256 in the code
  MaxDepth, MaxTotalItems, MaxItemBytes, MaxListItems

\* MAX_ENCODED_ITEM_LENGTH: three Length Bytes.
MaxEncodedItemLength == LengthRadix * LengthRadix * LengthRadix - 1

\* DecodeLimits::validate.
ValidLimits ==
  /\ MaxDepth \in 1..256 /\ MaxTotalItems \in Nat \ {0} /\ MaxListItems \in Nat \ {0}
  /\ MaxItemBytes \in 1..MaxEncodedItemLength

ASSUME LimitsAssumption == ValidLimits

-----------------------------------------------------------------------------
(* header.rs.                                                              *)

List == 0
Binary == 8
Boolean == 9
Ascii == 16
Jis8 == 17
Localized == 18

\* Fixed-width formats: I8, I1, I2, I4, F8, F4, U8, U1, U2, U4.
Numeric == {24, 25, 26, 28, 32, 36, 40, 41, 42, 44}

\* FormatCode::from_six_bit.
FormatCodes == {List, Binary, Boolean, Ascii, Jis8, Localized} \cup Numeric

\* element_width, for a numeric format.
ElementWidth(code) ==
  CASE code \in {24, 32, 40} -> 8
    [] code \in {28, 36, 44} -> 4
    [] code \in {26, 42}     -> 2
    [] code \in {25, 41}     -> 1

\* Mutant: the largest value of one Length Byte gets a second one, and the first
\* value that needs two does not.
LengthByteCount_OffByOne(length) ==
  IF length <= LengthRadix THEN 1 ELSE IF length < LengthRadix * LengthRadix THEN 2 ELSE 3

\* LengthByteCount::for_declared_length: the smallest count.
LengthByteCount(length) ==
  IF length < LengthRadix THEN 1 ELSE IF length < LengthRadix * LengthRadix THEN 2 ELSE 3

\* format_byte; its inverse is the quotient and the remainder by 4.
FormatByte(code, count) == 4 * code + count

\* The Length Bytes, most significant first.
LengthBytes(length) ==
  LET count == LengthByteCount(length)
      digit(i) == (length \div (CASE i = 0 -> 1 [] i = 1 -> LengthRadix
                                  [] i = 2 -> LengthRadix * LengthRadix)) % LengthRadix
  IN  [i \in 1..count |-> digit(count - i)]

ReadLength(bytes) ==
  CASE Len(bytes) = 1 -> bytes[1]
    [] Len(bytes) = 2 -> LengthRadix * bytes[1] + bytes[2]
    [] Len(bytes) = 3 -> LengthRadix * (LengthRadix * bytes[1] + bytes[2]) + bytes[3]

-----------------------------------------------------------------------------

VARIABLES
  phase,      \* decode, measure, write or done
  origin,     \* the text or the item a behaviour began with
  text, cursor, depth, nodes, frames, pending, decoded,
  item, walker, measured, output, encoded

vars == <<phase, origin, text, cursor, depth, nodes, frames, pending, decoded,
          item, walker, measured, output, encoded>>

decoder == <<cursor, depth, nodes, frames, pending>>
encoder == <<item, walker, measured, output, encoded>>

\* ItemWalker::new.
NewWalker(root) == [next |-> root, parents |-> <<>>]

Init ==
  /\ cursor = 0 /\ depth = 0 /\ nodes = 0 /\ frames = <<>> /\ pending = None
  /\ decoded = None /\ measured = 0 /\ output = <<>> /\ encoded = None
  /\ \/ \E t \in Texts :
          /\ phase = "decode" /\ origin = [kind |-> "text", value |-> t]
          /\ text = t /\ item = None /\ walker = None
     \/ \E i \in Items :
          /\ phase = "measure" /\ origin = [kind |-> "item", value |-> i]
          /\ text = <<>> /\ item = i /\ walker = NewWalker(i)

-----------------------------------------------------------------------------
(* decode.rs.                                                              *)

Ok == [error |-> None, offset |-> 0]
Failed(kind, offset) == [error |-> kind, offset |-> offset]

\* decode_item has its answer: an item goes on to the encoder, or is compared
\* with the one it was encoded from.
Finish(result, found) ==
  /\ decoded' = result
  /\ phase' = IF result = Ok /\ origin.kind = "text" THEN "measure" ELSE "done"
  /\ IF result = Ok /\ origin.kind = "text"
     THEN item' = found /\ walker' = NewWalker(found)
     ELSE item' = (IF result = Ok THEN found ELSE None) /\ UNCHANGED walker
  /\ UNCHANGED <<origin, text, measured, output, encoded>>

\* decode_item refuses the absent text, which decode_text answers with no item.
AbsentText ==
  /\ phase = "decode" /\ text = <<>>
  /\ Finish(Failed("EmptyInput", 0), None)
  /\ UNCHANGED decoder

\* The body of a completed scalar.
Chunks(body, width) ==
  [i \in 1..(Len(body) \div width) |-> SubSeq(body, (i - 1) * width + 1, i * width)]

Elements(code, body) ==
  CASE code = Boolean -> [i \in DOMAIN body |-> IF body[i] # 0 THEN 1 ELSE 0]
    [] code = Localized -> <<256 * body[1] + body[2]>> \o SubSeq(body, 3, Len(body))
    [] code \in Numeric -> Chunks(body, ElementWidth(code))
    [] OTHER -> body

BodyError(code, body) ==
  CASE code \in Numeric /\ Len(body) % ElementWidth(code) # 0 -> "MisalignedNumericPayload"
    [] code = Ascii /\ \E i \in DOMAIN body : body[i] > 127 -> "NonAscii"
    [] code = Localized /\ Len(body) < 2 -> "MissingLocalizedHeader"
    [] code = Localized /\ Len(body) >= 2 /\ body[1] = 0 /\ body[2] = 0 ->
         "ReservedLocalizedEncodingCode"
    [] OTHER -> None

\* read_header.  An input that ends at an item boundary lacks a child of the
\* innermost open List.
ReadHeader ==
  LET byte  == text[cursor + 1]
      count == byte % 4
      error == CASE cursor = Len(text) ->
                      IF frames = <<>> THEN Failed("TruncatedHeader", cursor)
                      ELSE Failed("TruncatedList", frames[Len(frames)].offset)
                 [] cursor < Len(text) /\ count = 0 -> Failed("ZeroLengthByteCount", cursor)
                 [] cursor < Len(text) /\ count # 0 /\ byte \div 4 \notin FormatCodes ->
                      Failed("UnknownFormatCode", cursor)
                 [] cursor < Len(text) /\ count # 0 /\ byte \div 4 \in FormatCodes
                      /\ cursor + 1 + count > Len(text) -> Failed("TruncatedHeader", cursor)
                 [] OTHER -> Ok
  IN  IF error # Ok THEN [result |-> error, code |-> 0, length |-> 0, next |-> cursor]
      ELSE [result |-> Ok, code |-> byte \div 4, next |-> cursor + 1 + count,
            length |-> ReadLength(SubSeq(text, cursor + 2, cursor + 1 + count))]

\* Mutant: an empty List is not checked for depth.
ListError_EmptyIsFree(n, declared) ==
  CASE declared > MaxListItems -> "ListItemsExceeded"
    [] declared <= MaxListItems /\ n + declared > MaxTotalItems -> "TotalItemsExceeded"
    [] declared # 0 /\ declared <= MaxListItems /\ n + declared <= MaxTotalItems
         /\ depth + 1 > MaxDepth -> "DepthExceeded"
    [] OTHER -> None

\* check_list_limits, after note_node has counted the List itself.
ListError(n, declared) ==
  CASE declared > MaxListItems -> "ListItemsExceeded"
    [] declared <= MaxListItems /\ n + declared > MaxTotalItems -> "TotalItemsExceeded"
    [] declared <= MaxListItems /\ n + declared <= MaxTotalItems /\ depth + 1 > MaxDepth ->
         "DepthExceeded"
    [] OTHER -> None

\* decode_scalar.
ScalarError(h) ==
  IF h.length > MaxItemBytes THEN "ItemBytesExceeded"
  ELSE IF h.next + h.length > Len(text) THEN "TruncatedBody"
  ELSE BodyError(h.code, SubSeq(text, h.next + 1, h.next + h.length))

\* Mutant: the node that reaches the limit is let through.
HeaderError_OneMore(h) ==
  CASE h.result # Ok -> h.result.error
    [] h.result = Ok /\ nodes > MaxTotalItems -> "TotalItemsExceeded"
    [] h.result = Ok /\ nodes <= MaxTotalItems ->
         IF h.code = List THEN ListError(nodes, h.length) ELSE ScalarError(h)

\* What refuses the item at the cursor: its header, note_node, its limits or body.
HeaderError(h) ==
  CASE h.result # Ok -> h.result.error
    [] h.result = Ok /\ nodes + 1 > MaxTotalItems -> "TotalItemsExceeded"
    [] h.result = Ok /\ nodes + 1 <= MaxTotalItems ->
         IF h.code = List THEN ListError(nodes + 1, h.length) ELSE ScalarError(h)

\* run, phase 2: the next header is refused.
RefuseItem ==
  LET h == ReadHeader
  IN  /\ phase = "decode" /\ text # <<>> /\ pending = None
      /\ HeaderError(h) # None
      /\ Finish(IF h.result # Ok THEN h.result ELSE Failed(HeaderError(h), cursor), None)
      /\ UNCHANGED decoder

\* run, phase 2: a List with children opens a frame.
EnterList ==
  LET h == ReadHeader
  IN  /\ phase = "decode" /\ text # <<>> /\ pending = None
      /\ HeaderError(h) = None /\ h.code = List /\ h.length > 0
      /\ cursor' = h.next /\ nodes' = nodes + 1 /\ depth' = depth + 1
      /\ frames' = Append(frames, [offset |-> cursor, expected |-> h.length, children |-> <<>>])
      /\ UNCHANGED <<phase, origin, text, pending, decoded, encoder>>

\* run, phase 2: an empty List or a scalar is complete with its header and body.
ReadLeaf ==
  LET h    == ReadHeader
      size == IF h.code = List THEN 0 ELSE h.length
      body == SubSeq(text, h.next + 1, h.next + size)
  IN  /\ phase = "decode" /\ text # <<>> /\ pending = None
      /\ HeaderError(h) = None /\ ~(h.code = List /\ h.length > 0)
      /\ cursor' = h.next + size /\ nodes' = nodes + 1
      /\ pending' = [code |-> h.code, body |-> Elements(h.code, body)]
      /\ UNCHANGED <<phase, origin, text, depth, frames, decoded, encoder>>

\* Mutant: a List closes one child early.
Full_Early(frame) == Len(frame.children) + 1 >= frame.expected

\* A frame has all its children.
Full(frame) == Len(frame.children) >= frame.expected

\* run, phase 1: the innermost List takes the item, and is itself delivered when full.
DeliverChild ==
  /\ phase = "decode" /\ pending # None /\ frames # <<>>
  /\ LET top   == frames[Len(frames)]
         frame == [top EXCEPT !.children = Append(@, pending)]
         below == SubSeq(frames, 1, Len(frames) - 1)
     IN  IF Full(frame)
         THEN /\ frames' = below /\ depth' = depth - 1
              /\ pending' = [code |-> List, body |-> frame.children]
         ELSE /\ frames' = Append(below, frame) /\ pending' = None
              /\ UNCHANGED depth
  /\ UNCHANGED <<phase, origin, text, cursor, nodes, decoded, encoder>>

\* run returns the root; decode_item wants nothing behind it.
DeliverRoot ==
  /\ phase = "decode" /\ pending # None /\ frames = <<>>
  /\ Finish(IF cursor = Len(text) THEN Ok ELSE Failed("TrailingBytes", cursor), pending)
  /\ UNCHANGED decoder

-----------------------------------------------------------------------------
(* encode.rs.                                                              *)

\* declared_length_of, before its bound.
DeclaredLength(i) ==
  CASE i.code \in Numeric   -> Len(i.body) * ElementWidth(i.code)
    [] i.code = Localized   -> Len(i.body) + 1
    [] OTHER                -> Len(i.body)

\* Mutant: exhausted ancestors are not popped beyond the innermost one.
Advance_OneLevel(parents) ==
  LET k == Len(parents)
  IN  IF k = 0 \/ parents[k] = <<>> THEN NewWalker(None)
      ELSE [next |-> Head(parents[k]),
            parents |-> Append(SubSeq(parents, 1, k - 1), Tail(parents[k]))]

\* advance_to_next_sibling_or_descendant.
Advance(parents) ==
  LET live == {k \in DOMAIN parents : parents[k] # <<>>}
      k    == Max(live)
  IN  IF live = {} THEN NewWalker(None)
      ELSE [next |-> Head(parents[k]),
            parents |-> Append(SubSeq(parents, 1, k - 1), Tail(parents[k]))]

\* ItemWalker::next, once its current item is taken.
WalkOn(w) ==
  IF w.next.code = List THEN Advance(Append(w.parents, w.next.body)) ELSE Advance(w.parents)

\* node_wire_size.
NodeSize(i) ==
  LET length == DeclaredLength(i)
  IN  1 + LengthByteCount(length) + (IF i.code = List THEN 0 ELSE length)

\* measure: the next node, or an oversized one.
Measure ==
  /\ phase = "measure" /\ walker.next # None
  /\ IF DeclaredLength(walker.next) > MaxEncodedItemLength
     THEN /\ encoded' = IF walker.next.code = List THEN "ListTooLarge" ELSE "ItemBodyTooLarge"
          /\ phase' = "done"
          /\ UNCHANGED <<measured, walker>>
     ELSE /\ measured' = measured + NodeSize(walker.next)
          /\ walker' = WalkOn(walker)
          /\ UNCHANGED <<phase, encoded>>
  /\ UNCHANGED <<origin, text, decoder, decoded, item, output>>

\* EncodedItemPlan::new has its length; write_item_tree starts over.
BeginWrite ==
  /\ phase = "measure" /\ walker.next = None
  /\ phase' = "write" /\ walker' = NewWalker(item)
  /\ UNCHANGED <<origin, text, decoder, decoded, item, measured, output, encoded>>

\* write_payload.
Payload(i) ==
  CASE i.code \in Numeric ->
         LET width == ElementWidth(i.code)
         IN  [k \in 1..(Len(i.body) * width) |-> i.body[((k - 1) \div width) + 1][((k - 1) % width) + 1]]
    [] i.code = Localized -> <<i.body[1] \div 256, i.body[1] % 256>> \o Tail(i.body)
    [] i.code = List -> <<>>
    [] OTHER -> i.body

\* write_header and write_payload of one node.
NodeBytes(i) ==
  LET length == DeclaredLength(i)
  IN  <<FormatByte(i.code, LengthByteCount(length))>> \o LengthBytes(length) \o Payload(i)

Write ==
  /\ phase = "write" /\ walker.next # None
  /\ output' = output \o NodeBytes(walker.next)
  /\ walker' = WalkOn(walker)
  /\ UNCHANGED <<phase, origin, text, decoder, decoded, item, measured, encoded>>

\* encode_to_vec returns; bytes made from an item are decoded again.
Encoded ==
  /\ phase = "write" /\ walker.next = None
  /\ encoded' = "Ok"
  /\ IF origin.kind = "item" THEN phase' = "decode" /\ text' = output ELSE phase' = "done" /\ UNCHANGED text
  /\ UNCHANGED <<origin, decoder, decoded, item, walker, measured, output>>

\* The calls have returned; any other state without a step would be a deadlock.
Returned == phase = "done" /\ UNCHANGED vars

Next ==
  \/ AbsentText \/ RefuseItem \/ EnterList \/ ReadLeaf \/ DeliverChild \/ DeliverRoot
  \/ Measure \/ BeginWrite \/ Write \/ Encoded \/ Returned

Spec == Init /\ [][Next]_vars

-----------------------------------------------------------------------------
(* Reference: SECS-II by its grammar, and the size of an item.             *)

RECURSIVE Grammar(_, _), Sequence(_, _, _), Depth(_), Count(_), Within(_)

\* The item that begins at byte i of t and the byte behind it, or no item.
NoItem == [item |-> None, next |-> 0]

Grammar(t, i) ==
  IF i > Len(t) THEN NoItem
  ELSE LET count == t[i] % 4
           code  == t[i] \div 4
           begin == i + 1 + count
       IN  IF count = 0 \/ code \notin FormatCodes \/ begin > Len(t) + 1 THEN NoItem
           ELSE LET length == ReadLength(SubSeq(t, i + 1, i + count))
                IN  IF code = List
                    THEN LET children == Sequence(t, begin, length)
                         IN  IF children.next = 0 THEN NoItem
                             ELSE [item |-> [code |-> List, body |-> children.items],
                                   next |-> children.next]
                    ELSE LET body == SubSeq(t, begin, begin + length - 1)
                         IN  IF begin + length > Len(t) + 1 \/ BodyError(code, body) # None
                             THEN NoItem
                             ELSE [item |-> [code |-> code, body |-> Elements(code, body)],
                                   next |-> begin + length]

\* n items from byte i of t on.
Sequence(t, i, n) ==
  IF n = 0 THEN [items |-> <<>>, next |-> i]
  ELSE LET first == Grammar(t, i)
       IN  IF first.next = 0 THEN [items |-> <<>>, next |-> 0]
           ELSE LET rest == Sequence(t, first.next, n - 1)
                IN  [items |-> <<first.item>> \o rest.items, next |-> rest.next]

\* The one item that t encodes.
Denoted(t) ==
  LET root == Grammar(t, 1) IN IF root.next = Len(t) + 1 THEN root.item ELSE None

Depth(i) ==
  IF i.code # List THEN 0
  ELSE 1 + Max({0} \cup {Depth(i.body[k]) : k \in DOMAIN i.body})

Count(i) ==
  1 + (IF i.code # List THEN 0
       ELSE FoldSet(LAMBDA k, n : n + Count(i.body[k]), 0, DOMAIN i.body))

\* Every List and every body of i is within its limit.
Within(i) ==
  IF i.code = List THEN Len(i.body) <= MaxListItems /\ \A k \in DOMAIN i.body : Within(i.body[k])
  ELSE DeclaredLength(i) <= MaxItemBytes

Acceptable(i) == Depth(i) <= MaxDepth /\ Count(i) <= MaxTotalItems /\ Within(i)

-----------------------------------------------------------------------------
(* Properties.                                                             *)

\* decode_item accepts exactly the encodings of one item within the limits, and
\* returns that item: limits that are checked ahead of the children they count
\* never refuse an item that a look at the whole of it would accept, and an item
\* that was encoded comes back unless it is beyond the limits.
DecodeIsExact ==
  decoded # None =>
    LET i == IF origin.kind = "item" THEN origin.value ELSE Denoted(text)
    IN  /\ decoded = Ok <=> text # <<>> /\ i # None /\ Acceptable(i)
        /\ decoded = Ok => item = i

\* While hostile lengths are read, what is kept is paid for by input already
\* read: the stack is within MaxDepth, and items and nodes never outrun headers.
DecoderIsBounded ==
  LET kept == FoldSet(LAMBDA k, n : n + FoldSet(LAMBDA c, m : m + Count(frames[k].children[c]), 1,
                                                DOMAIN frames[k].children), 0, DOMAIN frames)
  IN  /\ depth = Len(frames) /\ depth <= MaxDepth
      /\ nodes <= MaxTotalItems
      /\ 2 * nodes <= cursor
      /\ kept + (IF pending = None THEN 0 ELSE Count(pending)) = nodes

\* The allocation of encode_to_vec is exact, and the bytes denote the item in the
\* shortest form: no text of the same item is shorter.
EncodeIsCanonical ==
  encoded = "Ok" =>
    /\ Len(output) = measured
    /\ origin.kind = "text" => Denoted(output) = item /\ Len(output) <= Len(text)
    /\ origin.kind = "item" => Denoted(output) = origin.value

=============================================================================
