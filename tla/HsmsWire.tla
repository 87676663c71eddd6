------------------------------- MODULE HsmsWire -------------------------------
(***************************************************************************)
(* HSMS frames as bytes: the encoder and the length framer                 *)
(* (src/hsms/wire/framer.rs), the structural validator (wire/validator.rs) *)
(* and their composition with the text profile (hsms/codec.rs).            *)
(*                                                                         *)
(* Messages are [type, sid, byte2, byte3, sys] for control and             *)
(* [type, sid, stream, function, reply, sys, body] for Data.  System Bytes *)
(* are their four bytes.  What the SECS-II decoder makes of a Message Text *)
(* is the function TextClass (Secs2Codec models the decoder).              *)
(***************************************************************************)
EXTENDS Integers, Sequences

CONSTANTS
  MaxMessageLength,   \* max_message_length
  TextClass           \* by text: an item, or the error of its decoder

HeaderLength == 10
PrefixLength == 4

\* HsmsConfig::new admits a limit that holds a header; the model keeps it below 2^16.
ASSUME LimitAssumption == MaxMessageLength \in HeaderLength .. 65535

ControlSession == 65535

\* ControlMessage and its SType.
SType ==
  [SelectRequest |-> 1, SelectResponse |-> 2, DeselectRequest |-> 3, DeselectResponse |-> 4,
   LinktestRequest |-> 5, LinktestResponse |-> 6, RejectRequest |-> 7, SeparateRequest |-> 9]

U16(n) == <<n \div 256, n % 256>>

\* The length prefix; the lengths of a model fit its lower half.
Prefix(n) == <<0, 0>> \o U16(n)

\* data_header_bytes.
DataHeaderBytes(m) ==
  U16(m.sid) \o <<m.stream + (IF m.reply THEN 128 ELSE 0), m.function, 0, 0>> \o m.sys

\* control_header_bytes.
ControlHeaderBytes(m) == U16(m.sid) \o <<m.byte2, m.byte3, 0, SType[m.type]>> \o m.sys

\* Mutant: the header does not count towards the limit.
PlanData_TextOnly(length) == length <= MaxMessageLength

\* plan_data.
PlanData(length) == HeaderLength + length <= MaxMessageLength

\* encode_control and a planned Data frame with its text.
FrameBytes(header, text) == Prefix(HeaderLength + Len(text)) \o header \o text

-----------------------------------------------------------------------------

\* The length a prefix declares; beyond the lower half it exceeds every limit.
Declared(buffer) ==
  IF buffer[1] # 0 \/ buffer[2] # 0 THEN 65536 ELSE 256 * buffer[3] + buffer[4]

\* HsmsFrameDecoder::decode: more bytes, a fatal length, or one frame.
Framing(buffer) ==
  IF Len(buffer) < PrefixLength THEN [kind |-> "NeedMore", needed |-> PrefixLength - Len(buffer)]
  ELSE LET declared == Declared(buffer)
       IN  IF declared < HeaderLength THEN [kind |-> "Fault", fault |-> "MessageLengthBelowHeader"]
           ELSE IF declared > MaxMessageLength
           THEN [kind |-> "Fault", fault |-> "MessageLengthAboveLimit"]
           ELSE IF Len(buffer) - PrefixLength < declared
           THEN [kind |-> "NeedMore", needed |-> declared - (Len(buffer) - PrefixLength)]
           ELSE [kind |-> "Frame", length |-> declared]

HeaderOf(buffer) == SubSeq(buffer, PrefixLength + 1, PrefixLength + HeaderLength)

TextOf(buffer, length) ==
  SubSeq(buffer, PrefixLength + HeaderLength + 1, PrefixLength + length)

\* advance and split_to.
Rest(buffer, length) == SubSeq(buffer, PrefixLength + length + 1, Len(buffer))

-----------------------------------------------------------------------------

Violation(kind) == [type |-> "HeaderViolation", kind |-> kind]

\* validate_data: the header; the text stays opaque.
ValidateData(h, text) ==
  LET sid == 256 * h[1] + h[2]
  IN  IF sid = ControlSession THEN Violation("InvalidDataSessionId")
      ELSE [type |-> "Data", sid |-> sid, stream |-> h[3] % 128, function |-> h[4],
            reply |-> h[3] >= 128, sys |-> SubSeq(h, 7, 10), text |-> text]

\* Which fixed fields validate_control checks: session, then the header bytes.
ZeroBytes(stype) == CASE stype \in {1, 3, 5, 6, 9} -> {3, 4} [] stype \in {2, 4} -> {3} [] OTHER -> {}

\* require_linktest_session, require_zero_header, require_zero_byte_2 and
\* RejectReason::new.
ControlError(h) ==
  IF h[6] \in {5, 6} /\ 256 * h[1] + h[2] # ControlSession THEN "InvalidControlSessionId"
  ELSE IF (\E i \in ZeroBytes(h[6]) : h[i] # 0) \/ (h[6] = 7 /\ h[4] = 0) THEN "InvalidControlHeader"
  ELSE "None"

\* validate_control.
ValidateControl(h) ==
  IF ControlError(h) # "None" THEN Violation(ControlError(h))
  ELSE [type |-> CHOOSE t \in DOMAIN SType : SType[t] = h[6], sid |-> 256 * h[1] + h[2],
        byte2 |-> h[3], byte3 |-> h[4], sys |-> SubSeq(h, 7, 10)]

\* StrictFrameValidator::validate: SType, PType, then the layout of the type.
Validate(h, text) ==
  CASE h[6] \notin {0} \cup {SType[t] : t \in DOMAIN SType} -> Violation("UnknownSessionType")
    [] h[6] \in {0} \cup {SType[t] : t \in DOMAIN SType} /\ h[5] # 0 ->
         Violation("UnknownPresentationType")
    [] h[6] = 0 /\ h[5] = 0 -> ValidateData(h, text)
    [] OTHER -> IF text # <<>> THEN Violation("ControlMessageHasText") ELSE ValidateControl(h)

\* decode_text and classify_payload_error.
DecodeText(text) == IF text = <<>> THEN "Absent" ELSE TextClass[text]

\* HsmsSsCodec::decode, of one complete frame: a message, or a header or
\* payload violation.
DecodeFrame(h, text) ==
  LET v == Validate(h, text)
  IN  IF v.type # "Data" THEN v
      ELSE LET body == DecodeText(v.text)
           IN  [type |-> IF body \in {"MalformedSecs2", "ResourceLimitExceeded"}
                         THEN "PayloadViolation" ELSE "Data",
                sid |-> v.sid, stream |-> v.stream, function |-> v.function, reply |-> v.reply,
                sys |-> v.sys, body |-> body]

=============================================================================
