---------------------------- MODULE MCInboundStream ----------------------------
(***************************************************************************)
(* Peers that send well-formed messages, frames the validator refuses and  *)
(* lengths the framer refuses.                                             *)
(***************************************************************************)
EXTENDS InboundStream, SequencesExt

Sys == <<0, 0, 0, 7>>

\* Message Texts of one or two bytes and what the decoder says of them.
MCTextClass == (<<1, 0>> :> "List") @@ (<<2, 0>> :> "MalformedSecs2")
               @@ (<<1, 9>> :> "ResourceLimitExceeded")

Data(sid, function, reply, body) ==
  [type |-> "Data", sid |-> sid, stream |-> 1, function |-> function, reply |-> reply,
   sys |-> Sys, body |-> body]

Control(type, sid, byte2, byte3) ==
  [type |-> type, sid |-> sid, byte2 |-> byte2, byte3 |-> byte3, sys |-> Sys]

Fatal(bytes, kind) == [bytes |-> bytes, means |-> [type |-> "Fault", kind |-> kind]]

\* A peer with a larger limit sends what this side would not plan.
DataFrame(m, text) ==
  LET bytes == FrameBytes(DataHeaderBytes(m), text)
  IN  IF PlanData(Len(text)) THEN [bytes |-> bytes, means |-> m]
      ELSE Fatal(bytes, "MessageLengthAboveLimit")

ControlFrame(m) == [bytes |-> FrameBytes(ControlHeaderBytes(m), <<>>), means |-> m]

Raw(header, text, kind) == [bytes |-> FrameBytes(header \o Sys, text), means |-> Violation(kind)]

Select   == ControlFrame(Control("SelectRequest", 258, 0, 0))
Linktest == ControlFrame(Control("LinktestResponse", 65535, 0, 0))
Primary  == DataFrame(Data(258, 13, TRUE, "Absent"), <<>>)
WithText == DataFrame(Data(258, 1, FALSE, "List"), <<1, 0>>)

Messages ==
  {Select, Linktest, Primary, WithText,
   ControlFrame(Control("SelectResponse", 1, 0, 2)), ControlFrame(Control("DeselectRequest", 1, 0, 0)),
   ControlFrame(Control("DeselectResponse", 1, 0, 1)), ControlFrame(Control("SeparateRequest", 1, 0, 0)),
   ControlFrame(Control("LinktestRequest", 65535, 0, 0)),
   ControlFrame(Control("RejectRequest", 1, 5, 1))}

BadText(text) ==
  LET m == Data(258, 1, FALSE, MCTextClass[text])
  IN  [DataFrame(m, text) EXCEPT !.means = [m EXCEPT !.type = "PayloadViolation"]]

Refused ==
  {BadText(<<2, 0>>), BadText(<<1, 9>>),
   Raw(<<1, 2, 0, 0, 0, 8>>, <<>>, "UnknownSessionType"),
   Raw(<<1, 2, 0, 0, 3, 8>>, <<>>, "UnknownSessionType"),
   Raw(<<1, 2, 0, 0, 3, 1>>, <<1, 0>>, "UnknownPresentationType"),
   Raw(<<255, 255, 1, 1, 0, 0>>, <<2, 0>>, "InvalidDataSessionId"),
   Raw(<<1, 2, 0, 0, 0, 9>>, <<1>>, "ControlMessageHasText"),
   Raw(<<1, 2, 1, 0, 0, 5>>, <<>>, "InvalidControlSessionId"),
   Raw(<<255, 255, 0, 1, 0, 6>>, <<>>, "InvalidControlHeader"),
   Raw(<<1, 2, 1, 0, 0, 2>>, <<>>, "InvalidControlHeader"),
   Raw(<<1, 2, 5, 0, 0, 7>>, <<>>, "InvalidControlHeader")}

Short == Fatal(<<0, 0, 0, 9>>, "MessageLengthBelowHeader")
Long  == DataFrame(Data(258, 1, FALSE, "List"), <<1, 0, 0>>)
Huge  == Fatal(<<1, 0, 0, 10>>, "MessageLengthAboveLimit")

\* The stream of the given frames.
StreamOf(frames) ==
  LET bytes == [i \in DOMAIN frames |-> frames[i].bytes]
  IN  [bytes |-> FlattenSeq(bytes),
       ends  |-> [i \in DOMAIN frames |-> Len(FlattenSeq(SubSeq(bytes, 1, i)))],
       means |-> [i \in DOMAIN frames |-> frames[i].means]]

\* One stream per frame, each behind or before another.
AllStreams ==
  {StreamOf(<<f, Primary>>) : f \in Messages \cup Refused}
    \cup {StreamOf(<<Select, Short, Linktest>>), StreamOf(<<WithText, Long, Select>>),
          StreamOf(<<Huge>>)}

=============================================================================
