------------------------- MODULE MCGenerationRuntime -------------------------
(* Small instances of GenerationRuntime.                                   *)
EXTENDS GenerationRuntime, TLC

Symmetry == Permutations(Operations)

CommandIds == 0..(CommandSpace - 1)

\* The peer selects, asks with and without wanting a reply, and refuses to deselect.
SelectAndAsk ==
  {SelectReq(ControlSession, 0), DeselectRsp(ControlSession, "BUSY", 0)}
  \cup {DataMsg(DataHeader(DataSession, 1, 1, w, 0), FALSE) : w \in BOOLEAN}

\* The peer accepts the Select and answers the request.
AcceptAndAnswer ==
  {SelectRsp(ControlSession, "SUCCESS", 0), DataMsg(DataHeader(DataSession, 1, 2, FALSE, 1), FALSE)}

\* A payload violation, and a header violation that is answered with a Reject.
OneViolation == {None, [kind |-> "UnknownSessionType", sid |-> DataSession, byte |-> 9, sys |-> 0]}

OnePrimary == [stream : {1}, function : {1}, body : {FALSE}]

=============================================================================
