--------------------------- MODULE MCSessionCore ---------------------------
(* Small instances of SessionCore.                                         *)
EXTENDS SessionCore, TLC

Symmetry == Permutations(Commands)

Sys == 0..SystemBytesSpace

\* Control traffic: both statuses, matching and foreign session ids.
ControlMessages ==
  {SelectReq(sid, 0) : sid \in {ControlSession, DataSession}}
  \cup {SelectRsp(ControlSession, st, s) : st \in {"SUCCESS", "NOT_READY"}, s \in Sys}
  \cup {DeselectReq(ControlSession, 0)}
  \cup {DeselectRsp(ControlSession, st, s) : st \in {"SUCCESS", "BUSY"}, s \in Sys}
  \cup {LinktestReq(0)}
  \cup {LinktestRsp(s) : s \in Sys}
  \cup {SeparateReq(ControlSession, 0)}
  \cup {RejectReq(ControlSession, 3, r, s) : r \in {3, 5}, s \in Sys}

\* Enough control traffic to select and deselect.
SelectionMessages ==
  {SelectReq(ControlSession, 0), DeselectReq(ControlSession, 0), SeparateReq(ControlSession, 0)}
  \cup {DeselectRsp(ControlSession, st, s) : st \in {"SUCCESS", "BUSY"}, s \in {0, 1}}

\* Secondaries, aborts with and without text, Primaries and Rejects; System
\* Bytes of the two directions overlap.
DataMessages ==
  {DataMsg(DataHeader(DataSession, 1, 2, FALSE, s), FALSE) : s \in Sys}
  \cup {DataMsg(DataHeader(DataSession, 1, 0, FALSE, s), b) : s \in {0, 1}, b \in BOOLEAN}
  \cup {DataMsg(DataHeader(DataSession, 1, 1, w, s), FALSE) : w \in BOOLEAN, s \in {0, 1}}
  \cup {DataMsg(DataHeader(DataSession, 1, 255, TRUE, 0), FALSE)}
  \cup {DataMsg(DataHeader(ControlSession, 1, 1, TRUE, 0), FALSE)}
  \cup {RejectReq(DataSession, 0, 4, s) : s \in Sys}

SelectionAndData == SelectionMessages \cup DataMessages

Violations ==
  {[kind |-> t, sid |-> DataSession, byte |-> 9, sys |-> 0] :
     t \in {"UnknownSessionType", "UnknownPresentationType", "Other"}}

AllPrimaries == [stream : {1}, function : {1, 2, 255}, body : {FALSE}]
OnePrimary == [stream : {1}, function : {1}, body : {FALSE}]

=============================================================================
