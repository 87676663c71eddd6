-------------------------- MODULE ResponseContract --------------------------
(***************************************************************************)
(* The response contract of an outbound W=1 Data Primary and the bounded   *)
(* FIFO of completed contracts (src/hsms/core/transaction.rs).  Everything *)
(* here is a pure operator: SessionCore keeps the contracts in its state.  *)
(*                                                                         *)
(* A Data header is [sid, stream, function, w, sys]; a Data message adds   *)
(* the flag body (Message Text present).  A peer Reject is a record with   *)
(* fields sid, hb2 (Header Byte 2), reason and sys.                        *)
(***************************************************************************)
EXTENDS Naturals, Sequences

CONSTANT None      \* absent optional value

\* Function codes are one byte; F255 has no F+1.
FunctionCodes == 0..255

DataHeader(sid, stream, function, w, sys) ==
  [sid |-> sid, stream |-> stream, function |-> function, w |-> w, sys |-> sys]

\* ResponseContract::for_request: checked_add leaves F255 without a normal
\* Secondary instead of wrapping it to F0.
ForRequest(sid, sys, stream, function) ==
  [sid |-> sid, sys |-> sys, stream |-> stream,
   normal |-> IF function + 1 \in FunctionCodes THEN function + 1 ELSE None]

\* ResponseContract::request_header: rebuilds the Primary's header.
RequestHeader(contract) ==
  DataHeader(contract.sid, contract.stream,
             IF contract.normal = None THEN 255 ELSE contract.normal - 1,
             TRUE, contract.sys)

MatchesBaseHeader(contract, header) ==
  /\ contract.sid = header.sid
  /\ contract.sys = header.sys
  /\ contract.stream = header.stream

\* ResponseContract::classify.
Classify(contract, message) ==
  LET header == message.header
      exact  == MatchesBaseHeader(contract, header) /\ ~header.w
  IN  CASE exact /\ header.function = 0 /\ ~message.body            -> "Abort"
        [] exact /\ header.function # 0
                 /\ contract.normal = header.function               -> "Normal"
        [] OTHER                                                    -> "Mismatch"

\* matches_data_reject: reason 2 reads Header Byte 2 as a PType, reasons 1, 3
\* and 4 as an SType; both are zero for Data.  Other reasons never match.
MatchesDataReject(sid, sys, reject) ==
  /\ reject.sid = sid
  /\ reject.sys = sys
  /\ reject.reason \in 1..4
  /\ reject.hb2 = 0

MatchesReject(contract, reject) ==
  MatchesDataReject(contract.sid, contract.sys, reject)

-----------------------------------------------------------------------------
(* TransactionTombstones: contracts from the oldest to the newest.         *)

\* Mutant: evicts one insert too late.
InsertTombstone_Late(entries, contract, capacity) ==
  CASE capacity = 0            -> entries
    [] capacity > 0 /\ Len(entries) > capacity
                               -> Append(Tail(entries), contract)
    [] OTHER                   -> Append(entries, contract)

\* TransactionTombstones::insert.
InsertTombstone(entries, contract, capacity) ==
  CASE capacity = 0            -> entries
    [] capacity > 0 /\ Len(entries) = capacity
                               -> Append(Tail(entries), contract)
    [] OTHER                   -> Append(entries, contract)

\* A loop of inserts: the newest `capacity' contracts survive.
InsertTombstones(entries, contracts, capacity) ==
  LET all   == entries \o contracts
      first == IF Len(all) > capacity THEN Len(all) - capacity + 1 ELSE 1
  IN  SubSeq(all, first, Len(all))

ContainsMessage(entries, message) ==
  \E i \in 1..Len(entries) : Classify(entries[i], message) # "Mismatch"

ContainsReject(entries, reject) ==
  \E i \in 1..Len(entries) : MatchesReject(entries[i], reject)

=============================================================================
