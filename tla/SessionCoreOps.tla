--------------------------- MODULE SessionCoreOps ---------------------------
(***************************************************************************)
(* SessionCore, the runtime-neutral protocol object of one generation      *)
(* (src/hsms/core/session.rs and session/{deselect,inbound,timing}.rs).    *)
(*                                                                         *)
(* A Core handler is sequential Rust that mutates one struct and pushes    *)
(* ordered actions, so it is modelled as a function from a Core state c to *)
(* the next one, and the actions it pushed are c.out.  SessionCore.tla and *)
(* SessionDriver.tla turn the handlers into actions of state machines.     *)
(*                                                                         *)
(* Time is abstract.  A deadline is armed or not, and a handler that       *)
(* compares deadlines with now takes `due', the deadlines that have passed;*)
(* the specification chooses it freely among the armed ones.               *)
(***************************************************************************)
EXTENDS ResponseContract, FiniteSets

CONSTANTS
  Commands,             \* Driver-assigned CommandIds
  ControlSession,       \* CONTROL_SESSION_ID
  DataSession,          \* SessionCoreConfig::session_id
  WriteSpace,           \* number of WriteIds of a generation (2^64 in the code)
  SystemBytesSpace,     \* number of System Bytes values (2^32 in the code)
  ReplySpace,           \* number of ReplyCapabilityIds (2^64 in the code)
  TransactionCapacity,  \* live outbound requests
  TombstoneCapacity,    \* retained completed contracts
  ReplyCapacity,        \* live inbound reply capabilities
  IdleLinktest          \* TRUE iff timeouts.linktest() is configured

ASSUME NoneAssumption == None \notin Commands /\ None \notin Nat
ASSUME TransactionAssumption ==
  None \notin [kind : {"Select", "Deselect", "Linktest"}, command : Commands \cup {None},
               sys : Nat, write : Nat, armed : BOOLEAN]
ASSUME SessionAssumption == ControlSession # DataSession
ASSUME SpaceAssumption ==
  WriteSpace \in Nat /\ SystemBytesSpace \in Nat /\ ReplySpace \in Nat
ASSUME CapacityAssumption ==
  TransactionCapacity \in Nat /\ TombstoneCapacity \in Nat /\ ReplyCapacity \in Nat
ASSUME IdleAssumption == IdleLinktest \in BOOLEAN

EmptyFunction == [x \in {} |-> x]

\* f extended with, or overwritten at, x.
Put(f, x, v) == [y \in DOMAIN f \cup {x} |-> IF y = x THEN v ELSE f[y]]

\* f without the elements of S in its domain.
Drop(f, S) == [y \in DOMAIN f \ S |-> f[y]]

-----------------------------------------------------------------------------
(* Messages.                                                               *)

SelectReq(sid, sys) == [type |-> "Select.req", sid |-> sid, sys |-> sys]
SelectRsp(sid, status, sys) ==
  [type |-> "Select.rsp", sid |-> sid, status |-> status, sys |-> sys]
DeselectReq(sid, sys) == [type |-> "Deselect.req", sid |-> sid, sys |-> sys]
DeselectRsp(sid, status, sys) ==
  [type |-> "Deselect.rsp", sid |-> sid, status |-> status, sys |-> sys]
LinktestReq(sys) == [type |-> "Linktest.req", sys |-> sys]
LinktestRsp(sys) == [type |-> "Linktest.rsp", sys |-> sys]
SeparateReq(sid, sys) == [type |-> "Separate.req", sid |-> sid, sys |-> sys]
RejectReq(sid, hb2, reason, sys) ==
  [type |-> "Reject.req", sid |-> sid, hb2 |-> hb2, reason |-> reason, sys |-> sys]
DataMsg(header, body) == [type |-> "Data", header |-> header, body |-> body]

MessageTypes ==
  {"Select.req", "Select.rsp", "Deselect.req", "Deselect.rsp", "Linktest.req",
   "Linktest.rsp", "Separate.req", "Reject.req", "Data"}

\* Reject reasons (RejectReason): 1..4 are the base standard's.
UNSUPPORTED_STYPE    == 1
UNSUPPORTED_PTYPE    == 2
TRANSACTION_NOT_OPEN == 3
ENTITY_NOT_SELECTED  == 4

-----------------------------------------------------------------------------
(* Core actions (core/action.rs).  A Complete action stands for the        *)
(* CompleteCommand actions one loop pushes with the same result; the order *)
(* of the commands inside one loop is not modelled.  A Notice is the value *)
(* Driver takes with take_notice in the same round.                        *)

SendFrame(w, message)   == [act |-> "SendFrame", write |-> w, message |-> message]
StateChanged(state)     == [act |-> "SessionStateChanged", state |-> state]
CompleteCommands(ks, r) == [act |-> "CompleteCommand", commands |-> ks, result |-> r]
DeliverPrimary(m, cap)  == [act |-> "DeliverPrimary", message |-> m, capability |-> cap]
CloseGeneration(reason, barrier) ==
  [act |-> "CloseGeneration", reason |-> reason, barrier |-> barrier]
Notice(what)            == [act |-> "Notice", what |-> what]

\* CloseBarrier::Immediate; CloseBarrier::AfterWrite(w) is w itself.
Immediate == None

Emit(c, action) == [c EXCEPT !.out = Append(@, action)]

\* A handler starts with an empty CoreActions.
Begin(c) == [c EXCEPT !.out = <<>>]

\* SessionCore::new.
NewCore ==
  [state     |-> "None",          \* None, NotSelected or Selected
   t7        |-> FALSE,           \* selection_deadline is armed
   idle      |-> FALSE,           \* idle_deadline is armed
   nextWrite |-> 0,               \* next_write_id; WriteSpace is None
   nextSys   |-> 0,               \* next_system_bytes; SystemBytesSpace is None
   nextReply |-> 0,               \* next_reply_id; ReplySpace is None
   active    |-> None,            \* active_transaction
   drain     |-> None,            \* deselect_drain's command
   data      |-> EmptyFunction,   \* data_transactions by System Bytes
   tomb      |-> <<>>,            \* tombstones, oldest first
   pending   |-> EmptyFunction,   \* pending_writes by WriteId
   replies   |-> EmptyFunction,   \* reply_contracts by capability
   open      |-> EmptyFunction,   \* open_commands
   deferred  |-> EmptyFunction,   \* deferred_errors
   closing   |-> FALSE,
   closeIssued |-> FALSE,         \* close_action_issued
   out       |-> <<>>]            \* CoreActions of the last handler

-----------------------------------------------------------------------------
(* Completion and closing.                                                 *)

\* The commands a retained write still answers for.
UnresolvedCommands(c) == {c.pending[w].command : w \in DOMAIN c.pending} \ {None}

\* Mutant: the retained write keeps the command it answered for.
EmitCompletion_Attached(c, ks, result) ==
  IF ks = {} THEN c
  ELSE Emit([c EXCEPT !.open = Drop(@, ks), !.deferred = Drop(@, ks)],
            CompleteCommands(ks, result))

\* Mutant: the completed command stays open.
EmitCompletion_StillOpen(c, ks, result) ==
  IF ks = {} THEN c ELSE Emit(c, CompleteCommands(ks, result))

\* emit_completion for each command of ks, all open: the command is closed,
\* its deferred error forgotten and its retained write detached.
EmitCompletion(c, ks, result) ==
  IF ks = {} THEN c
  ELSE Emit([c EXCEPT
               !.open     = Drop(@, ks),
               !.deferred = Drop(@, ks),
               !.pending  = [w \in DOMAIN c.pending |->
                               IF c.pending[w].command \in ks
                               THEN [c.pending[w] EXCEPT !.command = None]
                               ELSE c.pending[w]]],
            CompleteCommands(ks, result))

\* Mutant: shutdown answers at once, before the write's outcome is known.
CompleteOrDefer_AtOnce(c, ks, error) == EmitCompletion(c, ks, error)

\* complete_or_defer for each command of ks; or_insert keeps an older error.
CompleteOrDefer(c, ks, error) ==
  LET held == ks \cap UnresolvedCommands(c)
      kept == [c EXCEPT !.deferred =
                 [k \in DOMAIN c.deferred \cup held |->
                    IF k \in DOMAIN c.deferred THEN c.deferred[k] ELSE error]]
  IN  EmitCompletion(kept, ks \ held, error)

CompleteAll(c, error) ==
  CompleteOrDefer([c EXCEPT !.active = None, !.data = EmptyFunction],
                  DOMAIN c.open, error)

RequestClose(c, reason, barrier) ==
  LET closed == [c EXCEPT !.closing = TRUE, !.drain = None,
                          !.replies = EmptyFunction, !.closeIssued = TRUE]
  IN  IF c.closeIssued THEN closed
      ELSE Emit(closed, CloseGeneration(reason, barrier))

\* complete_all(ConnectionLost) followed by an immediate request_close.
CloseAll(c, reason) ==
  RequestClose(CompleteAll(c, "ConnectionLost"), reason, Immediate)

FailRuntimeInvariant(c) == CloseAll(c, "RuntimeInvariant")

\* complete_error, and complete_{control,send,request} with the command kind
\* they insist on: a command that is not open so is a runtime invariant.
CompleteAs(c, k, kinds, result) ==
  IF k \in DOMAIN c.open /\ c.open[k] \in kinds
  THEN EmitCompletion(c, {k}, result)
  ELSE FailRuntimeInvariant(c)

CommandKinds == {"Control", "Send", "Request"}

CompleteError(c, k, error)     == CompleteAs(c, k, CommandKinds, error)
CompleteControl(c, k, result)  == CompleteAs(c, k, {"Control"}, result)
CompleteSend(c, k, result)     == CompleteAs(c, k, {"Send"}, result)
CompleteRequest(c, k, result)  == CompleteAs(c, k, {"Request"}, result)

\* complete_control_transaction: an autonomous transaction has no command.
CompleteControlTransaction(c, transaction, result) ==
  IF transaction.command = None THEN c
  ELSE CompleteControl(c, transaction.command, result)

CompleteDataForDeselection(c) ==
  CompleteOrDefer([c EXCEPT !.data = EmptyFunction],
                  {k \in DOMAIN c.open : c.open[k] \in {"Send", "Request"}},
                  "SessionDeselected")

-----------------------------------------------------------------------------
(* Timers (timing.rs).                                                     *)

ArmSelectionTimeout(c) == [c EXCEPT !.t7 = TRUE]

RecordActivity(c) == [c EXCEPT !.idle = IdleLinktest]

-----------------------------------------------------------------------------
(* Identifiers and writes.                                                 *)

\* Writes retained until their outcome (PendingWrite).  sid and sys are the
\* DataWriteCorrelation of a DataSend; sys keys the DataRequest.
PendingWrite(kind, k, sid, sys) ==
  [kind |-> kind, command |-> k, sid |-> sid, sys |-> sys]

\* send_response.
SendResponse(c, message) ==
  IF c.nextWrite = WriteSpace THEN FailRuntimeInvariant(c)
  ELSE Emit([c EXCEPT
               !.nextWrite = @ + 1,
               !.pending = Put(@, c.nextWrite, PendingWrite("Response", None, None, None))],
            SendFrame(c.nextWrite, message))

SendTransactionNotOpenReject(c, sid, stype, sys) ==
  SendResponse(c, RejectReq(sid, stype, TRANSACTION_NOT_OPEN, sys))

\* Mutant: only the internal WriteId space is checked.
IdentifiersExhausted_WriteOnly(c) == c.nextWrite = WriteSpace

\* allocate_request_identifiers: either space may be exhausted, never wrapped.
IdentifiersExhausted(c) == c.nextWrite = WriteSpace \/ c.nextSys = SystemBytesSpace

RefuseIdentifiers(c) ==
  IF c.nextWrite = WriteSpace THEN FailRuntimeInvariant(c)
  ELSE CloseAll(c, "SystemBytesExhausted")

AllocateRequestIdentifiers(c) == [c EXCEPT !.nextSys = @ + 1, !.nextWrite = @ + 1]

RequestSType(kind) ==
  CASE kind = "Select" -> 1 [] kind = "Deselect" -> 3 [] kind = "Linktest" -> 5

TransactionMessage(kind, sys) ==
  CASE kind = "Select"   -> SelectReq(ControlSession, sys)
    [] kind = "Deselect" -> DeselectReq(ControlSession, sys)
    [] kind = "Linktest" -> LinktestReq(sys)

StartTransaction(c, kind, k) ==
  IF IdentifiersExhausted(c) THEN RefuseIdentifiers(c)
  ELSE Emit([AllocateRequestIdentifiers(c) EXCEPT
               !.active = [kind |-> kind, command |-> k, sys |-> c.nextSys,
                           write |-> c.nextWrite, armed |-> FALSE],
               !.pending = Put(@, c.nextWrite,
                               PendingWrite("TransactionRequest", k, None, None))],
            SendFrame(c.nextWrite, TransactionMessage(kind, c.nextSys)))

-----------------------------------------------------------------------------
(* Deselect (deselect.rs).                                                 *)

RepliesBlocked(c) == c.active # None /\ c.active.kind = "Deselect"

DataWriteKinds == {"DataSend", "DataRequest"}

\* Mutant: frames still waiting to be written are forgotten.
DataInUse_IgnoresWrites(c) == DOMAIN c.data # {} \/ DOMAIN c.replies # {}

DataInUse(c) ==
  \/ DOMAIN c.data # {}
  \/ DOMAIN c.replies # {}
  \/ \E w \in DOMAIN c.pending : c.pending[w].kind \in DataWriteKinds

\* Mutant: an expired drain is dropped without answering its command.
ProgressDeselect_Silent(c, due) ==
  LET ended == [c EXCEPT !.drain = None]
  IN  IF c.closing \/ c.drain = None THEN c
      ELSE IF due THEN ended
      ELSE IF DataInUse(c) THEN c
      ELSE StartTransaction(ended, "Deselect", c.drain)

\* due is TRUE iff the drain deadline has passed.
ProgressDeselect(c, due) ==
  LET ended == [c EXCEPT !.drain = None]
  IN  IF c.closing \/ c.drain = None THEN c
      ELSE IF due THEN CompleteError(ended, c.drain, "TimeoutDrain")
      ELSE IF c.state = "NotSelected" THEN CompleteControl(ended, c.drain, "Ok")
      ELSE IF DataInUse(c) THEN c
      ELSE StartTransaction(ended, "Deselect", c.drain)

StartDeselect(c, k) ==
  IF c.state # "Selected" THEN CompleteError(c, k, "NotSelected")
  ELSE IF c.active # None \/ c.drain # None THEN CompleteError(c, k, "ControlBusy")
  ELSE ProgressDeselect([c EXCEPT !.drain = k], FALSE)

\* Mutant: the new NotSelected tenure does not start T7.
CommitDeselection_NoT7(c) ==
  IF c.state = "NotSelected" THEN c
  ELSE Emit([c EXCEPT !.state = "NotSelected", !.replies = EmptyFunction],
            StateChanged("NotSelected"))

\* Mutant: capabilities granted while Deselect was in flight survive it.
CommitDeselection_KeepsReplies(c) ==
  IF c.state = "NotSelected" THEN c
  ELSE Emit(ArmSelectionTimeout([c EXCEPT !.state = "NotSelected"]),
            StateChanged("NotSelected"))

CommitDeselection(c) ==
  IF c.state = "NotSelected" THEN c
  ELSE Emit(ArmSelectionTimeout([c EXCEPT !.state = "NotSelected",
                                          !.replies = EmptyFunction]),
            StateChanged("NotSelected"))

\* Mutant: the state is published before the response is admitted.
ReceiveDeselectRequest_StateFirst(c, m) ==
  LET status == IF m.sid # ControlSession \/ c.state # "Selected" THEN "NOT_SELECTED"
                ELSE IF DataInUse(c) THEN "BUSY" ELSE "SUCCESS"
  IN  SendResponse(IF status = "SUCCESS" THEN CommitDeselection(c) ELSE c,
                   DeselectRsp(m.sid, status, m.sys))

\* Mutant: the request is granted and the own state kept.
ReceiveDeselectRequest_Uncommitted(c, m) ==
  SendResponse(c, DeselectRsp(m.sid, IF m.sid # ControlSession \/ c.state # "Selected"
                                     THEN "NOT_SELECTED"
                                     ELSE IF DataInUse(c) THEN "BUSY" ELSE "SUCCESS", m.sys))

ReceiveDeselectRequest(c, m) ==
  LET status == IF m.sid # ControlSession \/ c.state # "Selected" THEN "NOT_SELECTED"
                ELSE IF DataInUse(c) THEN "BUSY" ELSE "SUCCESS"
      sent   == SendResponse(c, DeselectRsp(m.sid, status, m.sys))
  IN  IF status = "SUCCESS" /\ ~sent.closing THEN CommitDeselection(sent) ELSE sent

\* The active control transaction a response of this kind and tuple answers.
Answers(c, kind, sid, sys) ==
  /\ c.active # None
  /\ c.active.kind = kind
  /\ sid = ControlSession
  /\ c.active.sys = sys

\* Mutant: a refused Deselect is forgotten without answering its command.
ReceiveDeselectResponse_Silent(c, m) ==
  LET done == [c EXCEPT !.active = None]
  IN  IF ~Answers(c, "Deselect", m.sid, m.sys)
      THEN SendTransactionNotOpenReject(c, m.sid, 4, m.sys)
      ELSE IF m.status = "SUCCESS"
      THEN CompleteControlTransaction(CommitDeselection(done), c.active, "Ok")
      ELSE done

ReceiveDeselectResponse(c, m) ==
  LET done == [c EXCEPT !.active = None]
  IN  IF ~Answers(c, "Deselect", m.sid, m.sys)
      THEN SendTransactionNotOpenReject(c, m.sid, 4, m.sys)
      ELSE IF m.status = "SUCCESS"
      THEN CompleteControlTransaction(CommitDeselection(done), c.active, "Ok")
      ELSE CompleteControlTransaction(done, c.active, "DeselectRejected")

-----------------------------------------------------------------------------
(* Timer expiry (timing.rs expire_deadlines).  due is the record of the    *)
(* deadlines that have passed: t7, t6, drain and idle are flags, t3 is the *)
(* set of the System Bytes of the requests whose T3 has passed.            *)

NothingDue == [t7 |-> FALSE, t6 |-> FALSE, t3 |-> {}, drain |-> FALSE, idle |-> FALSE]

\* The order of the T3 loop.  The code sorts by CommandId; Driver runs data
\* commands in the order it numbers them, so System Bytes order is the same.
Ascending(S) ==
  CHOOSE q \in [1..Cardinality(S) -> S] : \A i, j \in DOMAIN q : i < j => q[i] < q[j]

\* Every choice of passed deadlines among those a handler may find armed.
DueChoices(c) ==
  [t7 : {FALSE, c.t7}, t6 : {FALSE, c.active # None}, t3 : SUBSET DOMAIN c.data,
   drain : {FALSE, c.drain # None}, idle : {FALSE, c.idle}]

\* The contracts of the requests with these System Bytes, as the loop retires them.
Contracts(c, systems) ==
  LET order == Ascending(systems)
  IN  [i \in 1..Cardinality(systems) |-> c.data[order[i]].contract]

\* Mutant: the expired requests are retired without their results.
RetireRequests_Silent(c, systems) ==
  [c EXCEPT !.data = Drop(@, systems),
            !.tomb = InsertTombstones(@, Contracts(c, systems), TombstoneCapacity)]

\* The T3 loop: each expired request leaves its contract and a timed-out result.
RetireRequests(c, systems) ==
  EmitCompletion([c EXCEPT !.data = Drop(@, systems),
                           !.tomb = InsertTombstones(@, Contracts(c, systems),
                                                     TombstoneCapacity)],
                 {c.data[s].command : s \in systems}, "RequestTimedOut")

\* The requests whose armed T3 is among the passed deadlines.
ExpiredRequests(c, due) == {s \in due.t3 \cap DOMAIN c.data : c.data[s].armed}

StartIdleProbe(c, due) ==
  IF ~c.closing /\ c.active = None /\ c.drain = None /\ c.idle /\ due
  THEN StartTransaction([c EXCEPT !.idle = FALSE], "Linktest", None)
  ELSE c

ExpireDeadlines(c, due) ==
  IF c.closing \/ c.state = "None" THEN c
  ELSE IF c.t7 /\ due.t7 THEN CloseAll(c, "CommunicationsTimeoutT7")
  ELSE IF c.active # None /\ c.active.armed /\ due.t6
  THEN CloseAll(CompleteControlTransaction([c EXCEPT !.active = None], c.active, "TimeoutT6"),
                "CommunicationsTimeoutT6")
  ELSE StartIdleProbe(
         ProgressDeselect(RetireRequests(c, ExpiredRequests(c, due)), due.drain), due.idle)

-----------------------------------------------------------------------------
(* Commands (session.rs on_command and the start_* procedures).            *)

StartSelect(c, k) ==
  IF c.state = "Selected" THEN CompleteError(c, k, "AlreadySelected")
  ELSE IF c.active # None THEN CompleteError(c, k, "ControlBusy")
  ELSE StartTransaction(c, "Select", k)

StartLinktest(c, k) ==
  IF c.active # None THEN CompleteError(c, k, "ControlBusy")
  ELSE StartTransaction(c, "Linktest", k)

\* k is None for the tail Separate of a shutdown drain.
StartSeparate(c, k, reason) ==
  LET left    == [AllocateRequestIdentifiers(c) EXCEPT !.state = "NotSelected",
                                                       !.closing = TRUE]
      nodrain == IF left.drain = None THEN left
                 ELSE CompleteError([left EXCEPT !.drain = None], left.drain,
                                    "TransactionAborted")
      nocontrol == IF nodrain.active = None THEN nodrain
                   ELSE CompleteControlTransaction([nodrain EXCEPT !.active = None],
                                                   nodrain.active, "TransactionAborted")
      nodata  == CompleteDataForDeselection(nocontrol)
      written == [nodata EXCEPT !.pending =
                    Put(@, c.nextWrite, PendingWrite("Separate", k, None, None))]
      sent    == Emit(written, SendFrame(c.nextWrite, SeparateReq(ControlSession, c.nextSys)))
  IN  IF c.state # "Selected"
      THEN IF k = None THEN c ELSE CompleteError(c, k, "NotSelected")
      ELSE IF IdentifiersExhausted(c) THEN RefuseIdentifiers(c)
      ELSE RequestClose(Emit(sent, StateChanged("NotSelected")), reason, c.nextWrite)

\* Mutant: Data is accepted behind Deselect.req.
StartData_WhileDeselecting(c, k, primary, w) ==
  LET header == DataHeader(DataSession, primary.stream, primary.function, w, c.nextSys)
  IN  IF c.state # "Selected" THEN CompleteError(c, k, "NotSelected")
      ELSE Emit([AllocateRequestIdentifiers(c) EXCEPT
                   !.pending = Put(@, c.nextWrite,
                                   PendingWrite("DataSend", k, DataSession, c.nextSys))],
                SendFrame(c.nextWrite, DataMsg(header, primary.body)))

\* primary is [stream, function, body]; w is reply_expected.
StartData(c, k, primary, w) ==
  LET header  == DataHeader(DataSession, primary.stream, primary.function, w, c.nextSys)
      request == [command |-> k, write |-> c.nextWrite, armed |-> FALSE,
                  contract |-> ForRequest(DataSession, c.nextSys, primary.stream,
                                          primary.function)]
      written == [AllocateRequestIdentifiers(c) EXCEPT
                    !.data = IF w THEN Put(@, c.nextSys, request) ELSE @,
                    !.pending = Put(@, c.nextWrite,
                      PendingWrite(IF w THEN "DataRequest" ELSE "DataSend", k,
                                   DataSession, c.nextSys))]
  IN  IF c.drain # None \/ RepliesBlocked(c) THEN CompleteError(c, k, "Draining")
      ELSE IF c.state # "Selected" THEN CompleteError(c, k, "NotSelected")
      ELSE IF primary.function % 2 = 0 THEN CompleteError(c, k, "InvalidPrimaryFunction")
      ELSE IF w /\ Cardinality(DOMAIN c.data) >= TransactionCapacity
      THEN CompleteError(c, k, "Backpressure")
      ELSE IF IdentifiersExhausted(c) THEN RefuseIdentifiers(c)
      ELSE Emit(written, SendFrame(c.nextWrite, DataMsg(header, primary.body)))

ControlCommands == {"Select", "Deselect", "Linktest", "Separate"}
CommandNames == ControlCommands \cup {"Send", "Request"}

\* CoreCommandKind to OpenCommandKind.
OpenKind(kind) == IF kind \in ControlCommands THEN "Control" ELSE kind

\* on_command.  A reused CommandId is a runtime invariant; primary matters for
\* Send and Request only.
OnCommand(core, k, kind, primary) ==
  LET c == [Begin(core) EXCEPT !.open = Put(@, k, OpenKind(kind))]
  IN  IF k \in DOMAIN core.open THEN FailRuntimeInvariant(Begin(core))
      ELSE IF c.state = "None" THEN CompleteError(c, k, "NotConnected")
      ELSE IF c.closing THEN CompleteError(c, k, "ConnectionLost")
      ELSE IF c.drain # None /\ kind \in {"Select", "Deselect", "Linktest"}
      THEN CompleteError(c, k, "ControlBusy")
      ELSE CASE kind = "Select"   -> StartSelect(c, k)
             [] kind = "Deselect" -> StartDeselect(c, k)
             [] kind = "Linktest" -> StartLinktest(c, k)
             [] kind = "Separate" -> StartSeparate(c, k, "LocalSeparate")
             [] kind = "Send"     -> StartData(c, k, primary, FALSE)
             [] kind = "Request"  -> StartData(c, k, primary, TRUE)

\* on_reply: intent is Secondary, Abort or Abandon; body is Secondary's.
OnReply(core, k, capability, intent, body, due) ==
  LET kind == IF intent = "Abandon" THEN "Control" ELSE "Send"
      c    == [Begin(core) EXCEPT !.open = Put(@, k, kind)]
      used == [c EXCEPT !.replies = Drop(@, {capability})]
      primary == c.replies[capability]
      function == IF intent = "Abort" THEN 0 ELSE primary.function + 1
      header  == DataHeader(primary.sid, primary.stream, function, FALSE, primary.sys)
      written == [used EXCEPT
                    !.nextWrite = @ + 1,
                    !.pending = Put(@, c.nextWrite,
                                    PendingWrite("DataSend", k, primary.sid, primary.sys))]
  IN  IF k \in DOMAIN core.open THEN FailRuntimeInvariant(Begin(core))
      ELSE IF c.closing \/ c.state # "Selected"
      THEN CompleteError(c, k, "ReplyCapabilityUnavailable")
      ELSE IF intent # "Abandon" /\ RepliesBlocked(c) THEN CompleteError(c, k, "Draining")
      ELSE IF capability \notin DOMAIN c.replies
      THEN CompleteError(c, k, "ReplyCapabilityUnavailable")
      ELSE IF intent = "Abandon" THEN ProgressDeselect(CompleteControl(used, k, "Ok"), due)
      ELSE IF function \notin FunctionCodes THEN CompleteError(used, k, "ReplyRequiresAbort")
      ELSE IF used.nextWrite = WriteSpace THEN FailRuntimeInvariant(used)
      ELSE Emit(written, SendFrame(c.nextWrite,
                                   DataMsg(header, intent = "Secondary" /\ body)))

-----------------------------------------------------------------------------
(* Peer messages (session.rs on_message, inbound.rs).                      *)

\* The first connected fact.
OnConnected(core) ==
  LET c == Begin(core)
  IN  IF c.state # "None" \/ c.closing THEN FailRuntimeInvariant(c)
      ELSE Emit(RecordActivity(ArmSelectionTimeout([c EXCEPT !.state = "NotSelected"])),
                StateChanged("NotSelected"))

ReceiveSelectRequest(c, m) ==
  LET status == IF m.sid # ControlSession THEN "NOT_READY"
                ELSE IF c.state = "Selected" THEN "ALREADY_ACTIVE" ELSE "SUCCESS"
      chosen == IF status = "SUCCESS" THEN [c EXCEPT !.state = "Selected", !.t7 = FALSE] ELSE c
      sent   == SendResponse(chosen, SelectRsp(m.sid, status, m.sys))
  IN  IF status = "SUCCESS" /\ ~sent.closing THEN Emit(sent, StateChanged("Selected")) ELSE sent

ReceiveSelectResponse(c, m) ==
  LET done     == [c EXCEPT !.active = None]
      selected == IF c.state = "Selected" THEN done
                  ELSE Emit([done EXCEPT !.state = "Selected", !.t7 = FALSE],
                            StateChanged("Selected"))
  IN  IF ~Answers(c, "Select", m.sid, m.sys)
      THEN SendTransactionNotOpenReject(c, m.sid, 2, m.sys)
      ELSE IF m.status = "SUCCESS"
      THEN CompleteControlTransaction(selected, c.active, "Ok")
      ELSE CompleteControlTransaction(done, c.active, "SelectRejected")

ReceiveLinktestResponse(c, m) ==
  IF ~Answers(c, "Linktest", ControlSession, m.sys)
  THEN SendTransactionNotOpenReject(c, ControlSession, 6, m.sys)
  ELSE CompleteControlTransaction([c EXCEPT !.active = None], c.active, "Ok")

\* The live operations a base-standard Reject names (receive_reject's targets).
RejectsControl(c, m) ==
  /\ Answers(c, c.active.kind, m.sid, m.sys)
  /\ m.hb2 = IF m.reason = UNSUPPORTED_PTYPE THEN 0 ELSE RequestSType(c.active.kind)
RejectedRequests(c, m) == {s \in DOMAIN c.data : MatchesReject(c.data[s].contract, m)}
RejectedSends(c, m) ==
  {w \in DOMAIN c.pending :
     /\ c.pending[w].kind = "DataSend" /\ c.pending[w].command # None
     /\ MatchesDataReject(c.pending[w].sid, c.pending[w].sys, m)}

\* Mutant: the answered request stays live beside its tombstone.
RetireRequest_StaysLive(c, sys) ==
  [c EXCEPT !.tomb = InsertTombstone(@, c.data[sys].contract, TombstoneCapacity)]

\* A request leaves data_transactions and its contract becomes a tombstone.
RetireRequest(c, sys) ==
  [c EXCEPT !.data = Drop(@, {sys}),
            !.tomb = InsertTombstone(@, c.data[sys].contract, TombstoneCapacity)]

ReceiveReject(c, m) ==
  LET control  == c.active # None /\ RejectsControl(c, m)
      requests == RejectedRequests(c, m)
      sends    == RejectedSends(c, m)
      targets  == (IF control THEN 1 ELSE 0) + Cardinality(requests) + Cardinality(sends)
      request  == CHOOSE s \in requests : TRUE
      send     == CHOOSE w \in sends : TRUE
  IN  IF m.reason \notin 1..4 THEN Emit(c, Notice("RejectUnsupportedExtension"))
      ELSE IF targets = 0
      THEN Emit(c, Notice(IF ContainsReject(c.tomb, m) THEN "RejectLate" ELSE "RejectUnknown"))
      ELSE IF targets > 1 THEN Emit(c, Notice("RejectAmbiguous"))
      ELSE IF control
      THEN Emit(CompleteControlTransaction([c EXCEPT !.active = None], c.active, "PeerRejected"),
                Notice(IF c.active.command = None THEN "AutonomousRejected"
                                                  ELSE "OperationRejected"))
      ELSE IF requests # {}
      THEN Emit(CompleteError(RetireRequest(c, request), c.data[request].command, "PeerRejected"),
                Notice("OperationRejected"))
      ELSE Emit(CompleteError(c, c.pending[send].command, "PeerRejected"),
                Notice("OperationRejected"))

ReceiveSeparate(c) ==
  LET left   == [c EXCEPT !.state = "NotSelected", !.active = None]
      nocontrol == IF c.active = None THEN left
                   ELSE CompleteControlTransaction(left, c.active, "TransactionAborted")
      nodata == CompleteDataForDeselection(nocontrol)
  IN  IF c.state # "Selected" THEN c
      ELSE RequestClose(Emit(nodata, StateChanged("NotSelected")), "SeparateReceived", Immediate)

\* receive_data: an even-function Data message answers at most one request.
ReceiveData(c, m) ==
  LET sys   == m.header.sys
      match == Classify(c.data[sys].contract, m)
      k     == c.data[sys].command
  IN  IF sys \notin DOMAIN c.data
      THEN Emit(c, Notice(IF ContainsMessage(c.tomb, m) THEN "StaleEventIgnored"
                                                        ELSE "UnmatchedSecondary"))
      ELSE IF match = "Normal" THEN CompleteRequest(RetireRequest(c, sys), k, "Secondary")
      ELSE IF match = "Abort"
      THEN CompleteRequest(RetireRequest(c, sys), k, "TransactionAborted")
      ELSE Emit(c, Notice("SecondaryMismatch"))

\* Mutant: whatever carries the System Bytes of a request is its answer.
ReceiveInboundData_BySystemBytes(c, m) ==
  LET granted == [c EXCEPT !.nextReply = @ + 1, !.replies = Put(@, c.nextReply, m.header)]
  IN  IF m.header.sys \in DOMAIN c.data
      THEN CompleteRequest(RetireRequest(c, m.header.sys), c.data[m.header.sys].command,
                           "Secondary")
      ELSE Emit(granted, DeliverPrimary(m, c.nextReply))

ReceiveInboundData(c, m) ==
  LET header  == m.header
      granted == [c EXCEPT !.nextReply = @ + 1, !.replies = Put(@, c.nextReply, header)]
  IN  IF c.state # "Selected" \/ header.sid # DataSession
      THEN SendResponse(c, RejectReq(header.sid, 0, ENTITY_NOT_SELECTED, header.sys))
      ELSE IF header.function % 2 = 0 THEN ReceiveData(c, m)
      ELSE IF \E r \in DOMAIN c.replies : c.replies[r].sys = header.sys
      THEN CloseAll(c, "ProtocolViolation")
      ELSE IF ~header.w THEN Emit(c, DeliverPrimary(m, None))
      ELSE IF Cardinality(DOMAIN c.replies) >= ReplyCapacity
      THEN CloseAll(c, "ApplicationBackpressure")
      ELSE IF c.nextReply = ReplySpace THEN FailRuntimeInvariant(c)
      ELSE Emit(granted, DeliverPrimary(m, c.nextReply))

DispatchMessage(c, m) ==
  CASE m.type = "Select.req"   -> ReceiveSelectRequest(c, m)
    [] m.type = "Select.rsp"   -> ReceiveSelectResponse(c, m)
    [] m.type = "Deselect.req" -> ReceiveDeselectRequest(c, m)
    [] m.type = "Deselect.rsp" -> ReceiveDeselectResponse(c, m)
    [] m.type = "Linktest.req" -> SendResponse(c, LinktestRsp(m.sys))
    [] m.type = "Linktest.rsp" -> ReceiveLinktestResponse(c, m)
    [] m.type = "Reject.req"   -> ReceiveReject(c, m)
    [] m.type = "Separate.req" -> ReceiveSeparate(c)
    [] m.type = "Data"         -> ReceiveInboundData(c, m)

\* Mutant: messages are still dispatched while closing.
OnMessage_WhileClosing(core, m, drainDue) ==
  LET c == Begin(core)
  IN  IF c.state = "None" THEN c
      ELSE ProgressDeselect(DispatchMessage(RecordActivity(c), m), drainDue)

\* Mutant: a message that ends the last Data work does not advance the drain.
OnMessage_NoProgress(core, m, drainDue) ==
  LET c == Begin(core)
  IN  IF c.state = "None" \/ c.closing THEN c
      ELSE DispatchMessage(RecordActivity(c), m)

\* on_message; drainDue is the drain deadline's share of now.
OnMessage(core, m, drainDue) ==
  LET c == Begin(core)
  IN  IF c.state = "None" \/ c.closing THEN c
      ELSE ProgressDeselect(DispatchMessage(RecordActivity(c), m), drainDue)

\* on_inbound_violation: a complete frame with an invalid header.  Only an
\* unknown SType or PType is answered; v is [kind, sid, byte, sys].
OnInboundViolation(core, v) ==
  LET c == Begin(core)
  IN  IF c.state = "None" \/ c.closing THEN c
      ELSE IF v.kind = "UnknownSessionType"
      THEN SendResponse(c, RejectReq(v.sid, v.byte, UNSUPPORTED_STYPE, v.sys))
      ELSE IF v.kind = "UnknownPresentationType"
      THEN SendResponse(c, RejectReq(v.sid, v.byte, UNSUPPORTED_PTYPE, v.sys))
      ELSE c

-----------------------------------------------------------------------------
(* Write outcomes, shutdown and timers.                                    *)

\* remove_transaction_for_write.
RemoveTransactionForWrite(c, w, write) ==
  CASE write.kind = "TransactionRequest" /\ c.active # None /\ c.active.write = w ->
         [c EXCEPT !.active = None]
    [] write.kind = "DataRequest" /\ write.sys \in DOMAIN c.data
       /\ c.data[write.sys].write = w ->
         [c EXCEPT !.data = Drop(@, {write.sys})]
    [] OTHER -> c

\* The command of a write that failed is completed before all the others.
CompleteWriteError(c, write, error) ==
  IF write.command = None THEN c ELSE CompleteError(c, write.command, error)

FinishFailedWrite(c, w, write, error) ==
  RequestClose(
    CompleteAll(CompleteWriteError(RemoveTransactionForWrite(c, w, write), write, error),
                "ConnectionLost"),
    "TransportLost", Immediate)

\* Mutant: the commit of a request starts neither T6 nor T3.
CommitWrite_Unarmed(c, w, write) ==
  CASE write.kind = "DataSend" /\ write.command # None ->
         CompleteSend(c, write.command, "Ok")
    [] write.kind = "Separate" /\ write.command # None ->
         CompleteControl(c, write.command, "Ok")
    [] OTHER -> c

\* The Committed arm: T6/T3 start at the commit, Send and Separate complete.
CommitWrite(c, w, write) ==
  CASE write.kind = "TransactionRequest" /\ c.active # None /\ c.active.write = w ->
         [c EXCEPT !.active.armed = TRUE]
    [] write.kind = "DataRequest" /\ write.sys \in DOMAIN c.data
       /\ c.data[write.sys].write = w ->
         [c EXCEPT !.data = Put(@, write.sys, [c.data[write.sys] EXCEPT !.armed = TRUE])]
    [] write.kind = "DataSend" /\ write.command # None ->
         CompleteSend(c, write.command, "Ok")
    [] write.kind = "Separate" /\ write.command # None ->
         CompleteControl(c, write.command, "Ok")
    [] OTHER -> c

\* Mutant: the commit of a request whose error was deferred leaves it deferred.
OnWriteOutcome_IgnoresDeferred(core, w, outcome, due) ==
  LET write   == core.pending[w]
      removed == [Begin(core) EXCEPT !.pending = Drop(@, {w})]
      c       == IF outcome = "Committed" /\ ~core.closing
                 THEN RecordActivity(removed) ELSE removed
      applied == CASE outcome = "Committed"     -> CommitWrite(c, w, write)
                   [] outcome = "NotWritten"    ->
                        FinishFailedWrite(c, w, write, "ConnectionLost")
                   [] outcome = "Indeterminate" ->
                        FinishFailedWrite(c, w, write, "DeliveryIndeterminate")
  IN  IF w \notin DOMAIN core.pending THEN FailRuntimeInvariant(Begin(core))
      ELSE ExpireDeadlines(applied, due)

\* on_write_outcome_at.
OnWriteOutcome(core, w, outcome, due) ==
  LET write   == core.pending[w]
      removed == [Begin(core) EXCEPT !.pending = Drop(@, {w})]
      c       == IF outcome = "Committed" /\ ~core.closing
                 THEN RecordActivity(removed) ELSE removed
      overtaken == /\ outcome = "Committed"
                   /\ write.kind \in {"TransactionRequest", "DataRequest"}
                   /\ write.command # None
                   /\ write.command \in DOMAIN c.deferred
      applied == CASE outcome = "Committed"     -> CommitWrite(c, w, write)
                   [] outcome = "NotWritten"    ->
                        FinishFailedWrite(c, w, write, "ConnectionLost")
                   [] outcome = "Indeterminate" ->
                        FinishFailedWrite(c, w, write, "DeliveryIndeterminate")
  IN  IF w \notin DOMAIN core.pending THEN FailRuntimeInvariant(Begin(core))
      ELSE IF overtaken
      THEN CompleteError([c EXCEPT !.deferred = Drop(@, {write.command})],
                         write.command, c.deferred[write.command])
      ELSE ExpireDeadlines(applied, due)

\* on_shutdown with no failed write.
OnShutdown(core, reason) == CloseAll(Begin(core), reason)

\* on_shutdown for the write whose admission failed.  The close action is
\* pushed even if one was issued: Driver never applied the rest of the batch.
OnAdmissionFailure(core, reason, w) ==
  LET write   == core.pending[w]
      removed == RemoveTransactionForWrite([Begin(core) EXCEPT !.pending = Drop(@, {w})],
                                           w, write)
      error   == IF reason = "ControlBackpressure" THEN "Backpressure" ELSE "ConnectionLost"
      ended   == CompleteAll(CompleteWriteError(removed, write, error), "ConnectionLost")
  IN  IF w \notin DOMAIN core.pending THEN FailRuntimeInvariant(Begin(core))
      ELSE Emit([ended EXCEPT !.closing = TRUE, !.closeIssued = TRUE],
                CloseGeneration(reason, Immediate))

AdvanceTime(core, due) == ExpireDeadlines(Begin(core), due)

\* finish_shutdown_drain.
FinishShutdownDrain(core, reason) ==
  IF core.state # "Selected" \/ core.closing THEN OnShutdown(core, reason)
  ELSE StartSeparate(Begin(core), None, reason)

\* finalize_writer.  Each open command has at most one retained write, so the
\* loop over the writes completes the commands they carry.
FinalizeWriter(core) ==
  LET c       == Begin(core)
      drained == [c EXCEPT !.pending = EmptyFunction]
  IN  IF ~c.closing THEN FailRuntimeInvariant(c)
      ELSE CompleteAll(EmitCompletion(drained, UnresolvedCommands(c), "DeliveryIndeterminate"),
                       "ConnectionLost")

-----------------------------------------------------------------------------
(* Types.                                                                  *)

WriteIds == 0..(WriteSpace - 1)
SystemBytes == 0..(SystemBytesSpace - 1)
ReplyIds == 0..(ReplySpace - 1)
TransactionKinds == {"Select", "Deselect", "Linktest"}
WriteKinds == {"TransactionRequest", "DataSend", "DataRequest", "Response", "Separate"}
Outcomes == {"Committed", "NotWritten", "Indeterminate"}

CoreFields == DOMAIN NewCore

=============================================================================
