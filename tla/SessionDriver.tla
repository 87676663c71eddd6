---------------------------- MODULE SessionDriver ----------------------------
(***************************************************************************)
(* SessionDriver, the owner of one generation's Core                       *)
(* (src/hsms/generation/driver/mod.rs), and the ports it calls in the same *)
(* round: the Writer's ingress (transport/bounded_writer.rs), the closer,  *)
(* and the application's completions and reply tokens.                     *)
(*                                                                         *)
(* As in SessionCoreOps, a handler is a function from a Driver state d to  *)
(* the next one.  Core's batch is applied in order and cut at the first    *)
(* action that fails, which shuts Core down and closes the transport.      *)
(***************************************************************************)
EXTENDS SessionCoreOps

CONSTANTS
  Operations,        \* operations the application may submit
  CommandSpace,      \* number of CommandIds (2^64 in the code)
  CommandCapacity,   \* accepted envelopes waiting for a Core turn
  CommandBytes,      \* their byte budget, in frames: header 1, Message Text 1
  InboundCapacity,   \* Primaries retained for the application
  ControlCapacity,   \* Writer's Control lane
  DataCapacity       \* Writer's Data lane

ASSUME DriverAssumption ==
  /\ None \notin Operations
  /\ Commands = 0..(CommandSpace - 1)
  /\ {CommandSpace, CommandCapacity, CommandBytes, InboundCapacity,
      ControlCapacity, DataCapacity} \subseteq Nat
  /\ CommandCapacity > 0       \* a NonZeroUsize

-----------------------------------------------------------------------------
(* The Writer: a FIFO of admitted frames and the FIFO of its reports.      *)

\* begun: part of the first frame is on the wire.  open: the ingress admits
\* frames.  fault: the worker writes nothing any more.  cancelled: IoCloser's
\* latch.  live: the worker task runs.
NewWriter ==
  [queue |-> <<>>, reports |-> <<>>, begun |-> FALSE, open |-> TRUE,
   fault |-> FALSE, cancelled |-> FALSE, live |-> TRUE]

\* A lane's slots are charged until the report of the frame is consumed.
Charged(w, lane) ==
  Cardinality({i \in DOMAIN w.queue : w.queue[i].lane = lane})
  + Cardinality({i \in DOMAIN w.reports : w.reports[i].lane = lane})

\* try_reserve_message.
Reserve(w) ==
  IF ~w.open THEN "ConnectionLost"
  ELSE IF Charged(w, "Data") >= DataCapacity THEN "Backpressure" ELSE "Reserved"

-----------------------------------------------------------------------------
(* Accepted commands.                                                      *)

\* An AcceptedCommand.  token is a reply's [capability, normal], where normal
\* says whether the Primary's function has a normal Secondary.
Accepted(op, kind, primary, intent, token, body, charge) ==
  [op |-> op, kind |-> kind, primary |-> primary, intent |-> intent,
   token |-> token, body |-> body, charge |-> charge]

IsReply(e) == e.kind = "Reply"

CompletionKind(e) ==
  IF ~IsReply(e) THEN OpenKind(e.kind)
  ELSE IF e.intent = "Abandon" THEN "Control" ELSE "Send"

RequiresDataPermit(e) ==
  e.kind \in {"Send", "Request"} \/ (IsReply(e) /\ e.intent # "Abandon")

\* SessionDriver::new.  answers and held are the application's: the results
\* each operation was completed with and the reply tokens it holds.
NewDriver ==
  [core        |-> NewCore,
   inbound     |-> <<>>,
   queue       |-> <<>>,            \* accepted_commands
   bytes       |-> 0,               \* command_bytes
   draining    |-> FALSE,           \* shutdown_draining
   completions |-> EmptyFunction,   \* by CommandId
   admitted    |-> {},              \* admitted_writes
   nextCommand |-> 0,               \* CommandSpace is None
   closing     |-> None,            \* or [reason, barrier]
   closed      |-> FALSE,           \* transport_closed
   writer      |-> NewWriter,
   answers     |-> [op \in Operations |-> <<>>],
   held        |-> {}]

\* CommandCompletion::complete; None stands for RuntimeCompletion::Internal.
Answer(d, ops, result) ==
  [d EXCEPT !.answers = [op \in Operations |->
                           IF op \in ops THEN Append(@[op], result) ELSE @[op]]]

\* Mutant: the token of a refused reply is swallowed.
Rejected_Swallows(d, e, error) == Answer(d, {e.op}, error)

\* AcceptedCommandKind::rejected: a reply gets its token back.
Rejected(d, e, error) ==
  [Answer(d, {e.op}, error) EXCEPT !.held = IF IsReply(e) THEN @ \cup {e.token} ELSE @]

-----------------------------------------------------------------------------
(* Closing.                                                                *)

\* Mutant: the last reason wins.
BeginClosing_LastWins(d, reason, barrier) ==
  [d EXCEPT !.closing = [reason |-> reason, barrier |-> barrier]]

\* begin_closing: the first reason is kept, Immediate removes its barrier.
BeginClosing(d, reason, barrier) ==
  IF d.closing = None THEN [d EXCEPT !.closing = [reason |-> reason, barrier |-> barrier]]
  ELSE IF barrier = Immediate THEN [d EXCEPT !.closing.barrier = None]
  ELSE d

\* Mutant: the queued commands are answered but kept.
DrainAcceptedCommands_Keeps(d) ==
  LET left[i \in 0..Len(d.queue)] ==
        IF i = 0 THEN d ELSE Rejected(left[i - 1], d.queue[i], "ConnectionLost")
  IN  left[Len(d.queue)]

\* Mutant: commands whose outcome Core still awaits are answered too.
DrainAcceptedCommands_TooEarly(d) ==
  [Answer(d, {d.completions[k].op : k \in DOMAIN d.completions}, "ConnectionLost")
     EXCEPT !.completions = EmptyFunction]

\* The head of the queue is taken and answered.
RejectHead(d) ==
  LET e == Head(d.queue)
  IN  Rejected([d EXCEPT !.queue = Tail(@), !.bytes = @ - e.charge], e, "ConnectionLost")

\* The completions Core no longer owns are answered.
SettleOrphans(d) ==
  LET orphaned == DOMAIN d.completions \ DOMAIN d.core.open
  IN  [Answer(d, {d.completions[k].op : k \in orphaned}, "ConnectionLost")
         EXCEPT !.completions = Drop(@, orphaned)]

\* drain_accepted_commands: what Core no longer owns, then what it never saw.
DrainAcceptedCommands(d) ==
  LET left[i \in 0..Len(d.queue)] ==
        IF i = 0 THEN SettleOrphans(d) ELSE RejectHead(left[i - 1])
  IN  left[Len(d.queue)]

\* finish_close_if_ready.
FinishCloseIfReady(d) ==
  IF d.closing = None \/ d.closed THEN d
  ELSE IF d.closing.barrier # None THEN d
  ELSE DrainAcceptedCommands([d EXCEPT !.closed = TRUE, !.writer.cancelled = TRUE])

-----------------------------------------------------------------------------
(* Applying Core's actions.                                                *)

\* A batch under way: the Driver, the unused Data permit and the failure.
Failed(s, reason, write) == [s EXCEPT !.failure = [reason |-> reason, write |-> write]]

\* try_admit and admit_reserved_data.
AdmitFrame(s, a) ==
  LET w    == s.d.writer
      lane == IF a.message.type = "Data" THEN "Data" ELSE "Control"
      sent == [s EXCEPT
                 !.permit = IF lane = "Data" THEN FALSE ELSE @,
                 !.d.admitted = @ \cup {a.write},
                 !.d.writer.queue = Append(@, [write |-> a.write, lane |-> lane])]
  IN  IF lane = "Data" /\ ~s.permit THEN Failed(s, "RuntimeInvariant", a.write)
      ELSE IF ~w.open THEN Failed(s, "TransportLost", a.write)
      ELSE IF lane = "Control" /\ Charged(w, lane) >= ControlCapacity
      THEN Failed(s, "ControlBackpressure", a.write)
      ELSE sent

\* CompleteCommand.  materialize_result refuses a committed Send whose write
\* Driver does not know: written is the write the round reports.
Complete(s, a, written) ==
  LET known == a.commands \cap DOMAIN s.d.completions
      receipt(k) == s.d.completions[k].kind = "Send" /\ a.result = "Ok"
      valid == {k \in known : receipt(k) => written \in s.d.admitted}
      done  == [Answer(s.d, {s.d.completions[k].op : k \in valid}, a.result)
                  EXCEPT !.completions = Drop(@, valid)]
  IN  IF valid = a.commands THEN [s EXCEPT !.d = done]
      ELSE Failed([s EXCEPT !.d = done], "RuntimeInvariant", None)

\* The application token of a delivered Primary.
Token(a) == [capability |-> a.capability, normal |-> a.message.header.function < 255]

\* Mutant: one Primary more than the application has room for.
InboundFull_OffByOne(d) == Len(d.inbound) > InboundCapacity

InboundFull(d) == Len(d.inbound) >= InboundCapacity

ApplyAction(s, a, written) ==
  CASE s.failure # None -> s
    [] s.failure = None /\ a.act = "DeliverPrimary" ->
         IF InboundFull(s.d) THEN Failed(s, "ApplicationBackpressure", None)
         ELSE [s EXCEPT !.d.inbound = Append(@, Token(a))]
    [] s.failure = None /\ a.act = "SendFrame" -> AdmitFrame(s, a)
    [] s.failure = None /\ a.act = "CompleteCommand" -> Complete(s, a, written)
    [] s.failure = None /\ a.act = "CloseGeneration" ->
         [s EXCEPT !.d = BeginClosing(@, a.reason, a.barrier)]
    [] OTHER -> s

\* Core is taken over, none of its actions is applied yet.
BatchStart(d, core, permit) ==
  [d |-> [d EXCEPT !.core = Begin(core)], permit |-> permit, failure |-> None]

\* Mutant: a refused frame is skipped and the batch goes on.
ApplyActionBatch_Continues(d, core, permit, written) ==
  LET applied[i \in 0..Len(core.out)] ==
        IF i = 0 THEN BatchStart(d, core, permit)
        ELSE [ApplyAction(applied[i - 1], core.out[i], written) EXCEPT !.failure = None]
  IN  applied[Len(core.out)]

\* apply_action_batch of Core's new state.
ApplyActionBatch(d, core, permit, written) ==
  LET applied[i \in 0..Len(core.out)] ==
        IF i = 0 THEN BatchStart(d, core, permit)
        ELSE ApplyAction(applied[i - 1], core.out[i], written)
  IN  applied[Len(core.out)]

\* shutdown_after_driver_failure.
AfterShutdownBatch(s) ==
  IF s.failure = None THEN s.d ELSE BeginClosing(s.d, "RuntimeInvariant", Immediate)

ShutdownAfterDriverFailure(d, reason, write) ==
  BeginClosing(
    AfterShutdownBatch(
      ApplyActionBatch(d, IF write = None THEN OnShutdown(d.core, reason)
                          ELSE OnAdmissionFailure(d.core, reason, write), FALSE, None)),
    reason, Immediate)

\* handle_action_failure_with_reason; first is the lifecycle cause that
\* finish_shutdown_drain insists on.
HandleActionFailure(s, first) ==
  IF s.failure = None THEN s.d
  ELSE ShutdownAfterDriverFailure(s.d, IF first = None THEN s.failure.reason ELSE first,
                                  s.failure.write)

ApplyBatch(d, core, permit, written, first) ==
  HandleActionFailure(ApplyActionBatch(d, core, permit, written), first)

\* apply_actions.
Apply(d, core) == FinishCloseIfReady(ApplyBatch(d, core, FALSE, None, None))

-----------------------------------------------------------------------------
(* Admission of the application's commands.                                *)

\* The gate of try_accept_control and try_accept_data.
AcceptsNew(d) ==
  d.closing = None /\ ~d.draining /\ Len(d.queue) < CommandCapacity

\* The gate of try_accept_reply: shutdown drain keeps replies usable.
AcceptsReply(d, intent, token) ==
  /\ d.closing = None
  /\ intent # "Abandon" => ~RepliesBlocked(d.core)
  /\ intent = "Secondary" => token.normal
  /\ Len(d.queue) < CommandCapacity

\* command_charge: the encoded frame, if the budget holds it.
CommandCharge(body) == IF body THEN 2 ELSE 1
Affordable(d, charge) == charge <= CommandBytes - d.bytes

Enqueue(d, e) == [d EXCEPT !.queue = Append(@, e), !.bytes = @ + e.charge]

-----------------------------------------------------------------------------
(* Rounds.                                                                 *)

\* on_connected, applied when the generation is built.
Connected(d) == Apply(d, OnConnected(d.core))

\* process_due_deadlines, and advance_time.
ProcessDueDeadlines(d, due) ==
  IF d.closing # None \/ due = NothingDue THEN d
  ELSE Apply(d, AdvanceTime(d.core, due))

\* on_shutdown with no failed write, and fail_runtime_invariant.
ShutDown(d, reason) ==
  FinishCloseIfReady(
    BeginClosing(ApplyBatch(d, OnShutdown(d.core, reason), FALSE, None, None),
                 reason, Immediate))

\* A failed, late or cancelled write, or cancellation between two frames: the
\* ingress closes before the report is sent.
FaultedWriter(w) == [w EXCEPT !.fault = TRUE, !.open = FALSE]

\* The Writer may fail while Driver is between reservation and admission.
MetAtAdmission(w, fails) ==
  IF fails /\ w.live /\ ~w.fault /\ w.queue # <<>> THEN FaultedWriter(w) ELSE w

\* drive_next_command, once the slot is reserved.
PresentCommand(d, e, fails) ==
  LET k    == d.nextCommand
      next == [d EXCEPT !.nextCommand = @ + 1, !.writer = MetAtAdmission(@, fails),
                        !.completions = Put(@, k, [op |-> e.op, kind |-> CompletionKind(e)])]
      core == IF IsReply(e)
              THEN OnReply(d.core, k, e.token.capability, e.intent, e.body, FALSE)
              ELSE OnCommand(d.core, k, e.kind, e.primary)
  IN  IF k = CommandSpace
      THEN ShutDown(Rejected(d, e, "ConnectionLost"), "RuntimeInvariant")
      ELSE FinishCloseIfReady(ApplyBatch(next, core, RequiresDataPermit(e), None, None))

\* Mutant: the byte charge of a dequeued command is kept.
DequeueCommand_Leaks(d) == [d EXCEPT !.queue = Tail(@)]

DequeueCommand(d) == [d EXCEPT !.queue = Tail(@), !.bytes = @ - Head(d.queue).charge]

\* A reply accepted before the Deselect transaction that now blocks it.
ReplyOvertaken(d, e) == IsReply(e) /\ e.intent # "Abandon" /\ RepliesBlocked(d.core)

\* What a frame of this command would meet at the Writer.
Slot(d, e) == IF RequiresDataPermit(e) THEN Reserve(d.writer) ELSE "Reserved"

DriveHead(d, e, slot, fails) ==
  IF ReplyOvertaken(d, e) THEN Rejected(d, e, "Draining")
  ELSE IF slot = "ConnectionLost"
  THEN FinishCloseIfReady(ShutdownAfterDriverFailure(Rejected(d, e, slot),
                                                     "TransportLost", None))
  ELSE IF slot # "Reserved" THEN Rejected(d, e, slot)
  ELSE PresentCommand(d, e, fails)

DriveTimely(d, fails) ==
  IF d.closing # None THEN d
  ELSE DriveHead(DequeueCommand(d), Head(d.queue), Slot(d, Head(d.queue)), fails)

DriveNextCommand(d, due, fails) == DriveTimely(ProcessDueDeadlines(d, due), fails)

\* on_message.
MessageTimely(d, m) ==
  IF d.closing # None THEN d ELSE Apply(d, OnMessage(d.core, m, FALSE))

ReceiveMessage(d, m, due) == MessageTimely(ProcessDueDeadlines(d, due), m)

\* on_decode_step_with_header for a header (v) or payload (v = None) violation.
\* The endpoint takes the report right after the round; room says whether the
\* slots it sampled before the round hold one more.
ViolationTimely(d, v, room) ==
  IF d.closing # None THEN d
  ELSE IF ~room THEN ShutDown(d, "ApplicationBackpressure")
  ELSE IF v = None THEN d
  ELSE Apply(d, OnInboundViolation(d.core, v))

ReceiveViolation(d, v, due, room) == ViolationTimely(ProcessDueDeadlines(d, due), v, room)

\* Mutant: the write is forgotten before its completion is materialized.
OutcomeTimely_Forgets(d, w, outcome, late) ==
  ApplyBatch([d EXCEPT !.admitted = @ \ {w}], OnWriteOutcome(d.core, w, outcome, late),
             FALSE, w, None)

OutcomeTimely(d, w, outcome, late) ==
  ApplyBatch(d, OnWriteOutcome(d.core, w, outcome, late), FALSE, w, None)

\* on_write_outcome_at.  late: deadlines the commit starts that have passed
\* when Driver hears of it.
WriteSettled(d, w) ==
  [d EXCEPT
     !.admitted = @ \ {w},
     !.closing  = IF @ # None /\ @.barrier = w THEN [@ EXCEPT !.barrier = None] ELSE @]

ReceiveWriteOutcome(d, w, outcome, due, late) ==
  FinishCloseIfReady(WriteSettled(
    OutcomeTimely(IF outcome = "Committed" THEN ProcessDueDeadlines(d, due) ELSE d,
                  w, outcome, late), w))

\* shutdown_drain_ready.
ShutdownDrainReady(d) ==
  /\ d.queue = <<>>
  /\ DOMAIN d.core.open = {} /\ DOMAIN d.core.replies = {}
  /\ d.admitted = {}

\* Mutant: a refused tail Separate closes with the refusal's reason.
FinishDriverDrain_Refused(d, reason) ==
  FinishCloseIfReady(ApplyBatch([d EXCEPT !.draining = TRUE],
                                FinishShutdownDrain(d.core, reason), FALSE, None, None))

\* finish_shutdown_drain.
FinishDriverDrain(d, reason) ==
  FinishCloseIfReady(ApplyBatch([d EXCEPT !.draining = TRUE],
                                FinishShutdownDrain(d.core, reason), FALSE, None, reason))

\* Mutant: the Writer's end settles nothing.
WriterGone_Unsettled(d) == IF d.closing = None THEN ShutDown(d, "RuntimeInvariant") ELSE d

\* on_writer_stopped.
EndedForWriter(d) == IF d.closing = None THEN ShutDown(d, "RuntimeInvariant") ELSE d

SettleWrites(d) == ApplyBatch(d, FinalizeWriter(d.core), FALSE, None, None)

WritesForgotten(d) == [d EXCEPT !.admitted = {}, !.closing.barrier = None]

WriterGone(d) ==
  DrainAcceptedCommands(FinishCloseIfReady(WritesForgotten(SettleWrites(EndedForWriter(d)))))

=============================================================================
