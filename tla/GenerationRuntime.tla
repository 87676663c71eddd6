-------------------------- MODULE GenerationRuntime --------------------------
(***************************************************************************)
(* One connected generation: the rounds GenerationRuntime gives Driver     *)
(* (src/hsms/generation/runtime.rs), the Writer task that runs beside them *)
(* (transport/bounded_writer.rs, io.rs), the source-ordered events of      *)
(* IoTasks (transport/tasks.rs), graceful shutdown, and cleanup with its   *)
(* recovery.                                                               *)
(*                                                                         *)
(* driver is SessionDriver with its ports; shutdown the ShutdownDrain;     *)
(* phase what the owner is doing; tasks what IoTasks knows of its joins.   *)
(* The Reader is its stream of messages and its end.                       *)
(***************************************************************************)
EXTENDS SessionDriver

CONSTANTS
  AutoSelect,       \* Active mode with auto_select
  PeerMessages,     \* messages the peer may send
  PeerViolations,   \* header violations, and None for a payload violation
  Primaries,        \* [stream, function, body] the application may send
  Kinds,            \* command kinds the application may use
  Intents,          \* reply intents the application may use
  ReaderEnds,       \* close reasons a stopped Reader gives
  CloseReasons,     \* graceful lifecycle requests
  ForcedReasons,    \* reasons the endpoint may force a close with
  MayPanic          \* a Writer task may die without reporting

\* GenerationCloseReason, without the two only a lifecycle request gives.
GenerationReasons ==
  {"LocalSeparate", "SeparateReceived", "TransportLost", "ProtocolViolation",
   "ControlBackpressure", "ApplicationBackpressure", "SystemBytesExhausted",
   "RuntimeInvariant", "CommunicationsTimeoutT6", "CommunicationsTimeoutT7",
   "CommunicationsTimeoutT8"}

AllReasons == GenerationReasons \cup CloseReasons \cup ForcedReasons \cup ReaderEnds

\* What the Options hold: closing, the failure of a batch, shutdown.
Closings == [reason : AllReasons, barrier : WriteIds \cup {None}]
Failures == [reason : AllReasons, write : WriteIds \cup {None}]
Drains   == [reason : CloseReasons, finalizing : BOOLEAN]

ASSUME RuntimeAssumption ==
  /\ AutoSelect \in BOOLEAN /\ MayPanic \in BOOLEAN
  /\ Kinds \subseteq CommandNames
  /\ Intents \subseteq {"Secondary", "Abort", "Abandon"}
  /\ \A m \in PeerMessages : m.type \in MessageTypes
  /\ None \notin AllReasons \cup Closings \cup Failures \cup Drains
  /\ None # "Clean"            \* no exit is not an exit

VARIABLES driver, shutdown, phase, tasks, accepted

vars == <<driver, shutdown, phase, tasks, accepted>>

\* from_transport: the connected fact, then auto-Select as the first command.
LaunchedDriver ==
  LET connected == Connected(NewDriver)
  IN  IF AutoSelect
      THEN Enqueue(connected, Accepted(None, "Select", None, None, None, FALSE, 0))
      ELSE connected

Init ==
  /\ driver = LaunchedDriver
  /\ shutdown = None
  /\ phase = "running"        \* running, cleanup, recovering, Clean or Poisoned
  /\ tasks = [reader |-> TRUE, writer |-> TRUE, poison |-> FALSE, aborted |-> FALSE]
  /\ accepted = {}

-----------------------------------------------------------------------------
(* The application.                                                        *)

ApplicationLeaves == UNCHANGED <<shutdown, phase, tasks>>

Admit(e) ==
  /\ e.op \notin accepted
  /\ Affordable(driver, e.charge)
  /\ driver' = Enqueue(driver, e)
  /\ accepted' = accepted \cup {e.op}
  /\ ApplicationLeaves

\* try_accept_control; a refusal changes nothing.
TryAcceptControl(op, kind) ==
  /\ AcceptsNew(driver)
  /\ Admit(Accepted(op, kind, None, None, None, FALSE, 0))

\* try_accept_send and try_accept_request.
TryAcceptData(op, kind, primary) ==
  /\ AcceptsNew(driver)
  /\ Admit(Accepted(op, kind, primary, None, None, primary.body, CommandCharge(primary.body)))

\* try_accept_reply: the token leaves the application with the command.
TryAcceptReply(op, intent, token) ==
  /\ op \notin accepted
  /\ AcceptsReply(driver, intent, token)
  /\ Affordable(driver, CommandCharge(FALSE))
  /\ driver' = [Enqueue(driver, Accepted(op, "Reply", None, intent, token, FALSE,
                                         CommandCharge(FALSE)))
                  EXCEPT !.held = @ \ {token}]
  /\ accepted' = accepted \cup {op}
  /\ ApplicationLeaves

\* take_inbound, which the endpoint calls between rounds.
TakeInbound ==
  /\ phase = "running" /\ driver.inbound # <<>>
  /\ driver' = [driver EXCEPT
                  !.inbound = Tail(@),
                  !.held = IF Head(driver.inbound).capability = None THEN @
                           ELSE @ \cup {Head(driver.inbound)}]
  /\ UNCHANGED accepted
  /\ ApplicationLeaves

-----------------------------------------------------------------------------
(* The Writer task.                                                        *)

WriterStep(w) ==
  /\ driver.writer.live
  /\ driver' = [driver EXCEPT !.writer = w]
  /\ UNCHANGED <<shutdown, phase, tasks, accepted>>

\* A write that takes more than one call; cancellation is polled before each.
WriteSome ==
  LET w == driver.writer
  IN  /\ w.queue # <<>> /\ ~w.fault /\ ~w.begun /\ ~w.cancelled
      /\ WriterStep([w EXCEPT !.begun = TRUE])

\* The report of the first frame.
ReportFirst(w, outcome) ==
  [w EXCEPT !.queue = Tail(@), !.begun = FALSE,
            !.reports = Append(@, [write |-> Head(w.queue).write,
                                   lane |-> Head(w.queue).lane, outcome |-> outcome])]

WriteAll ==
  LET w == driver.writer
  IN  /\ w.queue # <<>> /\ ~w.fault /\ ~w.cancelled
      /\ WriterStep(ReportFirst(w, "Committed"))

\* Mutant: the idle Writer does not listen to the cancellation.
FaultWriter_Deaf ==
  LET w == driver.writer
  IN  /\ ~w.fault /\ w.queue # <<>>
      /\ WriterStep(FaultedWriter(w))

FaultWriter ==
  LET w == driver.writer
  IN  /\ ~w.fault /\ (w.queue # <<>> \/ w.cancelled)
      /\ WriterStep(FaultedWriter(w))

\* failed_write for the frame that met the fault; the rest were not written.
SettleFirst(w) == ReportFirst(w, IF w.begun THEN "Indeterminate" ELSE "NotWritten")

ReportFault ==
  LET w == driver.writer
  IN  /\ w.fault /\ w.queue # <<>>
      /\ WriterStep(SettleFirst(w))

StopWriter ==
  LET w == driver.writer
  IN  /\ w.fault /\ w.queue = <<>>
      /\ WriterStep([w EXCEPT !.live = FALSE])

\* The task panics, or is aborted at an await: what it had not reported is lost.
LoseWriter ==
  LET w == driver.writer
  IN  /\ tasks.aborted \/ MayPanic
      /\ driver' = [driver EXCEPT !.writer = [w EXCEPT !.queue = <<>>, !.begun = FALSE,
                                                       !.open = FALSE, !.fault = TRUE,
                                                       !.live = FALSE]]
      /\ w.live
      /\ tasks' = [tasks EXCEPT !.poison = TRUE]
      /\ UNCHANGED <<shutdown, phase, accepted>>

-----------------------------------------------------------------------------
(* Rounds.                                                                 *)

NextReport == Head(driver.writer.reports)
ReportReady == driver.writer.reports # <<>>
WriterEnded == tasks.writer /\ ~driver.writer.live /\ ~ReportReady

\* poll_terminal has something to say.
TerminalReady == (ReportReady /\ NextReport.outcome # "Committed") \/ WriterEnded

DrainReady == shutdown # None /\ ~shutdown.finalizing /\ ShutdownDrainReady(driver)

Running == phase = "running" /\ ~driver.closed

\* step gives ordinary input its turn.
Ordinary == Running /\ ~TerminalReady /\ ~DrainReady

RoundLeaves == UNCHANGED <<phase, accepted>>

Due == DueChoices(driver.core)

CommandRound(due, fails) ==
  /\ Ordinary /\ driver.queue # <<>>
  /\ driver' = DriveNextCommand(driver, due, fails)
  /\ UNCHANGED <<shutdown, tasks>>
  /\ RoundLeaves

MessageRound(m, due) ==
  /\ Ordinary /\ tasks.reader
  /\ driver' = ReceiveMessage(driver, m, due)
  /\ UNCHANGED <<shutdown, tasks>>
  /\ RoundLeaves

ViolationRound(v, due, room) ==
  /\ Ordinary /\ tasks.reader
  /\ driver' = ReceiveViolation(driver, v, due, room)
  /\ UNCHANGED <<shutdown, tasks>>
  /\ RoundLeaves

\* The deadlines a commit of w has started and Driver already finds passed.
LateDeadlines(w, late) ==
  [NothingDue EXCEPT
     !.t6 = late /\ driver.core.active # None /\ driver.core.active.write = w,
     !.t3 = {s \in DOMAIN driver.core.data : late /\ driver.core.data[s].write = w},
     !.idle = late]

\* apply_write_report; the report's capacity is released after it is applied.
ApplyWriteReport(d, due, late) ==
  LET r    == Head(d.writer.reports)
      done == IF r.write \notin d.admitted THEN ShutDown(d, "RuntimeInvariant")
              ELSE ReceiveWriteOutcome(d, r.write, r.outcome, due, late)
  IN  [done EXCEPT !.writer.reports = Tail(@)]

WriteRound(due, late) ==
  /\ Running /\ ReportReady
  /\ TerminalReady \/ Ordinary
  /\ driver' = ApplyWriteReport(driver, due, LateDeadlines(NextReport.write, late))
  /\ UNCHANGED <<shutdown, tasks>>
  /\ RoundLeaves

ReaderStopped(reason) ==
  /\ Running /\ tasks.reader
  /\ ~(ReportReady /\ NextReport.outcome # "Committed")
  /\ driver' = ShutDown(driver, reason)
  /\ tasks' = [tasks EXCEPT !.reader = FALSE]
  /\ UNCHANGED shutdown
  /\ RoundLeaves

WriterStopped ==
  /\ Running /\ WriterEnded
  /\ driver' = WriterGone(ShutDown(driver, IF tasks.poison THEN "RuntimeInvariant"
                                                           ELSE "TransportLost"))
  /\ tasks' = [tasks EXCEPT !.writer = FALSE]
  /\ UNCHANGED shutdown
  /\ RoundLeaves

\* advance_shutdown: drained and expired say which absolute deadline has passed.
AdvanceShutdown(d, drained, expired) ==
  IF shutdown = None THEN d
  ELSE IF expired THEN ShutDown(d, shutdown.reason)
  ELSE IF ~shutdown.finalizing /\ (drained \/ ShutdownDrainReady(d))
  THEN FinishDriverDrain(d, shutdown.reason)
  ELSE d

Finalizing(d, drained, expired) ==
  IF shutdown # None /\ ~expired /\ (drained \/ ShutdownDrainReady(d))
  THEN [shutdown EXCEPT !.finalizing = TRUE] ELSE shutdown

\* The Timer input of step, and of process_ready_priority, which runs it after
\* at most one terminal event.
TimerRound(due, drained, expired) ==
  LET timely == ProcessDueDeadlines(driver, due)
  IN  /\ Running
      /\ \/ due # NothingDue
         \/ shutdown # None /\ (expired \/ (drained /\ ~shutdown.finalizing))
      /\ UNCHANGED tasks
      /\ RoundLeaves
      /\ shutdown' = Finalizing(timely, drained, expired)
      /\ driver' = AdvanceShutdown(timely, drained, expired)

ShutdownRound ==
  /\ Running /\ ~TerminalReady /\ DrainReady
  /\ driver' = AdvanceShutdown(driver, FALSE, FALSE)
  /\ shutdown' = Finalizing(driver, FALSE, FALSE)
  /\ UNCHANGED tasks
  /\ RoundLeaves

\* begin_graceful_close: the first request owns the reason and the deadlines.
BeginGracefulClose(reason) ==
  /\ Running /\ shutdown = None /\ driver.closing = None
  /\ driver' = [driver EXCEPT !.draining = TRUE]
  /\ shutdown' = [reason |-> reason, finalizing |-> FALSE]
  /\ UNCHANGED tasks
  /\ RoundLeaves

\* force_close.
ForceClose(reason) ==
  /\ Running
  /\ driver' = ShutDown(driver, reason)
  /\ UNCHANGED <<shutdown, tasks>>
  /\ RoundLeaves

-----------------------------------------------------------------------------
(* Cleanup.                                                                *)

CleaningUp == phase \in {"cleanup", "recovering"}

\* finish, up to IoTasks::cleanup.
Finish ==
  /\ phase = "running" /\ driver.closed
  /\ driver' = ShutDown(driver, driver.closing.reason)
  /\ phase' = "cleanup"
  /\ UNCHANGED <<shutdown, tasks, accepted>>

CleanupReport ==
  /\ CleaningUp /\ tasks.writer /\ ReportReady
  /\ driver' = ApplyWriteReport(driver, NothingDue, NothingDue)
  /\ UNCHANGED <<shutdown, phase, tasks, accepted>>

JoinReader ==
  /\ CleaningUp /\ tasks.reader
  /\ tasks' = [tasks EXCEPT !.reader = FALSE]
  /\ UNCHANGED <<driver, shutdown, phase, accepted>>

JoinWriter ==
  /\ CleaningUp /\ WriterEnded
  /\ tasks' = [tasks EXCEPT !.writer = FALSE]
  /\ UNCHANGED <<driver, shutdown, phase, accepted>>

\* Both tasks joined: an ordinary cleanup keeps its poison, a recovery drops it.
CleanupDone ==
  /\ CleaningUp /\ ~tasks.reader /\ ~tasks.writer
  /\ driver' = WriterGone(driver)
  /\ phase' = IF tasks.poison /\ phase = "cleanup" THEN "Poisoned" ELSE "Clean"
  /\ UNCHANGED <<shutdown, tasks, accepted>>

\* Mutant: an expired cleanup also settles what the Writer may still do.
SettleIfJoined_Always(d) == WriterGone(d)

\* close and recover_cleanup settle missing outcomes only after Writer's join.
SettleIfJoined(d) == IF tasks.writer THEN d ELSE WriterGone(d)

CleanupExpired ==
  /\ CleaningUp /\ (tasks.reader \/ tasks.writer)
  /\ driver' = SettleIfJoined(driver)
  /\ phase' = "Poisoned"
  /\ tasks' = [tasks EXCEPT !.poison = TRUE, !.aborted = TRUE]
  /\ UNCHANGED <<shutdown, accepted>>

\* recover_cleanup, on the application's explicit Stop.
Recover ==
  /\ phase = "Poisoned"
  /\ driver' = ShutDown(driver, driver.closing.reason)
  /\ phase' = "recovering"
  /\ UNCHANGED <<shutdown, tasks, accepted>>

-----------------------------------------------------------------------------

Application ==
  \/ \E op \in Operations, kind \in Kinds \cap ControlCommands : TryAcceptControl(op, kind)
  \/ \E op \in Operations, kind \in Kinds \ ControlCommands, p \in Primaries :
        TryAcceptData(op, kind, p)
  \/ \E op \in Operations, i \in Intents, t \in driver.held : TryAcceptReply(op, i, t)
  \/ TakeInbound
  \/ \E r \in CloseReasons : BeginGracefulClose(r)
  \/ \E r \in ForcedReasons : ForceClose(r)

WriterTask == WriteSome \/ WriteAll \/ FaultWriter \/ ReportFault \/ StopWriter \/ LoseWriter

Rounds ==
  \/ \E d \in Due, fails \in BOOLEAN : CommandRound(d, fails)
  \/ \E m \in PeerMessages, d \in Due : MessageRound(m, d)
  \/ \E v \in PeerViolations, d \in Due, room \in BOOLEAN : ViolationRound(v, d, room)
  \/ \E d \in Due, late \in BOOLEAN : WriteRound(d, late)
  \/ \E r \in ReaderEnds : ReaderStopped(r)
  \/ WriterStopped
  \/ \E d \in Due, drained, expired \in BOOLEAN : TimerRound(d, drained, expired)
  \/ ShutdownRound

Cleanup ==
  \/ Finish \/ CleanupReport \/ JoinReader \/ JoinWriter \/ CleanupDone \/ CleanupExpired
  \/ Recover

Next == Application \/ WriterTask \/ Rounds \/ Cleanup

Spec == Init /\ [][Next]_vars

-----------------------------------------------------------------------------
(* Fairness.  The owner keeps polling step and cleanup; alternation between*)
(* commands, reports and messages gives each source its turn; a Writer step*)
(* is bounded by the write deadlines; and time passes, so a deadline that  *)
(* stays armed passes.  Nothing is assumed of the peer, of the application *)
(* or of the reader's end, and no task has to die.                         *)

\* Deadlines are processed until the generation closes.
Open == Running /\ driver.closing = None

T7Passes == \E d \in Due, b, e \in BOOLEAN : d.t7 /\ TimerRound(d, b, e)
T6Passes == \E d \in Due, b, e \in BOOLEAN : d.t6 /\ TimerRound(d, b, e)
T3Passes(s) == \E d \in Due, b, e \in BOOLEAN : s \in d.t3 /\ TimerRound(d, b, e)
DrainPasses == \E d \in Due, b, e \in BOOLEAN : d.drain /\ TimerRound(d, b, e)
ShutdownPasses == \E d \in Due : TimerRound(d, TRUE, TRUE)
SomeCommandRound == \E d \in Due, fails \in BOOLEAN : CommandRound(d, fails)
SomeWriteRound == \E d \in Due, late \in BOOLEAN : WriteRound(d, late)

\* Weak fairness, with the enabling conditions written out.
Fairness ==
  /\ []<>~(Open /\ driver.core.t7) \/ []<><<T7Passes>>_vars
  /\ []<>~(Open /\ driver.core.active # None /\ driver.core.active.armed) \/ []<><<T6Passes>>_vars
  /\ []<>~(Open /\ driver.core.drain # None) \/ []<><<DrainPasses>>_vars
  /\ \A s \in 0..(SystemBytesSpace - 1) :
       []<>~(Open /\ s \in DOMAIN driver.core.data /\ driver.core.data[s].armed)
       \/ []<><<T3Passes(s)>>_vars
  /\ []<>~(Running /\ shutdown # None) \/ []<><<ShutdownPasses>>_vars
  /\ []<>~(Ordinary /\ driver.queue # <<>>) \/ []<><<SomeCommandRound>>_vars
  /\ []<>~(Running /\ ReportReady /\ (TerminalReady \/ Ordinary)) \/ []<><<SomeWriteRound>>_vars
  /\ []<>~(Running /\ WriterEnded) \/ []<><<WriterStopped>>_vars
  /\ []<>~(Running /\ ~TerminalReady /\ DrainReady) \/ []<><<ShutdownRound>>_vars
  /\ WF_vars(WriteAll \/ FaultWriter \/ ReportFault \/ StopWriter)
  /\ []<>~(phase = "running" /\ driver.closed) \/ []<><<Finish>>_vars
  /\ []<>~(CleaningUp /\ tasks.writer /\ ReportReady) \/ []<><<CleanupReport>>_vars
  /\ WF_vars(JoinReader)
  /\ WF_vars(JoinWriter)
  /\ []<>~(CleaningUp /\ ~tasks.reader /\ ~tasks.writer) \/ []<><<CleanupDone>>_vars

FairSpec == Spec /\ Fairness

-----------------------------------------------------------------------------
(* Properties.                                                             *)

\* The Driver and the tasks keep their declared shapes.
TypeOK ==
  /\ DOMAIN driver.completions \subseteq Commands
  /\ \A k \in DOMAIN driver.completions : driver.completions[k].kind \in CommandKinds
  /\ driver.nextCommand \in 0..CommandSpace
  /\ Len(driver.queue) <= CommandCapacity
  /\ driver.bytes \in 0..CommandBytes
  /\ Len(driver.inbound) <= InboundCapacity
  /\ driver.closed \in BOOLEAN /\ driver.draining \in BOOLEAN
  /\ phase \in {"running", "cleanup", "recovering", "Clean", "Poisoned"}
  /\ tasks \in [reader : BOOLEAN, writer : BOOLEAN, poison : BOOLEAN, aborted : BOOLEAN]
  /\ accepted \subseteq Operations

\* The queue entries and the table entries of an operation.
Queued(op) == Cardinality({i \in DOMAIN driver.queue : driver.queue[i].op = op})
Tabled(op) == Cardinality({k \in DOMAIN driver.completions : driver.completions[k].op = op})

\* An accepted operation is owned by the queue or by the completion table until
\* it is answered, and it is answered once: through refused frames, cut batches,
\* late reports, lost tasks and both kinds of cleanup.
AcceptedHasOneOwner ==
  \A op \in Operations :
    Queued(op) + Tabled(op) + Len(driver.answers[op]) = IF op \in accepted THEN 1 ELSE 0

\* Between rounds Driver's table and Core agree on which commands are open: closing
\* answers what Core has given up and keeps what still awaits a write outcome.
TableMatchesCore == DOMAIN driver.completions = DOMAIN driver.core.open

QueuedWrites == {driver.writer.queue[i].write : i \in DOMAIN driver.writer.queue}
ReportedWrites == {driver.writer.reports[i].write : i \in DOMAIN driver.writer.reports}

\* Driver knows every write the Writer may still perform or report, each of them
\* once, and Core still holds its obligation; while the task lives none is lost.
WritesAreAccountedFor ==
  /\ QueuedWrites \cup ReportedWrites \subseteq driver.admitted
  /\ Cardinality(QueuedWrites \cup ReportedWrites) =
       Len(driver.writer.queue) + Len(driver.writer.reports)
  /\ driver.admitted \subseteq DOMAIN driver.core.pending
  /\ driver.closing = None => driver.admitted = DOMAIN driver.core.pending
  /\ driver.writer.live => driver.admitted = QueuedWrites \cup ReportedWrites

\* A close that waits for a write waits for an admitted Separate.req, which is
\* the last frame of the generation; so the wait ends and nothing follows it.
BarrierIsLastWrite ==
  driver.closing # None /\ driver.closing.barrier # None =>
    LET b == driver.closing.barrier
    IN  /\ ~driver.closed
        /\ b \in driver.admitted
        /\ driver.core.pending[b].kind = "Separate"
        /\ \A w \in driver.admitted : w <= b

\* The places a capability's token can be.
TokenPlaces(r) ==
  Cardinality({i \in DOMAIN driver.inbound : driver.inbound[i].capability = r})
  + Cardinality({t \in driver.held : t.capability = r})
  + Cardinality({i \in DOMAIN driver.queue :
                   IsReply(driver.queue[i]) /\ driver.queue[i].token.capability = r})

\* Reply authority is exclusive and never stranded: a capability has at most one
\* token, and while the generation is open a live contract has exactly one.
ReplyAuthorityIsExclusive ==
  \A r \in 0..(driver.core.nextReply - 1) :
    /\ TokenPlaces(r) <= 1
    /\ driver.closing = None /\ r \in DOMAIN driver.core.replies => TokenPlaces(r) = 1

\* Driver never has to blame itself: every Data frame meets the permit of its
\* command, every completion its endpoint, every report an admitted write.  Only
\* an exhausted identifier space or a dead task closes with RuntimeInvariant.
DriverKeepsItsContracts ==
  driver.closing # None /\ driver.closing.reason = "RuntimeInvariant" =>
    \/ driver.core.nextWrite = WriteSpace \/ driver.core.nextReply = ReplySpace
    \/ driver.nextCommand = CommandSpace
    \/ tasks.poison

Charges(queue) ==
  LET sum[i \in 0..Len(queue)] == IF i = 0 THEN 0 ELSE sum[i - 1] + queue[i].charge
  IN  sum[Len(queue)]

\* The byte budget is the sum of the charges still queued.
BytesMatchQueue == driver.bytes = Charges(driver.queue)

\* An operation has one owner, and whoever owns it keeps its books: the queue its
\* charge, the table what Core still has open, each within its capacity.
OperationsHaveOneOwner == TypeOK /\ AcceptedHasOneOwner /\ BytesMatchQueue /\ TableMatchesCore

\* A clean exit is a proof: every operation is answered, no write is unaccounted
\* for.  A poisoned one leaves open only operations whose frame may have been
\* written by a task that is not known to have stopped.
ExitSettlesOperations ==
  /\ phase = "Clean" =>
       /\ \A op \in accepted : driver.answers[op] # <<>>
       /\ driver.admitted = {} /\ ~tasks.writer
  /\ phase = "Poisoned" =>
       \A k \in DOMAIN driver.completions :
         tasks.writer /\ k \in UnresolvedCommands(driver.core)

\* The first close reason is the one reported, and closing is irreversible.
FirstReasonWins ==
  [][driver.closing # None =>
       /\ driver'.closing # None /\ driver'.closing.reason = driver.closing.reason
       /\ driver.closed => driver'.closed]_vars

\* Ending a drain closes with the cause of the drain, also when the Writer
\* refuses the tail Separate (unless no identifier is left for it).
DrainKeepsItsCause ==
  [][\A drained, expired \in BOOLEAN :
       TimerRound(NothingDue, drained, expired) /\ driver.closing = None =>
         driver'.closing # None
         /\ (driver'.closing.reason = shutdown.reason \/ IdentifiersExhausted(driver.core))]_vars

\* What a generation is closed for is decided once, by what began its end.
CloseKeepsItsCause == FirstReasonWins /\ DrainKeepsItsCause

\* The owner's view of this generation.
OwnersView ==
  [drain   |-> IF shutdown = None THEN None ELSE shutdown.reason,
   closing |-> IF driver.closing = None THEN None ELSE driver.closing.reason,
   closed  |-> driver.closed,
   exit    |-> IF phase = "Clean" THEN "Clean"
               ELSE IF phase \in {"Poisoned", "recovering"} THEN "Poisoned" ELSE None,
   owned   |-> {op \in accepted : driver.answers[op] = <<>>},
   seen    |-> accepted]

Contract ==
  INSTANCE GenerationContract WITH
    generation   <- OwnersView,
    OwnReasons   <- GenerationReasons,
    DrainReasons <- CloseReasons

\* The generation keeps the contract its owner relies on: a drain is requested
\* once, a close is for a reason of its own or the requested one, answers are
\* given once and before a clean exit, and recovery resurrects nothing.
ImplementsContract == Contract!Spec

\* Every accepted operation is eventually answered, unless cleanup could not be
\* proved; nothing is asked of the peer.
OperationsAreAnswered ==
  \A op \in Operations :
    op \in accepted ~> driver.answers[op] # <<>> \/ phase = "Poisoned"

\* A graceful shutdown ends, whatever the peer and the application do.
ShutdownEnds == shutdown # None ~> phase \in {"Clean", "Poisoned"}

\* Nothing waits for ever on a generation: neither an operation nor a shutdown.
EverythingIsAnswered == OperationsAreAnswered /\ ShutdownEnds

=============================================================================
