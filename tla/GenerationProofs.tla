--------------------------- MODULE GenerationProofs ---------------------------
(***************************************************************************)
(* Theorems about GenerationRuntime, for every value of its constants: the *)
(* safety properties of a generation and the contract with its owner.      *)
(*                                                                         *)
(* GenerationInv is inductive.  It adds to the properties that Driver is   *)
(* Sound between two rounds, what a join of the tasks proves, and the      *)
(* causes a generation may be closed for.  Moves is what every step does;  *)
(* there is a lemma per action.  Entrusted is what reply authority needs   *)
(* beside it.                                                              *)
(***************************************************************************)
EXTENDS GenerationLemmas

Phases == {"running", "cleanup", "recovering", "Clean", "Poisoned"}

\* The types of what the owner keeps.
Shapes ==
  /\ phase \in Phases
  /\ tasks \in [reader : BOOLEAN, writer : BOOLEAN, poison : BOOLEAN, aborted : BOOLEAN]
  /\ shutdown \in {None} \cup Drains
  /\ accepted \subseteq Operations

\* What the joins and the phases prove of Driver.
Joined ==
  /\ ~tasks.writer => ~driver.writer.live /\ driver.writer.reports = <<>>
  /\ phase # "running" => driver.closed /\ GivenUp(driver.core)
  /\ phase = "Clean" => ~tasks.writer /\ Emptied(driver)
  /\ phase = "Poisoned" /\ ~tasks.writer => Emptied(driver)
  /\ shutdown # None => driver.draining

\* What a generation may be closed for: the peer and the transport, the reader's end,
\* the endpoint's force, the drain it asked for, and its own faults.
DrainCause == IF shutdown = None THEN {} ELSE {shutdown.reason}
Faults ==
  IF driver.nextCommand = CommandSpace \/ tasks.poison THEN {"RuntimeInvariant"} ELSE {}
Causes == OrdinaryReasons \cup ReaderEnds \cup ForcedReasons \cup DrainCause \cup Faults

\* It is closed for one of them, or for want of an identifier.
Blamed ==
  driver.closing # None =>
    \/ driver.closing.reason \in Causes
    \/ driver.closing.reason = "RuntimeInvariant" /\ Exhausted(driver.core)

\* The state between two steps; done are operations that have been answered.
Rested(done) ==
  Sound(driver, driver.writer.reports, Ledger(accepted, done)) /\ Shapes /\ Joined

\* What every step does.
Moves(done) ==
  /\ Rested(done)'
  /\ Keeps(driver, driver', Causes')
  /\ driver.nextCommand <= driver'.nextCommand
  /\ tasks.poison => tasks'.poison
  /\ shutdown # None => shutdown' # None /\ shutdown'.reason = shutdown.reason

GenerationInv == Rested({}) /\ Blamed

-----------------------------------------------------------------------------
(* The steps of the application.                                           *)

\* An open generation is running.
LEMMA OpenRuns ==
  ASSUME NEW done, Rested(done), driver.closing = None
  PROVE  ~driver.closed /\ phase = "running"
BY DEF Rested, Joined, Sound, Coherent

\* A step that takes a command keeps its operation.
LEMMA AdmitMoves ==
  ASSUME NEW done, Rested(done), NEW x, driver.closing = None,
         Len(driver.queue) < CommandCapacity, x.op \in Operations \ accepted,
         x.kind \in CommandNames \cup {"Reply"}, x.charge \in Nat, Affordable(driver, x.charge),
         DOMAIN driver' = DriverFields,
         \A f \in DriverFields \ {"queue", "bytes", "held"} : driver'[f] = driver[f],
         driver'.queue = Append(driver.queue, x), driver'.bytes = driver.bytes + x.charge,
         accepted' = accepted \cup {x.op}, UNCHANGED <<shutdown, phase, tasks>>
  PROVE  Moves(done)
<1>1. ~driver.closed /\ phase = "running"
  BY OpenRuns
<1>2. Sound(driver, driver.writer.reports, Ledger(accepted, done))
  BY DEF Rested
<1>3. accepted' \cap Operations = (accepted \cup {x.op}) \cap Operations
  OBVIOUS
<1>4. Sound(driver', driver.writer.reports, Ledger(accepted', done))
  BY <1>1, <1>2, <1>3, EnqueueSound
<1>5. /\ driver'.writer = driver.writer /\ driver'.closing = driver.closing
      /\ driver'.closed = driver.closed /\ driver'.core = driver.core
      /\ driver'.nextCommand = driver.nextCommand /\ driver'.draining = driver.draining
  BY DEF DriverFields
<1>6. driver.nextCommand <= driver'.nextCommand
  BY <1>2, <1>5, DriverAssumption DEF Sound, Books
<1>7. Keeps(driver, driver', Causes')
  BY <1>5 DEF Keeps
<1>8. Shapes'
  BY DEF Rested, Shapes
<1>9. Joined'
  BY <1>1, <1>5 DEF Rested, Joined
<1> QED
  BY <1>4, <1>5, <1>6, <1>7, <1>8, <1>9 DEF Moves, Rested

\* try_accept_control, and the two that carry data.
LEMMA AcceptMoves ==
  ASSUME NEW done, Rested(done), NEW op \in Operations, NEW kind \in CommandNames,
         NEW primary, NEW body, NEW charge \in Nat, AcceptsNew(driver),
         Admit(Accepted(op, kind, primary, None, None, body, charge))
  PROVE  Moves(done)
<1> DEFINE x == Accepted(op, kind, primary, None, None, body, charge)
<1>1. x.op = op /\ x.kind = kind /\ x.charge = charge
  BY DEF Accepted
<1>2. Admit(x)
  OBVIOUS
<1> HIDE DEF x
<1>3. /\ x.op \notin accepted /\ Affordable(driver, x.charge) /\ driver' = Enqueue(driver, x)
      /\ accepted' = accepted \cup {x.op} /\ UNCHANGED <<shutdown, phase, tasks>>
  BY <1>2 DEF Admit, ApplicationLeaves
<1>4. DOMAIN driver = DriverFields
  BY DEF Rested, Sound, Coherent, Formed
<1>5. /\ DOMAIN driver' = DriverFields
      /\ \A f \in DriverFields \ {"queue", "bytes", "held"} : driver'[f] = driver[f]
      /\ driver'.queue = Append(driver.queue, x) /\ driver'.bytes = driver.bytes + x.charge
  BY <1>3, <1>4 DEF Enqueue, DriverFields
<1>6. driver.closing = None /\ Len(driver.queue) < CommandCapacity
  BY DEF AcceptsNew
<1>7. x.op \in Operations \ accepted /\ x.kind \in CommandNames \cup {"Reply"} /\ x.charge \in Nat
  BY <1>1, <1>3
<1> QED
  BY <1>3, <1>5, <1>6, <1>7, AdmitMoves

\* try_accept_reply.
LEMMA ReplyMoves ==
  ASSUME NEW done, Rested(done), NEW op \in Operations, NEW intent, NEW token,
         TryAcceptReply(op, intent, token)
  PROVE  Moves(done)
<1> DEFINE x == Accepted(op, "Reply", None, intent, token, FALSE, CommandCharge(FALSE))
           e == [Enqueue(driver, x) EXCEPT !.held = @ \ {token}]
<1>1. x.op = op /\ x.kind = "Reply" /\ x.charge = 1
  BY DEF Accepted, CommandCharge
<1>2. /\ op \notin accepted /\ AcceptsReply(driver, intent, token)
      /\ Affordable(driver, x.charge) /\ driver' = e
      /\ accepted' = accepted \cup {op} /\ UNCHANGED <<shutdown, phase, tasks>>
  BY <1>1 DEF TryAcceptReply, ApplicationLeaves, CommandCharge
<1>3. DOMAIN driver = DriverFields
  BY DEF Rested, Sound, Coherent, Formed
<1> HIDE DEF x
<1>4. /\ DOMAIN e = DriverFields
      /\ \A f \in DriverFields \ {"queue", "bytes", "held"} : e[f] = driver[f]
      /\ e.queue = Append(driver.queue, x) /\ e.bytes = driver.bytes + x.charge
  BY <1>3 DEF Enqueue, DriverFields
<1> HIDE DEF e
<1>5. driver.closing = None /\ Len(driver.queue) < CommandCapacity
  BY <1>2 DEF AcceptsReply
<1>6. x.op \in Operations \ accepted /\ x.kind \in CommandNames \cup {"Reply"} /\ x.charge \in Nat
  BY <1>1, <1>2
<1> QED
  BY <1>1, <1>2, <1>4, <1>5, <1>6, AdmitMoves

\* A step of the owner that leaves Core, the books of its commands and the Writer alone.
LEMMA QuietMoves ==
  ASSUME NEW done, Rested(done), phase = "running", DOMAIN driver' = DriverFields,
         \A f \in DriverFields \ {"inbound", "held", "draining"} : driver'[f] = driver[f],
         IsBatch(driver'.inbound), Len(driver'.inbound) <= InboundCapacity,
         driver'.draining \in BOOLEAN, driver.draining => driver'.draining,
         shutdown' \in {None} \cup Drains, shutdown' # None => driver'.draining,
         shutdown # None => shutdown' # None /\ shutdown'.reason = shutdown.reason,
         UNCHANGED <<phase, tasks, accepted>>
  PROVE  Moves(done)
<1> DEFINE acc == Ledger(accepted, done)
           R == driver.writer.reports
<1>1. /\ driver'.core = driver.core /\ driver'.completions = driver.completions
      /\ driver'.admitted = driver.admitted /\ driver'.closing = driver.closing
      /\ driver'.closed = driver.closed /\ driver'.nextCommand = driver.nextCommand
      /\ driver'.writer = driver.writer /\ driver'.queue = driver.queue
      /\ driver'.bytes = driver.bytes /\ driver'.answers = driver.answers
  BY DEF DriverFields
<1>2. Sound(driver, R, acc)
  BY DEF Rested
<1> HIDE DEF acc, R
<1>3. Owner(driver', acc)
  BY <1>1, <1>2, OwnerSame DEF Sound, Coherent
<1>4. Books(driver')
  BY <1>1, <1>2 DEF Sound, Books
<1>5. Formed(driver')
  BY <1>1, <1>2 DEF Sound, Coherent, Formed
<1>6. Line(driver'.writer.queue, R, driver'.admitted, driver'.writer.live) /\ Worker(driver'.writer)
  BY <1>1, <1>2 DEF Sound, Coherent
<1>7. Sound(driver', R, acc)
  BY <1>1, <1>2, <1>3, <1>4, <1>5, <1>6, SoundTransfer
<1>8. Keeps(driver, driver', Causes')
  BY <1>1 DEF Keeps
<1>9. driver.nextCommand <= driver'.nextCommand
  BY <1>1, <1>2, DriverAssumption DEF Sound, Books
<1>10. Shapes' /\ Joined'
  BY <1>1 DEF Rested, Shapes, Joined
<1> QED
  BY <1>1, <1>7, <1>8, <1>9, <1>10 DEF Moves, Rested, acc, R

\* take_inbound.
LEMMA TakeInboundMoves ==
  ASSUME NEW done, Rested(done), TakeInbound
  PROVE  Moves(done)
<1> DEFINE held == IF Head(driver.inbound).capability = None THEN driver.held
                   ELSE driver.held \cup {Head(driver.inbound)}
           rest == Tail(driver.inbound)
           e == [driver EXCEPT !.inbound = rest, !.held = held]
<1>1. /\ phase = "running" /\ driver.inbound # <<>> /\ driver' = e
      /\ UNCHANGED <<shutdown, phase, tasks, accepted>>
  BY DEF TakeInbound, ApplicationLeaves
<1>2. /\ DOMAIN driver = DriverFields /\ IsBatch(driver.inbound)
      /\ Len(driver.inbound) <= InboundCapacity /\ driver.draining \in BOOLEAN
      /\ shutdown \in {None} \cup Drains /\ (shutdown # None => driver.draining)
  BY DEF Rested, Sound, Coherent, Formed, Books, Shapes, Joined
<1>3. IsBatch(rest) /\ Len(rest) = Len(driver.inbound) - 1 /\ Len(driver.inbound) \in Nat
  BY <1>1, <1>2, RestOfBatch, BatchShape
<1> HIDE DEF held, rest
<1>4. /\ DOMAIN e = DriverFields /\ e.inbound = rest
      /\ \A f \in DriverFields \ {"inbound", "held"} : e[f] = driver[f]
  BY <1>2 DEF DriverFields
<1>5. e.draining = driver.draining
  BY <1>4 DEF DriverFields
<1> HIDE DEF e
<1>6. Len(rest) <= InboundCapacity
  BY <1>2, <1>3, DriverAssumption
<1> QED
  BY <1>1, <1>2, <1>3, <1>4, <1>5, <1>6, QuietMoves

\* begin_graceful_close.
LEMMA BeginGracefulCloseMoves ==
  ASSUME NEW done, Rested(done), NEW reason \in CloseReasons, BeginGracefulClose(reason)
  PROVE  Moves(done)
<1> DEFINE e == [driver EXCEPT !.draining = TRUE]
           s == [reason |-> reason, finalizing |-> FALSE]
<1>1. /\ phase = "running" /\ shutdown = None /\ driver' = e /\ shutdown' = s
      /\ UNCHANGED <<phase, tasks, accepted>>
  BY DEF BeginGracefulClose, Running, RoundLeaves
<1>2. DOMAIN driver = DriverFields /\ IsBatch(driver.inbound) /\ Len(driver.inbound) <= InboundCapacity
  BY DEF Rested, Sound, Coherent, Formed
<1>3. s \in Drains
  BY DEF Drains
<1>4. /\ DOMAIN e = DriverFields /\ e.draining = TRUE
      /\ \A f \in DriverFields \ {"draining"} : e[f] = driver[f]
  BY <1>2 DEF DriverFields
<1>5. e.inbound = driver.inbound
  BY <1>4 DEF DriverFields
<1> HIDE DEF e, s
<1> QED
  BY <1>1, <1>2, <1>3, <1>4, <1>5, QuietMoves

-----------------------------------------------------------------------------
(* The steps of the Writer's task.                                         *)

\* A step of a live Writer that keeps the frames in line.
LEMMA WriterMoves ==
  ASSUME NEW done, Rested(done), driver.writer.live,
         Sound(driver', driver'.writer.reports, Ledger(accepted, done)),
         SameCore(driver, driver'), Steady(driver, driver'), driver'.closed = driver.closed,
         tasks' \in [reader : BOOLEAN, writer : BOOLEAN, poison : BOOLEAN, aborted : BOOLEAN],
         tasks'.writer = tasks.writer, tasks.poison => tasks'.poison,
         UNCHANGED <<shutdown, phase, accepted>>
  PROVE  Moves(done)
<1>1. /\ driver'.core = driver.core /\ driver'.closing = driver.closing
      /\ driver'.nextCommand = driver.nextCommand /\ driver'.draining = driver.draining
  BY DEF SameCore, Steady
<1>2. driver.nextCommand <= driver'.nextCommand
  BY <1>1, DriverAssumption DEF Rested, Sound, Books
<1>3. Keeps(driver, driver', Causes')
  BY <1>1 DEF Keeps
<1>4. tasks.writer
  BY DEF Rested, Joined
<1>5. Shapes' /\ Joined'
  BY <1>1, <1>4 DEF Rested, Shapes, Joined
<1> QED
  BY <1>2, <1>3, <1>5 DEF Moves, Rested

\* A step of the task that reports nothing.
LEMMA SilentMoves ==
  ASSUME NEW done, Rested(done), driver.writer.live, NEW w,
         driver' = [driver EXCEPT !.writer = w], DOMAIN w = WriterFields, Worker(w),
         w.reports = driver.writer.reports,
         Line(w.queue, w.reports, driver.admitted, w.live),
         tasks' \in [reader : BOOLEAN, writer : BOOLEAN, poison : BOOLEAN, aborted : BOOLEAN],
         tasks'.writer = tasks.writer, tasks.poison => tasks'.poison,
         UNCHANGED <<shutdown, phase, accepted>>
  PROVE  Moves(done)
<1> DEFINE acc == Ledger(accepted, done)
<1>1. Sound(driver, driver.writer.reports, acc)
  BY DEF Rested
<1> HIDE DEF acc
<1>2. OnlyWriter(driver, driver') /\ driver'.writer = w
  BY <1>1 DEF Sound, Coherent, Formed, OnlyWriter, DriverFields
<1>3. /\ DOMAIN driver'.writer = WriterFields /\ Worker(driver'.writer)
      /\ Line(driver'.writer.queue, driver'.writer.reports, driver.admitted, driver'.writer.live)
  BY <1>2
<1>4. /\ Sound(driver', driver'.writer.reports, acc)
      /\ SameCore(driver, driver') /\ Steady(driver, driver') /\ driver'.closed = driver.closed
  BY ONLY <1>1, <1>2, <1>3, WriterTaskSound
<1> QED
  BY <1>4, WriterMoves DEF acc

\* What the Writer's task starts from.
LEMMA WriterAtWork ==
  ASSUME NEW done, Rested(done)
  PROVE  /\ DOMAIN driver.writer = WriterFields /\ Worker(driver.writer)
         /\ Line(driver.writer.queue, driver.writer.reports, driver.admitted, driver.writer.live)
         /\ tasks \in [reader : BOOLEAN, writer : BOOLEAN, poison : BOOLEAN, aborted : BOOLEAN]
BY DEF Rested, Sound, Coherent, Formed, Shapes

\* A first piece is written.
LEMMA WriteSomeMoves ==
  ASSUME NEW done, Rested(done), WriteSome
  PROVE  Moves(done)
<1> DEFINE v == driver.writer
           w == [v EXCEPT !.begun = TRUE]
<1>1. /\ v.live /\ driver' = [driver EXCEPT !.writer = w]
      /\ UNCHANGED <<shutdown, phase, tasks, accepted>>
  BY DEF WriteSome, WriterStep
<1>2. /\ DOMAIN w = WriterFields /\ w.queue = v.queue /\ w.reports = v.reports
      /\ w.live = v.live /\ w.fault = v.fault /\ w.open = v.open
  BY WriterAtWork DEF WriterFields
<1> HIDE DEF w
<1>3. Worker(w) /\ Line(w.queue, w.reports, driver.admitted, w.live)
  BY <1>2, WriterAtWork DEF Worker
<1> QED
  BY <1>1, <1>2, <1>3, WriterAtWork, SilentMoves

\* A fault closes the ingress.
LEMMA FaultWriterMoves ==
  ASSUME NEW done, Rested(done), FaultWriter
  PROVE  Moves(done)
<1> DEFINE v == driver.writer
           w == FaultedWriter(v)
<1>1. /\ v.live /\ driver' = [driver EXCEPT !.writer = w]
      /\ UNCHANGED <<shutdown, phase, tasks, accepted>>
  BY DEF FaultWriter, WriterStep
<1>2. /\ DOMAIN w = WriterFields /\ w.queue = v.queue /\ w.reports = v.reports
      /\ w.live = v.live /\ w.fault = TRUE /\ w.open = FALSE
  BY WriterAtWork DEF WriterFields, FaultedWriter
<1> HIDE DEF w
<1>3. Worker(w) /\ Line(w.queue, w.reports, driver.admitted, w.live)
  BY <1>1, <1>2, WriterAtWork DEF Worker
<1> QED
  BY <1>1, <1>2, <1>3, WriterAtWork, SilentMoves

\* The task ends in order.
LEMMA StopWriterMoves ==
  ASSUME NEW done, Rested(done), StopWriter
  PROVE  Moves(done)
<1> DEFINE v == driver.writer
           w == [v EXCEPT !.live = FALSE]
<1>1. /\ v.live /\ driver' = [driver EXCEPT !.writer = w] /\ v.fault /\ v.queue = <<>>
      /\ UNCHANGED <<shutdown, phase, tasks, accepted>>
  BY DEF StopWriter, WriterStep
<1>2. /\ DOMAIN w = WriterFields /\ w.queue = v.queue /\ w.reports = v.reports
      /\ w.live = FALSE /\ w.fault = v.fault /\ w.open = v.open
  BY WriterAtWork DEF WriterFields
<1> HIDE DEF w
<1>3. Worker(w)
  BY <1>1, <1>2, WriterAtWork DEF Worker
<1>4. Line(w.queue, w.reports, driver.admitted, w.live)
  BY <1>2, WriterAtWork DEF Line
<1> QED
  BY <1>1, <1>2, <1>3, <1>4, WriterAtWork, SilentMoves

\* The task dies: what it held is lost, what it had reported is not.
LEMMA LoseWriterMoves ==
  ASSUME NEW done, Rested(done), LoseWriter
  PROVE  Moves(done)
<1> DEFINE v == driver.writer
           q == <<>>
           w == [v EXCEPT !.queue = q, !.begun = FALSE, !.open = FALSE, !.fault = TRUE,
                          !.live = FALSE]
           t == [tasks EXCEPT !.poison = TRUE]
<1>1. /\ v.live /\ driver' = [driver EXCEPT !.writer = w] /\ tasks' = t
      /\ UNCHANGED <<shutdown, phase, accepted>>
  BY DEF LoseWriter
<1>2. /\ DOMAIN w = WriterFields /\ w.queue = q /\ w.reports = v.reports
      /\ w.live = FALSE /\ w.fault = TRUE /\ w.open = FALSE
  BY WriterAtWork DEF WriterFields
<1> HIDE DEF w
<1>3. Worker(w)
  BY <1>2, WriterAtWork DEF Worker
<1>4. Line(w.queue, w.reports, driver.admitted, w.live)
  BY <1>2, WriterAtWork, EmptyBatch DEF Line
<1>5. /\ t \in [reader : BOOLEAN, writer : BOOLEAN, poison : BOOLEAN, aborted : BOOLEAN]
      /\ t.writer = tasks.writer /\ t.poison
  BY WriterAtWork
<1> HIDE DEF t
<1> QED
  BY <1>1, <1>2, <1>3, <1>4, <1>5, SilentMoves

\* A report: the frame was written, or it was not, or nobody knows.
LEMMA ReportMoves ==
  ASSUME NEW done, Rested(done), NEW outcome \in Outcomes, driver.writer.queue # <<>>,
         WriterStep(ReportFirst(driver.writer, outcome))
  PROVE  Moves(done)
<1> DEFINE e == [driver EXCEPT !.writer = ReportFirst(driver.writer, outcome)]
<1>1. /\ driver.writer.live /\ driver' = e /\ UNCHANGED <<shutdown, phase, tasks, accepted>>
  BY DEF WriterStep
<1>2. Sound(driver, driver.writer.reports, Ledger(accepted, done))
  BY DEF Rested
<1>3. /\ Sound(e, e.writer.reports, Ledger(accepted, done)) /\ SameCore(driver, e)
      /\ Steady(driver, e) /\ e.closed = driver.closed
  BY <1>2, ReportFirstSound
<1> HIDE DEF e
<1> QED
  BY <1>1, <1>3, WriterAtWork, WriterMoves

\* Every step of the Writer's task.
LEMMA WriterTaskMoves ==
  ASSUME NEW done, Rested(done), WriterTask
  PROVE  Moves(done)
<1>1. CASE WriteSome
  BY <1>1, WriteSomeMoves
<1>2. CASE WriteAll
  <2>1. "Committed" \in Outcomes
    BY DEF Outcomes
  <2> QED
    BY <1>2, <2>1, ReportMoves DEF WriteAll
<1>3. CASE FaultWriter
  BY <1>3, FaultWriterMoves
<1>4. CASE ReportFault
  <2>1. (IF driver.writer.begun THEN "Indeterminate" ELSE "NotWritten") \in Outcomes
    BY DEF Outcomes
  <2> QED
    BY <1>4, <2>1, ReportMoves DEF ReportFault, SettleFirst
<1>5. CASE StopWriter
  BY <1>5, StopWriterMoves
<1>6. CASE LoseWriter
  BY <1>6, LoseWriterMoves
<1> QED
  BY <1>1, <1>2, <1>3, <1>4, <1>5, <1>6 DEF WriterTask

-----------------------------------------------------------------------------
(* The rounds.                                                             *)

\* A round that Driver goes through, and leaves the owner running.
LEMMA GoesMoves ==
  ASSUME NEW done, Rested(done), phase = "running", NEW W, W \subseteq Causes',
         Goes(driver, driver', driver.writer.reports, Ledger(accepted, done), W),
         tasks' \in [reader : BOOLEAN, writer : BOOLEAN, poison : BOOLEAN, aborted : BOOLEAN],
         ~tasks'.writer => ~driver.writer.live /\ driver.writer.reports = <<>>,
         tasks.poison => tasks'.poison,
         shutdown' \in {None} \cup Drains,
         shutdown' # None => shutdown # None /\ shutdown'.reason = shutdown.reason,
         shutdown # None => shutdown' # None /\ shutdown'.reason = shutdown.reason,
         UNCHANGED <<phase, accepted>>
  PROVE  Moves(done)
<1>1. /\ driver'.writer.reports = driver.writer.reports /\ driver'.writer.live = driver.writer.live
      /\ driver.nextCommand <= driver'.nextCommand /\ (driver.draining => driver'.draining)
      /\ Keeps(driver, driver', W)
      /\ Sound(driver', driver.writer.reports, Ledger(accepted, done))
  BY DEF Goes, SameTask
<1>2. Keeps(driver, driver', Causes')
  BY <1>1, KeepsMore
<1>3. Shapes' /\ Joined'
  BY <1>1 DEF Rested, Shapes, Joined
<1> QED
  BY <1>1, <1>2, <1>3 DEF Moves, Rested

\* The owner's part of a round that only Driver takes part in.
LEMMA RoundMoves ==
  ASSUME NEW done, Rested(done), phase = "running", NEW W, W \subseteq Causes',
         Goes(driver, driver', driver.writer.reports, Ledger(accepted, done), W),
         UNCHANGED <<phase, accepted, shutdown, tasks>>
  PROVE  Moves(done)
<1>1. /\ tasks \in [reader : BOOLEAN, writer : BOOLEAN, poison : BOOLEAN, aborted : BOOLEAN]
      /\ shutdown \in {None} \cup Drains
      /\ ~tasks.writer => ~driver.writer.live /\ driver.writer.reports = <<>>
  BY DEF Rested, Shapes, Joined
<1> QED
  BY <1>1, GoesMoves

\* What is known of Driver in a round.
LEMMA RestedSound ==
  ASSUME NEW done, Rested(done)
  PROVE  Sound(driver, driver.writer.reports, Ledger(accepted, done))
BY DEF Rested

\* drive_next_command.
LEMMA CommandRoundMoves ==
  ASSUME NEW done, Rested(done), NEW due, NEW fails, CommandRound(due, fails)
  PROVE  Moves(done)
<1> DEFINE e == DriveNextCommand(driver, due, fails)
<1>1. /\ phase = "running" /\ driver.queue # <<>> /\ driver' = e
      /\ UNCHANGED <<phase, accepted, shutdown, tasks>>
  BY DEF CommandRound, Ordinary, Running, RoundLeaves
<1>2. Goes(driver, e, driver.writer.reports, Ledger(accepted, done), CommandReasons(e))
  BY <1>1, RestedSound, CommandGoes
<1> HIDE DEF e
<1>3. CommandReasons(e) \subseteq Causes'
  BY <1>1 DEF CommandReasons, Causes, Faults
<1> QED
  BY <1>1, <1>2, <1>3, RoundMoves

\* on_message.
LEMMA MessageRoundMoves ==
  ASSUME NEW done, Rested(done), NEW m \in PeerMessages, NEW due, MessageRound(m, due)
  PROVE  Moves(done)
<1> DEFINE e == ReceiveMessage(driver, m, due)
<1>1. /\ phase = "running" /\ driver' = e /\ UNCHANGED <<phase, accepted, shutdown, tasks>>
  BY DEF MessageRound, Ordinary, Running, RoundLeaves
<1>2. m.type \in MessageTypes
  BY RuntimeAssumption
<1>3. Goes(driver, e, driver.writer.reports, Ledger(accepted, done), OrdinaryReasons)
  BY <1>2, RestedSound, MessageGoes
<1> HIDE DEF e
<1>4. OrdinaryReasons \subseteq Causes'
  BY DEF Causes
<1> QED
  BY <1>1, <1>3, <1>4, RoundMoves

\* on_decode_step_with_header.
LEMMA ViolationRoundMoves ==
  ASSUME NEW done, Rested(done), NEW v, NEW due, NEW room, ViolationRound(v, due, room)
  PROVE  Moves(done)
<1> DEFINE e == ReceiveViolation(driver, v, due, room)
<1>1. /\ phase = "running" /\ driver' = e /\ UNCHANGED <<phase, accepted, shutdown, tasks>>
  BY DEF ViolationRound, Ordinary, Running, RoundLeaves
<1>2. Goes(driver, e, driver.writer.reports, Ledger(accepted, done), OrdinaryReasons)
  BY RestedSound, ViolationGoes
<1> HIDE DEF e
<1>3. OrdinaryReasons \subseteq Causes'
  BY DEF Causes
<1> QED
  BY <1>1, <1>2, <1>3, RoundMoves

\* A report of the Writer, in a round or in a cleanup.
LEMMA ConsumesMoves ==
  ASSUME NEW done, Rested(done), tasks.writer,
         Consumes(driver, driver', Ledger(accepted, done), OrdinaryReasons),
         StaysGivenUp(driver, driver'), UNCHANGED <<phase, accepted, shutdown, tasks>>
  PROVE  Moves(done)
<1>1. /\ Sound(driver', driver'.writer.reports, Ledger(accepted, done))
      /\ Keeps(driver, driver', OrdinaryReasons)
      /\ driver.nextCommand <= driver'.nextCommand /\ (driver.draining => driver'.draining)
  BY DEF Consumes
<1>2. OrdinaryReasons \subseteq Causes'
  BY DEF Causes
<1>3. Keeps(driver, driver', Causes')
  BY <1>1, <1>2, KeepsMore
<1>4. phase # "running" => driver'.closed /\ GivenUp(driver'.core)
  <2>1. phase # "running" => driver.closed /\ GivenUp(driver.core) /\ driver.closing # None
    BY DEF Rested, Joined, Sound, Coherent
  <2> QED
    BY <1>1, <2>1 DEF Keeps, StaysGivenUp
<1>5. Shapes' /\ Joined'
  BY <1>1, <1>4 DEF Rested, Shapes, Joined
<1> QED
  BY <1>1, <1>3, <1>5 DEF Moves, Rested

\* apply_write_report.
LEMMA WriteRoundMoves ==
  ASSUME NEW done, Rested(done), NEW due, NEW late, WriteRound(due, late)
  PROVE  Moves(done)
<1> DEFINE l == LateDeadlines(NextReport.write, late)
           e == ApplyWriteReport(driver, due, l)
<1>1. /\ driver.writer.reports # <<>> /\ driver' = e
      /\ UNCHANGED <<phase, accepted, shutdown, tasks>>
  BY DEF WriteRound, RoundLeaves, ReportReady
<1>2. tasks.writer
  BY <1>1 DEF Rested, Joined
<1> HIDE DEF l
<1>3. Consumes(driver, e, Ledger(accepted, done), OrdinaryReasons) /\ StaysGivenUp(driver, e)
  BY <1>1, RestedSound, ReportGoes
<1> HIDE DEF e
<1> QED
  BY <1>1, <1>2, <1>3, ConsumesMoves

\* The same during a cleanup.
LEMMA CleanupReportMoves ==
  ASSUME NEW done, Rested(done), CleanupReport
  PROVE  Moves(done)
<1> DEFINE e == ApplyWriteReport(driver, NothingDue, NothingDue)
<1>1. /\ driver.writer.reports # <<>> /\ driver' = e /\ tasks.writer
      /\ UNCHANGED <<phase, accepted, shutdown, tasks>>
  BY DEF CleanupReport, ReportReady
<1>2. Consumes(driver, e, Ledger(accepted, done), OrdinaryReasons) /\ StaysGivenUp(driver, e)
  BY <1>1, RestedSound, ReportGoes
<1> HIDE DEF e
<1> QED
  BY <1>1, <1>2, ConsumesMoves

\* The reader's end.
LEMMA ReaderStoppedMoves ==
  ASSUME NEW done, Rested(done), NEW reason \in ReaderEnds, ReaderStopped(reason)
  PROVE  Moves(done)
<1> DEFINE e == ShutDown(driver, reason)
           t == [tasks EXCEPT !.reader = FALSE]
<1>1. /\ phase = "running" /\ driver' = e /\ tasks' = t
      /\ UNCHANGED <<phase, accepted, shutdown>>
  BY DEF ReaderStopped, Running, RoundLeaves
<1>2. Goes(driver, e, driver.writer.reports, Ledger(accepted, done), {reason})
  BY RestedSound, ShutDownGoes DEF AllReasons
<1> HIDE DEF e
<1>3. {reason} \subseteq Causes'
  BY DEF Causes
<1>4. /\ tasks \in [reader : BOOLEAN, writer : BOOLEAN, poison : BOOLEAN, aborted : BOOLEAN]
      /\ shutdown \in {None} \cup Drains
      /\ ~tasks.writer => ~driver.writer.live /\ driver.writer.reports = <<>>
  BY DEF Rested, Shapes, Joined
<1>5. /\ t \in [reader : BOOLEAN, writer : BOOLEAN, poison : BOOLEAN, aborted : BOOLEAN]
      /\ t.writer = tasks.writer /\ t.poison = tasks.poison
  BY <1>4
<1> HIDE DEF t
<1> QED
  BY <1>1, <1>2, <1>3, <1>4, <1>5, GoesMoves

\* force_close.
LEMMA ForceCloseMoves ==
  ASSUME NEW done, Rested(done), NEW reason \in ForcedReasons, ForceClose(reason)
  PROVE  Moves(done)
<1> DEFINE e == ShutDown(driver, reason)
<1>1. /\ phase = "running" /\ driver' = e
      /\ UNCHANGED <<phase, accepted, shutdown, tasks>>
  BY DEF ForceClose, Running, RoundLeaves
<1>2. Goes(driver, e, driver.writer.reports, Ledger(accepted, done), {reason})
  BY RestedSound, ShutDownGoes DEF AllReasons
<1> HIDE DEF e
<1>3. {reason} \subseteq Causes'
  BY DEF Causes
<1> QED
  BY <1>1, <1>2, <1>3, RoundMoves

\* The Writer's end: nothing will be reported any more, so everything is settled.
LEMMA WriterStoppedMoves ==
  ASSUME NEW done, Rested(done), WriterStopped
  PROVE  Moves(done)
<1> DEFINE reason == IF tasks.poison THEN "RuntimeInvariant" ELSE "TransportLost"
           s == ShutDown(driver, reason)
           e == WriterGone(s)
           t == [tasks EXCEPT !.writer = FALSE]
           R == driver.writer.reports
           acc == Ledger(accepted, done)
<1>1. /\ phase = "running" /\ driver' = e /\ tasks' = t
      /\ R = <<>> /\ ~driver.writer.live
      /\ UNCHANGED <<phase, accepted, shutdown>>
  BY DEF WriterStopped, Running, RoundLeaves, WriterEnded, ReportReady
<1>2. reason \in AllReasons
  BY DEF AllReasons, GenerationReasons
<1>3. {reason} \subseteq Causes' /\ OrdinaryReasons \subseteq Causes'
  <2>1. tasks'.poison = tasks.poison
    BY <1>1 DEF Rested, Shapes
  <2>2. "TransportLost" \in OrdinaryReasons
    BY DEF OrdinaryReasons, RefusalReasons
  <2> QED
    BY <2>1, <2>2 DEF Causes, Faults
<1> HIDE DEF reason
<1>4. Sound(driver, R, acc)
  BY RestedSound
<1>5. Goes(driver, s, R, acc, {reason}) /\ s.closed
  BY <1>2, <1>4, ShutDownGoes
<1> HIDE DEF s, acc
<1>6. Sound(s, <<>>, acc) /\ ~s.writer.live
  BY <1>1, <1>5 DEF Goes, SameTask
<1>7. Goes(s, e, R, acc, OrdinaryReasons)
  BY <1>1, <1>5, <1>6, WriterGoneGoes
<1> HIDE DEF e
<1> DEFINE W == {reason} \cup OrdinaryReasons
<1>8. Goes(driver, e, R, acc, W)
  BY <1>4, <1>5, <1>7, GoesOn
<1>9. W \subseteq Causes'
  BY <1>3
<1> HIDE DEF W
<1>10. /\ tasks \in [reader : BOOLEAN, writer : BOOLEAN, poison : BOOLEAN, aborted : BOOLEAN]
       /\ shutdown \in {None} \cup Drains
  BY DEF Rested, Shapes
<1>11. /\ t \in [reader : BOOLEAN, writer : BOOLEAN, poison : BOOLEAN, aborted : BOOLEAN]
       /\ t.poison = tasks.poison
  BY <1>10
<1> HIDE DEF t
<1> QED
  BY <1>1, <1>8, <1>9, <1>10, <1>11, GoesMoves DEF acc

\* advance_shutdown: a drain ends by a Separate, its deadline by an immediate close.
LEMMA AdvanceGoes ==
  ASSUME NEW d, NEW drained, NEW expired, NEW R, NEW acc, Sound(d, R, acc),
         shutdown \in {None} \cup Drains
  PROVE  Goes(d, AdvanceShutdown(d, drained, expired), R, acc, OrdinaryReasons \cup DrainCause)
<1> DEFINE e == AdvanceShutdown(d, drained, expired)
           W == OrdinaryReasons \cup DrainCause
<1>1. CASE e = d
  BY <1>1, GoesNowhere
<1>2. ASSUME shutdown # None
      PROVE  shutdown.reason \in AllReasons /\ shutdown.reason \in W
  BY <1>2 DEF Drains, AllReasons, DrainCause
<1>3. CASE shutdown # None /\ e = ShutDown(d, shutdown.reason)
  <2> DEFINE f == ShutDown(d, shutdown.reason)
  <2>1. Goes(d, f, R, acc, {shutdown.reason})
    BY <1>2, <1>3, ShutDownGoes
  <2> HIDE DEF f, e, W
  <2>2. Keeps(d, f, W)
    BY <1>2, <1>3, <2>1, KeepsMore DEF Goes
  <2>3. e = f
    BY <1>3 DEF f
  <2>4. Goes(d, e, R, acc, W)
    BY <2>1, <2>2, <2>3 DEF Goes
  <2> QED
    BY <2>4 DEF e, W
<1>4. CASE shutdown # None /\ e = FinishDriverDrain(d, shutdown.reason)
  <2> DEFINE f == FinishDriverDrain(d, shutdown.reason)
  <2>1. Goes(d, f, R, acc, OrdinaryReasons \cup {shutdown.reason})
    BY <1>2, <1>4, DrainGoes
  <2>2. W = OrdinaryReasons \cup {shutdown.reason}
    BY <1>4 DEF DrainCause
  <2>3. e = f
    BY <1>4
  <2> HIDE DEF f, e, W
  <2>4. Goes(d, e, R, acc, W)
    BY <2>1, <2>2, <2>3
  <2> QED
    BY <2>4 DEF e, W
<1> QED
  BY <1>1, <1>3, <1>4 DEF AdvanceShutdown

\* The ShutdownDrain that a round leaves.
LEMMA FinalizingKeeps ==
  ASSUME NEW d, NEW drained, NEW expired, shutdown \in {None} \cup Drains
  PROVE  LET s == Finalizing(d, drained, expired)
         IN  /\ s \in {None} \cup Drains
             /\ s # None => shutdown # None /\ s.reason = shutdown.reason
             /\ shutdown # None => s # None /\ s.reason = shutdown.reason
<1> DEFINE f == [shutdown EXCEPT !.finalizing = TRUE]
<1>1. shutdown # None => f \in Drains /\ f.reason = shutdown.reason
  BY DEF Drains
<1>2. None \notin Drains
  BY RuntimeAssumption
<1> HIDE DEF f
<1>3. Finalizing(d, drained, expired) = shutdown
      \/ (shutdown # None /\ Finalizing(d, drained, expired) = f)
  BY DEF Finalizing, f
<1> QED
  BY <1>1, <1>2, <1>3

\* A round that advances the shutdown.
LEMMA AdvanceMoves ==
  ASSUME NEW done, Rested(done), phase = "running", NEW d, NEW drained, NEW expired,
         Goes(driver, d, driver.writer.reports, Ledger(accepted, done), OrdinaryReasons),
         driver' = AdvanceShutdown(d, drained, expired),
         shutdown' = Finalizing(d, drained, expired), UNCHANGED <<phase, accepted, tasks>>
  PROVE  Moves(done)
<1> DEFINE R == driver.writer.reports
           acc == Ledger(accepted, done)
           W == OrdinaryReasons \cup DrainCause
<1>1. Sound(driver, R, acc)
  BY RestedSound
<1>2. /\ tasks \in [reader : BOOLEAN, writer : BOOLEAN, poison : BOOLEAN, aborted : BOOLEAN]
      /\ shutdown \in {None} \cup Drains
      /\ ~tasks.writer => ~driver.writer.live /\ driver.writer.reports = <<>>
  BY DEF Rested, Shapes, Joined
<1>3. /\ shutdown' \in {None} \cup Drains
      /\ shutdown' # None => shutdown # None /\ shutdown'.reason = shutdown.reason
      /\ shutdown # None => shutdown' # None /\ shutdown'.reason = shutdown.reason
  BY <1>2, FinalizingKeeps
<1> HIDE DEF R, acc
<1>4. Goes(driver, d, R, acc, OrdinaryReasons)
  BY DEF R, acc
<1>5. Goes(d, driver', R, acc, W)
  BY <1>2, <1>4, AdvanceGoes DEF Goes
<1>6. W \subseteq Causes'
  BY <1>3 DEF Causes, DrainCause
<1>7. OrdinaryReasons \subseteq W
  OBVIOUS
<1> HIDE DEF W
<1>8. Goes(driver, driver', R, acc, W)
  BY <1>1, <1>4, <1>5, <1>7, GoesOn
<1> QED
  BY <1>2, <1>3, <1>6, <1>8, GoesMoves DEF R, acc

\* The Timer input of step.
LEMMA TimerRoundMoves ==
  ASSUME NEW done, Rested(done), NEW due, NEW drained, NEW expired,
         TimerRound(due, drained, expired)
  PROVE  Moves(done)
<1> DEFINE d == ProcessDueDeadlines(driver, due)
<1>1. /\ phase = "running" /\ driver' = AdvanceShutdown(d, drained, expired)
      /\ shutdown' = Finalizing(d, drained, expired) /\ UNCHANGED <<phase, accepted, tasks>>
  BY DEF TimerRound, Running, RoundLeaves
<1>2. Goes(driver, d, driver.writer.reports, Ledger(accepted, done), OrdinaryReasons)
  BY RestedSound, TimelyGoes
<1> HIDE DEF d
<1> QED
  BY <1>1, <1>2, AdvanceMoves

\* A drain that is ready.
LEMMA ShutdownRoundMoves ==
  ASSUME NEW done, Rested(done), ShutdownRound
  PROVE  Moves(done)
<1>1. /\ phase = "running" /\ driver' = AdvanceShutdown(driver, FALSE, FALSE)
      /\ shutdown' = Finalizing(driver, FALSE, FALSE) /\ UNCHANGED <<phase, accepted, tasks>>
  BY DEF ShutdownRound, Running, RoundLeaves
<1>2. Goes(driver, driver, driver.writer.reports, Ledger(accepted, done), OrdinaryReasons)
  BY RestedSound, GoesNowhere
<1> QED
  BY <1>1, <1>2, AdvanceMoves

-----------------------------------------------------------------------------
(* Cleanup.                                                                *)

\* What is left alone once a generation is closed.
LEMMA ClosedMoves ==
  ASSUME NEW done, Rested(done), NEW W, driver.closed,
         Goes(driver, driver', driver.writer.reports, Ledger(accepted, done), W),
         GivenUp(driver'.core), phase' \in Phases,
         tasks' \in [reader : BOOLEAN, writer : BOOLEAN, poison : BOOLEAN, aborted : BOOLEAN],
         ~tasks'.writer => ~driver.writer.live /\ driver.writer.reports = <<>>,
         phase' = "Clean" => ~tasks'.writer /\ Emptied(driver'),
         phase' = "Poisoned" /\ ~tasks'.writer => Emptied(driver'),
         tasks.poison => tasks'.poison, UNCHANGED <<shutdown, accepted>>
  PROVE  Moves(done)
<1>1. /\ driver'.writer.reports = driver.writer.reports /\ driver'.writer.live = driver.writer.live
      /\ driver.nextCommand <= driver'.nextCommand /\ (driver.draining => driver'.draining)
      /\ Keeps(driver, driver', W)
      /\ Sound(driver', driver.writer.reports, Ledger(accepted, done))
  BY DEF Goes, SameTask
<1>2. driver.closing # None
  BY DEF Rested, Sound, Coherent
<1>3. Keeps(driver, driver', Causes') /\ driver'.closed
  BY <1>1, <1>2 DEF Keeps
<1>4. Shapes' /\ Joined'
  BY <1>1, <1>3 DEF Rested, Shapes, Joined
<1> QED
  BY <1>1, <1>3, <1>4 DEF Moves, Rested

\* on_shutdown of a closed Driver.
LEMMA ShutDownAgain ==
  ASSUME NEW done, Rested(done), driver.closed
  PROVE  LET e == ShutDown(driver, driver.closing.reason)
             W == {driver.closing.reason}
         IN  /\ Goes(driver, e, driver.writer.reports, Ledger(accepted, done), W)
             /\ GivenUp(e.core)
<1> DEFINE reason == driver.closing.reason
<1>1. /\ Sound(driver, driver.writer.reports, Ledger(accepted, done))
      /\ driver.closing \in Closings /\ IInv(driver.core)
  BY DEF Rested, Sound, Coherent
<1>2. reason \in AllReasons
  BY <1>1 DEF Closings
<1> HIDE DEF reason
<1> DEFINE e == ShutDown(driver, reason)
<1>3. /\ Goes(driver, e, driver.writer.reports, Ledger(accepted, done), {reason})
      /\ e.core = Begin(OnShutdown(driver.core, reason))
  BY <1>1, <1>2, ShutDownGoes
<1> HIDE DEF e
<1>4. GivenUp(e.core)
  BY <1>1, <1>3, OnShutdownGivesUp
<1> QED
  BY <1>3, <1>4 DEF e, reason

\* finish, up to the cleanup of the tasks.
LEMMA FinishMoves ==
  ASSUME NEW done, Rested(done), Finish
  PROVE  Moves(done)
<1> DEFINE e == ShutDown(driver, driver.closing.reason)
           W == {driver.closing.reason}
<1>1. /\ driver.closed /\ driver' = e /\ phase' = "cleanup"
      /\ UNCHANGED <<shutdown, tasks, accepted>>
  BY DEF Finish
<1>2. /\ Goes(driver, e, driver.writer.reports, Ledger(accepted, done), W)
      /\ GivenUp(e.core)
  BY <1>1, ShutDownAgain
<1> HIDE DEF e, W
<1>3. /\ tasks \in [reader : BOOLEAN, writer : BOOLEAN, poison : BOOLEAN, aborted : BOOLEAN]
      /\ ~tasks.writer => ~driver.writer.live /\ driver.writer.reports = <<>>
  BY DEF Rested, Shapes, Joined
<1> QED
  BY <1>1, <1>2, <1>3, ClosedMoves DEF Phases

\* recover_cleanup.
LEMMA RecoverMoves ==
  ASSUME NEW done, Rested(done), Recover
  PROVE  Moves(done)
<1> DEFINE e == ShutDown(driver, driver.closing.reason)
           W == {driver.closing.reason}
<1>1. /\ driver' = e /\ phase' = "recovering" /\ driver.closed
      /\ UNCHANGED <<shutdown, tasks, accepted>>
  BY DEF Recover, Rested, Joined
<1>2. /\ Goes(driver, e, driver.writer.reports, Ledger(accepted, done), W)
      /\ GivenUp(e.core)
  BY <1>1, ShutDownAgain
<1> HIDE DEF e, W
<1>3. /\ tasks \in [reader : BOOLEAN, writer : BOOLEAN, poison : BOOLEAN, aborted : BOOLEAN]
      /\ ~tasks.writer => ~driver.writer.live /\ driver.writer.reports = <<>>
  BY DEF Rested, Shapes, Joined
<1> QED
  BY <1>1, <1>2, <1>3, ClosedMoves DEF Phases

\* A joined task that leaves Driver alone.
LEMMA JoinMoves ==
  ASSUME NEW done, Rested(done), CleaningUp,
         tasks' \in [reader : BOOLEAN, writer : BOOLEAN, poison : BOOLEAN, aborted : BOOLEAN],
         ~tasks'.writer => ~driver.writer.live /\ driver.writer.reports = <<>>,
         tasks.poison => tasks'.poison, UNCHANGED <<driver, shutdown, phase, accepted>>
  PROVE  Moves(done)
<1>1. /\ driver.closed /\ GivenUp(driver.core) /\ phase \in {"cleanup", "recovering"}
  BY DEF CleaningUp, Rested, Joined
<1>2. Goes(driver, driver', driver.writer.reports, Ledger(accepted, done), {})
  <2>1. Goes(driver, driver, driver.writer.reports, Ledger(accepted, done), {})
    BY RestedSound, GoesNowhere
  <2> QED
    BY <2>1
<1>3. phase' \in Phases /\ phase' # "Clean" /\ phase' # "Poisoned"
  BY <1>1 DEF Phases
<1> QED
  BY <1>1, <1>2, <1>3, ClosedMoves

\* Everything a stopped Writer leaves is settled.
LEMMA GoneSettles ==
  ASSUME NEW done, Rested(done), driver.closed, ~tasks.writer
  PROVE  LET e == WriterGone(driver)
         IN  /\ Goes(driver, e, driver.writer.reports, Ledger(accepted, done), OrdinaryReasons)
             /\ GivenUp(e.core) /\ Emptied(e)
<1> DEFINE acc == Ledger(accepted, done)
           e == WriterGone(driver)
<1>1. /\ Sound(driver, driver.writer.reports, acc)
      /\ ~driver.writer.live /\ driver.writer.reports = <<>>
  BY DEF Rested, Joined
<1> HIDE DEF acc
<1>2. Goes(driver, e, <<>>, acc, OrdinaryReasons) /\ Emptied(e)
  BY <1>1, WriterGoneGoes
<1> HIDE DEF e
<1>3. GivenUp(e.core)
  BY <1>2 DEF GivenUp, Emptied
<1> QED
  BY <1>1, <1>2, <1>3 DEF acc, e

\* Both tasks are joined.
LEMMA CleanupDoneMoves ==
  ASSUME NEW done, Rested(done), CleanupDone
  PROVE  Moves(done)
<1> DEFINE e == WriterGone(driver)
<1>1. /\ driver' = e /\ ~tasks.writer /\ phase' \in {"Clean", "Poisoned"} /\ driver.closed
      /\ UNCHANGED <<shutdown, tasks, accepted>>
  BY DEF CleanupDone, CleaningUp, Rested, Joined
<1>2. /\ Goes(driver, e, driver.writer.reports, Ledger(accepted, done), OrdinaryReasons)
      /\ GivenUp(e.core) /\ Emptied(e)
  BY <1>1, GoneSettles
<1> HIDE DEF e
<1>3. /\ tasks \in [reader : BOOLEAN, writer : BOOLEAN, poison : BOOLEAN, aborted : BOOLEAN]
      /\ ~tasks.writer => ~driver.writer.live /\ driver.writer.reports = <<>>
  BY DEF Rested, Shapes, Joined
<1> QED
  BY <1>1, <1>2, <1>3, ClosedMoves DEF Phases

\* The cleanup's time is up.
LEMMA CleanupExpiredMoves ==
  ASSUME NEW done, Rested(done), CleanupExpired
  PROVE  Moves(done)
<1> DEFINE e == SettleIfJoined(driver)
           t == [tasks EXCEPT !.poison = TRUE, !.aborted = TRUE]
<1>1. /\ driver' = e /\ phase' = "Poisoned" /\ driver.closed /\ GivenUp(driver.core)
      /\ tasks' = t /\ UNCHANGED <<shutdown, accepted>>
  BY DEF CleanupExpired, CleaningUp, Rested, Joined
<1>2. /\ tasks \in [reader : BOOLEAN, writer : BOOLEAN, poison : BOOLEAN, aborted : BOOLEAN]
      /\ ~tasks.writer => ~driver.writer.live /\ driver.writer.reports = <<>>
  BY DEF Rested, Shapes, Joined
<1>3. /\ t \in [reader : BOOLEAN, writer : BOOLEAN, poison : BOOLEAN, aborted : BOOLEAN]
      /\ t.writer = tasks.writer /\ t.poison
  BY <1>2
<1>4. /\ Goes(driver, e, driver.writer.reports, Ledger(accepted, done), OrdinaryReasons)
      /\ GivenUp(e.core) /\ (~tasks.writer => Emptied(e))
  <2>1. CASE tasks.writer
    <3>1. e = driver
      BY <2>1 DEF SettleIfJoined
    <3>2. Goes(driver, driver, driver.writer.reports, Ledger(accepted, done), OrdinaryReasons)
      BY RestedSound, GoesNowhere
    <3> HIDE DEF e
    <3> QED
      BY <1>1, <2>1, <3>1, <3>2
  <2>2. CASE ~tasks.writer
    <3>1. e = WriterGone(driver)
      BY <2>2 DEF SettleIfJoined
    <3> HIDE DEF e
    <3> QED
      BY <1>1, <2>2, <3>1, GoneSettles
  <2> QED
    BY <2>1, <2>2
<1> HIDE DEF e, t
<1> QED
  BY <1>1, <1>2, <1>3, <1>4, ClosedMoves DEF Phases

\* Every step of the cleanup.
LEMMA CleanupMoves ==
  ASSUME NEW done, Rested(done), Cleanup
  PROVE  Moves(done)
<1>0. /\ tasks \in [reader : BOOLEAN, writer : BOOLEAN, poison : BOOLEAN, aborted : BOOLEAN]
      /\ ~tasks.writer => ~driver.writer.live /\ driver.writer.reports = <<>>
  BY DEF Rested, Shapes, Joined
<1>1. CASE Finish
  BY <1>1, FinishMoves
<1>2. CASE CleanupReport
  BY <1>2, CleanupReportMoves
<1>3. CASE JoinReader
  BY <1>0, <1>3, JoinMoves DEF JoinReader
<1>4. CASE JoinWriter
  BY <1>0, <1>4, JoinMoves DEF JoinWriter, WriterEnded, ReportReady
<1>5. CASE CleanupDone
  BY <1>5, CleanupDoneMoves
<1>6. CASE CleanupExpired
  BY <1>6, CleanupExpiredMoves
<1>7. CASE Recover
  BY <1>7, RecoverMoves
<1> QED
  BY <1>1, <1>2, <1>3, <1>4, <1>5, <1>6, <1>7 DEF Cleanup

-----------------------------------------------------------------------------
(* The inductive invariant.                                                *)

\* Every step moves.
LEMMA NextMoves ==
  ASSUME NEW done, Rested(done), [Next]_vars
  PROVE  Moves(done)
<1>1. ASSUME NEW op \in Operations, NEW kind \in Kinds \cap ControlCommands,
             TryAcceptControl(op, kind)
      PROVE  Moves(done)
  <2>1. kind \in CommandNames /\ 0 \in Nat
    BY RuntimeAssumption
  <2> QED
    BY <1>1, <2>1, AcceptMoves DEF TryAcceptControl
<1>2. ASSUME NEW op \in Operations, NEW kind \in Kinds \ ControlCommands, NEW p \in Primaries,
             TryAcceptData(op, kind, p)
      PROVE  Moves(done)
  <2>1. kind \in CommandNames /\ CommandCharge(p.body) \in Nat
    BY RuntimeAssumption DEF CommandCharge
  <2> QED
    BY <1>2, <2>1, AcceptMoves DEF TryAcceptData
<1>3. ASSUME NEW op \in Operations, NEW i \in Intents, NEW t \in driver.held,
             TryAcceptReply(op, i, t)
      PROVE  Moves(done)
  BY <1>3, ReplyMoves
<1>4. CASE Application
  BY <1>1, <1>2, <1>3, <1>4, TakeInboundMoves, BeginGracefulCloseMoves, ForceCloseMoves
     DEF Application
<1>5. CASE WriterTask
  BY <1>5, WriterTaskMoves
<1>6. CASE Rounds
  BY <1>6, CommandRoundMoves, MessageRoundMoves, ViolationRoundMoves, WriteRoundMoves,
     ReaderStoppedMoves, WriterStoppedMoves, TimerRoundMoves, ShutdownRoundMoves DEF Rounds
<1>7. CASE Cleanup
  BY <1>7, CleanupMoves
<1>8. CASE UNCHANGED vars
  <2>1. UNCHANGED <<driver, shutdown, phase, tasks, accepted>>
    BY <1>8 DEF vars
  <2>2. Keeps(driver, driver', Causes')
    BY <2>1 DEF Keeps
  <2>3. driver.nextCommand <= driver'.nextCommand
    BY <2>1, DriverAssumption DEF Rested, Sound, Books
  <2>4. Rested(done)'
    BY <2>1 DEF Rested, Shapes, Joined
  <2> QED
    BY <2>1, <2>2, <2>3, <2>4 DEF Moves
<1> QED
  BY <1>4, <1>5, <1>6, <1>7, <1>8 DEF Next

\* The Driver of a new generation.
LEMMA InitRests == Init => GenerationInv
<1> SUFFICES ASSUME Init PROVE GenerationInv
  OBVIOUS
<1>1. /\ driver = LaunchedDriver /\ accepted = {} /\ shutdown = None /\ phase = "running"
      /\ tasks = [reader |-> TRUE, writer |-> TRUE, poison |-> FALSE, aborted |-> FALSE]
  BY DEF Init
<1>2. /\ Sound(driver, driver.writer.reports, Ledger(accepted, {})) /\ driver.closing = None
  BY <1>1, LaunchedSound
<1>3. Shapes
  BY <1>1 DEF Shapes, Phases
<1>4. Joined
  BY <1>1 DEF Joined
<1> QED
  BY <1>2, <1>3, <1>4 DEF GenerationInv, Rested, Blamed

\* A step blames nothing but what may be blamed.
LEMMA MovesBlame ==
  ASSUME NEW done, Rested(done), Blamed, Moves(done)
  PROVE  Blamed'
<1>1. Keeps(driver, driver', Causes')
  BY DEF Moves
<1>2. Causes \subseteq Causes'
  <2>1. DrainCause \subseteq DrainCause'
    BY DEF Moves, DrainCause
  <2>2. driver.nextCommand = CommandSpace => driver'.nextCommand = CommandSpace
    <3>1. driver'.nextCommand \in 0..CommandSpace /\ CommandSpace \in Nat
      BY DriverAssumption DEF Moves, Rested, Sound, Books
    <3> QED
      BY <3>1 DEF Moves
  <2>3. Faults \subseteq Faults'
    BY <2>2 DEF Moves, Faults
  <2> QED
    BY <2>1, <2>3 DEF Causes
<1>3. CASE driver.closing = None
  BY <1>1, <1>3 DEF Keeps, Blamed
<1>4. CASE driver.closing # None
  BY <1>1, <1>2, <1>4 DEF Keeps, Blamed
<1> QED
  BY <1>3, <1>4

\* It is inductive.
LEMMA GenerationStep == GenerationInv /\ [Next]_vars => GenerationInv'
<1> SUFFICES ASSUME GenerationInv, [Next]_vars PROVE GenerationInv'
  OBVIOUS
<1>1. Rested({}) /\ Blamed
  BY DEF GenerationInv
<1>2. Moves({})
  BY <1>1, NextMoves
<1>3. Blamed'
  BY <1>1, <1>2, MovesBlame
<1> QED
  BY <1>2, <1>3 DEF GenerationInv, Moves

\* GenerationInv holds in every state: between two rounds Core, Driver's books, the
\* queue and the Writer agree, through every step of the owner and of the Writer's task.
THEOREM GenerationInvariant == Spec => []GenerationInv
<1>1. Init => GenerationInv
  BY InitRests
<1>2. GenerationInv /\ [Next]_vars => GenerationInv'
  BY GenerationStep
<1> QED
  BY <1>1, <1>2, PTL DEF Spec

-----------------------------------------------------------------------------
(* The invariants that the runs check.                                     *)

\* What GenerationInv says of Driver.
LEMMA InvSound ==
  ASSUME GenerationInv
  PROVE  /\ Sound(driver, driver.writer.reports, Ledger(accepted, {}))
         /\ Coherent(driver, driver.writer.reports, {}, Ledger(accepted, {})) /\ Books(driver)
         /\ Shapes /\ Joined /\ Blamed
BY DEF GenerationInv, Rested, Sound

\* The write ids of a line are as many as its frames.
LEMMA WritesCounted ==
  ASSUME NEW q, IsBatch(q), \A i, j \in DOMAIN q : q[i].write = q[j].write => i = j
  PROVE  LET S == {q[i].write : i \in DOMAIN q}
         IN  IsFiniteSet(S) /\ Cardinality(S) = Len(q)
<1> DEFINE S == {q[i].write : i \in DOMAIN q}
           D == 1..Len(q)
           f == [i \in D |-> q[i].write]
<1>1. Len(q) \in Nat /\ DOMAIN q = D
  BY BatchShape
<1>2. IsFiniteSet(D) /\ Cardinality(D) = Len(q)
  BY <1>1, FS_Interval
<1>3. f \in Bijection(D, S)
  BY <1>1 DEF Bijection, Injection, Surjection, IsInjective
<1>4. ExistsBijection(D, S)
  BY <1>3 DEF ExistsBijection
<1> HIDE DEF S, D
<1> QED
  BY <1>2, <1>4, FS_Bijection DEF S

\* GenerationInv implies WritesAreAccountedFor.
LEMMA InvAccounts == GenerationInv => WritesAreAccountedFor
<1> SUFFICES ASSUME GenerationInv PROVE WritesAreAccountedFor
  OBVIOUS
<1> DEFINE q == driver.writer.queue
           R == driver.writer.reports
<1>1. /\ Line(q, R, driver.admitted, driver.writer.live)
      /\ driver.admitted \ {} \subseteq DOMAIN driver.core.pending
      /\ driver.closing = None => DOMAIN driver.core.pending \subseteq driver.admitted
  BY InvSound DEF Coherent
<1>2. IsBatch(q) /\ \A i, j \in DOMAIN q : q[i].write = q[j].write => i = j
  BY <1>1 DEF Line
<1>3. IsBatch(R) /\ \A i, j \in DOMAIN R : R[i].write = R[j].write => i = j
  BY <1>1 DEF Line
<1>4. /\ IsFiniteSet(QueuedWrites) /\ Cardinality(QueuedWrites) = Len(q)
      /\ IsFiniteSet(ReportedWrites) /\ Cardinality(ReportedWrites) = Len(R)
  BY <1>2, <1>3, WritesCounted DEF QueuedWrites, ReportedWrites
<1>5. QueuedWrites \cap ReportedWrites = {}
  BY <1>1 DEF Line, QueuedWrites, ReportedWrites
<1>6. Len(q) \in Nat /\ Len(R) \in Nat
  BY <1>2, <1>3, BatchShape
<1>7. Cardinality(QueuedWrites \cup ReportedWrites) = Len(q) + Len(R)
  <2>1. Cardinality(QueuedWrites \cup ReportedWrites) =
          Cardinality(QueuedWrites) + Cardinality(ReportedWrites)
          - Cardinality(QueuedWrites \cap ReportedWrites)
    BY <1>4, FS_Union
  <2>2. Cardinality(QueuedWrites \cap ReportedWrites) = 0
    BY <1>5, FS_EmptySet
  <2> DEFINE n == Len(q)
             m == Len(R)
             x == Cardinality(QueuedWrites \cup ReportedWrites)
             y == Cardinality(QueuedWrites \cap ReportedWrites)
  <2>3. n \in Nat /\ m \in Nat /\ x = n + m - y /\ y = 0
    BY <1>4, <1>6, <2>1, <2>2
  <2> HIDE DEF n, m, x, y
  <2>4. x = n + m
    BY ONLY <2>3
  <2> QED
    BY <2>4 DEF n, m, x
<1>8. QueuedWrites \cup ReportedWrites \subseteq driver.admitted
  BY <1>1 DEF Line, QueuedWrites, ReportedWrites
<1>9. driver.writer.live => driver.admitted = QueuedWrites \cup ReportedWrites
  <2>1. driver.writer.live => driver.admitted \subseteq QueuedWrites \cup ReportedWrites
    BY <1>1 DEF Line, QueuedWrites, ReportedWrites
  <2> QED
    BY <1>8, <2>1
<1> QED
  BY <1>1, <1>7, <1>8, <1>9 DEF WritesAreAccountedFor

\* Every write the Writer may still perform or report is known to Driver once and owed
\* by Core; while the Writer's task lives none is lost.
THEOREM AllWritesAccounted == Spec => []WritesAreAccountedFor
BY GenerationInvariant, InvAccounts, PTL

\* GenerationInv implies BarrierIsLastWrite.
LEMMA InvBars == GenerationInv => BarrierIsLastWrite
BY InvSound DEF BarrierIsLastWrite, Coherent

\* A close that waits, waits for the admitted Separate.req that nothing follows.
THEOREM BarrierIsLast == Spec => []BarrierIsLastWrite
BY GenerationInvariant, InvBars, PTL

\* GenerationInv implies TypeOK.
LEMMA InvTypes == GenerationInv => TypeOK
<1> SUFFICES ASSUME GenerationInv PROVE TypeOK
  OBVIOUS
<1>1. Charges(driver.queue) \in Nat
  <2>1. Chargeable(driver.queue)
    BY InvSound DEF Books
  <2>2. PICK f : /\ Charges(driver.queue) = f[Len(driver.queue)]
                 /\ \A i \in 0..Len(driver.queue) : f[i] \in Nat
    BY <2>1, ChargesCount
  <2>3. Len(driver.queue) \in Nat
    BY <2>1, BatchShape DEF Chargeable
  <2>4. Len(driver.queue) \in 0..Len(driver.queue)
    BY <2>3
  <2> QED
    BY <2>2, <2>4
<1>2. driver.bytes \in 0..CommandBytes
  BY <1>1, InvSound, DriverAssumption DEF Books
<1>3. /\ Len(driver.queue) <= CommandCapacity /\ driver.nextCommand \in 0..CommandSpace
      /\ driver.closed \in BOOLEAN /\ driver.draining \in BOOLEAN
  BY InvSound DEF Books
<1>4. /\ DOMAIN driver.completions \subseteq Commands
      /\ \A k \in DOMAIN driver.completions : driver.completions[k].kind \in CommandKinds
      /\ Len(driver.inbound) <= InboundCapacity
  BY InvSound DEF Coherent
<1>5. /\ phase \in {"running", "cleanup", "recovering", "Clean", "Poisoned"}
      /\ tasks \in [reader : BOOLEAN, writer : BOOLEAN, poison : BOOLEAN, aborted : BOOLEAN]
      /\ accepted \subseteq Operations
  BY InvSound DEF Shapes, Phases
<1> QED
  BY <1>2, <1>3, <1>4, <1>5 DEF TypeOK

\* An operation in exactly one of its places is there once.
LEMMA OwnedOnce ==
  ASSUME NEW acc, Owner(driver, acc), NEW op \in Operations
  PROVE  Queued(op) + Tabled(op) + Len(driver.answers[op]) = IF op \in acc.seen THEN 1 ELSE 0
<1>1. Queued(op) = Cardinality(QueuePlaces(driver, op)) /\ Tabled(op) = Cardinality(TablePlaces(driver, op))
  BY DEF Queued, Tabled, QueuePlaces, TablePlaces
<1>2. Cardinality({}) = 0 /\ \A x : Cardinality({x}) = 1
  BY FS_EmptySet, FS_Singleton
<1>3. Len(<<>>) = 0 /\ \A r : Len(<<r>>) = 1
  OBVIOUS
<1>4. \/ /\ op \notin acc.seen /\ driver.answers[op] = <<>>
         /\ QueuePlaces(driver, op) = {} /\ TablePlaces(driver, op) = {}
      \/ /\ op \in acc.seen /\ driver.answers[op] = <<>>
         /\ \E i : QueuePlaces(driver, op) = {i} /\ TablePlaces(driver, op) = {}
      \/ /\ op \in acc.seen /\ driver.answers[op] = <<>>
         /\ \E k : QueuePlaces(driver, op) = {} /\ TablePlaces(driver, op) = {k}
      \/ /\ op \in acc.seen /\ \E r : driver.answers[op] = <<r>>
         /\ QueuePlaces(driver, op) = {} /\ TablePlaces(driver, op) = {}
  BY DEF Owner
<1> DEFINE a == Queued(op)
           b == Tabled(op)
           n == Len(driver.answers[op])
<1>5. CASE op \notin acc.seen
  <2>1. a = 0 /\ b = 0 /\ n = 0
    BY <1>1, <1>2, <1>3, <1>4, <1>5
  <2> QED
    BY <1>5, <2>1
<1>6. CASE op \in acc.seen
  <2>1. \/ a = 1 /\ b = 0 /\ n = 0
        \/ a = 0 /\ b = 1 /\ n = 0
        \/ a = 0 /\ b = 0 /\ n = 1
    BY <1>1, <1>2, <1>3, <1>4, <1>6
  <2> HIDE DEF a, b, n
  <2>2. a + b + n = 1
    BY ONLY <2>1
  <2> QED
    BY <1>6, <2>2 DEF a, b, n
<1> QED
  BY <1>5, <1>6

\* GenerationInv implies OperationsHaveOneOwner.
LEMMA InvOwns == GenerationInv => OperationsHaveOneOwner
<1> SUFFICES ASSUME GenerationInv PROVE OperationsHaveOneOwner
  OBVIOUS
<1>1. TypeOK
  BY InvTypes
<1>2. AcceptedHasOneOwner
  <2> DEFINE acc == Ledger(accepted, {})
  <2>1. Owner(driver, acc)
    BY InvSound DEF Coherent
  <2>2. acc.seen = accepted
    BY DEF Ledger
  <2> HIDE DEF acc
  <2> QED
    BY <2>1, <2>2, OwnedOnce DEF AcceptedHasOneOwner
<1>3. BytesMatchQueue
  BY InvSound DEF Books, BytesMatchQueue
<1>4. TableMatchesCore
  <2>1. DOMAIN driver.core.open \subseteq DOMAIN driver.completions
    BY InvSound DEF Coherent
  <2>2. driver.closing = None \/ driver.closing.barrier # None \/ driver.closed
    BY InvSound DEF Sound
  <2>3. DOMAIN driver.completions \subseteq DOMAIN driver.core.open
    BY <2>2, InvSound DEF Coherent
  <2> QED
    BY <2>1, <2>3 DEF TableMatchesCore
<1> QED
  BY <1>1, <1>2, <1>3, <1>4 DEF OperationsHaveOneOwner

\* An accepted operation is in the queue or in the completion table until it is answered,
\* and it is answered once; the queue's bytes and Core's open commands agree with them.
THEOREM OneOwner == Spec => []OperationsHaveOneOwner
BY GenerationInvariant, InvOwns, PTL

\* No reason that is given to a generation is RuntimeInvariant.
NotBlamedFromOutside == "RuntimeInvariant" \notin ReaderEnds \cup CloseReasons \cup ForcedReasons

\* GenerationInv implies DriverKeepsItsContracts.
LEMMA InvKeepsContracts ==
  ASSUME NotBlamedFromOutside
  PROVE  GenerationInv => DriverKeepsItsContracts
<1> SUFFICES ASSUME GenerationInv, driver.closing # None,
                    driver.closing.reason = "RuntimeInvariant", ~Exhausted(driver.core)
             PROVE  driver.nextCommand = CommandSpace \/ tasks.poison
  BY DEF DriverKeepsItsContracts, Exhausted
<1>1. "RuntimeInvariant" \in Causes
  BY InvSound DEF Blamed
<1>2. "RuntimeInvariant" \notin DrainCause
  BY InvSound DEF DrainCause, Shapes, Drains, NotBlamedFromOutside
<1>3. "RuntimeInvariant" \in Faults
  BY <1>1, <1>2, OrdinaryReasonsAre DEF Causes, NotBlamedFromOutside
<1> QED
  BY <1>3 DEF Faults

\* Driver never has to blame itself: a frame always meets its permit, a completion its
\* endpoint and a report its admitted write.
THEOREM ContractsAreKept ==
  ASSUME NotBlamedFromOutside
  PROVE  Spec => []DriverKeepsItsContracts
BY GenerationInvariant, InvKeepsContracts, PTL

\* GenerationInv implies ExitSettlesOperations.
LEMMA InvSettles == GenerationInv => ExitSettlesOperations
<1> SUFFICES ASSUME GenerationInv PROVE ExitSettlesOperations
  OBVIOUS
<1>1. ASSUME phase = "Clean"
      PROVE  /\ \A op \in accepted : driver.answers[op] # <<>>
             /\ driver.admitted = {} /\ ~tasks.writer
  <2>1. /\ ~tasks.writer /\ driver.admitted = {} /\ driver.queue = <<>>
        /\ DOMAIN driver.completions = {}
    BY <1>1, InvSound DEF Joined, Emptied
  <2>2. ASSUME NEW op \in accepted, driver.answers[op] = <<>> PROVE FALSE
    <3>1. QueuePlaces(driver, op) = {} /\ TablePlaces(driver, op) = {}
      BY <2>1, EmptyBatch DEF QueuePlaces, TablePlaces
    <3>2. op \in Operations
      BY InvSound DEF Shapes
    <3> DEFINE acc == Ledger(accepted, {})
    <3>3. Owner(driver, acc) /\ op \in acc.seen
      BY InvSound DEF Coherent, Ledger
    <3> HIDE DEF acc
    <3>4. \A r : driver.answers[op] # <<r>>
      BY <2>2
    <3>5. \A x : {x} # {}
      OBVIOUS
    <3> QED
      BY <3>1, <3>2, <3>3, <3>4, <3>5 DEF Owner
  <2> QED
    BY <2>1, <2>2
<1>2. ASSUME phase = "Poisoned", NEW k \in DOMAIN driver.completions
      PROVE  tasks.writer /\ k \in UnresolvedCommands(driver.core)
  <2>1. tasks.writer
    BY <1>2, InvSound DEF Joined, Emptied
  <2>2. driver.closed /\ DOMAIN driver.core.open \subseteq DOMAIN driver.core.deferred
    BY <1>2, InvSound DEF Joined, GivenUp
  <2>3. k \in DOMAIN driver.core.deferred
    BY <1>2, <2>2, InvSound DEF Coherent
  <2>4. IInv(driver.core)
    BY InvSound DEF Coherent
  <2>5. DOMAIN driver.core.deferred \subseteq UnresolvedCommands(driver.core)
    BY <2>4 DEF IInv, Weak, Deferral
  <2> QED
    BY <2>1, <2>3, <2>5
<1> QED
  BY <1>1, <1>2 DEF ExitSettlesOperations

\* A clean exit has answered every operation; a poisoned one leaves open only what a
\* task not known to have stopped may still write.
THEOREM ExitsSettle == Spec => []ExitSettlesOperations
BY GenerationInvariant, InvSettles, PTL

\* A step keeps the first close.
LEMMA StepKeepsReason ==
  ASSUME GenerationInv, [Next]_vars
  PROVE  driver.closing # None =>
           /\ driver'.closing # None /\ driver'.closing.reason = driver.closing.reason
           /\ driver.closed => driver'.closed
<1>1. Moves({})
  BY NextMoves DEF GenerationInv
<1> QED
  BY <1>1 DEF Moves, Keeps

\* The first close reason is the one reported, and closing is irreversible.
THEOREM FirstReasonIsKept == Spec => FirstReasonWins
<1> DEFINE Kept == driver.closing # None =>
                     /\ driver'.closing # None /\ driver'.closing.reason = driver.closing.reason
                     /\ driver.closed => driver'.closed
<1>1. GenerationInv /\ [Next]_vars => [Kept]_vars
  BY StepKeepsReason
<1>2. FirstReasonWins <=> [][Kept]_vars
  BY DEF FirstReasonWins
<1> HIDE DEF Kept
<1> QED
  BY <1>1, <1>2, GenerationInvariant, PTL DEF Spec

-----------------------------------------------------------------------------
(* The contract with the owner.                                            *)

\* The parts of the owner's view that are not variables.
DrainView == IF shutdown = None THEN None ELSE shutdown.reason
ClosingView == IF driver.closing = None THEN None ELSE driver.closing.reason
ExitView == IF phase = "Clean" THEN "Clean"
            ELSE IF phase \in {"Poisoned", "recovering"} THEN "Poisoned" ELSE None
HeldView == {op \in accepted : driver.answers[op] = <<>>}
Generation(drain, closing, closed, exit, owned, seen) ==
  [drain |-> drain, closing |-> closing, closed |-> closed, exit |-> exit,
   owned |-> owned, seen |-> seen]

\* The owner's view and its parts.
LEMMA ViewParts ==
  OwnersView = Generation(DrainView, ClosingView, driver.closed, ExitView, HeldView, accepted)
BY DEF OwnersView, Generation, DrainView, ClosingView, ExitView, HeldView

\* What settling, closing and exiting do to its parts.
LEMMA SettleParts ==
  ASSUME NEW drain, NEW closing, NEW closed, NEW exit, NEW owned, NEW left, NEW seen, NEW g,
         g = Generation(drain, closing, closed, exit, owned, seen), left \subseteq owned
  PROVE  /\ [g EXCEPT !.owned = @ \ (owned \ left)]
              = Generation(drain, closing, closed, exit, left, seen)
         /\ g.owned = owned /\ g.exit = exit /\ g.closed = closed /\ g.closing = closing
         /\ g.drain = drain
<1> DEFINE rest == g.owned \ (owned \ left)
<1>1. g.owned = owned /\ g.exit = exit /\ g.closed = closed /\ g.closing = closing /\ g.drain = drain
  BY DEF Generation
<1>2. rest = left
  BY <1>1
<1> HIDE DEF rest
<1>3. [g EXCEPT !.owned = rest] = Generation(drain, closing, closed, exit, left, seen)
  BY <1>2 DEF Generation
<1> QED
  BY <1>1, <1>3 DEF rest

\* An exit of the view is Clean or one of a poisoned one's, as ended says.
LEMMA ExitParts ==
  ASSUME NEW drain, NEW closing, NEW closed, NEW exit, NEW owned, NEW seen, NEW after,
         NEW s, s = Generation(drain, closing, closed, exit, owned, seen)
  PROVE  [s EXCEPT !.exit = after] = Generation(drain, closing, closed, after, owned, seen)
BY DEF Generation

\* What the contract lets a round do with the reasons and the transport.
MayClose(drain, closing, after, open, closed) ==
  /\ open = FALSE /\ closed \in BOOLEAN
  /\ \/ after = closing /\ ~closed
     \/ after = closing /\ closing # None
     \/ closing = None /\ after \in GenerationReasons \cup ({drain} \ {None})

\* What it lets a round do with the parts of the view.
LEMMA RoundSteps ==
  ASSUME NEW drain, NEW closing, NEW after, NEW open, NEW closed, NEW exit, NEW owned,
         NEW left, NEW seen, NEW g, NEW h, left \subseteq owned,
         MayClose(drain, closing, after, open, closed),
         g = Generation(drain, closing, open, exit, owned, seen),
         h = Generation(drain, after, closed, exit, left, seen)
  PROVE  h \in Contract!Rounds(g)
<1> DEFINE ops == owned \ left
           s == [g EXCEPT !.owned = @ \ ops]
<1>z. /\ open = FALSE /\ closed \in BOOLEAN
      /\ \/ after = closing /\ ~closed
         \/ after = closing /\ closing # None
         \/ closing = None /\ after \in GenerationReasons \cup ({drain} \ {None})
  BY DEF MayClose
<1>a. g = Generation(drain, closing, open, exit, owned, seen)
  OBVIOUS
<1>b. h = Generation(drain, after, closed, exit, left, seen)
  OBVIOUS
<1>0. left \subseteq owned
  OBVIOUS
<1> DEFINE A == {Contract!Settle(g, o) : o \in SUBSET g.owned}
           B == {Contract!Closing(g, o, r, c) : o \in SUBSET g.owned,
                                                r \in Contract!CloseChoices(g), c \in BOOLEAN}
<1>c. Contract!Rounds(g) = IF g.closed THEN {} ELSE A \cup B
  BY DEF Contract!Rounds
<1> HIDE DEF A, B
<1>1. /\ s = Generation(drain, closing, open, exit, left, seen)
      /\ g.owned = owned /\ g.closed = open /\ g.closing = closing /\ g.drain = drain
  BY ONLY <1>0, <1>a, SettleParts
<1>2. ops \in SUBSET g.owned
  BY <1>1
<1>3. CASE after = closing /\ ~closed
  <2>1. closed = open
    BY <1>z, <1>3
  <2>2. h = s
    BY <1>z, <1>1, <1>3, <2>1
  <2>3. h = [g EXCEPT !.owned = g.owned \ ops]
    BY <2>2
  <2> HIDE DEF s, ops
  <2>4. ~g.closed
    BY <1>z, <1>1
  <2>5. \E o \in SUBSET g.owned : h = [g EXCEPT !.owned = g.owned \ o]
    BY <1>2, <2>3, Zenon
  <2>6. h \in A
    BY <2>5, Zenon DEF Contract!Settle, A
  <2> QED
    BY ONLY <2>4, <2>6, <1>c
<1>4. CASE after \in Contract!CloseChoices(g)
  <2> HIDE DEF s
  <2> DEFINE t == [s EXCEPT !.closing = after]
  <2>0. t = Generation(drain, after, open, exit, left, seen)
    BY <1>1 DEF Generation
  <2> HIDE DEF t
  <2>1. [t EXCEPT !.closed = closed] = h
    BY <2>0, <1>b DEF Generation
  <2>2. Contract!Closing(g, ops, after, closed) = h
    BY <2>1 DEF Contract!Closing, Contract!Settle, s, t
  <2> HIDE DEF ops
  <2>3. Contract!Closing(g, ops, after, closed) \in B
    BY <1>z, <1>2, <1>4 DEF B
  <2>4. ~g.closed
    BY <1>z, <1>1
  <2>5. h \in B
    BY <2>2, <2>3, Zenon
  <2> QED
    BY ONLY <2>4, <2>5, <1>c
<1>5. CASE after = closing /\ closing # None
  <2>1. after \in Contract!CloseChoices(g)
    BY <1>1, <1>5, Zenon DEF Contract!CloseChoices
  <2> QED
    BY <1>4, <2>1
<1>6. CASE closing = None /\ after \in GenerationReasons \cup ({drain} \ {None})
  <2>1. after \in Contract!CloseChoices(g)
    BY <1>1, <1>6, Zenon DEF Contract!CloseChoices
  <2> QED
    BY <1>4, <2>1
<1> QED
  BY <1>z, <1>3, <1>5, <1>6

\* What it lets a cleanup do.
LEMMA CleanupSteps ==
  ASSUME NEW drain, NEW closing, NEW exit, NEW after, NEW owned, NEW left \in SUBSET owned,
         NEW seen, NEW g, NEW h, NEW closed, closed = TRUE,
         g = Generation(drain, closing, closed, exit, owned, seen),
         h = Generation(drain, closing, closed, after, left, seen),
         exit # "Clean", after \in {exit, "Clean", "Poisoned"}, after = "Clean" => left = {}
  PROVE  h \in Contract!Reports(g) \cup Contract!Exits(g)
<1> DEFINE ops == owned \ left
           s == [g EXCEPT !.owned = @ \ ops]
<1>a. g = Generation(drain, closing, closed, exit, owned, seen)
  OBVIOUS
<1>b. h = Generation(drain, closing, closed, after, left, seen)
  OBVIOUS
<1>0. left \subseteq owned
  OBVIOUS
<1>1. /\ s = Generation(drain, closing, closed, exit, left, seen)
      /\ g.owned = owned /\ g.closed = closed /\ g.exit = exit
  BY ONLY <1>0, <1>a, SettleParts
<1>2. ops \in SUBSET g.owned
  BY <1>1
<1>3. s = Contract!Settle(g, ops)
  BY DEF Contract!Settle
<1> HIDE DEF s
<1>4. [s EXCEPT !.exit = after] = h
  BY ONLY <1>1, <1>b, ExitParts
<1>5. CASE after = exit
  <2>1. h = s
    BY <1>1, <1>5
  <2> HIDE DEF ops
  <2>2. h \in {Contract!Settle(g, o) : o \in SUBSET g.owned}
    BY <1>2, <1>3, <2>1, Zenon
  <2> QED
    BY <1>1, <2>2, Zenon DEF Contract!Reports
<1>6. CASE after = "Poisoned"
  <2>1. h = [Contract!Settle(g, ops) EXCEPT !.exit = "Poisoned"]
    BY <1>3, <1>4, <1>6, Zenon
  <2> HIDE DEF ops
  <2>2. h \in {[Contract!Settle(g, o) EXCEPT !.exit = "Poisoned"] : o \in SUBSET g.owned}
    BY <1>2, <2>1, Zenon
  <2> QED
    BY <1>1, <2>2, Zenon DEF Contract!Exits
<1>7. CASE after = "Clean"
  <2>1. ops = g.owned
    BY <1>1, <1>7
  <2>2. h = [Contract!Settle(g, g.owned) EXCEPT !.exit = "Clean"]
    BY <1>3, <1>4, <1>7, <2>1, Zenon
  <2> HIDE DEF ops
  <2> QED
    BY <1>1, <2>2, Zenon DEF Contract!Exits
<1> QED
  BY <1>5, <1>6, <1>7

\* What has been answered stays answered, and what is accepted stays accepted.
LEMMA OwnedShrinks ==
  ASSUME GenerationInv, [Next]_vars
  PROVE  HeldView' \subseteq HeldView \cup (accepted' \ accepted)
<1>1. PICK done : done = {op \in Operations : driver.answers[op] # <<>>}
  OBVIOUS
<1>2. Rested(done)
  <2>1. Owner(driver, Ledger(accepted, {}))
    BY InvSound DEF Coherent
  <2>2. Owner(driver, Ledger(accepted, done))
    BY <1>1, <2>1 DEF Owner, Ledger
  <2>3. Coherent(driver, driver.writer.reports, {}, Ledger(accepted, done))
    BY <2>2, InvSound DEF Coherent
  <2> QED
    BY <2>3, InvSound DEF Rested, Sound
<1>3. Rested(done)'
  BY <1>2, NextMoves DEF Moves
<1>4. Owner(driver', Ledger(accepted', done)) /\ accepted' \subseteq Operations
  BY <1>3 DEF Rested, Sound, Coherent, Shapes
<1>5. ASSUME NEW op \in HeldView' PROVE op \notin done
  <2>1. op \in Operations /\ driver'.answers[op] = <<>>
    BY <1>4 DEF HeldView
  <2>2. \A r : driver'.answers[op] # <<r>>
    BY <2>1
  <2> QED
    BY <1>4, <2>1, <2>2 DEF Owner, Ledger
<1>6. HeldView' \subseteq accepted'
  BY DEF HeldView
<1> QED
  BY <1>1, <1>4, <1>5, <1>6 DEF HeldView

\* No reason is None, so the view says whether the generation drains or closes.
LEMMA ViewSays ==
  ASSUME GenerationInv
  PROVE  /\ DrainView = None <=> shutdown = None
         /\ ClosingView = None <=> driver.closing = None
         /\ driver.closed \in BOOLEAN /\ (driver.closed => ClosingView # None)
         /\ shutdown # None => DrainView = shutdown.reason /\ DrainView \in CloseReasons
         /\ driver.closing # None => ClosingView = driver.closing.reason
<1>1. shutdown \in {None} \cup Drains /\ driver.closing \in {None} \cup Closings
  BY InvSound DEF Shapes, Coherent
<1>2. shutdown # None => shutdown.reason \in CloseReasons /\ shutdown.reason # None
  BY <1>1, RuntimeAssumption DEF Drains, AllReasons
<1>3. driver.closing # None => driver.closing.reason # None
  BY <1>1, RuntimeAssumption DEF Closings
<1>4. driver.closed \in BOOLEAN /\ (driver.closed => driver.closing # None)
  BY InvSound DEF Books, Coherent
<1> QED
  BY <1>2, <1>3, <1>4 DEF DrainView, ClosingView

\* A step changes the reasons in the view at most from None.
LEMMA ViewKeeps ==
  ASSUME GenerationInv, [Next]_vars
  PROVE  /\ DrainView # None => DrainView' = DrainView
         /\ ClosingView # None => ClosingView' = ClosingView
         /\ driver.closed => driver'.closed
<1>1. Moves({})
  BY NextMoves DEF GenerationInv
<1>2. GenerationInv'
  BY GenerationStep
<1>3. /\ shutdown # None => shutdown' # None /\ shutdown'.reason = shutdown.reason
      /\ driver.closing # None => /\ driver'.closing # None
                                  /\ driver'.closing.reason = driver.closing.reason
      /\ driver.closed => driver'.closed
  BY <1>1 DEF Moves, Keeps
<1> QED
  BY <1>3, ViewSays DEF DrainView, ClosingView

\* The same of the next state.
LEMMA ViewSaysNext ==
  ASSUME GenerationInv'
  PROVE  /\ OwnersView' = Generation(DrainView', ClosingView', driver'.closed, ExitView', HeldView',
                                     accepted')
         /\ driver'.closed \in BOOLEAN /\ (driver'.closed => driver'.closing # None)
         /\ driver'.closing = None => ClosingView' = None
         /\ driver'.closing # None => ClosingView' = driver'.closing.reason
         /\ DrainCause' = IF shutdown' = None THEN {} ELSE {DrainView'}
         /\ DrainView' # None => shutdown' # None
         /\ shutdown' # None => DrainView' # None
<1>1. Rested({})' /\ Blamed'
  BY DEF GenerationInv
<1>2. /\ driver'.closed \in BOOLEAN /\ (driver'.closed => driver'.closing # None)
      /\ shutdown' \in {None} \cup Drains
  BY <1>1 DEF Rested, Sound, Books, Coherent, Shapes
<1>3. shutdown' # None => shutdown'.reason # None
  BY <1>2, RuntimeAssumption DEF Drains, AllReasons
<1>4. OwnersView' = Generation(DrainView', ClosingView', driver'.closed, ExitView', HeldView', accepted')
  BY DEF OwnersView, Generation, DrainView, ClosingView, ExitView, HeldView
<1> QED
  BY <1>2, <1>3, <1>4 DEF DrainCause, DrainView, ClosingView

\* Ordinary input closes for a reason of the generation's own.
LEMMA OwnCauses ==
  OrdinaryReasons \cup {"RuntimeInvariant"} \subseteq GenerationReasons
BY DEF OrdinaryReasons, CoreReasons, RefusalReasons, GenerationReasons

\* What the end of the Reader and the force of the endpoint give are reasons of a
\* generation's own; only the owner's requests name others.
OwnersReasons == ReaderEnds \cup ForcedReasons \subseteq GenerationReasons

\* A round is a step of the contract.
LEMMA RoundViews ==
  ASSUME OwnersReasons, GenerationInv, [Next]_vars, phase = "running", ~driver.closed,
         phase' = phase, accepted' = accepted, DrainView' = DrainView
  PROVE  Contract!Run
<1>1. GenerationInv'
  BY GenerationStep
<1>2. HeldView' \subseteq HeldView
  BY OwnedShrinks
<1>3. driver.closed = FALSE
  BY ViewSays
<1>4. \/ ClosingView' = ClosingView /\ ~driver'.closed
      \/ ClosingView' = ClosingView /\ ClosingView # None
      \/ ClosingView = None /\ ClosingView' \in GenerationReasons \cup ({DrainView} \ {None})
  <2>1. CASE ClosingView # None
    BY <2>1, ViewKeeps
  <2>2. CASE ClosingView = None /\ driver'.closing = None
    BY <1>1, <2>2, ViewSaysNext
  <2>3. CASE ClosingView = None /\ driver'.closing # None
    <3>1. ClosingView' = driver'.closing.reason
      BY <1>1, <2>3, ViewSaysNext
    <3>2. ClosingView' \in Causes' \cup {"RuntimeInvariant"}
      BY <1>1, <2>3, <3>1 DEF GenerationInv, Blamed
    <3>3. DrainCause' \subseteq {DrainView} \ {None}
      BY <1>1, ViewSaysNext
    <3>4. Causes' \subseteq GenerationReasons \cup ({DrainView} \ {None})
      BY <3>3, OwnCauses DEF Causes, Faults, OwnersReasons
    <3> QED
      BY <2>3, <3>2, <3>4, OwnCauses
  <2> QED
    BY <2>1, <2>2, <2>3
<1>5. ExitView' = ExitView
  BY DEF ExitView
<1>6. OwnersView = Generation(DrainView, ClosingView, driver.closed, ExitView, HeldView, accepted)
  BY ViewParts
<1>7. OwnersView' = Generation(DrainView, ClosingView', driver'.closed, ExitView, HeldView', accepted)
  BY <1>1, <1>5, ViewSaysNext
<1>8. driver'.closed \in BOOLEAN
  BY <1>1, ViewSaysNext
<1>9. OwnersView' \in Contract!Rounds(OwnersView)
  <2> DEFINE drain == DrainView
             closing == ClosingView
             exit == ExitView
             owned == HeldView
             seen == accepted
             open == driver.closed
             g == OwnersView
             after == ClosingView'
             left == HeldView'
             closed == driver'.closed
             h == OwnersView'
  <2>1. g = Generation(drain, closing, open, exit, owned, seen)
    BY <1>6
  <2>2. h = Generation(drain, after, closed, exit, left, seen)
    BY <1>7
  <2>3. left \subseteq owned /\ MayClose(drain, closing, after, open, closed)
    BY <1>2, <1>3, <1>4, <1>8 DEF MayClose
  <2> HIDE DEF drain, closing, exit, owned, seen, open, g, after, left, closed, h
  <2>5. h \in Contract!Rounds(g)
    BY ONLY <2>1, <2>2, <2>3, RoundSteps
  <2> QED
    BY <2>5 DEF g, h
<1> QED
  BY <1>9 DEF Contract!Run

\* A step of the cleanup is one.
LEMMA CleanupViews ==
  ASSUME GenerationInv, [Next]_vars, driver.closed, phase # "Clean", accepted' = accepted,
         DrainView' = DrainView, ExitView' \in {ExitView, "Clean", "Poisoned"}
  PROVE  Contract!Cleanup
<1>1. GenerationInv'
  BY GenerationStep
<1>2. HeldView' \subseteq HeldView
  BY OwnedShrinks
<1>3. driver.closed = TRUE /\ driver'.closed = TRUE
  BY <1>1, ViewSays, ViewSaysNext, ViewKeeps
<1>4. ClosingView' = ClosingView
  BY ViewSays, ViewKeeps
<1>5. ExitView # "Clean"
  BY RuntimeAssumption DEF ExitView
<1>6. ExitView' = "Clean" => HeldView' = {}
  <2>1. SUFFICES ASSUME ExitView' = "Clean" PROVE HeldView' = {}
    OBVIOUS
  <2>2. phase' = "Clean"
    BY <2>1, RuntimeAssumption DEF ExitView
  <2>3. ExitSettlesOperations'
    BY <1>1, InvSettles, PTL
  <2> QED
    BY <2>2, <2>3 DEF ExitSettlesOperations, HeldView
<1>7. OwnersView = Generation(DrainView, ClosingView, driver.closed, ExitView, HeldView, accepted)
  BY ViewParts
<1>8. OwnersView' = Generation(DrainView, ClosingView, driver.closed, ExitView', HeldView', accepted)
  BY <1>1, <1>3, <1>4, ViewSaysNext
<1>9. OwnersView' \in Contract!Reports(OwnersView) \cup Contract!Exits(OwnersView)
  BY ONLY <1>2, <1>3, <1>5, <1>6, <1>7, <1>8, CleanupSteps, ExitView' \in {ExitView, "Clean", "Poisoned"}
<1> QED
  BY <1>9 DEF Contract!Cleanup

\* A step that leaves what the owner sees alone.
LEMMA QuietViews ==
  ASSUME driver'.closing = driver.closing, driver'.closed = driver.closed,
         driver'.answers = driver.answers, UNCHANGED <<shutdown, accepted>>, ExitView' = ExitView
  PROVE  UNCHANGED OwnersView
BY DEF OwnersView, ExitView

\* The owner does not see the Writer's task.
LEMMA WriterViews ==
  ASSUME GenerationInv, WriterTask
  PROVE  UNCHANGED OwnersView
<1>1. PICK w : driver' = [driver EXCEPT !.writer = w] /\ UNCHANGED <<shutdown, phase, accepted>>
  BY DEF WriterTask, WriteSome, WriteAll, FaultWriter, ReportFault, StopWriter, LoseWriter, WriterStep
<1>2. DOMAIN driver = DriverFields
  BY InvSound DEF Coherent, Formed
<1>3. /\ driver'.closing = driver.closing /\ driver'.closed = driver.closed
      /\ driver'.answers = driver.answers
  BY <1>1, <1>2 DEF DriverFields
<1> QED
  BY <1>1, <1>3, QuietViews DEF ExitView

\* An admitted operation is a step of the contract.
LEMMA AcceptViews ==
  ASSUME GenerationInv, [Next]_vars, NEW op \in Operations, NEW reply \in BOOLEAN,
         op \notin accepted, driver.closing = None, reply \/ shutdown = None,
         driver'.closing = driver.closing, driver'.closed = driver.closed, driver'.answers = driver.answers,
         accepted' = accepted \cup {op}, UNCHANGED <<shutdown, phase>>
  PROVE  Contract!Accept
<1>1. GenerationInv'
  BY GenerationStep
<1>2. driver.answers[op] = <<>>
  BY InvSound DEF Coherent, Owner, Ledger
<1>3. HeldView' = HeldView \cup {op}
  BY <1>2 DEF HeldView
<1>4. ClosingView = None /\ ClosingView' = ClosingView /\ DrainView' = DrainView
      /\ ExitView' = ExitView /\ driver'.closed = driver.closed
  BY DEF ClosingView, DrainView, ExitView
<1>5. OwnersView = Generation(DrainView, ClosingView, driver.closed, ExitView, HeldView, accepted)
  BY ViewParts
<1>6. OwnersView' = Generation(DrainView, ClosingView, driver.closed, ExitView, HeldView \cup {op},
                               accepted \cup {op})
  BY <1>1, <1>3, <1>4, ViewSaysNext
<1> DEFINE g == OwnersView
           h == OwnersView'
           drain == DrainView
           closing == ClosingView
           closed == driver.closed
           exit == ExitView
           owned == HeldView
           seen == accepted
<1>7. /\ g = Generation(drain, closing, closed, exit, owned, seen)
      /\ h = Generation(drain, closing, closed, exit, owned \cup {op}, seen \cup {op})
  BY <1>5, <1>6
<1>8. closing = None /\ op \notin seen /\ (reply \/ drain = None)
  BY <1>4 DEF DrainView
<1> HIDE DEF g, h, drain, closing, closed, exit, owned, seen
<1>9. op \in Operations \ g.seen /\ Contract!MayAdmit(g, reply)
  BY ONLY <1>7, <1>8, op \in Operations DEF Generation, Contract!MayAdmit
<1>10. h = [g EXCEPT !.owned = g.owned \cup {op}, !.seen = g.seen \cup {op}]
  <2> DEFINE s == [g EXCEPT !.owned = g.owned \cup {op}]
  <2>1. s = Generation(drain, closing, closed, exit, owned \cup {op}, seen) /\ g.seen = seen
    BY ONLY <1>7 DEF Generation
  <2> HIDE DEF s
  <2>2. [s EXCEPT !.seen = g.seen \cup {op}] = h
    BY ONLY <1>7, <2>1 DEF Generation
  <2> QED
    BY <2>2 DEF s
<1>11. h = Contract!Admit(g, op)
  BY <1>10 DEF Contract!Admit
<1> QED
  BY <1>9, <1>11 DEF Contract!Accept, g, h

\* try_accept_control, _send and _request.
LEMMA AdmitViews ==
  ASSUME GenerationInv, [Next]_vars, NEW x, x.op \in Operations, AcceptsNew(driver), Admit(x)
  PROVE  Contract!Accept
<1>1. /\ x.op \notin accepted /\ driver' = Enqueue(driver, x)
      /\ accepted' = accepted \cup {x.op} /\ UNCHANGED <<shutdown, phase, tasks>>
  BY DEF Admit, ApplicationLeaves
<1>2. driver.closing = None /\ ~driver.draining
  BY DEF AcceptsNew
<1>3. shutdown = None
  BY <1>2, InvSound DEF Joined
<1>4. DOMAIN driver = DriverFields
  BY InvSound DEF Coherent, Formed
<1>5. /\ driver'.closing = driver.closing /\ driver'.closed = driver.closed
      /\ driver'.answers = driver.answers
  BY <1>1, <1>4 DEF Enqueue, DriverFields
<1> QED
  BY <1>1, <1>2, <1>3, <1>5, AcceptViews

\* try_accept_reply.
LEMMA ReplyViews ==
  ASSUME GenerationInv, [Next]_vars, NEW op \in Operations, NEW i, NEW t, TryAcceptReply(op, i, t)
  PROVE  Contract!Accept
<1> DEFINE x == Accepted(op, "Reply", None, i, t, FALSE, CommandCharge(FALSE))
<1>1. /\ op \notin accepted /\ AcceptsReply(driver, i, t)
      /\ driver' = [Enqueue(driver, x) EXCEPT !.held = @ \ {t}]
      /\ accepted' = accepted \cup {op} /\ UNCHANGED <<shutdown, phase, tasks>>
  BY DEF TryAcceptReply, ApplicationLeaves
<1> HIDE DEF x
<1>2. driver.closing = None
  BY <1>1 DEF AcceptsReply
<1>3. DOMAIN driver = DriverFields
  BY InvSound DEF Coherent, Formed
<1>4. /\ driver'.closing = driver.closing /\ driver'.closed = driver.closed
      /\ driver'.answers = driver.answers
  BY <1>1, <1>3 DEF Enqueue, DriverFields
<1>5. TRUE \in BOOLEAN /\ (TRUE \/ shutdown = None)
  OBVIOUS
<1> QED
  BY <1>1, <1>2, <1>4, <1>5, AcceptViews

\* begin_graceful_close.
LEMMA DrainViews ==
  ASSUME GenerationInv, [Next]_vars, NEW r \in CloseReasons, BeginGracefulClose(r)
  PROVE  Contract!Drain
<1>1. /\ shutdown = None /\ driver.closing = None
      /\ driver' = [driver EXCEPT !.draining = TRUE]
      /\ shutdown' = [reason |-> r, finalizing |-> FALSE] /\ UNCHANGED <<phase, accepted>>
  BY DEF BeginGracefulClose, RoundLeaves
<1>2. DOMAIN driver = DriverFields /\ GenerationInv'
  BY InvSound, GenerationStep DEF Coherent, Formed
<1>3. /\ driver'.closing = driver.closing /\ driver'.closed = driver.closed
      /\ driver'.answers = driver.answers
  BY <1>1, <1>2 DEF DriverFields
<1>4. shutdown' # None
  <2>1. shutdown' \in Drains
    BY <1>1 DEF Drains
  <2> QED
    BY <2>1, RuntimeAssumption
<1>5. DrainView = None /\ DrainView' = r /\ ClosingView = None /\ ClosingView' = None
      /\ ExitView' = ExitView /\ HeldView' = HeldView
  BY <1>1, <1>3, <1>4 DEF DrainView, ClosingView, ExitView, HeldView
<1> DEFINE g == OwnersView
           h == OwnersView'
           closed == driver.closed
           exit == ExitView
           owned == HeldView
           seen == accepted
<1>6. g = Generation(None, None, closed, exit, owned, seen)
  BY <1>5, ViewParts
<1>7. h = Generation(r, None, closed, exit, owned, seen)
  BY <1>1, <1>2, <1>3, <1>5, ViewSaysNext
<1> HIDE DEF g, h, closed, exit, owned, seen
<1>8. h = [g EXCEPT !.drain = r] /\ g.drain = None /\ g.closing = None
  BY ONLY <1>6, <1>7 DEF Generation
<1>9. h = Contract!BeginGracefulClose(g, r)
  BY <1>8 DEF Contract!BeginGracefulClose, Contract!IsDraining
<1> QED
  BY <1>9 DEF Contract!Drain, g, h

\* The owner sees take_inbound as nothing.
LEMMA TakeInboundViews ==
  ASSUME GenerationInv, TakeInbound
  PROVE  UNCHANGED OwnersView
<1>1. PICK q, s : driver' = [driver EXCEPT !.inbound = q, !.held = s]
  BY DEF TakeInbound
<1>2. DOMAIN driver = DriverFields
  BY InvSound DEF Coherent, Formed
<1>3. /\ driver'.closing = driver.closing /\ driver'.closed = driver.closed
      /\ driver'.answers = driver.answers
  BY <1>1, <1>2 DEF DriverFields
<1>4. UNCHANGED <<shutdown, phase, accepted>>
  BY DEF TakeInbound, ApplicationLeaves
<1> QED
  BY <1>3, <1>4, QuietViews DEF ExitView

\* The rounds, and force_close, which is one.
LEMMA RoundsViews ==
  ASSUME OwnersReasons, GenerationInv, [Next]_vars,
         Rounds \/ \E r \in ForcedReasons : ForceClose(r)
  PROVE  Contract!Run
<1>1. Running /\ RoundLeaves
  BY DEF Rounds, CommandRound, MessageRound, ViolationRound, WriteRound, ReaderStopped,
         WriterStopped, TimerRound, ShutdownRound, ForceClose, Ordinary
<1>2. shutdown' = shutdown \/ \E d, drained, expired : shutdown' = Finalizing(d, drained, expired)
  BY DEF Rounds, CommandRound, MessageRound, ViolationRound, WriteRound, ReaderStopped,
         WriterStopped, TimerRound, ShutdownRound, ForceClose
<1>3. DrainView' = DrainView
  <2>1. shutdown \in {None} \cup Drains
    BY InvSound DEF Shapes
  <2>2. CASE shutdown' = shutdown
    BY <2>2 DEF DrainView
  <2>3. ASSUME NEW d, NEW drained, NEW expired, shutdown' = Finalizing(d, drained, expired)
        PROVE  DrainView' = DrainView
    BY <2>1, <2>3, FinalizingKeeps DEF DrainView
  <2> QED
    BY <1>2, <2>2, <2>3
<1> QED
  BY <1>1, <1>3, RoundViews DEF Running, RoundLeaves

\* finish, cleanup and recover_cleanup.
LEMMA CleansViews ==
  ASSUME GenerationInv, [Next]_vars, Cleanup
  PROVE  Contract!Cleanup \/ UNCHANGED OwnersView
<1>1. CASE JoinReader \/ JoinWriter
  BY <1>1, QuietViews DEF JoinReader, JoinWriter, ExitView
<1>2. CASE Finish \/ CleanupReport \/ CleanupDone \/ CleanupExpired \/ Recover
  <2>1. /\ UNCHANGED <<shutdown, accepted>> /\ phase # "Clean"
        /\ phase = "running" => driver.closed
    BY <1>2 DEF Finish, CleanupReport, CleanupDone, CleanupExpired, Recover, CleaningUp
  <2>2. driver.closed
    BY <2>1, InvSound DEF Joined
  <2>3. ExitView' \in {ExitView, "Clean", "Poisoned"}
    BY <1>2 DEF Finish, CleanupReport, CleanupDone, CleanupExpired, Recover, CleaningUp, ExitView
  <2>4. DrainView' = DrainView
    BY <2>1 DEF DrainView
  <2> QED
    BY <2>1, <2>2, <2>3, <2>4, CleanupViews
<1> QED
  BY <1>1, <1>2 DEF Cleanup

\* Every step is one of the contract, or shows the owner nothing.
LEMMA StepViews ==
  ASSUME OwnersReasons, GenerationInv, [Next]_vars
  PROVE  [Contract!Next]_OwnersView
<1>1. ASSUME NEW op \in Operations, NEW kind, TryAcceptControl(op, kind)
      PROVE  Contract!Accept
  <2> DEFINE x == Accepted(op, kind, None, None, None, FALSE, 0)
  <2>1. x.op \in Operations /\ AcceptsNew(driver) /\ Admit(x)
    BY <1>1 DEF TryAcceptControl, Accepted
  <2> HIDE DEF x
  <2> QED
    BY <2>1, AdmitViews
<1>2. ASSUME NEW op \in Operations, NEW kind, NEW p, TryAcceptData(op, kind, p)
      PROVE  Contract!Accept
  <2> DEFINE x == Accepted(op, kind, p, None, None, p.body, CommandCharge(p.body))
  <2>1. x.op \in Operations /\ AcceptsNew(driver) /\ Admit(x)
    BY <1>2 DEF TryAcceptData, Accepted
  <2> HIDE DEF x
  <2> QED
    BY <2>1, AdmitViews
<1>3. CASE Application
  <2>1. CASE \E op \in Operations, kind \in Kinds \cap ControlCommands : TryAcceptControl(op, kind)
    BY <1>1, <2>1 DEF Contract!Next
  <2>2. CASE \E op \in Operations, kind \in Kinds \ ControlCommands, p \in Primaries :
               TryAcceptData(op, kind, p)
    BY <1>2, <2>2 DEF Contract!Next
  <2>3. CASE \E op \in Operations, i \in Intents, t \in driver.held : TryAcceptReply(op, i, t)
    BY <2>3, ReplyViews DEF Contract!Next
  <2>4. CASE TakeInbound
    BY <2>4, TakeInboundViews
  <2>5. CASE \E r \in CloseReasons : BeginGracefulClose(r)
    BY <2>5, DrainViews DEF Contract!Next
  <2>6. CASE \E r \in ForcedReasons : ForceClose(r)
    BY <2>6, RoundsViews DEF Contract!Next
  <2> QED
    BY <1>3, <2>1, <2>2, <2>3, <2>4, <2>5, <2>6 DEF Application
<1>4. CASE WriterTask
  BY <1>4, WriterViews
<1>5. CASE Rounds
  BY <1>5, RoundsViews DEF Contract!Next
<1>6. CASE Cleanup
  BY <1>6, CleansViews DEF Contract!Next
<1>7. CASE UNCHANGED vars
  BY <1>7 DEF vars, OwnersView
<1> QED
  BY <1>3, <1>4, <1>5, <1>6, <1>7 DEF Next

\* A new generation has accepted nothing.
LEMMA InitViews == Init => Contract!Init
<1> SUFFICES ASSUME Init PROVE Contract!Init
  OBVIOUS
<1>1. GenerationInv
  BY InitRests
<1>2. driver = LaunchedDriver /\ accepted = {} /\ shutdown = None /\ phase = "running"
  BY DEF Init
<1>3. driver.closing = None /\ driver.closed = FALSE
  BY <1>1, <1>2, LaunchedSound, ViewSays DEF ClosingView
<1>4. OwnersView = Generation(None, None, FALSE, None, {}, {})
  BY <1>2, <1>3, ViewParts DEF DrainView, ClosingView, ExitView, HeldView
<1> QED
  BY <1>4 DEF Contract!Init, Contract!NewGeneration, Generation

\* A generation keeps the contract that its owner, the endpoint, runs on, if what its
\* reader and its owner's force give as reasons are its own: initial states map to
\* initial states, and every step to a step of the contract or to none.
THEOREM GenerationImplementsContract ==
  ASSUME OwnersReasons
  PROVE  Spec => ImplementsContract
<1>1. Init => Contract!Init
  BY InitViews
<1>2. GenerationInv /\ [Next]_vars => [Contract!Next]_OwnersView
  BY StepViews
<1> QED
  BY <1>1, <1>2, GenerationInvariant, PTL DEF Spec, ImplementsContract, Contract!Spec

-----------------------------------------------------------------------------
(* The cause of a drain.                                                   *)

\* The first close is kept, and a new one is for that reason.
ClosesFor(d, e, reason) ==
  /\ d.closing # None => e.closing # None /\ e.closing.reason = d.closing.reason
  /\ d.closing = None /\ e.closing # None => e.closing.reason = reason

\* Every close of a batch is for that reason.
Named(out, reason) ==
  \A i \in DOMAIN out : out[i].act = "CloseGeneration" => out[i].reason = reason

\* Closing for one reason, twice.
LEMMA ClosesForTrans ==
  ASSUME NEW d, NEW e, NEW f, NEW reason, ClosesFor(d, e, reason), ClosesFor(e, f, reason)
  PROVE  ClosesFor(d, f, reason)
BY DEF ClosesFor

\* A batch that names one reason, applied or cut, closes for it.
LEMMA BatchNames ==
  ASSUME NEW d, NEW c, NEW p, NEW permit, NEW written, NEW R, NEW acc, NEW state, NEW reason,
         Ready(d, c, p, permit, written, R, acc), Run(p, state, c), Named(c.out, reason)
  PROVE  ClosesFor(d, ApplyActionBatch(d, c, permit, written).d, reason)
<1> DEFINE s == ApplyActionBatch(d, c, permit, written)
<1>1. Applied(d, c, p, R, acc, s, Len(c.out))
  BY AppliesBatch
<1> HIDE DEF s
<1>2. IsBatch(c.out)
  BY DEF Ready
<1>3. DOMAIN c.out = 1..Len(c.out)
  BY <1>2, BatchShape
<1>4. ClosingAt(d, c, s, Len(c.out))
  BY <1>1 DEF Applied
<1>5. ClosesFor(d, s.d, reason)
  BY <1>3, <1>4 DEF ClosingAt, ClosesFor, Named
<1> QED
  BY <1>5 DEF s

\* What only settles names one reason.
LEMMA SettlingNames ==
  ASSUME NEW out, NEW reason, Settling(out, reason)
  PROVE  Named(out, reason)
BY DEF Settling, Named

\* begin_closing with an immediate close.
LEMMA ImmediateNames ==
  ASSUME NEW d, NEW reason \in AllReasons, Formed(d), d.closing \in {None} \cup Closings
  PROVE  /\ ClosesFor(d, BeginClosing(d, reason, Immediate), reason)
         /\ BeginClosing(d, reason, Immediate).closing # None
<1> DEFINE e == BeginClosing(d, reason, Immediate)
<1>1. /\ e.closing # None
      /\ e.closing.reason = IF d.closing = None THEN reason ELSE d.closing.reason
  BY ImmediateEffect
<1> HIDE DEF e
<1>2. ClosesFor(d, e, reason) /\ e.closing # None
  BY <1>1 DEF ClosesFor
<1> QED
  BY <1>2 DEF e

\* shutdown_after_driver_failure closes for its reason, unless the cut batch closed.
LEMMA FailureNames ==
  ASSUME NEW d, NEW R, NEW X, NEW acc, NEW reason \in AllReasons, NEW write,
         Broken(d, R, X, acc),
         write # None => write \in DOMAIN d.core.pending /\ write \notin d.admitted
  PROVE  LET e == ShutdownAfterDriverFailure(d, reason, write)
         IN  ClosesFor(d, e, reason) /\ e.closing # None
<1> DEFINE t == ApplyActionBatch(d, OnShutdown(d.core, reason), FALSE, None)
           u == ApplyActionBatch(d, OnAdmissionFailure(d.core, reason, write), FALSE, None)
           e == ShutdownAfterDriverFailure(d, reason, write)
<1>1. ASSUME NEW s, s.failure = None, Broken(s.d, R, X, acc), ClosesFor(d, s.d, reason),
             e = BeginClosing(s.d, reason, Immediate)
      PROVE  ClosesFor(d, e, reason) /\ e.closing # None
  <2> HIDE DEF e
  <2>1. ClosesFor(s.d, e, reason) /\ e.closing # None
    BY <1>1, ImmediateNames DEF Broken
  <2> QED
    BY <1>1, <2>1, ClosesForTrans
<1>2. CASE write = None
  <2>1. /\ t.failure = None /\ Broken(t.d, R, X, acc)
        /\ Keeps(d, t.d, {reason}) /\ Untouched(d, t.d) /\ t.d.core.closing
    BY ShutdownBatch
  <2>2. e = BeginClosing(t.d, reason, Immediate)
    BY <1>2, <2>1 DEF ShutdownAfterDriverFailure, AfterShutdownBatch
  <2> DEFINE c == OnShutdown(d.core, reason)
             p == Caused(Snapshot(d.core, {}, UnresolvedCommands(d.core)), reason)
  <2>3. /\ Ready(d, c, p, FALSE, None, R, acc) /\ Run(p, d.core.state, c)
        /\ Loose(d, p, X) /\ Settling(c.out, reason) /\ c.closing
    BY OnShutdownReady
  <2>4. t = ApplyActionBatch(d, c, FALSE, None)
    OBVIOUS
  <2> HIDE DEF c, p, t, e
  <2>5. Named(c.out, reason)
    BY <2>3, SettlingNames
  <2>6. ClosesFor(d, ApplyActionBatch(d, c, FALSE, None).d, reason)
    BY <2>3, <2>5, BatchNames
  <2>7. ClosesFor(d, t.d, reason)
    BY <2>4, <2>6
  <2> QED
    BY <1>1, <2>1, <2>2, <2>7 DEF e
<1>3. CASE write # None
  <2>0. write \in DOMAIN d.core.pending /\ write \notin d.admitted
    BY <1>3
  <2>1. /\ u.failure = None /\ Broken(u.d, R, X, acc)
        /\ Keeps(d, u.d, {reason}) /\ Untouched(d, u.d) /\ u.d.core.closing
    BY <2>0, RefusalBatch
  <2>2. e = BeginClosing(u.d, reason, Immediate)
    BY <1>3, <2>1 DEF ShutdownAfterDriverFailure, AfterShutdownBatch
  <2> DEFINE c == OnAdmissionFailure(d.core, reason, write)
             p == Caused(Ending(d.core, write, RefusalError(reason)), reason)
  <2>3. /\ Ready(d, c, p, FALSE, None, R, acc) /\ Run(p, d.core.state, c)
        /\ Loose(d, p, X) /\ Settling(c.out, reason) /\ c.closing
    BY <2>0, OnAdmissionFailureReady
  <2>4. u = ApplyActionBatch(d, c, FALSE, None)
    OBVIOUS
  <2> HIDE DEF c, p, u, e
  <2>5. Named(c.out, reason)
    BY <2>3, SettlingNames
  <2>6. ClosesFor(d, ApplyActionBatch(d, c, FALSE, None).d, reason)
    BY <2>3, <2>5, BatchNames
  <2>7. ClosesFor(d, u.d, reason)
    BY <2>4, <2>6
  <2> QED
    BY <1>1, <2>1, <2>2, <2>7 DEF e
<1> QED
  BY <1>2, <1>3

\* on_shutdown closes for its reason.
LEMMA ShutDownNames ==
  ASSUME NEW d, NEW reason \in AllReasons, NEW R, NEW acc, Sound(d, R, acc)
  PROVE  LET e == ShutDown(d, reason)
         IN  ClosesFor(d, e, reason) /\ e.closing # None
<1> DEFINE c == OnShutdown(d.core, reason)
           p == Caused(Snapshot(d.core, {}, UnresolvedCommands(d.core)), reason)
           s == ApplyActionBatch(d, c, FALSE, None)
           x == BeginClosing(s.d, reason, Immediate)
           e == FinishCloseIfReady(x)
<1>0. Coherent(d, R, {}, acc) /\ Broken(d, R, {}, acc)
  BY CoherentIsBroken DEF Sound
<1>1. /\ Ready(d, c, p, FALSE, None, R, acc) /\ Run(p, d.core.state, c)
      /\ Loose(d, p, {}) /\ Settling(c.out, reason) /\ c.closing
  BY <1>0, OnShutdownReady
<1>2. IInv(c)
  BY <1>0, OnShutdownIInv DEF Coherent
<1>3. Matches(d, p)
  BY DEF Matches, Snapshot, Caused
<1> HIDE DEF p
<1>4. /\ s.failure = None /\ Broken(s.d, R, {}, acc)
      /\ Keeps(d, s.d, {reason}) /\ Untouched(d, s.d) /\ s.d.core.closing = c.closing
  <2> HIDE DEF c
  <2> QED
    BY <1>1, SettlingBatch
<1>5. ShutDown(d, reason) = e
  BY <1>4 DEF ShutDown, ApplyBatch, HandleActionFailure
<1> HIDE DEF c
<1>6. Level(d, p, {})
  BY <1>0, <1>1, <1>2, <1>3, MatchReady DEF Run, Log
<1>7. Coherent(s.d, R, {}, acc)
  BY <1>1, <1>4, <1>6, BatchCoheres
<1>8. Named(c.out, reason)
  BY <1>1, SettlingNames
<1>9. ClosesFor(d, s.d, reason)
  BY <1>1, <1>8, BatchNames
<1> HIDE DEF s
<1>10. Coherent(x, R, {}, acc)
  <2>1. s.d.closed => DOMAIN s.d.completions \subseteq DOMAIN s.d.core.open
    BY <1>7 DEF Coherent
  <2> QED
    BY <1>1, <1>4, <2>1, ImmediateCoheres
<1>11. ClosesFor(s.d, x, reason) /\ x.closing # None
  BY <1>4, ImmediateNames DEF Broken
<1>12. Books(x)
  <2>1. /\ DOMAIN x = DriverFields /\ \A f \in DriverFields \ {"closing"} : x[f] = s.d[f]
    BY <1>4, ImmediateEffect DEF Broken
  <2> HIDE DEF x
  <2>2. Untouched(s.d, x)
    BY <2>1, ImmediateOthers DEF Untouched
  <2> QED
    BY <1>4, <2>2, UntouchedTrans, UntouchedBooks DEF Sound
<1> HIDE DEF x
<1>13. e.closing = x.closing
  BY <1>10, <1>12, FinishSound
<1> HIDE DEF e
<1>14. ClosesFor(d, e, reason) /\ e.closing # None
  BY <1>9, <1>11, <1>13, ClosesForTrans DEF ClosesFor
<1> QED
  BY <1>5, <1>14 DEF e

\* Completing an open command only settles.
LEMMA AnswerSettles ==
  ASSUME NEW c, NEW k, NEW kinds, NEW result, NEW reason, Weak(c), Settling(c.out, reason),
         k \in DOMAIN c.open, c.open[k] \in kinds
  PROVE  /\ Settling(CompleteAs(c, k, kinds, result).out, reason)
         /\ Weak(CompleteAs(c, k, kinds, result))
         /\ CompleteAs(c, k, kinds, result).active = c.active
<1>1. CompleteAs(c, k, kinds, result) = EmitCompletion(c, {k}, result)
  BY DEF CompleteAs
<1>2. Settling(EmitCompletion(c, {k}, result).out, reason)
  BY CompletionSettles DEF Weak
<1> DEFINE r == CompleteAs(c, k, kinds, result)
<1>3. Weak(r) /\ \A f \in Fields \ {"open", "deferred", "pending", "out"} : r[f] = c[f]
  BY EmitOneEffect
<1>4. r.active = c.active
  BY <1>3 DEF Fields
<1> QED
  BY <1>1, <1>2, <1>3, <1>4

\* complete_data_for_deselection only settles.
LEMMA DeselectionSettles ==
  ASSUME NEW c, NEW reason, Weak(c), Settling(c.out, reason)
  PROVE  LET r == CompleteDataForDeselection(c)
         IN  Settling(r.out, reason) /\ Weak(r) /\ r.closing = c.closing
<1> DEFINE d == [c EXCEPT !.data = EmptyFunction]
           ks == {k \in DOMAIN c.open : c.open[k] \in {"Send", "Request"}}
           held == ks \cap UnresolvedCommands(d)
           later == [k \in DOMAIN d.deferred \cup held |->
                       IF k \in DOMAIN d.deferred THEN d.deferred[k] ELSE "SessionDeselected"]
           kept == [d EXCEPT !.deferred = later]
           r == CompleteDataForDeselection(c)
<1>1. r = EmitCompletion(kept, ks \ held, "SessionDeselected")
  BY DEF CompleteDataForDeselection, CompleteOrDefer
<1>2. Weak(r) /\ \A f \in Fields \ {"data", "open", "deferred", "pending", "out"} : r[f] = c[f]
  BY CompleteDataForDeselectionEffect
<1> HIDE DEF r
<1>3. r.closing = c.closing
  BY <1>2 DEF Fields
<1>4. /\ DOMAIN d = Fields /\ DOMAIN d.data = {}
      /\ \A f \in Fields \ {"data"} : d[f] = c[f]
  BY DEF Weak, Shape, Fields, EmptyFunction
<1>5. held \subseteq DOMAIN d.open
  BY <1>4 DEF Fields
<1> HIDE DEF d, ks, held
<1>6. Shape(d)
  BY <1>4 DEF Weak, Shape, Fields
<1>7. DOMAIN later = DOMAIN d.deferred \cup held
  OBVIOUS
<1> HIDE DEF later
<1>8. DOMAIN kept = Fields /\ kept.deferred = later /\ \A f \in Fields \ {"deferred"} : kept[f] = d[f]
  BY <1>6 DEF Shape, Fields
<1> HIDE DEF kept
<1>9. Shape(kept) /\ kept.out = c.out
  BY <1>4, <1>5, <1>6, <1>7, <1>8 DEF Shape, Fields
<1>10. Settling(r.out, reason)
  BY <1>1, <1>9, CompletionSettles
<1> QED
  BY <1>2, <1>3, <1>10 DEF r

\* A pushed action that is no close, or one for the reason.
LEMMA EmitNames ==
  ASSUME NEW c, NEW a, NEW reason, DOMAIN c = Fields, IsBatch(c.out), Named(c.out, reason),
         a.act = "CloseGeneration" => a.reason = reason
  PROVE  LET r == Emit(c, a)
         IN  /\ DOMAIN r = Fields /\ IsBatch(r.out) /\ Named(r.out, reason)
             /\ r.closing = c.closing
<1>1. /\ IsBatch(Emit(c, a).out)
      /\ \E n \in Nat :
           /\ n \notin DOMAIN c.out
           /\ DOMAIN Emit(c, a).out = DOMAIN c.out \cup {n}
           /\ Emit(c, a).out[n] = a
           /\ \A i \in DOMAIN c.out : i \in Nat /\ i < n /\ Emit(c, a).out[i] = c.out[i]
  BY EmitAppends
<1>2. DOMAIN Emit(c, a) = Fields /\ Emit(c, a).closing = c.closing
  BY EmitFields DEF Fields
<1> QED
  BY <1>1, <1>2 DEF Named

\* The tail Separate of a drain closes for the reason of the drain, whatever
\* transaction it ends on the way.
LEMMA SeparateNames ==
  ASSUME NEW c, NEW reason, IInv(c), ~c.closing, c.out = <<>>, c.state = "Selected",
         ~IdentifiersExhausted(c)
  PROVE  LET r == StartSeparate(c, None, reason)
         IN  Named(r.out, reason) /\ r.closing
<1> DEFINE left == [AllocateRequestIdentifiers(c) EXCEPT !.state = "NotSelected",
                                                         !.closing = TRUE]
           nodrain == IF left.drain = None THEN left
                      ELSE CompleteError([left EXCEPT !.drain = None], left.drain,
                                         "TransactionAborted")
           nocontrol == IF nodrain.active = None THEN nodrain
                        ELSE CompleteControlTransaction([nodrain EXCEPT !.active = None],
                                                        nodrain.active, "TransactionAborted")
           nodata == CompleteDataForDeselection(nocontrol)
           written == [nodata EXCEPT !.pending =
                         Put(@, c.nextWrite, PendingWrite("Separate", None, None, None))]
           frame == SendFrame(c.nextWrite, SeparateReq(ControlSession, c.nextSys))
           sent == Emit(written, frame)
           said == Emit(sent, StateChanged("NotSelected"))
           final == [said EXCEPT !.closing = TRUE, !.drain = None,
                                 !.replies = EmptyFunction, !.closeIssued = TRUE]
           close == CloseGeneration(reason, c.nextWrite)
           r == StartSeparate(c, None, reason)
<1>1. r = IF said.closeIssued THEN final ELSE Emit(final, close)
  BY DEF StartSeparate, RequestClose
<1>2. frame.act # "CloseGeneration" /\ StateChanged("NotSelected").act # "CloseGeneration"
  BY DEF SendFrame, StateChanged
<1>3. close.act = "CloseGeneration" /\ close.reason = reason
  BY DEF CloseGeneration
<1> HIDE DEF r, frame, close
<1>4. Weak(left) /\ left.out = <<>> /\ left.active = c.active /\ left.drain = c.drain /\ left.open = c.open
  <2>1. /\ Shape(c) /\ c.nextWrite \in WriteIds /\ c.nextWrite + 1 \in 0..WriteSpace
        /\ \A v \in DOMAIN c.pending : v # c.nextWrite /\ v < c.nextWrite + 1
        /\ c.nextSys + 1 \in 0..SystemBytesSpace
        /\ c.nextWrite < c.nextWrite + 1
    BY FreshWrite, FreshSystemBytes DEF IInv, Weak, IdentifiersExhausted
  <2>2. /\ DOMAIN left = Fields
        /\ \A f \in Fields \ {"nextWrite", "nextSys", "state", "closing"} : left[f] = c[f]
        /\ left.nextWrite = c.nextWrite + 1 /\ left.nextSys = c.nextSys + 1
        /\ left.state = "NotSelected" /\ left.closing /\ left.closing \in BOOLEAN
    BY <2>1 DEF Shape, Fields, AllocateRequestIdentifiers
  <2> HIDE DEF left
  <2>3. Shape(left)
    BY <2>1, <2>2 DEF Shape, Fields
  <2>4. Linked(left) /\ Deferral(left)
    BY <2>1, <2>2 DEF IInv, Weak, Linked, Deferral, UnresolvedCommands, Fields
  <2> QED
    BY <2>2, <2>3, <2>4 DEF Weak, Fields
<1> HIDE DEF left
<1>5. Settling(left.out, reason)
  BY <1>4, EmptyBatch DEF Settling
<1>6. /\ Weak(nodrain) /\ Settling(nodrain.out, reason) /\ nodrain.active = c.active
      /\ c.active # None => nodrain.open = c.open
  <2>1. CASE c.drain = None
    BY <1>4, <1>5, <2>1
  <2>2. CASE c.drain # None
    <3> DEFINE e == [left EXCEPT !.drain = None]
               k == c.drain
    <3>1. DOMAIN e = Fields /\ e.drain = None /\ \A f \in Fields \ {"drain"} : e[f] = left[f]
      BY <1>4 DEF Weak, Shape, Fields
    <3> HIDE DEF e
    <3>2. Shape(e)
      <4>1. Shape(left) BY <1>4 DEF Weak
      <4> QED BY <3>1, <4>1 DEF Shape, Fields
    <3>3. Linked(e) /\ Deferral(e)
      BY <1>4, <3>1 DEF Weak, Linked, Deferral, UnresolvedCommands, Fields
    <3>4. /\ k \in DOMAIN e.open /\ e.open[k] = "Control" /\ c.active = None
      BY <1>4, <2>2, <3>1 DEF IInv, Owners, HeldView, Fields
    <3>5. e.open[k] \in CommandKinds
      BY <3>4 DEF CommandKinds
    <3>6. Weak(e) /\ Settling(e.out, reason)
      BY <1>4, <1>5, <3>1, <3>2, <3>3 DEF Weak, Fields
    <3>7. e.active = c.active
      BY <1>4, <3>1 DEF Fields
    <3>8. nodrain = CompleteAs(e, k, CommandKinds, "TransactionAborted")
      BY <1>4, <2>2 DEF CompleteError, e
    <3> HIDE DEF k
    <3> DEFINE d == CompleteAs(e, k, CommandKinds, "TransactionAborted")
    <3>9. Settling(d.out, reason) /\ Weak(d) /\ d.active = e.active
      BY ONLY <3>4, <3>5, <3>6, AnswerSettles
    <3> HIDE DEF d
    <3> QED
      BY <3>4, <3>7, <3>8, <3>9 DEF d
  <2> QED
    BY <2>1, <2>2
<1> HIDE DEF nodrain
<1>7. Weak(nocontrol) /\ Settling(nocontrol.out, reason)
  <2>1. CASE c.active = None
    BY <1>6, <2>1
  <2>2. CASE c.active # None
    <3> DEFINE e == [nodrain EXCEPT !.active = None]
               k == c.active.command
    <3>1. DOMAIN e = Fields /\ e.active = None /\ \A f \in Fields \ {"active"} : e[f] = nodrain[f]
      BY <1>6 DEF Weak, Shape, Fields
    <3>2. nocontrol = CompleteControlTransaction(e, c.active, "TransactionAborted")
      BY <1>6, <2>2
    <3> HIDE DEF e, nocontrol
    <3>3. Shape(e)
      <4>1. Shape(nodrain) BY <1>6 DEF Weak
      <4> QED BY <3>1, <4>1 DEF Shape, Fields
    <3>4. Linked(e) /\ Deferral(e)
      BY <1>6, <3>1 DEF Weak, Linked, Deferral, UnresolvedCommands, Fields
    <3>5. Weak(e) /\ Settling(e.out, reason)
      BY <1>6, <3>1, <3>3, <3>4 DEF Weak, Fields
    <3>6. CASE k = None
      BY <3>2, <3>5, <3>6 DEF CompleteControlTransaction
    <3>7. CASE k # None
      <4>1. nocontrol = CompleteAs(e, k, {"Control"}, "TransactionAborted")
        BY <3>2, <3>7 DEF CompleteControlTransaction, CompleteControl
      <4>2. k \in DOMAIN e.open /\ e.open[k] \in {"Control"}
        BY <1>6, <2>2, <3>1, <3>7 DEF IInv, Owners, HeldView, Fields
      <4> HIDE DEF k
      <4> QED
        BY <3>5, <4>1, <4>2, AnswerSettles
    <3> QED
      BY <3>6, <3>7
  <2> QED
    BY <2>1, <2>2
<1> HIDE DEF nocontrol
<1>8. Weak(nodata) /\ Settling(nodata.out, reason)
  BY <1>7, DeselectionSettles
<1> HIDE DEF nodata
<1>9. DOMAIN written = Fields /\ IsBatch(written.out) /\ Named(written.out, reason)
  <2>1. DOMAIN written = Fields /\ written.out = nodata.out
    BY <1>8 DEF Weak, Shape, Fields
  <2> HIDE DEF written
  <2> QED
    BY <1>8, <2>1, SettlingNames DEF Settling
<1> HIDE DEF written
<1>10. DOMAIN sent = Fields /\ IsBatch(sent.out) /\ Named(sent.out, reason)
  BY <1>2, <1>9, EmitNames
<1> HIDE DEF sent
<1>11. DOMAIN said = Fields /\ IsBatch(said.out) /\ Named(said.out, reason)
  BY <1>2, <1>10, EmitNames
<1> HIDE DEF said
<1>12. DOMAIN final = Fields /\ final.out = said.out /\ final.closing
  BY <1>11 DEF Fields
<1> HIDE DEF final
<1>13. /\ Named(Emit(final, close).out, reason)
       /\ Emit(final, close).closing = final.closing
  BY <1>3, <1>11, <1>12, EmitNames
<1>14. Named(r.out, reason) /\ r.closing
  BY <1>1, <1>11, <1>12, <1>13
<1> QED
  BY <1>14 DEF r

\* A batch that closes Core closes the generation, for its one reason or, when it is
\* cut, for that same reason if it is insisted on.
LEMMA InsistedNames ==
  ASSUME NEW d, NEW c, NEW p, NEW permit, NEW written, NEW R, NEW acc, NEW state, NEW X,
         NEW reason \in AllReasons,
         Ready(d, c, p, permit, written, R, acc), Run(p, state, c), Level(d, p, X), c.closing
  PROVE  LET e == ApplyBatch(d, c, permit, written, reason)
         IN  /\ e.closing # None
             /\ Named(c.out, reason) => ClosesFor(d, e, reason)
<1> DEFINE s == ApplyActionBatch(d, c, permit, written)
           e == ApplyBatch(d, c, permit, written, reason)
<1>0. reason # None
  BY RuntimeAssumption
<1>1. e = HandleActionFailure(s, reason)
  BY DEF ApplyBatch
<1>2. Named(c.out, reason) => ClosesFor(d, s.d, reason)
  BY BatchNames
<1>3. CASE s.failure = None
  <2>1. Coherent(s.d, R, X, acc)
    BY <1>3, BatchCoheres
  <2>2. Applied(d, c, p, R, acc, s, Len(c.out))
    BY AppliesBatch
  <2>3. e = s.d
    BY <1>1, <1>3 DEF HandleActionFailure
  <2> HIDE DEF s, e
  <2>4. s.d.core = Begin(c)
    BY <2>2 DEF Applied
  <2>5. Begin(c).closing = c.closing
    BY DEF Ready, IInv, Weak, Shape, Fields, Begin
  <2>6. s.d.closing # None
    BY <2>1, <2>4, <2>5 DEF Coherent
  <2> QED
    BY <1>2, <2>3, <2>6 DEF e
<1>4. CASE s.failure # None
  <2>1. Broken(s.d, R, X, acc)
    BY BatchBreaks DEF Level
  <2>2. s.failure.write # None =>
          s.failure.write \in DOMAIN s.d.core.pending /\ s.failure.write \notin s.d.admitted
    BY <1>4, CutBatch
  <2> DEFINE x == s.d
             write == s.failure.write
             f == ShutdownAfterDriverFailure(x, reason, write)
  <2>3. e = f
    BY <1>0, <1>1, <1>4 DEF HandleActionFailure
  <2> HIDE DEF s, e
  <2>4. ClosesFor(x, f, reason) /\ f.closing # None
    BY <2>1, <2>2, FailureNames
  <2> HIDE DEF f
  <2> QED
    BY <1>2, <2>3, <2>4, ClosesForTrans DEF e
<1> QED
  BY <1>3, <1>4

\* finish_shutdown_drain closes Core, and for the reason of the drain as long as there
\* is an identifier for the tail Separate.
LEMMA TailNames ==
  ASSUME NEW b, NEW reason, IInv(b), Traced(b)
  PROVE  LET c == FinishShutdownDrain(b, reason)
         IN  /\ c.closing
             /\ ~IdentifiersExhausted(b) => Named(c.out, reason)
<1> DEFINE c == FinishShutdownDrain(b, reason)
<1>1. CASE b.state # "Selected" \/ b.closing
  <2>1. c = OnShutdown(b, reason)
    BY <1>1 DEF FinishShutdownDrain
  <2>2. OnShutdown(b, reason).closing
    BY BeginIInv, CloseAllIInv DEF OnShutdown, IInv
  <2>3. Named(OnShutdown(b, reason).out, reason)
    BY OnShutdownSettles, SettlingNames
  <2> HIDE DEF c
  <2> QED
    BY <2>1, <2>2, <2>3 DEF c
<1>2. CASE ~(b.state # "Selected" \/ b.closing)
  <2> DEFINE n == Begin(b)
  <2>1. /\ IInv(n) /\ \A f \in Fields \ {"out"} : n[f] = b[f]
        /\ n.out = <<>>
    BY BeginIInv DEF Begin, IInv, Weak, Shape, Fields
  <2>2. c = StartSeparate(n, None, reason)
    BY <1>2 DEF FinishShutdownDrain
  <2> HIDE DEF n, c
  <2>3. /\ n.state = "Selected" /\ ~n.closing
        /\ n.nextWrite = b.nextWrite /\ n.nextSys = b.nextSys
    BY <1>2, <2>1 DEF Fields
  <2>4. IdentifiersExhausted(n) <=> IdentifiersExhausted(b)
    BY <2>3 DEF IdentifiersExhausted
  <2>5. CASE IdentifiersExhausted(b)
    <3>1. c = IF n.nextWrite = WriteSpace THEN CloseAll(n, "RuntimeInvariant")
              ELSE CloseAll(n, "SystemBytesExhausted")
      BY <2>2, <2>3, <2>4, <2>5 DEF StartSeparate, RefuseIdentifiers, FailRuntimeInvariant
    <3>2. CloseAll(n, "RuntimeInvariant").closing /\ CloseAll(n, "SystemBytesExhausted").closing
      BY <2>1, CloseAllIInv DEF IInv
    <3> QED
      BY <2>5, <3>1, <3>2 DEF c
  <2>6. CASE ~IdentifiersExhausted(b)
    <3>1. Named(StartSeparate(n, None, reason).out, reason) /\ StartSeparate(n, None, reason).closing
      BY <2>1, <2>3, <2>4, <2>6, SeparateNames
    <3> QED
      BY <2>2, <3>1 DEF c
  <2> QED
    BY <2>5, <2>6
<1> QED
  BY <1>1, <1>2

\* finish_shutdown_drain closes the generation for the reason of the drain.
LEMMA DrainNames ==
  ASSUME NEW d, NEW reason \in AllReasons, NEW R, NEW acc, Sound(d, R, acc)
  PROVE  LET e == FinishDriverDrain(d, reason)
         IN  /\ e.closing # None
             /\ ~IdentifiersExhausted(d.core) => ClosesFor(d, e, reason)
<1> DEFINE x == [d EXCEPT !.draining = TRUE]
<1>1. /\ DOMAIN x = DriverFields /\ \A f \in DriverFields \ {"draining"} : x[f] = d[f]
      /\ x.draining = TRUE
  BY DEF Sound, Coherent, Formed, DriverFields
<1>2. FinishDriverDrain(d, reason) =
        FinishCloseIfReady(ApplyBatch(x, FinishShutdownDrain(d.core, reason), FALSE, None, reason))
  BY DEF FinishDriverDrain
<1> HIDE DEF x
<1>3. /\ x.core = d.core /\ x.completions = d.completions /\ x.admitted = d.admitted
      /\ x.closing = d.closing /\ x.closed = d.closed /\ x.nextCommand = d.nextCommand
      /\ x.writer = d.writer /\ x.inbound = d.inbound /\ x.queue = d.queue /\ x.bytes = d.bytes
      /\ x.answers = d.answers /\ x.draining = TRUE
  BY <1>1 DEF DriverFields
<1>4. Sound(x, R, acc)
  <2>1. Owner(x, acc)
    BY <1>3, OwnerSame DEF Sound, Coherent
  <2>2. Books(x)
    BY <1>3 DEF Sound, Books
  <2>3. Formed(x)
    BY <1>1, <1>3 DEF Sound, Coherent, Formed
  <2>4. /\ Line(x.writer.queue, R, x.admitted, x.writer.live) /\ Worker(x.writer)
        /\ IsBatch(x.inbound) /\ Len(x.inbound) <= InboundCapacity
    BY <1>3 DEF Sound, Coherent
  <2> QED
    BY <1>3, <2>1, <2>2, <2>3, <2>4, SoundTransfer
<1> DEFINE c == FinishShutdownDrain(x.core, reason)
           p == Caused(Snapshot(x.core, {}, UnresolvedCommands(x.core)), reason)
<1>5. Coherent(x, R, {}, acc) /\ IInv(x.core) /\ Traced(x.core)
  BY <1>4 DEF Sound, Coherent
<1>6. IInv(c) /\ Run(p, x.core.state, c)
  BY <1>5, FinishShutdownDrainIInv, RunOnShutdown
<1>7. c.closing /\ (~IdentifiersExhausted(x.core) => Named(c.out, reason))
  BY <1>5, TailNames
<1>8. Matches(x, p) /\ p.cause = reason
  BY DEF Matches, Snapshot, Caused
<1> HIDE DEF c, p
<1>9. PICK none : none = None
  OBVIOUS
<1> DEFINE y == ApplyBatch(x, c, FALSE, none, reason)
           e == FinishCloseIfReady(y)
<1>10. FinishDriverDrain(d, reason) = e
  BY <1>2, <1>3, <1>9 DEF c
<1>11. Ready(x, c, p, FALSE, none, R, acc) /\ Level(x, p, {})
  BY <1>5, <1>6, <1>8, MatchReady DEF Run, Log
<1>12. /\ y.closing # None
       /\ Named(c.out, reason) => ClosesFor(x, y, reason)
  BY <1>6, <1>7, <1>11, InsistedNames
<1>13. Coherent(y, R, {}, acc) /\ Books(y)
  <2> DEFINE W == CoreReasons \cup {reason}
  <2>1. Reasoned(c, W) /\ Allows(reason, W)
    BY <1>6, <1>8, RunReasons, RuntimeAssumption DEF Allows
  <2> HIDE DEF W
  <2>2. Coherent(y, R, {}, acc) /\ Keeps(x, y, W) /\ Untouched(x, y)
    BY <1>6, <1>11, <2>1, BatchApplied
  <2> HIDE DEF y
  <2>3. Books(y)
    BY <1>4, <2>2, UntouchedBooks DEF Sound
  <2> QED
    BY <2>2, <2>3
<1> HIDE DEF y
<1>14. e.closing = y.closing
  BY <1>13, FinishSound
<1> HIDE DEF e
<1>15. /\ e.closing # None
       /\ ~IdentifiersExhausted(d.core) => ClosesFor(d, e, reason)
  BY <1>3, <1>7, <1>12, <1>14 DEF ClosesFor
<1> QED
  BY <1>10, <1>15

\* A Timer round that only ends a drain closes for its cause.
LEMMA TimerNames ==
  ASSUME GenerationInv, NEW drained \in BOOLEAN, NEW expired \in BOOLEAN,
         TimerRound(NothingDue, drained, expired), driver.closing = None
  PROVE  /\ driver'.closing # None
         /\ driver'.closing.reason = shutdown.reason \/ IdentifiersExhausted(driver.core)
<1> DEFINE d == ProcessDueDeadlines(driver, NothingDue)
<1>1. driver' = AdvanceShutdown(d, drained, expired)
      /\ shutdown # None /\ (expired \/ (drained /\ ~shutdown.finalizing))
  BY DEF TimerRound
<1>2. d = driver
  BY DEF ProcessDueDeadlines
<1> HIDE DEF d
<1>3. /\ Sound(driver, driver.writer.reports, Ledger(accepted, {}))
      /\ shutdown.reason \in AllReasons
  BY <1>1, RestedSound DEF GenerationInv, Rested, Shapes, Drains, AllReasons
<1>4. CASE expired
  <2> DEFINE e == ShutDown(driver, shutdown.reason)
  <2>1. driver' = e
    BY <1>1, <1>2, <1>4 DEF AdvanceShutdown
  <2>2. ClosesFor(driver, e, shutdown.reason) /\ e.closing # None
    BY <1>3, ShutDownNames
  <2> HIDE DEF e
  <2> QED
    BY <2>1, <2>2 DEF ClosesFor
<1>5. CASE ~expired
  <2> DEFINE e == FinishDriverDrain(driver, shutdown.reason)
  <2>1. driver' = e
    BY <1>1, <1>2, <1>5 DEF AdvanceShutdown
  <2>2. /\ e.closing # None
        /\ ~IdentifiersExhausted(driver.core) => ClosesFor(driver, e, shutdown.reason)
    BY <1>3, DrainNames
  <2> HIDE DEF e
  <2> QED
    BY <2>1, <2>2 DEF ClosesFor
<1> QED
  BY <1>4, <1>5

\* What a generation is closed for is decided once: the first reason is kept whatever
\* fails later (begin_closing), and a drain whose tail Separate the Writer refuses or
\* whose deadline passes closes for the cause of the drain (finish_shutdown_drain).
THEOREM CloseReasonIsKept == Spec => CloseKeepsItsCause
<1> DEFINE CauseKept == \A drained, expired \in BOOLEAN :
                       TimerRound(NothingDue, drained, expired) /\ driver.closing = None =>
                         driver'.closing # None
                         /\ (driver'.closing.reason = shutdown.reason
                             \/ IdentifiersExhausted(driver.core))
<1>1. GenerationInv /\ [Next]_vars => [CauseKept]_vars
  BY TimerNames
<1>2. DrainKeepsItsCause <=> [][CauseKept]_vars
  BY DEF DrainKeepsItsCause
<1> HIDE DEF CauseKept
<1>3. Spec => DrainKeepsItsCause
  BY <1>1, <1>2, GenerationInvariant, PTL DEF Spec
<1> QED
  BY <1>3, FirstReasonIsKept, PTL DEF CloseKeepsItsCause

-----------------------------------------------------------------------------
(* Reply authority.  A capability's token is offered with its Primary, held*)
(* by the application, queued with a reply, or in the hands of the round.  *)

\* The places of a token.
Offered(d, r) == {i \in DOMAIN d.inbound : d.inbound[i].capability = r}
Carried(d, r) == {t \in d.held : t.capability = r}
Enqueued(d, r) == {i \in DOMAIN d.queue : IsReply(d.queue[i]) /\ d.queue[i].token.capability = r}

Placed(d, r) == Offered(d, r) # {} \/ Carried(d, r) # {} \/ Enqueued(d, r) # {}

Single(S) == \A x, y \in S : x = y

\* There is at most one.
Sole(d, r) ==
  /\ Single(Offered(d, r)) /\ Single(Carried(d, r)) /\ Single(Enqueued(d, r))
  /\ Offered(d, r) = {} \/ Carried(d, r) = {}
  /\ Offered(d, r) = {} \/ Enqueued(d, r) = {}
  /\ Carried(d, r) = {} \/ Enqueued(d, r) = {}

\* Tokens stand for capabilities Core has granted, and while the generation is open a
\* live contract has one; those of X are in the hands of the round.
Entrusted(d, X) ==
  \A r \in ReplyIds :
    /\ Sole(d, r)
    /\ Placed(d, r) \/ r \in X => r < d.core.nextReply
    /\ r \in X => ~Placed(d, r)
    /\ d.closing = None /\ r \in DOMAIN d.core.replies => r \in X \/ Placed(d, r)

\* What is live in e was live in d, and is in the same hands.
Inherits(d, e, X, Y, r) ==
  e.closing = None /\ r \in DOMAIN e.core.replies =>
    d.closing = None /\ r \in DOMAIN d.core.replies /\ (r \in X => r \in Y)

\* Capabilities are counted.
Counted(d) == d.core.nextReply \in Nat

\* No token moves.
LEMMA TrustRests ==
  ASSUME NEW d, NEW e, NEW X, NEW Y, Entrusted(d, X), Y \subseteq X,
         e.inbound = d.inbound, e.held = d.held, e.queue = d.queue,
         Counted(d), Counted(e), d.core.nextReply <= e.core.nextReply,
         \A r \in ReplyIds : Inherits(d, e, X, Y, r)
  PROVE  Entrusted(e, Y)
<1> SUFFICES ASSUME NEW r \in ReplyIds
             PROVE  /\ Sole(e, r)
                    /\ Placed(e, r) \/ r \in Y => r < e.core.nextReply
                    /\ r \in Y => ~Placed(e, r)
                    /\ e.closing = None /\ r \in DOMAIN e.core.replies => r \in Y \/ Placed(e, r)
  BY DEF Entrusted
<1>1. /\ Sole(d, r)
      /\ Placed(d, r) \/ r \in X => r < d.core.nextReply
      /\ r \in X => ~Placed(d, r)
      /\ d.closing = None /\ r \in DOMAIN d.core.replies => r \in X \/ Placed(d, r)
  BY DEF Entrusted
<1>2. Offered(e, r) = Offered(d, r) /\ Carried(e, r) = Carried(d, r) /\ Enqueued(e, r) = Enqueued(d, r)
  BY DEF Offered, Carried, Enqueued
<1>3. (Placed(e, r) <=> Placed(d, r)) /\ (Sole(e, r) <=> Sole(d, r))
  BY <1>2 DEF Placed, Sole
<1>4. r < d.core.nextReply => r < e.core.nextReply
  BY SpaceAssumption DEF Counted, ReplyIds
<1> QED
  BY <1>1, <1>3, <1>4 DEF Inherits

\* A Primary is offered; the capability it may carry is the next one.
LEMMA TrustDelivers ==
  ASSUME NEW d, NEW e, NEW X, NEW Y, NEW t, Entrusted(d, X), Y \subseteq X,
         IsBatch(d.inbound), e.inbound = Append(d.inbound, t),
         e.held = d.held, e.queue = d.queue,
         Counted(d), Counted(e), d.core.nextReply <= e.core.nextReply,
         t.capability \in ReplyIds =>
           t.capability = d.core.nextReply /\ d.core.nextReply < e.core.nextReply,
         \A r \in ReplyIds : r = t.capability \/ Inherits(d, e, X, Y, r)
  PROVE  Entrusted(e, Y)
<1> SUFFICES ASSUME NEW r \in ReplyIds
             PROVE  /\ Sole(e, r)
                    /\ Placed(e, r) \/ r \in Y => r < e.core.nextReply
                    /\ r \in Y => ~Placed(e, r)
                    /\ e.closing = None /\ r \in DOMAIN e.core.replies => r \in Y \/ Placed(e, r)
  BY DEF Entrusted
<1>1. /\ Sole(d, r)
      /\ Placed(d, r) \/ r \in X => r < d.core.nextReply
      /\ r \in X => ~Placed(d, r)
      /\ d.closing = None /\ r \in DOMAIN d.core.replies => r \in X \/ Placed(d, r)
  BY DEF Entrusted
<1>2. Carried(e, r) = Carried(d, r) /\ Enqueued(e, r) = Enqueued(d, r)
  BY DEF Carried, Enqueued
<1>3. Offered(e, r) = Offered(d, r) \cup (IF t.capability = r THEN {Len(d.inbound) + 1} ELSE {})
  BY AppendedBatch DEF Offered
<1>4. r < d.core.nextReply => r < e.core.nextReply
  BY SpaceAssumption DEF Counted, ReplyIds
<1>5. CASE t.capability # r
  <2>1. Offered(e, r) = Offered(d, r)
    BY <1>3, <1>5
  <2>2. (Placed(e, r) <=> Placed(d, r)) /\ (Sole(e, r) <=> Sole(d, r))
    BY <1>2, <2>1 DEF Placed, Sole
  <2> QED
    BY <1>1, <1>4, <1>5, <2>2 DEF Inherits
<1>6. CASE t.capability = r
  <2>1. r = d.core.nextReply /\ r < e.core.nextReply
    BY <1>6
  <2>2. ~(r < d.core.nextReply)
    BY <2>1 DEF Counted
  <2>3. ~Placed(d, r) /\ r \notin Y
    BY <1>1, <2>2
  <2>4. Offered(d, r) = {} /\ Carried(d, r) = {} /\ Enqueued(d, r) = {}
    BY <2>3 DEF Placed
  <2>5. Offered(e, r) = {Len(d.inbound) + 1} /\ Carried(e, r) = {} /\ Enqueued(e, r) = {}
    BY <1>2, <1>3, <1>6, <2>4
  <2>6. Sole(e, r) /\ Placed(e, r)
    BY <2>5 DEF Sole, Placed, Single
  <2> QED
    BY <2>1, <2>3, <2>6
<1> QED
  BY <1>5, <1>6

\* The capability in the token of a reply.
InHand(x) == IF IsReply(x) THEN {x.token.capability} ELSE {}

\* The head of the queue is taken: its token is in the hands of the round.
LEMMA TrustTakes ==
  ASSUME NEW d, NEW e, Entrusted(d, {}), IsBatch(d.queue), d.queue # <<>>,
         e.inbound = d.inbound, e.held = d.held, e.queue = Tail(d.queue),
         e.closing = d.closing, e.core = d.core
  PROVE  Entrusted(e, InHand(Head(d.queue)))
<1> DEFINE h == Head(d.queue)
<1> SUFFICES ASSUME NEW r \in ReplyIds
             PROVE  /\ Sole(e, r)
                    /\ Placed(e, r) \/ r \in InHand(h) => r < e.core.nextReply
                    /\ r \in InHand(h) => ~Placed(e, r)
                    /\ e.closing = None /\ r \in DOMAIN e.core.replies =>
                         r \in InHand(h) \/ Placed(e, r)
  BY DEF Entrusted
<1>1. /\ Sole(d, r)
      /\ Placed(d, r) => r < d.core.nextReply
      /\ d.closing = None /\ r \in DOMAIN d.core.replies => Placed(d, r)
  BY DEF Entrusted
<1>2. Offered(e, r) = Offered(d, r) /\ Carried(e, r) = Carried(d, r)
  BY DEF Offered, Carried
<1>3. /\ 1 \in DOMAIN d.queue /\ h = d.queue[1]
      /\ \A i \in DOMAIN e.queue : i \in Nat /\ i + 1 \in DOMAIN d.queue /\ e.queue[i] = d.queue[i + 1]
      /\ \A i \in DOMAIN d.queue : i # 1 => i - 1 \in DOMAIN e.queue
  BY RestOfBatch
<1>a. DOMAIN e.queue \subseteq Nat \ {0} /\ DOMAIN d.queue \subseteq Nat
  BY BatchShape, RestOfBatch
<1> HIDE DEF h
<1>4. r \in InHand(h) <=> 1 \in Enqueued(d, r)
  BY <1>3 DEF InHand, Enqueued
<1>5. \A i \in Enqueued(e, r) : i \in Nat \ {0} /\ i + 1 \in Enqueued(d, r)
  BY <1>3, <1>a DEF Enqueued
<1>6. \A i \in Enqueued(d, r) : i \in Nat /\ (i # 1 => i - 1 \in Enqueued(e, r))
  <2> SUFFICES ASSUME NEW i \in Enqueued(d, r), i # 1
               PROVE  i - 1 \in Enqueued(e, r)
    BY <1>a DEF Enqueued
  <2>1. i \in DOMAIN d.queue /\ i \in Nat /\ IsReply(d.queue[i]) /\ d.queue[i].token.capability = r
    BY <1>a DEF Enqueued
  <2>2. i - 1 \in DOMAIN e.queue /\ e.queue[i - 1] = d.queue[(i - 1) + 1] /\ (i - 1) + 1 = i
    BY <1>3, <2>1
  <2> QED
    BY <2>1, <2>2 DEF Enqueued
<1>7. Single(Enqueued(e, r))
  <2> SUFFICES ASSUME NEW i \in Enqueued(e, r), NEW j \in Enqueued(e, r) PROVE i = j
    BY DEF Single
  <2>1. i \in Nat /\ j \in Nat /\ i + 1 \in Enqueued(d, r) /\ j + 1 \in Enqueued(d, r)
    BY <1>5
  <2>2. i + 1 = j + 1
    BY <1>1, <2>1 DEF Sole, Single
  <2> QED
    BY <2>1, <2>2
<1>8. Enqueued(d, r) = {} => Enqueued(e, r) = {}
  BY <1>5
<1>9. Sole(e, r)
  BY <1>1, <1>2, <1>7, <1>8 DEF Sole
<1>10. Placed(e, r) => Placed(d, r)
  BY <1>2, <1>8 DEF Placed
<1>11. r \in InHand(h) => Placed(d, r) /\ ~Placed(e, r)
  <2> SUFFICES ASSUME r \in InHand(h) PROVE Placed(d, r) /\ ~Placed(e, r)
    OBVIOUS
  <2>1. 1 \in Enqueued(d, r)
    BY <1>4
  <2>2. \A i \in Enqueued(d, r) : i = 1
    BY <1>1, <2>1 DEF Sole, Single
  <2>3. Enqueued(e, r) = {}
    <3> SUFFICES ASSUME NEW i \in Enqueued(e, r) PROVE FALSE
      OBVIOUS
    <3>1. i \in Nat \ {0} /\ i + 1 = 1
      BY <1>5, <2>2
    <3> QED
      BY <3>1
  <2>4. Offered(d, r) = {} /\ Carried(d, r) = {}
    BY <1>1, <2>1 DEF Sole
  <2> QED
    BY <1>2, <2>1, <2>3, <2>4 DEF Placed
<1>12. Placed(d, r) => Placed(e, r) \/ r \in InHand(h)
  <2>1. Enqueued(d, r) # {} => Enqueued(e, r) # {} \/ 1 \in Enqueued(d, r)
    BY <1>6
  <2> QED
    BY <1>2, <1>4, <2>1 DEF Placed
<1> QED
  BY <1>1, <1>9, <1>10, <1>11, <1>12

\* The token of a refused reply goes back to the application.
LEMMA TrustReturns ==
  ASSUME NEW d, NEW e, NEW x, Entrusted(d, InHand(x)),
         e.inbound = d.inbound, e.queue = d.queue,
         e.held = IF IsReply(x) THEN d.held \cup {x.token} ELSE d.held,
         e.closing = d.closing, e.core = d.core
  PROVE  Entrusted(e, {})
<1> SUFFICES ASSUME NEW r \in ReplyIds
             PROVE  /\ Sole(e, r)
                    /\ Placed(e, r) => r < e.core.nextReply
                    /\ e.closing = None /\ r \in DOMAIN e.core.replies => Placed(e, r)
  BY DEF Entrusted
<1>1. /\ Sole(d, r)
      /\ Placed(d, r) \/ r \in InHand(x) => r < d.core.nextReply
      /\ r \in InHand(x) => ~Placed(d, r)
      /\ d.closing = None /\ r \in DOMAIN d.core.replies => r \in InHand(x) \/ Placed(d, r)
  BY DEF Entrusted
<1>2. Offered(e, r) = Offered(d, r) /\ Enqueued(e, r) = Enqueued(d, r)
  BY DEF Offered, Enqueued
<1>3. CASE r \in InHand(x)
  <2>1. Offered(d, r) = {} /\ Carried(d, r) = {} /\ Enqueued(d, r) = {}
    BY <1>1, <1>3 DEF Placed
  <2>2. Carried(e, r) = {x.token}
    BY <1>3, <2>1 DEF Carried, InHand
  <2>3. Sole(e, r) /\ Placed(e, r)
    BY <1>2, <2>1, <2>2 DEF Sole, Placed, Single
  <2> QED
    BY <1>1, <1>3, <2>3
<1>4. CASE r \notin InHand(x)
  <2>1. Carried(e, r) = Carried(d, r)
    BY <1>4 DEF Carried, InHand
  <2>2. (Placed(e, r) <=> Placed(d, r)) /\ (Sole(e, r) <=> Sole(d, r))
    BY <1>2, <2>1 DEF Placed, Sole
  <2> QED
    BY <1>1, <1>4, <2>2
<1> QED
  BY <1>3, <1>4

\* An action that is applied leaves the tokens alone, unless it delivers a Primary.
OffersOnly(s, t) ==
  /\ DOMAIN t = BatchFields /\ DOMAIN t.d = DriverFields
  /\ t.d.held = s.d.held /\ t.d.queue = s.d.queue
  /\ s.failure # None => t.failure # None

\* What is not a delivery.
LEMMA ActionRests ==
  ASSUME NEW s, NEW a, NEW written, DOMAIN s = BatchFields, DOMAIN s.d = DriverFields,
         a.act # "DeliverPrimary" \/ s.failure # None
  PROVE  LET t == ApplyAction(s, a, written)
         IN  OffersOnly(s, t) /\ t.d.inbound = s.d.inbound
<1> DEFINE t == ApplyAction(s, a, written)
<1>1. CASE s.failure # None \/ a.act \notin {"DeliverPrimary", "SendFrame", "CompleteCommand",
                                             "CloseGeneration"}
  <2>1. t = s
    BY <1>1 DEF ApplyAction
  <2> QED
    BY <2>1 DEF OffersOnly
<1>2. CASE s.failure = None /\ a.act = "SendFrame"
  <2>1. t = AdmitFrame(s, a)
    BY <1>2 DEF ApplyAction
  <2>2. /\ DOMAIN AdmitFrame(s, a) = BatchFields /\ DOMAIN AdmitFrame(s, a).d = DriverFields
        /\ AdmitFrame(s, a).d.held = s.d.held /\ AdmitFrame(s, a).d.queue = s.d.queue
        /\ AdmitFrame(s, a).d.inbound = s.d.inbound
    BY DEF AdmitFrame, Failed, BatchFields, DriverFields
  <2> QED
    BY <1>2, <2>1, <2>2 DEF OffersOnly
<1>3. CASE s.failure = None /\ a.act = "CompleteCommand"
  <2>1. t = Complete(s, a, written)
    BY <1>3 DEF ApplyAction
  <2>2. /\ DOMAIN Complete(s, a, written) = BatchFields
        /\ DOMAIN Complete(s, a, written).d = DriverFields
        /\ Complete(s, a, written).d.held = s.d.held /\ Complete(s, a, written).d.queue = s.d.queue
        /\ Complete(s, a, written).d.inbound = s.d.inbound
    BY DEF Complete, Answer, Failed, BatchFields, DriverFields
  <2> QED
    BY <1>3, <2>1, <2>2 DEF OffersOnly
<1>4. CASE s.failure = None /\ a.act = "CloseGeneration"
  <2>1. t = [s EXCEPT !.d = BeginClosing(@, a.reason, a.barrier)]
    BY <1>4 DEF ApplyAction
  <2> DEFINE x == BeginClosing(s.d, a.reason, a.barrier)
  <2>2. /\ DOMAIN x = DriverFields /\ x.held = s.d.held /\ x.queue = s.d.queue
        /\ x.inbound = s.d.inbound
    BY DEF BeginClosing, DriverFields
  <2> HIDE DEF x
  <2>3. t = [s EXCEPT !.d = x]
    BY <2>1 DEF x
  <2>4. DOMAIN t = BatchFields /\ t.d = x
    BY <2>3 DEF BatchFields
  <2> QED
    BY <1>4, <2>2, <2>4 DEF OffersOnly
<1> QED
  BY <1>1, <1>2, <1>3, <1>4

\* A delivery is refused or offers a token.
LEMMA ActionOffers ==
  ASSUME NEW s, NEW a, NEW written, DOMAIN s = BatchFields, DOMAIN s.d = DriverFields,
         a.act = "DeliverPrimary", s.failure = None
  PROVE  LET t == ApplyAction(s, a, written)
         IN  /\ OffersOnly(s, t)
             /\ \/ t.failure # None /\ t.d.inbound = s.d.inbound
                \/ t.failure = None /\ t.d.inbound = Append(s.d.inbound, Token(a))
<1> DEFINE t == ApplyAction(s, a, written)
<1>1. t = IF InboundFull(s.d) THEN Failed(s, "ApplicationBackpressure", None)
          ELSE [s EXCEPT !.d.inbound = Append(@, Token(a))]
  BY DEF ApplyAction
<1>2. CASE InboundFull(s.d)
  <2>1. t = Failed(s, "ApplicationBackpressure", None)
    BY <1>1, <1>2
  <2>2. t.failure = [reason |-> "ApplicationBackpressure", write |-> None]
    BY <2>1 DEF Failed, BatchFields
  <2>3. t.failure # None
    <3>1. t.failure \in Failures
      BY <2>2 DEF Failures, AllReasons, GenerationReasons
    <3> QED
      BY <3>1, RuntimeAssumption
  <2>4. DOMAIN t = BatchFields /\ t.d = s.d
    BY <2>1 DEF Failed, BatchFields
  <2> QED
    BY <2>3, <2>4 DEF OffersOnly
<1>3. CASE ~InboundFull(s.d)
  <2>1. t = [s EXCEPT !.d.inbound = Append(@, Token(a))]
    BY <1>1, <1>3
  <2> QED
    BY <2>1 DEF OffersOnly, BatchFields, DriverFields
<1> QED
  BY <1>2, <1>3

\* A batch under way offers at most the token of its one Primary.
OfferedAt(d, c, s, i) ==
  /\ DOMAIN s = BatchFields /\ DOMAIN s.d = DriverFields
  /\ s.d.held = d.held /\ s.d.queue = d.queue
  /\ \/ /\ s.d.inbound = d.inbound
        /\ s.failure = None => \A j \in 1..i : c.out[j].act # "DeliverPrimary"
     \/ \E j \in 1..i : c.out[j].act = "DeliverPrimary"
                        /\ s.d.inbound = Append(d.inbound, Token(c.out[j]))

\* A batch delivers at most one Primary.
Delivers(c) ==
  \A i, j \in DOMAIN c.out :
    c.out[i].act = "DeliverPrimary" /\ c.out[j].act = "DeliverPrimary" => i = j

\* One action more.
LEMMA OffersNext ==
  ASSUME NEW d, NEW c, NEW s, NEW written, NEW i \in Nat, IsBatch(c.out), i < Len(c.out),
         Delivers(c), OfferedAt(d, c, s, i)
  PROVE  OfferedAt(d, c, ApplyAction(s, c.out[i + 1], written), i + 1)
<1> DEFINE n == i + 1
           a == c.out[n]
           t == ApplyAction(s, a, written)
<1>1. n \in DOMAIN c.out /\ n \in 1..n /\ \A j \in 1..i : j \in DOMAIN c.out /\ j # n /\ j \in 1..n
  BY BatchShape
<1>2. \A j \in 1..n : j \in 1..i \/ j = n
  OBVIOUS
<1>3. DOMAIN s = BatchFields /\ DOMAIN s.d = DriverFields /\ s.d.held = d.held /\ s.d.queue = d.queue
  BY DEF OfferedAt
<1> HIDE DEF n
<1>4. CASE a.act # "DeliverPrimary" \/ s.failure # None
  <2>1. OffersOnly(s, t) /\ t.d.inbound = s.d.inbound
    BY <1>3, <1>4, ActionRests
  <2> HIDE DEF t
  <2>2. CASE /\ s.d.inbound = d.inbound
             /\ s.failure = None => \A j \in 1..i : c.out[j].act # "DeliverPrimary"
    <3>1. t.failure = None => \A j \in 1..n : c.out[j].act # "DeliverPrimary"
      BY <1>2, <1>4, <2>1, <2>2 DEF OffersOnly
    <3> QED
      BY <1>3, <2>1, <2>2, <3>1 DEF OffersOnly, OfferedAt, t, n
  <2>3. CASE \E j \in 1..i : c.out[j].act = "DeliverPrimary"
                             /\ s.d.inbound = Append(d.inbound, Token(c.out[j]))
    <3>1. \E j \in 1..n : c.out[j].act = "DeliverPrimary"
                          /\ t.d.inbound = Append(d.inbound, Token(c.out[j]))
      BY <1>1, <2>1, <2>3
    <3> QED
      BY <1>3, <2>1, <3>1 DEF OffersOnly, OfferedAt, t, n
  <2> QED
    BY <2>2, <2>3 DEF OfferedAt
<1>5. CASE a.act = "DeliverPrimary" /\ s.failure = None
  <2>1. /\ OffersOnly(s, t)
        /\ \/ t.failure # None /\ t.d.inbound = s.d.inbound
           \/ t.failure = None /\ t.d.inbound = Append(s.d.inbound, Token(a))
    BY <1>3, <1>5, ActionOffers
  <2> HIDE DEF t
  <2>2. s.d.inbound = d.inbound
    BY <1>1, <1>5 DEF OfferedAt, Delivers
  <2> QED
    BY <1>1, <1>3, <1>5, <2>1, <2>2 DEF OffersOnly, OfferedAt, t, n
<1> QED
  BY <1>4, <1>5

\* The whole batch, or what precedes the cut.
LEMMA BatchOffers ==
  ASSUME NEW d, NEW c, NEW permit, NEW written, DOMAIN d = DriverFields, IsBatch(c.out),
         Delivers(c)
  PROVE  OfferedAt(d, c, ApplyActionBatch(d, c, permit, written), Len(c.out))
<1> DEFINE n == Len(c.out)
<1>1. n \in Nat
  BY BatchShape
<1>2. PICK f : /\ f[0] = BatchStart(d, c, permit)
               /\ \A i \in 1..n : f[i] = ApplyAction(f[i - 1], c.out[i], written)
               /\ ApplyActionBatch(d, c, permit, written) = f[n]
  BY <1>1, BatchTrace
<1> DEFINE S == {i \in 0..n : OfferedAt(d, c, f[i], i)}
<1>3. 0 \in S
  <2> DEFINE s == BatchStart(d, c, permit)
  <2>1. /\ DOMAIN s = BatchFields /\ DOMAIN s.d = DriverFields
        /\ s.d.held = d.held /\ s.d.queue = d.queue /\ s.d.inbound = d.inbound
    BY DEF BatchStart, BatchFields, DriverFields
  <2> HIDE DEF s
  <2>2. 1..0 = {}
    OBVIOUS
  <2>3. OfferedAt(d, c, s, 0)
    BY <2>1, <2>2 DEF OfferedAt
  <2> QED
    BY <1>1, <1>2, <2>3 DEF s
<1>4. ASSUME NEW i \in 0..(n - 1), i \in S PROVE i + 1 \in S
  <2>1. i \in Nat /\ i < n /\ i + 1 \in 1..n /\ (i + 1) - 1 = i
    BY <1>1
  <2>2. OfferedAt(d, c, ApplyAction(f[i], c.out[i + 1], written), i + 1)
    BY <1>4, <2>1, OffersNext
  <2>3. f[i + 1] = ApplyAction(f[i], c.out[i + 1], written)
    BY <1>2, <2>1
  <2> QED
    BY <2>1, <2>2, <2>3
<1>5. n \in S
  <2> HIDE DEF S, n
  <2>1. \A i \in 0..(n - 1) : i \in S => i + 1 \in S
    BY <1>4
  <2>2. \A i \in 0..n : i \in S
    BY <1>1, <1>3, <2>1, BoundedInduction
  <2> QED
    BY <1>1, <2>2
<1> QED
  BY <1>2, <1>5

\* Applying a batch keeps the tokens in order: it offers a capability with its Primary,
\* and a batch that is cut before it does closes.
LEMMA BatchTrusts ==
  ASSUME NEW d, NEW c, NEW p, NEW permit, NEW written, NEW R, NEW acc, NEW state,
         NEW X, NEW Y, NEW s, NEW e,
         Ready(d, c, p, permit, written, R, acc), Run(p, state, c), IInv(d.core),
         p.nextReply = d.core.nextReply, p.replies = DOMAIN d.core.replies,
         Entrusted(d, X), Y \subseteq X, \A r \in DOMAIN c.replies : r \in X => r \in Y,
         s = ApplyActionBatch(d, c, permit, written),
         e.inbound = s.d.inbound, e.held = s.d.held, e.queue = s.d.queue,
         Counted(e), s.d.core.nextReply <= e.core.nextReply,
         e.closing = None => s.failure = None /\ s.d.closing = None /\ e.core = s.d.core
  PROVE  Entrusted(e, Y)
<1>1. Applied(d, c, p, R, acc, s, Len(c.out))
  BY AppliesBatch
<1>2. s.d.core.nextReply = c.nextReply /\ s.d.core.replies = c.replies
  BY <1>1, BeginIInv DEF Applied, Ready, Fields
<1>3. /\ d.core.nextReply \in Nat /\ c.nextReply \in Nat /\ e.core.nextReply \in Nat
      /\ DOMAIN c.replies \subseteq ReplyIds
  BY SpaceAssumption DEF Counted, Ready, IInv, Weak, Shape
<1>4. Granted(p, c) /\ IsBatch(c.out) /\ DOMAIN d = DriverFields /\ IsBatch(d.inbound)
  BY DEF Ready, Run, Posted, Log, Formed
<1>5. Delivers(c)
  BY <1>4 DEF Granted, Delivers
<1>6. OfferedAt(d, c, s, Len(c.out))
  BY <1>4, <1>5, BatchOffers
<1>7. 1..Len(c.out) = DOMAIN c.out
  BY <1>4, BatchShape
<1>8. d.core.nextReply <= e.core.nextReply /\ Counted(d)
  BY <1>2, <1>3, <1>4 DEF Granted, Counted
<1>9. e.held = d.held /\ e.queue = d.queue
  BY <1>6 DEF OfferedAt
<1>10. ASSUME NEW r \in ReplyIds, e.closing = None, r \in DOMAIN e.core.replies
       PROVE  /\ d.closing = None /\ s.failure = None /\ r \in DOMAIN c.replies
              /\ r \in X => r \in Y
              /\ r \notin DOMAIN d.core.replies =>
                   \E i \in DOMAIN c.out : c.out[i].act = "DeliverPrimary" /\ c.out[i].capability = r
  <2>1. s.failure = None /\ s.d.closing = None /\ r \in DOMAIN c.replies
    BY <1>2, <1>10
  <2>2. d.closing = None
    BY <1>1, <2>1 DEF Applied, ClosingAt
  <2> QED
    BY <1>4, <2>1, <2>2 DEF Granted
<1>11. CASE /\ s.d.inbound = d.inbound
            /\ s.failure = None => \A j \in 1..Len(c.out) : c.out[j].act # "DeliverPrimary"
  <2>1. \A r \in ReplyIds : Inherits(d, e, X, Y, r)
    BY <1>7, <1>10, <1>11 DEF Inherits
  <2> QED
    BY <1>8, <1>9, <1>11, <2>1, TrustRests
<1>12. ASSUME NEW j \in DOMAIN c.out, c.out[j].act = "DeliverPrimary",
              s.d.inbound = Append(d.inbound, Token(c.out[j]))
       PROVE  Entrusted(e, Y)
  <2> DEFINE t == Token(c.out[j])
  <2>1. t.capability = c.out[j].capability
    BY DEF Token
  <2> HIDE DEF t
  <2>2. ASSUME t.capability \in ReplyIds
        PROVE  t.capability = d.core.nextReply /\ d.core.nextReply < e.core.nextReply
    <3>1. c.out[j].capability # None
      BY <2>1, <2>2, SpaceAssumption, NoneAssumption DEF ReplyIds
    <3>2. c.out[j].capability = p.nextReply /\ p.nextReply < c.nextReply
      BY <1>4, <1>12, <3>1 DEF Granted
    <3> QED
      BY <1>2, <1>3, <2>1, <3>2
  <2>3. ASSUME NEW r \in ReplyIds PROVE r = t.capability \/ Inherits(d, e, X, Y, r)
    <3> SUFFICES ASSUME e.closing = None, r \in DOMAIN e.core.replies, r # t.capability
                 PROVE  d.closing = None /\ r \in DOMAIN d.core.replies /\ (r \in X => r \in Y)
      BY DEF Inherits
    <3>1. /\ d.closing = None /\ (r \in X => r \in Y)
          /\ r \notin DOMAIN d.core.replies =>
               \E i \in DOMAIN c.out : c.out[i].act = "DeliverPrimary" /\ c.out[i].capability = r
      BY <1>10
    <3>2. r \in DOMAIN d.core.replies
      BY <1>5, <1>12, <2>1, <3>1 DEF Delivers
    <3> QED
      BY <3>1, <3>2
  <2>4. e.inbound = Append(d.inbound, t)
    BY <1>12 DEF t
  <2> QED
    BY <1>4, <1>8, <1>9, <2>2, <2>3, <2>4, TrustDelivers
<1> QED
  BY <1>6, <1>7, <1>11, <1>12 DEF OfferedAt

\* What was granted before a run.
Grants(d, p) == p.nextReply = d.core.nextReply /\ p.replies = DOMAIN d.core.replies

\* The tokens are where they were.
SamePlaces(d, e) ==
  /\ e.inbound = d.inbound /\ e.held = d.held /\ e.queue = d.queue
  /\ Counted(d) /\ Counted(e) /\ d.core.nextReply <= e.core.nextReply

\* A batch that only settles offers nothing.
LEMMA SettlingOffers ==
  ASSUME NEW d, NEW c, NEW p, NEW permit, NEW written, NEW R, NEW acc, NEW state, NEW reason,
         Ready(d, c, p, permit, written, R, acc), Run(p, state, c), Settling(c.out, reason),
         IInv(d.core), p.nextReply = d.core.nextReply
  PROVE  SamePlaces(d, ApplyActionBatch(d, c, permit, written).d)
<1> DEFINE s == ApplyActionBatch(d, c, permit, written)
<1>1. Applied(d, c, p, R, acc, s, Len(c.out))
  BY AppliesBatch
<1>2. Granted(p, c) /\ IsBatch(c.out) /\ DOMAIN d = DriverFields
  BY DEF Ready, Run, Posted, Log, Formed
<1>3. Delivers(c)
  BY <1>2 DEF Granted, Delivers
<1>4. OfferedAt(d, c, s, Len(c.out))
  BY <1>2, <1>3, BatchOffers
<1> HIDE DEF s
<1>5. s.d.core.nextReply = c.nextReply
  BY <1>1, BeginIInv DEF Applied, Ready, Fields
<1>6. d.core.nextReply \in Nat /\ c.nextReply \in Nat
  BY SpaceAssumption DEF Ready, IInv, Weak, Shape
<1>7. \A j \in 1..Len(c.out) : c.out[j].act # "DeliverPrimary"
  BY <1>2, BatchShape DEF Settling
<1>8. s.d.inbound = d.inbound /\ s.d.held = d.held /\ s.d.queue = d.queue
  BY <1>4, <1>7 DEF OfferedAt
<1> QED
  BY <1>2, <1>5, <1>6, <1>8 DEF SamePlaces, Counted, Granted, s

\* Nor does a shutdown after a failure, which closes.
LEMMA FailureOffers ==
  ASSUME NEW d, NEW R, NEW X, NEW acc, NEW reason \in AllReasons, NEW write,
         Broken(d, R, X, acc),
         write # None => write \in DOMAIN d.core.pending /\ write \notin d.admitted
  PROVE  LET e == ShutdownAfterDriverFailure(d, reason, write)
         IN  SamePlaces(d, e) /\ e.closing # None
<1> DEFINE t == ApplyActionBatch(d, OnShutdown(d.core, reason), FALSE, None)
           u == ApplyActionBatch(d, OnAdmissionFailure(d.core, reason, write), FALSE, None)
           e == ShutdownAfterDriverFailure(d, reason, write)
<1>1. ASSUME NEW s, s.failure = None, Broken(s.d, R, X, acc), SamePlaces(d, s.d),
             e = BeginClosing(s.d, reason, Immediate)
      PROVE  SamePlaces(d, e) /\ e.closing # None
  <2>1. /\ DOMAIN e = DriverFields /\ \A f \in DriverFields \ {"closing"} : e[f] = s.d[f]
        /\ e.closing # None
    BY <1>1, ImmediateEffect DEF Broken
  <2> HIDE DEF e
  <2>2. e.core = s.d.core /\ e.inbound = s.d.inbound /\ e.queue = s.d.queue /\ e.held = s.d.held
    BY <2>1, ImmediateOthers
  <2> QED
    BY <1>1, <2>1, <2>2 DEF SamePlaces, Counted
<1>2. CASE write = None
  <2>1. /\ t.failure = None /\ Broken(t.d, R, X, acc)
        /\ Keeps(d, t.d, {reason}) /\ Untouched(d, t.d) /\ t.d.core.closing
    BY ShutdownBatch
  <2>2. e = BeginClosing(t.d, reason, Immediate)
    BY <1>2, <2>1 DEF ShutdownAfterDriverFailure, AfterShutdownBatch
  <2> DEFINE c == OnShutdown(d.core, reason)
             p == Caused(Snapshot(d.core, {}, UnresolvedCommands(d.core)), reason)
  <2>3. /\ Ready(d, c, p, FALSE, None, R, acc) /\ Run(p, d.core.state, c)
        /\ Loose(d, p, X) /\ Settling(c.out, reason) /\ c.closing
    BY OnShutdownReady
  <2>4. t = ApplyActionBatch(d, c, FALSE, None)
    OBVIOUS
  <2> HIDE DEF c, p, t, e
  <2>5. SamePlaces(d, ApplyActionBatch(d, c, FALSE, None).d)
    BY <2>3, SettlingOffers DEF Loose
  <2>6. SamePlaces(d, t.d)
    BY <2>4, <2>5
  <2> QED
    BY <1>1, <2>1, <2>2, <2>6 DEF e
<1>3. CASE write # None
  <2>0. write \in DOMAIN d.core.pending /\ write \notin d.admitted
    BY <1>3
  <2>1. /\ u.failure = None /\ Broken(u.d, R, X, acc)
        /\ Keeps(d, u.d, {reason}) /\ Untouched(d, u.d) /\ u.d.core.closing
    BY <2>0, RefusalBatch
  <2>2. e = BeginClosing(u.d, reason, Immediate)
    BY <1>3, <2>1 DEF ShutdownAfterDriverFailure, AfterShutdownBatch
  <2> DEFINE c == OnAdmissionFailure(d.core, reason, write)
             p == Caused(Ending(d.core, write, RefusalError(reason)), reason)
  <2>3. /\ Ready(d, c, p, FALSE, None, R, acc) /\ Run(p, d.core.state, c)
        /\ Loose(d, p, X) /\ Settling(c.out, reason) /\ c.closing
    BY <2>0, OnAdmissionFailureReady
  <2>4. u = ApplyActionBatch(d, c, FALSE, None)
    OBVIOUS
  <2> HIDE DEF c, p, u, e
  <2>5. SamePlaces(d, ApplyActionBatch(d, c, FALSE, None).d)
    BY <2>3, SettlingOffers DEF Loose
  <2>6. SamePlaces(d, u.d)
    BY <2>4, <2>5
  <2> QED
    BY <1>1, <2>1, <2>2, <2>6 DEF e
<1> QED
  BY <1>2, <1>3

\* A batch, applied or cut, keeps the tokens in order.
LEMMA ApplyTrusts ==
  ASSUME NEW d, NEW c, NEW p, NEW permit, NEW written, NEW R, NEW acc, NEW state,
         NEW Z, NEW X, NEW Y, NEW first \in AllReasons \cup {None},
         Ready(d, c, p, permit, written, R, acc), Run(p, state, c), Level(d, p, Z), Grants(d, p),
         Entrusted(d, X), Y \subseteq X, \A r \in DOMAIN c.replies : r \in X => r \in Y
  PROVE  Entrusted(ApplyBatch(d, c, permit, written, first), Y)
<1> DEFINE s == ApplyActionBatch(d, c, permit, written)
           e == ApplyBatch(d, c, permit, written, first)
<1>1. e = HandleActionFailure(s, first)
  BY DEF ApplyBatch
<1>2. Applied(d, c, p, R, acc, s, Len(c.out))
  BY AppliesBatch
<1>3. /\ IInv(d.core) /\ p.nextReply = d.core.nextReply /\ p.replies = DOMAIN d.core.replies
  BY DEF Level, Loose, Grants
<1>4. IInv(s.d.core)
  BY <1>2, BeginIInv DEF Applied, Ready
<1>5. ASSUME NEW x, SamePlaces(s.d, x),
             x.closing = None => s.failure = None /\ s.d.closing = None /\ x.core = s.d.core
      PROVE  Entrusted(x, Y)
  <2>1. /\ Counted(x) /\ s.d.core.nextReply <= x.core.nextReply
        /\ x.inbound = s.d.inbound /\ x.held = s.d.held /\ x.queue = s.d.queue
    BY <1>5 DEF SamePlaces
  <2>2. PICK z : z = s
    OBVIOUS
  <2>3. /\ z = ApplyActionBatch(d, c, permit, written)
        /\ Counted(x) /\ z.d.core.nextReply <= x.core.nextReply
        /\ x.inbound = z.d.inbound /\ x.held = z.d.held /\ x.queue = z.d.queue
        /\ x.closing = None => z.failure = None /\ z.d.closing = None /\ x.core = z.d.core
    BY <1>5, <2>1, <2>2
  <2> HIDE DEF s
  <2> QED
    BY <1>3, <2>3, BatchTrusts
<1>6. CASE s.failure = None
  <2>1. e = s.d
    BY <1>1, <1>6 DEF HandleActionFailure
  <2> HIDE DEF s, e
  <2>2. SamePlaces(s.d, s.d)
    BY <1>4, SpaceAssumption DEF SamePlaces, Counted, IInv, Weak, Shape
  <2>3. Entrusted(s.d, Y)
    BY <1>5, <1>6, <2>2
  <2> QED
    BY <2>1, <2>3 DEF e
<1>7. CASE s.failure # None
  <2>1. Broken(s.d, R, Z, acc)
    BY BatchBreaks DEF Level
  <2>2. /\ s.failure.reason \in RefusalReasons
        /\ s.failure.write # None =>
             s.failure.write \in DOMAIN s.d.core.pending /\ s.failure.write \notin s.d.admitted
    BY <1>7, CutBatch
  <2> DEFINE reason == IF first = None THEN s.failure.reason ELSE first
             x == s.d
             write == s.failure.write
             f == ShutdownAfterDriverFailure(x, reason, write)
  <2>3. e = f
    BY <1>1, <1>7 DEF HandleActionFailure
  <2> HIDE DEF s, e
  <2>4. reason \in AllReasons
    BY <2>2 DEF AllReasons, GenerationReasons, RefusalReasons
  <2> HIDE DEF reason
  <2>5. SamePlaces(x, f) /\ f.closing # None
    BY <2>1, <2>2, <2>4, FailureOffers
  <2> HIDE DEF f
  <2>6. Entrusted(f, Y)
    BY <1>5, <2>5
  <2> QED
    BY <2>3, <2>6 DEF e
<1> QED
  BY <1>6, <1>7

\* What does not touch the tokens nor the contracts.
LEMMA TrustSame ==
  ASSUME NEW d, NEW e, NEW X, Entrusted(d, X),
         e.inbound = d.inbound, e.held = d.held, e.queue = d.queue,
         e.closing = None => d.closing = None, e.core = d.core
  PROVE  Entrusted(e, X)
<1>1. \A r : Offered(e, r) = Offered(d, r) /\ Carried(e, r) = Carried(d, r)
             /\ Enqueued(e, r) = Enqueued(d, r)
  BY DEF Offered, Carried, Enqueued
<1>2. \A r : (Placed(e, r) <=> Placed(d, r)) /\ (Sole(e, r) <=> Sole(d, r))
  BY <1>1 DEF Placed, Sole
<1> QED
  BY <1>2 DEF Entrusted

\* The head of the queue is rejected: its token is the application's again.
LEMMA RejectHeadTrusts ==
  ASSUME NEW d, Entrusted(d, {}), DOMAIN d = DriverFields, IsBatch(d.queue), d.queue # <<>>
  PROVE  Entrusted(RejectHead(d), {})
<1> DEFINE h == Head(d.queue)
           x == [d EXCEPT !.queue = Tail(@), !.bytes = @ - h.charge]
           e == Rejected(x, h, "ConnectionLost")
<1>1. RejectHead(d) = e
  BY DEF RejectHead
<1>2. /\ DOMAIN x = DriverFields /\ x.queue = Tail(d.queue)
      /\ \A f \in DriverFields \ {"queue", "bytes"} : x[f] = d[f]
  BY DEF DriverFields
<1> HIDE DEF x
<1>3. /\ x.inbound = d.inbound /\ x.held = d.held /\ x.closing = d.closing /\ x.core = d.core
  BY <1>2 DEF DriverFields
<1>4. Entrusted(x, InHand(h))
  BY <1>2, <1>3, TrustTakes
<1> HIDE DEF h
<1>5. /\ \A f \in DriverFields \ {"answers", "held"} : e[f] = x[f]
      /\ e.held = IF IsReply(h) THEN x.held \cup {h.token} ELSE x.held
  BY <1>2 DEF Rejected, Answer, DriverFields
<1> HIDE DEF e
<1>6. e.inbound = x.inbound /\ e.queue = x.queue /\ e.closing = x.closing /\ e.core = x.core
  BY <1>5 DEF DriverFields
<1>7. Entrusted(e, {})
  BY <1>4, <1>5, <1>6, TrustReturns
<1> QED
  BY <1>1, <1>7

\* The drain gives all of them back.
LEMMA DrainTrusts ==
  ASSUME NEW d, Entrusted(d, {}), DOMAIN d = DriverFields, IsBatch(d.queue)
  PROVE  Entrusted(DrainAcceptedCommands(d), {})
<1> DEFINE n == Len(d.queue)
           Left(s, m) == /\ DOMAIN s = DriverFields /\ IsBatch(s.queue) /\ Len(s.queue) = m
                         /\ Entrusted(s, {})
<1>1. n \in Nat
  BY BatchShape
<1>2. PICK f : /\ f[0] = SettleOrphans(d)
               /\ \A i \in 1..n : f[i] = RejectHead(f[i - 1])
               /\ DrainAcceptedCommands(d) = f[n]
  BY <1>1, DrainTrace
<1> DEFINE S == {i \in 0..n : Left(f[i], n - i)}
<1>3. 0 \in S
  <2> DEFINE e == SettleOrphans(d)
  <2>1. /\ DOMAIN e = DriverFields
        /\ \A g \in DriverFields \ {"answers", "completions"} : e[g] = d[g]
    BY DEF SettleOrphans, Answer, DriverFields
  <2> HIDE DEF e
  <2>2. /\ e.inbound = d.inbound /\ e.held = d.held /\ e.queue = d.queue
        /\ e.closing = d.closing /\ e.core = d.core
    BY <2>1 DEF DriverFields
  <2>3. Entrusted(e, {})
    BY <2>2, TrustSame
  <2>4. f[0] = e /\ n - 0 = n
    BY <1>1, <1>2 DEF e
  <2> QED
    BY <1>1, <2>1, <2>2, <2>3, <2>4
<1>4. ASSUME NEW i \in 0..(n - 1), i \in S PROVE i + 1 \in S
  <2> DEFINE s == f[i]
             e == RejectHead(s)
  <2>1. /\ i + 1 \in 1..n /\ (i + 1) - 1 = i /\ i + 1 \in 0..n /\ n - i # 0 /\ i \in Nat
        /\ (n - i) - 1 = n - (i + 1)
    BY <1>1
  <2>2. f[i + 1] = e
    BY <1>2, <2>1
  <2>3. Left(s, n - i)
    BY <1>4
  <2> HIDE DEF s, n
  <2>4. s.queue # <<>>
    BY <2>1, <2>3, EmptyBatch
  <2>5. Entrusted(e, {})
    BY <2>3, <2>4, RejectHeadTrusts
  <2>6. DOMAIN e = DriverFields /\ e.queue = Tail(s.queue)
    BY <2>3, RejectHeadEffect
  <2>7. IsBatch(Tail(s.queue)) /\ Len(Tail(s.queue)) = n - (i + 1)
    BY <2>1, <2>3, <2>4, RestOfBatch
  <2> HIDE DEF e
  <2>8. Left(e, n - (i + 1))
    BY <2>5, <2>6, <2>7
  <2> QED
    BY <2>1, <2>2, <2>8 DEF n
<1>5. n \in S
  <2> HIDE DEF S, n
  <2>1. \A i \in 0..(n - 1) : i \in S => i + 1 \in S
    BY <1>4
  <2>2. \A i \in 0..n : i \in S
    BY <1>1, <1>3, <2>1, BoundedInduction
  <2> QED
    BY <1>1, <2>2
<1> QED
  BY <1>2, <1>5

\* finish_close_if_ready.
LEMMA FinishTrusts ==
  ASSUME NEW d, Entrusted(d, {}), Formed(d), IsBatch(d.queue)
  PROVE  Entrusted(FinishCloseIfReady(d), {})
<1>1. CASE d.closing = None \/ d.closed \/ d.closing.barrier # None
  BY <1>1 DEF FinishCloseIfReady
<1>2. CASE ~(d.closing = None \/ d.closed \/ d.closing.barrier # None)
  <2> DEFINE x == [d EXCEPT !.closed = TRUE, !.writer.cancelled = TRUE]
  <2>1. FinishCloseIfReady(d) = DrainAcceptedCommands(x)
    BY <1>2 DEF FinishCloseIfReady
  <2>2. DOMAIN x = DriverFields /\ \A f \in DriverFields \ {"closed", "writer"} : x[f] = d[f]
    BY DEF Formed, DriverFields
  <2> HIDE DEF x
  <2>3. /\ x.inbound = d.inbound /\ x.held = d.held /\ x.queue = d.queue
        /\ x.closing = d.closing /\ x.core = d.core
    BY <2>2 DEF DriverFields
  <2>4. Entrusted(x, {})
    BY <2>3, TrustSame
  <2> QED
    BY <2>1, <2>2, <2>3, <2>4, DrainTrusts
<1> QED
  BY <1>1, <1>2

\* A round of Core: its batch, and the end it may bring.
LEMMA RoundTrusts ==
  ASSUME NEW d, NEW c, NEW p, NEW permit, NEW written, NEW R, NEW acc, NEW state, NEW W,
         NEW X, NEW first \in AllReasons \cup {None},
         Ready(d, c, p, permit, written, R, acc), Run(p, state, c), Level(d, p, {}), Grants(d, p),
         Reasoned(c, W), Allows(first, W), Books(d),
         Entrusted(d, X), \A r \in DOMAIN c.replies : r \notin X
  PROVE  Entrusted(FinishCloseIfReady(ApplyBatch(d, c, permit, written, first)), {})
<1> DEFINE x == ApplyBatch(d, c, permit, written, first)
<1>1. Coherent(x, R, {}, acc) /\ Keeps(d, x, W) /\ Untouched(d, x)
  BY BatchApplied
<1>2. Entrusted(x, {})
  BY ApplyTrusts
<1> HIDE DEF x
<1>3. Formed(x) /\ IsBatch(x.queue)
  BY <1>1 DEF Coherent, Untouched, Books, Chargeable
<1> QED
  BY <1>2, <1>3, FinishTrusts DEF x

\* A close strands no contract.
LEMMA CloseTrusts ==
  ASSUME NEW d, NEW e, NEW X, Entrusted(d, X), SamePlaces(d, e), e.closing # None
  PROVE  Entrusted(e, {})
<1>1. \A r \in ReplyIds : Inherits(d, e, X, {}, r)
  BY DEF Inherits
<1> QED
  BY <1>1, TrustRests DEF SamePlaces

\* A handler of Core that is told of no command.
LEMMA MatchedTrusts ==
  ASSUME NEW d, NEW c, NEW p, NEW R, NEW acc, NEW W, NEW state, NEW written,
         NEW first \in AllReasons \cup {None},
         Sound(d, R, acc), Matches(d, p), Grants(d, p), IInv(c), Run(p, state, c),
         Reasoned(c, W), Allows(first, W), Entrusted(d, {})
  PROVE  Entrusted(FinishCloseIfReady(ApplyBatch(d, c, FALSE, written, first)), {})
<1>1. Coherent(d, R, {}, acc) /\ Books(d)
  BY DEF Sound
<1>2. Ready(d, c, p, FALSE, written, R, acc) /\ Level(d, p, {})
  BY <1>1, MatchReady DEF Run, Log
<1> QED
  BY <1>1, <1>2, RoundTrusts

\* apply_actions of such a handler.
LEMMA OrdinaryTrusts ==
  ASSUME NEW d, NEW c, NEW R, NEW acc, Sound(d, R, acc), IInv(c), Entrusted(d, {}), NEW H,
         Run(Hearing(Snapshot(d.core, {}, UnresolvedCommands(d.core)), H), d.core.state, c)
  PROVE  Entrusted(Apply(d, c), {})
<1> DEFINE p == Hearing(Snapshot(d.core, {}, UnresolvedCommands(d.core)), H)
<1>1. Grants(d, p) /\ p.cause = "LocalSeparate"
  BY DEF Snapshot, Grants, Hearing
<1>2. Matches(d, p)
  BY OrdinaryReasonsAre DEF Snapshot, Matches, Hearing
<1> HIDE DEF p
<1>3. Reasoned(c, OrdinaryReasons)
  <2>1. Run(p, d.core.state, c)
    BY DEF p
  <2> QED
    BY <1>1, <2>1, RunReasons, OrdinaryReasonsAre
<1>4. Allows(None, OrdinaryReasons)
  BY OrdinaryReasonsAre DEF Allows
<1>5. Run(p, d.core.state, c)
  BY DEF p
<1>6. PICK none : none = None
  OBVIOUS
<1>7. none \in AllReasons \cup {None} /\ Allows(none, OrdinaryReasons)
  BY <1>4, <1>6
<1>8. Entrusted(FinishCloseIfReady(ApplyBatch(d, c, FALSE, none, none)), {})
  BY <1>1, <1>2, <1>3, <1>5, <1>7, MatchedTrusts
<1> QED
  BY <1>6, <1>8 DEF Apply

\* process_due_deadlines.
LEMMA TimelyTrusts ==
  ASSUME NEW d, NEW due, NEW R, NEW acc, Sound(d, R, acc), Entrusted(d, {})
  PROVE  Entrusted(ProcessDueDeadlines(d, due), {})
<1>1. CASE d.closing # None \/ due = NothingDue
  BY <1>1 DEF ProcessDueDeadlines
<1>2. CASE ~(d.closing # None \/ due = NothingDue)
  <2> DEFINE c == AdvanceTime(d.core, due)
  <2>1. ProcessDueDeadlines(d, due) = Apply(d, c)
    BY <1>2 DEF ProcessDueDeadlines
  <2>2. IInv(d.core) /\ Traced(d.core)
    BY DEF Sound, Coherent
  <2>3. IInv(c)
    BY <2>2, BeginIInv, ExpireDeadlinesIInv DEF AdvanceTime
  <2>4. Run(Hearing(Snapshot(d.core, {}, UnresolvedCommands(d.core)), {}), d.core.state, c)
    BY <2>2, RunAdvancesTime, RunHears
  <2> HIDE DEF c
  <2> QED
    BY <2>1, <2>3, <2>4, OrdinaryTrusts
<1> QED
  BY <1>1, <1>2

\* on_message.
LEMMA MessageTrusts ==
  ASSUME NEW d, NEW m, NEW due, NEW R, NEW acc, Sound(d, R, acc), m.type \in MessageTypes,
         Entrusted(d, {})
  PROVE  Entrusted(ReceiveMessage(d, m, due), {})
<1> DEFINE x == ProcessDueDeadlines(d, due)
<1>1. Goes(d, x, R, acc, OrdinaryReasons) /\ Entrusted(x, {})
  BY TimelyGoes, TimelyTrusts
<1>2. ReceiveMessage(d, m, due) = MessageTimely(x, m)
  BY DEF ReceiveMessage
<1> HIDE DEF x
<1>3. Sound(x, R, acc)
  BY <1>1 DEF Goes
<1>4. CASE x.closing # None
  BY <1>1, <1>2, <1>4 DEF MessageTimely
<1>5. CASE x.closing = None
  <2> DEFINE c == OnMessage(x.core, m, FALSE)
  <2>1. MessageTimely(x, m) = Apply(x, c)
    BY <1>5 DEF MessageTimely
  <2>2. IInv(x.core) /\ Traced(x.core)
    BY <1>3 DEF Sound, Coherent
  <2>3. IInv(c)
    BY <2>2, OnMessageIInv
  <2>4. Run(Hearing(Snapshot(x.core, {}, UnresolvedCommands(x.core)), Heard(x.core, m)), x.core.state, c)
    BY <2>2, RunOnMessage
  <2> HIDE DEF c
  <2> QED
    BY <1>1, <1>2, <1>3, <2>1, <2>3, <2>4, OrdinaryTrusts
<1> QED
  BY <1>4, <1>5

\* on_shutdown.
LEMMA ShutDownTrusts ==
  ASSUME NEW d, NEW reason \in AllReasons, NEW R, NEW acc, Sound(d, R, acc), NEW X, Entrusted(d, X)
  PROVE  Entrusted(ShutDown(d, reason), {})
<1> DEFINE c == OnShutdown(d.core, reason)
           p == Caused(Snapshot(d.core, {}, UnresolvedCommands(d.core)), reason)
           s == ApplyActionBatch(d, c, FALSE, None)
           x == BeginClosing(s.d, reason, Immediate)
<1>0. Coherent(d, R, {}, acc) /\ Broken(d, R, {}, acc)
  BY CoherentIsBroken DEF Sound
<1>1. /\ Ready(d, c, p, FALSE, None, R, acc) /\ Run(p, d.core.state, c)
      /\ Loose(d, p, {}) /\ Settling(c.out, reason) /\ c.closing
  BY <1>0, OnShutdownReady
<1>2. ShutDown(d, reason) = FinishCloseIfReady(BeginClosing(ApplyBatch(d, c, FALSE, None, None),
                                                            reason, Immediate))
  BY DEF ShutDown
<1>3. ApplyBatch(d, c, FALSE, None, None) = HandleActionFailure(s, None)
  BY DEF ApplyBatch
<1> HIDE DEF c, p
<1>4. /\ s.failure = None /\ Broken(s.d, R, {}, acc)
      /\ Keeps(d, s.d, {reason}) /\ Untouched(d, s.d) /\ s.d.core.closing = c.closing
  BY <1>1, SettlingBatch
<1>5. SamePlaces(d, s.d)
  BY <1>1, SettlingOffers DEF Loose
<1>6. ApplyBatch(d, c, FALSE, None, None) = s.d
  BY <1>3, <1>4 DEF HandleActionFailure
<1> HIDE DEF s
<1>7. /\ DOMAIN x = DriverFields
      /\ \A f \in DriverFields \ {"closing"} : x[f] = s.d[f]
      /\ x.closing # None
  BY <1>4, ImmediateEffect DEF Broken
<1> HIDE DEF x
<1>8. /\ x.core = s.d.core /\ x.inbound = s.d.inbound /\ x.held = s.d.held /\ x.queue = s.d.queue
      /\ x.writer = s.d.writer
  BY <1>7, ImmediateOthers
<1>9. SamePlaces(d, x)
  BY <1>5, <1>8 DEF SamePlaces, Counted
<1>10. Entrusted(x, {})
  BY <1>7, <1>9, CloseTrusts
<1>11. Formed(x) /\ IsBatch(x.queue)
  BY <1>4, <1>7, <1>8 DEF Sound, Books, Chargeable, Untouched, Broken, Formed
<1>12. Entrusted(FinishCloseIfReady(x), {})
  BY <1>10, <1>11, FinishTrusts
<1> QED
  BY <1>2, <1>6, <1>12 DEF x

\* on_decode_step_with_header.
LEMMA ViolationTrusts ==
  ASSUME NEW d, NEW v, NEW due, NEW room, NEW R, NEW acc, Sound(d, R, acc), Entrusted(d, {})
  PROVE  Entrusted(ReceiveViolation(d, v, due, room), {})
<1> DEFINE x == ProcessDueDeadlines(d, due)
<1>1. Goes(d, x, R, acc, OrdinaryReasons) /\ Entrusted(x, {})
  BY TimelyGoes, TimelyTrusts
<1>2. ReceiveViolation(d, v, due, room) = ViolationTimely(x, v, room)
  BY DEF ReceiveViolation
<1> HIDE DEF x
<1>3. Sound(x, R, acc)
  BY <1>1 DEF Goes
<1>4. CASE x.closing # None \/ (room /\ v = None)
  <2>1. ViolationTimely(x, v, room) = x
    BY <1>4 DEF ViolationTimely
  <2> QED
    BY <1>1, <1>2, <2>1
<1>5. CASE x.closing = None /\ ~room
  <2>1. ViolationTimely(x, v, room) = ShutDown(x, "ApplicationBackpressure")
    BY <1>5 DEF ViolationTimely
  <2>2. "ApplicationBackpressure" \in AllReasons
    BY OrdinaryReasonsAre DEF OrdinaryReasons, RefusalReasons
  <2> QED
    BY <1>1, <1>2, <1>3, <2>1, <2>2, ShutDownTrusts
<1>6. CASE x.closing = None /\ room /\ v # None
  <2> DEFINE c == OnInboundViolation(x.core, v)
  <2>1. ViolationTimely(x, v, room) = Apply(x, c)
    BY <1>6 DEF ViolationTimely
  <2>2. IInv(x.core) /\ Traced(x.core)
    BY <1>3 DEF Sound, Coherent
  <2>3. IInv(c)
    BY <2>2, OnInboundViolationIInv
  <2>4. Run(Hearing(Snapshot(x.core, {}, UnresolvedCommands(x.core)), {}), x.core.state, c)
    BY <2>2, RunOnInboundViolation, RunHears
  <2> HIDE DEF c
  <2> QED
    BY <1>1, <1>2, <1>3, <2>1, <2>3, <2>4, OrdinaryTrusts
<1> QED
  BY <1>4, <1>5, <1>6

\* finish_shutdown_drain.
LEMMA TailTrusts ==
  ASSUME NEW d, NEW reason \in AllReasons, NEW R, NEW acc, Sound(d, R, acc), Entrusted(d, {})
  PROVE  Entrusted(FinishDriverDrain(d, reason), {})
<1> DEFINE x == [d EXCEPT !.draining = TRUE]
<1>1. /\ DOMAIN x = DriverFields /\ \A f \in DriverFields \ {"draining"} : x[f] = d[f]
      /\ x.draining = TRUE
  BY DEF Sound, Coherent, Formed, DriverFields
<1>2. FinishDriverDrain(d, reason) =
        FinishCloseIfReady(ApplyBatch(x, FinishShutdownDrain(d.core, reason), FALSE, None, reason))
  BY DEF FinishDriverDrain
<1> HIDE DEF x
<1>3. /\ x.core = d.core /\ x.completions = d.completions /\ x.admitted = d.admitted
      /\ x.closing = d.closing /\ x.closed = d.closed /\ x.nextCommand = d.nextCommand
      /\ x.writer = d.writer /\ x.inbound = d.inbound /\ x.queue = d.queue /\ x.bytes = d.bytes
      /\ x.answers = d.answers /\ x.draining = TRUE /\ x.held = d.held
  BY <1>1 DEF DriverFields
<1>4. Sound(x, R, acc)
  <2>1. Owner(x, acc)
    BY <1>3, OwnerSame DEF Sound, Coherent
  <2>2. Books(x)
    BY <1>3 DEF Sound, Books
  <2>3. Formed(x)
    BY <1>1, <1>3 DEF Sound, Coherent, Formed
  <2>4. /\ Line(x.writer.queue, R, x.admitted, x.writer.live) /\ Worker(x.writer)
        /\ IsBatch(x.inbound) /\ Len(x.inbound) <= InboundCapacity
    BY <1>3 DEF Sound, Coherent
  <2> QED
    BY <1>3, <2>1, <2>2, <2>3, <2>4, SoundTransfer
<1>5. Entrusted(x, {})
  BY <1>3, TrustSame
<1> DEFINE c == FinishShutdownDrain(x.core, reason)
           p == Caused(Snapshot(x.core, {}, UnresolvedCommands(x.core)), reason)
           W == OrdinaryReasons \cup {reason}
<1>6. IInv(x.core) /\ Traced(x.core)
  BY <1>4 DEF Sound, Coherent
<1>7. IInv(c) /\ Run(p, x.core.state, c)
  BY <1>6, FinishShutdownDrainIInv, RunOnShutdown
<1>8. Matches(x, p) /\ Grants(x, p) /\ p.cause = reason
  BY DEF Matches, Grants, Snapshot, Caused
<1> HIDE DEF c, p
<1>9. Reasoned(c, W)
  <2>1. Reasoned(c, CoreReasons \cup {reason})
    BY <1>7, <1>8, RunReasons
  <2> QED
    BY <2>1 DEF Reasoned, OrdinaryReasons
<1>10. Allows(reason, W)
  BY OrdinaryReasonsAre DEF Allows
<1>11. PICK none : none = None
  OBVIOUS
<1> DEFINE e == FinishCloseIfReady(ApplyBatch(x, c, FALSE, none, reason))
<1>12. FinishDriverDrain(d, reason) = e
  BY <1>2, <1>3, <1>11 DEF c
<1> HIDE DEF W
<1>13. Entrusted(e, {})
  BY <1>4, <1>5, <1>7, <1>8, <1>9, <1>10, MatchedTrusts
<1> QED
  BY <1>12, <1>13

\* Core is told what became of a write.
LEMMA OutcomeTrusts ==
  ASSUME NEW d, NEW w \in d.admitted, NEW outcome \in Outcomes, NEW late, NEW R, NEW acc,
         Sound(d, R, acc), Entrusted(d, {})
  PROVE  Entrusted(OutcomeTimely(d, w, outcome, late), {})
<1> DEFINE c == OnWriteOutcome(d.core, w, outcome, late)
           p == Reported(d.core, w, outcome)
<1>1. w \in DOMAIN d.core.pending /\ IInv(d.core) /\ Traced(d.core) /\ d.core.nextWrite \in Nat
  BY SpaceAssumption DEF Sound, Coherent, IInv, Weak, Shape
<1>2. IInv(c) /\ Run(p, d.core.state, c)
  BY <1>1, OnWriteOutcomeIInv, RunOnWriteOutcome
<1>3. /\ p.open = d.core.open /\ p.nextWrite = d.core.nextWrite /\ p.nextReply = d.core.nextReply
      /\ p.closing = d.core.closing /\ ~p.permit /\ p.cause = "LocalSeparate"
      /\ p.pending = DOMAIN d.core.pending \ {w}
      /\ \A b \in DOMAIN d.core.pending \ {w} : p.kinds[b] = d.core.pending[b].kind
  BY <1>1, ReportedParts
<1>4. Grants(d, p)
  <2>1. Removed(d.core, w).replies = d.core.replies
    BY <1>1, RemovedEffect DEF Fields
  <2>2. p.replies = DOMAIN Removed(d.core, w).replies
    BY DEF Reported, Ending, Snapshot, Outcomes
  <2> HIDE DEF p
  <2> QED
    BY <1>3, <2>1, <2>2 DEF Grants
<1> HIDE DEF c, p
<1>5. IsBatch(c.out) /\ p.cause \in AllReasons /\ p.cause \in OrdinaryReasons
  BY <1>2, <1>3, OrdinaryReasonsAre DEF Run, Log
<1>6. Ready(d, c, p, FALSE, w, R, acc)
  BY <1>1, <1>2, <1>3, <1>5 DEF Ready, Sound, Coherent
<1>7. Level(d, p, {w})
  <2>0. Loose(d, p, {w})
    BY <1>1, <1>3 DEF Loose, Sound, Coherent
  <2>1. d.closing # None /\ d.closing.barrier # None /\ d.closing.barrier # w =>
          /\ d.closing.barrier \in d.admitted /\ p.kinds[d.closing.barrier] = "Separate"
          /\ \A b \in d.admitted : b <= d.closing.barrier
    BY <1>3 DEF Sound, Coherent
  <2>2. p.closing <=> d.closing # None
    BY <1>3 DEF Sound, Coherent
  <2>3. d.closing = None \/ d.closing.barrier # None \/ d.closed =>
          DOMAIN d.completions \subseteq DOMAIN p.open
    BY <1>3 DEF Sound, Coherent
  <2>4. d.closing = None => p.pending \subseteq d.admitted
    BY <1>3 DEF Sound, Coherent
  <2> QED
    BY <2>0, <2>1, <2>2, <2>3, <2>4 DEF Level
<1>8. PICK first \in AllReasons \cup {None} : first = None
  OBVIOUS
<1> DEFINE Z == {w}
<1> HIDE DEF Z
<1>9. Level(d, p, Z)
  BY <1>7 DEF Z
<1>10. Entrusted(ApplyBatch(d, c, FALSE, w, first), {})
  BY <1>2, <1>4, <1>6, <1>9, ApplyTrusts
<1> QED
  BY <1>8, <1>10 DEF OutcomeTimely, c

\* on_write_outcome_at and apply_write_report.
LEMMA ReportTrusts ==
  ASSUME NEW d, NEW due, NEW late, NEW acc, Sound(d, d.writer.reports, acc),
         d.writer.reports # <<>>, Entrusted(d, {})
  PROVE  Entrusted(ApplyWriteReport(d, due, late), {})
<1> DEFINE R == d.writer.reports
           w == Head(R).write
           outcome == Head(R).outcome
           x == IF outcome = "Committed" THEN ProcessDueDeadlines(d, due) ELSE d
           y == OutcomeTimely(x, w, outcome, late)
           z == WriteSettled(y, w)
           f == FinishCloseIfReady(z)
           e == [f EXCEPT !.writer.reports = Tail(@)]
<1>1. /\ Line(d.writer.queue, R, d.admitted, d.writer.live) /\ IsBatch(R)
      /\ w \in d.admitted /\ outcome \in Outcomes
  <2>1. Line(d.writer.queue, R, d.admitted, d.writer.live)
    BY DEF Sound, Coherent
  <2>2. IsBatch(R)
    BY <2>1 DEF Line
  <2>3. w \in d.admitted
    BY <2>1, <2>2, LineMoves
  <2>4. outcome \in Outcomes
    BY <2>2, RestOfBatch DEF Sound, Coherent, Worker
  <2> QED
    BY <2>1, <2>2, <2>3, <2>4
<1>2. ApplyWriteReport(d, due, late) = e
  BY <1>1 DEF ApplyWriteReport, ReceiveWriteOutcome
<1>3. Sound(x, R, acc) /\ Entrusted(x, {})
  <2>1. CASE outcome = "Committed"
    <3> DEFINE g == ProcessDueDeadlines(d, due)
    <3>1. Sound(g, R, acc) /\ Entrusted(g, {})
      BY TimelyGoes, TimelyTrusts DEF Goes
    <3>2. x = g
      BY <2>1
    <3> HIDE DEF g, x
    <3> QED
      BY <3>1, <3>2
  <2>2. CASE outcome # "Committed"
    BY <2>2
  <2> QED
    BY <2>1, <2>2
<1> HIDE DEF x, outcome
<1>4. w \in x.admitted
  <2>1. Line(x.writer.queue, R, x.admitted, x.writer.live)
    BY <1>3 DEF Sound, Coherent
  <2> QED
    BY <2>1, LineMoves
<1> HIDE DEF w
<1>5. Entrusted(y, {}) /\ Coherent(y, R, {w}, acc) /\ Untouched(x, y)
  BY <1>1, <1>3, <1>4, OutcomeTrusts, OutcomeApplied
<1> HIDE DEF y
<1>6. Books(y) /\ DOMAIN y = DriverFields
  BY <1>3, <1>5, UntouchedBooks DEF Sound, Coherent, Formed
<1>7. Coherent(z, Tail(R), {}, acc) /\ Books(z) /\ Keeps(y, z, {}) /\ z.core = y.core
  BY <1>5, <1>6, SettledWrite DEF w
<1>8. z.inbound = y.inbound /\ z.held = y.held /\ z.queue = y.queue
  BY <1>6 DEF WriteSettled, DriverFields
<1> HIDE DEF z
<1>9. Entrusted(z, {})
  BY <1>5, <1>7, <1>8, TrustSame DEF Keeps
<1>10. Formed(z) /\ IsBatch(z.queue)
  BY <1>7 DEF Coherent, Books, Chargeable
<1>11. Entrusted(f, {})
  BY <1>9, <1>10, FinishTrusts
<1>12. Sound(f, Tail(R), acc)
  <2> DEFINE S == Tail(R)
  <2> HIDE DEF S
  <2>1. Sound(f, S, acc)
    BY <1>7, FinishSound DEF S
  <2> QED
    BY <2>1 DEF S
<1> HIDE DEF f
<1>13. DOMAIN f = DriverFields
  BY <1>12 DEF Sound, Coherent, Formed
<1>14. /\ e.inbound = f.inbound /\ e.held = f.held /\ e.queue = f.queue
       /\ e.closing = f.closing /\ e.core = f.core
  BY <1>13 DEF DriverFields
<1> HIDE DEF e
<1>15. Entrusted(e, {})
  BY <1>11, <1>14, TrustSame
<1> QED
  BY <1>2, <1>15

\* on_writer_stopped.
LEMMA WriterGoneTrusts ==
  ASSUME NEW d, NEW acc, Sound(d, <<>>, acc), d.closed, Entrusted(d, {})
  PROVE  Entrusted(WriterGone(d), {})
<1> DEFINE c == FinalizeWriter(d.core)
           p == Drained(d.core)
           X == d.admitted
           R == <<>>
<1>1. IInv(d.core) /\ Traced(d.core) /\ d.core.closing /\ d.core.nextWrite \in Nat
  BY SpaceAssumption DEF Sound, Coherent, IInv, Weak, Shape
<1>2. IInv(c) /\ Run(p, d.core.state, c)
  BY <1>1, FinalizeWriterIInv, RunFinalizes
<1>3. /\ p.open = d.core.open /\ p.nextWrite = d.core.nextWrite /\ p.nextReply = d.core.nextReply
      /\ p.closing /\ ~p.permit /\ p.cause = "LocalSeparate" /\ p.pending = {}
      /\ \A k : <<k, "Ok">> \notin p.told
      /\ p.replies = DOMAIN d.core.replies
  <2> DEFINE b == [Begin(d.core) EXCEPT !.pending = EmptyFunction]
  <2>1. DOMAIN Begin(d.core) = Fields /\ \A f \in Fields \ {"out"} : Begin(d.core)[f] = d.core[f]
    <3>1. IInv(Begin(d.core)) /\ \A f \in Fields \ {"out"} : Begin(d.core)[f] = d.core[f]
      BY <1>1, BeginIInv
    <3>2. DOMAIN Begin(d.core) = Fields
      BY <3>1 DEF IInv, Weak, Shape
    <3> QED
      BY <3>1, <3>2
  <2>2. /\ b.open = d.core.open /\ b.nextWrite = d.core.nextWrite /\ b.replies = d.core.replies
        /\ b.nextReply = d.core.nextReply /\ b.closing /\ DOMAIN b.pending = {}
    BY <1>1, <2>1 DEF Fields, EmptyFunction
  <2> HIDE DEF b
  <2>3. p = Snapshot(b, UnresolvedCommands(d.core) \X {"DeliveryIndeterminate"},
                     UnresolvedCommands(d.core))
    BY DEF Drained, b
  <2> QED
    BY <2>2, <2>3 DEF Snapshot
<1> HIDE DEF c, p
<1>4. IsBatch(c.out) /\ p.cause \in AllReasons /\ p.cause \in OrdinaryReasons
  BY <1>2, <1>3, OrdinaryReasonsAre DEF Run, Log
<1>5. PICK none : none = None
  OBVIOUS
<1>6. Sound(d, R, acc)
  OBVIOUS
<1> HIDE DEF R
<1>7. Ready(d, c, p, FALSE, none, R, acc)
  BY <1>1, <1>2, <1>3, <1>4, <1>6 DEF Ready, Sound, Coherent
<1>8. Level(d, p, X)
  <2>1. Loose(d, p, X)
    BY <1>1, <1>3, <1>6 DEF Loose, Sound, Coherent
  <2> QED
    BY <1>1, <1>3, <1>6, <2>1 DEF Level, Sound, Coherent
<1>9. Grants(d, p)
  BY <1>3 DEF Grants
<1>10. PICK first \in AllReasons \cup {None} : first = None
  OBVIOUS
<1> HIDE DEF X
<1> DEFINE y == SettleWrites(d)
           z == WritesForgotten(y)
<1>11. Entrusted(y, {})
  <2>1. Entrusted(ApplyBatch(d, c, FALSE, none, first), {})
    BY <1>2, <1>7, <1>8, <1>9, ApplyTrusts
  <2> QED
    BY <1>5, <1>10, <2>1 DEF SettleWrites, c
<1>12. Coherent(y, R, X, acc) /\ Keeps(d, y, OrdinaryReasons) /\ Untouched(d, y)
  BY <1>6, WritesSettled DEF X
<1>13. d.closing # None /\ EndedForWriter(d) = d
  BY <1>6 DEF Sound, Coherent, EndedForWriter
<1> HIDE DEF y
<1>14. /\ y.closed /\ y.closing \in Closings /\ y.closing # None /\ Formed(y) /\ IsBatch(y.queue)
  BY <1>6, <1>12, <1>13 DEF Coherent, Untouched, Keeps, Sound, Books, Chargeable
<1>15. /\ z.inbound = y.inbound /\ z.held = y.held /\ z.queue = y.queue /\ z.core = y.core
       /\ z.closed = y.closed /\ z.closing = [y.closing EXCEPT !.barrier = None]
       /\ DOMAIN z = DriverFields
  BY <1>14 DEF WritesForgotten, Formed, DriverFields
<1>16. z.closing # None
  <2>1. z.closing \in Closings
    BY <1>14, <1>15 DEF Closings
  <2> QED
    BY <2>1, RuntimeAssumption
<1>17. FinishCloseIfReady(z) = z
  BY <1>14, <1>15 DEF FinishCloseIfReady
<1>18. WriterGone(d) = DrainAcceptedCommands(z)
  BY <1>13, <1>17 DEF WriterGone, y, z
<1> HIDE DEF z
<1>19. Entrusted(z, {})
  BY <1>11, <1>15, <1>16, TrustSame
<1> QED
  BY <1>14, <1>15, <1>18, <1>19, DrainTrusts

\* A reply spends its capability, whatever becomes of it.
Spent(c, r) == r \notin DOMAIN c.replies

\* A close leaves no capability.
LEMMA CloseAllSpends ==
  ASSUME NEW c, NEW reason, NEW r, Weak(c)
  PROVE  Spent(CloseAll(c, reason), r)
<1> DEFINE d == CompleteAll(c, "ConnectionLost")
           x == [d EXCEPT !.closing = TRUE, !.drain = None,
                          !.replies = EmptyFunction, !.closeIssued = TRUE]
<1>1. Shape(d)
  BY CompleteAllWeak DEF Weak
<1>2. \/ CloseAll(c, reason) = x
      \/ CloseAll(c, reason) = Emit(x, CloseGeneration(reason, Immediate))
  BY DEF CloseAll, RequestClose
<1> HIDE DEF d
<1>3. DOMAIN x = Fields /\ DOMAIN x.replies = {}
  BY <1>1 DEF Shape, Fields, EmptyFunction
<1> HIDE DEF x
<1>4. \A a : Emit(x, a).replies = x.replies
  BY <1>3, EmitFields DEF Fields
<1> QED
  BY <1>2, <1>3, <1>4 DEF Spent

\* An answer and a new transaction give none back.
LEMMA CompletionSpends ==
  ASSUME NEW c, NEW k, NEW kinds, NEW result, NEW r, Weak(c), Spent(c, r)
  PROVE  Spent(CompleteAs(c, k, kinds, result), r)
<1>1. CASE k \in DOMAIN c.open /\ c.open[k] \in kinds
  <2>1. CompleteAs(c, k, kinds, result).replies = c.replies
    BY <1>1, EmitOneEffect DEF Fields
  <2> QED
    BY <2>1 DEF Spent
<1>2. CASE ~(k \in DOMAIN c.open /\ c.open[k] \in kinds)
  BY <1>2, CloseAllSpends DEF CompleteAs, FailRuntimeInvariant
<1> QED
  BY <1>1, <1>2

LEMMA TransactionSpends ==
  ASSUME NEW c, NEW kind, NEW k, NEW r, Weak(c), Spent(c, r)
  PROVE  Spent(StartTransaction(c, kind, k), r)
<1>1. CASE IdentifiersExhausted(c)
  BY <1>1, CloseAllSpends DEF StartTransaction, RefuseIdentifiers, FailRuntimeInvariant
<1>2. CASE ~IdentifiersExhausted(c)
  <2> DEFINE a == [kind |-> kind, command |-> k, sys |-> c.nextSys,
                   write |-> c.nextWrite, armed |-> FALSE]
             q == Put(c.pending, c.nextWrite, PendingWrite("TransactionRequest", k, None, None))
             d == [AllocateRequestIdentifiers(c) EXCEPT !.active = a, !.pending = q]
             m == SendFrame(c.nextWrite, TransactionMessage(kind, c.nextSys))
  <2>1. AllocateRequestIdentifiers(c).pending = c.pending
    BY DEF AllocateRequestIdentifiers, Weak, Shape, Fields
  <2>2. StartTransaction(c, kind, k) = Emit(d, m)
    BY <1>2, <2>1 DEF StartTransaction, AllocateRequestIdentifiers, Weak, Shape, Fields
  <2> HIDE DEF a, q, m
  <2>3. DOMAIN d = Fields /\ d.replies = c.replies
    BY DEF AllocateRequestIdentifiers, Weak, Shape, Fields
  <2> HIDE DEF d
  <2>4. Emit(d, m).replies = d.replies
    BY <2>3, EmitFields DEF Fields
  <2> QED
    BY <2>2, <2>3, <2>4 DEF Spent
<1> QED
  BY <1>1, <1>2

\* Nor does the progress of a Deselect.
LEMMA ProgressSpends ==
  ASSUME NEW c, NEW due, NEW r, IInv(c), Spent(c, r)
  PROVE  Spent(ProgressDeselect(c, due), r)
<1> DEFINE ended == [c EXCEPT !.drain = None]
<1>a. IInv(ended) /\ ended.replies = c.replies
  BY DropDrain DEF Fields
<1>1. Weak(ended) /\ Spent(ended, r)
  <2> HIDE DEF ended
  <2> QED
    BY <1>a DEF IInv, Spent
<1>2. \/ ProgressDeselect(c, due) = c
      \/ ProgressDeselect(c, due) = CompleteError(ended, c.drain, "TimeoutDrain")
      \/ ProgressDeselect(c, due) = CompleteControl(ended, c.drain, "Ok")
      \/ ProgressDeselect(c, due) = StartTransaction(ended, "Deselect", c.drain)
  BY DEF ProgressDeselect
<1> HIDE DEF ended
<1> QED
  BY <1>1, <1>2, CompletionSpends, TransactionSpends DEF CompleteError, CompleteControl

\* on_reply, unless a Deselect has overtaken the reply.
LEMMA ReplySpends ==
  ASSUME NEW c0, IInv(c0), ~c0.closing, NEW k \in Commands \ DOMAIN c0.open,
         NEW capability, NEW intent, NEW body, NEW due,
         intent = "Abandon" \/ ~RepliesBlocked(c0)
  PROVE  Spent(OnReply(c0, k, capability, intent, body, due), capability)
<1> DEFINE kind == IF intent = "Abandon" THEN "Control" ELSE "Send"
           c    == Opening(c0, k, kind)
           used == [c EXCEPT !.replies = Drop(@, {capability})]
           primary == c.replies[capability]
           function == IF intent = "Abort" THEN 0 ELSE primary.function + 1
           header  == DataHeader(primary.sid, primary.stream, function, FALSE, primary.sys)
           x == PendingWrite("DataSend", k, primary.sid, primary.sys)
           q == Put(used.pending, used.nextWrite, x)
           d == [used EXCEPT !.nextWrite = @ + 1, !.pending = q]
           m == DataMsg(header, intent = "Secondary" /\ body)
           result == OnReply(c0, k, capability, intent, body, due)
<1>1. /\ IInv(c) /\ Free(c, k, kind)
      /\ \A f \in Fields \ {"open", "out"} : c[f] = c0[f]
  <2>1. kind \in CommandKinds
    BY DEF CommandKinds
  <2> HIDE DEF kind
  <2> QED
    BY <2>1, OpenCommandIInv DEF Opening
<1>2. \/ ~(~c.closing /\ c.state = "Selected" /\ capability \in DOMAIN c.replies)
         /\ (c.closing \/ (intent # "Abandon" /\ RepliesBlocked(c)) \/ c.state # "Selected"
             \/ capability \notin DOMAIN c.replies)
         /\ \E e : result = CompleteError(c, k, e)
      \/ intent # "Abandon" /\ RepliesBlocked(c)
      \/ kind = "Control" /\ result = ProgressDeselect(CompleteControl(used, k, "Ok"), due)
      \/ result = CompleteError(used, k, "ReplyRequiresAbort")
      \/ result = FailRuntimeInvariant(used)
      \/ result = Emit(d, SendFrame(c.nextWrite, m))
  <2> HIDE DEF c
  <2>1. c.nextWrite = used.nextWrite /\ c.pending = used.pending
    BY <1>1 DEF IInv, Weak, Shape, Fields
  <2> QED
    BY <2>1 DEF OnReply, c, Opening
<1> HIDE DEF c
<1>3. IInv(used) /\ Spent(used, capability) /\ \A f \in Fields \ {"replies"} : used[f] = c[f]
  <2>1. IInv(used) /\ \A f \in Fields \ {"replies"} : used[f] = c[f]
    BY <1>1, DropReply
  <2>2. DOMAIN used.replies = DOMAIN c.replies \ {capability}
    BY <1>1 DEF IInv, Weak, Shape, Fields, Drop
  <2> QED
    BY <2>1, <2>2 DEF Spent
<1>4. ~c.closing /\ ~(intent # "Abandon" /\ RepliesBlocked(c))
  BY <1>1 DEF RepliesBlocked, Fields
<1>5. c.state # "Selected" => Spent(c, capability)
  BY <1>1, <1>4 DEF IInv, Selection, Spent
<1>6. ASSUME NEW e, Spent(c, capability)
      PROVE  Spent(CompleteError(c, k, e), capability)
  BY <1>1, <1>6, CompletionSpends DEF CompleteError, IInv
<1> HIDE DEF used
<1>7. Spent(CompleteError(used, k, "ReplyRequiresAbort"), capability)
  BY <1>3, CompletionSpends DEF CompleteError, IInv
<1>8. Spent(FailRuntimeInvariant(used), capability)
  BY <1>3, CloseAllSpends DEF FailRuntimeInvariant, IInv
<1>9. Spent(ProgressDeselect(CompleteControl(used, k, "Ok"), due), capability)
  <2>1. Free(used, k, kind)
    BY <1>1, <1>3 DEF Free, Owned, UnresolvedCommands, Fields
  <2>2. IInv(CompleteControl(used, k, "Ok"))
    BY <1>3, <2>1, CompleteAsIInv DEF CompleteControl, Free
  <2>3. Spent(CompleteControl(used, k, "Ok"), capability)
    BY <1>3, CompletionSpends DEF CompleteControl, IInv
  <2> QED
    BY <2>2, <2>3, ProgressSpends
<1>10. Spent(Emit(d, SendFrame(c.nextWrite, m)), capability)
  <2> HIDE DEF q, m
  <2>1. DOMAIN d = Fields /\ d.replies = used.replies
    BY <1>3 DEF IInv, Weak, Shape, Fields
  <2> HIDE DEF d
  <2>2. \A a : Emit(d, a).replies = d.replies
    BY <2>1, EmitFields DEF Fields
  <2> QED
    BY <1>3, <2>1, <2>2 DEF Spent
<1> HIDE DEF d, m, result, kind
<1>11. ~(~c.closing /\ c.state = "Selected" /\ capability \in DOMAIN c.replies) => Spent(c, capability)
  BY <1>4, <1>5 DEF Spent
<1>12. Spent(result, capability)
  BY <1>2, <1>4, <1>6, <1>7, <1>8, <1>9, <1>10, <1>11
<1> QED
  BY <1>12 DEF result

\* A rejected reply is the application's again.
LEMMA RejectedTrusts ==
  ASSUME NEW d, NEW R, NEW acc, NEW error, Sound(d, R, acc), d.queue # <<>>, Entrusted(d, {})
  PROVE  Entrusted(Rejected(DequeueCommand(d), Head(d.queue), error), {})
<1> DEFINE h == Head(d.queue)
           x == DequeueCommand(d)
           e == Rejected(x, h, error)
<1>1. DOMAIN d = DriverFields /\ IsBatch(d.queue)
  BY DEF Sound, Coherent, Formed, Books, Chargeable
<1>2. /\ DOMAIN x = DriverFields /\ x.queue = Tail(d.queue)
      /\ \A f \in DriverFields \ {"queue", "bytes"} : x[f] = d[f]
  BY <1>1, DequeuedEffect
<1> HIDE DEF x
<1>3. x.inbound = d.inbound /\ x.held = d.held /\ x.closing = d.closing /\ x.core = d.core
  BY <1>2 DEF DriverFields
<1>4. Entrusted(x, InHand(h))
  BY <1>1, <1>2, <1>3, TrustTakes
<1> HIDE DEF h
<1>5. /\ \A f \in DriverFields \ {"answers", "held"} : e[f] = x[f]
      /\ e.held = IF IsReply(h) THEN x.held \cup {h.token} ELSE x.held
  BY <1>2 DEF Rejected, Answer, DriverFields
<1> HIDE DEF e
<1>6. e.inbound = x.inbound /\ e.queue = x.queue /\ e.closing = x.closing /\ e.core = x.core
  BY <1>5 DEF DriverFields
<1>7. Entrusted(e, {})
  BY <1>4, <1>5, <1>6, TrustReturns
<1> QED
  BY <1>7 DEF e, x, h

\* What a command begins from knows the capabilities of Core.
LEMMA AcceptingGrants ==
  ASSUME NEW c, NEW k, NEW kind, IInv(c)
  PROVE  LET p == Accepting(c, k, kind)
         IN  p.nextReply = c.nextReply /\ p.replies = DOMAIN c.replies
<1> DEFINE b == Begin(c)
           o == [b EXCEPT !.open = Put(@, k, kind)]
<1>1. DOMAIN b = Fields /\ \A f \in Fields \ {"out"} : b[f] = c[f]
  BY BeginIInv DEF IInv, Weak, Shape
<1> HIDE DEF b
<1>2. o.nextReply = c.nextReply /\ o.replies = c.replies
  BY <1>1 DEF Fields
<1>3. o = Opening(c, k, kind)
  BY DEF Opening, b
<1> HIDE DEF o
<1> QED
  BY <1>2, <1>3 DEF Accepting, Permitted, Snapshot

\* A presented reply has spent its capability.
LEMMA PresentTrusts ==
  ASSUME NEW d, NEW fails, NEW R, NEW acc, Sound(d, R, acc), d.queue # <<>>, d.closing = None,
         Entrusted(d, {}), ~ReplyOvertaken(d, Head(d.queue))
  PROVE  Entrusted(PresentCommand(DequeueCommand(d), Head(d.queue), fails), {})
<1> DEFINE h == Head(d.queue)
           x == DequeueCommand(d)
           k == d.nextCommand
           e == PresentCommand(x, h, fails)
           kind == CompletionKind(h)
<1>1. /\ k \in 0..CommandSpace /\ CommandSpace \in Nat
      /\ h.kind \in CommandNames \cup {"Reply"}
  <2>1. 1 \in DOMAIN d.queue /\ h = d.queue[1]
    BY RestOfBatch DEF Sound, Books, Chargeable
  <2> QED
    BY <2>1, DriverAssumption DEF Sound, Books
<1>2. x.nextCommand = k
  BY DequeuedEffect DEF Sound, Coherent, Formed, DriverFields
<1>b. IsBatch(d.queue)
  BY DEF Sound, Books, Chargeable
<1> HIDE DEF h
<1>3. CASE k = CommandSpace
  <2> DEFINE y == Rejected(x, h, "ConnectionLost")
             reason == "RuntimeInvariant"
  <2>1. e = ShutDown(y, reason)
    BY <1>2, <1>3 DEF PresentCommand
  <2>2. Sound(y, R, acc)
    BY RejectedSound DEF Goes, h
  <2>3. Entrusted(y, {})
    BY RejectedTrusts DEF h
  <2>4. reason \in AllReasons
    BY DEF AllReasons, GenerationReasons
  <2> HIDE DEF x, y, reason, e
  <2>5. Entrusted(ShutDown(y, reason), {})
    BY <2>2, <2>3, <2>4, ShutDownTrusts
  <2> QED
    BY <2>1, <2>5 DEF e, x, h
<1>4. CASE k # CommandSpace
  <2>0. k < CommandSpace /\ k \in Nat
    BY <1>1, <1>4
  <2> DEFINE n == [x EXCEPT !.nextCommand = @ + 1, !.writer = MetAtAdmission(@, fails),
                            !.completions = Put(@, x.nextCommand, [op |-> h.op, kind |-> kind])]
             c == IF IsReply(h)
                  THEN OnReply(x.core, x.nextCommand, h.token.capability, h.intent, h.body, FALSE)
                  ELSE OnCommand(x.core, x.nextCommand, h.kind, h.primary)
             permit == RequiresDataPermit(h)
             y == ApplyBatch(n, c, permit, None, None)
  <2>1. e = FinishCloseIfReady(y)
    BY <1>2, <1>4 DEF PresentCommand
  <2>2. Presented(d, n, kind) /\ x.core = d.core
    BY <2>0, PresentedEffect DEF h
  <2>3. /\ kind \in CommandKinds /\ (kind # "Control" => permit)
        /\ ~IsReply(h) => h.kind \in CommandNames /\ kind = OpenKind(h.kind)
        /\ IsReply(h) => kind = IF h.intent = "Abandon" THEN "Control" ELSE "Send"
    BY <1>1, PresentedKind
  <2>4. k \in Commands \ DOMAIN d.core.open
    <3>1. k \in Commands
      BY <1>1, <2>0, DriverAssumption
    <3>2. k \notin DOMAIN d.completions
      BY <2>0, DriverAssumption DEF Sound, Coherent
    <3> QED
      BY <3>1, <3>2 DEF Sound, Coherent
  <2>5. IInv(d.core) /\ Traced(d.core)
    BY DEF Sound, Coherent
  <2> HIDE DEF kind, permit, n, x
  <2> DEFINE p == Accepting(d.core, k, kind)
  <2>6. /\ IInv(c) /\ Run(p, d.core.state, c)
        /\ \A r \in DOMAIN c.replies : r \notin InHand(h)
    <3>1. CASE IsReply(h)
      <4>1. c = OnReply(d.core, k, h.token.capability, h.intent, h.body, FALSE)
        BY <1>2, <2>2, <3>1
      <4>2. kind = IF h.intent = "Abandon" THEN "Control" ELSE "Send"
        BY <2>3, <3>1
      <4>3. IInv(OnReply(d.core, k, h.token.capability, h.intent, h.body, FALSE))
        BY <2>4, <2>5, OnReplyIInv
      <4>4. Run(p, d.core.state, OnReply(d.core, k, h.token.capability, h.intent, h.body, FALSE))
        BY <2>4, <2>5, <4>2, RunOnReply
      <4>5. ~d.core.closing
        BY DEF Sound, Coherent
      <4>6. h.intent = "Abandon" \/ ~RepliesBlocked(d.core)
        BY <3>1 DEF ReplyOvertaken, h
      <4>7. Spent(OnReply(d.core, k, h.token.capability, h.intent, h.body, FALSE),
                  h.token.capability)
        BY <2>4, <2>5, <4>5, <4>6, ReplySpends
      <4>8. InHand(h) = {h.token.capability}
        BY <3>1 DEF InHand
      <4> HIDE DEF p, c
      <4> QED
        BY <4>1, <4>3, <4>4, <4>7, <4>8 DEF Spent
    <3>2. CASE ~IsReply(h)
      <4>1. c = OnCommand(d.core, k, h.kind, h.primary)
        BY <1>2, <2>2, <3>2
      <4>2. kind = OpenKind(h.kind) /\ h.kind \in CommandNames
        BY <2>3, <3>2
      <4>3. IInv(OnCommand(d.core, k, h.kind, h.primary))
        BY <2>4, <2>5, <4>2, OnCommandIInv
      <4>4. Run(p, d.core.state, OnCommand(d.core, k, h.kind, h.primary))
        BY <2>4, <2>5, <4>2, RunOnCommand
      <4>5. InHand(h) = {}
        BY <3>2 DEF InHand
      <4> HIDE DEF p, c
      <4> QED
        BY <4>1, <4>3, <4>4, <4>5
    <3> QED
      BY <3>1, <3>2
  <2> HIDE DEF c
  <2>7. IsBatch(c.out)
    BY <2>6 DEF Run, Log
  <2>8. PICK none : none = None
    OBVIOUS
  <2>9. PICK first \in AllReasons \cup {None} : first = None
    OBVIOUS
  <2>10. /\ Ready(n, c, p, permit, none, R, acc) /\ Level(n, p, {}) /\ Books(n)
    BY <2>0, <2>2, <2>3, <2>6, <2>7, PresentedReady
  <2>11. p.cause \in OrdinaryReasons
    BY <2>5, AcceptingParts, OrdinaryReasonsAre
  <2>12. p.nextReply = d.core.nextReply /\ p.replies = DOMAIN d.core.replies
    BY <2>5, AcceptingGrants
  <2> HIDE DEF p
  <2>13. Reasoned(c, OrdinaryReasons)
    BY <2>6, <2>11, RunReasons
  <2>14. Allows(first, OrdinaryReasons)
    BY <2>9, OrdinaryReasonsAre DEF Allows
  <2>15. /\ n.core = d.core /\ n.closing = d.closing /\ n.inbound = d.inbound /\ n.held = d.held
         /\ n.queue = Tail(d.queue)
    BY <2>2 DEF Presented, DriverFields
  <2>16. Grants(n, p)
    BY <2>12, <2>15 DEF Grants
  <2>17. Entrusted(n, InHand(h))
    BY <1>b, <2>15, TrustTakes DEF h
  <2> DEFINE g == FinishCloseIfReady(ApplyBatch(n, c, permit, none, first))
             X == InHand(h)
  <2>18. e = g
    BY <2>1, <2>8, <2>9
  <2>19. Entrusted(n, X) /\ \A r \in DOMAIN c.replies : r \notin X
    BY <2>6, <2>17
  <2> HIDE DEF X, e, y
  <2>20. Entrusted(g, {})
    BY <2>6, <2>10, <2>13, <2>14, <2>16, <2>19, RoundTrusts
  <2> HIDE DEF g
  <2> QED
    BY <2>18, <2>20 DEF e, x, h
<1> QED
  BY <1>3, <1>4

\* The Writer's ingress is found closed.
LEMMA LostSlotTrusts ==
  ASSUME NEW d, NEW R, NEW acc, Sound(d, R, acc), d.closing = None, Entrusted(d, {})
  PROVE  Entrusted(FinishCloseIfReady(ShutdownAfterDriverFailure(d, "TransportLost", None)), {})
<1>1. "TransportLost" \in AllReasons
  BY DEF AllReasons, GenerationReasons
<1>2. PICK reason \in AllReasons : reason = "TransportLost"
  BY <1>1
<1>3. PICK write : write = None
  OBVIOUS
<1> DEFINE f == ShutdownAfterDriverFailure(d, reason, write)
<1>4. Coherent(d, R, {}, acc) /\ Broken(d, R, {}, acc) /\ Books(d) /\ ~d.closed
  BY CoherentIsBroken DEF Sound, Coherent
<1>5. SamePlaces(d, f) /\ f.closing # None
  BY <1>3, <1>4, FailureOffers
<1>6. Coherent(f, R, {}, acc) /\ Untouched(d, f)
  BY <1>3, <1>4, FailureCoheres
<1> HIDE DEF f
<1>7. Entrusted(f, {})
  BY <1>5, CloseTrusts
<1>8. Formed(f) /\ IsBatch(f.queue)
  BY <1>4, <1>5, <1>6 DEF Coherent, SamePlaces, Books, Chargeable
<1>9. Entrusted(FinishCloseIfReady(f), {})
  BY <1>7, <1>8, FinishTrusts
<1> QED
  BY <1>2, <1>3, <1>9 DEF f

\* drive_next_command of the head of the queue.
LEMMA HeadTrusts ==
  ASSUME NEW d, NEW fails, NEW slot, NEW R, NEW acc, Sound(d, R, acc), d.queue # <<>>,
         d.closing = None, Entrusted(d, {})
  PROVE  Entrusted(DriveHead(DequeueCommand(d), Head(d.queue), slot, fails), {})
<1> DEFINE h == Head(d.queue)
           x == DequeueCommand(d)
           e == DriveHead(x, h, slot, fails)
<1> SUFFICES Entrusted(e, {})
  OBVIOUS
<1>1. ASSUME NEW error
      PROVE  /\ Entrusted(Rejected(x, h, error), {}) /\ Sound(Rejected(x, h, error), R, acc)
             /\ Rejected(x, h, error).closing = None
  BY RejectedTrusts, RejectedSound DEF Goes, SameCore
<1>2. x.core = d.core
  BY DequeuedEffect DEF Sound, Coherent, Formed, DriverFields
<1>3. ~ReplyOvertaken(x, h) => Entrusted(PresentCommand(x, h, fails), {})
  BY <1>2, PresentTrusts DEF ReplyOvertaken
<1> HIDE DEF h, x
<1>4. CASE ReplyOvertaken(x, h)
  BY <1>1, <1>4 DEF DriveHead
<1>5. CASE ~ReplyOvertaken(x, h) /\ slot = "ConnectionLost"
  <2> DEFINE y == Rejected(x, h, slot)
             z == FinishCloseIfReady(ShutdownAfterDriverFailure(y, "TransportLost", None))
  <2>1. e = z
    BY <1>5 DEF DriveHead
  <2>2. Entrusted(y, {}) /\ Sound(y, R, acc) /\ y.closing = None
    BY <1>1
  <2> HIDE DEF y, e
  <2>3. Entrusted(z, {})
    BY <2>2, LostSlotTrusts
  <2> QED
    BY <2>1, <2>3
<1>6. CASE ~ReplyOvertaken(x, h) /\ slot \notin {"ConnectionLost", "Reserved"}
  BY <1>1, <1>6 DEF DriveHead
<1>7. CASE ~ReplyOvertaken(x, h) /\ slot = "Reserved"
  BY <1>3, <1>7 DEF DriveHead
<1> HIDE DEF e
<1> QED
  BY <1>4, <1>5, <1>6, <1>7

\* drive_next_command.
LEMMA CommandTrusts ==
  ASSUME NEW d, NEW due, NEW fails, NEW R, NEW acc, Sound(d, R, acc), d.queue # <<>>,
         Entrusted(d, {})
  PROVE  Entrusted(DriveNextCommand(d, due, fails), {})
<1> DEFINE x == ProcessDueDeadlines(d, due)
           e == DriveTimely(x, fails)
<1>1. Sound(x, R, acc) /\ Waiting(d, x)
  BY TimelyGoes DEF Goes
<1>2. DriveNextCommand(d, due, fails) = e
  BY DEF DriveNextCommand
<1>3. Entrusted(x, {})
  BY TimelyTrusts
<1> HIDE DEF x
<1>4. CASE x.closing # None
  BY <1>2, <1>3, <1>4 DEF DriveTimely
<1>5. CASE x.closing = None
  <2> DEFINE slot == Slot(x, Head(x.queue))
             f == DriveHead(DequeueCommand(x), Head(x.queue), slot, fails)
  <2>1. e = f
    BY <1>5 DEF DriveTimely
  <2>2. x.queue # <<>>
    BY <1>1, <1>5 DEF Waiting
  <2> HIDE DEF slot
  <2>3. Entrusted(f, {})
    BY <1>1, <1>3, <1>5, <2>2, HeadTrusts
  <2> HIDE DEF e, f
  <2> QED
    BY <1>2, <2>1, <2>3
<1> QED
  BY <1>4, <1>5

\* A command that is no reply is queued.
LEMMA TrustEnqueues ==
  ASSUME NEW d, NEW e, NEW x, Entrusted(d, {}), IsBatch(d.queue), ~IsReply(x),
         e.inbound = d.inbound, e.held = d.held, e.queue = Append(d.queue, x),
         e.closing = d.closing, e.core = d.core
  PROVE  Entrusted(e, {})
<1>1. \A r : Offered(e, r) = Offered(d, r) /\ Carried(e, r) = Carried(d, r)
  BY DEF Offered, Carried
<1>2. \A r : Enqueued(e, r) = Enqueued(d, r)
  BY AppendedBatch DEF Enqueued
<1>3. \A r : (Placed(e, r) <=> Placed(d, r)) /\ (Sole(e, r) <=> Sole(d, r))
  BY <1>1, <1>2 DEF Placed, Sole
<1> QED
  BY <1>3 DEF Entrusted

\* A reply is queued: its token leaves the application.
LEMMA TrustAccepts ==
  ASSUME NEW d, NEW e, NEW x, Entrusted(d, {}), IsBatch(d.queue), IsReply(x), x.token \in d.held,
         e.inbound = d.inbound, e.held = d.held \ {x.token}, e.queue = Append(d.queue, x),
         e.closing = d.closing, e.core = d.core
  PROVE  Entrusted(e, {})
<1> SUFFICES ASSUME NEW r \in ReplyIds
             PROVE  /\ Sole(e, r)
                    /\ Placed(e, r) => r < e.core.nextReply
                    /\ e.closing = None /\ r \in DOMAIN e.core.replies => Placed(e, r)
  BY DEF Entrusted
<1>1. /\ Sole(d, r)
      /\ Placed(d, r) => r < d.core.nextReply
      /\ d.closing = None /\ r \in DOMAIN d.core.replies => Placed(d, r)
  BY DEF Entrusted
<1>2. Offered(e, r) = Offered(d, r)
  BY DEF Offered
<1>3. CASE x.token.capability # r
  <2>1. Carried(e, r) = Carried(d, r)
    BY <1>3 DEF Carried
  <2>2. Enqueued(e, r) = Enqueued(d, r)
    BY <1>3, AppendedBatch DEF Enqueued
  <2>3. (Placed(e, r) <=> Placed(d, r)) /\ (Sole(e, r) <=> Sole(d, r))
    BY <1>2, <2>1, <2>2 DEF Placed, Sole
  <2> QED
    BY <1>1, <2>3
<1>4. CASE x.token.capability = r
  <2>1. x.token \in Carried(d, r)
    BY <1>4 DEF Carried
  <2>2. \A t \in Carried(d, r) : t = x.token
    BY <1>1, <2>1 DEF Sole, Single
  <2>3. Carried(e, r) = {}
    BY <2>2 DEF Carried
  <2>4. Offered(d, r) = {} /\ Enqueued(d, r) = {} /\ Placed(d, r)
    BY <1>1, <2>1 DEF Sole, Placed
  <2>5. Enqueued(e, r) = Enqueued(d, r) \cup {Len(d.queue) + 1}
    BY <1>4, AppendedBatch DEF Enqueued
  <2>6. Sole(e, r) /\ Placed(e, r)
    BY <1>2, <2>3, <2>4, <2>5 DEF Sole, Placed, Single
  <2> QED
    BY <1>1, <2>4, <2>6
<1> QED
  BY <1>3, <1>4

\* A Primary is taken: the application holds its token.
LEMMA TrustHands ==
  ASSUME NEW d, NEW e, Entrusted(d, {}), IsBatch(d.inbound), d.inbound # <<>>,
         e.inbound = Tail(d.inbound), e.queue = d.queue,
         e.held = IF Head(d.inbound).capability = None THEN d.held
                  ELSE d.held \cup {Head(d.inbound)},
         e.closing = d.closing, e.core = d.core
  PROVE  Entrusted(e, {})
<1> DEFINE h == Head(d.inbound)
<1> SUFFICES ASSUME NEW r \in ReplyIds
             PROVE  /\ Sole(e, r)
                    /\ Placed(e, r) => r < e.core.nextReply
                    /\ e.closing = None /\ r \in DOMAIN e.core.replies => Placed(e, r)
  BY DEF Entrusted
<1>1. /\ Sole(d, r)
      /\ Placed(d, r) => r < d.core.nextReply
      /\ d.closing = None /\ r \in DOMAIN d.core.replies => Placed(d, r)
  BY DEF Entrusted
<1>0. r # None
  BY SpaceAssumption, NoneAssumption DEF ReplyIds
<1>2. Enqueued(e, r) = Enqueued(d, r)
  BY DEF Enqueued
<1>3. /\ 1 \in DOMAIN d.inbound /\ h = d.inbound[1]
      /\ \A i \in DOMAIN e.inbound :
           i \in Nat /\ i + 1 \in DOMAIN d.inbound /\ e.inbound[i] = d.inbound[i + 1]
      /\ \A i \in DOMAIN d.inbound : i # 1 => i - 1 \in DOMAIN e.inbound
  BY RestOfBatch
<1>a. DOMAIN e.inbound \subseteq Nat \ {0} /\ DOMAIN d.inbound \subseteq Nat
  BY BatchShape, RestOfBatch
<1>b. Carried(e, r) = IF h.capability = r THEN Carried(d, r) \cup {h} ELSE Carried(d, r)
  BY <1>0 DEF Carried
<1> HIDE DEF h
<1>4. h.capability = r <=> 1 \in Offered(d, r)
  BY <1>3 DEF Offered
<1>5. \A i \in Offered(e, r) : i \in Nat \ {0} /\ i + 1 \in Offered(d, r)
  BY <1>3, <1>a DEF Offered
<1>6. \A i \in Offered(d, r) : i \in Nat /\ (i # 1 => i - 1 \in Offered(e, r))
  <2> SUFFICES ASSUME NEW i \in Offered(d, r), i # 1
               PROVE  i - 1 \in Offered(e, r)
    BY <1>a DEF Offered
  <2>1. i \in DOMAIN d.inbound /\ i \in Nat /\ d.inbound[i].capability = r
    BY <1>a DEF Offered
  <2>2. /\ i - 1 \in DOMAIN e.inbound /\ e.inbound[i - 1] = d.inbound[(i - 1) + 1]
        /\ (i - 1) + 1 = i
    BY <1>3, <2>1
  <2> QED
    BY <2>1, <2>2 DEF Offered
<1>7. Single(Offered(e, r))
  <2> SUFFICES ASSUME NEW i \in Offered(e, r), NEW j \in Offered(e, r) PROVE i = j
    BY DEF Single
  <2>1. i \in Nat /\ j \in Nat /\ i + 1 \in Offered(d, r) /\ j + 1 \in Offered(d, r)
    BY <1>5
  <2>2. i + 1 = j + 1
    BY <1>1, <2>1 DEF Sole, Single
  <2> QED
    BY <2>1, <2>2
<1>8. Offered(d, r) = {} => Offered(e, r) = {}
  BY <1>5
<1>9. CASE h.capability = r
  <2>1. 1 \in Offered(d, r)
    BY <1>4, <1>9
  <2>2. \A i \in Offered(d, r) : i = 1
    BY <1>1, <2>1 DEF Sole, Single
  <2>3. Offered(e, r) = {}
    <3> SUFFICES ASSUME NEW i \in Offered(e, r) PROVE FALSE
      OBVIOUS
    <3>1. i \in Nat \ {0} /\ i + 1 = 1
      BY <1>5, <2>2
    <3> QED
      BY <3>1
  <2>4. Enqueued(d, r) = {} /\ Carried(d, r) = {} /\ Placed(d, r)
    BY <1>1, <2>1 DEF Sole, Placed
  <2>5. Carried(e, r) = {h}
    BY <1>b, <1>9, <2>4
  <2>6. Sole(e, r) /\ Placed(e, r)
    BY <1>2, <2>3, <2>4, <2>5 DEF Sole, Placed, Single
  <2> QED
    BY <1>1, <2>4, <2>6
<1>10. CASE h.capability # r
  <2>1. Carried(e, r) = Carried(d, r)
    BY <1>b, <1>10
  <2>2. Offered(d, r) # {} => Offered(e, r) # {}
    BY <1>4, <1>6, <1>10
  <2>3. Placed(e, r) <=> Placed(d, r)
    BY <1>2, <1>8, <2>1, <2>2 DEF Placed
  <2>4. Sole(e, r)
    BY <1>1, <1>2, <1>7, <1>8, <2>1 DEF Sole
  <2> QED
    BY <1>1, <2>3, <2>4
<1> QED
  BY <1>9, <1>10

\* Between two rounds nothing is in the hands of one.
Entrustment == Entrusted(driver, {})

\* try_accept_control, and the two that carry data.
LEMMA AdmitTrusts ==
  ASSUME NEW done, Rested(done), Entrusted(driver, {}), NEW op, NEW kind \in CommandNames,
         NEW primary, NEW body, NEW charge, Admit(Accepted(op, kind, primary, None, None, body, charge))
  PROVE  Entrusted(driver', {})
<1> DEFINE x == Accepted(op, kind, primary, None, None, body, charge)
           e == Enqueue(driver, x)
<1>1. driver' = e
  BY DEF Admit
<1>2. ~IsReply(x)
  BY DEF Accepted, IsReply, CommandNames, ControlCommands
<1> HIDE DEF x
<1>3. DOMAIN driver = DriverFields /\ IsBatch(driver.queue)
  BY DEF Rested, Sound, Coherent, Formed, Books, Chargeable
<1>4. /\ e.inbound = driver.inbound /\ e.held = driver.held /\ e.queue = Append(driver.queue, x)
      /\ e.closing = driver.closing /\ e.core = driver.core
  BY <1>3 DEF Enqueue, DriverFields
<1> HIDE DEF e
<1>5. Entrusted(e, {})
  BY <1>2, <1>3, <1>4, TrustEnqueues
<1> QED
  BY <1>1, <1>5

\* try_accept_reply.
LEMMA AcceptReplyTrusts ==
  ASSUME NEW done, Rested(done), Entrusted(driver, {}), NEW op, NEW intent,
         NEW token \in driver.held, TryAcceptReply(op, intent, token)
  PROVE  Entrusted(driver', {})
<1> DEFINE x == Accepted(op, "Reply", None, intent, token, FALSE, CommandCharge(FALSE))
           e == [Enqueue(driver, x) EXCEPT !.held = @ \ {token}]
<1>1. driver' = e
  BY DEF TryAcceptReply
<1>2. IsReply(x) /\ x.token = token
  BY DEF Accepted, IsReply
<1> HIDE DEF x
<1>3. DOMAIN driver = DriverFields /\ IsBatch(driver.queue)
  BY DEF Rested, Sound, Coherent, Formed, Books, Chargeable
<1>4. /\ e.inbound = driver.inbound /\ e.held = driver.held \ {token}
      /\ e.queue = Append(driver.queue, x)
      /\ e.closing = driver.closing /\ e.core = driver.core
  BY <1>3 DEF Enqueue, DriverFields
<1> HIDE DEF e
<1>5. Entrusted(e, {})
  BY <1>2, <1>3, <1>4, TrustAccepts
<1> QED
  BY <1>1, <1>5

\* take_inbound.
LEMMA TakeInboundTrusts ==
  ASSUME NEW done, Rested(done), Entrusted(driver, {}), TakeInbound
  PROVE  Entrusted(driver', {})
<1> DEFINE held == IF Head(driver.inbound).capability = None THEN driver.held
                   ELSE driver.held \cup {Head(driver.inbound)}
           rest == Tail(driver.inbound)
           e == [driver EXCEPT !.inbound = rest, !.held = held]
<1>1. driver.inbound # <<>> /\ driver' = e
  BY DEF TakeInbound
<1>2. DOMAIN driver = DriverFields /\ IsBatch(driver.inbound)
  BY DEF Rested, Sound, Coherent, Formed
<1> HIDE DEF held, rest
<1>3. /\ e.inbound = rest /\ e.held = held /\ e.queue = driver.queue
      /\ e.closing = driver.closing /\ e.core = driver.core
  BY <1>2 DEF DriverFields
<1> HIDE DEF e
<1>4. Entrusted(e, {})
  BY <1>1, <1>2, <1>3, TrustHands DEF held, rest
<1> QED
  BY <1>1, <1>4

\* begin_graceful_close, and every step of the Writer's task.
LEMMA QuietTrusts ==
  ASSUME NEW done, Rested(done), Entrusted(driver, {}),
         \/ \E r : BeginGracefulClose(r)
         \/ WriterTask
  PROVE  Entrusted(driver', {})
<1>1. \/ driver' = [driver EXCEPT !.draining = TRUE]
      \/ \E w : driver' = [driver EXCEPT !.writer = w]
  BY DEF BeginGracefulClose, WriterTask, WriteSome, WriteAll, FaultWriter, ReportFault,
     StopWriter, LoseWriter, WriterStep
<1>2. DOMAIN driver = DriverFields
  BY DEF Rested, Sound, Coherent, Formed
<1>3. /\ driver'.inbound = driver.inbound /\ driver'.held = driver.held
      /\ driver'.queue = driver.queue /\ driver'.closing = driver.closing
      /\ driver'.core = driver.core
  BY <1>1, <1>2 DEF DriverFields
<1> QED
  BY <1>3, TrustSame

\* advance_shutdown.
LEMMA AdvanceTrusts ==
  ASSUME NEW d, NEW drained, NEW expired, NEW R, NEW acc, Sound(d, R, acc),
         shutdown \in {None} \cup Drains, Entrusted(d, {})
  PROVE  Entrusted(AdvanceShutdown(d, drained, expired), {})
<1>1. shutdown # None => shutdown.reason \in AllReasons
  BY DEF Drains, AllReasons
<1>2. \/ AdvanceShutdown(d, drained, expired) = d
      \/ shutdown # None
         /\ AdvanceShutdown(d, drained, expired) = ShutDown(d, shutdown.reason)
      \/ shutdown # None
         /\ AdvanceShutdown(d, drained, expired) = FinishDriverDrain(d, shutdown.reason)
  BY DEF AdvanceShutdown
<1>3. shutdown # None => /\ Entrusted(ShutDown(d, shutdown.reason), {})
                         /\ Entrusted(FinishDriverDrain(d, shutdown.reason), {})
  BY <1>1, ShutDownTrusts, TailTrusts
<1> QED
  BY <1>2, <1>3

\* The rounds.
LEMMA RoundsTrust ==
  ASSUME NEW done, Rested(done), Entrusted(driver, {}), Rounds
  PROVE  Entrusted(driver', {})
<1> DEFINE acc == Ledger(accepted, done)
           R == driver.writer.reports
<1>1. Sound(driver, R, acc) /\ shutdown \in {None} \cup Drains
  BY DEF Rested, Shapes
<1> HIDE DEF acc
<1>2. ASSUME NEW due, NEW fails, CommandRound(due, fails)
      PROVE  Entrusted(driver', {})
  BY <1>1, <1>2, CommandTrusts DEF CommandRound
<1>3. ASSUME NEW m \in PeerMessages, NEW due, MessageRound(m, due)
      PROVE  Entrusted(driver', {})
  BY <1>1, <1>3, MessageTrusts, RuntimeAssumption DEF MessageRound
<1>4. ASSUME NEW v, NEW due, NEW room, ViolationRound(v, due, room)
      PROVE  Entrusted(driver', {})
  BY <1>1, <1>4, ViolationTrusts DEF ViolationRound
<1>5. ASSUME NEW due, NEW late, WriteRound(due, late)
      PROVE  Entrusted(driver', {})
  BY <1>1, <1>5, ReportTrusts DEF WriteRound, ReportReady
<1>6. ASSUME NEW r \in ReaderEnds, ReaderStopped(r)
      PROVE  Entrusted(driver', {})
  <2>1. r \in AllReasons
    BY DEF AllReasons
  <2> QED
    BY <1>1, <1>6, <2>1, ShutDownTrusts DEF ReaderStopped
<1>7. ASSUME WriterStopped
      PROVE  Entrusted(driver', {})
  <2> DEFINE reason == IF tasks.poison THEN "RuntimeInvariant" ELSE "TransportLost"
             s == ShutDown(driver, reason)
  <2>1. driver' = WriterGone(s) /\ R = <<>>
    BY <1>7 DEF WriterStopped, WriterEnded, ReportReady
  <2>2. reason \in AllReasons
    BY DEF AllReasons, GenerationReasons
  <2> HIDE DEF reason
  <2>3. Sound(s, R, acc) /\ s.closed
    BY <1>1, <2>2, ShutDownGoes DEF Goes
  <2>4. Entrusted(s, {})
    BY <1>1, <2>2, ShutDownTrusts
  <2> HIDE DEF s
  <2>5. Sound(s, <<>>, acc)
    BY <2>1, <2>3
  <2> QED
    BY <2>1, <2>3, <2>4, <2>5, WriterGoneTrusts
<1>8. ASSUME NEW due, NEW drained, NEW expired, TimerRound(due, drained, expired)
      PROVE  Entrusted(driver', {})
  <2> DEFINE d == ProcessDueDeadlines(driver, due)
  <2>1. driver' = AdvanceShutdown(d, drained, expired)
    BY <1>8 DEF TimerRound
  <2>2. Sound(d, R, acc) /\ Entrusted(d, {})
    BY <1>1, TimelyGoes, TimelyTrusts DEF Goes
  <2> HIDE DEF d
  <2> QED
    BY <1>1, <2>1, <2>2, AdvanceTrusts
<1>9. CASE ShutdownRound
  BY <1>1, <1>9, AdvanceTrusts DEF ShutdownRound
<1> QED
  BY <1>2, <1>3, <1>4, <1>5, <1>6, <1>7, <1>8, <1>9 DEF Rounds

\* The cleanup.
LEMMA CleanupTrusts ==
  ASSUME NEW done, Rested(done), Entrusted(driver, {}), Cleanup
  PROVE  Entrusted(driver', {})
<1> DEFINE acc == Ledger(accepted, done)
           R == driver.writer.reports
<1>1. Sound(driver, R, acc) /\ (~tasks.writer => R = <<>>)
  BY DEF Rested, Joined
<1>2. driver.closed => Entrusted(ShutDown(driver, driver.closing.reason), {})
  <2> SUFFICES ASSUME driver.closed
               PROVE  Entrusted(ShutDown(driver, driver.closing.reason), {})
    OBVIOUS
  <2>1. driver.closing \in Closings
    BY <1>1 DEF Sound, Coherent
  <2> DEFINE reason == driver.closing.reason
  <2>2. reason \in AllReasons
    BY <2>1 DEF Closings
  <2> HIDE DEF reason, acc
  <2>3. Entrusted(ShutDown(driver, reason), {})
    BY <1>1, <2>2, ShutDownTrusts
  <2> QED
    BY <2>3 DEF reason
<1>3. driver.closed /\ ~tasks.writer => Entrusted(WriterGone(driver), {})
  <2> SUFFICES ASSUME driver.closed, ~tasks.writer PROVE Entrusted(WriterGone(driver), {})
    OBVIOUS
  <2>1. Sound(driver, <<>>, acc)
    BY <1>1
  <2> HIDE DEF acc
  <2> QED
    BY <2>1, WriterGoneTrusts
<1>4. phase # "running" => driver.closed
  BY DEF Rested, Joined
<1>5. CASE Finish
  BY <1>2, <1>5 DEF Finish
<1>6. CASE CleanupReport
  <2> HIDE DEF acc
  <2> QED
    BY <1>1, <1>6, ReportTrusts DEF CleanupReport, ReportReady
<1>7. CASE JoinReader \/ JoinWriter
  <2>1. driver' = driver
    BY <1>7 DEF JoinReader, JoinWriter
  <2> QED
    BY <2>1
<1>8. CASE CleanupDone
  BY <1>3, <1>4, <1>8 DEF CleanupDone, CleaningUp
<1>9. CASE CleanupExpired
  BY <1>3, <1>4, <1>9 DEF CleanupExpired, CleaningUp, SettleIfJoined
<1>10. CASE Recover
  BY <1>2, <1>4, <1>10 DEF Recover
<1> QED
  BY <1>5, <1>6, <1>7, <1>8, <1>9, <1>10 DEF Cleanup

\* Every step keeps the tokens in order.
LEMMA EntrustmentStep ==
  ASSUME GenerationInv, Entrustment, [Next]_vars
  PROVE  Entrustment'
<1> SUFFICES Entrusted(driver', {})
  BY DEF Entrustment
<1>1. Rested({}) /\ Entrusted(driver, {})
  BY DEF GenerationInv, Entrustment
<1>2. ASSUME NEW op \in Operations, NEW kind \in Kinds \cap ControlCommands,
             TryAcceptControl(op, kind)
      PROVE  Entrusted(driver', {})
  BY <1>1, <1>2, RuntimeAssumption, AdmitTrusts DEF TryAcceptControl
<1>3. ASSUME NEW op \in Operations, NEW kind \in Kinds \ ControlCommands, NEW p \in Primaries,
             TryAcceptData(op, kind, p)
      PROVE  Entrusted(driver', {})
  BY <1>1, <1>3, RuntimeAssumption, AdmitTrusts DEF TryAcceptData
<1>4. ASSUME NEW r \in ForcedReasons, ForceClose(r)
      PROVE  Entrusted(driver', {})
  <2>1. r \in AllReasons
    BY DEF AllReasons
  <2> QED
    BY <1>1, <1>4, <2>1, RestedSound, ShutDownTrusts DEF ForceClose
<1>5. CASE Application
  BY <1>1, <1>2, <1>3, <1>4, <1>5, AcceptReplyTrusts, TakeInboundTrusts, QuietTrusts
     DEF Application
<1>6. CASE WriterTask
  BY <1>1, <1>6, QuietTrusts
<1>7. CASE Rounds
  BY <1>1, <1>7, RoundsTrust
<1>8. CASE Cleanup
  BY <1>1, <1>8, CleanupTrusts
<1>9. CASE UNCHANGED vars
  <2>1. driver' = driver
    BY <1>9 DEF vars
  <2> QED
    BY <1>1, <2>1
<1> QED
  BY <1>5, <1>6, <1>7, <1>8, <1>9 DEF Next

\* A new Driver has granted nothing.
LEMMA NewTrusts == Entrusted(NewDriver, {})
<1> DEFINE d == NewDriver
<1>1. /\ d.inbound = <<>> /\ d.held = {} /\ d.queue = <<>> /\ d.core = NewCore
  BY DEF NewDriver
<1>2. DOMAIN d.core.replies = {}
  BY <1>1 DEF NewCore, EmptyFunction
<1> HIDE DEF d
<1>3. ASSUME NEW r
      PROVE  Offered(d, r) = {} /\ Carried(d, r) = {} /\ Enqueued(d, r) = {}
  BY <1>1, EmptyBatch DEF Offered, Carried, Enqueued
<1>4. \A r : Sole(d, r) /\ ~Placed(d, r)
  BY <1>3 DEF Sole, Placed, Single
<1>5. Entrusted(d, {})
  BY <1>2, <1>4 DEF Entrusted
<1> QED
  BY <1>5 DEF d

\* Nor has a launched one.
LEMMA LaunchedTrusts == Entrusted(LaunchedDriver, {})
<1> DEFINE d == NewDriver
           c == OnConnected(d.core)
           y == Connected(d)
           x == Accepted(None, "Select", None, None, None, FALSE, 0)
           e == Enqueue(y, x)
           acc == Ledger({}, {})
           R == <<>>
<1>1. Sound(d, R, acc) /\ d.core = NewCore /\ Entrusted(d, {})
  BY NewDriverSound, NewTrusts DEF NewDriver
<1>2. y = Apply(d, c)
  BY DEF Connected
<1>3. Sound(y, R, acc)
  BY ConnectedGoes
<1>4. LaunchedDriver = IF AutoSelect THEN e ELSE y
  BY DEF LaunchedDriver
<1>5. IInv(d.core) /\ Traced(d.core) /\ d.core.state = "None" /\ ~d.core.closing
  BY <1>1 DEF Sound, Coherent, NewCore
<1>6. IInv(c) /\ Run(Hearing(Snapshot(d.core, {}, UnresolvedCommands(d.core)), {}), d.core.state, c)
  BY <1>5, OnConnectedIInv, RunOnConnected, RunHears
<1> HIDE DEF d, c, R, acc
<1>7. Entrusted(y, {})
  BY <1>1, <1>2, <1>6, OrdinaryTrusts
<1> HIDE DEF y
<1>8. ~IsReply(x)
  BY DEF Accepted, IsReply
<1> HIDE DEF x
<1>9. DOMAIN y = DriverFields /\ IsBatch(y.queue)
  BY <1>3 DEF Sound, Coherent, Formed, Books, Chargeable
<1>10. /\ e.inbound = y.inbound /\ e.held = y.held /\ e.queue = Append(y.queue, x)
       /\ e.closing = y.closing /\ e.core = y.core
  BY <1>9 DEF Enqueue, DriverFields
<1> HIDE DEF e
<1>11. Entrusted(e, {})
  BY <1>7, <1>8, <1>9, <1>10, TrustEnqueues
<1> QED
  BY <1>4, <1>7, <1>11

\* A set with at most one element.
LEMMA SingleCounted ==
  ASSUME NEW S, Single(S)
  PROVE  Cardinality(S) = IF S = {} THEN 0 ELSE 1
<1>1. CASE S = {}
  BY <1>1, FS_EmptySet
<1>2. CASE S # {}
  <2>1. PICK x \in S : S = {x}
    BY <1>2 DEF Single
  <2> QED
    BY <1>2, <2>1, FS_Singleton
<1> QED
  BY <1>1, <1>2

\* A token that is in order is counted once.
LEMMA EntrustmentCounts ==
  ASSUME GenerationInv, Entrustment
  PROVE  ReplyAuthorityIsExclusive
<1>1. driver.core.nextReply \in 0..ReplySpace /\ ReplySpace \in Nat
  <2>1. IInv(driver.core)
    BY DEF GenerationInv, Rested, Sound, Coherent
  <2> QED
    BY <2>1, SpaceAssumption DEF IInv, Weak, Shape
<1> SUFFICES ASSUME NEW r \in 0..(driver.core.nextReply - 1)
             PROVE  /\ TokenPlaces(r) <= 1
                    /\ driver.closing = None /\ r \in DOMAIN driver.core.replies =>
                         TokenPlaces(r) = 1
  BY DEF ReplyAuthorityIsExclusive
<1>2. r \in ReplyIds
  BY <1>1 DEF ReplyIds
<1>3. /\ Sole(driver, r)
      /\ driver.closing = None /\ r \in DOMAIN driver.core.replies => Placed(driver, r)
  BY <1>2 DEF Entrustment, Entrusted
<1> DEFINE A == Offered(driver, r)
           B == Carried(driver, r)
           C == Enqueued(driver, r)
<1>4. TokenPlaces(r) = Cardinality(A) + Cardinality(B) + Cardinality(C)
  BY DEF TokenPlaces, Offered, Carried, Enqueued
<1>5. /\ Cardinality(A) = IF A = {} THEN 0 ELSE 1
      /\ Cardinality(B) = IF B = {} THEN 0 ELSE 1
      /\ Cardinality(C) = IF C = {} THEN 0 ELSE 1
  BY <1>3, SingleCounted DEF Sole
<1>6. /\ A = {} \/ B = {}
      /\ A = {} \/ C = {}
      /\ B = {} \/ C = {}
      /\ Placed(driver, r) => A # {} \/ B # {} \/ C # {}
  BY <1>3 DEF Sole, Placed
<1> HIDE DEF A, B, C
<1> QED
  BY <1>3, <1>4, <1>5, <1>6

\* ReplyAuthorityIsExclusive: a capability's token is never in two places, and a live
\* contract of an open generation is never without one, whatever is refused, given back,
\* overtaken by a Deselect or drained (driver/mod.rs try_accept_reply, drive_next_command,
\* drain_accepted_commands, take_inbound).
THEOREM ReplyAuthorityIsKept == Spec => []ReplyAuthorityIsExclusive
<1>1. Init => Entrustment
  BY LaunchedTrusts DEF Init, Entrustment
<1>2. GenerationInv /\ Entrustment /\ [Next]_vars => Entrustment'
  BY EntrustmentStep
<1>3. GenerationInv /\ Entrustment => ReplyAuthorityIsExclusive
  BY EntrustmentCounts
<1> QED
  BY <1>1, <1>2, <1>3, GenerationInvariant, PTL DEF Spec

=============================================================================
