-------------------------- MODULE SessionCoreProofs --------------------------
(***************************************************************************)
(* The theorems about SessionCore, for every size of the identifier        *)
(* spaces, every capacity, every set of commands and of peer messages.     *)
(*                                                                         *)
(* SessionCoreLemmas proves, procedure by procedure, that the struct keeps *)
(* its invariant IInv, what one handler does from its first line to its    *)
(* last (Run) and what open commands wait for (Awaits).  Here the handlers *)
(* become the actions of the specification, and the histories remember     *)
(* what they did.                                                          *)
(***************************************************************************)
EXTENDS SessionCore, SessionCoreLemmas

-----------------------------------------------------------------------------
(* Open commands, in the handlers only SessionCore drives.                 *)

\* on_connected.
LEMMA OnConnectedAwaits ==
  ASSUME NEW c0, IInv(c0), Awaits(c0, {}), DrainWaits(c0)
  PROVE  LET r == OnConnected(c0) IN Awaits(r, {}) /\ DrainWaits(r)
<1> DEFINE c == Begin(c0)
           d == RecordActivity(ArmSelectionTimeout([c EXCEPT !.state = "NotSelected"]))
           a == StateChanged("NotSelected")
<1>1. IInv(c) /\ Awaits(c, {}) /\ DrainWaits(c)
  BY BeginAwaits
<1>2. \/ OnConnected(c0) = FailRuntimeInvariant(c)
      \/ c.state = "None" /\ ~c.closing /\ OnConnected(c0) = Emit(d, a)
  BY DEF OnConnected
<1> HIDE DEF c, a
<1>3. Awaits(FailRuntimeInvariant(c), {}) /\ DrainWaits(FailRuntimeInvariant(c))
  BY <1>1, FailureEnds
<1>4. ASSUME c.state = "None", ~c.closing PROVE Awaits(Emit(d, a), {}) /\ DrainWaits(Emit(d, a))
  <2>1. /\ DOMAIN d = Fields
        /\ \A f \in Fields \ {"state", "t7", "idle"} : d[f] = c[f]
    BY <1>1 DEF IInv, Weak, Shape, Fields, ArmSelectionTimeout, RecordActivity
  <2> HIDE DEF d
  <2>2. c.drain = None
    BY <1>1, <1>4 DEF Awaits, Pausing
  <2>3. Awaits(d, {})
    BY <1>1, <1>4, <2>1, <2>2, AwaitsSame DEF Fields
  <2>4. Emit(d, a).drain = None
    BY <2>1, <2>2, EmitFields DEF Fields
  <2> QED
    BY <2>1, <2>3, <2>4, AwaitsEmit DEF DrainWaits
<1> QED
  BY <1>2, <1>3, <1>4

\* on_inbound_violation: a Reject is written, and the drain goes on.
LEMMA OnInboundViolationAwaits ==
  ASSUME NEW c0, IInv(c0), Awaits(c0, {}), DrainWaits(c0), NEW v
  PROVE  LET r == OnInboundViolation(c0, v) IN Awaits(r, {}) /\ DrainWaits(r)
<1> DEFINE c == Begin(c0)
<1>1. IInv(c) /\ Awaits(c, {}) /\ DrainWaits(c)
  BY BeginAwaits
<1>2. OnInboundViolation(c0, v) = c \/ \E x : OnInboundViolation(c0, v) = SendResponse(c, x)
  BY DEF OnInboundViolation
<1> HIDE DEF c
<1>3. ASSUME NEW x PROVE Awaits(SendResponse(c, x), {}) /\ DrainWaits(SendResponse(c, x))
  <2> DEFINE r == SendResponse(c, x)
  <2>1. Awaits(r, {})
    BY <1>1, ResponseAwaits
  <2>2. ~r.closing => \A f \in Fields \ {"nextWrite", "pending", "out"} : r[f] = c[f]
    BY <1>1, SendResponseEffect
  <2>3. ~r.closing => /\ DOMAIN c.pending \subseteq DOMAIN r.pending
                      /\ \A w \in DOMAIN c.pending : r.pending[w] = c.pending[w]
    <3> DEFINE write == PendingWrite("Response", None, None, None)
               d == [c EXCEPT !.nextWrite = @ + 1, !.pending = Put(@, c.nextWrite, write)]
               a == SendFrame(c.nextWrite, x)
    <3>1. r = IF c.nextWrite = WriteSpace THEN FailRuntimeInvariant(c) ELSE Emit(d, a)
      BY DEF SendResponse
    <3>2. FailRuntimeInvariant(c).closing
      BY <1>1, FailRuntimeInvariantIInv DEF IInv
    <3>3. c.nextWrite # WriteSpace => c.nextWrite \notin DOMAIN c.pending
      BY <1>1, FreshWrite DEF IInv
    <3> HIDE DEF write
    <3>4. DOMAIN d = Fields /\ d.pending = Put(c.pending, c.nextWrite, write)
      BY <1>1 DEF IInv, Weak, Shape, Fields
    <3> HIDE DEF d, r, a
    <3>5. Emit(d, a).pending = d.pending
      BY <3>4, EmitFields DEF Fields
    <3> QED
      BY <3>1, <3>2, <3>3, <3>4, <3>5 DEF Put
  <2> HIDE DEF r
  <2>4. ~r.closing => /\ r.drain = c.drain /\ r.data = c.data /\ r.replies = c.replies
                      /\ c.closing = r.closing
    BY <2>2 DEF Fields
  <2>5. DrainWaits(r)
    BY <1>1, <2>3, <2>4 DEF DrainWaits, DataInUse
  <2> QED
    BY <2>1, <2>5 DEF r
<1> QED
  BY <1>1, <1>2, <1>3

\* finish_shutdown_drain: nobody waits for the Separate it writes.
LEMMA FinishShutdownDrainAwaits ==
  ASSUME NEW c0, IInv(c0), Awaits(c0, {}), DrainWaits(c0), NEW reason
  PROVE  LET r == FinishShutdownDrain(c0, reason) IN Awaits(r, {}) /\ DrainWaits(r)
<1> DEFINE c == Begin(c0)
           r == FinishShutdownDrain(c0, reason)
<1>1. IInv(c) /\ Awaits(c, {}) /\ DrainWaits(c) /\ c.closing = c0.closing
  BY BeginAwaits DEF Fields
<1>2. CASE c0.state # "Selected" \/ c0.closing
  BY <1>2, OnShutdownAwaits DEF FinishShutdownDrain
<1>3. CASE ~(c0.state # "Selected" \/ c0.closing)
  <2> DEFINE e == StartSeparate(c, None, reason)
  <2>1. r = e
    BY <1>3 DEF FinishShutdownDrain
  <2> HIDE DEF c, e, r
  <2>2. Awaits(c, {None})
    BY <1>1, AwaitsMore DEF IInv, Weak
  <2>3. Awaits(e, {}) /\ KeepsWork(c, e)
    BY <1>1, <1>3, <2>2, StartSeparateAwaits DEF e
  <2>4. DrainWaits(e)
    BY <1>1, <1>3, <2>3, WorkKeepsDrain
  <2> QED
    BY <2>1, <2>3, <2>4 DEF r
<1> QED
  BY <1>2, <1>3

\* on_shutdown with a failed write.
LEMMA OnAdmissionFailureAwaits ==
  ASSUME NEW c, NEW w \in DOMAIN c.pending, IInv(c), NEW reason, Awaits(c, {}), DrainWaits(c)
  PROVE  LET r == OnAdmissionFailure(c, reason, w) IN Awaits(r, {}) /\ DrainWaits(r)
<1> DEFINE error == IF reason = "ControlBackpressure" THEN "Backpressure" ELSE "ConnectionLost"
           x == CompleteWriteError(RemoveTransactionForWrite(Removed(c, w), w, c.pending[w]),
                                   c.pending[w], error)
           y == CompleteAll(x, "ConnectionLost")
           z == [y EXCEPT !.closing = TRUE, !.closeIssued = TRUE]
           a == CloseGeneration(reason, Immediate)
<1>1. OnAdmissionFailure(c, reason, w) = Emit(z, a)
  BY DEF OnAdmissionFailure, Removed
<1>2. Weak(x) /\ Retirement(x) /\ Promised(x)
  BY FailedWriteKeeps
<1> HIDE DEF x, a
<1>3. /\ Weak(y) /\ GivenUp(y) /\ DOMAIN y.data = {}
      /\ \A f \in Fields \ {"active", "data", "open", "deferred", "pending", "out"} : y[f] = x[f]
  BY <1>2, CompleteAllWeak, CompleteAllGivesUp
<1> HIDE DEF y
<1>4. /\ DOMAIN z = Fields /\ z.closing /\ z.closing \in BOOLEAN
      /\ z.closeIssued /\ z.closeIssued \in BOOLEAN
      /\ \A f \in Fields \ {"closing", "closeIssued"} : z[f] = y[f]
  BY <1>3 DEF Weak, Shape, Fields
<1> HIDE DEF z
<1>5. Shape(z)
  BY <1>3, <1>4 DEF Weak, Shape, Fields
<1>6. Linked(z) /\ Deferral(z)
  BY <1>3, <1>4 DEF Weak, Linked, Deferral, UnresolvedCommands, Fields
<1>7. GivenUp(z) /\ DOMAIN z.data = {}
  BY <1>3, <1>4 DEF GivenUp, Fields
<1>8. z.tomb = x.tomb /\ z.nextSys = x.nextSys /\ z.replies = x.replies
  BY <1>3, <1>4 DEF Fields
<1>9. Retirement(z) /\ Promised(z)
  BY <1>2, <1>7, <1>8 DEF Retirement, Promised
<1>10. Awaits(z, {})
  BY <1>4, <1>5, <1>6, <1>7, <1>9, GivenUpAwaits DEF Weak
<1>11. Emit(z, a).closing
  BY <1>4 DEF Emit, Fields
<1> QED
  BY <1>1, <1>4, <1>10, <1>11, AwaitsEmit DEF DrainWaits

\* SessionCore::new waits for nothing.
LEMMA NewCoreAwaits == Awaits(NewCore, {}) /\ DrainWaits(NewCore)
<1> DEFINE n == NewCore
<1>1. /\ n.drain = None /\ n.tomb = <<>> /\ ~n.closing
      /\ DOMAIN n.data = {} /\ DOMAIN n.pending = {} /\ DOMAIN n.replies = {}
      /\ DOMAIN n.open = {}
  BY DEF NewCore, EmptyFunction
<1> HIDE DEF n
<1>2. IsBatch(n.tomb) /\ Len(n.tomb) <= TombstoneCapacity /\ DOMAIN n.tomb = {}
  BY <1>1, CapacityAssumption DEF IsBatch
<1>3. Retirement(n)
  BY <1>1, <1>2 DEF Retirement
<1>4. Awaits(n, {}) /\ DrainWaits(n)
  BY <1>1, <1>3 DEF Awaits, Cared, LiveCare, Pausing, Promised, DrainWaits
<1> QED
  BY <1>4 DEF n

-----------------------------------------------------------------------------
\* Every step of the specification preserves the invariant.
LEMMA NextIInv ==
  ASSUME IInv(core), [Next]_vars
  PROVE  IInv(core')
<1>1. CASE Connect
  BY <1>1, OnConnectedIInv DEF Connect
<1>2. ASSUME NEW k \in Commands, NEW kind \in Kinds, NEW p \in Primaries, Command(k, kind, p)
      PROVE  IInv(core')
  BY <1>2, OnCommandIInv, InputAssumption DEF Command
<1>3. ASSUME NEW k \in Commands, NEW cap, NEW i, NEW b, NEW d, Reply(k, cap, i, b, d)
      PROVE  IInv(core')
  BY <1>3, OnReplyIInv DEF Reply
<1>4. ASSUME NEW m \in PeerMessages, NEW d, Message(m, d)
      PROVE  IInv(core')
  BY <1>4, OnMessageIInv, InputAssumption DEF Message
<1>5. ASSUME NEW v, Violation(v)
      PROVE  IInv(core')
  BY <1>5, OnInboundViolationIInv DEF Violation
<1>6. ASSUME NEW w \in DOMAIN core.pending, NEW o \in Outcomes, NEW d, WriteOutcome(w, o, d)
      PROVE  IInv(core')
  BY <1>6, OnWriteOutcomeIInv DEF WriteOutcome
<1>7. ASSUME NEW w \in DOMAIN core.pending, NEW r, AdmissionFailure(w, r)
      PROVE  IInv(core')
  BY <1>7, OnAdmissionFailureIInv DEF AdmissionFailure
<1>8. ASSUME NEW r, Shutdown(r)
      PROVE  IInv(core')
  BY <1>8, OnShutdownIInv DEF Shutdown
<1>9. CASE FinishDrain("LocalStop")
  BY <1>9, FinishShutdownDrainIInv DEF FinishDrain
<1>10. ASSUME NEW d, Tick(d)
       PROVE  IInv(core')
  BY <1>10, BeginIInv, ExpireDeadlinesIInv DEF Tick, AdvanceTime
<1>11. CASE WriterStopped
  BY <1>11, FinalizeWriterIInv DEF WriterStopped
<1>12. CASE UNCHANGED vars
  BY <1>12 DEF vars
<1> QED
  BY <1>1, <1>2, <1>3, <1>4, <1>5, <1>6, <1>7, <1>8, <1>9, <1>10, <1>11, <1>12 DEF Next

\* IInv holds in every reachable state of every instance of SessionCore.
THEOREM CoreInvariant == Spec => []IInv(core)
<1>1. Init => IInv(core)
  BY NewCoreIInv DEF Init
<1>2. IInv(core) /\ [Next]_vars => IInv(core)'
  BY NextIInv
<1> QED
  BY <1>1, <1>2, PTL DEF Spec

\* The struct keeps its declared shape, and WriteIds, System Bytes and capability
\* ids are never handed out past the end of their spaces (checked_add in
\* allocate_request_identifiers).
THEOREM CoreTypeCorrect == Spec => []TypeOK
<1>1. IInv(core) => TypeOK
  <2> SUFFICES ASSUME IInv(core) PROVE TypeOK
    OBVIOUS
  <2>1. DOMAIN core.deferred \subseteq Commands
    BY DEF IInv, Weak, Shape, Deferral, UnresolvedCommands
  <2> QED
    BY <2>1, FieldsOfCore DEF IInv, Weak, Shape, TypeOK
<1> QED
  BY <1>1, CoreInvariant, PTL

\* Every retained write that answers for a command finds it open, with the kind
\* its outcome completes, and is the only one to answer for it: emit_completion and
\* finalize_writer may rely on it.
THEOREM WritesAreAnswerable == Spec => []WritesAnswerOpenCommands
<1>1. IInv(core) => WritesAnswerOpenCommands
  BY DEF IInv, Weak, Linked, KindFor, WritesAnswerOpenCommands
<1> QED
  BY <1>1, CoreInvariant, PTL

\* No transaction or request waits for its response with neither an armed timer
\* nor a write whose commit will arm it (on_write_outcome_at).
THEOREM TransactionsAreTimed == Spec => []NoUntimedTransaction
<1>1. IInv(core) => NoUntimedTransaction
  BY DEF IInv, Timed, NoUntimedTransaction
<1> QED
  BY <1>1, CoreInvariant, PTL

\* While a Deselect transaction is live no request is live and no Data frame is
\* queued behind it (progress_deselect, on_reply and start_data together).
THEOREM NoDataAfterDeselect == Spec => []DeselectIsDrained
<1>1. IInv(core) => DeselectIsDrained
  BY DEF IInv, Selection, DeselectIsDrained
<1> QED
  BY <1>1, CoreInvariant, PTL

\* Until Core closes, T7 is armed exactly while the session is NotSelected.
THEOREM TenureIsTimed == Spec => []SelectionTenureIsTimed
<1>1. IInv(core) => SelectionTenureIsTimed
  BY DEF IInv, Selection, SelectionTenureIsTimed
<1> QED
  BY <1>1, CoreInvariant, PTL

\* Requests and reply capabilities live only in Selected (commit_deselection,
\* receive_separate).
THEOREM DataNeedsSelection == Spec => []DataLivesInSelected
<1>1. IInv(core) => DataLivesInSelected
  BY DEF IInv, Selection, DataLivesInSelected
<1> QED
  BY <1>1, CoreInvariant, PTL

\* Every deferred error belongs to a command whose write is still retained, so an
\* outcome or finalize_writer delivers it, and none exists before closing.
THEOREM DeferralIsResolved == Spec => []DeferredErrorsAwaitWrites
<1>1. IInv(core) => DeferredErrorsAwaitWrites
  BY DEF IInv, Weak, Deferral, Closed, DeferredErrorsAwaitWrites
<1> QED
  BY <1>1, CoreInvariant, PTL

\* Every wait for the peer is timed (on_write_outcome_at, commit_deselection).
THEOREM EveryWaitIsTimed == Spec => []WaitsAreTimed
BY TransactionsAreTimed, TenureIsTimed, PTL DEF WaitsAreTimed

\* Every retained write and every deferred error owes an open command its one
\* answer (on_write_outcome_at, complete_or_defer, finalize_writer).
THEOREM EveryOutcomeIsOwed == Spec => []OutcomesAreOwed
BY WritesAreAnswerable, DeferralIsResolved, PTL DEF OutcomesAreOwed

\* Data is under way only in Selected and never behind a Deselect.req.
THEOREM DataIsInSession == Spec => []DataFollowsSession
BY DataNeedsSelection, NoDataAfterDeselect, PTL DEF DataFollowsSession

-----------------------------------------------------------------------------
(* What the histories remember between two handlers.                       *)

\* Result r agrees with what became of the write of this kind (ResultsAreTruthful).
Agrees(r, kind, end) ==
  /\ r = "Ok" /\ (kind = "DataSend" \/ kind = "Separate") => end = "Committed"
  /\ r = "ConnectionLost" /\ kind = "DataSend" => end \in {"NotWritten", "refused"}
  /\ r = "DeliveryIndeterminate" => end \in {"Indeterminate", "lost"}
  /\ r = "Backpressure" => end = "refused"
  /\ r \in {"TimeoutT6", "RequestTimedOut"} => end = "Committed"
  /\ r = "SessionDeselected" => kind = "DataRequest" /\ end = "Committed"

\* The commands that are open are those the histories call open; one that never was
\* open has no write; one that is open with its write gone is a transaction's or a
\* request's, and its write was committed; a retained write is queued, and carries
\* the command it answers for.
Remembered ==
  /\ \A k \in Commands :
       /\ status[k] = "open" <=> k \in DOMAIN core.open
       /\ status[k] = "unused" => carrier[k] = None
       /\ carrier[k] # None =>
            /\ carrier[k].write \in WriteIds /\ carrier[k].write < core.nextWrite
            /\ k \in DOMAIN core.open /\ k \notin UnresolvedCommands(core) =>
                 /\ wire[carrier[k].write] = "Committed"
                 /\ carrier[k].kind \in {"TransactionRequest", "DataRequest"}
                 /\ core.open[k] = KindFor(carrier[k].kind)
  /\ \A w \in DOMAIN core.pending :
       /\ wire[w] = "queued"
       /\ core.pending[w].command # None =>
            carrier[core.pending[w].command] = [write |-> w, kind |-> core.pending[w].kind]

\* One handler ran from the snapshot p, after the writes of S had come to this end:
\* it opened new commands only, no write but those of S let go of its command, and
\* what it was told of a result agrees with the end.
Handled(p, S, end) ==
  /\ Run(p, core.state, core')
  /\ p.nextWrite = core.nextWrite /\ p.closing = core.closing /\ p.cause # "RuntimeInvariant"
  /\ S \subseteq DOMAIN core.pending /\ p.pending = DOMAIN core.pending \ S
  /\ p.bound \subseteq UnresolvedCommands(core)
  /\ \A w \in DOMAIN core.pending : core.pending[w].command \notin p.bound \cup {None} =>
       /\ w \in S /\ end = "Committed"
       /\ core.pending[w].kind \in {"TransactionRequest", "DataRequest"}
  /\ \A k \in Commands : \A r : <<k, r>> \in p.told =>
       \/ status[k] = "unused"
       \/ \E w \in S : core.pending[w].command = k /\ Agrees(r, core.pending[w].kind, end)
  /\ DOMAIN core.open \subseteq DOMAIN p.open
  /\ \A k \in DOMAIN p.open :
       /\ k \in Commands
       /\ IF k \in DOMAIN core.open THEN p.open[k] = core.open[k] ELSE status[k] = "unused"
  /\ core.closing => DOMAIN core'.open \subseteq DOMAIN core.open
  /\ RecordCommands /\ RecordWrites(S, end)

\* The histories of one command in a handler's step: it is recorded as completed with
\* the justified result of its one completion, or as it was.
LEMMA HistoryOfCommand ==
  ASSUME NEW p, NEW S, NEW end, Handled(p, S, end), IInv(core), IInv(core'), Remembered,
         NEW k \in Commands
  PROVE  IF k \in Completed(core'.out)
         THEN /\ k \in DOMAIN p.open /\ k \notin DOMAIN core'.open
              /\ status'[k] \notin {"open", "unused"} /\ Justified(p, k, status'[k])
         ELSE IF k \in DOMAIN core'.open THEN k \in DOMAIN p.open /\ status'[k] = "open"
         ELSE k \notin DOMAIN p.open /\ status'[k] = status[k]
<1> DEFINE out == core'.out
<1>1. Answered(p, core') /\ Opened(p, core')
  BY DEF Handled, Run, Log
<1>2. status'[k] = IF k \in Completed(out)
                   THEN (CHOOSE a \in CompletionsOf(out) : k \in a.commands).result
                   ELSE IF k \in DOMAIN core'.open THEN "open" ELSE status[k]
  BY DEF Handled, RecordCommands
<1>3. CASE k \in Completed(out)
  <2> DEFINE a == CHOOSE b \in CompletionsOf(out) : k \in b.commands
  <2>1. \E b \in CompletionsOf(out) : k \in b.commands
    BY <1>3 DEF Completed
  <2>2. a \in CompletionsOf(out) /\ k \in a.commands
    BY <2>1
  <2> HIDE DEF a
  <2>3. PICK i \in DOMAIN out : out[i] = a
    BY <2>2 DEF CompletionsOf
  <2>4. a.act = "CompleteCommand"
    BY <2>2 DEF CompletionsOf
  <2>5. status'[k] = a.result
    BY <1>2, <1>3 DEF a
  <2>6. /\ a.result \notin {"open", "unused"} /\ k \in DOMAIN p.open /\ k \notin DOMAIN core'.open
        /\ Justified(p, k, a.result)
    BY <1>1, <2>2, <2>3, <2>4 DEF Answered
  <2> QED
    BY <1>3, <2>5, <2>6
<1>4. CASE k \notin Completed(out)
  <2>1. ASSUME k \in DOMAIN p.open, k \notin DOMAIN core'.open PROVE FALSE
    <3>1. PICK i \in DOMAIN out : Completes(out[i], k)
      BY <1>1, <2>1 DEF Answered
    <3>2. k \in Completed(out)
      BY <3>1 DEF Completes, Completed, CompletionsOf
    <3> QED
      BY <1>4, <3>2
  <2>2. k \in DOMAIN core'.open => k \in DOMAIN p.open
    BY <1>1 DEF Opened
  <2> QED
    BY <1>2, <1>4, <2>1, <2>2
<1> QED
  BY <1>3, <1>4

\* The write that carries a command in a handler's step.
LEMMA HistoryOfCarrier ==
  ASSUME NEW p, NEW S, NEW end, Handled(p, S, end), IInv(core'), NEW k \in Commands
  PROVE  /\ k \notin UnresolvedCommands(core') => carrier'[k] = carrier[k]
         /\ \A w \in DOMAIN core'.pending : core'.pending[w].command = k =>
              carrier'[k] = [write |-> w, kind |-> core'.pending[w].kind]
<1>1. carrier'[k] = IF k \in UnresolvedCommands(core')
                    THEN LET w == CHOOSE v \in DOMAIN core'.pending :
                                    core'.pending[v].command = k
                         IN  [write |-> w, kind |-> core'.pending[w].kind]
                    ELSE carrier[k]
  BY DEF Handled, RecordCommands
<1>2. ASSUME NEW w \in DOMAIN core'.pending, core'.pending[w].command = k
      PROVE  carrier'[k] = [write |-> w, kind |-> core'.pending[w].kind]
  <2>1. k # None
    BY NoneAssumption
  <2>2. k \in UnresolvedCommands(core')
    BY <1>2, <2>1 DEF UnresolvedCommands
  <2>3. \A v \in DOMAIN core'.pending : core'.pending[v].command = k => v = w
    BY <1>2, <2>1 DEF IInv, Weak, Linked
  <2> DEFINE v == CHOOSE u \in DOMAIN core'.pending : core'.pending[u].command = k
  <2>4. v \in DOMAIN core'.pending /\ core'.pending[v].command = k
    BY <1>2
  <2>5. v = w
    BY <2>3, <2>4
  <2> QED
    BY <1>1, <2>2, <2>5
<1> QED
  BY <1>1, <1>2

\* The history of one write in a handler's step: it came to its end, it is new and
\* queued, or nothing happened to it.
LEMMA HistoryOfWrite ==
  ASSUME NEW p, NEW S, NEW end, Handled(p, S, end), IInv(core), NEW w \in WriteIds
  PROVE  /\ w \in S => wire'[w] = end
         /\ w \notin S /\ w < core.nextWrite => wire'[w] = wire[w]
         /\ \A i \in DOMAIN core'.out :
              core'.out[i].act = "SendFrame" /\ core'.out[i].write = w =>
                w \notin S /\ wire'[w] = "queued"
<1>1. wire'[w] = IF w \in S THEN end
                 ELSE IF \E a \in FramesOf(core'.out) : a.write = w THEN "queued"
                 ELSE wire[w]
  BY DEF Handled, RecordWrites
<1>2. \A i \in DOMAIN core'.out : core'.out[i].act = "SendFrame" =>
        core.nextWrite <= core'.out[i].write
  BY DEF Handled, Run, Log, Written
<1>3. core.nextWrite \in Nat /\ w \in Nat
  BY SpaceAssumption DEF IInv, Weak, Shape, WriteIds
<1>4. w \in S => w < core.nextWrite
  BY DEF Handled, IInv, Weak, Linked
<1>5. core.nextWrite <= w => ~(w < core.nextWrite)
  BY <1>3
<1>6. w < core.nextWrite => ~\E a \in FramesOf(core'.out) : a.write = w
  BY <1>2, <1>5 DEF FramesOf
<1>7. ASSUME NEW i \in DOMAIN core'.out, core'.out[i].act = "SendFrame", core'.out[i].write = w
      PROVE  w \notin S /\ wire'[w] = "queued"
  <2>1. w \notin S
    BY <1>2, <1>4, <1>5, <1>7
  <2>2. core'.out[i] \in FramesOf(core'.out)
    BY <1>7 DEF FramesOf
  <2> QED
    BY <1>1, <1>7, <2>1, <2>2
<1> QED
  BY <1>1, <1>6, <1>7

\* A handler's step keeps what the histories remember.
LEMMA HandledRemembers ==
  ASSUME NEW p, NEW S, NEW end, Handled(p, S, end), IInv(core), IInv(core'), Remembered
  PROVE  Remembered'
<1>0. core.nextWrite \in Nat /\ core'.nextWrite \in Nat /\ core.nextWrite <= core'.nextWrite
  BY SpaceAssumption DEF IInv, Weak, Shape, Handled, Run, Log, Written
<1>1. ASSUME NEW k \in Commands
      PROVE  /\ status'[k] = "open" <=> k \in DOMAIN core'.open
             /\ status'[k] = "unused" => carrier'[k] = None
  <2>1. k \notin DOMAIN core'.open => k \notin UnresolvedCommands(core')
    BY DEF IInv, Weak, Linked, UnresolvedCommands
  <2>2. k \in DOMAIN core.open => k \in DOMAIN p.open
    BY DEF Handled
  <2> QED
    BY <2>1, <2>2, HistoryOfCommand, HistoryOfCarrier DEF Remembered
<1>2. ASSUME NEW k \in Commands, k \in UnresolvedCommands(core')
      PROVE  /\ carrier'[k].write \in WriteIds /\ carrier'[k].write < core'.nextWrite
  <2>1. PICK w \in DOMAIN core'.pending : core'.pending[w].command = k
    BY <1>2 DEF UnresolvedCommands
  <2>2. carrier'[k] = [write |-> w, kind |-> core'.pending[w].kind]
    BY <2>1, HistoryOfCarrier
  <2>3. w \in WriteIds /\ w < core'.nextWrite
    BY DEF IInv, Weak, Shape, Linked
  <2> QED
    BY <2>2, <2>3
<1>3. ASSUME NEW k \in Commands, k \notin UnresolvedCommands(core'), carrier'[k] # None
      PROVE  /\ carrier'[k].write \in WriteIds /\ carrier'[k].write < core'.nextWrite
             /\ k \in DOMAIN core'.open =>
                  /\ wire'[carrier'[k].write] = "Committed"
                  /\ carrier'[k].kind \in {"TransactionRequest", "DataRequest"}
                  /\ core'.open[k] = KindFor(carrier'[k].kind)
  <2>1. carrier'[k] = carrier[k]
    BY <1>3, HistoryOfCarrier
  <2> DEFINE w == carrier[k].write
  <2>2. w \in WriteIds /\ w < core.nextWrite /\ status[k] # "unused"
    BY <1>3, <2>1 DEF Remembered
  <2> HIDE DEF w
  <2>3. w \in Nat
    BY <2>2, SpaceAssumption DEF WriteIds
  <2>4. w < core'.nextWrite
    BY ONLY <1>0, <2>2, <2>3
  <2>5. ASSUME k \in DOMAIN core'.open
        PROVE  /\ wire'[w] = "Committed"
               /\ carrier[k].kind \in {"TransactionRequest", "DataRequest"}
               /\ core'.open[k] = KindFor(carrier[k].kind)
    <3>1. k \in DOMAIN p.open /\ core'.open[k] = p.open[k]
      BY <2>5 DEF Handled, Run, Log, Opened
    <3>2. k \in DOMAIN core.open /\ core'.open[k] = core.open[k]
      BY <2>2, <3>1 DEF Handled
    <3>3. CASE k \in UnresolvedCommands(core)
      <4>1. k \notin p.bound
        BY <1>3, <2>5 DEF Handled, Run, Bounded
      <4>2. PICK v \in DOMAIN core.pending : core.pending[v].command = k /\ k # None
        BY <3>3 DEF UnresolvedCommands
      <4>3. /\ v \in S /\ end = "Committed"
            /\ core.pending[v].kind \in {"TransactionRequest", "DataRequest"}
        BY <4>1, <4>2 DEF Handled
      <4>4. carrier[k] = [write |-> v, kind |-> core.pending[v].kind]
        BY <4>2 DEF Remembered
      <4>5. w = v /\ carrier[k].kind = core.pending[v].kind
        BY <4>4 DEF w
      <4>6. core.open[k] = KindFor(core.pending[v].kind)
        BY <4>2 DEF IInv, Weak, Linked
      <4> QED
        BY <2>2, <3>2, <4>3, <4>5, <4>6, HistoryOfWrite
    <3>4. CASE k \notin UnresolvedCommands(core)
      <4>1. /\ wire[w] = "Committed"
            /\ carrier[k].kind \in {"TransactionRequest", "DataRequest"}
            /\ core.open[k] = KindFor(carrier[k].kind)
        BY <1>3, <2>1, <3>2, <3>4 DEF Remembered, w
      <4>2. w \notin S
        BY <4>1 DEF Handled, Remembered
      <4> QED
        BY <2>2, <3>2, <4>1, <4>2, HistoryOfWrite
    <3> QED
      BY <3>3, <3>4
  <2> QED
    BY <2>1, <2>2, <2>4, <2>5 DEF w
<1>4. ASSUME NEW w \in DOMAIN core'.pending
      PROVE  /\ wire'[w] = "queued"
             /\ core'.pending[w].command # None =>
                  carrier'[core'.pending[w].command]
                    = [write |-> w, kind |-> core'.pending[w].kind]
  <2>1. w \in WriteIds /\ core'.pending[w].command \in Commands \cup {None}
    BY DEF IInv, Weak, Shape
  <2>2. \/ w \in p.pending
        \/ \E i \in DOMAIN core'.out : core'.out[i].act = "SendFrame" /\ core'.out[i].write = w
    BY DEF Handled, Run, Log, Written
  <2>3. CASE w \in p.pending
    <3>1. w \in DOMAIN core.pending /\ w \notin S
      BY <2>3 DEF Handled
    <3>2. w < core.nextWrite /\ wire[w] = "queued"
      BY <3>1 DEF IInv, Weak, Linked, Remembered
    <3>3. wire'[w] = "queued"
      BY <2>1, <3>1, <3>2, HistoryOfWrite
    <3> QED
      BY <2>1, <3>3, HistoryOfCarrier
  <2>4. CASE \E i \in DOMAIN core'.out :
               core'.out[i].act = "SendFrame" /\ core'.out[i].write = w
    <3>1. wire'[w] = "queued"
      BY <2>1, <2>4, HistoryOfWrite
    <3> QED
      BY <2>1, <3>1, HistoryOfCarrier
  <2> QED
    BY <2>2, <2>3, <2>4
<1> QED
  BY <1>1, <1>2, <1>3, <1>4 DEF Remembered

\* A result that agrees with a queued write agrees with whatever becomes of it.
LEMMA AgreesForGood ==
  ASSUME NEW r, NEW kind, Agrees(r, kind, "queued"), NEW end
  PROVE  Agrees(r, kind, end)
BY DEF Agrees

\* A handler's step keeps the results truthful.
LEMMA HandledIsTruthful ==
  ASSUME NEW p, NEW S, NEW end, Handled(p, S, end), IInv(core), IInv(core'), Remembered,
         ResultsAreTruthful
  PROVE  ResultsAreTruthful'
<1> SUFFICES ASSUME NEW k \in Commands, carrier'[k] # None, status'[k] # "open"
             PROVE  Agrees(status'[k], carrier'[k].kind, wire'[carrier'[k].write])
  BY DEF ResultsAreTruthful, Agrees
<1>1. k \notin DOMAIN core'.open
  BY HistoryOfCommand
<1>2. k \notin UnresolvedCommands(core')
  BY <1>1 DEF IInv, Weak, Linked, UnresolvedCommands
<1>3. carrier'[k] = carrier[k]
  BY <1>2, HistoryOfCarrier
<1> DEFINE w == carrier[k].write
           kind == carrier[k].kind
<1>4. w \in WriteIds /\ w < core.nextWrite /\ status[k] # "unused"
  BY <1>3 DEF Remembered
<1>5. ASSUME NEW v \in DOMAIN core.pending, core.pending[v].command = k
      PROVE  w = v /\ kind = core.pending[v].kind
  <2>1. k # None
    BY NoneAssumption
  <2>2. carrier[k] = [write |-> v, kind |-> core.pending[v].kind]
    BY <1>5, <2>1 DEF Remembered
  <2> QED
    BY <2>2
<1>6. k \in DOMAIN core.open /\ k \notin UnresolvedCommands(core) =>
        /\ wire[w] = "Committed" /\ kind \in {"TransactionRequest", "DataRequest"}
        /\ core.open[k] = KindFor(kind)
  BY <1>3 DEF Remembered
<1>7. status[k] # "open" => Agrees(status[k], kind, wire[w])
  BY <1>3 DEF ResultsAreTruthful, Agrees
<1>8. /\ w \in S => wire'[w] = end
      /\ w \notin S => wire'[w] = wire[w]
      /\ w \in S => wire[w] = "queued"
  <2>1. \A v \in S : wire[v] = "queued"
    BY DEF Handled, Remembered
  <2> QED
    BY <1>4, <2>1, HistoryOfWrite
<1> HIDE DEF w, kind
<1>9. CASE k \notin Completed(core'.out)
  <2>1. k \notin DOMAIN p.open /\ status'[k] = status[k]
    BY <1>1, <1>9, HistoryOfCommand
  <2>2. status[k] # "open"
    BY <2>1 DEF Remembered, Handled
  <2>3. Agrees(status[k], kind, wire'[w])
    BY <1>7, <1>8, <2>2, AgreesForGood
  <2> QED
    BY <1>3, <2>1, <2>3 DEF w, kind
<1>10. CASE k \in Completed(core'.out)
  <2> DEFINE r == status'[k]
  <2>1. k \in DOMAIN p.open /\ Justified(p, k, r)
    BY <1>10, HistoryOfCommand
  <2>2. k \in DOMAIN core.open /\ p.open[k] = core.open[k]
    BY <1>4, <2>1 DEF Handled
  <2> HIDE DEF r
  <2>3. CASE <<k, r>> \in p.told
    <3>1. PICK v \in S : core.pending[v].command = k /\ Agrees(r, core.pending[v].kind, end)
      BY <1>4, <2>3 DEF Handled
    <3>2. v \in DOMAIN core.pending
      BY DEF Handled
    <3>3. w = v /\ kind = core.pending[v].kind
      BY <1>5, <3>1, <3>2
    <3> QED
      BY <1>3, <1>8, <3>1, <3>3 DEF w, kind, r
  <2>4. CASE Fair(p, k, r) /\ k \in p.bound
    <3>1. PICK v \in DOMAIN core.pending : core.pending[v].command = k /\ k # None
      BY <2>4 DEF Handled, UnresolvedCommands
    <3>2. kind = core.pending[v].kind /\ core.open[k] = KindFor(kind)
      BY <1>5, <3>1 DEF IInv, Weak, Linked
    <3>3. r = "Ok" => kind \notin {"DataSend", "Separate"}
      BY <2>2, <2>4, <3>1, <3>2 DEF Fair, KindFor, Handled, IInv, Closed
    <3>4. Agrees(r, kind, wire'[w])
      BY <2>4, <3>3 DEF Fair, Agrees
    <3> QED
      BY <1>3, <3>4 DEF w, kind, r
  <2>5. CASE Fair(p, k, r) /\ k \notin p.bound
    <3>1. /\ wire'[w] = "Committed" /\ kind \in {"TransactionRequest", "DataRequest"}
          /\ core.open[k] = KindFor(kind)
      <4>1. CASE k \in UnresolvedCommands(core)
        <5>1. PICK v \in DOMAIN core.pending : core.pending[v].command = k /\ k # None
          BY <4>1 DEF UnresolvedCommands
        <5>2. /\ v \in S /\ end = "Committed"
              /\ core.pending[v].kind \in {"TransactionRequest", "DataRequest"}
          BY <2>5, <5>1 DEF Handled
        <5>3. w = v /\ kind = core.pending[v].kind
          BY <1>5, <5>1
        <5>4. core.open[k] = KindFor(core.pending[v].kind)
          BY <5>1 DEF IInv, Weak, Linked
        <5> QED
          BY <1>8, <5>2, <5>3, <5>4
      <4>2. CASE k \notin UnresolvedCommands(core)
        BY <1>6, <1>8, <2>2, <4>2
      <4> QED
        BY <4>1, <4>2
    <3>2. r = "SessionDeselected" => kind = "DataRequest"
      BY <2>2, <2>5, <3>1 DEF Fair, KindFor
    <3>3. Agrees(r, kind, wire'[w])
      BY <2>5, <3>1, <3>2 DEF Fair, Agrees
    <3> QED
      BY <1>3, <3>3 DEF w, kind, r
  <2> QED
    BY <2>1, <2>3, <2>4, <2>5 DEF Justified
<1> QED
  BY <1>9, <1>10

\* The completions of a handler's step are final.
LEMMA HandledIsFinal ==
  ASSUME NEW p, NEW S, NEW end, Handled(p, S, end), IInv(core), IInv(core'), Remembered
  PROVE  /\ \A k \in Commands :
              /\ k \in Completed(core'.out) =>
                   /\ status[k] \in {"unused", "open"}
                   /\ k \notin DOMAIN core'.open
                   /\ Cardinality({i \in DOMAIN core'.out :
                        core'.out[i].act = "CompleteCommand" /\ k \in core'.out[i].commands}) = 1
              /\ status[k] \notin {"unused", "open"} => status'[k] = status[k]
         /\ core.closing =>
              /\ core'.closing /\ core'.state = core.state
              /\ DOMAIN core'.pending \subseteq DOMAIN core.pending
              /\ DOMAIN core'.open \subseteq DOMAIN core.open
              /\ \A i \in DOMAIN core'.out :
                   core'.out[i].act \in {"CompleteCommand", "CloseGeneration"}
<1>1. ASSUME NEW k \in Commands, k \in Completed(core'.out)
      PROVE  Cardinality({i \in DOMAIN core'.out :
               core'.out[i].act = "CompleteCommand" /\ k \in core'.out[i].commands}) = 1
  <2> DEFINE out == core'.out
             I == {i \in DOMAIN out : out[i].act = "CompleteCommand" /\ k \in out[i].commands}
  <2>1. PICK a \in CompletionsOf(out) : k \in a.commands
    BY <1>1 DEF Completed
  <2>2. PICK i \in DOMAIN out : out[i] = a
    BY DEF CompletionsOf
  <2>3. a.act = "CompleteCommand"
    BY DEF CompletionsOf
  <2>4. \A j \in DOMAIN out : Completes(out[j], k) => j = i
    BY <2>1, <2>2, <2>3 DEF Handled, Run, Log, Answered
  <2>5. I = {i}
    BY <2>1, <2>2, <2>3, <2>4 DEF Completes
  <2> QED
    BY <2>5, FS_Singleton
<1>2. ASSUME NEW k \in Commands
      PROVE  /\ k \in Completed(core'.out) =>
                  status[k] \in {"unused", "open"} /\ k \notin DOMAIN core'.open
             /\ status[k] \notin {"unused", "open"} => status'[k] = status[k]
  <2>1. k \in DOMAIN p.open => status[k] \in {"unused", "open"}
    BY DEF Handled, Remembered
  <2> QED
    BY <2>1, HistoryOfCommand
<1>3. ASSUME core.closing
      PROVE  /\ core'.closing /\ core'.state = core.state
             /\ DOMAIN core'.pending \subseteq DOMAIN core.pending
             /\ DOMAIN core'.open \subseteq DOMAIN core.open
             /\ \A i \in DOMAIN core'.out :
                  core'.out[i].act \in {"CompleteCommand", "CloseGeneration"}
  BY <1>3 DEF Handled, Run, Log, Quieted
<1> QED
  BY <1>1, <1>2, <1>3

-----------------------------------------------------------------------------
(* Every action is a handler's step.                                       *)

\* A handler that opens nothing and is told nothing of a write.
LEMMA PlainHandled ==
  ASSUME IInv(core), Record, NEW p, p.open = core.open, p.nextWrite = core.nextWrite,
         p.closing = core.closing, p.pending = DOMAIN core.pending, p.told = {},
         p.bound = UnresolvedCommands(core), p.cause # "RuntimeInvariant",
         Run(p, core.state, core')
  PROVE  Handled(p, {}, "unsent")
<1>1. /\ p.open = core.open /\ p.nextWrite = core.nextWrite /\ p.closing = core.closing
      /\ p.pending = DOMAIN core.pending /\ p.told = {} /\ p.bound = UnresolvedCommands(core)
      /\ p.cause # "RuntimeInvariant"
  OBVIOUS
<1>2. Run(p, core.state, core')
  OBVIOUS
<1>3. \A w \in DOMAIN core.pending : core.pending[w].command \in p.bound \cup {None}
  BY <1>1 DEF UnresolvedCommands
<1>4. DOMAIN core.open \subseteq Commands
  BY DEF IInv, Weak, Shape
<1>5. DOMAIN core'.open \subseteq DOMAIN core.open
  BY <1>1, <1>2 DEF Run, Log, Opened
<1>6. RecordCommands /\ RecordWrites({}, "unsent")
  BY DEF Record
<1>7. p.pending = DOMAIN core.pending \ {}
  BY <1>1
<1> QED
  BY <1>1, <1>2, <1>3, <1>4, <1>5, <1>6, <1>7 DEF Handled

\* A handler that opens k, and told nothing of it but backpressure.
LEMMA AcceptingHandled ==
  ASSUME IInv(core), Traced(core), Record, NEW k \in Commands \ DOMAIN core.open,
         NEW kind \in CommandKinds, status[k] = "unused",
         Run(Accepting(core, k, kind), core.state, core'),
         core.closing => DOMAIN core'.open \subseteq DOMAIN core.open
  PROVE  Handled(Accepting(core, k, kind), {}, "unsent")
<1> DEFINE c == Opening(core, k, kind)
           p == Accepting(core, k, kind)
<1>1. \A f \in Fields \ {"open", "out"} : c[f] = core[f]
  BY OpenCommandIInv DEF Opening
<1>2. c.open = Put(core.open, k, kind)
  <2>1. Begin(core).open = core.open /\ DOMAIN Begin(core) = Fields
    BY DEF Begin, IInv, Weak, Shape, Fields
  <2> QED
    BY <2>1 DEF Opening, Fields
<1> HIDE DEF c
<1>3. /\ p.open = c.open /\ p.nextWrite = core.nextWrite /\ p.closing = core.closing
      /\ p.pending = DOMAIN core.pending \ {} /\ p.told = {<<k, "Backpressure">>}
      /\ p.bound = UnresolvedCommands(core) /\ p.cause # "RuntimeInvariant"
  BY <1>1 DEF Accepting, Permitted, Snapshot, Fields, c
<1>4. Run(p, core.state, core')
  OBVIOUS
<1> HIDE DEF p
<1>5. \A w \in DOMAIN core.pending : core.pending[w].command \in p.bound \cup {None}
  BY <1>3 DEF UnresolvedCommands
<1>6. DOMAIN core.open \subseteq Commands
  BY DEF IInv, Weak, Shape
<1>7. \A j \in DOMAIN p.open :
        /\ j \in Commands
        /\ IF j \in DOMAIN core.open THEN p.open[j] = core.open[j] ELSE status[j] = "unused"
  BY <1>2, <1>3, <1>6 DEF Put
<1>8. DOMAIN core.open \subseteq DOMAIN p.open
  BY <1>2, <1>3 DEF Put
<1>9. \A j \in Commands : \A r : <<j, r>> \in p.told => status[j] = "unused"
  BY <1>3
<1>10. RecordCommands /\ RecordWrites({}, "unsent")
  BY DEF Record
<1>11. Handled(p, {}, "unsent")
  BY <1>3, <1>4, <1>5, <1>7, <1>8, <1>9, <1>10 DEF Handled
<1> QED
  BY <1>11 DEF p

\* A Core that is closing opens nothing it does not complete at once.
LEMMA ClosedOpensNothing ==
  ASSUME NEW c0, IInv(c0), c0.closing, NEW k \in Commands \ DOMAIN c0.open
  PROVE  /\ \A kind \in CommandNames : \A primary :
              DOMAIN OnCommand(c0, k, kind, primary).open \subseteq DOMAIN c0.open
         /\ \A capability, intent, body, due :
              DOMAIN OnReply(c0, k, capability, intent, body, due).open \subseteq DOMAIN c0.open
<1>1. ASSUME NEW kind \in CommandKinds, NEW result
      PROVE  DOMAIN CompleteError(Opening(c0, k, kind), k, result).open \subseteq DOMAIN c0.open
  <2> DEFINE c == Opening(c0, k, kind)
  <2>1. IInv(c)
    BY OpenCommandIInv DEF Opening
  <2>2. c.open = Put(c0.open, k, kind)
    <3>1. Begin(c0).open = c0.open /\ DOMAIN Begin(c0) = Fields
      BY DEF Begin, IInv, Weak, Shape, Fields
    <3> QED
      BY <3>1 DEF Opening, Fields
  <2> HIDE DEF c
  <2>3. DOMAIN c.open = DOMAIN c0.open \cup {k} /\ c.open[k] \in CommandKinds
    BY <2>2 DEF Put
  <2>4. CompleteError(c, k, result) = EmitCompletion(c, {k}, result)
    BY <2>3 DEF CompleteError, CompleteAs
  <2>5. DOMAIN EmitCompletion(c, {k}, result).open = DOMAIN c.open \ {k}
    BY <2>1, EmitCompletionEffect DEF IInv, Weak
  <2> QED
    BY <2>3, <2>4, <2>5 DEF c
<1>2. ASSUME NEW kind \in CommandKinds
      PROVE  Opening(c0, k, kind).closing
  BY DEF Opening, Begin, IInv, Weak, Shape, Fields
<1>3. ASSUME NEW kind \in CommandNames, NEW primary
      PROVE  DOMAIN OnCommand(c0, k, kind, primary).open \subseteq DOMAIN c0.open
  <2> DEFINE c == Opening(c0, k, OpenKind(kind))
  <2>1. OpenKind(kind) \in CommandKinds
    BY DEF OpenKind, CommandKinds, CommandNames, ControlCommands
  <2>2. \E result : OnCommand(c0, k, kind, primary) = CompleteError(c, k, result)
    <3>1. c.closing
      BY <1>2, <2>1
    <3> QED
      BY <3>1 DEF OnCommand, Opening
  <2> HIDE DEF c
  <2>3. PICK result : OnCommand(c0, k, kind, primary) = CompleteError(c, k, result)
    BY <2>2
  <2> QED
    BY <1>1, <2>1, <2>3 DEF c
<1>4. ASSUME NEW capability, NEW intent, NEW body, NEW due
      PROVE  DOMAIN OnReply(c0, k, capability, intent, body, due).open \subseteq DOMAIN c0.open
  <2> DEFINE kind == IF intent = "Abandon" THEN "Control" ELSE "Send"
             c == Opening(c0, k, kind)
  <2>1. kind \in CommandKinds
    BY DEF CommandKinds
  <2>2. OnReply(c0, k, capability, intent, body, due)
          = CompleteError(c, k, "ReplyCapabilityUnavailable")
    <3>1. c.closing
      BY <1>2, <2>1
    <3> QED
      BY <3>1 DEF OnReply, Opening
  <2> HIDE DEF kind
  <2> QED
    BY <1>1, <2>1, <2>2
<1> QED
  BY <1>3, <1>4

\* The end of write w dictates a result for its command, and the command is still
\* bound by the other writes.
LEMMA EndingHandled ==
  ASSUME IInv(core), NEW w \in DOMAIN core.pending, NEW result, NEW end,
         RecordCommands, RecordWrites({w}, end),
         Agrees(result, core.pending[w].kind, end),
         NEW reason, reason # "RuntimeInvariant",
         Run(Caused(Ending(core, w, result), reason), core.state, core')
  PROVE  Handled(Caused(Ending(core, w, result), reason), {w}, end)
<1> DEFINE b == Removed(core, w)
           j == core.pending[w].command
           p == Caused(Ending(core, w, result), reason)
<1>1. /\ \A f \in Fields \ {"pending", "out"} : b[f] = core[f]
      /\ DOMAIN b.pending = DOMAIN core.pending \ {w}
  BY RemovedEffect
<1> HIDE DEF b
<1>2. /\ p.open = core.open /\ p.nextWrite = core.nextWrite /\ p.closing = core.closing
      /\ p.pending = DOMAIN core.pending \ {w} /\ p.told = {<<j, result>>}
      /\ p.bound = UnresolvedCommands(core) /\ p.cause # "RuntimeInvariant"
  BY <1>1 DEF Ending, Snapshot, Caused, Fields, b
<1>3. Run(p, core.state, core')
  OBVIOUS
<1> HIDE DEF p
<1>4. \A v \in DOMAIN core.pending : core.pending[v].command \in p.bound \cup {None}
  BY <1>2 DEF UnresolvedCommands
<1>5. DOMAIN core.open \subseteq Commands
  BY DEF IInv, Weak, Shape
<1>6. DOMAIN core'.open \subseteq DOMAIN core.open
  BY <1>2, <1>3 DEF Run, Log, Opened
<1>7. \A k \in Commands : \A r : <<k, r>> \in p.told => k = j /\ r = result
  BY <1>2
<1>8. Handled(p, {w}, end)
  BY <1>2, <1>3, <1>4, <1>5, <1>6, <1>7 DEF Handled
<1> QED
  BY <1>8 DEF p

\* The outcome of a write: a failure, and the commit of a Send or Separate, dictate a
\* result; the commit of a request lets go of its command.
LEMMA OutcomeHandled ==
  ASSUME IInv(core), NEW w \in DOMAIN core.pending, NEW outcome \in Outcomes,
         RecordCommands, RecordWrites({w}, outcome),
         Run(Reported(core, w, outcome), core.state, core')
  PROVE  Handled(Reported(core, w, outcome), {w}, outcome)
<1> DEFINE kind == core.pending[w].kind
           j == core.pending[w].command
<1>0. kind \in WriteKinds /\ (kind = "Response" => j = None)
  BY DEF IInv, Weak, Shape, Linked
<1>1. CASE outcome = "NotWritten"
  <2>1. Agrees("ConnectionLost", kind, "NotWritten")
    BY DEF Agrees
  <2> QED
    BY <1>1, <2>1, EndingHandled, Uncaused DEF Reported, Ending
<1>2. CASE outcome = "Indeterminate"
  <2>1. Agrees("DeliveryIndeterminate", kind, "Indeterminate")
    BY DEF Agrees
  <2> QED
    BY <1>2, <2>1, EndingHandled, Uncaused DEF Reported, Ending
<1>3. CASE outcome = "Committed" /\ kind \in {"DataSend", "Separate"}
  <2>1. Agrees("Ok", kind, "Committed")
    BY DEF Agrees
  <2> QED
    BY <1>3, <2>1, EndingHandled, Uncaused DEF Reported, Ending
<1>4. CASE outcome = "Committed" /\ kind \notin {"DataSend", "Separate"}
  <2> DEFINE b == Removed(core, w)
             p == Reported(core, w, "Committed")
  <2>1. /\ \A f \in Fields \ {"pending", "out"} : b[f] = core[f]
        /\ DOMAIN b.pending = DOMAIN core.pending \ {w}
    BY RemovedEffect
  <2> HIDE DEF b
  <2>2. /\ p.open = core.open /\ p.nextWrite = core.nextWrite /\ p.closing = core.closing
        /\ p.pending = DOMAIN core.pending \ {w} /\ p.told = {}
        /\ p.bound = UnresolvedCommands(core) \ {j} /\ p.cause # "RuntimeInvariant"
    BY <1>4, <2>1 DEF Reported, Snapshot, Fields, b
  <2>3. Run(p, core.state, core')
    BY <1>4
  <2> HIDE DEF p
  <2>4. ASSUME NEW v \in DOMAIN core.pending, core.pending[v].command \notin p.bound \cup {None}
        PROVE  v = w /\ core.pending[v].kind \in {"TransactionRequest", "DataRequest"}
    <3>1. core.pending[v].command = j /\ j # None
      BY <2>2, <2>4 DEF UnresolvedCommands
    <3>2. v = w
      BY <3>1 DEF IInv, Weak, Linked
    <3> QED
      BY <1>0, <1>4, <3>1, <3>2 DEF WriteKinds
  <2>5. DOMAIN core.open \subseteq Commands
    BY DEF IInv, Weak, Shape
  <2>6. DOMAIN core'.open \subseteq DOMAIN core.open
    BY <2>2, <2>3 DEF Run, Log, Opened
  <2>7. Handled(p, {w}, "Committed")
    BY <1>4, <2>2, <2>3, <2>4, <2>5, <2>6 DEF Handled
  <2> QED
    BY <1>4, <2>7 DEF p
<1> QED
  BY <1>1, <1>2, <1>3, <1>4 DEF Outcomes

\* The Writer's end makes every retained write lost.
LEMMA FinalizeHandled ==
  ASSUME IInv(core), RecordCommands, RecordWrites(DOMAIN core.pending, "lost"),
         Run(Drained(core), core.state, core')
  PROVE  Handled(Drained(core), DOMAIN core.pending, "lost")
<1> DEFINE b == [Begin(core) EXCEPT !.pending = EmptyFunction]
           p == Drained(core)
           S == DOMAIN core.pending
<1>1. /\ \A f \in Fields \ {"pending", "out"} : b[f] = core[f]
      /\ DOMAIN b.pending = {}
  <2>1. DOMAIN core = Fields
    BY DEF IInv, Weak, Shape
  <2> QED
    BY <2>1 DEF Begin, Fields, EmptyFunction
<1> HIDE DEF b
<1>2. /\ p.open = core.open /\ p.nextWrite = core.nextWrite /\ p.closing = core.closing
      /\ p.pending = S \ S
      /\ p.told = UnresolvedCommands(core) \X {"DeliveryIndeterminate"}
      /\ p.bound = UnresolvedCommands(core) /\ p.cause # "RuntimeInvariant"
  BY <1>1 DEF Drained, Snapshot, Fields, b
<1>3. Run(p, core.state, core')
  OBVIOUS
<1> HIDE DEF p
<1>4. \A v \in DOMAIN core.pending : core.pending[v].command \in p.bound \cup {None}
  BY <1>2 DEF UnresolvedCommands
<1>5. DOMAIN core.open \subseteq Commands
  BY DEF IInv, Weak, Shape
<1>6. DOMAIN core'.open \subseteq DOMAIN core.open
  BY <1>2, <1>3 DEF Run, Log, Opened
<1>7. ASSUME NEW k \in Commands, NEW r, <<k, r>> \in p.told
      PROVE  \E w \in S : core.pending[w].command = k /\ Agrees(r, core.pending[w].kind, "lost")
  <2>1. k \in UnresolvedCommands(core) /\ r = "DeliveryIndeterminate"
    BY <1>2, <1>7
  <2>2. PICK w \in S : core.pending[w].command = k
    BY <2>1 DEF UnresolvedCommands
  <2>3. Agrees(r, core.pending[w].kind, "lost")
    BY <2>1 DEF Agrees
  <2> QED
    BY <2>2, <2>3
<1>8. Handled(p, S, "lost")
  BY <1>2, <1>3, <1>4, <1>5, <1>6, <1>7 DEF Handled
<1> QED
  BY <1>8 DEF p

\* Every action of the specification is a handler's step.
LEMMA NextHandled ==
  ASSUME IInv(core), Traced(core), Remembered, Next
  PROVE  \E p, S, end : Handled(p, S, end)
<1> DEFINE plain == Snapshot(core, {}, UnresolvedCommands(core))
<1>0. ASSUME Record, NEW r, r # "RuntimeInvariant", Run(Caused(plain, r), core.state, core')
      PROVE  \E p, S, end : Handled(p, S, end)
  <2> DEFINE q == Caused(plain, r)
  <2>1. /\ q.open = core.open /\ q.nextWrite = core.nextWrite /\ q.closing = core.closing
        /\ q.pending = DOMAIN core.pending /\ q.told = {} /\ q.bound = UnresolvedCommands(core)
        /\ q.cause # "RuntimeInvariant" /\ Run(q, core.state, core')
    BY <1>0 DEF Snapshot, Caused
  <2> HIDE DEF q
  <2>2. Handled(q, {}, "unsent")
    BY <1>0, <2>1, PlainHandled
  <2> QED
    BY <2>2
<1>1. ASSUME Record, Run(plain, core.state, core') PROVE \E p, S, end : Handled(p, S, end)
  BY <1>0, <1>1, Uncaused
<1>a. ASSUME Record, NEW H, Run(Hearing(plain, H), core.state, core')
      PROVE  \E p, S, end : Handled(p, S, end)
  <2> DEFINE q == Hearing(plain, H)
  <2>1. /\ q.open = core.open /\ q.nextWrite = core.nextWrite /\ q.closing = core.closing
        /\ q.pending = DOMAIN core.pending /\ q.told = {} /\ q.bound = UnresolvedCommands(core)
        /\ q.cause # "RuntimeInvariant" /\ Run(q, core.state, core')
    BY <1>a DEF Snapshot, Hearing
  <2> HIDE DEF q
  <2>2. Handled(q, {}, "unsent")
    BY <1>a, <2>1, PlainHandled
  <2> QED
    BY <2>2
<1>2. CASE Connect
  <2>1. Run(plain, core.state, core') /\ Record
    BY <1>2, RunOnConnected DEF Connect
  <2> QED
    BY <1>1, <2>1
<1>3. ASSUME NEW k \in Commands, NEW kind \in Kinds, NEW primary, Command(k, kind, primary)
      PROVE  \E p, S, end : Handled(p, S, end)
  <2>1. kind \in CommandNames /\ OpenKind(kind) \in CommandKinds
    BY InputAssumption DEF OpenKind, CommandKinds, CommandNames, ControlCommands
  <2>2. k \in Commands \ DOMAIN core.open /\ status[k] = "unused" /\ Record
    BY <1>3 DEF Command, Remembered
  <2>3. core' = OnCommand(core, k, kind, primary)
    BY <1>3 DEF Command
  <2>4. Run(Accepting(core, k, OpenKind(kind)), core.state, core')
    BY <2>1, <2>2, <2>3, RunOnCommand
  <2>5. core.closing => DOMAIN core'.open \subseteq DOMAIN core.open
    BY <2>1, <2>2, <2>3, ClosedOpensNothing
  <2>6. Handled(Accepting(core, k, OpenKind(kind)), {}, "unsent")
    BY <2>1, <2>2, <2>4, <2>5, AcceptingHandled
  <2> QED
    BY <2>6
<1>4. ASSUME NEW k \in Commands, NEW cap, NEW i, NEW b, NEW d, Reply(k, cap, i, b, d)
      PROVE  \E p, S, end : Handled(p, S, end)
  <2> DEFINE kind == IF i = "Abandon" THEN "Control" ELSE "Send"
  <2>1. kind \in CommandKinds
    BY DEF CommandKinds
  <2>2. k \in Commands \ DOMAIN core.open /\ status[k] = "unused" /\ Record
    BY <1>4 DEF Reply, Remembered
  <2>3. core' = OnReply(core, k, cap, i, b, d.drain)
    BY <1>4 DEF Reply
  <2>4. Run(Accepting(core, k, kind), core.state, core')
    BY <2>2, <2>3, RunOnReply
  <2>5. core.closing => DOMAIN core'.open \subseteq DOMAIN core.open
    BY <2>2, <2>3, ClosedOpensNothing
  <2> HIDE DEF kind
  <2>6. Handled(Accepting(core, k, kind), {}, "unsent")
    BY <2>1, <2>2, <2>4, <2>5, AcceptingHandled
  <2> QED
    BY <2>6
<1>5. ASSUME NEW m \in PeerMessages, NEW d, Message(m, d) PROVE \E p, S, end : Handled(p, S, end)
  <2>1. Run(Hearing(plain, Heard(core, m)), core.state, core') /\ Record
    BY <1>5, RunOnMessage, InputAssumption DEF Message
  <2> QED
    BY <1>a, <2>1
<1>6. ASSUME NEW v, Violation(v) PROVE \E p, S, end : Handled(p, S, end)
  <2>1. Run(plain, core.state, core') /\ Record
    BY <1>6, RunOnInboundViolation DEF Violation
  <2> QED
    BY <1>1, <2>1
<1>7. ASSUME NEW w \in DOMAIN core.pending, NEW o \in Outcomes, NEW d, WriteOutcome(w, o, d)
      PROVE  \E p, S, end : Handled(p, S, end)
  <2>1. /\ core' = OnWriteOutcome(core, w, o, d)
        /\ RecordCommands /\ RecordWrites({w}, o)
    BY <1>7 DEF WriteOutcome
  <2>2. Run(Reported(core, w, o), core.state, core')
    BY <2>1, RunOnWriteOutcome
  <2>3. Handled(Reported(core, w, o), {w}, o)
    BY <2>1, <2>2, OutcomeHandled
  <2> QED
    BY <2>3
<1>8. ASSUME NEW w \in DOMAIN core.pending, NEW r \in {"ControlBackpressure", "TransportLost"},
             AdmissionFailure(w, r)
      PROVE  \E p, S, end : Handled(p, S, end)
  <2> DEFINE error == RefusalError(r)
  <2>1. /\ core' = OnAdmissionFailure(core, r, w)
        /\ RecordCommands /\ RecordWrites({w}, "refused")
    BY <1>8 DEF AdmissionFailure
  <2>2. Run(Caused(Ending(core, w, error), r), core.state, core')
    BY <2>1, RunOnAdmissionFailure
  <2>3. Agrees(error, core.pending[w].kind, "refused")
    BY DEF RefusalError, Agrees
  <2> HIDE DEF error
  <2>4. Handled(Caused(Ending(core, w, error), r), {w}, "refused")
    BY <2>1, <2>2, <2>3, EndingHandled
  <2> QED
    BY <2>4
<1>9. ASSUME NEW r \in {"LocalStop", "TransportLost"}, Shutdown(r)
      PROVE  \E p, S, end : Handled(p, S, end)
  <2>1. Run(Caused(plain, r), core.state, core') /\ Record
    BY <1>9, RunOnShutdown DEF Shutdown
  <2> QED
    BY <1>0, <2>1
<1>10. CASE FinishDrain("LocalStop")
  <2>1. Run(Caused(plain, "LocalStop"), core.state, core') /\ Record
    BY <1>10, RunOnShutdown DEF FinishDrain
  <2> QED
    BY <1>0, <2>1
<1>11. ASSUME NEW d, Tick(d) PROVE \E p, S, end : Handled(p, S, end)
  <2>1. Run(plain, core.state, core') /\ Record
    BY <1>11, RunAdvancesTime DEF Tick
  <2> QED
    BY <1>1, <2>1
<1>12. CASE WriterStopped
  <2>1. /\ core.closing /\ core' = FinalizeWriter(core)
        /\ RecordCommands /\ RecordWrites(DOMAIN core.pending, "lost")
    BY <1>12 DEF WriterStopped
  <2>2. Run(Drained(core), core.state, core')
    BY <2>1, RunFinalizes
  <2>3. Handled(Drained(core), DOMAIN core.pending, "lost")
    BY <2>1, <2>2, FinalizeHandled
  <2> QED
    BY <2>3
<1> HIDE DEF plain
<1> QED
  BY <1>2, <1>3, <1>4, <1>5, <1>6, <1>7, <1>8, <1>9, <1>10, <1>11, <1>12 DEF Next

-----------------------------------------------------------------------------
(* Theorems.                                                               *)

\* The struct's invariant, the traces of its transactions and the histories.
History == IInv(core) /\ Traced(core) /\ Remembered

\* SessionCore::new has nothing to trace or to remember.
LEMMA InitHistory == Init => History
<1> SUFFICES ASSUME Init PROVE History
  OBVIOUS
<1>1. IInv(core)
  BY NewCoreIInv DEF Init
<1>2. /\ core.active = None /\ DOMAIN core.data = {} /\ DOMAIN core.deferred = {}
      /\ DOMAIN core.open = {} /\ DOMAIN core.pending = {}
  BY DEF Init, NewCore, EmptyFunction
<1>3. Traced(core)
  BY <1>2 DEF Traced
<1>4. Remembered
  BY <1>2 DEF Remembered, Init
<1> QED
  BY <1>1, <1>3, <1>4 DEF History

\* A step is a handler's step, or changes nothing.
LEMMA StepHandled ==
  ASSUME History, [Next]_vars
  PROVE  IInv(core') /\ (UNCHANGED vars \/ \E p, S, end : Handled(p, S, end))
<1>1. IInv(core')
  BY NextIInv DEF History
<1> QED
  BY <1>1, NextHandled DEF History

\* Every step preserves the histories.
LEMMA NextHistory ==
  ASSUME History, [Next]_vars
  PROVE  History'
<1>1. CASE UNCHANGED vars
  BY <1>1 DEF History, Remembered, vars
<1>2. CASE ~UNCHANGED vars
  <2>1. PICK p, S, end : Handled(p, S, end)
    BY <1>2, StepHandled
  <2>2. IInv(core')
    BY StepHandled
  <2>3. Traced(core')
    BY <2>1 DEF Handled, Run
  <2>4. Remembered'
    BY <2>1, <2>2, HandledRemembers DEF History
  <2> QED
    BY <2>2, <2>3, <2>4 DEF History
<1> QED
  BY <1>1, <1>2

\* What the histories remember holds in every reachable state of every instance.
THEOREM CoreRemembers == Spec => []History
<1>1. History /\ [Next]_vars => History'
  BY NextHistory
<1> QED
  BY <1>1, InitHistory, PTL DEF Spec

\* fail_runtime_invariant is reached only with an exhausted identifier space: every
\* completion of every handler finds its command open, of the kind it insists on.
THEOREM CoreNeverFails == Spec => []NoRuntimeInvariant
<1>1. Init => NoRuntimeInvariant
  <2> SUFFICES ASSUME Init PROVE ClosesOf(core.out) = {}
    BY DEF NoRuntimeInvariant
  <2>1. core.out = <<>>
    BY DEF Init, NewCore
  <2> QED
    BY <2>1 DEF ClosesOf
<1>2. NoRuntimeInvariant /\ History /\ [Next]_vars => NoRuntimeInvariant'
  <2> SUFFICES ASSUME NoRuntimeInvariant, History, [Next]_vars PROVE NoRuntimeInvariant'
    OBVIOUS
  <2>1. CASE UNCHANGED vars
    BY <2>1 DEF NoRuntimeInvariant, vars
  <2>2. CASE ~UNCHANGED vars
    <3>1. PICK p, S, end : Handled(p, S, end)
      BY <2>2, StepHandled
    <3>2. Excused(p, core') /\ p.cause # "RuntimeInvariant"
      BY <3>1 DEF Handled, Run, Log
    <3> QED
      BY <3>2 DEF NoRuntimeInvariant, Excused, Excusable, CoreReasons, Exhausted, ClosesOf
  <2> QED
    BY <2>1, <2>2
<1> QED
  BY <1>1, <1>2, CoreRemembers, PTL DEF Spec

\* Whatever the order of responses, outcomes, refusals, deadlines and closes, what a
\* command is told agrees with what became of its write.
THEOREM ResultsFollowTheWire == Spec => []ResultsAreTruthful
<1>1. Init => ResultsAreTruthful
  BY DEF Init, ResultsAreTruthful
<1>2. ResultsAreTruthful /\ History /\ [Next]_vars => ResultsAreTruthful'
  <2> SUFFICES ASSUME ResultsAreTruthful, History, [Next]_vars PROVE ResultsAreTruthful'
    OBVIOUS
  <2>1. CASE UNCHANGED vars
    BY <2>1 DEF ResultsAreTruthful, vars
  <2>2. CASE ~UNCHANGED vars
    BY <2>2, StepHandled, HandledIsTruthful DEF History
  <2> QED
    BY <2>1, <2>2
<1> QED
  BY <1>1, <1>2, CoreRemembers, PTL DEF Spec

\* A command is completed once, by one action of one batch, and never again; a Core
\* that is closing hands out nothing new.
THEOREM CommandsCompleteOnce == Spec => CompletionsAreFinal
<1> DEFINE Once == \A k \in Commands :
             /\ k \in Completed(core'.out) =>
                  /\ status[k] \in {"unused", "open"}
                  /\ k \notin DOMAIN core'.open
                  /\ Cardinality({i \in DOMAIN core'.out :
                       core'.out[i].act = "CompleteCommand" /\ k \in core'.out[i].commands}) = 1
             /\ status[k] \notin {"unused", "open"} => status'[k] = status[k]
           Quiet == core.closing =>
             /\ core'.closing /\ core'.state = core.state
             /\ DOMAIN core'.pending \subseteq DOMAIN core.pending
             /\ DOMAIN core'.open \subseteq DOMAIN core.open
             /\ \A i \in DOMAIN core'.out :
                  core'.out[i].act \in {"CompleteCommand", "CloseGeneration"}
<1>1. History /\ [Next]_vars => [Once]_vars /\ [Quiet]_vars
  <2> SUFFICES ASSUME History, [Next]_vars, ~UNCHANGED vars PROVE Once /\ Quiet
    OBVIOUS
  <2> HIDE DEF Once, Quiet
  <2>1. PICK p, S, end : Handled(p, S, end)
    BY StepHandled
  <2> QED
    BY <2>1, StepHandled, HandledIsFinal DEF History, Once, Quiet
<1>2. CompletionsAreFinal <=> [][Once]_vars /\ [][Quiet]_vars
  BY DEF CompletionsAreFinal, CompletedOnce, ClosedCoreIsQuiet
<1> HIDE DEF Once, Quiet
<1> QED
  BY <1>1, <1>2, CoreRemembers, PTL DEF Spec

\* A new selection state is published in the batch that takes it, after the response
\* that led to it (receive_select_request, receive_deselect_request).
THEOREM StateIsAnnounced == Spec => StateFollowsResponse
<1> DEFINE Follows == core'.state # core.state =>
             \/ \E i \in DOMAIN core'.out :
                  /\ core'.out[i] = StateChanged(core'.state)
                  /\ \A j \in DOMAIN core'.out :
                       core'.out[j].act = "SendFrame" /\ j > i =>
                         core'.out[j].message.type \notin {"Select.rsp", "Deselect.rsp"}
             \/ core'.closing /\ core'.nextWrite = WriteSpace
<1>1. History /\ [Next]_vars => [Follows]_vars
  <2> SUFFICES ASSUME History, [Next]_vars, ~UNCHANGED vars PROVE Follows
    OBVIOUS
  <2>1. PICK p, S, end : Handled(p, S, end)
    BY StepHandled
  <2>2. Announced(core.state, core')
    BY <2>1 DEF Handled, Run, Log
  <2> QED
    BY <2>2 DEF Announced
<1>2. StateFollowsResponse <=> [][Follows]_vars
  BY DEF StateFollowsResponse
<1> HIDE DEF Follows
<1> QED
  BY <1>1, <1>2, CoreRemembers, PTL DEF Spec

-----------------------------------------------------------------------------
(* What every open command waits for.                                      *)

\* What every open command waits for, at every step.
LEMMA NextAwaits ==
  ASSUME IInv(core), Awaits(core, {}), DrainWaits(core), [Next]_vars
  PROVE  Awaits(core', {}) /\ DrainWaits(core')
<1>1. CASE Connect
  BY <1>1, OnConnectedAwaits DEF Connect
<1>2. ASSUME NEW k \in Commands, NEW kind \in Kinds, NEW p \in Primaries, Command(k, kind, p)
      PROVE  Awaits(core', {}) /\ DrainWaits(core')
  BY <1>2, OnCommandAwaits, InputAssumption DEF Command
<1>3. ASSUME NEW k \in Commands, NEW cap, NEW i \in Intents, NEW b, NEW d, Reply(k, cap, i, b, d)
      PROVE  Awaits(core', {}) /\ DrainWaits(core')
  <2>1. i \in ReplyIntents
    BY InputAssumption DEF ReplyIntents
  <2> QED
    BY <1>3, <2>1, OnReplyAwaits DEF Reply
<1>4. ASSUME NEW m \in PeerMessages, NEW d, Message(m, d)
      PROVE  Awaits(core', {}) /\ DrainWaits(core')
  BY <1>4, OnMessageAwaits, InputAssumption DEF Message
<1>5. ASSUME NEW v, Violation(v)
      PROVE  Awaits(core', {}) /\ DrainWaits(core')
  BY <1>5, OnInboundViolationAwaits DEF Violation
<1>6. ASSUME NEW w \in DOMAIN core.pending, NEW o \in Outcomes, NEW d, WriteOutcome(w, o, d)
      PROVE  Awaits(core', {}) /\ DrainWaits(core')
  BY <1>6, OnWriteOutcomeAwaits DEF WriteOutcome
<1>7. ASSUME NEW w \in DOMAIN core.pending, NEW r, AdmissionFailure(w, r)
      PROVE  Awaits(core', {}) /\ DrainWaits(core')
  BY <1>7, OnAdmissionFailureAwaits DEF AdmissionFailure
<1>8. ASSUME NEW r, Shutdown(r)
      PROVE  Awaits(core', {}) /\ DrainWaits(core')
  BY <1>8, OnShutdownAwaits DEF Shutdown
<1>9. CASE FinishDrain("LocalStop")
  BY <1>9, FinishShutdownDrainAwaits DEF FinishDrain
<1>10. ASSUME NEW d, Tick(d)
       PROVE  Awaits(core', {}) /\ DrainWaits(core')
  BY <1>10, AdvanceTimeAwaits DEF Tick
<1>11. CASE WriterStopped
  BY <1>11, FinalizeWriterAwaits DEF WriterStopped
<1>12. CASE UNCHANGED vars
  BY <1>12 DEF vars
<1> QED
  BY <1>1, <1>2, <1>3, <1>4, <1>5, <1>6, <1>7, <1>8, <1>9, <1>10, <1>11, <1>12 DEF Next

\* Every open command still waits for something that can happen, a drain for Data
\* work that remains, and no completed request can be taken for a live one: however
\* responses, outcomes, deadlines, replies and closes are interleaved.
THEOREM NobodyIsForgotten == Spec => []CommandsAreAwaited
<1> DEFINE Waiting == IInv(core) /\ Awaits(core, {}) /\ DrainWaits(core)
<1>1. Init => Waiting
  BY NewCoreIInv, NewCoreAwaits DEF Init
<1>2. Waiting /\ [Next]_vars => Waiting'
  BY NextIInv, NextAwaits
<1>3. Waiting => CommandsAreAwaited
  <2> SUFFICES ASSUME Waiting PROVE CommandsAreAwaited
    OBVIOUS
  <2>1. EveryOpenCommandIsAwaited
    BY DEF EveryOpenCommandIsAwaited, Awaits, Cared, LiveCare, ClosingCare, Attended
  <2>2. DrainWaitsForWork
    BY DEF DrainWaitsForWork, DrainWaits, Awaits, Pausing, IInv, Owners
  <2>3. TombstonesAreRetired
    BY DEF TombstonesAreRetired, Awaits, Retirement
  <2> QED
    BY <2>1, <2>2, <2>3 DEF CommandsAreAwaited
<1> HIDE DEF Waiting
<1> QED
  BY <1>1, <1>2, <1>3, PTL DEF Spec

=============================================================================
