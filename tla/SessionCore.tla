----------------------------- MODULE SessionCore -----------------------------
(***************************************************************************)
(* One generation's SessionCore driven by everything Driver may feed it:   *)
(* accepted commands and replies, peer messages, header violations, write  *)
(* outcomes, refused admissions, deadlines, shutdown and the Writer's end. *)
(*                                                                         *)
(* core is the struct.  The other variables are histories that no handler  *)
(* reads: what happened to each command, which write carried it, and what  *)
(* became of each write.                                                   *)
(***************************************************************************)
EXTENDS SessionCoreOps

CONSTANTS
  PeerMessages,    \* validated messages the peer may send
  PeerViolations,  \* header violations the peer may cause
  Primaries,       \* [stream, function, body] the application may send
  Kinds,           \* command kinds the application may use
  Intents,         \* reply intents the application may use
  ReplyBodies      \* whether the application's Secondary carries Message Text

ASSUME InputAssumption ==
  /\ Kinds \subseteq CommandNames
  /\ Intents \subseteq {"Secondary", "Abort", "Abandon"}
  /\ \A m \in PeerMessages : m.type \in MessageTypes
  /\ \A m \in PeerMessages : m.type = "Data" => m.header.function \in FunctionCodes

VARIABLES core, status, carrier, wire

vars == <<core, status, carrier, wire>>

\* The frames and the completions of a batch.
FramesOf(out) == {a \in {out[i] : i \in DOMAIN out} : a.act = "SendFrame"}
CompletionsOf(out) == {a \in {out[i] : i \in DOMAIN out} : a.act = "CompleteCommand"}
Completed(out) == UNION {a.commands : a \in CompletionsOf(out)}
ClosesOf(out) == {a \in {out[i] : i \in DOMAIN out} : a.act = "CloseGeneration"}

-----------------------------------------------------------------------------
(* Histories.                                                              *)

\* status[k]: "unused", "open" or the result k was completed with.
\* carrier[k]: the write that carried k and its kind, if any.
\* wire[w]: "unsent", "queued", "refused" by the Writer's admission, or the
\* outcome the Writer reported ("lost" if it ended without reporting one).
Init ==
  /\ core = NewCore
  /\ status = [k \in Commands |-> "unused"]
  /\ carrier = [k \in Commands |-> None]
  /\ wire = [w \in WriteIds |-> "unsent"]

\* The history of commands after a handler.
RecordCommands ==
  /\ status' = [k \in Commands |->
                  IF k \in Completed(core'.out)
                  THEN (CHOOSE a \in CompletionsOf(core'.out) : k \in a.commands).result
                  ELSE IF k \in DOMAIN core'.open THEN "open" ELSE status[k]]
  /\ carrier' = [k \in Commands |->
                  IF k \in UnresolvedCommands(core')
                  THEN LET w == CHOOSE v \in DOMAIN core'.pending :
                                  core'.pending[v].command = k
                       IN  [write |-> w, kind |-> core'.pending[w].kind]
                  ELSE carrier[k]]

\* The history of writes: the frames of the batch are queued, and the writes
\* of S have come to their end.
RecordWrites(S, end) ==
  wire' = [w \in WriteIds |->
             IF w \in S THEN end
             ELSE IF \E a \in FramesOf(core'.out) : a.write = w THEN "queued"
             ELSE wire[w]]

Record == RecordCommands /\ RecordWrites({}, "unsent")

-----------------------------------------------------------------------------
(* Actions.                                                                *)

Connect ==
  /\ core.state = "None" /\ ~core.closing
  /\ core' = OnConnected(core)
  /\ Record

Command(k, kind, primary) ==
  /\ status[k] = "unused"
  /\ core' = OnCommand(core, k, kind, primary)
  /\ Record

\* Driver refuses a Secondary for an F255 Primary before Core sees it.
Reply(k, capability, intent, body, due) ==
  /\ status[k] = "unused"
  /\ capability < core.nextReply
  /\ intent = "Secondary" /\ capability \in DOMAIN core.replies =>
       core.replies[capability].function < 255
  /\ core' = OnReply(core, k, capability, intent, body, due.drain)
  /\ Record

Message(m, due) ==
  /\ core' = OnMessage(core, m, due.drain)
  /\ Record

Violation(v) ==
  /\ core' = OnInboundViolation(core, v)
  /\ Record

\* The Writer reports the outcome of an admitted write.  It writes in admission
\* order, and after a failed write it writes nothing any more.
WriteOutcome(w, outcome, due) ==
  /\ \A v \in DOMAIN core.pending : w <= v
  /\ (\E v \in WriteIds : wire[v] \in {"NotWritten", "Indeterminate"}) =>
       outcome = "NotWritten"
  /\ core' = OnWriteOutcome(core, w, outcome, due)
  /\ RecordCommands
  /\ RecordWrites({w}, outcome)

\* The Writer refused the frame Core has just emitted.
AdmissionFailure(w, reason) ==
  /\ \E a \in FramesOf(core.out) : a.write = w
  /\ wire[w] = "queued"
  /\ core' = OnAdmissionFailure(core, reason, w)
  /\ RecordCommands
  /\ RecordWrites({w}, "refused")

Shutdown(reason) ==
  /\ core' = OnShutdown(core, reason)
  /\ Record

FinishDrain(reason) ==
  /\ core' = FinishShutdownDrain(core, reason)
  /\ Record

Tick(due) ==
  /\ core' = AdvanceTime(core, due)
  /\ Record

\* Driver has drained every outcome and the Writer is gone.
WriterStopped ==
  /\ core.closing
  /\ core' = FinalizeWriter(core)
  /\ RecordCommands
  /\ RecordWrites(DOMAIN core.pending, "lost")

\* DueChoices with only the drain deadline.
DrainChoices == {d \in DueChoices(core) : d = [NothingDue EXCEPT !.drain = d.drain]}

Next ==
  \/ Connect
  \/ \E k \in Commands, kind \in Kinds, p \in Primaries : Command(k, kind, p)
  \/ \E k \in Commands, cap \in DOMAIN core.replies \cup {0}, i \in Intents, b \in ReplyBodies,
        d \in DrainChoices : Reply(k, cap, i, b, d)
  \/ \E m \in PeerMessages, d \in DrainChoices : Message(m, d)
  \/ \E v \in PeerViolations : Violation(v)
  \/ \E w \in DOMAIN core.pending, o \in Outcomes, d \in DueChoices(core) :
        WriteOutcome(w, o, d)
  \/ \E w \in DOMAIN core.pending, r \in {"ControlBackpressure", "TransportLost"} :
        AdmissionFailure(w, r)
  \/ \E r \in {"LocalStop", "TransportLost"} : Shutdown(r)
  \/ FinishDrain("LocalStop")
  \/ \E d \in DueChoices(core) : Tick(d)
  \/ WriterStopped

Spec == Init /\ [][Next]_vars

-----------------------------------------------------------------------------
(* Types.                                                                  *)

\* The struct has its declared shape; identifiers stay inside their spaces.
TypeOK ==
  /\ DOMAIN core = CoreFields
  /\ core.state \in {"None", "NotSelected", "Selected"}
  /\ core.t7 \in BOOLEAN /\ core.idle \in BOOLEAN
  /\ core.closing \in BOOLEAN /\ core.closeIssued \in BOOLEAN
  /\ core.nextWrite \in 0..WriteSpace
  /\ core.nextSys \in 0..SystemBytesSpace
  /\ core.nextReply \in 0..ReplySpace
  /\ core.active # None =>
       /\ core.active.kind \in TransactionKinds
       /\ core.active.command \in Commands \cup {None}
       /\ core.active.sys \in SystemBytes
       /\ core.active.write \in WriteIds
       /\ core.active.armed \in BOOLEAN
  /\ core.drain \in Commands \cup {None}
  /\ DOMAIN core.data \subseteq SystemBytes
  /\ \A s \in DOMAIN core.data :
       /\ core.data[s].command \in Commands
       /\ core.data[s].write \in WriteIds
       /\ core.data[s].armed \in BOOLEAN
  /\ DOMAIN core.pending \subseteq WriteIds
  /\ \A w \in DOMAIN core.pending :
       /\ core.pending[w].kind \in WriteKinds
       /\ core.pending[w].command \in Commands \cup {None}
  /\ DOMAIN core.replies \subseteq ReplyIds
  /\ DOMAIN core.open \subseteq Commands
  /\ \A k \in DOMAIN core.open : core.open[k] \in CommandKinds
  /\ DOMAIN core.deferred \subseteq Commands

-----------------------------------------------------------------------------
(* Safety invariants.                                                      *)

\* Core never trips its own fail_runtime_invariant while Driver keeps its side
\* of the contract: every completion finds its command open with the kind it
\* expects, whatever the order of responses, outcomes, deadlines and closes.
\* Running out of WriteIds or capability ids is the only way there.
NoRuntimeInvariant ==
  (\E a \in ClosesOf(core.out) : a.reason = "RuntimeInvariant") =>
    core.nextWrite = WriteSpace \/ core.nextReply = ReplySpace

\* The command a retained write answers for is open, of the kind the write's
\* outcome will complete it as, and carried by that write only (finalize_writer
\* and emit_completion depend on it).
WritesAnswerOpenCommands ==
  \A w \in DOMAIN core.pending : core.pending[w].command # None =>
    LET k == core.pending[w].command
    IN  /\ k \in DOMAIN core.open
        /\ core.open[k] = CASE core.pending[w].kind = "DataSend" -> "Send"
                            [] core.pending[w].kind = "DataRequest" -> "Request"
                            [] OTHER -> "Control"
        /\ \A v \in DOMAIN core.pending : core.pending[v].command = k => v = w

\* Every open command has something that will complete it: an unresolved
\* write, a live control transaction, the drain or a live request.  A generation
\* that is closing keeps only commands with unresolved writes; the exception is
\* a Deselect still draining when the peer separates, which receive_separate
\* leaves to finalize_writer.
EveryOpenCommandIsAwaited ==
  \A k \in DOMAIN core.open :
    \/ k \in UnresolvedCommands(core)
    \/ /\ ~core.closing
       /\ \/ core.active # None /\ core.active.command = k
          \/ core.drain = k
          \/ \E s \in DOMAIN core.data : core.data[s].command = k
    \/ core.closing /\ core.open[k] = "Control" /\ core.state = "NotSelected"

\* A transaction whose deadline is not armed yet still has its write pending,
\* so either the commit arms T6/T3 or a failure ends it: none is left waiting
\* for a response with no timer.
NoUntimedTransaction ==
  /\ core.active # None /\ ~core.active.armed =>
       /\ core.active.write \in DOMAIN core.pending
       /\ core.pending[core.active.write].kind = "TransactionRequest"
  /\ \A s \in DOMAIN core.data : ~core.data[s].armed =>
       /\ core.data[s].write \in DOMAIN core.pending
       /\ core.pending[core.data[s].write].kind = "DataRequest"
       /\ core.pending[core.data[s].write].sys = s

\* Data never follows a Deselect.req: while the Deselect transaction is live
\* there is no outbound request and no Data frame waiting to be written.
DeselectIsDrained ==
  RepliesBlocked(core) =>
    /\ DOMAIN core.data = {}
    /\ \A w \in DOMAIN core.pending : core.pending[w].kind \notin DataWriteKinds

\* A drain is never left behind: while one is pending the session is Selected,
\* the control slot is free and some Data work really remains.
DrainWaitsForWork ==
  core.drain # None /\ ~core.closing =>
    core.state = "Selected" /\ core.active = None /\ DataInUse(core)

\* T7 runs exactly during a NotSelected tenure.
SelectionTenureIsTimed ==
  ~core.closing => (core.t7 <=> core.state = "NotSelected")

\* Outbound requests and reply capabilities live only in Selected.
DataLivesInSelected ==
  ~core.closing /\ (DOMAIN core.data # {} \/ DOMAIN core.replies # {}) =>
    core.state = "Selected"

\* Deferred errors wait for a write that is still unresolved.
DeferredErrorsAwaitWrites ==
  /\ DOMAIN core.deferred \subseteq UnresolvedCommands(core)
  /\ DOMAIN core.deferred # {} => core.closing

\* A completed request can never be taken for a live one: the contracts kept as
\* tombstones and the live ones have different System Bytes, all handed out.
TombstonesAreRetired ==
  /\ Len(core.tomb) <= TombstoneCapacity
  /\ \A i \in DOMAIN core.tomb :
       /\ core.tomb[i].sys \notin DOMAIN core.data
       /\ core.tomb[i].sys < core.nextSys
       /\ \A j \in DOMAIN core.tomb : core.tomb[i].sys = core.tomb[j].sys => i = j

\* Every wait for the peer is timed: a transaction has its timer or a write that
\* will arm it, and a tenure in NotSelected has T7.
WaitsAreTimed == NoUntimedTransaction /\ SelectionTenureIsTimed

\* Every retained write and every deferred error still owes its command an answer,
\* and each command is owed one answer only.
OutcomesAreOwed == WritesAnswerOpenCommands /\ DeferredErrorsAwaitWrites

\* Data follows the session: none is under way outside Selected, and none follows
\* a Deselect.req on the wire.
DataFollowsSession == DataLivesInSelected /\ DeselectIsDrained

\* Every command still waits for something that can happen: an open one for a write,
\* a transaction or a request, a drain for Data work that really remains; and no
\* completed request is taken for a live one.
CommandsAreAwaited == EveryOpenCommandIsAwaited /\ DrainWaitsForWork /\ TombstonesAreRetired

\* What the application is told agrees with the wire.  A Send or Separate
\* succeeds only if its frame was written; a Send that reports a lost connection
\* was provably not written; backpressure means the Writer refused the frame;
\* "indeterminate" is said only of a partial or unreported write; and the
\* response timers are only ever blamed for a request that was written.
ResultsAreTruthful ==
  \A k \in Commands : carrier[k] # None /\ status[k] # "open" =>
    LET end == wire[carrier[k].write]
        is(kind) == carrier[k].kind = kind
    IN  /\ status[k] = "Ok" /\ (is("DataSend") \/ is("Separate")) => end = "Committed"
        /\ status[k] = "ConnectionLost" /\ is("DataSend") => end \in {"NotWritten", "refused"}
        /\ status[k] = "DeliveryIndeterminate" => end \in {"Indeterminate", "lost"}
        /\ status[k] = "Backpressure" => end = "refused"
        /\ status[k] \in {"TimeoutT6", "RequestTimedOut"} => end = "Committed"
        /\ status[k] = "SessionDeselected" => is("DataRequest") /\ end = "Committed"

-----------------------------------------------------------------------------
(* Action properties.                                                      *)

\* A command is completed at most once: only while it is open (or in the very
\* step that accepts it), by one action of the batch, and never again.
CompletedOnce ==
  [][\A k \in Commands :
       /\ k \in Completed(core'.out) =>
            /\ status[k] \in {"unused", "open"}
            /\ k \notin DOMAIN core'.open
            /\ Cardinality({i \in DOMAIN core'.out :
                 core'.out[i].act = "CompleteCommand" /\ k \in core'.out[i].commands}) = 1
       /\ status[k] \notin {"unused", "open"} => status'[k] = status[k]]_vars

\* Once closing, Core produces no frame, no state, no Primary and accepts no
\* new obligation; only completions remain (and the repeated close of a refused
\* Separate, whose own close action Driver never applied).
ClosedCoreIsQuiet ==
  [][core.closing =>
       /\ core'.closing /\ core'.state = core.state
       /\ DOMAIN core'.pending \subseteq DOMAIN core.pending
       /\ DOMAIN core'.open \subseteq DOMAIN core.open
       /\ \A i \in DOMAIN core'.out :
            core'.out[i].act \in {"CompleteCommand", "CloseGeneration"}]_vars

\* Completions are final: one for each command, and after closing nothing else.
CompletionsAreFinal == CompletedOnce /\ ClosedCoreIsQuiet

\* A change of selection state is published in the same batch, and after the
\* response that answers the peer's request, so that the response has its place
\* on the wire before anyone sees the new state.  (With no WriteId left for the
\* response, Core closes instead.)
StateFollowsResponse ==
  [][core'.state # core.state =>
       \/ \E i \in DOMAIN core'.out :
            /\ core'.out[i] = StateChanged(core'.state)
            /\ \A j \in DOMAIN core'.out :
                 core'.out[j].act = "SendFrame" /\ j > i =>
                   core'.out[j].message.type \notin {"Select.rsp", "Deselect.rsp"}
       \/ core'.closing /\ core'.nextWrite = WriteSpace]_vars

=============================================================================
