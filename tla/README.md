# Formal models of the HSMS runtime of secs_rust

This directory holds TLA+ models of the HSMS-SS runtime under `src/hsms` and of the
SECS-II and SML codecs beside it, the TLC configurations that check them on small
instances, and TLAPS proofs about the protocol core, the generation that drives it, the
endpoint, the delivery queues and the reader for every size.  All paths below are
relative to the repository.

## 1. The system

One *endpoint* owns at most one TCP connection at a time, a *generation*.  Inside a
generation everything that decides is sequential; concurrency comes from the two I/O
workers, the peer, the timers and the application, whose inputs are serialized into
rounds in an order nobody controls.

| Part | State | Operations | Talks to |
|---|---|---|---|
| `core` (SessionCore) | selection state, T7 and idle deadlines, next ids, the control transaction, the Deselect drain, live requests, tombstones, retained writes, reply capabilities, open commands, deferred errors, closing flags | `on_connected`, `on_command`, `on_reply`, `on_message`, `on_inbound_violation`, `on_write_outcome_at`, `on_shutdown`, `finish_shutdown_drain`, `advance_time`, `finalize_writer` | returns an ordered batch of actions to the Driver |
| `generation/driver` (SessionDriver) | accepted-command FIFO and its byte budget, completion endpoints, admitted writes, inbound and error queues, close state with its write barrier | `try_accept_*`, `drive_next_command`, `on_message`, `on_write_outcome_at`, `on_shutdown`, `on_writer_stopped`, ... | Core, Writer ingress, application completions |
| `generation/transport` | two writer lanes with permits and byte budgets, reader budget, report FIFOs, cancellation latch, poison | admission, write loop, read loop, `poll_terminal`, `cleanup`, `recover` | socket, Driver |
| `generation/runtime` (GenerationRuntime) | round preference, graceful-close deadlines | one round at a time, `begin_graceful_close`, `finish` | Driver, I/O tasks |
| `supervisor` | generation slot, source (listener or T5 timer), running intent, fault latch | `start`, `connect`, `step_current`, `begin_stop`, `begin_disconnect`, `finish_generation`, `recover_stopped` | GenerationRuntime |
| `endpoint` | lifecycle queue, pending close acknowledgements, published snapshot, unpublished completions | `run`, `receive`, `publish` | application handles, supervisor |
| `endpoint/receiver`, `endpoint/diagnostics` | two reliable queues with count and byte bounds, one lossy queue with a sequence and a loss counter | `capacity`, `primary`, `error`, `recv`, `publish` | application tasks |
| `wire`, `codec`, `protocol` | partial frame | framing, header validation, planning and encoding of frames | transport |
| `profile`, `secs2` | the decoder's explicit stack | body decoding under limits, measuring and encoding | codec |
| `sml` | lookahead and open Lists of the parser | parsing, formatting | application |

What is hard: the response to a request may overtake the report of its own write; the
Writer may refuse a frame in the middle of a batch; writes may be partial or their
outcome never reported; both peers may select, deselect or separate at once; several
timers may fall due in one round; identifiers and queues run out; and closing has to
settle every command exactly once with a result that agrees with the wire, whatever
happened before.  `PROJECT.json` lists these hazards line by line.

What makes each part correct:

* **Core**: every command is completed exactly once and truthfully; every wait is
  bounded by a timer; no Data follows Deselect.req; a closed Core only completes.
* **Driver**: every accepted command gets one result even if a batch is cut; the first
  close reason wins; the transport closes only after the tail Separate's outcome or a
  terminal shutdown.
* **Transport**: outcomes in admission order; an exit after the last report; the
  budgets are returned; the frames are found however TCP cuts them; T8 means silence.
* **Runtime, supervisor, endpoint**: graceful close ends by its deadline; one generation
  at a time; no replacement of an unproven slot; T5 between attempts; publication before
  completion; commands never reach another generation.
* **Delivery**: no gap in what the application receives; no byte permit leaks; losses of
  diagnostics are counted.
* **Two peers**: they agree on the session and never have to reject each other.
* **Codecs**: exactly the well-formed inputs within the limits are accepted, the limits
  bind while reading, and what is written reads back.

## 2. Modules

| Module | Models | Kind |
|---|---|---|
| `ResponseContract` | `core/transaction.rs` | pure operators |
| `SessionCoreOps` | every procedure of `core/session.rs` and `core/session/*.rs` | functions from a Core state to the next one |
| `SessionCore` | a Core driven by everything the Driver can feed it | state machine, properties |
| `MCSessionCore` | instances for TLC | |
| `SessionCoreLemmas` | what each procedure and handler of Core preserves, pushes and leaves waiting: the lemmas every proof with a Core in it builds on | TLAPS |
| `SessionCoreProofs` | what the histories remember; the theorems of `SessionCore` | TLAPS |
| `GenerationLemmas` | what each call of `SessionDriver` does to Core, the books, the queue and the transport together | TLAPS |
| `GenerationProofs` | the inductive invariant, the theorems and the refinement of `GenerationRuntime` | TLAPS |
| `HsmsPairProofs` | what two Cores and their connection preserve; the theorems of `HsmsPair` | TLAPS |
| `EndpointProofs`, `DeliveryProofs`, `InboundStreamProofs` | inductive invariants and theorems of the modules they are named after | TLAPS |
| `SessionDriver` | `generation/driver/mod.rs` and the Writer's ingress, on top of `SessionCoreOps` | functions from a Driver state to the next one |
| `GenerationRuntime` | `generation/runtime.rs`, the Writer task, `transport/tasks.rs`: Driver, Writer, timers, application, peer and cleanup composed | state machine, properties |
| `GenerationSteps`, `GenerationContract` | what a generation promises its owner: as functions for `Endpoint`, and as a specification that `GenerationRuntime` implements | abstract specification |
| `Endpoint` | `endpoint/runtime.rs`, `endpoint/mod.rs`, `data.rs`, `reply.rs`, `supervisor/*.rs` | state machine, properties |
| `EndpointView` | the lifecycle a watcher of the snapshots may rely on | abstract specification |
| `Delivery` | `endpoint/receiver.rs`, `endpoint/diagnostics.rs` and the code that feeds them | state machine, properties |
| `HsmsPair` | two `SessionCore`s connected to each other | composition, properties |
| `HsmsWire` | `wire/*.rs`, `codec.rs`, `protocol/*.rs` | pure operators on bytes |
| `InboundStream` | `generation/transport/io.rs`, `bounded_reader.rs` on top of `HsmsWire` | state machine, properties |
| `Secs2Codec` | `secs2/codec/*.rs`, `secs2/limits.rs`, `profile/secs2.rs` | state machine (one step per loop iteration), reference definitions, properties |
| `SmlText`, `SmlReference` | `sml/parser.rs`, `sml/formatter.rs`; what SML text means, without a parser | state machine; reference definitions, properties |
| `MCGenerationRuntime`, `MCEndpoint`, `MCDelivery`, `MCHsmsPair`, `MCInboundStream`, `MCSecs2Codec`, `MCSmlText` | instances for TLC | |

### From the code to SessionCore

The Rust struct is the record `core`; `NewCore` names the field each component stands
for.  A handler is sequential code that mutates the struct and pushes actions, so it is a
function `OnMessage(core, ...)`; the pushed actions are the field `out`, in the order
pushed.  Every procedure has the name of its Rust function in TLA+ case
(`receive_deselect_request` is `ReceiveDeselectRequest`).  Each action of `SessionCore`
is one whole handler call.

Abstractions:

* A deadline is armed or not.  A handler that compares deadlines with `now` takes the set
  of armed deadlines that have passed, chosen freely, so every order of expiry is
  covered, also the ones real durations exclude.  `accept_time` (a clock that goes back)
  and the overflow of `MonoTime` are left out: both lead to `fail_runtime_invariant`.
* One loop that completes several commands with the same result is one `CompleteCommand`
  action with a set of commands.
* Message bodies are present or absent; streams and sessions are small sets.  Function
  codes are real numbers of one byte, because F255 and parity matter.
* `ProtocolNotice` values, which the Driver fetches with `take_notice`, are `Notice`
  entries of the batch.
* The identifier spaces are constants, so that exhaustion is reached.

`status`, `carrier` and `wire` are history variables no handler reads: what became of
each command, which write carried it, and what became of each write.

The environment of `SessionCore` is the Driver's and Writer's contract: a fresh
CommandId for each command, outcomes in admission order with nothing written after a
failed write, a frame refused only in the round that emitted it, `finalize_writer` only
while closing.  Everything else (messages, deadlines, shutdowns, refusals) may happen at
any moment.

### From the code to SessionDriver and GenerationRuntime

`SessionDriver` continues in the same style: the struct is the record `driver`, which
contains `core` and the ports called in the same round (the Writer's ingress and queues,
the answers and reply tokens of the application).  `ApplyActionBatch` folds Core's batch
and stops at the first action that fails; the failure shuts Core down in the same round
(`ShutdownAfterDriverFailure`), exactly as the code does.  `SessionCore`'s environment is
thereby replaced by the code that really calls Core.

`GenerationRuntime` has one action per round of `step`, per admission call, per visible
step of the Writer task (part of a frame written, a whole frame, a fault, a report, exit,
death) and per event of cleanup.  `phase` is what the owner is doing: running, cleanup,
recovering, or the exit `Clean` / `Poisoned`.  `tasks` is what `IoTasks` knows: which
joins are outstanding, the poison, and whether it has aborted the tasks.  Priorities come
from the code: a terminal fact (a failed write, a joined task) precedes ordinary input, a
finished drain precedes commands and messages.  The Timer round may also run with a
terminal fact waiting, because `process_ready_priority` takes at most one before it.

Abstractions: a refused call of the application returns its arguments and is no step;
budgets are counted in frames (header 1, text 1); the delivery channel of Primaries is the
Driver's own bounded queue, and that of protocol errors only the room left in it
(`Delivery` has the channels themselves); the Reader is the messages and violations it
delivers and its end (`InboundStream` has its loop); the Data byte budget of the Writer, a
panic of the Reader and the overflow of `Instant` are left out.  A Writer that fails between the reservation and the admission of a Data
frame is modelled (`Admissions`).

### From the code to Endpoint

A generation is here what `GenerationSteps` allows it to do, and `GenerationRuntime` is
shown to do nothing else: its runs check `ImplementsContract`, the refinement of
`GenerationContract`, with the Driver's record mapped to the accepted, answered and closing
facts the endpoint sees.  The endpoint model is thereby checked against every generation
without carrying Core and Driver along.

Handles run on other threads.  A request reads the snapshot in one step (`Capture`) and
takes its permit and a channel slot in a later one (`Send`), and the loop runs in between:
that is where stale generations come from.  The loop is `publish`, `flush`, `select`: state
first, completions afterwards, then one input.  `deliver` marks a publication that follows a
round, whose deliveries may fail and close the generation.  A command that arrives drops
the connect future; `DropConnect` is the guard object that commits T5 on every end of an
attempt.  `quiet` and `executed` are histories.

Left out: the sequence number and the session field of the snapshot, the byte budgets of
requests (a refusal like the one for count), `Instant` overflow, the configuration error
of `from_stream`, and `reject_extra`, which needs a listener beside a connection and is
unreachable by `SourceFollowsSlot`.

### From the code to Delivery

`Delivery` opens up what `Endpoint` leaves nondeterministic in a publication.  A round
samples the free slots of both queues and may leave one Primary or one error in the Driver
(a Read round carries one frame); `publish` then charges the bytes, sends, and closes the
generation if either is refused.  Receivers act between any two of these steps: they take
an item and return its charge in a second step, because the envelope is dropped after the
slot is free, or they disappear with all that is queued.  Histories: `inputs`, `received`,
`attempts`.

### From the code to HsmsPair

Each side is the Core of `SessionCoreOps`.  Of Driver and Writer only the order is kept:
a batch is appended to the side's lane, frames are written in order, and the report of a
write reaches Core in a step of its own, possibly after the peer's answer.  A side that
closes writes up to its barrier, then ends; its peer notices at any later moment, with or
without having read the rest.  Refused admissions and exhausted identifiers are the subject
of the other runs.  A connection starts not selected, selected by one side or selected by
both at once; the last two are states the first reaches with commands spent, so that three
commands are left for what follows a Select.

### From the code to HsmsWire and InboundStream

`HsmsWire` is the framer, the header checks in the order of `validator.rs`, and the
mapping between headers, texts and messages in both directions, on real bytes; whether a
text is a SECS-II item is a parameter (`TextClass`).  `InboundStream` gives the reader a
stream of frames, each with what its sender meant, and lets the peer deliver it in pieces
of any size, pause, close or fail at any byte.  A tick only passes while the reader has
nothing to do but wait, so T8 counts silence, not slow scheduling; a byte that arrives once
T8 is due is too late.  Lengths use the lower half of the prefix, so `LimitAssumption`
keeps the configured maximum below 65536.  A stream is a record: the bytes, where each piece
of them ends and what its sender meant by it; `StreamOf` builds those of the run from the
encoder, and `Decodes` says that each piece alone decodes to its meaning.

### From the code to Secs2Codec, SmlText and SmlReference

Both codecs are loops with an explicit stack, so one iteration is one step, which lets the
limits be checked while the input is read.  The references (what a text denotes, which
token sequences spell an item) are recursive definitions that share nothing with the loops.
Texts to decode are real bytes with format codes as in the code; a Length Byte counts in
base `LengthRadix` (3 in the run), so that one, two and three Length Bytes and an item too
long for three occur.
SML is modelled on tokens: a word is the sequence of its runs of letters and digits, bytes
have `Radix` values, floats count halves.  The parser reads lazily: an arbitrary text grows
one token at a time when the parser asks for it, so all texts over an alphabet up to its
length (`Alphabets`) are covered without enumerating them.  Layout, positions and the scanner's characters are left out.

## 3. Runs

The two Core runs use two interchangeable commands (symmetry is sound: nothing orders CommandIds
except the T3 loop, which is modelled in System Bytes order) and three WriteIds, which
allow a response, a request and a reply or a Separate in one behaviour and still run out.
Deadlock is checked there: Core always accepts input.  A generation ends, in `Clean`, so
its two runs do not check deadlock.

* `core_control` (`SessionCoreControl.cfg`): all control procedures and Send, both
  statuses of every response, matching and foreign System Bytes and sessions, Rejects of
  standard and extension reasons, header violations, the idle Linktest; two System Bytes,
  so that `SystemBytesExhausted` happens.
* `core_data` (`SessionCoreData.cfg`): Send, Request, Deselect and all reply intents
  against Secondaries, F0 aborts with and without text, Primaries (F255 too), foreign
  sessions and Rejects; System Bytes of the two directions overlap; capacities of one
  make every limit reachable.

* `generation_replies` (`GenerationReplies.cfg`): two operations out of Deselect, Send
  and replies, on a passive generation; every capacity at one or two and every identifier space at one to
  three, so that every queue overflows and every space runs out; violations with and
  without room for their report; forced closes and recovery.
* `generation_shutdown` (`GenerationShutdown.cfg`, with fairness): auto-Select and one
  operation out of Separate and Request; graceful shutdown with both deadlines, the
  response timers, a Reader that may end, a Writer that may die, cleanup and recovery.  No
  symmetry, as liveness requires.  Most states are those of cleanup, which is why the
  operations are few.

* `pair_session` (`HsmsPair.cfg`): three commands of two sides, all data and control
  procedures that can cross, all timers; identifier spaces large enough not to run out.
  The sides are interchangeable.  The pair may stop, so deadlock is not checked;
  `NobodyIsStuck` says what a state where nothing happens has to look like.
* `endpoint_active` (`EndpointActive.cfg`): three requests (Start, Stop, Disconnect, Data,
  Reply), T5 of two ticks, two connection identities so that they run out, recoverable and
  faulting closes; the runtime may be dropped at any wait.
* `endpoint_passive` (`EndpointPassive.cfg`, with fairness): three requests (Start, Stop,
  Disconnect, Control), two connections; listener, rebinding and its failure.  No symmetry.
* `endpoint_t5` (`EndpointT5.cfg`): expected to fail, see the finding below.
* `delivery` (`Delivery.cfg`): two connections, two lengths of Primary against three bytes
  and two slots, one error slot; one diagnostic slot, three sequence numbers and a counter
  that saturates at two.
* `inbound_stream` (`InboundStream.cfg`, with fairness): every kind of message, refused
  header, refused text and fatal length, in streams of up to three frames; a budget that
  holds one maximal frame.
* `secs2_codec` (`Secs2Codec.cfg`): every text of up to five bytes over eight values, Lists
  of up to eight bytes, and items of every kind; each limit small enough to bind.
* `sml_text` (`SmlText.cfg`): every text of up to thirteen tokens of Lists and ten of leaves
  and messages, and documents formatted and read back.

The codec runs check deadlock: a step that is missing would stop them before the call
returns.

A property that has several parts is the conjunction of named definitions of the same
module; the parts are listed with it.

What the Core runs check, by hazard:

* `CommandsAreAwaited`: no command is forgotten.  `EveryOpenCommandIsAwaited`: an open
  command always has a write, transaction, drain or request that will end it.  The one
  exception in the code is stated in the property: a Deselect still draining when the peer
  separates stays open until `finalize_writer` (`receive_separate` clears the drain without
  completing its command, whereas `start_separate` aborts it).  `DrainWaitsForWork`: a drain
  lasts only while there is Data to wait for.  `TombstonesAreRetired`: a completed contract
  is not live at the same time.
* `CompletionsAreFinal`: `CompletedOnce` (a command is completed at most once, by one action,
  while open) and `ClosedCoreIsQuiet` (a closed Core only completes).
* `ResultsAreTruthful`: results agree with what happened on the wire.
* `NoRuntimeInvariant`: Core never trips over its own bookkeeping; only exhausted
  internal identifiers lead to `RuntimeInvariant`.
* `WaitsAreTimed`: `NoUntimedTransaction` and `SelectionTenureIsTimed`, no wait without a
  timer.
* `DataFollowsSession`: `DataLivesInSelected` and `DeselectIsDrained`, no Data outside the
  session or behind a Deselect.req.
* `OutcomesAreOwed`: `WritesAnswerOpenCommands` and `DeferredErrorsAwaitWrites`, the
  relations between the maps of the struct that the handlers rely on.
* `StateFollowsResponse`: the state changes with the response, not before it.
* `TypeOK`: shape, and identifiers inside their spaces.

What the generation runs check:

* `OperationsHaveOneOwner`: `AcceptedHasOneOwner` (an accepted operation is in the queue, in
  the completion table or answered, and exactly one of these, on every path: cut batches,
  refused frames, late reports, dead tasks, both kinds of cleanup), `TableMatchesCore` (the
  completion table and Core's open commands are the same set between rounds, also while
  closing keeps some and answers others), `BytesMatchQueue` (the byte budget never leaks)
  and `TypeOK`.
* `WritesAreAccountedFor`: the Writer's frames and reports are exactly the writes Driver
  and Core await, and nothing is settled that a task could still write.
* `BarrierIsLastWrite`: nothing is written behind the tail of a close.
* `CloseKeepsItsCause`: `FirstReasonWins` and `DrainKeepsItsCause`.
* `ReplyAuthorityIsExclusive`: a live reply contract has exactly one token, which survives
  every refusal.
* `DriverKeepsItsContracts`: `RuntimeInvariant` only for exhausted identifiers and dead
  tasks; Data permits, completions and reports always match.
* `ExitSettlesOperations`: what `Clean` and `Poisoned` mean for the operations.
* `ImplementsContract`: a generation refines `GenerationContract`.
* `EverythingIsAnswered`: `OperationsAreAnswered` and `ShutdownEnds`, liveness.

What the pair run checks: `PeersAgree` (nothing on its way means the same session state on
both sides, and neither side ever has to reject, refuse or blame the other: the drain, the
order of response and state, and the blocked replies together make the crossings harmless),
`RequestsMeanReplies` (end to end, with System Bytes of the two directions coinciding) and
`NobodyIsStuck` (no mutual waiting: a state in which neither side has anything to do has no
open command, even if no application replies and T6 and T7 never pass).

What the endpoint runs check:

* `ImplementsView`: the snapshots refine the public lifecycle.
* `RequestsAreOwned`: `RequestHasOneOwner`, `PermitMeansRoom` and `TypeOK`, where a request
  is and that its permit is a channel slot.
* `EverybodyIsAnswered`: `RequestsAreAnswered` and `DropEndsRuntime`, liveness.
* `NeverReplayed`, `ResultsFollowPublication`: stale captures and early completions.
* `SourceFollowsSlot`: `FaultBlocksReplacement`, `NoListenerWhileOccupied` and
  `RunningCanConnect`, the slot, its source and the fault latch agree.
* `AttemptsAreSeparated`: T5 between the attempts of one source.

The finding: `EveryAttemptIsSeparated` states T5 as USAGE.md does, for every attempt.  It
fails: a Stop drops the source together with its deadline, and the source the next Start
prepares may connect at once (`supervisor/connection.rs:73`).

What the others check:

* `delivery`: `DeliveryIsWhole` (`NoSilentLoss`: no gap in what the application receives;
  `BytesAreReturned`: no byte permit leaks; `TypeOK`), `ErrorsAreIndependent` and
  `LossIsCounted`.
* `inbound_stream`: `StreamIsFaithful` (the reports are the frames and their meaning, and T8
  means silence), `OwnershipIsBounded`, `BegunFramesEnd`.
* `secs2_codec`: `DecodeIsExact` (accepted exactly when the text encodes one item within the
  limits, and then as that item), `DecoderIsBounded`, `EncodeIsCanonical`.
* `sml_text`: `ParseIsExact` (`ParserIsBounded`, `ParsedIsSpelled`, `NoSentenceRefused`) and
  `RoundTrip`.

Two branches look defensive: a reply found blocked by a Deselect at the head of the queue
(a live capability keeps the Deselect draining, so it never starts blocking replies) and
completions orphaned by a cut batch (Core emits completions before the frames that can be
refused).  No behaviour of the runs takes them.

Fairness of a generation (`GenerationRuntime!Fairness`): weak fairness of the owner's rounds and cleanup steps, because the
endpoint task polls `step` and `finish` until they end and `step` alternates between
sources; of the Writer's steps, because every write is bounded by its deadlines and the
task polls cancellation; and of each timer while it stays armed, because time passes.  The
enabling conditions are written out instead of `WF_vars`, which lets TLC check a graph of
this size; each is the guard of its action.  Nothing is assumed of the peer, of the
application, of the end of the Reader or of the cleanup deadline.

`Endpoint!Fairness`: a caller that has captured its route sends; the loop publishes,
flushes and finishes; a waiting command gets its turn however busy the connection is,
because `scheduling::alternate` swaps its preference (strong fairness: a round may disable
it for a moment); and of a generation exactly what the generation runs establish, a drain
ends and an accepted operation is answered.  `InboundStream!Fairness`: the task, its timer and the
owner; nothing of the peer.

Each property has one or more mutants of the code in the module it breaks in
(`..._Late`, `..._NoT7`, ...), which TLC rejects.

## 4. Proofs

The proofs hold for every value of the constants that the named `ASSUME`s allow; TLC
evaluates these on every run.  `NoneAssumption` says in each module that `None` is none of
the values an `Option` holds, which is what `Option` means.

### SessionCore

`SessionCoreLemmas` proves that `IInv(core)` is inductive for every set of commands, every
size of the identifier spaces, every capacity and every set of typed peer messages.
`SessionCoreProofs` concludes from it `CoreTypeCorrect` (`TypeOK`), `EveryWaitIsTimed`
(`WaitsAreTimed`), `EveryOutcomeIsOwed` (`OutcomesAreOwed`) and `DataIsInSession`
(`DataFollowsSession`).  The assumptions are the named `ASSUME`s of `SessionCoreOps` and
`SessionCore`: spaces and capacities are naturals, `None` is not an identifier, commands,
intents and messages are of the declared kinds.

`IInv` is needed because none of the properties is inductive.  `NoUntimedTransaction`,
for instance, depends on which write a transaction was given, and the Deselect property on
the drain having the control slot for itself.  `IInv` has five parts: `Weak` (shape, the
relation between retained writes and open commands, deferred errors), `Owners` (who will
complete an open command), `Closed`, `Timed` and `Selection`.  `Weak` holds even half way
through a handler, and closing re-establishes the rest (`CloseAllIInv`), which is why each
procedure may bail out with `fail_runtime_invariant` at any point.  There is one lemma per
procedure and `NextIInv` puts the handlers together.

What the batches and the histories say are `CommandsCompleteOnce` (`CompletionsAreFinal`),
`StateIsAnnounced` (`StateFollowsResponse`), `CoreNeverFails` (`NoRuntimeInvariant`) and
`ResultsFollowTheWire` (`ResultsAreTruthful`).  A handler is one
run from a snapshot `p` of the struct to the struct it leaves.  `Run(p, s, c)` says what a
handler that got as far as `c` has pushed: one justified completion for each command it
closed (`Answered`), a frame for each new write (`Written`), a `RuntimeInvariant` only for an
exhausted space (`Excused`), the state after its response (`Announced`), nothing but
completions once closing (`Quieted`).  A result is justified if the outcome at hand dictates
it (`told`) or if it is `Fair`: it speaks of no write whose outcome is still out (`bound`).
Each procedure has a lemma in `SessionCoreLemmas` that it continues a run, under the
conditions its callers give it.  `Traced` ties transactions to the commands of their writes,
and `Remembered` says what the histories know between two handlers; every action is then
`Handled`, and the four theorems follow from that alone.

`NobodyIsForgotten` (`CommandsAreAwaited`) is the converse of `Owners`: not only does what
waits know its command, every open command has something that waits.  Its invariant is
`Awaits(core, {})`, the parts of which are `Cared` (an open command is on an unresolved
write, whose entry still stands for it, or is kept by the transaction, the drain or a
request), `Pausing` (a drain has work to wait for), `Retirement` (tombstones are distinct,
were handed out and are not live) and `Promised` (capabilities are those of Primaries that
expect a reply).  The second argument is the commands a handler has in hand: a handler that
takes a transaction apart holds its command, until it completes it or gives it to the next
write, and `Awaits(c, X)` says that nobody but those in `X` is without care.  That drained
contracts go to the tombstones in System Bytes order, each once, is an induction over the
steps of the loop (`BoundedInduction`).

### GenerationRuntime

`GenerationProofs` proves `GenerationInvariant`, `Spec => []GenerationInv`, for every set of
operations, every capacity and every size of the identifier spaces, and from it

* `AllWritesAccounted` (`WritesAreAccountedFor`) and `BarrierIsLast` (`BarrierIsLastWrite`);
* `OneOwner` (`OperationsHaveOneOwner`) and `ExitsSettle` (`ExitSettlesOperations`);
* `ContractsAreKept` (`DriverKeepsItsContracts`), if no reason that is handed to the
  generation from outside is itself `RuntimeInvariant`: a Reader that panics and a deadline
  that overflows do that (`generation/runtime.rs:339`), and the model leaves them out;
* `FirstReasonIsKept` (`FirstReasonWins`, one half of the next) and `CloseReasonIsKept`
  (`CloseKeepsItsCause`): the first reason stays, and the end of a drain closes with the
  cause of the drain even if the Writer refuses the tail Separate, unless the identifiers
  are exhausted;
* `ReplyAuthorityIsKept` (`ReplyAuthorityIsExclusive`), by an invariant of its own, below;
* `GenerationImplementsContract` (`ImplementsContract`), the refinement of
  `GenerationContract`, if the Reader's end and the endpoint's force give reasons the
  contract allows of a generation's own.

`GenerationInv` is `Sound` (Core, the completion table, the close state, the Writer's queue
and reports, and who owns each operation agree: `Coherent`; the command queue and its
budget: `Books`), `Shapes` and `Joined` (what the joins and phases prove about Driver) and
`Blamed` (where a close reason can come from).  It contains `IInv` and `Traced` of Core, so
the proofs about Core carry over although nothing of `SessionCore`'s environment is used:
that the Driver is such an environment is what has to be shown.  A handler's batch is
described by the run lemmas of Core; `GenerationLemmas` follows the fold of
`ApplyActionBatch` through it as a trace of Driver states and shows by induction over the
batch (`BoundedInduction`) that what was applied and what is still to be applied (`Ready`,
`Applied`) always add up, so that a batch cut at any action closes soundly.  Each action of
`GenerationRuntime` then has one lemma, whose conclusion is `Moves`.

`ReplyAuthorityIsExclusive` needs `Entrusted(driver, {})` beside `GenerationInv`: the token
of a capability is offered, carried or queued, in one place only (`Sole`); a token stands
for a capability that has been granted; and each live contract of an open generation has
one.  The second argument of `Entrusted` is the capabilities in the hands of a round: the
head of the queue leaves it before Core is asked, and either its token goes back to the
application (`TrustReturns`) or Core has spent the capability (`ReplySpends`).  That a batch
grants a capability by offering exactly one Primary with the next number, and keeps or
drops the others, is what `Run` says of `nextReply` and `replies`; that Core may refuse a
reply and keep its contract is the case of a Deselect that has overtaken it, which
`drive_next_command` therefore looks for before it asks Core (`ReplyOvertaken`).

The proof found an error in the model: `CommandRound` took the Writer's state at admission
from before the deadlines that fall due in the same round, and lost the frames these had
queued, which contradicts `generation/driver/mod.rs`, where due deadlines are processed
first.  It was not seen by TLC because no run had an idle deadline beside a command.
`MetAtAdmission` now follows the code and `generation_replies` has the idle Linktest.
`ExitSettlesOperations` was strengthened on the way: an operation unanswered in `Poisoned`
belongs to a write without an outcome and to a Writer that was never joined.

### Endpoint

`EndpointProofs` proves every safety property, every action property and the refinement
that the endpoint runs check, for both modes, any number of requests, connections, permits
and ticks.  There are five invariants, each proved with one lemma per action:

* `SlotInv`: the types, the supervisor (slot, source and fault latch agree, an Active source
  that tried has T5 to wait for or has waited), and what the loop owes in each `pc`.  It
  gives `EndpointTypes`, `SourceAlwaysFollowsSlot` and `AttemptsAlwaysSeparated`.
* `OwnInv`: a request in flight is in the channel, in the generation, among the pending
  closes or among the results that wait, in one of these only, and has one result at most.
  With `Permits`, which counts each class of permits by cardinality, it gives
  `RequestsAlwaysOwned`; that the channel always has room follows from the three classes
  being disjoint and each within its budget, plus the slot for one close.
* `ReplayInv`: what was executed was executed by the generation it was captured for, and
  what waits in the channel or was refused was never executed.  It gives
  `RequestsNeverReplayed`.
* `PubInv`: the snapshot is current when results are handed out, and a result that waits
  stays true of the supervisor until then.  It gives `ResultsAlwaysFollow`.
* `LinkInv`: whatever happens between two publications, the next snapshot is one step or a
  stutter of `EndpointView` away from the last.  `Moves` is `EndpointView!Next` as a relation
  between two pictures, and each action is shown to keep the pair linked;
  `EndpointImplementsView` is the refinement.

Generations enter by what `GenerationSteps` lets them do: `Sound` and `Continues` are the
only facts about them that the proofs use, proved once per operator.

### Delivery

`DeliveryProofs` proves the three properties of the run `delivery`.  `Base` is the types,
what each phase of the loop may hold (`Phased`) and `Paid`: the free permits, the charge of
the queue, of the Primary being sent and of the one the application holds add up to the
budget.  The charge of a queue is the cardinality of its set of permits, so no induction
over the queue is needed.  `Kept` says of each stream with a receiver that everything its
connections carried is there in order except what the runtime still has in hand, or what a
close cuts off (`Good`); `DeliveryAlwaysWhole` follows.  `Counted` relates the diagnostic
sequence, the counter and the gaps, for `LossAlwaysCounted`.  `ErrorsAlwaysIndependent` is an
action property and needs of `Phased` that an error accepted by a round still finds room.

### InboundStream

`OwnershipAlwaysBounded`: the invariant `OwnInv` counts reservations, not bytes.  Each report
in flight stands for one maximal frame, and a reader that reads for one more; the buffer
is at most one frame (`OneFrame`) because `Wanted` never asks for more than the declared
rest.

`StreamAlwaysFaithful`: if each piece of every stream decodes alone to what its sender meant
(`Decodes`), the reports are those meanings, however the bytes are cut.  The hypothesis is
what encoder, framer and validator do with one frame; the run checks it for every kind of
message, as the first conjunct of `StreamIsFaithful`.  The invariant: what was reported are
the first pieces and the buffer is exactly what was read of the next (`Found`), so that
framing the buffer equals framing the piece once it is complete (`Stretch`); what the end of
the task says (`Ended`); and T8 counts no more than the silence (`Timed`).

### HsmsPair

`AnswersComeFromThePeer` (`RequestsMeanReplies`) is proved for every number of commands,
every size of the identifier spaces, every capacity and both idle settings.  Two facts are
needed that neither side can see: that a System Bytes value in a Data message with an even
function, anywhere between the lane of one side and the reader of the other, was answered by
the application of the first (`Voiced`), and that the histories name the live requests by
their System Bytes (`Recalled`).  `Run` says the rest: a batch gives a request a Secondary or
an abort only if the handler `heard` of it, and hears only what the message at hand
addresses.  `PairInvariant` has these, `IInv` and `Traced` for each side; a handler of one
side is `Handled`, whatever it was, and `HandlerKeeps` puts it beside the other side.

`NobodyWaitsForever` (`NobodyIsStuck`) is proved in the same generality, where T3 and the
drain deadline may pass (`{"t3", "drain"} \subseteq Timers`, as in the run); T6 and T7 may or
may not, and no application has to reply.  It needs `PairWakes` beside `PairInvariant`, which
says for each side that what it waits for will come:

* `Awaits`, from the proof of `SessionCore`: every open command has a procedure or a write
  that waits for it, and a drain has Data work left;
* `Queued`: every retained write has its frame in the lane or its report on the way, until
  the Writer ends, which leaves no command open (`FinalizeWriterSettles`);
* `Awaited`: while both sides are open, the request of a control transaction is still on
  its way to the peer, or a response to it is on its way back.

The last is where the two Cores meet.  A Core that does not close answers every Select,
Deselect and Linktest request in the batch that takes it, whatever its state
(`RequestIsAnswered`), and ends its own transaction in the batch that takes a response to it
(`ResponseEnds`); a batch that starts a transaction pushes its request (`Spoken`).  `Minds`
states this of one handler, and `HandlerWakes` puts it beside the other side.  A state
without work then has no write retained, both sides open and both directions empty, so no
transaction is active, no drain and no request is left, and no command is open (`IdleSides`).

### Only model-checked

* `PeersAgree` of `HsmsPair`: what two Cores will believe after everything under way between
  them, in both directions, has been read.  It also holds only while no side runs out of
  WriteIds or System Bytes, since a side that does closes with a runtime invariant; the run
  has enough of both for its commands, and a theorem would have to count them.
* Liveness (`EverythingIsAnswered`, `EverybodyIsAnswered`, `BegunFramesEnd`): fairness and
  ENABLED are out of the prover's reach.
* `DecodeIsExact`, `EncodeIsCanonical`, `ParseIsExact`, `RoundTrip` and `DecoderIsBounded`
  are stated in modules with recursive operators, which the prover's SMT backend does not
  accept.  The first four also compare a loop with a recursive definition over all inputs;
  the prover cannot instantiate the library's induction theorems.  (Induction over a set of
  numbers, for batches, charges and tombstones, is done with `SetInduction` and
  `BoundedInduction`, which speak of a set instead of an operator; they follow from the
  library's facts about finite cardinalities.)

## 5. Not modelled

* The SML scanner: characters to tokens, without other state.  Its tokens and its errors
  are the inputs of the parser model.
* Configuration: checks of single fields.  What they establish are the named assumptions.
* The Data byte budget of the Writer and the byte budgets of endpoint requests: they refuse
  exactly as the counts do.
* Conversions between the bytes of a number and host numbers, and the shortest decimal form
  of a float: the standard library's.
* The socket itself and the scheduler of Tokio, of which only the contract is used.
* The Secondary of a Primary with function 255 (`core/session/inbound.rs:185`):
  `try_accept_reply` refuses it before Core sees it, so Core's own branch is unreachable.
  The Primary itself is an input of `core_data`.

## 6. Plan

1. The agreement of the two sides of `HsmsPair` (`PeersAgree`).
2. `DecoderIsBounded`, with the recursive reference definitions in a module of their own.
3. The byte budget of the Writer's Data lane.
