------------------------------- MODULE Delivery -------------------------------
(***************************************************************************)
(* What the endpoint hands to the application: Primaries and protocol      *)
(* errors through two reliable bounded queues (src/hsms/endpoint/          *)
(* receiver.rs), diagnostics through a lossy one (endpoint/diagnostics.rs), *)
(* and the part of HsmsRuntime that feeds them (run and publish of         *)
(* endpoint/runtime.rs, apply_round of generation/runtime.rs).             *)
(*                                                                         *)
(* The application's receivers live on other threads: they take an item,   *)
(* return its bytes or disappear between any two steps of the runtime.     *)
(* The queues belong to the endpoint and outlive the generations.          *)
(***************************************************************************)
EXTENDS Integers, Sequences, FiniteSets

CONSTANTS
  None,
  PrimaryCapacity,     \* application_event_capacity
  PrimaryBytes,        \* primary_queue_bytes
  Lengths,             \* encoded lengths of the Primaries the peer sends
  ErrorCapacity,       \* protocol_error_capacity
  DiagnosticCapacity,  \* diagnostic_capacity
  SequenceSpace,       \* number of diagnostic sequence numbers (2^64 in the code)
  DroppedLimit,        \* where the drop counter saturates (2^64 - 1 in the code)
  MaxGenerations,      \* bounds of the environment: connections, inputs of
  MaxInputs,           \* one connection,
  MaxAttempts          \* and diagnostics of the whole behaviour

\* A validated policy holds a maximal frame, so every Primary fits when alone.
ASSUME DeliveryAssumption ==
  /\ {PrimaryCapacity, PrimaryBytes, ErrorCapacity, DiagnosticCapacity, SequenceSpace,
      DroppedLimit, MaxGenerations, MaxInputs, MaxAttempts} \subseteq Nat \ {0}
  /\ Lengths \subseteq 1 .. PrimaryBytes

Items == [gen : 1 .. MaxGenerations, n : 1 .. MaxInputs]
Primaries == [gen : 1 .. MaxGenerations, n : 1 .. MaxInputs, length : Lengths]

\* Option::None is no number and no message.
ASSUME NoneAssumption == None \notin Nat \cup Items \cup Primaries

VARIABLES
  generation,     \* [id, closed]
  pc,             \* round, primaries, send, errors, finish or ended
  inbound,        \* the Driver's Primary awaiting publication, or None
  report,         \* the Driver's protocol error awaiting publication, or None
  failed,         \* publish met a queue that refused
  held,           \* the Primary Delivery::primary has charged and not yet sent
  bytes,          \* free permits of the byte semaphore
  primaries, errors, records,   \* the three channels
  receivers,      \* the receivers that still exist
  taken,          \* the Primary received whose charge is not yet returned
  sequence, dropped,            \* the publisher's counters
  inputs,         \* history: per connection, the Primaries and errors it carried
  received,       \* history: what the application got, by stream
  attempts        \* history: diagnostics published

vars == <<generation, pc, inbound, report, failed, held, bytes, primaries, errors, records,
          receivers, taken, sequence, dropped, inputs, received, attempts>>

reliable == <<inbound, report, failed, held, bytes, primaries, errors, taken, inputs>>
diagnostic == <<records, sequence, dropped, attempts>>

Streams == {"primaries", "errors", "diagnostics"}

\* Delivery::new, DiagnosticPublisher::new and the first connection.
Init ==
  /\ generation = [id |-> 1, closed |-> FALSE]
  /\ pc = "round"
  /\ inbound = None /\ report = None /\ failed = FALSE /\ held = None
  /\ bytes = PrimaryBytes
  /\ primaries = <<>> /\ errors = <<>> /\ records = <<>>
  /\ receivers = Streams
  /\ taken = None
  /\ sequence = 0 /\ dropped = 0
  /\ inputs = [g \in 1 .. MaxGenerations |-> [primaries |-> 0, errors |-> 0]]
  /\ received = [s \in Streams |-> <<>>]
  /\ attempts = 0

-----------------------------------------------------------------------------
(* Rounds of the generation.                                               *)

\* Mutant: one count for both reliable queues.
Room_Shared(stream, queue, capacity) ==
  IF stream \in receivers
  THEN IF stream = "errors" /\ Len(primaries) = PrimaryCapacity THEN 0 ELSE capacity - Len(queue)
  ELSE 0

\* Delivery::capacity, sampled once by apply_round.
Room(stream, queue, capacity) ==
  IF stream \in receivers THEN capacity - Len(queue) ELSE 0

NextInput(stream) == inputs[generation.id][stream] + 1

Round ==
  /\ pc = "round"
  /\ pc' = "primaries"
  /\ UNCHANGED <<failed, held, bytes, primaries, errors, taken, receivers, received, diagnostic>>

Bounded ==
  inputs[generation.id].primaries + inputs[generation.id].errors < MaxInputs

\* A Read round that carries a Primary; without room, InboundFull closes the
\* generation with ApplicationBackpressure.
ReadPrimary(length) ==
  /\ Round /\ Bounded
  /\ inputs' = [inputs EXCEPT ![generation.id].primaries = @ + 1]
  /\ LET full == Room("primaries", primaries, PrimaryCapacity) = 0
     IN  /\ inbound' = IF full THEN None
                       ELSE [gen |-> generation.id, n |-> NextInput("primaries"),
                             length |-> length]
         /\ generation' = [generation EXCEPT !.closed = full]
  /\ UNCHANGED report

\* A Read round that carries a violation, which may also make Core close.
ReadViolation ==
  /\ Round /\ Bounded
  /\ inputs' = [inputs EXCEPT ![generation.id].errors = @ + 1]
  /\ LET full == Room("errors", errors, ErrorCapacity) = 0
     IN  /\ report' = IF full THEN None
                      ELSE [gen |-> generation.id, n |-> NextInput("errors")]
         /\ \E fatal \in BOOLEAN :
              generation' = [generation EXCEPT !.closed = full \/ fatal]
  /\ UNCHANGED inbound

\* Any other round that closes the generation.
OtherClose ==
  /\ Round
  /\ generation' = [generation EXCEPT !.closed = TRUE]
  /\ UNCHANGED <<inbound, report, inputs>>

-----------------------------------------------------------------------------
(* HsmsRuntime::publish.                                                   *)

PublishLeaves == UNCHANGED <<receivers, taken, inputs, received, diagnostic>>

\* take_inbound, and the charge of Delivery::primary.
ChargePrimary ==
  /\ pc = "primaries"
  /\ inbound' = None
  /\ \/ /\ inbound = None
        /\ pc' = "errors"
        /\ UNCHANGED <<failed, held, bytes>>
     \/ /\ inbound # None /\ bytes < inbound.length
        /\ failed' = TRUE /\ pc' = "errors"
        /\ UNCHANGED <<held, bytes>>
     \/ /\ inbound # None /\ bytes >= inbound.length
        /\ held' = inbound
        /\ bytes' = bytes - inbound.length
        /\ pc' = "send"
        /\ UNCHANGED failed
  /\ UNCHANGED <<generation, report, primaries, errors>>
  /\ PublishLeaves

\* Mutant: the charge of an item the channel refuses is forgotten.
RefusedCharge_Leaked == 0

\* try_send hands a refused envelope back, and with it its permit.
RefusedCharge == held.length

\* The try_send of Delivery::primary.
SendPrimary ==
  /\ pc = "send"
  /\ \/ /\ Room("primaries", primaries, PrimaryCapacity) > 0
        /\ primaries' = Append(primaries, held)
        /\ pc' = "primaries"
        /\ UNCHANGED <<bytes, failed>>
     \/ /\ Room("primaries", primaries, PrimaryCapacity) = 0
        /\ bytes' = bytes + RefusedCharge
        /\ failed' = TRUE /\ pc' = "errors"
        /\ UNCHANGED primaries
  /\ held' = None
  /\ UNCHANGED <<generation, inbound, report, errors>>
  /\ PublishLeaves

\* Mutant: a delivery that fails is not held against the generation.
Settled_Ignored(failure) == generation.closed

\* force_close after a failed delivery.
Settled(failure) == generation.closed \/ failure

\* take_protocol_error with Delivery::error, and the end of publish.
DeliverError ==
  /\ pc = "errors"
  /\ LET sent    == report # None /\ Room("errors", errors, ErrorCapacity) > 0
         failure == failed \/ (report # None /\ ~sent)
     IN  /\ errors' = IF sent THEN Append(errors, report) ELSE errors
         /\ generation' = [generation EXCEPT !.closed = Settled(failure)]
  /\ report' = None /\ failed' = FALSE
  /\ pc' = IF generation'.closed THEN "finish" ELSE "round"
  /\ UNCHANGED <<inbound, held, bytes, primaries>>
  /\ PublishLeaves

-----------------------------------------------------------------------------
(* Diagnostics.                                                            *)

\* Mutant: a refused record keeps its sequence number for the next one.
NextSequence_Reused(sent) == IF ~sent THEN sequence ELSE sequence + 1

\* checked_add on the number of the attempt, sent or not.
NextSequence(sent) == IF sequence + 1 = SequenceSpace THEN None ELSE sequence + 1

\* saturating_add.
OneMoreDropped == IF dropped = DroppedLimit THEN dropped ELSE dropped + 1

\* DiagnosticPublisher::publish.
PublishDiagnostic ==
  LET sent == sequence # None /\ Room("diagnostics", records, DiagnosticCapacity) > 0
  IN  /\ attempts < MaxAttempts
      /\ attempts' = attempts + 1
      /\ records' = IF sent THEN Append(records, sequence) ELSE records
      /\ sequence' = IF sequence = None THEN None ELSE NextSequence(sent)
      /\ dropped' = IF sent THEN dropped ELSE OneMoreDropped

\* Observer::notice in a round, or a failed connection attempt.
Notice ==
  /\ pc \in {"round", "primaries"}
  /\ PublishDiagnostic
  /\ UNCHANGED <<generation, pc, receivers, received, reliable>>

\* The loop finishes a closed generation, reports it, and connects again.
FinishGeneration ==
  /\ pc = "finish"
  /\ PublishDiagnostic
  /\ IF generation.id < MaxGenerations
     THEN pc' = "round" /\ generation' = [id |-> generation.id + 1, closed |-> FALSE]
     ELSE pc' = "ended" /\ UNCHANGED generation
  /\ UNCHANGED <<receivers, received, reliable>>

-----------------------------------------------------------------------------
(* The application.                                                        *)

RuntimeLeaves == UNCHANGED <<generation, pc, inbound, report, failed, held, inputs, attempts,
                             sequence, dropped>>

Got(stream, item) == received' = [received EXCEPT ![stream] = Append(@, item)]

\* recv of the Primary stream: the slot is free before the charge returns.
RecvPrimary ==
  /\ "primaries" \in receivers /\ primaries # <<>> /\ taken = None
  /\ taken' = Head(primaries)
  /\ primaries' = Tail(primaries)
  /\ Got("primaries", [gen |-> taken'.gen, n |-> taken'.n])
  /\ UNCHANGED <<bytes, errors, records, receivers>>
  /\ RuntimeLeaves

\* The envelope is dropped, its permit with it.
ReturnCharge ==
  /\ taken # None
  /\ bytes' = bytes + taken.length
  /\ taken' = None
  /\ UNCHANGED <<primaries, errors, records, receivers, received>>
  /\ RuntimeLeaves

\* recv of the error stream.
RecvError ==
  /\ "errors" \in receivers /\ errors # <<>>
  /\ Got("errors", Head(errors))
  /\ errors' = Tail(errors)
  /\ UNCHANGED <<bytes, primaries, records, receivers, taken>>
  /\ RuntimeLeaves

\* recv of the diagnostic stream.
RecvDiagnostic ==
  /\ "diagnostics" \in receivers /\ records # <<>>
  /\ Got("diagnostics", Head(records))
  /\ records' = Tail(records)
  /\ UNCHANGED <<bytes, primaries, errors, receivers, taken>>
  /\ RuntimeLeaves

\* The permits of what is queued, one for each byte of each message.
Charge(queue) ==
  Cardinality({permit \in (1 .. Len(queue)) \X (1 .. PrimaryBytes) :
                 permit[2] <= queue[permit[1]].length})

\* Dropping a receiver closes its channel and drops what is queued.
DropReceiver(stream) ==
  /\ stream \in receivers /\ (stream = "primaries" => taken = None)
  /\ receivers' = receivers \ {stream}
  /\ primaries' = IF stream = "primaries" THEN <<>> ELSE primaries
  /\ bytes' = IF stream = "primaries" THEN bytes + Charge(primaries) ELSE bytes
  /\ errors' = IF stream = "errors" THEN <<>> ELSE errors
  /\ records' = IF stream = "diagnostics" THEN <<>> ELSE records
  /\ UNCHANGED <<taken, received>>
  /\ RuntimeLeaves

Next ==
  \/ \E length \in Lengths : ReadPrimary(length)
  \/ ReadViolation \/ OtherClose
  \/ ChargePrimary \/ SendPrimary \/ DeliverError
  \/ Notice \/ FinishGeneration
  \/ RecvPrimary \/ ReturnCharge \/ RecvError \/ RecvDiagnostic
  \/ \E stream \in Streams : DropReceiver(stream)

Spec == Init /\ [][Next]_vars

-----------------------------------------------------------------------------
(* Properties.                                                             *)

\* The queues stay within their capacities and the semaphore within its permits.
TypeOK ==
  /\ generation \in [id : 1 .. MaxGenerations, closed : BOOLEAN]
  /\ pc \in {"round", "primaries", "send", "errors", "finish", "ended"}
  /\ inbound \in Primaries \cup {None} /\ held \in Primaries \cup {None}
  /\ taken \in Primaries \cup {None} /\ report \in Items \cup {None}
  /\ failed \in BOOLEAN
  /\ bytes \in 0 .. PrimaryBytes
  /\ primaries \in Seq(Primaries) /\ Len(primaries) <= PrimaryCapacity
  /\ errors \in Seq(Items) /\ Len(errors) <= ErrorCapacity
  /\ records \in Seq(0 .. (SequenceSpace - 1)) /\ Len(records) <= DiagnosticCapacity
  /\ receivers \subseteq Streams
  /\ sequence \in 0 .. (SequenceSpace - 1) \cup {None}
  /\ dropped \in 0 .. DroppedLimit /\ attempts \in 0 .. MaxAttempts
  /\ inputs \in [1 .. MaxGenerations -> [primaries : 0 .. MaxInputs, errors : 0 .. MaxInputs]]
  /\ DOMAIN received = Streams
  /\ received["primaries"] \in Seq(Items) /\ received["errors"] \in Seq(Items)
  /\ received["diagnostics"] \in Seq(0 .. (SequenceSpace - 1))

Stamps(queue) == [i \in 1 .. Len(queue) |-> [gen |-> queue[i].gen, n |-> queue[i].n]]

\* What a reliable stream has carried so far, oldest first.
Carried(stream) ==
  received[stream] \o Stamps(IF stream = "primaries" THEN primaries ELSE errors)

\* The message after item is the next one of its connection, or the first one of a
\* later connection.
MayFollow(item, next) ==
  \/ next.gen = item.gen /\ next.n = item.n + 1
  \/ next.gen > item.gen /\ next.n = 1

\* The stream has the first n messages of connection g, and nothing later.
Complete(stream, g, n) ==
  IF n = 0
  THEN stream # <<>> => stream[Len(stream)].gen < g
  ELSE stream # <<>> /\ stream[Len(stream)] = [gen |-> g, n |-> n]

\* The application's stream never skips a message: the Primaries (and the errors)
\* of one connection reach it in order from the first one, whatever the queues
\* refuse, and a connection that goes on has lost none.  A refused delivery must
\* therefore close its connection before anything behind it is delivered
\* (HsmsRuntime::publish, InboundFull).
NoSilentLoss ==
  \A stream \in receivers \ {"diagnostics"} :
    LET all == Carried(stream)
    IN  /\ all # <<>> => all[1].n = 1
        /\ \A i \in 2 .. Len(all) : MayFollow(all[i - 1], all[i])
        /\ pc = "round" => Complete(all, generation.id, inputs[generation.id][stream])

\* Every byte permit is free or belongs to a Primary somebody still holds: the
\* queue, the sender between its charge and its send, or the receiver that has not
\* yet dropped the envelope.  A leak would close every later connection for
\* backpressure (Delivery::primary).
BytesAreReturned ==
  bytes + Charge(primaries) + (IF held = None THEN 0 ELSE held.length)
    + (IF taken = None THEN 0 ELSE taken.length) = PrimaryBytes

\* Primaries never press on protocol errors: whatever the Primary queue, its bytes
\* and its receiver do, a violation read while the error queue has room is kept for
\* publication, and published while its receiver exists (Delivery::capacity,
\* Delivery::error; USAGE.md promises independent queues).
ErrorsAreIndependent ==
  [][/\ ( /\ inputs'[generation.id].errors > inputs[generation.id].errors
          /\ "errors" \in receivers /\ Len(errors) < ErrorCapacity ) => report' # None
     /\ ( report # None /\ report' = None /\ "errors" \in receivers ) =>
          errors' = Append(errors, report)]_vars

\* What is delivered is whole and paid for: no gap in a stream, no byte charged twice
\* or kept by nobody, no queue beyond its capacity.
DeliveryIsWhole == TypeOK /\ NoSilentLoss /\ BytesAreReturned

\* While its receiver exists, every diagnostic is queued, received or counted as
\* dropped, the counter saturates instead of wrapping, and the numbers of the
\* records increase with gaps that the counter accounts for, so a consumer that
\* compares the two never misses a loss (DiagnosticPublisher::publish).
LossIsCounted ==
  "diagnostics" \in receivers =>
    LET all  == received["diagnostics"] \o records
        lost == attempts - Len(all)
    IN  /\ dropped = IF lost < DroppedLimit THEN lost ELSE DroppedLimit
        /\ \A i \in 1 .. Len(all) : all[i] >= i - 1 /\ all[i] - (i - 1) <= lost
        /\ \A i \in 2 .. Len(all) : all[i] > all[i - 1]
        /\ sequence # None => sequence = attempts

=============================================================================
