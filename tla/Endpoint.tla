------------------------------- MODULE Endpoint -------------------------------
(***************************************************************************)
(* The endpoint above its generations: the handle's requests               *)
(* (src/hsms/endpoint/mod.rs, data.rs, reply.rs), the loop of HsmsRuntime  *)
(* (endpoint/runtime.rs) and the ConnectionSupervisor with its Active or   *)
(* Passive source (supervisor/runtime.rs, connection.rs).                  *)
(*                                                                         *)
(* The generation in the slot is a value of GenerationSteps.  Handles live *)
(* on other threads: they read the published snapshot in one step and send *)
(* in a later one, and the loop runs between the two.  The loop itself     *)
(* publishes, then completes what waits for the publication, then awaits   *)
(* one input; pc says which of these is next.                              *)
(***************************************************************************)
EXTENDS GenerationSteps, Integers, Sequences

CONSTANTS
  Active,            \* connection mode; the other is Passive
  T5,                \* in ticks
  GenerationSpace,   \* number of generation identities (2^64 - 1 in the code)
  Intents,           \* requests the application uses
  Capacity,          \* command_capacity
  ReplyCapacity,     \* reply_capacity
  MayAbort           \* the owner may drop the runtime future

IntentNames == {"Start", "Stop", "Disconnect", "Control", "Data", "Reply"}

ASSUME EndpointAssumption ==
  /\ Active \in BOOLEAN /\ MayAbort \in BOOLEAN
  /\ Intents \subseteq IntentNames
  /\ T5 \in Nat /\ GenerationSpace \in Nat
  /\ Capacity \in Nat \ {0} /\ ReplyCapacity \in Nat

\* ConnectionCloseReason, as far as the endpoint chooses it.
Reasons == OwnReasons \cup {"LocalStop", "LocalDisconnect", "ApplicationBackpressure"}

\* What a caller may get.
Results ==
  {"RuntimeStopped", "Draining", "NotConnected", "Backpressure", "Faulted", "Io", "Started",
   "StaleConnectionGeneration", "Protocol", "Rejected", "Closed", "CleanupUnproven"}

\* The shapes of a request, of a generation in its slot, of the source and of a
\* reported exit.
Calls == [intent : Intents, gen : 0..GenerationSpace, sent : BOOLEAN]
Generations ==
  [drain : Reasons \cup {None}, closing : Reasons \cup {None}, closed : BOOLEAN,
   exit : {None, "Clean", "Poisoned"}, owned : SUBSET Operations, seen : SUBSET Operations]
Slots == [gen : 1..GenerationSpace, g : Generations]
Sources ==
  IF Active THEN [wait : 0..T5, trying : BOOLEAN, tried : BOOLEAN] ELSE [listening : BOOLEAN]
ExitReports == [gen : 1..GenerationSpace, reason : Reasons, clean : BOOLEAN]

\* None is none of the values it stands beside.
ASSUME NoneAssumption ==
  None \notin Reasons \cup Results \cup {"Clean", "Poisoned"} \cup Calls \cup Generations \cup Slots
               \cup Sources \cup ExitReports

VARIABLES
  handles,      \* an application handle exists
  calls,        \* by operation: None or [intent, gen, sent]
  queue,        \* operations in the command channel
  answers,      \* by operation: None or the result its caller got
  supervisor,   \* [running, faulted, source, slot, next]
  pending,      \* closes awaiting the cleanup of the slot
  outbox,       \* protocol results awaiting a publication
  wake,         \* lifecycle results awaiting a publication
  quitting, lastExit, snapshot, pc,
  executed,     \* history: the generations that accepted each operation
  quiet         \* history: ticks since the last attempt ended, up to T5

vars == <<handles, calls, queue, answers, supervisor, pending, outbox, wake, quitting,
          lastExit, snapshot, pc, executed, quiet>>

NoSlot == [kind |-> "None", gen |-> 0]

\* EndpointStateSnapshot::stopped_clean.
StoppedClean ==
  [desired |-> "Stopped", phase |-> "StoppedClean", slot |-> NoSlot, exit |-> None]

\* ConnectionSupervisor::new and HsmsRuntime::new.
Init ==
  /\ handles = TRUE
  /\ calls = [op \in Operations |-> None]
  /\ queue = <<>>
  /\ answers = [op \in Operations |-> None]
  /\ supervisor = [running |-> FALSE, faulted |-> FALSE, source |-> None, slot |-> None,
                   next |-> 1]
  /\ pending = {} /\ outbox = {} /\ wake = {}
  /\ quitting = FALSE /\ lastExit = None
  /\ snapshot = StoppedClean
  /\ pc = "publish"          \* publish, deliver, flush, select or ended
  /\ executed = [op \in Operations |-> {}]
  /\ quiet = T5

-----------------------------------------------------------------------------
(* Handles.                                                                *)

InFlight(intents) ==
  {op \in Operations : /\ calls[op] # None /\ calls[op].sent /\ calls[op].intent \in intents
                       /\ answers[op] = None}

\* Mutant: the close slot is forgotten when the channel is sized.
ChannelCapacity_NoClose == Capacity + ReplyCapacity

\* HsmsEndpoint::build sizes the channel by its three admission budgets.
ChannelCapacity == Capacity + ReplyCapacity + 1

\* The semaphores of submit, submit_primary and submit_reply; a permit returns
\* when its command completes.
PermitFree(intent) ==
  CASE intent \in {"Stop", "Disconnect"} -> InFlight({"Stop", "Disconnect"}) = {}
    [] intent = "Reply" -> Cardinality(InFlight({"Reply"})) < ReplyCapacity
    [] OTHER -> Cardinality(InFlight({"Start", "Control", "Data"})) < Capacity

HandleLeaves ==
  UNCHANGED <<handles, supervisor, pending, outbox, wake, quitting, lastExit, snapshot, pc,
              executed, quiet>>

Answer(op, result) == answers' = [answers EXCEPT ![op] = result]

\* The route a request captures may already refuse it.
CaptureError(intent) ==
  CASE pc = "ended" -> "RuntimeStopped"
    [] pc # "ended" /\ intent = "Data" /\ snapshot.slot.kind = "Draining" -> "Draining"
    [] pc # "ended" /\ intent \in {"Control", "Data", "Reply"} /\ snapshot.slot.kind = "None" ->
         "NotConnected"
    [] OTHER -> None

\* control, start, stop, disconnect, submit_primary, submit_reply: the snapshot.
Capture(op, intent) ==
  /\ handles /\ calls[op] = None
  /\ calls' = [calls EXCEPT ![op] = [intent |-> intent, gen |-> snapshot.slot.gen,
                                     sent |-> FALSE]]
  /\ Answer(op, CaptureError(intent))
  /\ UNCHANGED queue
  /\ HandleLeaves

\* The rest of those requests: the permit and try_send.
Send(op) ==
  /\ calls[op] # None /\ ~calls[op].sent /\ answers[op] = None
  /\ HandleLeaves
  /\ \/ /\ pc = "ended"
        /\ Answer(op, "RuntimeStopped")
        /\ UNCHANGED <<calls, queue>>
     \/ /\ pc # "ended" /\ ~PermitFree(calls[op].intent)
        /\ Answer(op, "Backpressure")
        /\ UNCHANGED <<calls, queue>>
     \/ /\ pc # "ended" /\ PermitFree(calls[op].intent)
        /\ calls' = [calls EXCEPT ![op].sent = TRUE]
        /\ queue' = Append(queue, op)
        /\ UNCHANGED answers

\* The final handle is dropped; a request already sent goes on without it.
DropHandles ==
  /\ handles
  /\ \A op \in Operations : calls[op] # None => calls[op].sent \/ answers[op] # None
  /\ handles' = FALSE
  /\ UNCHANGED <<calls, queue, answers, supervisor, pending, outbox, wake, quitting, lastExit,
                 snapshot, pc, executed, quiet>>

-----------------------------------------------------------------------------
(* Publication.                                                            *)

\* publish_state: the coherent state of supervisor s.
Coherent(s) ==
  LET draining == s.slot # None /\ IsDraining(s.slot.g)
  IN  [desired |-> IF s.running THEN "Running" ELSE "Stopped",
       phase   |-> CASE s.faulted -> "Faulted"
                     [] ~s.faulted /\ draining -> "Draining"
                     [] ~s.faulted /\ ~draining /\ s.running -> "Running"
                     [] OTHER -> "StoppedClean",
       slot    |-> IF s.slot = None THEN NoSlot
                   ELSE [kind |-> IF draining THEN "Draining" ELSE "Open", gen |-> s.slot.gen],
       exit    |-> lastExit]

\* Mutant: a round forgets the results it produced.
Settled_Lost(g, h) == {}

\* The protocol results of a generation that went from g to h.
Settled(g, h) == {[op |-> op, result |-> "Protocol"] : op \in g.owned \ h.owned}

\* Mutant: the state is read before the deliveries that may close the generation.
Publish_StateFirst ==
  /\ pc \in {"publish", "deliver"}
  /\ \E g \in IF supervisor.slot = None THEN {None}
              ELSE {supervisor.slot.g} \cup ForcedCloses(supervisor.slot.g, "ApplicationBackpressure") :
       /\ supervisor' = IF g = None THEN supervisor ELSE [supervisor EXCEPT !.slot.g = g]
       /\ snapshot' = Coherent(supervisor)
       /\ outbox' = IF g = None THEN outbox ELSE outbox \cup Settled(supervisor.slot.g, g)
  /\ pc' = "flush"
  /\ UNCHANGED <<handles, calls, queue, answers, pending, wake, quitting, lastExit, executed,
                 quiet>>

\* publish: after a round, what it retained for the application is delivered;
\* a full or dropped application queue closes the generation.
Publish ==
  /\ pc \in {"publish", "deliver"}
  /\ \E g \in IF supervisor.slot = None THEN {None}
              ELSE {supervisor.slot.g}
                   \cup (IF pc = "deliver"
                         THEN ForcedCloses(supervisor.slot.g, "ApplicationBackpressure")
                         ELSE {}) :
       LET s == IF g = None THEN supervisor ELSE [supervisor EXCEPT !.slot.g = g]
       IN  /\ supervisor' = s
           /\ snapshot' = Coherent(s)
           /\ outbox' = IF g = None THEN outbox ELSE outbox \cup Settled(supervisor.slot.g, g)
  /\ pc' = "flush"
  /\ UNCHANGED <<handles, calls, queue, answers, pending, wake, quitting, lastExit, executed,
                 quiet>>

\* The end of publish, and the complete calls that follow it.
Flush ==
  /\ pc = "flush"
  /\ answers' = [op \in Operations |->
                   IF \E c \in outbox \cup wake : c.op = op
                   THEN (CHOOSE c \in outbox \cup wake : c.op = op).result ELSE answers[op]]
  /\ outbox' = {} /\ wake' = {}
  /\ pc' = "select"
  /\ UNCHANGED <<handles, calls, queue, supervisor, pending, quitting, lastExit, snapshot,
                 executed, quiet>>

-----------------------------------------------------------------------------
(* The connection source.                                                  *)

\* ConnectionSource::prepare.  tried is history: this source has made an attempt.
ActiveSource == [wait |-> 0, trying |-> FALSE, tried |-> FALSE]
PassiveSource == [listening |-> TRUE]

\* Mutant: only an attempt that ran to its end is separated from the next.
DropConnect_Forgets(source) ==
  IF source = None \/ ~Active \/ ~source.trying THEN source
  ELSE [source EXCEPT !.trying = FALSE, !.tried = TRUE]

\* ConnectSeparation::drop, on every end of an attempt.
DropConnect(source) ==
  IF source = None \/ ~Active \/ ~source.trying THEN source
  ELSE [source EXCEPT !.wait = T5, !.trying = FALSE, !.tried = TRUE]

\* The history of attempts: a loop step that drops the connect future ends one.
AttemptEnded ==
  quiet' = IF supervisor.source # None /\ Active /\ supervisor.source.trying THEN 0 ELSE quiet

\* Mutant: the source is released without latching the fault.
FaultSource_Unlatched(s) == [s EXCEPT !.source = None]

\* fault_source.
FaultSource(s) == [s EXCEPT !.faulted = TRUE, !.source = None]

\* Mutant: a Stop leaves the connection to its peer.
BeginStop_KeepsConnection(s) ==
  [s EXCEPT !.running = FALSE, !.source = None, !.faulted = s.slot # None /\ @]

\* begin_stop.
BeginStop(s) ==
  IF s.slot = None THEN [s EXCEPT !.running = FALSE, !.source = None, !.faulted = FALSE]
  ELSE [s EXCEPT !.running = FALSE, !.source = None,
                 !.slot.g = BeginGracefulClose(@, "LocalStop")]

\* begin_disconnect.
BeginDisconnect(s) == [s EXCEPT !.slot.g = BeginGracefulClose(@, "LocalDisconnect")]

\* recoverable.
Recoverable(reason) ==
  reason \in {"LocalDisconnect", "LocalSeparate", "SeparateReceived", "TransportLost",
              "SystemBytesExhausted", "CommunicationsTimeoutT6", "CommunicationsTimeoutT7",
              "CommunicationsTimeoutT8"}

\* record_exit.
Exit(s, h) == [gen |-> s.slot.gen, reason |-> h.closing, clean |-> h.exit = "Clean"]

-----------------------------------------------------------------------------
(* The loop.                                                               *)

\* What the loop waits for; a closed generation is finished before anything
\* else, and a quitting runtime returns once nothing is left to close.
SlotClosed == ~supervisor.faulted /\ supervisor.slot # None /\ supervisor.slot.g.closed
Returning == ~SlotClosed /\ quitting /\ (supervisor.faulted \/ supervisor.slot = None)
Waiting == pc = "select" /\ ~SlotClosed /\ ~Returning

LoopLeaves == UNCHANGED <<handles, calls, snapshot>>

\* Mutant: poison does not block replacement.
Released_Always(s, h) ==
  IF s.running /\ ~Recoverable(h.closing) THEN FaultSource([s EXCEPT !.slot = None])
  ELSE [s EXCEPT !.slot = None, !.faulted = s.running /\ @]

\* finish_generation: poison keeps the slot; a clean local fault asks for a Stop.
Released(s, h) ==
  IF h.exit # "Clean" THEN FaultSource([s EXCEPT !.slot.g = h])
  ELSE IF s.running /\ ~Recoverable(h.closing) THEN FaultSource([s EXCEPT !.slot = None])
  ELSE [s EXCEPT !.slot = None, !.faulted = s.running /\ @]

FinishGeneration ==
  /\ pc = "select" /\ SlotClosed
  /\ \E h \in Exits(supervisor.slot.g) :
       /\ supervisor' = Released(supervisor, h)
       /\ lastExit' = Exit(supervisor, h)
       /\ outbox' = outbox \cup Settled(supervisor.slot.g, h)
       /\ wake' = {[op |-> op, result |-> IF h.exit = "Clean" THEN "Closed" ELSE "CleanupUnproven"] :
                     op \in pending}
  /\ pending' = {}
  /\ pc' = "publish"
  /\ UNCHANGED <<queue, answers, quitting, executed, quiet>>
  /\ LoopLeaves

\* step_current.
StepCurrent ==
  /\ Waiting /\ ~supervisor.faulted /\ supervisor.slot # None
  /\ \E h \in Rounds(supervisor.slot.g) :
       /\ supervisor' = [supervisor EXCEPT !.slot.g = h]
       /\ outbox' = outbox \cup Settled(supervisor.slot.g, h)
  /\ pc' = "deliver"
  /\ UNCHANGED <<queue, answers, pending, wake, quitting, lastExit, executed, quiet>>
  /\ LoopLeaves

\* receive, before it looks at the command: the connect future is dropped and
\* process_ready_priority gives the generation its terminal facts and deadlines.
AfterPriority ==
  LET s == [supervisor EXCEPT !.source = DropConnect(@)]
  IN  IF s.slot = None THEN {s}
      ELSE {s} \cup {[s EXCEPT !.slot.g = h] : h \in Rounds(s.slot.g)}

PriorityResults(s) == IF s.slot = None THEN {} ELSE Settled(supervisor.slot.g, s.slot.g)

Listening == Waiting /\ ~quitting

Received(op, intents) ==
  /\ Listening /\ queue # <<>> /\ op = Head(queue) /\ calls[op].intent \in intents
  /\ queue' = Tail(queue)
  /\ pc' = IF supervisor.slot = None THEN "publish" ELSE "deliver"
  /\ AttemptEnded
  /\ UNCHANGED quitting
  /\ LoopLeaves

\* commands.recv() ends: every handle is gone and the channel is empty.
FinalHandleDropped ==
  /\ Listening /\ queue = <<>> /\ ~handles
  /\ \E s \in AfterPriority :
       /\ supervisor' = BeginStop(s)
       /\ outbox' = outbox \cup PriorityResults(s)
  /\ quitting' = TRUE
  /\ pc' = IF supervisor.slot = None THEN "publish" ELSE "deliver"
  /\ AttemptEnded
  /\ UNCHANGED <<queue, answers, pending, wake, lastExit, executed>>
  /\ LoopLeaves

\* Mutant: the captured generation is not compared.
RouteError_AnyGeneration(s, op) ==
  IF s.faulted THEN "Faulted" ELSE IF s.slot = None THEN "StaleConnectionGeneration" ELSE None

\* The route of a Reply, Data or Control request.
RouteError(s, op) ==
  IF s.faulted THEN "Faulted"
  ELSE IF s.slot = None \/ s.slot.gen # calls[op].gen THEN "StaleConnectionGeneration"
  ELSE None

\* receive of Reply, Data and Control.  A refusal by the Driver, for its state,
\* its capacity or the request itself, waits for the publication.
ReceiveRouted(op) ==
  /\ Received(op, {"Reply", "Data", "Control"})
  /\ UNCHANGED <<pending, wake, lastExit>>
  /\ \E s \in AfterPriority :
       \/ /\ RouteError(s, op) # None
          /\ supervisor' = s
          /\ outbox' = outbox \cup PriorityResults(s)
          /\ Answer(op, RouteError(s, op))
          /\ UNCHANGED executed
       \/ /\ RouteError(s, op) = None
          /\ supervisor' = s
          /\ outbox' = outbox \cup PriorityResults(s) \cup {[op |-> op, result |-> "Rejected"]}
          /\ UNCHANGED <<answers, executed>>
       \/ /\ RouteError(s, op) = None /\ MayAdmit(s.slot.g, calls[op].intent = "Reply")
          /\ supervisor' = [s EXCEPT !.slot.g = Admit(@, op)]
          /\ outbox' = outbox \cup PriorityResults(s)
          /\ executed' = [executed EXCEPT ![op] = @ \cup {s.slot.gen}]
          /\ UNCHANGED answers

\* What refuses a Start before it prepares a source.
StartError(s) ==
  IF pending # {} THEN "Draining"
  ELSE IF s.faulted THEN "Faulted"
  ELSE IF ~s.running /\ s.slot # None THEN "Draining"
  ELSE None

\* receive of Start; a Passive endpoint must bind first.
ReceiveStart(op) ==
  /\ Received(op, {"Start"})
  /\ UNCHANGED <<answers, pending, lastExit, executed>>
  /\ \E s \in AfterPriority :
       /\ outbox' = outbox \cup PriorityResults(s)
       /\ \/ /\ StartError(s) # None \/ s.running
             /\ supervisor' = s
             /\ wake' = {[op |-> op, result |-> IF StartError(s) # None THEN StartError(s)
                                                ELSE "Started"]}
          \/ /\ StartError(s) = None /\ ~s.running
             /\ supervisor' = [s EXCEPT !.running = TRUE,
                                        !.source = IF Active THEN ActiveSource ELSE PassiveSource]
             /\ wake' = {[op |-> op, result |-> "Started"]}
          \/ /\ StartError(s) = None /\ ~s.running /\ ~Active
             /\ supervisor' = s
             /\ wake' = {[op |-> op, result |-> "Io"]}

\* receive of Stop: recover a faulted endpoint, answer an idle one, or wait.
ReceiveStop(op) ==
  /\ Received(op, {"Stop"})
  /\ UNCHANGED <<answers, executed>>
  /\ \E s \in AfterPriority :
       LET stopped == BeginStop(s)
       IN  \/ /\ s.slot = None
              /\ supervisor' = stopped
              /\ wake' = {[op |-> op, result |-> "Closed"]}
              /\ outbox' = outbox
              /\ UNCHANGED <<pending, lastExit>>
           \/ /\ s.slot # None /\ ~s.faulted
              /\ supervisor' = stopped
              /\ pending' = pending \cup {op}
              /\ outbox' = outbox \cup PriorityResults(s)
              /\ UNCHANGED <<wake, lastExit>>
           \/ /\ s.slot # None /\ s.faulted
              /\ \E h \in Exits(stopped.slot.g) :
                   /\ supervisor' = IF h.exit = "Clean"
                                    THEN [stopped EXCEPT !.slot = None, !.faulted = FALSE]
                                    ELSE [stopped EXCEPT !.slot.g = h]
                   /\ lastExit' = Exit(s, h)
                   /\ wake' = {[op |-> op, result |-> IF h.exit = "Clean" THEN "Closed"
                                                      ELSE "CleanupUnproven"]}
                   /\ outbox' = outbox \cup Settled(s.slot.g, h)
              /\ UNCHANGED pending

\* receive of Disconnect, bound to the generation it captured.
ReceiveDisconnect(op) ==
  /\ Received(op, {"Disconnect"})
  /\ UNCHANGED <<wake, lastExit, executed>>
  /\ \E s \in AfterPriority :
       LET current == IF s.slot = None THEN 0 ELSE s.slot.gen
           error   == CASE calls[op].gen = 0 -> "Closed"
                        [] calls[op].gen # 0 /\ calls[op].gen # current ->
                             "StaleConnectionGeneration"
                        [] calls[op].gen # 0 /\ calls[op].gen = current /\ s.faulted -> "Faulted"
                        [] OTHER -> None
       IN  /\ outbox' = outbox \cup PriorityResults(s)
           /\ Answer(op, error)
           /\ supervisor' = IF error = None THEN BeginDisconnect(s) ELSE s
           /\ pending' = IF error = None THEN pending \cup {op} ELSE pending

-----------------------------------------------------------------------------
(* Connecting.                                                             *)

Connecting ==
  /\ Waiting /\ supervisor.running /\ ~supervisor.faulted /\ supervisor.slot = None
  /\ supervisor.source # None
ConnectLeaves ==
  /\ UNCHANGED <<queue, answers, pending, outbox, wake, quitting, lastExit, executed>>
  /\ LoopLeaves

Identified == supervisor.next <= GenerationSpace

\* connect has no identity left.
GenerationExhausted ==
  /\ Connecting /\ ~Identified
  /\ supervisor' = FaultSource(supervisor)
  /\ pc' = "publish"
  /\ UNCHANGED quiet
  /\ ConnectLeaves

\* A candidate's identity is used up with it.
Connected(source) ==
  [supervisor EXCEPT !.source = source, !.next = @ + 1,
                     !.slot = [gen |-> supervisor.next, g |-> NewGeneration]]

\* next of an Active source: the wait is over and a connect begins.
BeginAttempt ==
  /\ Connecting /\ Identified /\ Active
  /\ supervisor.source.wait = 0 /\ ~supervisor.source.trying
  /\ supervisor' = [supervisor EXCEPT !.source.trying = TRUE]
  /\ UNCHANGED <<pc, quiet>>
  /\ ConnectLeaves

\* connect_attempt: it connects, fails or times out.
EndAttempt ==
  /\ Connecting /\ Active /\ supervisor.source.trying
  /\ LET source == DropConnect(supervisor.source)
     IN  supervisor' \in {Connected(source), [supervisor EXCEPT !.source = source]}
  /\ AttemptEnded
  /\ pc' = "publish"
  /\ ConnectLeaves

\* Mutant: the listener is kept while the connection is open.
Suspended_Keeps(source) == source

\* listener.take(): no listening socket while the slot is occupied.
Suspended(source) == [source EXCEPT !.listening = FALSE]

\* next of a Passive source: the listener is rebound at its address.
Rebind ==
  /\ Connecting /\ Identified /\ ~Active /\ ~supervisor.source.listening
  /\ \/ /\ supervisor' = [supervisor EXCEPT !.source.listening = TRUE]
        /\ UNCHANGED pc
     \/ /\ supervisor' = FaultSource(supervisor)
        /\ pc' = "publish"
  /\ UNCHANGED quiet
  /\ ConnectLeaves

AcceptConnection ==
  /\ Connecting /\ Identified /\ ~Active /\ supervisor.source.listening
  /\ supervisor' \in {Connected(Suspended(supervisor.source)), FaultSource(supervisor)}
  /\ pc' = "publish"
  /\ UNCHANGED quiet
  /\ ConnectLeaves

\* Time passes.
Tick ==
  /\ Active
  /\ LET s == supervisor.source
     IN  /\ quiet < T5 \/ (s # None /\ s.wait > 0)
         /\ supervisor' = IF s # None /\ s.wait > 0
                          THEN [supervisor EXCEPT !.source.wait = @ - 1] ELSE supervisor
  /\ quiet' = IF quiet < T5 THEN quiet + 1 ELSE quiet
  /\ UNCHANGED <<handles, calls, queue, answers, pending, outbox, wake, quitting, lastExit,
                 snapshot, pc, executed>>

-----------------------------------------------------------------------------
(* The end of the runtime.                                                 *)

\* Drop for HsmsRuntime: a slot that is still owned leaves a Faulted snapshot;
\* whoever still waits finds the runtime stopped.
EndRuntime ==
  /\ pc' = "ended"
  /\ snapshot' = IF supervisor.slot = None THEN snapshot
                 ELSE [snapshot EXCEPT !.desired = "Stopped", !.phase = "Faulted"]
  /\ answers' = [op \in Operations |->
                   IF op \in InFlight(IntentNames) THEN "RuntimeStopped" ELSE answers[op]]
  /\ queue' = <<>> /\ pending' = {} /\ outbox' = {} /\ wake' = {}
  /\ supervisor' = [supervisor EXCEPT !.slot = None, !.source = None]
  /\ AttemptEnded
  /\ UNCHANGED <<handles, calls, quitting, lastExit, executed>>

Return == pc = "select" /\ Returning /\ EndRuntime

Abort == MayAbort /\ pc = "select" /\ EndRuntime

-----------------------------------------------------------------------------

Handles ==
  \/ \E op \in Operations, intent \in Intents : Capture(op, intent)
  \/ \E op \in Operations : Send(op)
  \/ DropHandles

Receive ==
  \/ \E op \in Operations :
       ReceiveRouted(op) \/ ReceiveStart(op) \/ ReceiveStop(op) \/ ReceiveDisconnect(op)
  \/ FinalHandleDropped

Connect == GenerationExhausted \/ BeginAttempt \/ EndAttempt \/ Rebind \/ AcceptConnection

Next ==
  \/ Handles \/ Publish \/ Flush \/ FinishGeneration \/ StepCurrent \/ Receive \/ Connect
  \/ Tick \/ Return \/ Abort

Spec == Init /\ [][Next]_vars

-----------------------------------------------------------------------------
(* Fairness.  A caller that has read the snapshot goes on to send; the loop*)
(* keeps running, and scheduling::alternate gives a waiting command its    *)
(* turn whatever the connection does.  Of a generation only what           *)
(* GenerationRuntime is shown to do is used: a drain ends, and an accepted *)
(* operation is answered.  Nothing is asked of the network.                *)

\* The operations the current generation has accepted and not answered.
Owned == IF supervisor.slot = None THEN {} ELSE supervisor.slot.g.owned

DrainEnds == StepCurrent /\ IsDraining(supervisor.slot.g) /\ supervisor'.slot.g.closed
Answers(op) == StepCurrent /\ op \in Owned /\ op \notin supervisor'.slot.g.owned

Fairness ==
  /\ WF_vars(Publish) /\ WF_vars(Flush) /\ WF_vars(FinishGeneration) /\ WF_vars(Return)
  /\ SF_vars(Receive)
  /\ SF_vars(DrainEnds)
  /\ \A op \in Operations : WF_vars(Send(op)) /\ SF_vars(Answers(op))

FairSpec == Spec /\ Fairness

-----------------------------------------------------------------------------
(* Properties.                                                             *)

\* The endpoint's state keeps its declared shape.
TypeOK ==
  /\ handles \in BOOLEAN /\ quitting \in BOOLEAN
  /\ calls \in [Operations -> Calls \cup {None}]
  /\ answers \in [Operations -> Results \cup {None}]
  /\ queue \in Seq(Operations)
  /\ supervisor \in [running : BOOLEAN, faulted : BOOLEAN, source : Sources \cup {None},
                     slot : Slots \cup {None}, next : 1..(GenerationSpace + 1)]
  /\ pending \subseteq Operations
  /\ outbox \subseteq [op : Operations, result : {"Protocol", "Rejected"}]
  /\ wake \subseteq [op : Operations, result : Results]
  /\ lastExit \in ExitReports \cup {None}
  /\ pc \in {"publish", "deliver", "flush", "select", "ended"}
  /\ executed \in [Operations -> SUBSET (1..GenerationSpace)]
  /\ quiet \in 0..T5

Places(op) ==
  Cardinality({i \in DOMAIN queue : queue[i] = op})
  + (IF op \in Owned THEN 1 ELSE 0) + (IF op \in pending THEN 1 ELSE 0)
  + Cardinality({c \in outbox \cup wake : c.op = op})

\* A request that was sent has one owner until it is answered: the channel, the
\* generation, the pending closes or the results that wait for a publication.
\* None is lost when a generation is replaced, poisoned or recovered.
RequestHasOneOwner ==
  \A op \in Operations : Places(op) = IF op \in InFlight(IntentNames) THEN 1 ELSE 0

\* The channel has room for every request that holds a permit, so a Stop is
\* never refused for the pressure of ordinary requests.
PermitMeansRoom ==
  \A intent \in Intents : PermitFree(intent) => Len(queue) < ChannelCapacity

\* The owners of requests keep their books: no place is overbooked or forgotten.
RequestsAreOwned == TypeOK /\ RequestHasOneOwner /\ PermitMeansRoom

\* A request is never executed on another connection than the one its caller
\* saw, and what is handed back to the caller was never given to a generation.
NeverReplayed ==
  \A op \in Operations :
    /\ \A g \in executed[op] : g = calls[op].gen
    /\ answers[op] \in {"StaleConnectionGeneration", "Faulted", "NotConnected", "Backpressure",
                        "Rejected"} => executed[op] = {}

\* A fault stops automatic recovery: no source is left to connect with, and a
\* connection reported as not cleaned up keeps the slot and the fault until a
\* later report says otherwise.
FaultBlocksReplacement ==
  /\ lastExit # None /\ pc # "ended" =>
       \/ lastExit.clean
       \/ supervisor.faulted /\ supervisor.slot # None /\ supervisor.slot.gen = lastExit.gen
  /\ supervisor.faulted => supervisor.source = None
  /\ supervisor.slot # None =>
       /\ supervisor.faulted <=> supervisor.slot.g.exit = "Poisoned"
       /\ supervisor.slot.gen < supervisor.next
  /\ supervisor.source # None => supervisor.running

\* E37 9.2.4.1(c): no listening socket while a connection occupies the slot.
NoListenerWhileOccupied ==
  ~Active /\ supervisor.slot # None /\ supervisor.source # None =>
    ~supervisor.source.listening

\* A running endpoint that is neither connected nor faulted can connect.
RunningCanConnect ==
  /\ supervisor.running /\ ~supervisor.faulted /\ pc # "ended" => supervisor.source # None
  /\ pending # {} => supervisor.slot # None

\* Slot, source and fault agree, so the supervisor neither replaces an unproven
\* connection, nor listens beside a live one, nor runs with nothing to connect with.
SourceFollowsSlot == FaultBlocksReplacement /\ NoListenerWhileOccupied /\ RunningCanConnect

\* A result reaches its caller only after the state that caused it: a Stop that
\* succeeds finds a clean stopped endpoint, a Disconnect finds its connection
\* gone, a Start finds running intent, in the snapshot anyone can read by then.
ResultsFollowPublication ==
  [][\A op \in Operations :
       answers[op] = None /\ answers'[op] # None /\ pc' # "ended" =>
         CASE calls'[op].intent = "Stop" /\ answers'[op] = "Closed" ->
                snapshot.phase = "StoppedClean" /\ snapshot.slot = NoSlot
           [] calls'[op].intent = "Disconnect" /\ answers'[op] = "Closed" ->
                calls[op].gen = 0 \/ snapshot.slot.gen # calls[op].gen
           [] calls'[op].intent = "Start" /\ answers'[op] = "Started" ->
                snapshot.desired = "Running"
           [] answers'[op] \in {"Protocol", "Rejected"} -> snapshot = Coherent(supervisor)
           [] OTHER -> TRUE]_vars

\* T5: two attempts of one source are separated, whether the first one ended by
\* itself or a request interrupted it.
AttemptsAreSeparated ==
  [][BeginAttempt /\ supervisor.source.tried => quiet = T5]_vars

\* USAGE.md:7 counts T5 from the end of every attempt, a cancelled one included.
EveryAttemptIsSeparated == [][BeginAttempt => quiet = T5]_vars

\* The published snapshots follow the endpoint's public lifecycle.
View ==
  INSTANCE EndpointView WITH
    view        <- snapshot,
    Generations <- 1..GenerationSpace,
    Reasons     <- Reasons

\* Whatever handles, the loop, generations and the network do in between, the
\* snapshots a watcher reads never skip the end of a connection, never show two
\* of them and never leave a fault without a Stop.
ImplementsView == View!Spec

\* Every request is answered, unless a connection that could not be cleaned up
\* still owns it; then the Stop that recovers it answers it.  A call is never
\* withdrawn, so "always eventually" says that each one leads to its answer.
RequestsAreAnswered ==
  []<>(\A op \in Operations :
         calls[op] # None =>
           \/ answers[op] # None
           \/ supervisor.faulted /\ op \in Owned)

\* Dropping the last handle ends the runtime, from any state.
DropEndsRuntime == ~handles ~> pc = "ended"

\* Nobody waits for ever on the endpoint: neither a caller nor the runtime's owner.
EverybodyIsAnswered == RequestsAreAnswered /\ DropEndsRuntime

=============================================================================
