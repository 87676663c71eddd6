---------------------------- MODULE EndpointProofs ----------------------------
(***************************************************************************)
(* Proofs about Endpoint for every set of operations, every number of      *)
(* connections, both modes and every capacity.                             *)
(***************************************************************************)
EXTENDS Endpoint, FiniteSetTheorems, TLAPS

-----------------------------------------------------------------------------
(* Generations.                                                            *)

\* A generation the slot can hold: its cleanup, if it failed, came after its close,
\* which has a reason.
Sound(g) ==
  /\ g \in Generations
  /\ g.closed => g.closing # None
  /\ g.exit # None => g.closed
  /\ g.exit # "Clean"

\* h continues g: nothing is taken back and nothing new is owned.
Continues(g, h) ==
  /\ h.drain = g.drain /\ h.seen = g.seen
  /\ g.closing # None => h.closing = g.closing
  /\ g.closed => h.closed
  /\ h.owned \subseteq g.owned

\* A connection that has just been built is sound.
LEMMA NewGenerationSound == Sound(NewGeneration)
BY NoneAssumption DEF NewGeneration, Sound, Generations, Reasons

\* Settling operations only takes them out of the connection.
LEMMA SettleEffect ==
  ASSUME NEW g, Sound(g), NEW ops
  PROVE  Sound(Settle(g, ops)) /\ Continues(g, Settle(g, ops)) /\ Settle(g, ops).exit = g.exit
         /\ Settle(g, ops).closing = g.closing /\ Settle(g, ops).closed = g.closed
BY DEF Sound, Generations, Settle, Continues

\* A round needs an open connection, and leaves a sound one that continues it.
LEMMA RoundsEffect ==
  ASSUME NEW g, Sound(g), NEW h \in Rounds(g)
  PROVE  Sound(h) /\ Continues(g, h) /\ h.exit = g.exit /\ ~g.closed /\ g.exit = None
<1>1. ~g.closed /\ g.exit = None
  BY DEF Rounds, Sound
<1>2. ASSUME NEW ops \in SUBSET g.owned, h = Settle(g, ops)
      PROVE  Sound(h) /\ Continues(g, h) /\ h.exit = g.exit
  BY <1>2, SettleEffect
<1>3. ASSUME NEW ops \in SUBSET g.owned, NEW r \in CloseChoices(g), NEW c \in BOOLEAN,
             h = Closing(g, ops, r, c)
      PROVE  Sound(h) /\ Continues(g, h) /\ h.exit = g.exit
  <2>1. r \in Reasons /\ r # None /\ (g.closing # None => r = g.closing)
    BY NoneAssumption DEF CloseChoices, Sound, Generations, Reasons
  <2>2. Sound(Settle(g, ops)) /\ Continues(g, Settle(g, ops)) /\ Settle(g, ops).exit = g.exit
    BY SettleEffect
  <2> QED
    BY <1>1, <1>3, <2>1, <2>2 DEF Closing, Sound, Generations, Continues
<1> QED
  BY <1>1, <1>2, <1>3 DEF Rounds

\* force_close leaves a sound, closed connection that continues the old one.
LEMMA ForcedClosesEffect ==
  ASSUME NEW g, Sound(g), NEW r \in Reasons, NEW h \in ForcedCloses(g, r)
  PROVE  Sound(h) /\ Continues(g, h) /\ h.exit = g.exit /\ h.closed
<1>1. PICK ops \in SUBSET g.owned :
        h = Closing(g, ops, IF g.closing = None THEN r ELSE g.closing, TRUE)
  BY DEF ForcedCloses
<1>2. Sound(Settle(g, ops)) /\ Continues(g, Settle(g, ops)) /\ Settle(g, ops).exit = g.exit
  BY SettleEffect
<1>3. r # None
  BY NoneAssumption
<1> QED
  BY <1>1, <1>2, <1>3, SettleEffect DEF Closing, Sound, Generations, Continues

\* A closed connection exits clean, owning nothing, or poisoned and still sound.
LEMMA ExitsEffect ==
  ASSUME NEW g, Sound(g), NEW h \in Exits(g)
  PROVE  /\ h \in Generations /\ Continues(g, h) /\ g.closed /\ h.closing = g.closing
         /\ h.closing # None /\ h.closing \in Reasons
         /\ h.exit \in {"Clean", "Poisoned"}
         /\ h.exit = "Clean" => h.owned = {}
         /\ h.exit = "Poisoned" => Sound(h)
<1>1. g.closed /\ g.closing # None /\ g.closing \in Reasons
  BY DEF Exits, Sound, Generations
<1>2. CASE h = [Settle(g, g.owned) EXCEPT !.exit = "Clean"]
  BY <1>1, <1>2, SettleEffect DEF Sound, Generations, Continues, Settle
<1>3. ASSUME NEW ops \in SUBSET g.owned, h = [Settle(g, ops) EXCEPT !.exit = "Poisoned"]
      PROVE  Sound(h) /\ Continues(g, h) /\ h.closing = g.closing /\ h.exit = "Poisoned"
  <2>1. Sound(Settle(g, ops)) /\ Continues(g, Settle(g, ops))
        /\ Settle(g, ops).closing = g.closing /\ Settle(g, ops).closed = g.closed
    BY SettleEffect
  <2> QED
    BY <1>1, <1>3, <2>1, NoneAssumption DEF Sound, Generations, Continues
<1> QED
  BY <1>1, <1>2, <1>3 DEF Exits, Sound

\* begin_graceful_close starts a drain once and changes nothing else.
LEMMA GracefulEffect ==
  ASSUME NEW g, Sound(g), NEW r \in Reasons
  PROVE  LET h == BeginGracefulClose(g, r)
         IN  /\ Sound(h) /\ h.exit = g.exit /\ h.owned = g.owned /\ h.closed = g.closed
             /\ h.closing = g.closing /\ IsDraining(h)
             /\ IsDraining(g) => h = g
BY NoneAssumption DEF Sound, Generations, BeginGracefulClose, IsDraining

\* admit takes exactly one more operation into the connection.
LEMMA AdmitEffect ==
  ASSUME NEW g, Sound(g), NEW op \in Operations
  PROVE  LET h == Admit(g, op)
         IN  /\ Sound(h) /\ h.exit = g.exit /\ h.closed = g.closed /\ h.closing = g.closing
             /\ h.drain = g.drain /\ h.owned = g.owned \cup {op}
BY DEF Sound, Generations, Admit

-----------------------------------------------------------------------------
(* The supervisor.                                                         *)

Supervisors ==
  [running : BOOLEAN, faulted : BOOLEAN, source : Sources \cup {None},
   slot : Slots \cup {None}, next : 1..(GenerationSpace + 1)]

\* Slot, source and fault of one supervisor agree.  A connect under way has an
\* identity to use and no connection beside it.
Supervised(s) ==
  /\ s \in Supervisors
  /\ s.slot # None =>
       /\ Sound(s.slot.g) /\ s.slot.gen < s.next
       /\ s.faulted <=> s.slot.g.exit = "Poisoned"
  /\ s.faulted => s.source = None
  /\ s.source # None => s.running
  /\ ~Active /\ s.slot # None /\ s.source # None => ~s.source.listening
  /\ Active /\ s.source # None /\ s.source.trying => s.slot = None /\ s.next <= GenerationSpace

\* The last exit report agrees with supervisor s: it is clean, or about the
\* connection that still occupies the slot.
Accounted(s, report) ==
  /\ report # None =>
       /\ report.gen < s.next
       /\ ~report.clean => s.faulted /\ s.slot # None
  /\ s.faulted /\ s.slot # None =>
       report = [gen |-> s.slot.gen, reason |-> s.slot.g.closing, clean |-> FALSE]

\* A running endpoint that is not faulted has its source.
Sourced(s) == s.running /\ ~s.faulted => s.source # None

\* t is s after a while: only its connection went on.
Follows(s, t) ==
  /\ t.running = s.running /\ t.faulted = s.faulted /\ t.next = s.next
  /\ t.source = DropConnect(s.source)
  /\ s.slot = None <=> t.slot = None
  /\ s.slot # None =>
       /\ t.slot.gen = s.slot.gen /\ t.slot.g.exit = s.slot.g.exit
       /\ Continues(s.slot.g, t.slot.g)
       /\ s.faulted => t.slot = s.slot

\* What the connection source can be in either mode.
LEMMA SourcesType == Sources = IF Active THEN [wait : 0..T5, trying : BOOLEAN, tried : BOOLEAN]
                               ELSE [listening : BOOLEAN]
BY DEF Sources

\* Dropping a pending connect leaves a source of the same kind, not connecting.
LEMMA DropConnectEffect ==
  ASSUME NEW source \in Sources \cup {None}
  PROVE  /\ DropConnect(source) \in Sources \cup {None}
         /\ DropConnect(source) = None <=> source = None
         /\ Active /\ source # None => ~DropConnect(source).trying
         /\ ~Active => DropConnect(source) = source
<1>1. CASE source = None
  BY <1>1 DEF DropConnect
<1>2. CASE source # None /\ Active
  <2>1. source \in [wait : 0..T5, trying : BOOLEAN, tried : BOOLEAN]
    BY <1>2 DEF Sources
  <2>2. DropConnect(source) \in [wait : 0..T5, trying : BOOLEAN, tried : BOOLEAN]
        /\ ~DropConnect(source).trying
    <3>1. CASE source.trying
      <4>1. DropConnect(source) = [source EXCEPT !.wait = T5, !.trying = FALSE, !.tried = TRUE]
        BY <1>2, <3>1 DEF DropConnect
      <4>2. T5 \in 0..T5
        BY EndpointAssumption
      <4> QED
        BY <2>1, <4>1, <4>2
    <3>2. CASE ~source.trying
      BY <1>2, <2>1, <3>2 DEF DropConnect
    <3> QED
      BY <3>1, <3>2
  <2>3. DropConnect(source) \in Sources
    BY <1>2, <2>2 DEF Sources
  <2> QED
    BY <1>2, <2>2, <2>3, NoneAssumption
<1>3. CASE source # None /\ ~Active
  BY <1>3 DEF DropConnect
<1> QED
  BY <1>1, <1>2, <1>3

\* Replacing the connection of a slot changes no other field of the supervisor.
LEMMA SlotUpdate ==
  ASSUME NEW s \in Supervisors, s.slot # None, NEW h \in Generations
  PROVE  LET t == [s EXCEPT !.slot.g = h]
         IN  /\ t \in Supervisors /\ t.slot # None /\ t.slot.g = h /\ t.slot.gen = s.slot.gen
             /\ t.running = s.running /\ t.faulted = s.faulted /\ t.next = s.next
             /\ t.source = s.source
<1>1. s.slot \in Slots
  BY DEF Supervisors
<1>2. [s.slot EXCEPT !.g = h] \in Slots /\ [s.slot EXCEPT !.g = h].g = h
      /\ [s.slot EXCEPT !.g = h].gen = s.slot.gen
  BY <1>1 DEF Slots
<1>3. [s.slot EXCEPT !.g = h] # None
  BY <1>2, NoneAssumption
<1> QED
  BY <1>2, <1>3 DEF Supervisors

\* The connection goes on and keeps the state of its cleanup.
LEMMA SlotContinues ==
  ASSUME NEW s, Supervised(s), s.slot # None, NEW h, Sound(h), h.exit = s.slot.g.exit
  PROVE  Supervised([s EXCEPT !.slot.g = h])
<1>1. s \in Supervisors /\ h \in Generations
  BY DEF Supervised, Sound
<1> DEFINE t == [s EXCEPT !.slot.g = h]
<1>2. /\ t \in Supervisors /\ t.slot # None /\ t.slot.g = h /\ t.slot.gen = s.slot.gen
      /\ t.running = s.running /\ t.faulted = s.faulted /\ t.next = s.next
      /\ t.source = s.source
  BY <1>1, SlotUpdate
<1> HIDE DEF t
<1>3. Supervised(t)
  BY <1>2 DEF Supervised
<1> QED
  BY <1>3 DEF t

\* Serving the Driver before an input leaves a supervisor that follows the old one.
LEMMA AfterPriorityEffect ==
  ASSUME Supervised(supervisor), NEW s \in AfterPriority
  PROVE  Supervised(s) /\ Follows(supervisor, s)
<1> DEFINE d == [supervisor EXCEPT !.source = DropConnect(@)]
<1>1. supervisor.source \in Sources \cup {None}
  BY DEF Supervised, Supervisors
<1>2. d \in Supervisors /\ d.source = DropConnect(supervisor.source) /\ d.slot = supervisor.slot
      /\ d.running = supervisor.running /\ d.faulted = supervisor.faulted
      /\ d.next = supervisor.next
  BY <1>1, DropConnectEffect DEF Supervised, Supervisors
<1>3. Supervised(d)
  BY <1>1, <1>2, DropConnectEffect DEF Supervised
<1>4. supervisor.slot # None => Continues(supervisor.slot.g, supervisor.slot.g)
  BY DEF Continues
<1>5. CASE s = d
  BY <1>2, <1>3, <1>4, <1>5 DEF Follows
<1>6. ASSUME s # d
      PROVE  Supervised(s) /\ Follows(supervisor, s)
  <2>1. d.slot # None /\ s \in {[d EXCEPT !.slot.g = h] : h \in Rounds(d.slot.g)}
    BY <1>6 DEF AfterPriority
  <2>2. PICK h \in Rounds(d.slot.g) : s = [d EXCEPT !.slot.g = h]
    BY <2>1
  <2> HIDE DEF d
  <2>3. Sound(h) /\ Continues(d.slot.g, h) /\ h.exit = d.slot.g.exit /\ h.exit = None
    BY <1>3, <2>1, RoundsEffect DEF Supervised
  <2>4. /\ s \in Supervisors /\ s.slot # None /\ s.slot.g = h /\ s.slot.gen = d.slot.gen
        /\ s.running = d.running /\ s.faulted = d.faulted /\ s.next = d.next
        /\ s.source = d.source
    BY <1>2, <2>1, <2>2, <2>3, SlotUpdate DEF Sound
  <2>5. ~d.faulted
    BY <1>3, <2>1, <2>3, NoneAssumption DEF Supervised
  <2>6. Supervised(s)
    BY <1>3, <2>1, <2>2, <2>3, SlotContinues
  <2> QED
    BY <1>2, <2>1, <2>3, <2>4, <2>5, <2>6 DEF Follows
<1> QED
  BY <1>5, <1>6

\* begin_stop drops the source and starts the drain of the connection, if any.
LEMMA BeginStopEffect ==
  ASSUME NEW s, Supervised(s)
  PROVE  LET t == BeginStop(s)
         IN  /\ Supervised(t) /\ ~t.running /\ t.source = None /\ t.next = s.next
             /\ s.slot = None => t.slot = None /\ ~t.faulted
             /\ s.slot # None =>
                  /\ t.slot # None /\ t.slot.gen = s.slot.gen /\ t.faulted = s.faulted
                  /\ t.slot.g = BeginGracefulClose(s.slot.g, "LocalStop")
                  /\ t.slot.g.owned = s.slot.g.owned /\ t.slot.g.closing = s.slot.g.closing
                  /\ IsDraining(t.slot.g) /\ t.slot.g.closed = s.slot.g.closed
                  /\ s.faulted => t.slot = s.slot
<1> DEFINE t == BeginStop(s)
<1>1. CASE s.slot = None
  <2>1. t = [s EXCEPT !.running = FALSE, !.source = None, !.faulted = FALSE]
    BY <1>1 DEF BeginStop
  <2>2. t \in Supervisors /\ ~t.running /\ t.source = None /\ t.next = s.next
        /\ t.slot = None /\ ~t.faulted
    BY <1>1, <2>1 DEF Supervised, Supervisors
  <2> HIDE DEF t
  <2>3. Supervised(t)
    BY <2>2 DEF Supervised
  <2> QED
    BY <1>1, <2>2, <2>3 DEF t
<1>2. CASE s.slot # None
  <2> DEFINE h == BeginGracefulClose(s.slot.g, "LocalStop")
             r == [s EXCEPT !.running = FALSE, !.source = None]
  <2>1. t = [r EXCEPT !.slot.g = h]
    BY <1>2 DEF BeginStop, Supervised, Supervisors, Slots
  <2>2. r \in Supervisors /\ ~r.running /\ r.source = None /\ r.next = s.next
        /\ r.slot = s.slot /\ r.faulted = s.faulted
    BY DEF Supervised, Supervisors
  <2>3. Sound(h) /\ h.exit = s.slot.g.exit /\ h.owned = s.slot.g.owned
        /\ h.closed = s.slot.g.closed /\ h.closing = s.slot.g.closing /\ IsDraining(h)
        /\ (IsDraining(s.slot.g) => h = s.slot.g)
    BY <1>2, GracefulEffect DEF Supervised, Reasons
  <2> HIDE DEF h, r
  <2>4. Supervised(r)
    BY <2>2 DEF Supervised
  <2>5. /\ t \in Supervisors /\ t.slot # None /\ t.slot.g = h /\ t.slot.gen = r.slot.gen
        /\ t.running = r.running /\ t.faulted = r.faulted /\ t.next = r.next
        /\ t.source = r.source
    BY <1>2, <2>1, <2>2, <2>3, SlotUpdate DEF Sound
  <2>6. Supervised(t)
    BY <1>2, <2>1, <2>2, <2>3, <2>4, SlotContinues
  <2>7. s.faulted => t.slot = s.slot
    <3> SUFFICES ASSUME s.faulted PROVE t.slot = s.slot
      OBVIOUS
    <3>1. IsDraining(s.slot.g)
      BY <1>2, NoneAssumption DEF Supervised, Sound, IsDraining
    <3>2. t.slot \in Slots /\ s.slot \in Slots
      BY <1>2, <2>5 DEF Supervised, Supervisors
    <3> QED
      BY <2>2, <2>3, <2>5, <3>1, <3>2 DEF Slots
  <2> QED
    BY <1>2, <2>2, <2>3, <2>5, <2>6, <2>7 DEF t, h
<1> QED
  BY <1>1, <1>2

-----------------------------------------------------------------------------
(* The slot invariant.                                                     *)

\* T5 has been counted down no faster than it passed.
Separated ==
  Active /\ supervisor.source # None /\ supervisor.source.tried =>
    supervisor.source.wait + quiet >= T5

\* Everything but the supervisor has its type.
Typed ==
  /\ handles \in BOOLEAN /\ quitting \in BOOLEAN
  /\ calls \in [Operations -> Calls \cup {None}]
  /\ answers \in [Operations -> Results \cup {None}]
  /\ queue \in Seq(Operations)
  /\ pending \subseteq Operations
  /\ outbox \subseteq [op : Operations, result : {"Protocol", "Rejected"}]
  /\ wake \subseteq [op : Operations, result : Results]
  /\ lastExit \in ExitReports \cup {None}
  /\ pc \in {"publish", "deliver", "flush", "select", "ended"}
  /\ executed \in [Operations -> SUBSET (1..GenerationSpace)]
  /\ quiet \in 0..T5

\* What the loop owes.
Owed ==
  /\ pc = "ended" => supervisor.slot = None /\ supervisor.source = None
  /\ pc # "ended" => Accounted(supervisor, lastExit) /\ Sourced(supervisor)
  /\ pending # {} => supervisor.slot # None /\ ~supervisor.faulted
  /\ pc \in {"select", "ended"} => outbox = {} /\ wake = {}

SlotInv == Typed /\ Supervised(supervisor) /\ Owed /\ Separated

\* The snapshot keeps its shape.
Pictured ==
  snapshot \in [desired : {"Running", "Stopped"},
                phase : {"Faulted", "Draining", "Running", "StoppedClean"},
                slot : [kind : {"None", "Open", "Draining"}, gen : 0..GenerationSpace],
                exit : ExitReports \cup {None}]

\* TypeOK is the part of the invariant that every action is proved to keep.
LEMMA TypesAreTyped == TypeOK <=> Typed /\ supervisor \in Supervisors
BY DEF TypeOK, Typed, Supervisors

\* The results of a generation that went on name operations it owned.
LEMMA SettledType ==
  ASSUME NEW g, Sound(g), NEW h
  PROVE  Settled(g, h) \subseteq [op : Operations, result : {"Protocol", "Rejected"}]
BY DEF Settled, Sound, Generations

\* HsmsRuntime::new establishes the slot invariant.
LEMMA InitSlot == Init => SlotInv
<1> SUFFICES ASSUME Init PROVE SlotInv
  OBVIOUS
<1>1. Typed
  <2>1. T5 \in 0..T5 /\ <<>> \in Seq(Operations)
    BY EndpointAssumption
  <2> QED
    BY <2>1 DEF Init, Typed
<1>2. supervisor \in Supervisors
  BY EndpointAssumption DEF Init, Supervisors
<1> QED
  BY <1>1, <1>2, EndpointAssumption DEF Init, SlotInv, Supervised, Owed, Accounted, Sourced, Separated

\* Capture keeps the slot invariant: types, supervisor, what is owed, attempts separated.
LEMMA CaptureSlot ==
  ASSUME SlotInv, Pictured, NEW op \in Operations, NEW intent \in Intents, Capture(op, intent)
  PROVE  SlotInv'
<1>1. [intent |-> intent, gen |-> snapshot.slot.gen, sent |-> FALSE] \in Calls
  BY DEF Pictured, Calls
<1>2. CaptureError(intent) \in Results \cup {None}
  BY DEF CaptureError, Results
<1>3. Typed'
  BY <1>1, <1>2 DEF SlotInv, Typed, Capture, Answer, HandleLeaves
<1>4. UNCHANGED <<supervisor, lastExit, pc, pending, outbox, wake, quiet>>
  BY DEF Capture, HandleLeaves
<1> QED
  BY <1>3, <1>4 DEF SlotInv, Supervised, Owed, Accounted, Sourced, Separated

\* Send keeps the slot invariant: types, supervisor, what is owed, attempts separated.
LEMMA SendSlot ==
  ASSUME SlotInv, NEW op \in Operations, Send(op)
  PROVE  SlotInv'
<1>1. calls[op] \in Calls
  BY DEF SlotInv, Typed, Send
<1>2. [calls EXCEPT ![op].sent = TRUE] \in [Operations -> Calls \cup {None}]
  BY <1>1 DEF SlotInv, Typed, Calls
<1>3. UNCHANGED <<supervisor, lastExit, pc, pending, outbox, wake, quiet, handles, quitting, executed>>
  BY DEF Send, HandleLeaves
<1>4. Typed'
  <2>1. answers' \in [Operations -> Results \cup {None}]
    BY DEF SlotInv, Typed, Send, Answer, Results
  <2>2. queue' \in Seq(Operations)
    BY DEF SlotInv, Typed, Send
  <2>3. calls' \in [Operations -> Calls \cup {None}]
    BY <1>2 DEF SlotInv, Typed, Send
  <2> QED
    BY <1>3, <2>1, <2>2, <2>3 DEF SlotInv, Typed
<1> QED
  BY <1>3, <1>4 DEF SlotInv, Supervised, Owed, Accounted, Sourced, Separated

\* DropHandles keeps the slot invariant: types, supervisor, what is owed, attempts separated.
LEMMA DropHandlesSlot ==
  ASSUME SlotInv, DropHandles
  PROVE  SlotInv'
BY DEF DropHandles, SlotInv, Typed, Supervised, Owed, Accounted, Sourced, Separated

\* Flush keeps the slot invariant: types, supervisor, what is owed, attempts separated.
LEMMA FlushSlot ==
  ASSUME SlotInv, Flush
  PROVE  SlotInv'
<1>1. \A c \in outbox \cup wake : c.result \in Results
  BY DEF SlotInv, Typed, Results
<1>2. answers' \in [Operations -> Results \cup {None}]
  BY <1>1 DEF SlotInv, Typed, Flush
<1> QED
  BY <1>2 DEF Flush, SlotInv, Typed, Supervised, Owed, Accounted, Sourced, Separated

\* A loop step that drops the connect future counts T5 anew.
LEMMA AttemptEndedSeparates ==
  ASSUME SlotInv, AttemptEnded, supervisor'.source \in {None, DropConnect(supervisor.source)}
  PROVE  Separated' /\ quiet' \in 0..T5
<1>1. quiet' \in 0..T5
  BY EndpointAssumption DEF SlotInv, Typed, AttemptEnded
<1>2. ASSUME Active, supervisor'.source # None
      PROVE  supervisor'.source.wait + quiet' >= T5 \/ ~supervisor'.source.tried
  <2>1. supervisor.source \in [wait : 0..T5, trying : BOOLEAN, tried : BOOLEAN]
    BY <1>2, DropConnectEffect DEF SlotInv, Supervised, Supervisors, Sources, DropConnect
  <2>2. supervisor.source # None
    BY <1>2 DEF DropConnect
  <2>3. CASE supervisor.source.trying
    <3>1. supervisor'.source =
            [supervisor.source EXCEPT !.wait = T5, !.trying = FALSE, !.tried = TRUE]
      BY <1>2, <2>2, <2>3 DEF DropConnect
    <3>2. quiet' = 0
      BY <1>2, <2>2, <2>3 DEF AttemptEnded
    <3> QED
      BY <2>1, <3>1, <3>2, EndpointAssumption
  <2>4. CASE ~supervisor.source.trying
    <3>1. supervisor'.source = supervisor.source /\ quiet' = quiet
      BY <1>2, <2>2, <2>4 DEF DropConnect, AttemptEnded
    <3> QED
      BY <1>2, <2>2, <3>1 DEF SlotInv, Separated
  <2> QED
    BY <2>3, <2>4
<1> QED
  BY <1>1, <1>2 DEF Separated

\* A supervisor that follows another agrees with the same exit report.
LEMMA FollowsAccounted ==
  ASSUME NEW s, Supervised(s), NEW t, Supervised(t), Follows(s, t), NEW report,
         Accounted(s, report)
  PROVE  Accounted(t, report) /\ (Sourced(s) => Sourced(t))
<1>1. Accounted(t, report)
  BY DEF Follows, Accounted
<1>2. DropConnect(s.source) = None <=> s.source = None
  BY DropConnectEffect DEF Supervised, Supervisors
<1> QED
  BY <1>1, <1>2 DEF Follows, Sourced

\* What processing the generation's priorities produced.
LEMMA PriorityType ==
  ASSUME SlotInv, NEW s \in AfterPriority
  PROVE  PriorityResults(s) \subseteq [op : Operations, result : {"Protocol", "Rejected"}]
<1>1. Supervised(s) /\ Follows(supervisor, s)
  BY AfterPriorityEffect DEF SlotInv
<1>2. CASE s.slot = None
  BY <1>2 DEF PriorityResults
<1>3. CASE s.slot # None
  <2>1. Sound(supervisor.slot.g)
    BY <1>1, <1>3 DEF SlotInv, Supervised, Follows
  <2>2. PriorityResults(s) = Settled(supervisor.slot.g, s.slot.g)
    BY <1>3 DEF PriorityResults
  <2> QED
    BY <2>1, <2>2, SettledType
<1> QED
  BY <1>2, <1>3

\* The head of the command channel is a call of the right shape.
LEMMA ReceivedType ==
  ASSUME SlotInv, NEW op \in Operations, NEW intents, Received(op, intents)
  PROVE  /\ queue # <<>> /\ queue' \in Seq(Operations)
         /\ pc = "select" /\ pc' \in {"publish", "deliver"}
         /\ UNCHANGED <<quitting, handles, calls, snapshot>> /\ AttemptEnded
         /\ outbox = {} /\ wake = {}
<1>1. queue # <<>> /\ queue' = Tail(queue) /\ pc = "select"
  BY DEF Received, Listening, Waiting
<1>2. queue' \in Seq(Operations)
  BY <1>1 DEF SlotInv, Typed
<1> QED
  BY <1>1, <1>2 DEF Received, LoopLeaves, SlotInv, Owed

\* ReceiveRouted keeps the slot invariant: types, supervisor, what is owed, attempts separated.
LEMMA ReceiveRoutedSlot ==
  ASSUME SlotInv, NEW op \in Operations, ReceiveRouted(op)
  PROVE  SlotInv'
<1>1. PICK s \in AfterPriority :
       \/ /\ RouteError(s, op) # None
          /\ supervisor' = s
          /\ outbox' = outbox \cup PriorityResults(s)
          /\ Answer(op, RouteError(s, op))
          /\ UNCHANGED executed
       \/ /\ RouteError(s, op) = None
          /\ supervisor' = s
          /\ outbox' = outbox \cup PriorityResults(s) \cup {[op |-> op, result |-> "Rejected"]}
          /\ UNCHANGED <<answers, executed>>
       \/ /\ RouteError(s, op) = None /\ MayAdmit(s.slot.g, calls[op].intent = "Reply")
          /\ supervisor' = [s EXCEPT !.slot.g = Admit(@, op)]
          /\ outbox' = outbox \cup PriorityResults(s)
          /\ executed' = [executed EXCEPT ![op] = @ \cup {s.slot.gen}]
          /\ UNCHANGED answers
  BY DEF ReceiveRouted
<1>2. Received(op, {"Reply", "Data", "Control"}) /\ UNCHANGED <<pending, wake, lastExit>>
  BY DEF ReceiveRouted
<1>3. Supervised(s) /\ Follows(supervisor, s)
  BY AfterPriorityEffect DEF SlotInv
<1>4. Accounted(s, lastExit) /\ Sourced(s)
  BY <1>2, <1>3, FollowsAccounted, ReceivedType DEF SlotInv, Owed
<1>5. outbox' \subseteq [op : Operations, result : {"Protocol", "Rejected"}]
  BY <1>1, PriorityType DEF SlotInv, Typed
<1>6. RouteError(s, op) \in Results \cup {None}
  BY DEF RouteError, Results
<1>7. /\ Supervised(supervisor') /\ Accounted(supervisor', lastExit) /\ Sourced(supervisor')
      /\ supervisor'.source = s.source /\ supervisor'.faulted = s.faulted
      /\ supervisor'.slot = None <=> s.slot = None
      /\ executed' \in [Operations -> SUBSET (1..GenerationSpace)]
  <2>1. CASE supervisor' = s /\ UNCHANGED executed
    BY <1>3, <1>4, <2>1 DEF SlotInv, Typed
  <2>2. CASE /\ RouteError(s, op) = None
             /\ supervisor' = [s EXCEPT !.slot.g = Admit(@, op)]
             /\ executed' = [executed EXCEPT ![op] = @ \cup {s.slot.gen}]
    <3>1. s.slot # None /\ ~s.faulted /\ s \in Supervisors /\ s.slot \in Slots
      BY <1>3, <2>2, NoneAssumption DEF RouteError, Supervised, Supervisors, Results
    <3> DEFINE h == Admit(s.slot.g, op)
    <3>2. supervisor' = [s EXCEPT !.slot.g = h]
      BY <2>2, <3>1 DEF Supervisors, Slots
    <3>3. Sound(h) /\ h.exit = s.slot.g.exit
      BY <1>3, <3>1, AdmitEffect DEF Supervised
    <3> HIDE DEF h
    <3>4. Supervised(supervisor')
      BY <1>3, <3>1, <3>2, <3>3, SlotContinues
    <3>5. /\ supervisor'.slot # None /\ supervisor'.slot.gen = s.slot.gen
          /\ supervisor'.running = s.running /\ supervisor'.faulted = s.faulted
          /\ supervisor'.next = s.next /\ supervisor'.source = s.source
      BY <3>1, <3>2, <3>3, SlotUpdate DEF Sound
    <3>6. executed' \in [Operations -> SUBSET (1..GenerationSpace)]
      BY <2>2, <3>1 DEF SlotInv, Typed, Slots
    <3> QED
      BY <1>4, <3>1, <3>4, <3>5, <3>6 DEF Accounted, Sourced
  <2> QED
    BY <1>1, <2>1, <2>2
<1>8. answers' \in [Operations -> Results \cup {None}]
  BY <1>1, <1>6 DEF SlotInv, Typed, Answer
<1>9. Separated' /\ quiet' \in 0..T5
  BY <1>2, <1>3, <1>7, AttemptEndedSeparates, ReceivedType DEF Follows
<1>10. Typed'
  BY <1>2, <1>5, <1>7, <1>8, <1>9, ReceivedType DEF SlotInv, Typed
<1>11. Owed'
  BY <1>2, <1>3, <1>7, ReceivedType DEF SlotInv, Owed, Follows
<1> QED
  BY <1>7, <1>9, <1>10, <1>11 DEF SlotInv

\* A source that is kept or dropped while no time passes stays separated.
LEMMA SourceKept ==
  ASSUME SlotInv, UNCHANGED quiet, supervisor'.source \in {None, supervisor.source}
  PROVE  Separated'
BY DEF SlotInv, Separated

\* An exit that is clean frees the slot, one that is not latches the fault.
LEMMA ReleasedEffect ==
  ASSUME NEW s, Supervised(s), s.slot # None, ~s.faulted, NEW h \in Exits(s.slot.g)
  PROVE  LET t == Released(s, h)
         IN  /\ Supervised(t) /\ Accounted(t, Exit(s, h)) /\ Exit(s, h) \in ExitReports
             /\ t.source \in {None, s.source} /\ (Sourced(s) => Sourced(t))
             /\ t.running = s.running /\ t.next = s.next
             /\ h.exit = "Clean" => t.slot = None
             /\ h.exit = "Clean" => (t.faulted <=> s.running /\ ~Recoverable(h.closing))
             /\ h.exit # "Clean" => /\ t.slot # None /\ t.slot.g = h /\ t.slot.gen = s.slot.gen
                                    /\ t.faulted
<1> DEFINE t == Released(s, h)
<1>1. s \in Supervisors /\ s.slot \in Slots
  BY DEF Supervised, Supervisors
<1>2. /\ h \in Generations /\ h.closing \in Reasons /\ h.exit \in {"Clean", "Poisoned"}
      /\ h.exit # "Clean" => Sound(h)
  BY ExitsEffect DEF Supervised
<1>3. Exit(s, h) \in ExitReports
  BY <1>1, <1>2 DEF Exit, ExitReports, Slots
<1>4. CASE h.exit # "Clean"
  <2> DEFINE r == [s EXCEPT !.slot.g = h]
  <2>1. /\ r \in Supervisors /\ r.slot # None /\ r.slot.g = h /\ r.slot.gen = s.slot.gen
        /\ r.running = s.running /\ r.next = s.next
    BY <1>1, <1>2, SlotUpdate
  <2>2. t = [r EXCEPT !.faulted = TRUE, !.source = None]
    BY <1>4 DEF Released, FaultSource
  <2> HIDE DEF r
  <2>3. /\ t \in Supervisors /\ t.slot = r.slot /\ t.faulted /\ t.source = None
        /\ t.running = s.running /\ t.next = s.next
    BY <2>1, <2>2 DEF Supervisors
  <2> HIDE DEF t
  <2>4. Supervised(t)
    BY <1>2, <1>4, <2>1, <2>3 DEF Supervised
  <2>5. Accounted(t, Exit(s, h))
    BY <1>2, <1>4, <2>1, <2>3 DEF Accounted, Exit, Supervised
  <2> QED
    BY <1>3, <1>4, <2>1, <2>3, <2>4, <2>5 DEF t, Sourced
<1>5. CASE h.exit = "Clean"
  <2>1. /\ t \in Supervisors /\ t.slot = None /\ t.running = s.running /\ t.next = s.next
        /\ t.faulted <=> s.running /\ ~Recoverable(h.closing)
        /\ t.source = IF s.running /\ ~Recoverable(h.closing) THEN None ELSE s.source
    <3>1. CASE s.running /\ ~Recoverable(h.closing)
      BY <1>1, <1>5, <3>1 DEF Released, FaultSource, Supervisors
    <3>2. CASE ~(s.running /\ ~Recoverable(h.closing))
      BY <1>1, <1>5, <3>2 DEF Released, FaultSource, Supervisors
    <3> QED
      BY <3>1, <3>2
  <2> HIDE DEF t
  <2>2. Supervised(t)
    BY <2>1 DEF Supervised
  <2>3. Accounted(t, Exit(s, h))
    BY <1>5, <2>1 DEF Accounted, Exit, Supervised
  <2> QED
    BY <1>3, <1>5, <2>1, <2>2, <2>3 DEF t, Sourced
<1> QED
  BY <1>4, <1>5

\* FinishGeneration keeps the slot invariant: types, supervisor, what is owed, attempts separated.
LEMMA FinishGenerationSlot ==
  ASSUME SlotInv, FinishGeneration
  PROVE  SlotInv'
<1>1. supervisor.slot # None /\ ~supervisor.faulted /\ pc = "select" /\ pc' = "publish"
      /\ outbox = {} /\ UNCHANGED <<handles, calls, queue, answers, quitting, executed, quiet>>
      /\ pending' = {}
  BY DEF FinishGeneration, SlotClosed, LoopLeaves, SlotInv, Owed
<1>2. PICK h \in Exits(supervisor.slot.g) :
       /\ supervisor' = Released(supervisor, h)
       /\ lastExit' = Exit(supervisor, h)
       /\ outbox' = outbox \cup Settled(supervisor.slot.g, h)
       /\ wake' = {[op |-> op, result |-> IF h.exit = "Clean" THEN "Closed" ELSE "CleanupUnproven"] :
                     op \in pending}
  BY DEF FinishGeneration
<1>3. /\ Supervised(supervisor') /\ Accounted(supervisor', lastExit') /\ lastExit' \in ExitReports
      /\ supervisor'.source \in {None, supervisor.source} /\ Sourced(supervisor')
  BY <1>1, <1>2, ReleasedEffect DEF SlotInv, Owed
<1>4. outbox' \subseteq [op : Operations, result : {"Protocol", "Rejected"}]
  BY <1>1, <1>2, SettledType DEF SlotInv, Supervised
<1>5. wake' \subseteq [op : Operations, result : Results]
  BY <1>2 DEF SlotInv, Typed, Results
<1>6. Typed'
  BY <1>1, <1>3, <1>4, <1>5 DEF SlotInv, Typed
<1>7. Separated'
  BY <1>1, <1>3, SourceKept
<1> QED
  BY <1>1, <1>3, <1>6, <1>7 DEF SlotInv, Owed

\* StepCurrent keeps the slot invariant: types, supervisor, what is owed, attempts separated.
LEMMA StepCurrentSlot ==
  ASSUME SlotInv, StepCurrent
  PROVE  SlotInv'
<1>1. supervisor.slot # None /\ ~supervisor.faulted /\ pc = "select" /\ pc' = "deliver"
      /\ UNCHANGED <<handles, calls, queue, answers, pending, wake, quitting, lastExit, executed,
                     quiet>>
  BY DEF StepCurrent, Waiting, LoopLeaves
<1>2. PICK h \in Rounds(supervisor.slot.g) :
       /\ supervisor' = [supervisor EXCEPT !.slot.g = h]
       /\ outbox' = outbox \cup Settled(supervisor.slot.g, h)
  BY DEF StepCurrent
<1>3. Sound(h) /\ h.exit = supervisor.slot.g.exit
  BY <1>1, RoundsEffect DEF SlotInv, Supervised
<1>4. Supervised(supervisor')
  BY <1>1, <1>2, <1>3, SlotContinues DEF SlotInv
<1>5. /\ supervisor'.slot # None /\ supervisor'.slot.gen = supervisor.slot.gen
      /\ supervisor'.running = supervisor.running /\ supervisor'.faulted = supervisor.faulted
      /\ supervisor'.next = supervisor.next /\ supervisor'.source = supervisor.source
  BY <1>1, <1>2, <1>3, SlotUpdate DEF Sound, SlotInv, Supervised
<1>6. outbox' \subseteq [op : Operations, result : {"Protocol", "Rejected"}]
  BY <1>1, <1>2, SettledType DEF SlotInv, Supervised, Typed
<1>7. Typed'
  BY <1>1, <1>6 DEF SlotInv, Typed
<1>8. Separated'
  BY <1>1, <1>5, SourceKept
<1>9. Accounted(supervisor', lastExit') /\ Sourced(supervisor')
  BY <1>1, <1>5 DEF SlotInv, Owed, Accounted, Sourced
<1> QED
  BY <1>1, <1>4, <1>5, <1>7, <1>8, <1>9 DEF SlotInv, Owed

\* The supervisor after a publication, whose deliveries may close the connection.
LEMMA PublishEffect ==
  ASSUME Supervised(supervisor), Publish
  PROVE  /\ Supervised(supervisor')
         /\ supervisor'.running = supervisor.running /\ supervisor'.next = supervisor.next
         /\ supervisor'.faulted = supervisor.faulted /\ supervisor'.source = supervisor.source
         /\ supervisor.slot = None => supervisor' = supervisor /\ outbox' = outbox
         /\ supervisor.slot # None =>
              /\ supervisor'.slot # None /\ supervisor'.slot.gen = supervisor.slot.gen
              /\ Continues(supervisor.slot.g, supervisor'.slot.g)
              /\ supervisor'.slot.g.exit = supervisor.slot.g.exit
              /\ outbox' = outbox \cup Settled(supervisor.slot.g, supervisor'.slot.g)
         /\ pc = "publish" => supervisor' = supervisor
         /\ supervisor' = supervisor \/ IsDraining(supervisor'.slot.g)
         /\ snapshot' = Coherent(supervisor')
<1>1. PICK g \in IF supervisor.slot = None THEN {None}
              ELSE {supervisor.slot.g}
                   \cup (IF pc = "deliver"
                         THEN ForcedCloses(supervisor.slot.g, "ApplicationBackpressure")
                         ELSE {}) :
           /\ supervisor' = IF g = None THEN supervisor ELSE [supervisor EXCEPT !.slot.g = g]
           /\ snapshot' = Coherent(IF g = None THEN supervisor
                                   ELSE [supervisor EXCEPT !.slot.g = g])
           /\ outbox' = IF g = None THEN outbox ELSE outbox \cup Settled(supervisor.slot.g, g)
  BY DEF Publish
<1>2. snapshot' = Coherent(supervisor')
  BY <1>1
<1>3. CASE supervisor.slot = None
  BY <1>1, <1>2, <1>3
<1>4. CASE supervisor.slot # None
  <2>1. supervisor \in Supervisors /\ supervisor.slot \in Slots /\ Sound(supervisor.slot.g)
        /\ supervisor.slot.g \in Generations
    BY <1>4 DEF Supervised, Supervisors, Sound
  <2>2. \/ g = supervisor.slot.g
        \/ pc = "deliver" /\ g \in ForcedCloses(supervisor.slot.g, "ApplicationBackpressure")
    BY <1>1, <1>4
  <2>3. Sound(g) /\ Continues(supervisor.slot.g, g) /\ g.exit = supervisor.slot.g.exit
        /\ (g = supervisor.slot.g \/ (pc = "deliver" /\ g.closed))
    <3>1. CASE g = supervisor.slot.g
      BY <2>1, <3>1 DEF Continues
    <3>2. CASE pc = "deliver" /\ g \in ForcedCloses(supervisor.slot.g, "ApplicationBackpressure")
      BY <2>1, <3>2, ForcedClosesEffect DEF Reasons
    <3> QED
      BY <2>2, <3>1, <3>2
  <2>4. g # None
    BY <2>3, NoneAssumption DEF Sound
  <2>5. supervisor' = [supervisor EXCEPT !.slot.g = g]
        /\ outbox' = outbox \cup Settled(supervisor.slot.g, g)
    BY <1>1, <2>4
  <2>6. Supervised(supervisor')
    BY <1>4, <2>3, <2>5, SlotContinues
  <2>7. /\ supervisor'.slot # None /\ supervisor'.slot.gen = supervisor.slot.gen
        /\ supervisor'.slot.g = g
        /\ supervisor'.running = supervisor.running /\ supervisor'.faulted = supervisor.faulted
        /\ supervisor'.next = supervisor.next /\ supervisor'.source = supervisor.source
    BY <1>4, <2>1, <2>3, <2>5, SlotUpdate DEF Sound
  <2>8. g = supervisor.slot.g => supervisor' = supervisor
    BY <2>1, <2>5 DEF Supervisors, Slots
  <2>9. supervisor' = supervisor \/ (pc = "deliver" /\ IsDraining(supervisor'.slot.g))
    BY <2>3, <2>7, <2>8 DEF Sound, IsDraining
  <2> QED
    BY <1>2, <1>4, <2>3, <2>5, <2>6, <2>7, <2>9
<1> QED
  BY <1>3, <1>4

\* Publish keeps the slot invariant: types, supervisor, what is owed, attempts separated.
LEMMA PublishSlot ==
  ASSUME SlotInv, Publish
  PROVE  SlotInv'
<1>1. pc \in {"publish", "deliver"} /\ pc' = "flush"
      /\ UNCHANGED <<handles, calls, queue, answers, pending, wake, quitting, lastExit, executed,
                     quiet>>
  BY DEF Publish
<1>2. outbox' \subseteq [op : Operations, result : {"Protocol", "Rejected"}]
  BY PublishEffect, SettledType DEF SlotInv, Typed, Supervised
<1>3. Typed'
  BY <1>1, <1>2 DEF SlotInv, Typed
<1>4. Separated'
  BY <1>1, PublishEffect, SourceKept DEF SlotInv
<1>5. Accounted(supervisor', lastExit') /\ Sourced(supervisor')
  <2>1. supervisor.slot # None /\ supervisor.faulted => supervisor'.slot.g.closing = supervisor.slot.g.closing
    BY PublishEffect, NoneAssumption DEF SlotInv, Supervised, Sound, Continues
  <2> QED
    BY <1>1, <2>1, PublishEffect DEF SlotInv, Owed, Accounted, Sourced
<1> QED
  BY <1>1, <1>3, <1>4, <1>5, PublishEffect DEF SlotInv, Owed

\* What a received command leaves as it was, put together.
LEMMA ReceiveKeeps ==
  ASSUME SlotInv, AttemptEnded, pc = "select", pc' \in {"publish", "deliver"},
         UNCHANGED <<handles, calls>>, quitting' \in BOOLEAN,
         queue' \in Seq(Operations), answers' \in [Operations -> Results \cup {None}],
         outbox' \subseteq [op : Operations, result : {"Protocol", "Rejected"}],
         wake' \subseteq [op : Operations, result : Results],
         pending' \subseteq Operations, lastExit' \in ExitReports \cup {None},
         executed' \in [Operations -> SUBSET (1..GenerationSpace)],
         Supervised(supervisor'), Accounted(supervisor', lastExit'), Sourced(supervisor'),
         \/ supervisor'.source \in {None, DropConnect(supervisor.source)}
         \/ Active => ~supervisor'.source.tried,
         pending' # {} => supervisor'.slot # None /\ ~supervisor'.faulted
  PROVE  SlotInv'
<1>1. Separated' /\ quiet' \in 0..T5
  <2>1. CASE supervisor'.source \in {None, DropConnect(supervisor.source)}
    BY <2>1, AttemptEndedSeparates
  <2>2. CASE Active => ~supervisor'.source.tried
    BY <2>2, EndpointAssumption DEF SlotInv, Typed, AttemptEnded, Separated
  <2> QED
    BY <2>1, <2>2
<1>2. Typed'
  BY <1>1 DEF SlotInv, Typed
<1> QED
  BY <1>1, <1>2 DEF SlotInv, Owed

\* ReceiveStart keeps the slot invariant: types, supervisor, what is owed, attempts separated.
LEMMA ReceiveStartSlot ==
  ASSUME SlotInv, NEW op \in Operations, ReceiveStart(op)
  PROVE  SlotInv'
<1>1. PICK s \in AfterPriority :
       /\ outbox' = outbox \cup PriorityResults(s)
       /\ \/ /\ StartError(s) # None \/ s.running
             /\ supervisor' = s
             /\ wake' = {[op |-> op, result |-> IF StartError(s) # None THEN StartError(s)
                                                ELSE "Started"]}
          \/ /\ StartError(s) = None /\ ~s.running
             /\ supervisor' = [s EXCEPT !.running = TRUE,
                                        !.source = IF Active THEN ActiveSource ELSE PassiveSource]
             /\ wake' = {[op |-> op, result |-> "Started"]}
          \/ /\ StartError(s) = None /\ ~s.running /\ ~Active
             /\ supervisor' = s
             /\ wake' = {[op |-> op, result |-> "Io"]}
  BY DEF ReceiveStart
<1>2. Received(op, {"Start"}) /\ UNCHANGED <<answers, pending, lastExit, executed>>
  BY DEF ReceiveStart
<1>3. Supervised(s) /\ Follows(supervisor, s) /\ Accounted(s, lastExit) /\ Sourced(s)
  BY <1>2, AfterPriorityEffect, FollowsAccounted, ReceivedType DEF SlotInv, Owed
<1>4. outbox' \subseteq [op : Operations, result : {"Protocol", "Rejected"}]
  BY <1>1, PriorityType DEF SlotInv, Typed
<1>5. wake' \subseteq [op : Operations, result : Results]
  <2>1. StartError(s) \in Results \cup {None}
    BY DEF StartError, Results
  <2> QED
    BY <1>1, <2>1 DEF Results
<1>6. CASE supervisor' = s
  BY <1>2, <1>3, <1>4, <1>5, <1>6, ReceivedType, ReceiveKeeps DEF SlotInv, Typed, Owed, Follows
<1>7. CASE /\ StartError(s) = None /\ ~s.running
           /\ supervisor' = [s EXCEPT !.running = TRUE,
                                      !.source = IF Active THEN ActiveSource ELSE PassiveSource]
  <2> DEFINE fresh == IF Active THEN ActiveSource ELSE PassiveSource
  <2>1. fresh \in Sources /\ (Active => ~fresh.tried /\ ~fresh.trying)
    <3>1. CASE Active
      BY <3>1, EndpointAssumption DEF ActiveSource, Sources
    <3>2. CASE ~Active
      BY <3>2 DEF PassiveSource, Sources
    <3> QED
      BY <3>1, <3>2
  <2> HIDE DEF fresh
  <2>2. supervisor' = [s EXCEPT !.running = TRUE, !.source = fresh]
    BY <1>7 DEF fresh
  <2>3. /\ supervisor' \in Supervisors /\ supervisor'.running /\ supervisor'.source = fresh
        /\ supervisor'.slot = s.slot /\ supervisor'.faulted = s.faulted
        /\ supervisor'.next = s.next
    BY <1>3, <2>1, <2>2 DEF Supervised, Supervisors
  <2>4. pending = {} /\ ~s.faulted /\ s.slot = None
    BY <1>7, NoneAssumption DEF StartError, Results
  <2>5. Supervised(supervisor')
    BY <1>3, <2>1, <2>3, <2>4 DEF Supervised
  <2>6. Accounted(supervisor', lastExit) /\ Sourced(supervisor')
    BY <1>3, <2>1, <2>3, <2>4, NoneAssumption DEF Accounted, Sourced
  <2> QED
    BY <1>2, <1>4, <1>5, <2>1, <2>3, <2>4, <2>5, <2>6, ReceivedType, ReceiveKeeps
    DEF SlotInv, Typed
<1> QED
  BY <1>1, <1>6, <1>7

\* A Stop of a faulted connection tries its cleanup again.
LEMMA RecoveredEffect ==
  ASSUME NEW s, Supervised(s), s.slot # None, s.faulted, NEW h \in Exits(BeginStop(s).slot.g),
         NEW t, t = IF h.exit = "Clean" THEN [BeginStop(s) EXCEPT !.slot = None, !.faulted = FALSE]
                    ELSE [BeginStop(s) EXCEPT !.slot.g = h]
  PROVE  /\ Supervised(t) /\ Accounted(t, Exit(s, h)) /\ Exit(s, h) \in ExitReports
         /\ t.source = None /\ ~t.running /\ t.next = s.next /\ h \in Exits(s.slot.g)
         /\ h.exit = "Clean" => t.slot = None /\ ~t.faulted
         /\ h.exit # "Clean" => /\ t.slot # None /\ t.slot.g = h /\ t.slot.gen = s.slot.gen
                                /\ t.faulted
<1> DEFINE r == BeginStop(s)
<1>1. /\ Supervised(r) /\ ~r.running /\ r.source = None /\ r.next = s.next
      /\ r.slot = s.slot /\ r.faulted
  BY BeginStopEffect
<1> HIDE DEF r
<1>2. h \in Exits(s.slot.g)
  BY <1>1 DEF r
<1>3. /\ h \in Generations /\ h.closing \in Reasons /\ h.exit \in {"Clean", "Poisoned"}
      /\ h.exit # "Clean" => Sound(h)
  BY <1>2, ExitsEffect DEF Supervised
<1>4. s \in Supervisors /\ s.slot \in Slots /\ r \in Supervisors /\ s.slot.gen < s.next
  BY <1>1 DEF Supervised, Supervisors
<1>5. Exit(s, h) \in ExitReports
  BY <1>3, <1>4 DEF Exit, ExitReports, Slots
<1>6. CASE h.exit = "Clean"
  <2>1. t = [r EXCEPT !.slot = None, !.faulted = FALSE]
    BY <1>6 DEF r
  <2>2. t \in Supervisors /\ t.slot = None /\ ~t.faulted /\ ~t.running /\ t.source = None
        /\ t.next = s.next
    BY <1>1, <1>4, <2>1 DEF Supervisors
  <2>3. Supervised(t)
    BY <2>2 DEF Supervised
  <2>4. Accounted(t, Exit(s, h))
    BY <1>4, <1>6, <2>2 DEF Accounted, Exit
  <2> QED
    BY <1>2, <1>5, <1>6, <2>2, <2>3, <2>4
<1>7. CASE h.exit # "Clean"
  <2>1. t = [r EXCEPT !.slot.g = h]
    BY <1>7 DEF r
  <2>2. /\ t \in Supervisors /\ t.slot # None /\ t.slot.g = h /\ t.slot.gen = s.slot.gen
        /\ ~t.running /\ t.faulted /\ t.next = s.next /\ t.source = None
    <3>1. r.slot # None
      BY <1>1
    <3>2. /\ t \in Supervisors /\ t.slot # None /\ t.slot.g = h /\ t.slot.gen = r.slot.gen
          /\ t.running = r.running /\ t.faulted = r.faulted /\ t.next = r.next
          /\ t.source = r.source
      BY ONLY <1>3, <1>4, <2>1, <3>1, SlotUpdate
    <3> QED
      BY <1>1, <3>2
  <2>3. Supervised(t)
    BY <1>3, <1>4, <1>7, <2>2 DEF Supervised
  <2>4. Accounted(t, Exit(s, h))
    BY <1>4, <1>7, <2>2 DEF Accounted, Exit
  <2> QED
    BY <1>2, <1>5, <1>7, <2>2, <2>3, <2>4
<1> QED
  BY <1>6, <1>7

\* A Stop that began leaves the books right.
LEMMA BeginStopAccounted ==
  ASSUME NEW s, Supervised(s), NEW report, Accounted(s, report)
  PROVE  Accounted(BeginStop(s), report) /\ Sourced(BeginStop(s))
BY BeginStopEffect DEF Accounted, Sourced

\* ReceiveStop keeps the slot invariant: types, supervisor, what is owed, attempts separated.
LEMMA ReceiveStopSlot ==
  ASSUME SlotInv, NEW op \in Operations, ReceiveStop(op)
  PROVE  SlotInv'
<1>1. PICK s \in AfterPriority :
           \/ /\ s.slot = None
              /\ supervisor' = BeginStop(s)
              /\ wake' = {[op |-> op, result |-> "Closed"]}
              /\ outbox' = outbox
              /\ UNCHANGED <<pending, lastExit>>
           \/ /\ s.slot # None /\ ~s.faulted
              /\ supervisor' = BeginStop(s)
              /\ pending' = pending \cup {op}
              /\ outbox' = outbox \cup PriorityResults(s)
              /\ UNCHANGED <<wake, lastExit>>
           \/ /\ s.slot # None /\ s.faulted
              /\ \E h \in Exits(BeginStop(s).slot.g) :
                   /\ supervisor' = IF h.exit = "Clean"
                                    THEN [BeginStop(s) EXCEPT !.slot = None, !.faulted = FALSE]
                                    ELSE [BeginStop(s) EXCEPT !.slot.g = h]
                   /\ lastExit' = Exit(s, h)
                   /\ wake' = {[op |-> op, result |-> IF h.exit = "Clean" THEN "Closed"
                                                      ELSE "CleanupUnproven"]}
                   /\ outbox' = outbox \cup Settled(s.slot.g, h)
              /\ UNCHANGED pending
  BY DEF ReceiveStop
<1>2. Received(op, {"Stop"}) /\ UNCHANGED <<answers, executed>>
  BY DEF ReceiveStop
<1>3. Supervised(s) /\ Follows(supervisor, s) /\ Accounted(s, lastExit)
  BY <1>2, AfterPriorityEffect, FollowsAccounted, ReceivedType DEF SlotInv, Owed
<1>4. /\ Supervised(BeginStop(s)) /\ Accounted(BeginStop(s), lastExit) /\ Sourced(BeginStop(s))
      /\ BeginStop(s).source = None
      /\ s.slot # None => BeginStop(s).slot # None /\ BeginStop(s).faulted = s.faulted
  BY <1>3, BeginStopEffect, BeginStopAccounted
<1>5. CASE /\ s.slot = None
           /\ supervisor' = BeginStop(s)
           /\ wake' = {[op |-> op, result |-> "Closed"]}
           /\ outbox' = outbox
           /\ UNCHANGED <<pending, lastExit>>
  <2>1. pending = {}
    BY <1>3, <1>5 DEF SlotInv, Owed, Follows
  <2>2. wake' \subseteq [op : Operations, result : Results]
    BY <1>5 DEF Results
  <2> QED
    BY <1>2, <1>4, <1>5, <2>1, <2>2, ReceivedType, ReceiveKeeps DEF SlotInv, Typed
<1>6. CASE /\ s.slot # None /\ ~s.faulted
           /\ supervisor' = BeginStop(s)
           /\ pending' = pending \cup {op}
           /\ outbox' = outbox \cup PriorityResults(s)
           /\ UNCHANGED <<wake, lastExit>>
  <2>1. outbox' \subseteq [op : Operations, result : {"Protocol", "Rejected"}]
    BY <1>6, PriorityType DEF SlotInv, Typed
  <2> QED
    BY <1>2, <1>4, <1>6, <2>1, ReceivedType, ReceiveKeeps DEF SlotInv, Typed
<1>7. ASSUME s.slot # None, s.faulted, NEW h \in Exits(BeginStop(s).slot.g),
             supervisor' = IF h.exit = "Clean"
                           THEN [BeginStop(s) EXCEPT !.slot = None, !.faulted = FALSE]
                           ELSE [BeginStop(s) EXCEPT !.slot.g = h],
             lastExit' = Exit(s, h),
             wake' = {[op |-> op, result |-> IF h.exit = "Clean" THEN "Closed"
                                             ELSE "CleanupUnproven"]},
             outbox' = outbox \cup Settled(s.slot.g, h),
             UNCHANGED pending
      PROVE  SlotInv'
  <2>1. /\ Supervised(supervisor') /\ Accounted(supervisor', lastExit') /\ lastExit' \in ExitReports
        /\ supervisor'.source = None /\ ~supervisor'.running
    BY <1>3, <1>7, RecoveredEffect
  <2>2. pending = {}
    BY <1>3, <1>7 DEF SlotInv, Owed, Follows
  <2>3. wake' \subseteq [op : Operations, result : Results]
    BY <1>7 DEF Results
  <2>4. outbox' \subseteq [op : Operations, result : {"Protocol", "Rejected"}]
    BY <1>3, <1>7, SettledType DEF SlotInv, Typed, Supervised
  <2>5. Sourced(supervisor')
    BY <2>1 DEF Sourced
  <2> QED
    BY <1>2, <1>7, <2>1, <2>2, <2>3, <2>4, <2>5, ReceivedType, ReceiveKeeps DEF SlotInv, Typed
<1> QED
  BY <1>1, <1>5, <1>6, <1>7

\* A Disconnect only asks the connection to drain.
LEMMA BeginDisconnectEffect ==
  ASSUME NEW s, Supervised(s), s.slot # None
  PROVE  LET t == BeginDisconnect(s)
         IN  /\ Supervised(t) /\ t.slot # None /\ t.slot.gen = s.slot.gen
             /\ t.slot.g = BeginGracefulClose(s.slot.g, "LocalDisconnect")
             /\ t.slot.g.owned = s.slot.g.owned /\ t.slot.g.closing = s.slot.g.closing
             /\ IsDraining(t.slot.g)
             /\ t.running = s.running /\ t.faulted = s.faulted /\ t.next = s.next
             /\ t.source = s.source
<1> DEFINE h == BeginGracefulClose(s.slot.g, "LocalDisconnect")
<1>1. Sound(h) /\ h.exit = s.slot.g.exit /\ h.owned = s.slot.g.owned
      /\ h.closing = s.slot.g.closing /\ IsDraining(h)
  BY GracefulEffect DEF Supervised, Reasons
<1>2. BeginDisconnect(s) = [s EXCEPT !.slot.g = h]
  BY DEF BeginDisconnect, Supervised, Supervisors, Slots
<1> HIDE DEF h
<1>3. Supervised([s EXCEPT !.slot.g = h])
  BY <1>1, SlotContinues
<1>4. LET t == [s EXCEPT !.slot.g = h]
      IN  /\ t.slot # None /\ t.slot.g = h /\ t.slot.gen = s.slot.gen
          /\ t.running = s.running /\ t.faulted = s.faulted /\ t.next = s.next
          /\ t.source = s.source
  BY <1>1, SlotUpdate DEF Sound, Supervised
<1> QED
  BY <1>1, <1>2, <1>3, <1>4 DEF h

\* What ReceiveDisconnect decides, by name.
DisconnectError(s, op) ==
  LET current == IF s.slot = None THEN 0 ELSE s.slot.gen
  IN  CASE calls[op].gen = 0 -> "Closed"
        [] calls[op].gen # 0 /\ calls[op].gen # current -> "StaleConnectionGeneration"
        [] calls[op].gen # 0 /\ calls[op].gen = current /\ s.faulted -> "Faulted"
        [] OTHER -> None

\* A Disconnect is refused unless it names the connection in the slot.
LEMMA DisconnectCases ==
  ASSUME NEW s, NEW op
  PROVE  /\ DisconnectError(s, op) \in Results \cup {None}
         /\ DisconnectError(s, op) = None =>
              s.slot # None /\ ~s.faulted /\ calls[op].gen = s.slot.gen
         /\ DisconnectError(s, op) = "Closed" => calls[op].gen = 0
BY NoneAssumption DEF DisconnectError, Results

\* ReceiveDisconnect keeps the slot invariant: types, supervisor, what is owed, attempts separated.
LEMMA ReceiveDisconnectSlot ==
  ASSUME SlotInv, NEW op \in Operations, ReceiveDisconnect(op)
  PROVE  SlotInv'
<1>1. PICK s \in AfterPriority :
         /\ outbox' = outbox \cup PriorityResults(s)
         /\ Answer(op, DisconnectError(s, op))
         /\ supervisor' = IF DisconnectError(s, op) = None THEN BeginDisconnect(s) ELSE s
         /\ pending' = IF DisconnectError(s, op) = None THEN pending \cup {op} ELSE pending
  BY DEF ReceiveDisconnect, DisconnectError
<1>2. Received(op, {"Disconnect"}) /\ UNCHANGED <<wake, lastExit, executed>>
  BY DEF ReceiveDisconnect
<1>3. Supervised(s) /\ Follows(supervisor, s) /\ Accounted(s, lastExit) /\ Sourced(s)
  BY <1>2, AfterPriorityEffect, FollowsAccounted, ReceivedType DEF SlotInv, Owed
<1>4. outbox' \subseteq [op : Operations, result : {"Protocol", "Rejected"}]
  BY <1>1, PriorityType DEF SlotInv, Typed
<1>5. answers' \in [Operations -> Results \cup {None}]
  BY <1>1, DisconnectCases DEF SlotInv, Typed, Answer
<1>6. CASE DisconnectError(s, op) # None
  BY <1>1, <1>2, <1>3, <1>4, <1>5, <1>6, ReceivedType, ReceiveKeeps
  DEF SlotInv, Typed, Owed, Follows
<1>7. CASE DisconnectError(s, op) = None
  <2>1. s.slot # None /\ ~s.faulted /\ supervisor' = BeginDisconnect(s)
        /\ pending' = pending \cup {op}
    BY <1>1, <1>7, DisconnectCases
  <2>2. /\ Supervised(supervisor') /\ supervisor'.slot # None
        /\ supervisor'.running = s.running /\ supervisor'.faulted = s.faulted
        /\ supervisor'.next = s.next /\ supervisor'.source = s.source
    BY <1>3, <2>1, BeginDisconnectEffect
  <2>3. Accounted(supervisor', lastExit') /\ Sourced(supervisor')
    BY <1>2, <1>3, <2>1, <2>2 DEF Accounted, Sourced
  <2>4. supervisor'.source = DropConnect(supervisor.source)
    BY <1>3, <2>2 DEF Follows
  <2> QED
    BY <1>2, <1>4, <1>5, <2>1, <2>2, <2>3, <2>4, ReceivedType, ReceiveKeeps DEF SlotInv, Typed
<1> QED
  BY <1>6, <1>7

\* FinalHandleDropped keeps the slot invariant: types, supervisor, what is owed, attempts separated.
LEMMA FinalHandleDroppedSlot ==
  ASSUME SlotInv, FinalHandleDropped
  PROVE  SlotInv'
<1>1. PICK s \in AfterPriority :
       supervisor' = BeginStop(s) /\ outbox' = outbox \cup PriorityResults(s)
  BY DEF FinalHandleDropped
<1>2. /\ pc = "select" /\ pc' \in {"publish", "deliver"} /\ AttemptEnded /\ quitting' = TRUE
      /\ UNCHANGED <<queue, answers, pending, wake, lastExit, executed, handles, calls>>
  BY DEF FinalHandleDropped, Listening, Waiting, LoopLeaves
<1>3. Supervised(s) /\ Follows(supervisor, s) /\ Accounted(s, lastExit)
  BY <1>2, AfterPriorityEffect, FollowsAccounted DEF SlotInv, Owed
<1>4. /\ Supervised(BeginStop(s)) /\ Accounted(BeginStop(s), lastExit) /\ Sourced(BeginStop(s))
      /\ BeginStop(s).source = None
      /\ s.slot # None => BeginStop(s).slot # None /\ BeginStop(s).faulted = s.faulted
  BY <1>3, BeginStopEffect, BeginStopAccounted
<1>5. outbox' \subseteq [op : Operations, result : {"Protocol", "Rejected"}]
  BY <1>1, PriorityType DEF SlotInv, Typed
<1>6. pending' # {} => supervisor'.slot # None /\ ~supervisor'.faulted
  BY <1>1, <1>2, <1>3, <1>4 DEF SlotInv, Owed, Follows
<1> QED
  BY <1>1, <1>2, <1>4, <1>5, <1>6, ReceiveKeeps DEF SlotInv, Typed

\* What a step of the connection source leaves as it was, put together.
LEMMA ConnectKeeps ==
  ASSUME SlotInv, ConnectLeaves, Connecting, pc' \in {pc, "publish"}, quiet' \in 0..T5,
         Supervised(supervisor'), supervisor'.next >= supervisor.next,
         supervisor'.faulted => supervisor'.slot = None,
         supervisor'.faulted \/ supervisor'.source # None, Separated'
  PROVE  SlotInv'
<1>1. pc = "select" /\ pending = {} /\ outbox = {} /\ wake = {} /\ ~supervisor.faulted
      /\ supervisor.slot = None
  BY DEF SlotInv, Owed, Connecting, Waiting
<1>2. /\ UNCHANGED <<queue, answers, pending, outbox, wake, quitting, lastExit, executed, handles,
                     calls>>
      /\ pc' \in {"select", "publish"}
  BY <1>1 DEF ConnectLeaves, LoopLeaves
<1>3. Accounted(supervisor', lastExit')
  <2>1. supervisor.next \in Int /\ supervisor'.next \in Int
        /\ (lastExit # None => lastExit.gen \in Int)
    BY DEF SlotInv, Supervised, Supervisors, Typed, ExitReports
  <2> QED
    BY <1>1, <1>2, <2>1 DEF SlotInv, Owed, Accounted
<1>4. Typed'
  BY <1>2 DEF SlotInv, Typed
<1> QED
  BY <1>1, <1>2, <1>3, <1>4 DEF SlotInv, Owed, Sourced

\* A failed source leaves a faulted supervisor without source.
LEMMA FaultSourceEffect ==
  ASSUME NEW s, Supervised(s), s.slot = None
  PROVE  LET t == FaultSource(s)
         IN  /\ Supervised(t) /\ t.slot = None /\ t.faulted /\ t.source = None /\ t.next = s.next
             /\ t.running = s.running
<1> DEFINE t == FaultSource(s)
<1>1. /\ t \in Supervisors /\ t.slot = None /\ t.faulted /\ t.source = None /\ t.next = s.next
      /\ t.running = s.running
  BY DEF FaultSource, Supervised, Supervisors
<1> HIDE DEF t
<1>2. Supervised(t)
  BY <1>1 DEF Supervised
<1> QED
  BY <1>1, <1>2 DEF t

\* A connect that ends well puts a new connection in the empty slot.
LEMMA ConnectedEffect ==
  ASSUME Supervised(supervisor), supervisor.slot = None, ~supervisor.faulted, supervisor.running,
         Identified, NEW source \in Sources, Active => ~source.trying, ~Active => ~source.listening
  PROVE  LET t == Connected(source)
         IN  /\ Supervised(t) /\ t.slot # None /\ ~t.faulted /\ t.source = source /\ t.running
             /\ t.slot.gen = supervisor.next /\ t.slot.g = NewGeneration
             /\ t.next = supervisor.next + 1
<1> DEFINE slot == [gen |-> supervisor.next, g |-> NewGeneration]
           t == Connected(source)
<1>1. supervisor.next \in 1..GenerationSpace
  BY EndpointAssumption DEF Supervised, Supervisors, Identified
<1>2. slot \in Slots /\ slot # None /\ slot.gen = supervisor.next /\ slot.g = NewGeneration
  <2>1. slot \in Slots
    BY <1>1, NewGenerationSound DEF Slots, Sound
  <2> QED
    BY <2>1, NoneAssumption
<1>3. t = [supervisor EXCEPT !.source = source, !.next = supervisor.next + 1, !.slot = slot]
  BY DEF Connected, Supervised, Supervisors
<1> HIDE DEF slot, t
<1>4. /\ t \in Supervisors /\ t.slot = slot /\ ~t.faulted /\ t.source = source /\ t.running
      /\ t.next = supervisor.next + 1
  <2>1. supervisor.next + 1 \in 1..(GenerationSpace + 1)
    BY <1>1, EndpointAssumption
  <2> QED
    BY <1>2, <1>3, <2>1 DEF Supervised, Supervisors
<1>5. NewGeneration.exit # "Poisoned"
  BY NoneAssumption DEF NewGeneration
<1>6. Supervised(t)
  BY <1>1, <1>2, <1>4, <1>5, NewGenerationSound DEF Supervised
<1> QED
  BY <1>2, <1>4, <1>6 DEF t

\* GenerationExhausted keeps the slot invariant: types, supervisor, what is owed, attempts separated.
LEMMA GenerationExhaustedSlot ==
  ASSUME SlotInv, GenerationExhausted
  PROVE  SlotInv'
<1>1. Supervised(supervisor') /\ supervisor'.slot = None /\ supervisor'.faulted
      /\ supervisor'.source = None /\ supervisor'.next = supervisor.next
  BY FaultSourceEffect DEF GenerationExhausted, Connecting, SlotInv
<1>2. Separated' /\ quiet' \in 0..T5
  BY <1>1 DEF Separated, GenerationExhausted, SlotInv, Typed
<1>3. supervisor'.next >= supervisor.next
  BY <1>1 DEF Supervised, Supervisors
<1> QED
  BY <1>1, <1>2, <1>3, ConnectKeeps DEF GenerationExhausted

\* BeginAttempt keeps the slot invariant: types, supervisor, what is owed, attempts separated.
LEMMA BeginAttemptSlot ==
  ASSUME SlotInv, BeginAttempt
  PROVE  SlotInv'
<1> DEFINE source == [supervisor.source EXCEPT !.trying = TRUE]
<1>1. supervisor.source \in [wait : 0..T5, trying : BOOLEAN, tried : BOOLEAN]
      /\ supervisor.source # None /\ supervisor.running /\ ~supervisor.faulted
      /\ supervisor.slot = None /\ Active /\ Identified
  BY DEF BeginAttempt, Connecting, SlotInv, Supervised, Supervisors, Sources
<1>2. source \in Sources /\ source.tried = supervisor.source.tried
      /\ source.wait = supervisor.source.wait
  BY <1>1 DEF Sources
<1>3. supervisor' = [supervisor EXCEPT !.source = source]
  BY DEF BeginAttempt
<1> HIDE DEF source
<1>4. /\ supervisor' \in Supervisors /\ supervisor'.source = source
      /\ supervisor'.running /\ ~supervisor'.faulted /\ supervisor'.slot = None
      /\ supervisor'.next = supervisor.next /\ supervisor'.next >= supervisor.next
  BY <1>1, <1>2, <1>3 DEF SlotInv, Supervised, Supervisors
<1>5. Supervised(supervisor')
  BY <1>1, <1>2, <1>4, NoneAssumption DEF Supervised, Identified
<1>6. source # None
  BY <1>2, NoneAssumption
<1>7. UNCHANGED quiet /\ UNCHANGED pc /\ Connecting /\ ConnectLeaves
  BY DEF BeginAttempt
<1>8. Separated' /\ quiet' \in 0..T5
  BY <1>1, <1>2, <1>4, <1>7 DEF SlotInv, Separated, Typed
<1> QED
  BY <1>4, <1>5, <1>6, <1>7, <1>8, ConnectKeeps

\* EndAttempt keeps the slot invariant: types, supervisor, what is owed, attempts separated.
LEMMA EndAttemptSlot ==
  ASSUME SlotInv, EndAttempt
  PROVE  SlotInv'
<1> DEFINE source == DropConnect(supervisor.source)
<1>1. supervisor.source \in Sources /\ supervisor.source # None /\ supervisor.running
      /\ ~supervisor.faulted /\ supervisor.slot = None /\ Active /\ supervisor.source.trying
      /\ Identified
  BY DEF EndAttempt, Connecting, SlotInv, Supervised, Supervisors, Identified
<1>2. source \in Sources /\ source # None /\ ~source.trying
  BY <1>1, DropConnectEffect, NoneAssumption
<1>3. supervisor' \in {Connected(source), [supervisor EXCEPT !.source = source]}
      /\ Connecting /\ ConnectLeaves /\ AttemptEnded /\ pc' = "publish"
  BY DEF EndAttempt
<1>4. CASE supervisor' = Connected(source)
  <2>1. Supervised(supervisor') /\ supervisor'.source = source /\ ~supervisor'.faulted
        /\ supervisor'.next = supervisor.next + 1
    BY <1>1, <1>2, <1>4, ConnectedEffect DEF SlotInv
  <2>2. supervisor'.next >= supervisor.next
    BY <2>1 DEF SlotInv, Supervised, Supervisors
  <2>3. Separated' /\ quiet' \in 0..T5
    BY <1>3, <2>1, AttemptEndedSeparates
  <2> QED
    BY <1>2, <1>3, <2>1, <2>2, <2>3, ConnectKeeps
<1>5. CASE supervisor' = [supervisor EXCEPT !.source = source]
  <2> HIDE DEF source
  <2>1. /\ supervisor' \in Supervisors /\ supervisor'.source = source
        /\ supervisor'.running /\ ~supervisor'.faulted /\ supervisor'.slot = None
        /\ supervisor'.next >= supervisor.next
    BY <1>1, <1>2, <1>5 DEF SlotInv, Supervised, Supervisors
  <2>2. Supervised(supervisor')
    BY <1>1, <1>2, <2>1 DEF Supervised
  <2>3. Separated' /\ quiet' \in 0..T5
    BY <1>3, <2>1, AttemptEndedSeparates DEF source
  <2> QED
    BY <1>2, <1>3, <2>1, <2>2, <2>3, ConnectKeeps
<1> QED
  BY <1>3, <1>4, <1>5

\* Rebind keeps the slot invariant: types, supervisor, what is owed, attempts separated.
LEMMA RebindSlot ==
  ASSUME SlotInv, Rebind
  PROVE  SlotInv'
<1>1. Connecting /\ ConnectLeaves /\ UNCHANGED quiet /\ ~Active /\ pc' \in {pc, "publish"}
  BY DEF Rebind
<1>2. Separated' /\ quiet' \in 0..T5
  BY <1>1 DEF Separated, SlotInv, Typed
<1>3. CASE supervisor' = FaultSource(supervisor)
  <2>1. Supervised(supervisor') /\ supervisor'.slot = None /\ supervisor'.faulted
        /\ supervisor'.next = supervisor.next
    BY <1>1, <1>3, FaultSourceEffect DEF Connecting, SlotInv
  <2>2. supervisor'.next >= supervisor.next
    BY <2>1 DEF Supervised, Supervisors
  <2> QED
    BY <1>1, <1>2, <2>1, <2>2, ConnectKeeps
<1>4. CASE supervisor' = [supervisor EXCEPT !.source.listening = TRUE]
  <2> DEFINE source == [supervisor.source EXCEPT !.listening = TRUE]
  <2>1. supervisor.source \in [listening : BOOLEAN] /\ supervisor.running
        /\ ~supervisor.faulted /\ supervisor.slot = None
    BY <1>1 DEF Connecting, SlotInv, Supervised, Supervisors, Sources
  <2>2. source \in Sources
    BY <1>1, <2>1 DEF Sources
  <2>3. source # None
    BY <2>2, NoneAssumption
  <2>4. supervisor' = [supervisor EXCEPT !.source = source]
    BY <1>4
  <2> HIDE DEF source
  <2>5. /\ supervisor' \in Supervisors /\ supervisor'.source = source
        /\ supervisor'.running /\ ~supervisor'.faulted /\ supervisor'.slot = None
        /\ supervisor'.next >= supervisor.next
    BY <2>1, <2>2, <2>4 DEF SlotInv, Supervised, Supervisors
  <2>6. Supervised(supervisor')
    BY <1>1, <2>5 DEF Supervised
  <2> QED
    BY <1>1, <1>2, <2>3, <2>5, <2>6, ConnectKeeps
<1> QED
  BY <1>3, <1>4 DEF Rebind

\* AcceptConnection keeps the slot invariant: types, supervisor, what is owed, attempts separated.
LEMMA AcceptConnectionSlot ==
  ASSUME SlotInv, AcceptConnection
  PROVE  SlotInv'
<1>1. Connecting /\ ConnectLeaves /\ UNCHANGED quiet /\ ~Active /\ pc' \in {pc, "publish"}
      /\ Identified
  BY DEF AcceptConnection
<1>2. Separated' /\ quiet' \in 0..T5
  BY <1>1 DEF Separated, SlotInv, Typed
<1>3. CASE supervisor' = FaultSource(supervisor)
  <2>1. Supervised(supervisor') /\ supervisor'.slot = None /\ supervisor'.faulted
        /\ supervisor'.next = supervisor.next
    BY <1>1, <1>3, FaultSourceEffect DEF Connecting, SlotInv
  <2>2. supervisor'.next >= supervisor.next
    BY <2>1 DEF Supervised, Supervisors
  <2> QED
    BY <1>1, <1>2, <2>1, <2>2, ConnectKeeps
<1>4. CASE supervisor' = Connected(Suspended(supervisor.source))
  <2> DEFINE source == Suspended(supervisor.source)
  <2>1. supervisor.source \in [listening : BOOLEAN] /\ supervisor.running
        /\ ~supervisor.faulted /\ supervisor.slot = None
    BY <1>1 DEF Connecting, SlotInv, Supervised, Supervisors, Sources
  <2>2. source \in Sources /\ ~source.listening
    BY <1>1, <2>1 DEF Sources, Suspended
  <2> HIDE DEF source
  <2>3. source # None
    BY <2>2, NoneAssumption
  <2>4. Supervised(supervisor') /\ supervisor'.source = source /\ ~supervisor'.faulted
        /\ supervisor'.next = supervisor.next + 1
    BY <1>1, <1>4, <2>1, <2>2, ConnectedEffect DEF SlotInv, source
  <2>5. supervisor'.next >= supervisor.next
    BY <2>4 DEF SlotInv, Supervised, Supervisors
  <2> QED
    BY <1>1, <1>2, <2>3, <2>4, <2>5, ConnectKeeps
<1> QED
  BY <1>3, <1>4 DEF AcceptConnection

\* Tick keeps the slot invariant: types, supervisor, what is owed, attempts separated.
LEMMA TickSlot ==
  ASSUME SlotInv, Tick
  PROVE  SlotInv'
<1> DEFINE s == supervisor.source
<1>1. /\ Active
      /\ UNCHANGED <<handles, calls, queue, answers, pending, outbox, wake, quitting, lastExit,
                     snapshot, pc, executed>>
      /\ quiet' = IF quiet < T5 THEN quiet + 1 ELSE quiet
  BY DEF Tick
<1>2. quiet' \in 0..T5 /\ quiet' >= quiet
      /\ (quiet < T5 => quiet' = quiet + 1) /\ (~(quiet < T5) => quiet' >= T5)
  BY <1>1, EndpointAssumption DEF SlotInv, Typed
<1>3. Typed'
  BY <1>1, <1>2 DEF SlotInv, Typed
<1>4. CASE s # None /\ s.wait > 0
  <2> DEFINE source == [s EXCEPT !.wait = @ - 1]
  <2>1. s \in [wait : 0..T5, trying : BOOLEAN, tried : BOOLEAN]
    BY <1>1, <1>4 DEF SlotInv, Supervised, Supervisors, Sources
  <2>2. s.wait - 1 \in 0..T5 /\ s.wait \in Int /\ T5 \in Int
    BY <1>4, <2>1, EndpointAssumption
  <2>3. source \in Sources /\ source.wait = s.wait - 1 /\ source.tried = s.tried
        /\ source.trying = s.trying
    BY <1>1, <2>1, <2>2 DEF Sources
  <2>4. source # None
    BY <2>3, NoneAssumption
  <2>5. supervisor' = [supervisor EXCEPT !.source = source]
    BY <1>4 DEF Tick
  <2> HIDE DEF source
  <2>6. /\ supervisor' \in Supervisors /\ supervisor'.source = source
        /\ supervisor'.running = supervisor.running /\ supervisor'.faulted = supervisor.faulted
        /\ supervisor'.slot = supervisor.slot /\ supervisor'.next = supervisor.next
    BY <2>3, <2>5 DEF SlotInv, Supervised, Supervisors
  <2>7. Supervised(supervisor')
    BY <1>1, <1>4, <2>3, <2>4, <2>6 DEF SlotInv, Supervised
  <2>8. Separated'
    <3>1. quiet \in Int /\ quiet' \in Int
      BY <1>2 DEF SlotInv, Typed
    <3> QED
      BY <1>1, <1>2, <1>4, <2>2, <2>3, <2>6, <3>1 DEF SlotInv, Separated
  <2>9. Owed'
    BY <1>1, <1>4, <2>4, <2>6 DEF SlotInv, Owed, Accounted, Sourced
  <2> QED
    BY <1>3, <2>7, <2>8, <2>9 DEF SlotInv
<1>5. CASE ~(s # None /\ s.wait > 0)
  <2>1. supervisor' = supervisor
    BY <1>5 DEF Tick
  <2>2. Separated'
    <3>1. ASSUME s # None, s.tried PROVE s.wait + quiet' >= T5
      <4>1. s.wait \in Int /\ quiet \in Int /\ quiet' \in Int /\ T5 \in Int
        BY <1>1, <1>2, <3>1, EndpointAssumption
        DEF SlotInv, Supervised, Supervisors, Sources, Typed
      <4> QED
        BY <1>1, <1>2, <3>1, <4>1 DEF SlotInv, Separated
    <3> QED
      BY <1>1, <2>1, <3>1 DEF Separated
  <2> QED
    BY <1>1, <1>3, <2>1, <2>2 DEF SlotInv, Owed, Supervised, Accounted, Sourced
<1> QED
  BY <1>4, <1>5

\* EndRuntime keeps the slot invariant: types, supervisor, what is owed, attempts separated.
LEMMA EndRuntimeSlot ==
  ASSUME SlotInv, EndRuntime
  PROVE  SlotInv'
<1>1. /\ supervisor' \in Supervisors /\ supervisor'.slot = None /\ supervisor'.source = None
  BY DEF EndRuntime, SlotInv, Supervised, Supervisors
<1>2. Supervised(supervisor')
  BY <1>1 DEF Supervised
<1>3. Separated' /\ quiet' \in 0..T5
  BY <1>1, AttemptEndedSeparates DEF EndRuntime
<1>4. answers' \in [Operations -> Results \cup {None}]
  BY DEF EndRuntime, SlotInv, Typed, Results
<1>5. Typed'
  <2>1. <<>> \in Seq(Operations)
    OBVIOUS
  <2> QED
    BY <1>3, <1>4, <2>1 DEF EndRuntime, SlotInv, Typed
<1> QED
  BY <1>1, <1>2, <1>3, <1>5 DEF SlotInv, Owed, EndRuntime

\* What is published has the shape of a snapshot.
LEMMA CoherentPictured ==
  ASSUME NEW s, Supervised(s), lastExit \in ExitReports \cup {None}
  PROVE  Coherent(s) \in [desired : {"Running", "Stopped"},
                          phase : {"Faulted", "Draining", "Running", "StoppedClean"},
                          slot : [kind : {"None", "Open", "Draining"}, gen : 0..GenerationSpace],
                          exit : ExitReports \cup {None}]
<1>1. (IF s.slot = None THEN NoSlot
       ELSE [kind |-> IF s.slot # None /\ IsDraining(s.slot.g) THEN "Draining" ELSE "Open",
             gen |-> s.slot.gen])
      \in [kind : {"None", "Open", "Draining"}, gen : 0..GenerationSpace]
  BY EndpointAssumption DEF Supervised, Supervisors, Slots, NoSlot
<1> QED
  BY <1>1 DEF Coherent

\* Every step keeps the published snapshot well formed.
LEMMA PicturedKept ==
  ASSUME SlotInv, Pictured, [Next]_vars
  PROVE  Pictured'
<1>1. CASE UNCHANGED snapshot
  BY <1>1 DEF Pictured
<1>2. CASE Publish
  <2>1. lastExit' = lastExit /\ Supervised(supervisor') /\ snapshot' = Coherent(supervisor')
    BY <1>2, PublishEffect DEF Publish, SlotInv
  <2> QED
    BY <2>1, CoherentPictured DEF Pictured, SlotInv, Typed
<1>3. CASE EndRuntime
  BY <1>3 DEF EndRuntime, Pictured
<1> QED
  BY <1>1, <1>2, <1>3
  DEF Next, vars, Handles, Capture, Send, HandleLeaves, DropHandles, Flush, FinishGeneration,
      StepCurrent, LoopLeaves, Receive, ReceiveRouted, ReceiveStart, ReceiveStop,
      ReceiveDisconnect, Received, FinalHandleDropped, Connect, ConnectLeaves,
      GenerationExhausted, BeginAttempt, EndAttempt, Rebind, AcceptConnection, Tick, Return, Abort

\* Every step keeps slot, source, fault and exit report in agreement.
LEMMA SlotKept ==
  ASSUME SlotInv, Pictured, [Next]_vars
  PROVE  SlotInv'
<1>1. CASE Handles
  BY <1>1, CaptureSlot, SendSlot, DropHandlesSlot DEF Handles
<1>2. CASE Receive
  BY <1>2, ReceiveRoutedSlot, ReceiveStartSlot, ReceiveStopSlot, ReceiveDisconnectSlot,
     FinalHandleDroppedSlot DEF Receive
<1>3. CASE Connect
  BY <1>3, GenerationExhaustedSlot, BeginAttemptSlot, EndAttemptSlot, RebindSlot,
     AcceptConnectionSlot DEF Connect
<1>4. CASE Return \/ Abort
  BY <1>4, EndRuntimeSlot DEF Return, Abort
<1>5. CASE UNCHANGED vars
  BY <1>5 DEF vars, SlotInv, Typed, Supervised, Owed, Accounted, Sourced, Separated
<1> QED
  BY <1>1, <1>2, <1>3, <1>4, <1>5, PublishSlot, FlushSlot, FinishGenerationSlot,
     StepCurrentSlot, TickSlot DEF Next

\* The slot invariant holds in every behaviour of the endpoint.
LEMMA SlotAlways == Spec => [](SlotInv /\ Pictured)
<1>1. Init => SlotInv /\ Pictured
  BY InitSlot, EndpointAssumption DEF Init, Pictured, StoppedClean, NoSlot
<1>2. SlotInv /\ Pictured /\ [Next]_vars => (SlotInv /\ Pictured)'
  BY SlotKept, PicturedKept
<1> QED
  BY <1>1, <1>2, PTL DEF Spec

\* The endpoint's state keeps its declared shape.
THEOREM EndpointTypes == Spec => []TypeOK
<1>1. SlotInv => TypeOK
  BY TypesAreTyped DEF SlotInv, Supervised
<1> QED
  BY <1>1, SlotAlways, PTL

\* finish_generation, begin_stop, fault_source and the connection sources: the
\* slot, the source, the fault and the last exit report agree at every step.
THEOREM SourceAlwaysFollowsSlot == Spec => []SourceFollowsSlot
<1>1. SlotInv => SourceFollowsSlot
  BY DEF SlotInv, Supervised, Owed, Accounted, Sourced, SourceFollowsSlot,
         FaultBlocksReplacement, NoListenerWhileOccupied, RunningCanConnect
<1> QED
  BY <1>1, SlotAlways, PTL

\* ConnectSeparation: an attempt of a source that has tried before begins T5 after
\* the end of the last one, however that one ended.
THEOREM AttemptsAlwaysSeparated == Spec => AttemptsAreSeparated
<1>1. SlotInv /\ [Next]_vars => [BeginAttempt /\ supervisor.source.tried => quiet = T5]_vars
  <2> SUFFICES ASSUME SlotInv, BeginAttempt, supervisor.source.tried
               PROVE  quiet = T5
    OBVIOUS
  <2>1. Active /\ supervisor.source # None /\ supervisor.source.wait = 0
    BY DEF BeginAttempt, Connecting
  <2> QED
    BY <2>1, EndpointAssumption DEF SlotInv, Separated, Typed
<1> QED
  BY <1>1, SlotAlways, PTL DEF Spec, AttemptsAreSeparated

-----------------------------------------------------------------------------
(* The owners of requests.                                                 *)

Queued(q) == {q[i] : i \in DOMAIN q}
Once(q) == \A i, j \in DOMAIN q : q[i] = q[j] => i = j

\* The requests F that are in flight are those in the channel Q, in the
\* generation O, among the pending closes P and among the results W; each of
\* them is in one of these, and has one result at most.
Books(Q, O, P, W, F) ==
  /\ \A c, d \in W : c.op = d.op => c = d
  /\ \A op \in Q : op \notin O /\ op \notin P
  /\ \A op \in O : op \notin P
  /\ \A c \in W : c.op \notin Q /\ c.op \notin O /\ c.op \notin P
  /\ \A op : op \in F <=> op \in Q \/ op \in O \/ op \in P \/ (\E c \in W : c.op = op)

Alike(ops, r) == {[op |-> op, result |-> r] : op \in ops}
Protocols(ops) == {[op |-> op, result |-> "Protocol"] : op \in ops}

\* The generation answers operations; their results wait.
LEMMA SettleBooks ==
  ASSUME NEW Q, NEW O, NEW P, NEW W, NEW F, Books(Q, O, P, W, F), NEW R \in SUBSET O
  PROVE  Books(Q, R, P, W \cup Protocols(O \ R), F)
<1> DEFINE V == W \cup Protocols(O \ R)
<1>1. \A c \in V : c \in W \/ (c.op \in O /\ c.op \notin R /\ c = [op |-> c.op, result |-> "Protocol"])
  BY DEF Protocols
<1>2. ASSUME NEW op \in O \ R PROVE \E c \in V : c.op = op
  <2>1. [op |-> op, result |-> "Protocol"] \in V
    BY DEF Protocols
  <2> QED
    BY <2>1
<1>3. W \subseteq V
  OBVIOUS
<1> HIDE DEF V
<1>4. \A c, d \in V : c.op = d.op => c = d
  BY <1>1 DEF Books
<1>5. \A c \in V : c.op \notin Q /\ c.op \notin R /\ c.op \notin P
  BY <1>1 DEF Books
<1>6. \A op : op \in F <=> op \in Q \/ op \in R \/ op \in P \/ (\E c \in V : c.op = op)
  BY <1>1, <1>2, <1>3 DEF Books
<1> QED
  BY <1>4, <1>5, <1>6 DEF Books, V

\* The closes that waited get one result each.
LEMMA FinishBooks ==
  ASSUME NEW Q, NEW O, NEW P, NEW W, NEW F, Books(Q, O, P, W, F), NEW r
  PROVE  Books(Q, O, {}, W \cup Alike(P, r), F)
<1> DEFINE V == W \cup Alike(P, r)
<1>1. \A c \in V : c \in W \/ (c.op \in P /\ c = [op |-> c.op, result |-> r])
  BY DEF Alike
<1>2. ASSUME NEW op \in P PROVE \E c \in V : c.op = op
  <2>1. [op |-> op, result |-> r] \in V
    BY DEF Alike
  <2> QED
    BY <2>1
<1>3. W \subseteq V
  OBVIOUS
<1> HIDE DEF V
<1>4. \A c, d \in V : c.op = d.op => c = d
  BY <1>1 DEF Books
<1>5. \A c \in V : c.op \notin Q /\ c.op \notin O
  BY <1>1 DEF Books
<1>6. \A op : op \in F <=> op \in Q \/ op \in O \/ op \in {} \/ (\E c \in V : c.op = op)
  BY <1>1, <1>2, <1>3 DEF Books
<1> QED
  BY <1>4, <1>5, <1>6 DEF Books, V

\* A request that leaves the channel goes to one place or is answered.
LEMMA TakeBooks ==
  ASSUME NEW Q, NEW O, NEW P, NEW W, NEW F, Books(Q, O, P, W, F), NEW op \in Q
  PROVE  /\ Books(Q \ {op}, O \cup {op}, P, W, F)
         /\ Books(Q \ {op}, O, P \cup {op}, W, F)
         /\ \A r : Books(Q \ {op}, O, P, W \cup {[op |-> op, result |-> r]}, F)
         /\ Books(Q \ {op}, O, P, W, F \ {op})
<1>1. Books(Q \ {op}, O \cup {op}, P, W, F)
  BY DEF Books
<1>2. Books(Q \ {op}, O, P \cup {op}, W, F)
  BY DEF Books
<1>3. Books(Q \ {op}, O, P, W, F \ {op})
  BY DEF Books
<1>4. ASSUME NEW r PROVE Books(Q \ {op}, O, P, W \cup {[op |-> op, result |-> r]}, F)
  <2> DEFINE e == [op |-> op, result |-> r]
             V == W \cup {e}
  <2>1. e.op = op
    OBVIOUS
  <2> HIDE DEF e
  <2>2. \A c \in V : c \in W \/ c = e
    OBVIOUS
  <2>3. e \in V /\ W \subseteq V
    OBVIOUS
  <2> HIDE DEF V
  <2>4. \A c, d \in V : c.op = d.op => c = d
    BY <2>1, <2>2 DEF Books
  <2>5. \A c \in V : c.op \notin Q \ {op} /\ c.op \notin O /\ c.op \notin P
    BY <2>1, <2>2 DEF Books
  <2>6. \A x : x \in F <=> x \in Q \ {op} \/ x \in O \/ x \in P \/ (\E c \in V : c.op = x)
    BY <2>1, <2>2, <2>3 DEF Books
  <2> QED
    BY <2>4, <2>5, <2>6 DEF Books, V, e
<1> QED
  BY <1>1, <1>2, <1>3, <1>4

\* The channel hands out its first request.
LEMMA TailQueued ==
  ASSUME NEW q \in Seq(Operations), q # <<>>, Once(q)
  PROVE  /\ Once(Tail(q)) /\ Queued(Tail(q)) = Queued(q) \ {Head(q)} /\ Head(q) \in Queued(q)
<1>1. /\ DOMAIN Tail(q) = 1..(Len(q) - 1) /\ DOMAIN q = 1..Len(q) /\ Len(q) \in Nat \ {0}
      /\ \A i \in 1..(Len(q) - 1) : Tail(q)[i] = q[i + 1]
      /\ Head(q) = q[1]
  OBVIOUS
<1>2. Once(Tail(q))
  BY <1>1 DEF Once
<1>3. \A x : x \in Queued(Tail(q)) <=> x \in Queued(q) /\ x # Head(q)
  <2>1. ASSUME NEW x \in Queued(Tail(q)) PROVE x \in Queued(q) /\ x # Head(q)
    <3>1. PICK i \in 1..(Len(q) - 1) : x = q[i + 1]
      BY <1>1, <2>1 DEF Queued
    <3>2. i + 1 \in DOMAIN q /\ 1 \in DOMAIN q /\ i + 1 # 1
      BY <1>1
    <3> QED
      BY <1>1, <3>1, <3>2 DEF Queued, Once
  <2>2. ASSUME NEW x \in Queued(q), x # Head(q) PROVE x \in Queued(Tail(q))
    <3>1. PICK j \in 1..Len(q) : x = q[j]
      BY <1>1, <2>2 DEF Queued
    <3>2. j - 1 \in 1..(Len(q) - 1) /\ (j - 1) + 1 = j
      BY <1>1, <2>2, <3>1
    <3> QED
      BY <1>1, <3>1, <3>2 DEF Queued
  <2> QED
    BY <2>1, <2>2
<1>4. Head(q) \in Queued(q)
  BY <1>1 DEF Queued
<1> QED
  BY <1>2, <1>3, <1>4

\* The channel takes one more.
LEMMA AppendQueued ==
  ASSUME NEW q \in Seq(Operations), Once(q), NEW op \in Operations, op \notin Queued(q)
  PROVE  Once(Append(q, op)) /\ Queued(Append(q, op)) = Queued(q) \cup {op}
<1>1. /\ DOMAIN Append(q, op) = 1..(Len(q) + 1) /\ DOMAIN q = 1..Len(q) /\ Len(q) \in Nat
      /\ \A i \in 1..Len(q) : Append(q, op)[i] = q[i]
      /\ Append(q, op)[Len(q) + 1] = op
  OBVIOUS
<1>2. \A i \in 1..Len(q) : q[i] # op
  BY <1>1 DEF Queued
<1>3. \A i \in 1..(Len(q) + 1) : i \in 1..Len(q) \/ i = Len(q) + 1
  BY <1>1
<1>4. Once(Append(q, op))
  BY <1>1, <1>2, <1>3 DEF Once
<1>5. \A x : x \in Queued(Append(q, op)) <=> x \in Queued(q) \/ x = op
  <2>1. ASSUME NEW x \in Queued(Append(q, op)) PROVE x \in Queued(q) \/ x = op
    BY <1>1, <1>3, <2>1 DEF Queued
  <2>2. ASSUME NEW x \in Queued(q) PROVE x \in Queued(Append(q, op))
    <3>1. PICK i \in 1..Len(q) : x = q[i]
      BY <1>1, <2>2 DEF Queued
    <3>2. i \in 1..(Len(q) + 1)
      BY <1>1
    <3> QED
      BY <1>1, <3>1, <3>2 DEF Queued
  <2>3. Len(q) + 1 \in 1..(Len(q) + 1)
    BY <1>1
  <2>4. op \in Queued(Append(q, op))
    BY <1>1, <2>3 DEF Queued
  <2> QED
    BY <2>1, <2>2, <2>4
<1> QED
  BY <1>4, <1>5

Own(s) == IF s.slot = None THEN {} ELSE s.slot.g.owned

OwnInv ==
  /\ Once(queue)
  /\ Books(Queued(queue), Own(supervisor), pending, outbox \cup wake, InFlight(IntentNames))

\* Requests in flight do not change when the calls and the answers do not.
LEMMA FlyingSame ==
  ASSUME UNCHANGED <<calls, answers>>
  PROVE  InFlight(IntentNames)' = InFlight(IntentNames)
BY DEF InFlight

\* A request that is answered is no longer in flight.
LEMMA FlyingAnswered ==
  ASSUME Typed, UNCHANGED calls, NEW op \in Operations, NEW r, r # None, Answer(op, r)
  PROVE  InFlight(IntentNames)' = InFlight(IntentNames) \ {op}
BY DEF InFlight, Typed, Answer

\* Who is in flight, by the state of its call.
LEMMA FlyingIs ==
  ASSUME Typed
  PROVE  \A op : op \in InFlight(IntentNames) <=>
           op \in Operations /\ calls[op] # None /\ calls[op].sent /\ answers[op] = None
BY EndpointAssumption DEF InFlight, Typed, Calls

\* What a connection settles is what it no longer owns.
LEMMA SettledProtocols ==
  ASSUME NEW g, NEW h
  PROVE  Settled(g, h) = Protocols(g.owned \ h.owned)
BY DEF Settled, Protocols

\* Capture keeps every request with exactly one owner.
LEMMA CaptureOwn ==
  ASSUME SlotInv, OwnInv, NEW op \in Operations, NEW intent \in Intents, Capture(op, intent)
  PROVE  OwnInv'
<1>1. InFlight(IntentNames)' = InFlight(IntentNames)
  <2>1. /\ calls' = [calls EXCEPT ![op] = [intent |-> intent, gen |-> snapshot.slot.gen,
                                           sent |-> FALSE]]
        /\ calls[op] = None /\ answers' = [answers EXCEPT ![op] = CaptureError(intent)]
    BY DEF Capture, Answer
  <2>2. ~calls'[op].sent
    BY <2>1 DEF SlotInv, Typed
  <2>3. \A x \in Operations \ {op} : calls'[x] = calls[x] /\ answers'[x] = answers[x]
    BY <2>1 DEF SlotInv, Typed
  <2> QED
    BY <2>1, <2>2, <2>3 DEF InFlight
<1> QED
  BY <1>1 DEF Capture, HandleLeaves, OwnInv

\* Send keeps every request with exactly one owner.
LEMMA SendOwn ==
  ASSUME SlotInv, OwnInv, NEW op \in Operations, Send(op)
  PROVE  OwnInv'
<1>1. UNCHANGED <<supervisor, pending, outbox, wake>> /\ calls[op] # None /\ ~calls[op].sent
      /\ answers[op] = None
  BY DEF Send, HandleLeaves
<1>2. op \notin InFlight(IntentNames)
  BY <1>1 DEF InFlight
<1>3. CASE UNCHANGED <<calls, queue>> /\ \E r \in {"RuntimeStopped", "Backpressure"} : Answer(op, r)
  <2>1. PICK r \in {"RuntimeStopped", "Backpressure"} : Answer(op, r)
    BY <1>3
  <2>2. r # None
    BY NoneAssumption DEF Results
  <2>3. InFlight(IntentNames)' = InFlight(IntentNames) \ {op}
    BY <1>3, <2>1, <2>2, FlyingAnswered DEF SlotInv
  <2>4. InFlight(IntentNames)' = InFlight(IntentNames)
    BY <1>2, <2>3
  <2> QED
    BY <1>1, <1>3, <2>4 DEF OwnInv
<1>4. CASE /\ calls' = [calls EXCEPT ![op].sent = TRUE]
           /\ queue' = Append(queue, op) /\ UNCHANGED answers
  <2>1. calls[op] \in Calls
    BY <1>1 DEF SlotInv, Typed
  <2>2. calls' = [calls EXCEPT ![op] = [calls[op] EXCEPT !.sent = TRUE]]
    BY <1>4
  <2>3. [calls[op] EXCEPT !.sent = TRUE] \in Calls
    BY <2>1 DEF Calls
  <2>4. calls'[op] = [calls[op] EXCEPT !.sent = TRUE] /\ calls'[op].sent
        /\ calls'[op].intent = calls[op].intent /\ calls'[op] # None
    BY <2>1, <2>2, <2>3, NoneAssumption DEF SlotInv, Typed, Calls
  <2>5. \A x \in Operations \ {op} : calls'[x] = calls[x]
    BY <2>2 DEF SlotInv, Typed
  <2>6. calls[op].intent \in IntentNames
    BY <2>1, EndpointAssumption DEF Calls
  <2>7. InFlight(IntentNames)' = InFlight(IntentNames) \cup {op}
    BY <1>1, <1>4, <2>4, <2>5, <2>6 DEF InFlight
  <2>8. op \notin Queued(queue) /\ op \notin Own(supervisor) /\ op \notin pending
        /\ \A c \in outbox \cup wake : c.op # op
    BY <1>2 DEF OwnInv, Books
  <2>9. Once(queue') /\ Queued(queue') = Queued(queue) \cup {op}
    BY <1>4, <2>8, AppendQueued DEF OwnInv, SlotInv, Typed
  <2>10. Books(Queued(queue) \cup {op}, Own(supervisor), pending, outbox \cup wake,
               InFlight(IntentNames) \cup {op})
    BY <2>8 DEF OwnInv, Books
  <2> QED
    BY <1>1, <2>7, <2>9, <2>10 DEF OwnInv
<1> QED
  BY <1>3, <1>4 DEF Send

\* Publish keeps every request with exactly one owner.
LEMMA PublishOwn ==
  ASSUME SlotInv, OwnInv, Publish
  PROVE  OwnInv'
<1>1. UNCHANGED <<calls, queue, answers, pending, wake>>
  BY DEF Publish
<1>2. Own(supervisor') \subseteq Own(supervisor)
      /\ outbox' \cup wake' = (outbox \cup wake) \cup Protocols(Own(supervisor) \ Own(supervisor'))
  <2>1. CASE supervisor.slot = None
    <3>1. Protocols(Own(supervisor) \ Own(supervisor')) = {}
      BY <2>1, PublishEffect DEF Own, Protocols, SlotInv
    <3> QED
      BY <1>1, <2>1, <3>1, PublishEffect DEF SlotInv
  <2>2. CASE supervisor.slot # None
    <3>1. /\ supervisor'.slot # None
          /\ Continues(supervisor.slot.g, supervisor'.slot.g)
          /\ outbox' = outbox \cup Settled(supervisor.slot.g, supervisor'.slot.g)
      BY <2>2, PublishEffect DEF SlotInv
    <3> QED
      BY <1>1, <2>2, <3>1, SettledProtocols DEF Own, Continues
  <2> QED
    BY <2>1, <2>2
<1>3. Books(Queued(queue), Own(supervisor'), pending, outbox' \cup wake', InFlight(IntentNames))
  BY <1>2, SettleBooks DEF OwnInv
<1> QED
  BY <1>1, <1>3, FlyingSame DEF OwnInv

\* Flush keeps every request with exactly one owner.
LEMMA FlushOwn ==
  ASSUME SlotInv, OwnInv, Flush
  PROVE  OwnInv'
<1>1. UNCHANGED <<calls, queue, supervisor, pending>> /\ outbox' = {} /\ wake' = {}
  BY DEF Flush
<1>2. \A op \in Operations : op \in InFlight(IntentNames)' <=>
        op \in InFlight(IntentNames) /\ ~\E c \in outbox \cup wake : c.op = op
  <2> SUFFICES ASSUME NEW op \in Operations
               PROVE  op \in InFlight(IntentNames)' <=>
                        op \in InFlight(IntentNames) /\ ~\E c \in outbox \cup wake : c.op = op
    OBVIOUS
  <2>1. CASE \E c \in outbox \cup wake : c.op = op
    <3>1. (CHOOSE c \in outbox \cup wake : c.op = op) \in outbox \cup wake
      BY <2>1
    <3>2. \A c \in outbox \cup wake : c.result \in Results
      BY DEF SlotInv, Typed, Results
    <3>3. answers'[op] # None
      BY <2>1, <3>1, <3>2, NoneAssumption DEF Flush
    <3> QED
      BY <2>1, <3>3 DEF InFlight
  <2>2. CASE ~\E c \in outbox \cup wake : c.op = op
    BY <1>1, <2>2 DEF InFlight, Flush
  <2> QED
    BY <2>1, <2>2
<1>3. InFlight(IntentNames) \subseteq Operations /\ InFlight(IntentNames)' \subseteq Operations
  BY DEF InFlight
<1>4. Books(Queued(queue), Own(supervisor), pending, {}, InFlight(IntentNames)')
  BY <1>2, <1>3 DEF OwnInv, Books
<1>5. outbox' \cup wake' = {}
  BY <1>1
<1> QED
  BY <1>1, <1>4, <1>5 DEF OwnInv

\* FinishGeneration keeps every request with exactly one owner.
LEMMA FinishGenerationOwn ==
  ASSUME SlotInv, OwnInv, FinishGeneration
  PROVE  OwnInv'
<1>1. supervisor.slot # None /\ ~supervisor.faulted /\ outbox = {} /\ wake = {}
      /\ UNCHANGED <<calls, queue, answers>> /\ pending' = {}
  BY DEF FinishGeneration, SlotClosed, LoopLeaves, SlotInv, Owed
<1>2. PICK h \in Exits(supervisor.slot.g) :
       /\ supervisor' = Released(supervisor, h)
       /\ outbox' = outbox \cup Settled(supervisor.slot.g, h)
       /\ wake' = {[op |-> op, result |-> IF h.exit = "Clean" THEN "Closed" ELSE "CleanupUnproven"] :
                     op \in pending}
  BY DEF FinishGeneration
<1>3. Own(supervisor') = h.owned /\ h.owned \subseteq Own(supervisor)
  <2>1. h.owned \subseteq Own(supervisor) /\ (h.exit = "Clean" => h.owned = {})
    BY <1>1, ExitsEffect DEF SlotInv, Supervised, Own, Continues
  <2> QED
    BY <1>1, <1>2, <2>1, ReleasedEffect DEF SlotInv, Own
<1>4. outbox' = (outbox \cup wake) \cup Protocols(Own(supervisor) \ h.owned)
  BY <1>1, <1>2, SettledProtocols DEF Own
<1>5. Books(Queued(queue), h.owned, pending, outbox', InFlight(IntentNames))
  BY <1>3, <1>4, SettleBooks DEF OwnInv
<1> DEFINE r == IF h.exit = "Clean" THEN "Closed" ELSE "CleanupUnproven"
<1>6. wake' = Alike(pending, r)
  BY <1>2 DEF Alike
<1> HIDE DEF r
<1>7. Books(Queued(queue), h.owned, {}, outbox' \cup wake', InFlight(IntentNames))
  BY <1>5, <1>6, FinishBooks
<1> QED
  BY <1>1, <1>3, <1>7, FlyingSame DEF OwnInv

\* StepCurrent keeps every request with exactly one owner.
LEMMA StepCurrentOwn ==
  ASSUME SlotInv, OwnInv, StepCurrent
  PROVE  OwnInv'
<1>1. supervisor.slot # None /\ UNCHANGED <<calls, queue, answers, pending, wake>>
  BY DEF StepCurrent, LoopLeaves
<1>2. PICK h \in Rounds(supervisor.slot.g) :
       /\ supervisor' = [supervisor EXCEPT !.slot.g = h]
       /\ outbox' = outbox \cup Settled(supervisor.slot.g, h)
  BY DEF StepCurrent
<1>3. Sound(h) /\ h.owned \subseteq supervisor.slot.g.owned
  BY <1>1, RoundsEffect DEF SlotInv, Supervised, Continues
<1>4. supervisor'.slot # None /\ supervisor'.slot.g = h
  BY <1>1, <1>2, <1>3, SlotUpdate DEF Sound, SlotInv, Supervised
<1>5. outbox' \cup wake' = (outbox \cup wake) \cup Protocols(Own(supervisor) \ h.owned)
  BY <1>1, <1>2, SettledProtocols DEF Own
<1>6. Books(Queued(queue), h.owned, pending, outbox' \cup wake', InFlight(IntentNames))
  BY <1>1, <1>3, <1>5, SettleBooks DEF OwnInv, Own
<1> QED
  BY <1>1, <1>4, <1>6, FlyingSame DEF OwnInv, Own

\* Processing the generation's priorities, before a command is looked at.
LEMMA PriorityOwn ==
  ASSUME SlotInv, OwnInv, outbox = {}, wake = {}, NEW s \in AfterPriority
  PROVE  Books(Queued(queue), Own(s), pending, PriorityResults(s), InFlight(IntentNames))
<1>1. Follows(supervisor, s)
  BY AfterPriorityEffect DEF SlotInv
<1>2. Own(s) \subseteq Own(supervisor)
      /\ PriorityResults(s) = (outbox \cup wake) \cup Protocols(Own(supervisor) \ Own(s))
  <2>1. CASE s.slot = None
    <3>1. Protocols(Own(supervisor) \ Own(s)) = {}
      BY <1>1, <2>1 DEF Own, Protocols, Follows
    <3> QED
      BY <2>1, <3>1 DEF PriorityResults, Own
  <2>2. CASE s.slot # None
    <3>1. PriorityResults(s) = Settled(supervisor.slot.g, s.slot.g)
      BY <2>2 DEF PriorityResults
    <3> QED
      BY <1>1, <2>2, <3>1, SettledProtocols DEF Own, Follows, Continues
  <2> QED
    BY <2>1, <2>2
<1> QED
  BY <1>2, SettleBooks DEF OwnInv

\* A received command was in the channel and in flight.
LEMMA ReceivedOwn ==
  ASSUME SlotInv, OwnInv, NEW op \in Operations, NEW intents, Received(op, intents)
  PROVE  /\ Once(queue') /\ Queued(queue') = Queued(queue) \ {op} /\ op \in Queued(queue)
         /\ answers[op] = None /\ outbox = {} /\ wake = {} /\ UNCHANGED calls
         /\ calls[op] # None /\ calls[op].sent /\ calls[op].intent \in intents
<1>1. queue # <<>> /\ op = Head(queue) /\ queue' = Tail(queue) /\ calls[op].intent \in intents
  BY DEF Received
<1>2. Once(queue') /\ Queued(queue') = Queued(queue) \ {op} /\ op \in Queued(queue)
  BY <1>1, TailQueued DEF SlotInv, Typed, OwnInv
<1>3. op \in InFlight(IntentNames)
  BY <1>2 DEF OwnInv, Books
<1>4. outbox = {} /\ wake = {} /\ UNCHANGED calls
  BY ReceivedType
<1> QED
  BY <1>1, <1>2, <1>3, <1>4 DEF InFlight

\* ReceiveRouted keeps every request with exactly one owner.
LEMMA ReceiveRoutedOwn ==
  ASSUME SlotInv, OwnInv, NEW op \in Operations, ReceiveRouted(op)
  PROVE  OwnInv'
<1>1. PICK s \in AfterPriority :
       \/ /\ RouteError(s, op) # None
          /\ supervisor' = s
          /\ outbox' = outbox \cup PriorityResults(s)
          /\ Answer(op, RouteError(s, op))
       \/ /\ supervisor' = s
          /\ outbox' = outbox \cup PriorityResults(s) \cup {[op |-> op, result |-> "Rejected"]}
          /\ UNCHANGED answers
       \/ /\ RouteError(s, op) = None
          /\ supervisor' = [s EXCEPT !.slot.g = Admit(@, op)]
          /\ outbox' = outbox \cup PriorityResults(s)
          /\ UNCHANGED answers
  BY DEF ReceiveRouted
<1>2. /\ Once(queue') /\ Queued(queue') = Queued(queue) \ {op} /\ op \in Queued(queue)
      /\ outbox = {} /\ wake = {} /\ UNCHANGED <<calls, pending, wake>>
  BY ReceivedOwn DEF ReceiveRouted
<1>3. Books(Queued(queue), Own(s), pending, PriorityResults(s), InFlight(IntentNames))
  BY <1>2, PriorityOwn
<1>4. CASE /\ RouteError(s, op) # None
           /\ supervisor' = s
           /\ outbox' = outbox \cup PriorityResults(s)
           /\ Answer(op, RouteError(s, op))
  <2>1. InFlight(IntentNames)' = InFlight(IntentNames) \ {op}
    BY <1>2, <1>4, FlyingAnswered DEF SlotInv
  <2>2. outbox' \cup wake' = PriorityResults(s)
    BY <1>2, <1>4
  <2>3. Books(Queued(queue) \ {op}, Own(s), pending, PriorityResults(s),
              InFlight(IntentNames) \ {op})
    BY <1>2, <1>3, TakeBooks
  <2> QED
    BY <1>2, <1>4, <2>1, <2>2, <2>3 DEF OwnInv
<1>5. CASE /\ supervisor' = s
           /\ outbox' = outbox \cup PriorityResults(s) \cup {[op |-> op, result |-> "Rejected"]}
           /\ UNCHANGED answers
  <2>1. outbox' \cup wake' = PriorityResults(s) \cup {[op |-> op, result |-> "Rejected"]}
    BY <1>2, <1>5
  <2>2. Books(Queued(queue) \ {op}, Own(s), pending, outbox' \cup wake', InFlight(IntentNames))
    BY <1>2, <1>3, <2>1, TakeBooks
  <2> QED
    BY <1>2, <1>5, <2>2, FlyingSame DEF OwnInv
<1>6. CASE /\ RouteError(s, op) = None
           /\ supervisor' = [s EXCEPT !.slot.g = Admit(@, op)]
           /\ outbox' = outbox \cup PriorityResults(s)
           /\ UNCHANGED answers
  <2>1. Supervised(s)
    BY AfterPriorityEffect DEF SlotInv
  <2>2. s.slot # None /\ s \in Supervisors /\ s.slot \in Slots /\ Sound(s.slot.g)
    BY <1>6, <2>1, NoneAssumption DEF RouteError, Supervised, Supervisors, Results
  <2> DEFINE h == Admit(s.slot.g, op)
  <2>3. supervisor' = [s EXCEPT !.slot.g = h]
    BY <1>6, <2>2 DEF Supervisors, Slots
  <2>4. Sound(h) /\ h.owned = s.slot.g.owned \cup {op}
    BY <2>2, AdmitEffect
  <2> HIDE DEF h
  <2>5. supervisor'.slot # None /\ supervisor'.slot.g = h
    BY <2>2, <2>3, <2>4, SlotUpdate DEF Sound
  <2>6. Own(supervisor') = Own(s) \cup {op} /\ outbox' \cup wake' = PriorityResults(s)
    BY <1>2, <1>6, <2>2, <2>4, <2>5 DEF Own
  <2>7. Books(Queued(queue) \ {op}, Own(s) \cup {op}, pending, PriorityResults(s),
              InFlight(IntentNames))
    BY <1>2, <1>3, TakeBooks
  <2> QED
    BY <1>2, <1>6, <2>6, <2>7, FlyingSame DEF OwnInv
<1> QED
  BY <1>1, <1>4, <1>5, <1>6

\* ReceiveStart keeps every request with exactly one owner.
LEMMA ReceiveStartOwn ==
  ASSUME SlotInv, OwnInv, NEW op \in Operations, ReceiveStart(op)
  PROVE  OwnInv'
<1>1. PICK s \in AfterPriority :
       /\ outbox' = outbox \cup PriorityResults(s)
       /\ supervisor' = s \/ supervisor' = [s EXCEPT !.running = TRUE,
                                        !.source = IF Active THEN ActiveSource ELSE PassiveSource]
       /\ \E r : wake' = {[op |-> op, result |-> r]}
  BY DEF ReceiveStart
<1>2. /\ Once(queue') /\ Queued(queue') = Queued(queue) \ {op} /\ op \in Queued(queue)
      /\ outbox = {} /\ wake = {} /\ UNCHANGED <<calls, pending, answers>>
  BY ReceivedOwn DEF ReceiveStart
<1>3. Books(Queued(queue), Own(s), pending, PriorityResults(s), InFlight(IntentNames))
  BY <1>2, PriorityOwn
<1>4. PICK r : wake' = {[op |-> op, result |-> r]}
  BY <1>1
<1>5. outbox' \cup wake' = PriorityResults(s) \cup {[op |-> op, result |-> r]}
  BY <1>1, <1>2, <1>4
<1>6. Own(supervisor') = Own(s)
  <2>1. s \in Supervisors
    BY AfterPriorityEffect DEF SlotInv, Supervised
  <2>2. supervisor'.slot = s.slot
    BY <1>1, <2>1 DEF Supervisors
  <2> QED
    BY <2>2 DEF Own
<1>7. Books(Queued(queue) \ {op}, Own(s), pending, outbox' \cup wake', InFlight(IntentNames))
  BY <1>2, <1>3, <1>5, TakeBooks
<1> QED
  BY <1>2, <1>6, <1>7, FlyingSame DEF OwnInv

\* ReceiveStop keeps every request with exactly one owner.
LEMMA ReceiveStopOwn ==
  ASSUME SlotInv, OwnInv, NEW op \in Operations, ReceiveStop(op)
  PROVE  OwnInv'
<1>1. PICK s \in AfterPriority :
           \/ /\ s.slot = None
              /\ supervisor' = BeginStop(s)
              /\ wake' = {[op |-> op, result |-> "Closed"]}
              /\ outbox' = outbox
              /\ UNCHANGED pending
           \/ /\ s.slot # None /\ ~s.faulted
              /\ supervisor' = BeginStop(s)
              /\ pending' = pending \cup {op}
              /\ outbox' = outbox \cup PriorityResults(s)
              /\ UNCHANGED wake
           \/ /\ s.slot # None /\ s.faulted
              /\ \E h \in Exits(BeginStop(s).slot.g) :
                   /\ supervisor' = IF h.exit = "Clean"
                                    THEN [BeginStop(s) EXCEPT !.slot = None, !.faulted = FALSE]
                                    ELSE [BeginStop(s) EXCEPT !.slot.g = h]
                   /\ wake' = {[op |-> op, result |-> IF h.exit = "Clean" THEN "Closed"
                                                      ELSE "CleanupUnproven"]}
                   /\ outbox' = outbox \cup Settled(s.slot.g, h)
              /\ UNCHANGED pending
  BY DEF ReceiveStop
<1>2. /\ Once(queue') /\ Queued(queue') = Queued(queue) \ {op} /\ op \in Queued(queue)
      /\ outbox = {} /\ wake = {} /\ UNCHANGED <<calls, answers>>
  BY ReceivedOwn DEF ReceiveStop
<1>3. Books(Queued(queue), Own(s), pending, PriorityResults(s), InFlight(IntentNames))
  BY <1>2, PriorityOwn
<1>4. Supervised(s) /\ Follows(supervisor, s)
  BY AfterPriorityEffect DEF SlotInv
<1>5. Own(BeginStop(s)) = Own(s)
  BY <1>4, BeginStopEffect DEF Own
<1>6. CASE /\ s.slot = None
           /\ supervisor' = BeginStop(s)
           /\ wake' = {[op |-> op, result |-> "Closed"]}
           /\ outbox' = outbox
           /\ UNCHANGED pending
  <2>1. outbox' \cup wake' = PriorityResults(s) \cup {[op |-> op, result |-> "Closed"]}
    BY <1>2, <1>6 DEF PriorityResults
  <2>2. Books(Queued(queue) \ {op}, Own(s), pending, outbox' \cup wake', InFlight(IntentNames))
    BY <1>2, <1>3, <2>1, TakeBooks
  <2> QED
    BY <1>2, <1>5, <1>6, <2>2, FlyingSame DEF OwnInv
<1>7. CASE /\ s.slot # None /\ ~s.faulted
           /\ supervisor' = BeginStop(s)
           /\ pending' = pending \cup {op}
           /\ outbox' = outbox \cup PriorityResults(s)
           /\ UNCHANGED wake
  <2>1. outbox' \cup wake' = PriorityResults(s)
    BY <1>2, <1>7
  <2>2. Books(Queued(queue) \ {op}, Own(s), pending \cup {op}, outbox' \cup wake',
              InFlight(IntentNames))
    BY <1>2, <1>3, <2>1, TakeBooks
  <2> QED
    BY <1>2, <1>5, <1>7, <2>2, FlyingSame DEF OwnInv
<1>8. ASSUME s.slot # None, s.faulted, NEW h \in Exits(BeginStop(s).slot.g),
             supervisor' = IF h.exit = "Clean"
                           THEN [BeginStop(s) EXCEPT !.slot = None, !.faulted = FALSE]
                           ELSE [BeginStop(s) EXCEPT !.slot.g = h],
             wake' = {[op |-> op, result |-> IF h.exit = "Clean" THEN "Closed"
                                             ELSE "CleanupUnproven"]},
             outbox' = outbox \cup Settled(s.slot.g, h),
             UNCHANGED pending
      PROVE  OwnInv'
  <2> DEFINE r == IF h.exit = "Clean" THEN "Closed" ELSE "CleanupUnproven"
  <2>1. wake' = {[op |-> op, result |-> r]}
    BY <1>8
  <2> HIDE DEF r
  <2>2. /\ h \in Exits(s.slot.g)
        /\ h.exit = "Clean" => supervisor'.slot = None
        /\ h.exit # "Clean" => supervisor'.slot # None /\ supervisor'.slot.g = h
    BY <1>4, <1>8, RecoveredEffect
  <2>3. h.owned \subseteq Own(s) /\ Own(supervisor') = h.owned
    BY <1>4, <1>8, <2>2, ExitsEffect DEF Own, Supervised, Continues
  <2>4. Own(s) = Own(supervisor)
    BY <1>4, <1>8 DEF Follows, Own
  <2>5. outbox' = (outbox \cup wake) \cup Protocols(Own(supervisor) \ h.owned)
    BY <1>2, <1>8, <2>4, SettledProtocols DEF Own
  <2>6. Books(Queued(queue), h.owned, pending, outbox', InFlight(IntentNames))
    BY <2>3, <2>4, <2>5, SettleBooks DEF OwnInv
  <2>7. Books(Queued(queue) \ {op}, h.owned, pending, outbox' \cup wake', InFlight(IntentNames))
    BY <1>2, <2>1, <2>6, TakeBooks
  <2> QED
    BY <1>2, <1>8, <2>3, <2>7, FlyingSame DEF OwnInv
<1> QED
  BY <1>1, <1>6, <1>7, <1>8

\* ReceiveDisconnect keeps every request with exactly one owner.
LEMMA ReceiveDisconnectOwn ==
  ASSUME SlotInv, OwnInv, NEW op \in Operations, ReceiveDisconnect(op)
  PROVE  OwnInv'
<1>1. PICK s \in AfterPriority :
         /\ outbox' = outbox \cup PriorityResults(s)
         /\ Answer(op, DisconnectError(s, op))
         /\ supervisor' = IF DisconnectError(s, op) = None THEN BeginDisconnect(s) ELSE s
         /\ pending' = IF DisconnectError(s, op) = None THEN pending \cup {op} ELSE pending
  BY DEF ReceiveDisconnect, DisconnectError
<1>2. /\ Once(queue') /\ Queued(queue') = Queued(queue) \ {op} /\ op \in Queued(queue)
      /\ answers[op] = None /\ outbox = {} /\ wake = {} /\ UNCHANGED <<calls, wake>>
  BY ReceivedOwn DEF ReceiveDisconnect
<1>3. Books(Queued(queue), Own(s), pending, PriorityResults(s), InFlight(IntentNames))
  BY <1>2, PriorityOwn
<1>4. outbox' \cup wake' = PriorityResults(s)
  BY <1>1, <1>2
<1>5. CASE DisconnectError(s, op) # None
  <2>1. InFlight(IntentNames)' = InFlight(IntentNames) \ {op}
    BY <1>1, <1>2, <1>5, FlyingAnswered DEF SlotInv
  <2>2. Books(Queued(queue) \ {op}, Own(s), pending, PriorityResults(s),
              InFlight(IntentNames) \ {op})
    BY <1>2, <1>3, TakeBooks
  <2> QED
    BY <1>1, <1>2, <1>4, <1>5, <2>1, <2>2 DEF OwnInv
<1>6. CASE DisconnectError(s, op) = None
  <2>1. answers' = answers
    BY <1>1, <1>2, <1>6 DEF Answer, SlotInv, Typed
  <2>2. Own(supervisor') = Own(s) /\ pending' = pending \cup {op}
    BY <1>1, <1>6, AfterPriorityEffect, DisconnectCases, BeginDisconnectEffect DEF Own, SlotInv
  <2>3. Books(Queued(queue) \ {op}, Own(s), pending \cup {op}, PriorityResults(s),
              InFlight(IntentNames))
    BY <1>2, <1>3, TakeBooks
  <2> QED
    BY <1>2, <1>4, <2>1, <2>2, <2>3, FlyingSame DEF OwnInv
<1> QED
  BY <1>5, <1>6

\* FinalHandleDropped keeps every request with exactly one owner.
LEMMA FinalHandleDroppedOwn ==
  ASSUME SlotInv, OwnInv, FinalHandleDropped
  PROVE  OwnInv'
<1>1. PICK s \in AfterPriority :
       supervisor' = BeginStop(s) /\ outbox' = outbox \cup PriorityResults(s)
  BY DEF FinalHandleDropped
<1>2. /\ UNCHANGED <<queue, answers, pending, wake, calls>> /\ outbox = {} /\ wake = {}
  BY DEF FinalHandleDropped, Listening, Waiting, LoopLeaves, SlotInv, Owed
<1>3. Books(Queued(queue), Own(s), pending, PriorityResults(s), InFlight(IntentNames))
  BY <1>2, PriorityOwn
<1>4. Own(supervisor') = Own(s)
  BY <1>1, AfterPriorityEffect, BeginStopEffect DEF Own, SlotInv
<1>5. outbox' \cup wake' = PriorityResults(s)
  BY <1>1, <1>2
<1> QED
  BY <1>2, <1>3, <1>4, <1>5, FlyingSame DEF OwnInv

\* Connecting starts from an empty slot and ends with one that owns nothing.
LEMMA ConnectOwn ==
  ASSUME SlotInv, OwnInv, Connect
  PROVE  OwnInv'
<1>1. ConnectLeaves /\ supervisor.slot = None
  BY DEF Connect, GenerationExhausted, BeginAttempt, EndAttempt, Rebind, AcceptConnection,
         Connecting
<1>2. UNCHANGED <<queue, answers, pending, outbox, wake, calls>>
  BY <1>1 DEF ConnectLeaves, LoopLeaves
<1>3. supervisor'.slot = None \/ supervisor'.slot = [gen |-> supervisor.next, g |-> NewGeneration]
  BY <1>1 DEF Connect, GenerationExhausted, BeginAttempt, EndAttempt, Rebind, AcceptConnection,
              FaultSource, Connected, SlotInv, Supervised, Supervisors
<1>4. Own(supervisor') = {} /\ Own(supervisor) = {}
  BY <1>1, <1>3 DEF Own, NewGeneration
<1> QED
  BY <1>2, <1>4, FlyingSame DEF OwnInv

\* Tick keeps every request with exactly one owner.
LEMMA TickOwn ==
  ASSUME SlotInv, OwnInv, Tick
  PROVE  OwnInv'
<1>1. supervisor'.slot = supervisor.slot
  BY DEF Tick, SlotInv, Supervised, Supervisors
<1>2. UNCHANGED <<queue, answers, pending, outbox, wake, calls>>
  BY DEF Tick
<1> QED
  BY <1>1, <1>2, FlyingSame DEF OwnInv, Own

\* EndRuntime keeps every request with exactly one owner.
LEMMA EndRuntimeOwn ==
  ASSUME SlotInv, OwnInv, EndRuntime
  PROVE  OwnInv'
<1>1. queue' = <<>> /\ pending' = {} /\ outbox' = {} /\ wake' = {}
  BY DEF EndRuntime
<1>2. Own(supervisor') = {}
  BY EndRuntimeSlot DEF SlotInv, Owed, Own, EndRuntime
<1>3. InFlight(IntentNames)' = {}
  <2> SUFFICES ASSUME NEW op \in Operations, op \in InFlight(IntentNames)' PROVE FALSE
    BY DEF InFlight
  <2>1. op \in InFlight(IntentNames) => answers'[op] = "RuntimeStopped"
    BY DEF EndRuntime
  <2>2. op \notin InFlight(IntentNames) => answers'[op] = answers[op]
    BY DEF EndRuntime
  <2>3. "RuntimeStopped" # None
    BY NoneAssumption DEF Results
  <2>4. calls' = calls
    BY DEF EndRuntime
  <2> QED
    BY <2>1, <2>2, <2>3, <2>4 DEF InFlight
<1>4. Queued(queue') = {} /\ Once(queue') /\ outbox' \cup wake' = {}
  BY <1>1 DEF Queued, Once
<1>5. Books({}, {}, {}, {}, {})
  BY DEF Books
<1> QED
  BY <1>1, <1>2, <1>3, <1>4, <1>5 DEF OwnInv

\* Every step keeps the books.
LEMMA OwnKept ==
  ASSUME SlotInv, OwnInv, [Next]_vars
  PROVE  OwnInv'
<1>1. CASE Handles
  <2>1. ASSUME DropHandles PROVE OwnInv'
    <3>1. UNCHANGED <<queue, answers, pending, outbox, wake, calls, supervisor>>
      BY <2>1 DEF DropHandles
    <3> QED
      BY <3>1, FlyingSame DEF OwnInv
  <2> QED
    BY <1>1, <2>1, CaptureOwn, SendOwn DEF Handles
<1>2. CASE Receive
  BY <1>2, ReceiveRoutedOwn, ReceiveStartOwn, ReceiveStopOwn, ReceiveDisconnectOwn,
     FinalHandleDroppedOwn DEF Receive
<1>3. CASE Return \/ Abort
  BY <1>3, EndRuntimeOwn DEF Return, Abort
<1>4. CASE UNCHANGED vars
  <2>1. UNCHANGED <<queue, answers, pending, outbox, wake, calls, supervisor>>
    BY <1>4 DEF vars
  <2> QED
    BY <2>1, FlyingSame DEF OwnInv
<1> QED
  BY <1>1, <1>2, <1>3, <1>4, PublishOwn, FlushOwn, FinishGenerationOwn, StepCurrentOwn,
     ConnectOwn, TickOwn DEF Next

\* The permits that are out: none is counted twice, none is handed out beyond its
\* semaphore.
Permits ==
  /\ IsFiniteSet(InFlight({"Stop", "Disconnect"})) /\ Cardinality(InFlight({"Stop", "Disconnect"})) <= 1
  /\ IsFiniteSet(InFlight({"Reply"})) /\ Cardinality(InFlight({"Reply"})) <= ReplyCapacity
  /\ IsFiniteSet(InFlight({"Start", "Control", "Data"}))
  /\ Cardinality(InFlight({"Start", "Control", "Data"})) <= Capacity

\* A class of requests in flight that only shrinks stays within its bound.
LEMMA FewerPermits ==
  ASSUME NEW S, IsFiniteSet(S), NEW n \in Nat, Cardinality(S) <= n, NEW T \in SUBSET S
  PROVE  IsFiniteSet(T) /\ Cardinality(T) <= n
BY FS_Subset, FS_CardinalityType

\* One permit more.
LEMMA OneMorePermit ==
  ASSUME NEW S, IsFiniteSet(S), NEW n \in Nat, Cardinality(S) < n, NEW op
  PROVE  IsFiniteSet(S \cup {op}) /\ Cardinality(S \cup {op}) <= n
<1>1. /\ IsFiniteSet(S \cup {op})
      /\ Cardinality(S \cup {op}) = IF op \in S THEN Cardinality(S) ELSE Cardinality(S) + 1
  BY FS_AddElement
<1>2. Cardinality(S) \in Nat
  BY FS_CardinalityType
<1> QED
  BY <1>1, <1>2

\* A step that sends nothing keeps the permits balanced.
LEMMA PermitsShrink ==
  ASSUME Permits, \A X \in SUBSET IntentNames : InFlight(X)' \subseteq InFlight(X)
  PROVE  Permits'
<1>1. /\ InFlight({"Stop", "Disconnect"})' \subseteq InFlight({"Stop", "Disconnect"})
      /\ InFlight({"Reply"})' \subseteq InFlight({"Reply"})
      /\ InFlight({"Start", "Control", "Data"})' \subseteq InFlight({"Start", "Control", "Data"})
  BY DEF IntentNames
<1> QED
  BY <1>1, FewerPermits, EndpointAssumption DEF Permits

\* Only a Send takes a permit.
LEMMA InFlightShrinks ==
  ASSUME SlotInv, OwnInv, [Next]_vars, \A op \in Operations : ~Send(op)
  PROVE  \A X \in SUBSET IntentNames : InFlight(X)' \subseteq InFlight(X)
<1>1. ASSUME UNCHANGED calls, \A op \in Operations : answers'[op] = None => answers[op] = None
      PROVE  \A X \in SUBSET IntentNames : InFlight(X)' \subseteq InFlight(X)
  BY <1>1 DEF InFlight
<1>2. ASSUME NEW op \in Operations, NEW intent \in Intents, Capture(op, intent)
      PROVE  \A X \in SUBSET IntentNames : InFlight(X)' \subseteq InFlight(X)
  <2>1. ~calls'[op].sent
    BY <1>2 DEF Capture, SlotInv, Typed
  <2>2. \A x \in Operations \ {op} : calls'[x] = calls[x] /\ answers'[x] = answers[x]
    BY <1>2 DEF Capture, Answer, SlotInv, Typed
  <2> QED
    BY <2>1, <2>2 DEF InFlight
<1>3. CASE Flush
  <2>1. \A c \in outbox \cup wake : c.result # None
    BY NoneAssumption DEF SlotInv, Typed, Results
  <2>2. \A op \in Operations : answers'[op] = None => answers[op] = None
    BY <1>3, <2>1 DEF Flush
  <2> QED
    BY <1>1, <1>3, <2>2 DEF Flush
<1>4. ASSUME NEW op \in Operations, ReceiveDisconnect(op) \/ ReceiveRouted(op)
      PROVE  \A X \in SUBSET IntentNames : InFlight(X)' \subseteq InFlight(X)
  <2>1. answers[op] = None /\ UNCHANGED calls
    BY <1>4, ReceivedOwn DEF ReceiveDisconnect, ReceiveRouted
  <2>2. \A x \in Operations : x # op => answers'[x] = answers[x]
    BY <1>4 DEF ReceiveDisconnect, ReceiveRouted, Answer, SlotInv, Typed
  <2> QED
    BY <1>1, <2>1, <2>2
<1>5. CASE EndRuntime
  <2>1. \A op \in Operations : answers'[op] = None => answers[op] = None
    BY <1>5, NoneAssumption DEF EndRuntime, Results
  <2> QED
    BY <1>1, <1>5, <2>1 DEF EndRuntime
<1>6. CASE UNCHANGED <<calls, answers>>
  BY <1>6 DEF InFlight
<1> QED
  BY <1>2, <1>3, <1>4, <1>5, <1>6
  DEF Next, vars, Handles, DropHandles, Publish, FinishGeneration, StepCurrent, LoopLeaves,
      Receive, ReceiveStart, ReceiveStop, Received, FinalHandleDropped, Connect, ConnectLeaves,
      GenerationExhausted, BeginAttempt, EndAttempt, Rebind, AcceptConnection, Tick, Return, Abort

\* Every step keeps the permits of the command channel balanced.
LEMMA PermitsKept ==
  ASSUME SlotInv, OwnInv, Permits, [Next]_vars
  PROVE  Permits'
<1>1. CASE \A op \in Operations : ~Send(op)
  BY <1>1, InFlightShrinks, PermitsShrink
<1>2. ASSUME NEW op \in Operations, Send(op)
      PROVE  Permits'
  <2>1. calls[op] # None /\ ~calls[op].sent /\ answers[op] = None /\ calls[op] \in Calls
    BY <1>2 DEF Send, SlotInv, Typed
  <2>2. CASE UNCHANGED calls
    <3>1. \A x \in Operations : answers'[x] = None => answers[x] = None
      BY <1>2, <2>1 DEF Send, Answer, SlotInv, Typed
    <3>2. \A X \in SUBSET IntentNames : InFlight(X)' \subseteq InFlight(X)
      BY <2>2, <3>1 DEF InFlight
    <3> QED
      BY <3>2, PermitsShrink
  <2>3. CASE /\ calls' = [calls EXCEPT ![op].sent = TRUE]
             /\ PermitFree(calls[op].intent) /\ UNCHANGED answers
    <3>1. calls'[op].intent = calls[op].intent
      BY <2>1, <2>3 DEF SlotInv, Typed, Calls
    <3>2. \A x \in Operations \ {op} : calls'[x] = calls[x]
      BY <2>3 DEF SlotInv, Typed
    <3>3. \A X \in SUBSET IntentNames :
            /\ calls[op].intent \notin X => InFlight(X)' \subseteq InFlight(X)
            /\ InFlight(X)' \subseteq InFlight(X) \cup {op}
      BY <2>3, <3>1, <3>2 DEF InFlight
    <3>4. calls[op].intent \in IntentNames
      BY <2>1, EndpointAssumption DEF Calls
    <3>5. CASE calls[op].intent \in {"Stop", "Disconnect"}
      <4>1. /\ InFlight({"Stop", "Disconnect"})' \subseteq InFlight({"Stop", "Disconnect"}) \cup {op}
            /\ InFlight({"Reply"})' \subseteq InFlight({"Reply"})
            /\ InFlight({"Start", "Control", "Data"})' \subseteq InFlight({"Start", "Control", "Data"})
        BY <3>3, <3>5 DEF IntentNames
      <4>2. Cardinality(InFlight({"Stop", "Disconnect"})) < 1
        BY <2>3, <3>5, FS_EmptySet DEF PermitFree
      <4> QED
        BY <4>1, <4>2, FewerPermits, OneMorePermit, EndpointAssumption DEF Permits
    <3>6. CASE calls[op].intent = "Reply"
      <4>1. /\ InFlight({"Stop", "Disconnect"})' \subseteq InFlight({"Stop", "Disconnect"})
            /\ InFlight({"Reply"})' \subseteq InFlight({"Reply"}) \cup {op}
            /\ InFlight({"Start", "Control", "Data"})' \subseteq InFlight({"Start", "Control", "Data"})
        BY <3>3, <3>6 DEF IntentNames
      <4>2. Cardinality(InFlight({"Reply"})) < ReplyCapacity
        BY <2>3, <3>6 DEF PermitFree
      <4> QED
        BY <4>1, <4>2, FewerPermits, OneMorePermit, EndpointAssumption DEF Permits
    <3>7. CASE calls[op].intent \in {"Start", "Control", "Data"}
      <4>1. /\ InFlight({"Stop", "Disconnect"})' \subseteq InFlight({"Stop", "Disconnect"})
            /\ InFlight({"Reply"})' \subseteq InFlight({"Reply"})
            /\ InFlight({"Start", "Control", "Data"})' \subseteq
                 InFlight({"Start", "Control", "Data"}) \cup {op}
        BY <3>3, <3>7 DEF IntentNames
      <4>2. Cardinality(InFlight({"Start", "Control", "Data"})) < Capacity
        BY <2>3, <3>7 DEF PermitFree
      <4> QED
        BY <4>1, <4>2, FewerPermits, OneMorePermit, EndpointAssumption DEF Permits
    <3> QED
      BY <3>4, <3>5, <3>6, <3>7 DEF IntentNames
  <2> QED
    BY <1>2, <2>2, <2>3 DEF Send
<1> QED
  BY <1>1, <1>2

\* The channel holds requests in flight, each of them once.
LEMMA QueueIsShort ==
  ASSUME Typed, OwnInv, IsFiniteSet(InFlight(IntentNames))
  PROVE  Len(queue) <= Cardinality(InFlight(IntentNames))
<1>1. DOMAIN queue = 1..Len(queue) /\ Len(queue) \in Nat
  BY DEF Typed
<1>2. queue \in Injection(1..Len(queue), InFlight(IntentNames))
  BY <1>1 DEF Injection, IsInjective, OwnInv, Once, Books, Queued, Typed
<1>3. Cardinality(1..Len(queue)) <= Cardinality(InFlight(IntentNames))
  BY <1>2, FS_Injection
<1>4. Cardinality(1..Len(queue)) = IF 1 > Len(queue) THEN 0 ELSE Len(queue) - 1 + 1
  BY <1>1, FS_Interval
<1> QED
  BY <1>1, <1>3, <1>4

\* A union has no more elements than its parts.
LEMMA UnionBound ==
  ASSUME NEW S, IsFiniteSet(S), NEW T, IsFiniteSet(T)
  PROVE  IsFiniteSet(S \cup T) /\ Cardinality(S \cup T) <= Cardinality(S) + Cardinality(T)
<1>1. /\ IsFiniteSet(S \cup T)
      /\ Cardinality(S \cup T) = Cardinality(S) + Cardinality(T) - Cardinality(S \cap T)
  BY FS_Union
<1>2. IsFiniteSet(S \cap T)
  BY FS_Intersection
<1>3. Cardinality(S) \in Nat /\ Cardinality(T) \in Nat /\ Cardinality(S \cap T) \in Nat
  BY <1>2, FS_CardinalityType
<1> QED
  BY <1>1, <1>3

\* A request in flight holds a permit, so the channel has room for it.
LEMMA PermitsMeanRoom ==
  ASSUME Typed, OwnInv, Permits
  PROVE  PermitMeansRoom
<1> DEFINE A == InFlight({"Stop", "Disconnect"})
           B == InFlight({"Reply"})
           C == InFlight({"Start", "Control", "Data"})
<1>1. InFlight(IntentNames) = (A \cup B) \cup C
  BY DEF InFlight, IntentNames
<1>2. /\ IsFiniteSet(A) /\ IsFiniteSet(B) /\ IsFiniteSet(C)
      /\ Cardinality(A) <= 1 /\ Cardinality(B) <= ReplyCapacity /\ Cardinality(C) <= Capacity
  BY DEF Permits
<1>3. \A intent \in Intents :
        PermitFree(intent) => \/ Cardinality(A) < 1
                              \/ Cardinality(B) < ReplyCapacity
                              \/ Cardinality(C) < Capacity
  BY FS_EmptySet DEF PermitFree
<1> HIDE DEF A, B, C
<1>4. /\ IsFiniteSet(A \cup B)
      /\ Cardinality(A \cup B) <= Cardinality(A) + Cardinality(B)
  BY <1>2, UnionBound
<1>5. /\ IsFiniteSet((A \cup B) \cup C)
      /\ Cardinality((A \cup B) \cup C) <= Cardinality(A \cup B) + Cardinality(C)
  BY <1>2, <1>4, UnionBound
<1>6. Len(queue) <= Cardinality((A \cup B) \cup C)
  BY <1>1, <1>5, QueueIsShort
<1>7. /\ Cardinality(A) \in Nat /\ Cardinality(B) \in Nat /\ Cardinality(C) \in Nat
      /\ Cardinality(A \cup B) \in Nat /\ Cardinality((A \cup B) \cup C) \in Nat
      /\ Len(queue) \in Nat
  BY <1>2, <1>4, <1>5, FS_CardinalityType DEF Typed
<1> QED
  BY <1>2, <1>3, <1>4, <1>5, <1>6, <1>7, EndpointAssumption DEF PermitMeansRoom, ChannelCapacity

\* The books of the invariant imply the one-owner property of the run.
LEMMA BooksMeanOneOwner ==
  ASSUME Typed, OwnInv
  PROVE  RequestHasOneOwner
<1> SUFFICES ASSUME NEW op \in Operations
             PROVE  Places(op) = IF op \in InFlight(IntentNames) THEN 1 ELSE 0
  BY DEF RequestHasOneOwner
<1> DEFINE I == {i \in DOMAIN queue : queue[i] = op}
           R == {c \in outbox \cup wake : c.op = op}
<1>1. Owned = Own(supervisor)
  BY DEF Owned, Own
<1>2. Cardinality(I) = IF op \in Queued(queue) THEN 1 ELSE 0
  <2>1. CASE op \in Queued(queue)
    <3>1. PICK i \in DOMAIN queue : queue[i] = op
      BY <2>1 DEF Queued
    <3>2. I = {i}
      BY <3>1 DEF OwnInv, Once
    <3> QED
      BY <2>1, <3>2, FS_Singleton
  <2>2. CASE op \notin Queued(queue)
    <3>1. I = {}
      BY <2>2 DEF Queued
    <3> QED
      BY <2>2, <3>1, FS_EmptySet
  <2> QED
    BY <2>1, <2>2
<1>3. Cardinality(R) = IF \E c \in outbox \cup wake : c.op = op THEN 1 ELSE 0
  <2>1. CASE \E c \in outbox \cup wake : c.op = op
    <3>1. PICK c \in outbox \cup wake : c.op = op
      BY <2>1
    <3>2. R = {c}
      BY <3>1 DEF OwnInv, Books
    <3> QED
      BY <2>1, <3>2, FS_Singleton
  <2>2. CASE ~\E c \in outbox \cup wake : c.op = op
    <3>1. R = {}
      BY <2>2
    <3> QED
      BY <2>2, <3>1, FS_EmptySet
  <2> QED
    BY <2>1, <2>2
<1>4. Places(op) = Cardinality(I) + (IF op \in Owned THEN 1 ELSE 0)
                   + (IF op \in pending THEN 1 ELSE 0) + Cardinality(R)
  BY DEF Places
<1> HIDE DEF I, R
<1> QED
  BY <1>1, <1>2, <1>3, <1>4 DEF OwnInv, Books

\* Ownership of requests holds in every behaviour of the endpoint.
LEMMA OwnAlways == Spec => [](SlotInv /\ OwnInv /\ Permits)
<1>1. Init => OwnInv /\ Permits
  <2> SUFFICES ASSUME Init PROVE OwnInv /\ Permits
    OBVIOUS
  <2>1. \A X : InFlight(X) = {}
    BY DEF Init, InFlight
  <2>2. Queued(queue) = {} /\ Once(queue) /\ Own(supervisor) = {} /\ outbox \cup wake = {}
        /\ pending = {}
    BY DEF Init, Queued, Once, Own
  <2> QED
    BY <2>1, <2>2, FS_EmptySet, EndpointAssumption DEF OwnInv, Books, Permits
<1>2. SlotInv /\ OwnInv /\ Permits /\ [Next]_vars => OwnInv' /\ Permits'
  BY OwnKept, PermitsKept
<1> QED
  BY <1>1, <1>2, SlotAlways, PTL DEF Spec

\* A request that was sent is in exactly one place until it is answered, and the
\* channel has room for every request with a permit, whatever the capacities.
THEOREM RequestsAlwaysOwned == Spec => []RequestsAreOwned
<1>1. SlotInv /\ OwnInv /\ Permits => RequestsAreOwned
  BY TypesAreTyped, BooksMeanOneOwner, PermitsMeanRoom DEF SlotInv, Supervised, RequestsAreOwned
<1> QED
  BY <1>1, OwnAlways, PTL

-----------------------------------------------------------------------------
(* Execution.                                                              *)

\* The results that hand a request back as never given to a generation.
Refused == {"StaleConnectionGeneration", "Faulted", "NotConnected", "Backpressure", "Rejected"}

\* Only a sent request that has left the channel was executed, on the connection it
\* captured; the results that refuse one are about requests that were not.
ReplayInv ==
  /\ \A op \in Operations :
       /\ \A g \in executed[op] : g = calls[op].gen
       /\ calls[op] = None \/ ~calls[op].sent => executed[op] = {}
       /\ answers[op] \in Refused => executed[op] = {}
  /\ \A op \in Queued(queue) : executed[op] = {}
  /\ \A c \in outbox \cup wake : c.result \in Refused => executed[c.op] = {}

\* What a step that executes nothing has to show.
LEMMA ReplayFrame ==
  ASSUME ReplayInv, UNCHANGED executed,
         \A op \in Operations : calls'[op] = calls[op] \/ executed[op] = {},
         \A op \in Operations :
           answers'[op] = answers[op] \/ answers'[op] \notin Refused \/ executed[op] = {},
         \A op \in Queued(queue') : op \in Queued(queue) \/ executed[op] = {},
         \A c \in outbox' \cup wake' :
           c \in outbox \cup wake \/ c.result \notin Refused \/ executed[c.op] = {}
  PROVE  ReplayInv'
BY DEF ReplayInv

\* The results of a generation are not refusals.
LEMMA SettledAccepts ==
  ASSUME NEW g, NEW h
  PROVE  \A c \in Settled(g, h) : c.result \notin Refused
BY DEF Settled, Refused

\* A result of the Driver is never the refusal of an accepted request.
LEMMA PriorityAccepts ==
  ASSUME NEW s
  PROVE  \A c \in PriorityResults(s) : c.result \notin Refused
BY SettledAccepts DEF PriorityResults

\* No step of a handle hands an accepted request over again.
LEMMA HandlesReplay ==
  ASSUME SlotInv, OwnInv, ReplayInv, Handles
  PROVE  ReplayInv'
<1>1. ASSUME NEW op \in Operations, NEW intent \in Intents, Capture(op, intent)
      PROVE  ReplayInv'
  <2>1. executed[op] = {} /\ UNCHANGED <<queue, executed, outbox, wake>>
    BY <1>1 DEF Capture, HandleLeaves, ReplayInv
  <2>2. \A x \in Operations \ {op} : calls'[x] = calls[x] /\ answers'[x] = answers[x]
    BY <1>1 DEF Capture, Answer, SlotInv, Typed
  <2> QED
    BY <2>1, <2>2, ReplayFrame
<1>2. ASSUME NEW op \in Operations, Send(op)
      PROVE  ReplayInv'
  <2>1. executed[op] = {} /\ UNCHANGED <<executed, outbox, wake>>
    BY <1>2 DEF Send, HandleLeaves, ReplayInv
  <2>2. \A x \in Operations \ {op} : calls'[x] = calls[x] /\ answers'[x] = answers[x]
    BY <1>2 DEF Send, Answer, SlotInv, Typed
  <2>3. \A x \in Queued(queue') : x \in Queued(queue) \/ x = op
    <3>1. CASE UNCHANGED queue
      BY <3>1
    <3>2. CASE queue' = Append(queue, op)
      <4>1. op \notin Queued(queue)
        <5>1. op \notin InFlight(IntentNames)
          BY <1>2 DEF Send, InFlight
        <5> QED
          BY <5>1 DEF OwnInv, Books
      <4> QED
        BY <3>2, <4>1, AppendQueued DEF OwnInv, SlotInv, Typed
    <3> QED
      BY <1>2, <3>1, <3>2 DEF Send
  <2> QED
    BY <2>1, <2>2, <2>3, ReplayFrame
<1>3. CASE DropHandles
  BY <1>3, ReplayFrame DEF DropHandles
<1> QED
  BY <1>1, <1>2, <1>3 DEF Handles

\* No step of the loop hands an accepted request over again.
LEMMA LoopReplay ==
  ASSUME SlotInv, OwnInv, ReplayInv, Publish \/ Flush \/ FinishGeneration \/ StepCurrent
  PROVE  ReplayInv'
<1>1. CASE Publish
  <2>1. \A c \in outbox' : c \in outbox \/ c.result \notin Refused
    BY <1>1, PublishEffect, SettledAccepts DEF SlotInv
  <2> QED
    BY <1>1, <2>1, ReplayFrame DEF Publish
<1>2. CASE Flush
  <2>1. ASSUME NEW op \in Operations
        PROVE  answers'[op] = answers[op] \/ answers'[op] \notin Refused \/ executed[op] = {}
    <3>1. CASE \E c \in outbox \cup wake : c.op = op
      <4>1. PICK c \in outbox \cup wake : c.op = op /\ answers'[op] = c.result
        BY <1>2, <3>1 DEF Flush
      <4> QED
        BY <4>1 DEF ReplayInv
    <3>2. CASE ~\E c \in outbox \cup wake : c.op = op
      BY <1>2, <3>2 DEF Flush
    <3> QED
      BY <3>1, <3>2
  <2> QED
    BY <1>2, <2>1, ReplayFrame DEF Flush
<1>3. CASE FinishGeneration
  <2>1. \A c \in outbox' : c \in outbox \/ c.result \notin Refused
    BY <1>3, SettledAccepts DEF FinishGeneration
  <2>2. \A c \in wake' : c.result \notin Refused
    BY <1>3 DEF FinishGeneration, Refused
  <2> QED
    BY <1>3, <2>1, <2>2, ReplayFrame DEF FinishGeneration, LoopLeaves
<1>4. CASE StepCurrent
  <2>1. \A c \in outbox' : c \in outbox \/ c.result \notin Refused
    BY <1>4, SettledAccepts DEF StepCurrent
  <2> QED
    BY <1>4, <2>1, ReplayFrame DEF StepCurrent, LoopLeaves
<1> QED
  BY <1>1, <1>2, <1>3, <1>4

\* ReceiveRouted hands no accepted request over a second time.
LEMMA ReceiveRoutedReplay ==
  ASSUME SlotInv, OwnInv, ReplayInv, NEW op \in Operations, ReceiveRouted(op)
  PROVE  ReplayInv'
<1>1. PICK s \in AfterPriority :
       \/ /\ RouteError(s, op) # None
          /\ outbox' = outbox \cup PriorityResults(s)
          /\ Answer(op, RouteError(s, op))
          /\ UNCHANGED executed
       \/ /\ outbox' = outbox \cup PriorityResults(s) \cup {[op |-> op, result |-> "Rejected"]}
          /\ UNCHANGED <<answers, executed>>
       \/ /\ RouteError(s, op) = None
          /\ outbox' = outbox \cup PriorityResults(s)
          /\ executed' = [executed EXCEPT ![op] = @ \cup {s.slot.gen}]
          /\ UNCHANGED answers
  BY DEF ReceiveRouted
<1>2. /\ Queued(queue') = Queued(queue) \ {op} /\ op \in Queued(queue)
      /\ answers[op] = None /\ outbox = {} /\ wake = {} /\ UNCHANGED <<calls, wake>>
      /\ calls[op] # None /\ calls[op].sent
  BY ReceivedOwn DEF ReceiveRouted
<1>3. executed[op] = {}
  BY <1>2 DEF ReplayInv
<1>4. CASE UNCHANGED executed
  <2>1. \A x \in Operations : answers'[x] = answers[x] \/ x = op
    BY <1>1 DEF Answer, SlotInv, Typed
  <2>2. \A c \in outbox' : c \in PriorityResults(s) \/ c.op = op
    BY <1>1, <1>2
  <2> QED
    BY <1>2, <1>3, <1>4, <2>1, <2>2, PriorityAccepts, ReplayFrame
<1>5. CASE /\ RouteError(s, op) = None
           /\ outbox' = outbox \cup PriorityResults(s)
           /\ executed' = [executed EXCEPT ![op] = @ \cup {s.slot.gen}]
           /\ UNCHANGED answers
  <2>1. s.slot.gen = calls[op].gen
    BY <1>5, NoneAssumption DEF RouteError, Results
  <2>2. executed'[op] = {s.slot.gen} /\ \A x \in Operations \ {op} : executed'[x] = executed[x]
    BY <1>3, <1>5 DEF SlotInv, Typed
  <2>3. None \notin Refused
    BY NoneAssumption DEF Refused, Results
  <2>4. \A x \in Operations :
          /\ \A g \in executed'[x] : g = calls'[x].gen
          /\ calls'[x] = None \/ ~calls'[x].sent => executed'[x] = {}
          /\ answers'[x] \in Refused => executed'[x] = {}
    BY <1>2, <1>5, <2>1, <2>2, <2>3 DEF ReplayInv
  <2>5. \A x \in Queued(queue') : executed'[x] = {}
    <3>1. Queued(queue) \subseteq Operations
      BY DEF Queued, SlotInv, Typed
    <3> QED
      BY <1>2, <2>2, <3>1 DEF ReplayInv
  <2>6. \A c \in outbox' \cup wake' : c.result \notin Refused
    BY <1>2, <1>5, PriorityAccepts
  <2> QED
    BY <2>4, <2>5, <2>6 DEF ReplayInv
<1> QED
  BY <1>1, <1>4, <1>5

\* The other commands are not given to a generation.
LEMMA ReceiveOtherReplay ==
  ASSUME SlotInv, OwnInv, ReplayInv, NEW op \in Operations,
         ReceiveStart(op) \/ ReceiveStop(op) \/ ReceiveDisconnect(op)
  PROVE  ReplayInv'
<1>1. /\ Queued(queue') = Queued(queue) \ {op} /\ op \in Queued(queue)
      /\ outbox = {} /\ wake = {} /\ UNCHANGED <<calls, executed>>
  BY ReceivedOwn DEF ReceiveStart, ReceiveStop, ReceiveDisconnect
<1>2. executed[op] = {}
  BY <1>1 DEF ReplayInv
<1>3. \A x \in Operations : answers'[x] = answers[x] \/ x = op
  BY DEF ReceiveStart, ReceiveStop, ReceiveDisconnect, Answer, SlotInv, Typed
<1>4. \A c \in wake' : c \in wake \/ c.op = op
  <2>1. UNCHANGED wake \/ \E r : wake' = {[op |-> op, result |-> r]}
    <3>1. ReceiveStart(op) => \E r : wake' = {[op |-> op, result |-> r]}
      BY DEF ReceiveStart
    <3>2. ReceiveStop(op) => UNCHANGED wake \/ \E r : wake' = {[op |-> op, result |-> r]}
      BY DEF ReceiveStop
    <3> QED
      BY <3>1, <3>2 DEF ReceiveDisconnect
  <2> QED
    BY <2>1
<1>5. \A c \in outbox' : c.result \notin Refused
  BY <1>1, PriorityAccepts, SettledAccepts DEF ReceiveStart, ReceiveStop, ReceiveDisconnect
<1> QED
  BY <1>1, <1>2, <1>3, <1>4, <1>5, ReplayFrame

\* The remaining steps leave the accepted requests alone.
LEMMA RestReplay ==
  ASSUME SlotInv, OwnInv, ReplayInv,
         FinalHandleDropped \/ Connect \/ Tick \/ Return \/ Abort \/ UNCHANGED vars
  PROVE  ReplayInv'
<1>1. CASE FinalHandleDropped
  <2>1. \A c \in outbox' : c \in outbox \/ c.result \notin Refused
    BY <1>1, PriorityAccepts DEF FinalHandleDropped
  <2> QED
    BY <1>1, <2>1, ReplayFrame DEF FinalHandleDropped, LoopLeaves
<1>2. CASE Connect
  <2>1. UNCHANGED <<queue, answers, outbox, wake, executed, calls>>
    BY <1>2 DEF Connect, GenerationExhausted, BeginAttempt, EndAttempt, Rebind, AcceptConnection,
                ConnectLeaves, LoopLeaves
  <2> QED
    BY <2>1, ReplayFrame
<1>3. CASE Tick
  BY <1>3, ReplayFrame DEF Tick
<1>4. CASE EndRuntime
  <2>1. \A op \in Operations : answers'[op] = answers[op] \/ answers'[op] \notin Refused
    BY <1>4 DEF EndRuntime, Refused
  <2>2. Queued(queue') = {} /\ outbox' \cup wake' = {} /\ UNCHANGED <<calls, executed>>
    BY <1>4 DEF EndRuntime, Queued
  <2> QED
    BY <2>1, <2>2, ReplayFrame
<1>5. CASE UNCHANGED vars
  BY <1>5, ReplayFrame DEF vars
<1> QED
  BY <1>1, <1>2, <1>3, <1>4, <1>5 DEF Return, Abort

\* The replay invariant holds in every behaviour of the endpoint.
LEMMA ReplayAlways == Spec => []ReplayInv
<1>1. Init => ReplayInv
  BY NoneAssumption DEF Init, ReplayInv, Refused, Results, Queued
<1>2. SlotInv /\ OwnInv /\ ReplayInv /\ [Next]_vars => ReplayInv'
  BY HandlesReplay, LoopReplay, ReceiveRoutedReplay, ReceiveOtherReplay, RestReplay
  DEF Next, Receive
<1> QED
  BY <1>1, <1>2, OwnAlways, PTL DEF Spec

\* receive's route: a request runs on the connection its caller saw or nowhere, and
\* a result that hands it back says so truly, however long it waited in the channel.
THEOREM RequestsNeverReplayed == Spec => []NeverReplayed
<1>1. ReplayInv => NeverReplayed
  BY DEF ReplayInv, NeverReplayed, Refused
<1> QED
  BY <1>1, ReplayAlways, PTL

-----------------------------------------------------------------------------
(* Publication.                                                            *)

\* A lifecycle result that waits agrees with the supervisor s it is about.
ResultHolds(s, c) ==
  /\ c.result = "Closed" =>
       s.slot = None /\ (calls[c.op].intent = "Stop" => ~s.running /\ ~s.faulted)
  /\ c.result = "Started" => s.running

\* The snapshot is current when results are handed out and while the loop waits;
\* a pending Stop has ended running intent.
PubInv ==
  /\ pc \in {"flush", "select"} => snapshot = Coherent(supervisor)
  /\ \A c \in wake : ResultHolds(supervisor, c)
  /\ \A op \in pending : calls[op].intent = "Stop" => ~supervisor.running

\* The calls of requests in flight are not touched by handles.
LEMMA HandlesPub ==
  ASSUME SlotInv, OwnInv, PubInv, Handles
  PROVE  PubInv'
<1>1. UNCHANGED <<supervisor, pending, wake, lastExit, snapshot, pc>>
  BY DEF Handles, Capture, Send, DropHandles, HandleLeaves
<1>2. \A op \in Operations : op \in InFlight(IntentNames) => calls'[op] = calls[op]
  BY DEF Handles, Capture, Send, DropHandles, InFlight, SlotInv, Typed
<1>3. \A c \in wake : c.op \in Operations /\ c.op \in InFlight(IntentNames)
  BY DEF OwnInv, Books, SlotInv, Typed
<1>4. \A op \in pending : op \in Operations /\ op \in InFlight(IntentNames)
  BY DEF OwnInv, Books, SlotInv, Typed
<1>5. snapshot = Coherent(supervisor) => (snapshot = Coherent(supervisor))'
  BY <1>1 DEF Coherent
<1>6. \A c \in wake' : ResultHolds(supervisor, c)'
  BY <1>1, <1>2, <1>3 DEF PubInv, ResultHolds
<1>7. \A op \in pending' : calls'[op].intent = "Stop" => ~supervisor'.running
  BY <1>1, <1>2, <1>4 DEF PubInv
<1> QED
  BY <1>1, <1>5, <1>6, <1>7 DEF PubInv

\* Publish answers no caller ahead of the published snapshot.
LEMMA PublishPub ==
  ASSUME SlotInv, PubInv, Publish
  PROVE  PubInv'
<1>1. UNCHANGED <<calls, pending, wake, lastExit>> /\ pc' = "flush"
  BY DEF Publish
<1>2. (snapshot = Coherent(supervisor))'
  BY <1>1, PublishEffect DEF SlotInv, Coherent
<1>3. \A c \in wake' : ResultHolds(supervisor, c)'
  BY <1>1, PublishEffect DEF SlotInv, PubInv, ResultHolds
<1>4. \A op \in pending' : calls'[op].intent = "Stop" => ~supervisor'.running
  BY <1>1, PublishEffect DEF SlotInv, PubInv
<1> QED
  BY <1>2, <1>3, <1>4 DEF PubInv

\* FinishGeneration answers no caller ahead of the published snapshot.
LEMMA FinishGenerationPub ==
  ASSUME SlotInv, PubInv, FinishGeneration
  PROVE  PubInv'
<1>1. UNCHANGED calls /\ pc' = "publish" /\ pending' = {} /\ supervisor.slot # None
      /\ ~supervisor.faulted
  BY DEF FinishGeneration, LoopLeaves, SlotClosed
<1>2. PICK h \in Exits(supervisor.slot.g) :
       /\ supervisor' = Released(supervisor, h)
       /\ wake' = {[op |-> op, result |-> IF h.exit = "Clean" THEN "Closed" ELSE "CleanupUnproven"] :
                     op \in pending}
  BY DEF FinishGeneration
<1>3. /\ supervisor'.running = supervisor.running
      /\ h.exit = "Clean" => supervisor'.slot = None
      /\ h.exit = "Clean" => (supervisor'.faulted <=> supervisor.running /\ ~Recoverable(h.closing))
  BY <1>1, <1>2, ReleasedEffect DEF SlotInv
<1>4. ASSUME NEW c \in wake' PROVE ResultHolds(supervisor, c)'
  <2>1. PICK op \in pending :
          c = [op |-> op, result |-> IF h.exit = "Clean" THEN "Closed" ELSE "CleanupUnproven"]
    BY <1>2, <1>4
  <2>2. c.op = op /\ c.result # "Started" /\ (c.result = "Closed" => h.exit = "Clean")
    BY <2>1
  <2> QED
    BY <1>1, <1>3, <2>2 DEF PubInv, ResultHolds
<1> QED
  BY <1>1, <1>4 DEF PubInv

\* Flush answers no caller ahead of the published snapshot.
LEMMA FlushPub ==
  ASSUME SlotInv, PubInv, Flush
  PROVE  PubInv'
BY DEF Flush, PubInv, Coherent

\* StepCurrent answers no caller ahead of the published snapshot.
LEMMA StepCurrentPub ==
  ASSUME SlotInv, PubInv, StepCurrent
  PROVE  PubInv'
<1>1. UNCHANGED <<calls, pending, wake>> /\ pc' = "deliver" /\ wake = {}
  BY DEF StepCurrent, LoopLeaves, Waiting, SlotInv, Owed
<1>2. supervisor'.running = supervisor.running
  BY DEF StepCurrent, SlotInv, Supervised, Supervisors
<1> QED
  BY <1>1, <1>2 DEF PubInv

\* ReceiveRouted answers no caller ahead of the published snapshot.
LEMMA ReceiveRoutedPub ==
  ASSUME SlotInv, OwnInv, PubInv, NEW op \in Operations, ReceiveRouted(op)
  PROVE  PubInv'
<1>1. UNCHANGED <<calls, pending>> /\ pc' \in {"publish", "deliver"} /\ wake' = {}
  BY ReceivedType DEF ReceiveRouted
<1>2. supervisor'.running = supervisor.running
  <2>1. PICK s \in AfterPriority :
          supervisor' = s \/ supervisor' = [s EXCEPT !.slot.g = Admit(@, op)]
    BY DEF ReceiveRouted
  <2>2. s \in Supervisors /\ s.running = supervisor.running
    BY AfterPriorityEffect DEF SlotInv, Supervised, Follows
  <2> QED
    BY <2>1, <2>2 DEF Supervisors
<1> QED
  BY <1>1, <1>2 DEF PubInv

\* ReceiveStart answers no caller ahead of the published snapshot.
LEMMA ReceiveStartPub ==
  ASSUME SlotInv, OwnInv, PubInv, NEW op \in Operations, ReceiveStart(op)
  PROVE  PubInv'
<1>1. UNCHANGED <<calls, pending>> /\ pc' \in {"publish", "deliver"} /\ wake = {}
  BY ReceivedType DEF ReceiveStart
<1>2. PICK s \in AfterPriority :
          \/ /\ StartError(s) # None \/ s.running
             /\ supervisor' = s
             /\ wake' = {[op |-> op, result |-> IF StartError(s) # None THEN StartError(s)
                                                ELSE "Started"]}
          \/ /\ StartError(s) = None /\ ~s.running
             /\ supervisor' = [s EXCEPT !.running = TRUE,
                                        !.source = IF Active THEN ActiveSource ELSE PassiveSource]
             /\ wake' = {[op |-> op, result |-> "Started"]}
          \/ /\ StartError(s) = None /\ ~s.running /\ ~Active
             /\ supervisor' = s
             /\ wake' = {[op |-> op, result |-> "Io"]}
  BY DEF ReceiveStart
<1>3. s \in Supervisors /\ s.running = supervisor.running
  BY AfterPriorityEffect DEF SlotInv, Supervised, Follows
<1>4. CASE supervisor' = s
  <2>1. \A c \in wake' : c.result # "Closed" /\ (c.result = "Started" => s.running)
    <3>1. StartError(s) \in {"Draining", "Faulted", None}
      BY DEF StartError
    <3>2. CASE StartError(s) # None
      <4>1. wake' = {[op |-> op, result |-> StartError(s)]} /\ StartError(s) \in {"Draining", "Faulted"}
        BY <1>2, <3>1, <3>2
      <4> QED
        BY <4>1
    <3>3. CASE StartError(s) = None
      <4>1. [s EXCEPT !.running = TRUE,
                      !.source = IF Active THEN ActiveSource ELSE PassiveSource].running
        BY <1>3 DEF Supervisors
      <4>2. \/ s.running /\ wake' = {[op |-> op, result |-> "Started"]}
            \/ wake' = {[op |-> op, result |-> "Io"]}
        BY <1>2, <1>4, <3>3, <4>1
      <4> QED
        BY <4>2
    <3> QED
      BY <3>2, <3>3
  <2> QED
    BY <1>1, <1>3, <1>4, <2>1 DEF PubInv, ResultHolds
<1>5. CASE /\ StartError(s) = None
           /\ supervisor' = [s EXCEPT !.running = TRUE,
                                      !.source = IF Active THEN ActiveSource ELSE PassiveSource]
           /\ wake' = {[op |-> op, result |-> "Started"]}
  <2>1. supervisor'.running
    BY <1>3, <1>5 DEF Supervisors
  <2>2. pending = {}
    BY <1>5, NoneAssumption DEF StartError, Results
  <2> QED
    BY <1>1, <1>5, <2>1, <2>2 DEF PubInv, ResultHolds
<1> QED
  BY <1>2, <1>4, <1>5

\* ReceiveStop answers no caller ahead of the published snapshot.
LEMMA ReceiveStopPub ==
  ASSUME SlotInv, OwnInv, PubInv, NEW op \in Operations, ReceiveStop(op)
  PROVE  PubInv'
<1>1. UNCHANGED calls /\ pc' \in {"publish", "deliver"} /\ wake = {}
  BY ReceivedType DEF ReceiveStop
<1>2. PICK s \in AfterPriority :
           \/ /\ s.slot = None
              /\ supervisor' = BeginStop(s)
              /\ wake' = {[op |-> op, result |-> "Closed"]}
           \/ /\ supervisor' = BeginStop(s) /\ wake' = wake
           \/ /\ s.slot # None /\ s.faulted
              /\ \E h \in Exits(BeginStop(s).slot.g) :
                   /\ supervisor' = IF h.exit = "Clean"
                                    THEN [BeginStop(s) EXCEPT !.slot = None, !.faulted = FALSE]
                                    ELSE [BeginStop(s) EXCEPT !.slot.g = h]
                   /\ wake' = {[op |-> op, result |-> IF h.exit = "Clean" THEN "Closed"
                                                      ELSE "CleanupUnproven"]}
  BY DEF ReceiveStop
<1>3. Supervised(s)
  BY AfterPriorityEffect DEF SlotInv
<1>4. ~supervisor'.running /\ \A c \in wake' : ResultHolds(supervisor, c)'
  <2>1. CASE supervisor' = BeginStop(s) /\ wake' = wake
    BY <1>1, <1>3, <2>1, BeginStopEffect
  <2>2. CASE /\ s.slot = None
             /\ supervisor' = BeginStop(s)
             /\ wake' = {[op |-> op, result |-> "Closed"]}
    BY <1>3, <2>2, BeginStopEffect DEF ResultHolds
  <2>3. ASSUME s.slot # None, s.faulted, NEW h \in Exits(BeginStop(s).slot.g),
               supervisor' = IF h.exit = "Clean"
                             THEN [BeginStop(s) EXCEPT !.slot = None, !.faulted = FALSE]
                             ELSE [BeginStop(s) EXCEPT !.slot.g = h],
               wake' = {[op |-> op, result |-> IF h.exit = "Clean" THEN "Closed"
                                               ELSE "CleanupUnproven"]}
        PROVE  ~supervisor'.running /\ \A c \in wake' : ResultHolds(supervisor, c)'
    <3>1. ~supervisor'.running /\ (h.exit = "Clean" => supervisor'.slot = None /\ ~supervisor'.faulted)
      BY <1>3, <2>3, RecoveredEffect
    <3>2. \A c \in wake' : c.result # "Started" /\ (c.result = "Closed" => h.exit = "Clean")
      BY <2>3
    <3> QED
      BY <3>1, <3>2 DEF ResultHolds
  <2> QED
    BY <1>2, <2>1, <2>2, <2>3
<1> QED
  BY <1>1, <1>4 DEF PubInv

\* ReceiveDisconnect answers no caller ahead of the published snapshot.
LEMMA ReceiveDisconnectPub ==
  ASSUME SlotInv, OwnInv, PubInv, NEW op \in Operations, ReceiveDisconnect(op)
  PROVE  PubInv'
<1>1. /\ UNCHANGED calls /\ pc' \in {"publish", "deliver"} /\ wake' = {}
      /\ calls[op].intent = "Disconnect"
  BY ReceivedType, ReceivedOwn DEF ReceiveDisconnect
<1>2. supervisor'.running = supervisor.running /\ pending' \subseteq pending \cup {op}
  <2>1. PICK s \in AfterPriority :
          /\ supervisor' = IF DisconnectError(s, op) = None THEN BeginDisconnect(s) ELSE s
          /\ pending' = IF DisconnectError(s, op) = None THEN pending \cup {op} ELSE pending
    BY DEF ReceiveDisconnect, DisconnectError
  <2>2. Supervised(s) /\ s.running = supervisor.running
    BY AfterPriorityEffect DEF SlotInv, Follows
  <2> QED
    BY <2>1, <2>2, DisconnectCases, BeginDisconnectEffect
<1> QED
  BY <1>1, <1>2 DEF PubInv

\* The remaining steps answer nobody ahead of the snapshot.
LEMMA RestPub ==
  ASSUME SlotInv, OwnInv, PubInv,
         FinalHandleDropped \/ Connect \/ Tick \/ Return \/ Abort \/ UNCHANGED vars
  PROVE  PubInv'
<1>1. CASE FinalHandleDropped
  <2>1. pc' \in {"publish", "deliver"} /\ wake' = {}
    BY <1>1 DEF FinalHandleDropped, Listening, Waiting, SlotInv, Owed
  <2>2. ~supervisor'.running
    BY <1>1, AfterPriorityEffect, BeginStopEffect DEF FinalHandleDropped, SlotInv
  <2> QED
    BY <2>1, <2>2 DEF PubInv
<1>2. CASE Connect
  <2>1. ConnectLeaves /\ Connecting
    BY <1>2 DEF Connect, GenerationExhausted, BeginAttempt, EndAttempt, Rebind, AcceptConnection
  <2>2. wake' = {} /\ pending' = {}
    BY <2>1 DEF ConnectLeaves, Connecting, Waiting, SlotInv, Owed
  <2>3. pc' # "publish" =>
          /\ supervisor'.running = supervisor.running /\ supervisor'.faulted = supervisor.faulted
          /\ supervisor'.slot = supervisor.slot /\ UNCHANGED <<pc, lastExit, snapshot>>
    BY <1>2 DEF Connect, GenerationExhausted, BeginAttempt, EndAttempt, Rebind, AcceptConnection,
                ConnectLeaves, LoopLeaves, SlotInv, Supervised, Supervisors
  <2>4. pc' \in {"flush", "select"} => (snapshot = Coherent(supervisor))'
    BY <2>3 DEF PubInv, Coherent
  <2> QED
    BY <2>2, <2>4 DEF PubInv
<1>3. CASE Tick
  <2>1. /\ supervisor'.running = supervisor.running /\ supervisor'.faulted = supervisor.faulted
        /\ supervisor'.slot = supervisor.slot
        /\ UNCHANGED <<calls, pending, wake, lastExit, snapshot, pc>>
    BY <1>3 DEF Tick, SlotInv, Supervised, Supervisors
  <2> QED
    BY <2>1 DEF PubInv, Coherent, ResultHolds
<1>4. CASE EndRuntime
  BY <1>4 DEF EndRuntime, PubInv
<1>5. CASE UNCHANGED vars
  BY <1>5 DEF vars, PubInv, Coherent, ResultHolds
<1> QED
  BY <1>1, <1>2, <1>3, <1>4, <1>5 DEF Return, Abort

\* The publication invariant holds in every behaviour of the endpoint.
LEMMA PubAlways == Spec => []PubInv
<1>1. Init => PubInv
  BY DEF Init, PubInv
<1>2. SlotInv /\ OwnInv /\ PubInv /\ [Next]_vars => PubInv'
  BY HandlesPub, PublishPub, FinishGenerationPub, FlushPub, StepCurrentPub, ReceiveRoutedPub,
     ReceiveStartPub, ReceiveStopPub, ReceiveDisconnectPub, RestPub DEF Next, Receive
<1> QED
  BY <1>1, <1>2, OwnAlways, PTL DEF Spec

\* Results are handed out by Flush, when the snapshot is current, or refused at once.
LEMMA AnswersFollow ==
  ASSUME SlotInv, OwnInv, PubInv, Next, NEW op \in Operations, answers[op] = None,
         answers'[op] # None, pc' # "ended"
  PROVE  /\ answers'[op] \in {"Protocol", "Rejected", "Closed", "Started"} =>
              calls' = calls
         /\ answers'[op] \in {"Protocol", "Rejected"} => snapshot = Coherent(supervisor)
         /\ answers'[op] = "Started" => supervisor.running /\ snapshot = Coherent(supervisor)
         /\ answers'[op] = "Closed" =>
              \/ calls[op].intent = "Disconnect" /\ calls[op].gen = 0
              \/ /\ snapshot = Coherent(supervisor) /\ supervisor.slot = None
                 /\ calls[op].intent = "Stop" => ~supervisor.running /\ ~supervisor.faulted
<1>1. CASE Flush
  <2>1. PICK c \in outbox \cup wake : c.op = op /\ answers'[op] = c.result
    BY <1>1 DEF Flush
  <2>2. c \in outbox => c.result \in {"Protocol", "Rejected"}
    BY DEF SlotInv, Typed
  <2>3. c \in wake => ResultHolds(supervisor, c)
    BY DEF PubInv
  <2>4. snapshot = Coherent(supervisor) /\ UNCHANGED calls
    BY <1>1 DEF Flush, PubInv
  <2> QED
    BY <2>1, <2>2, <2>3, <2>4 DEF ResultHolds
<1>2. ASSUME NEW x \in Operations, NEW intent \in Intents, Capture(x, intent)
      PROVE  answers'[op] \notin {"Protocol", "Rejected", "Closed", "Started"}
  BY <1>2 DEF Capture, Answer, CaptureError, SlotInv, Typed
<1>3. ASSUME NEW x \in Operations, Send(x)
      PROVE  answers'[op] \notin {"Protocol", "Rejected", "Closed", "Started"}
  BY <1>3 DEF Send, Answer, SlotInv, Typed
<1>4. ASSUME NEW x \in Operations, ReceiveRouted(x)
      PROVE  answers'[op] \notin {"Protocol", "Rejected", "Closed", "Started"}
  <2>1. PICK s \in AfterPriority : Answer(x, RouteError(s, x)) \/ UNCHANGED answers
    BY <1>4 DEF ReceiveRouted
  <2>2. RouteError(s, x) \in {"Faulted", "StaleConnectionGeneration", None}
    BY DEF RouteError
  <2>3. x = op /\ answers'[op] = RouteError(s, x)
    BY <2>1 DEF Answer, SlotInv, Typed
  <2> QED
    BY <2>2, <2>3
<1>5. ASSUME NEW x \in Operations, ReceiveDisconnect(x)
      PROVE  \/ answers'[op] \notin {"Protocol", "Rejected", "Closed", "Started"}
             \/ /\ answers'[op] = "Closed" /\ UNCHANGED calls
                /\ calls[op].intent = "Disconnect" /\ calls[op].gen = 0
  <2>1. PICK s \in AfterPriority : Answer(x, DisconnectError(s, x))
    BY <1>5 DEF ReceiveDisconnect, DisconnectError
  <2>2. DisconnectError(s, x) \in {"Closed", "StaleConnectionGeneration", "Faulted", None}
    BY DEF DisconnectError
  <2>3. x = op /\ answers'[op] = DisconnectError(s, x)
    BY <2>1 DEF Answer, SlotInv, Typed
  <2>4. UNCHANGED calls /\ calls[op].intent = "Disconnect"
    BY <1>5, <2>3, ReceivedOwn DEF ReceiveDisconnect
  <2> QED
    BY <2>2, <2>3, <2>4, DisconnectCases
<1>6. CASE UNCHANGED answers
  BY <1>6
<1> QED
  BY <1>1, <1>2, <1>3, <1>4, <1>5, <1>6
  DEF Next, Handles, DropHandles, Publish, FinishGeneration, StepCurrent, Receive, ReceiveStart,
      ReceiveStop, FinalHandleDropped, Connect, ConnectLeaves, GenerationExhausted, BeginAttempt,
      EndAttempt, Rebind, AcceptConnection, Tick, Return, Abort, EndRuntime

\* publish before complete: a caller whose Stop, Disconnect, Start or protocol
\* request has been answered reads a snapshot that already shows the outcome.
THEOREM ResultsAlwaysFollow == Spec => ResultsFollowPublication
<1> DEFINE Follow(op) ==
         CASE calls'[op].intent = "Stop" /\ answers'[op] = "Closed" ->
                snapshot.phase = "StoppedClean" /\ snapshot.slot = NoSlot
           [] calls'[op].intent = "Disconnect" /\ answers'[op] = "Closed" ->
                calls[op].gen = 0 \/ snapshot.slot.gen # calls[op].gen
           [] calls'[op].intent = "Start" /\ answers'[op] = "Started" ->
                snapshot.desired = "Running"
           [] answers'[op] \in {"Protocol", "Rejected"} -> snapshot = Coherent(supervisor)
           [] OTHER -> TRUE
<1>1. ASSUME SlotInv, OwnInv, PubInv, Next, NEW op \in Operations, answers[op] = None,
             answers'[op] # None, pc' # "ended"
      PROVE  Follow(op)
  <2>1. CASE answers'[op] \notin {"Protocol", "Rejected", "Closed", "Started"}
    BY <2>1
  <2>2. CASE answers'[op] \in {"Protocol", "Rejected"}
    <3>1. snapshot = Coherent(supervisor)
      BY <1>1, <2>2, AnswersFollow
    <3> QED
      BY <2>2, <3>1
  <2>3. CASE answers'[op] = "Started"
    <3>1. supervisor.running /\ snapshot = Coherent(supervisor)
      BY <1>1, <2>3, AnswersFollow
    <3>2. snapshot.desired = "Running"
      BY <3>1 DEF Coherent
    <3> QED
      BY <2>3, <3>2
  <2>4. CASE answers'[op] = "Closed"
    <3>1. calls' = calls
      BY <1>1, <2>4, AnswersFollow
    <3>2. CASE calls[op].intent = "Disconnect" /\ calls[op].gen = 0
      BY <2>4, <3>1, <3>2
    <3>3. CASE /\ snapshot = Coherent(supervisor) /\ supervisor.slot = None
               /\ calls[op].intent = "Stop" => ~supervisor.running /\ ~supervisor.faulted
      <4>1. snapshot.slot = NoSlot /\ snapshot.slot.gen = 0
        BY <3>3 DEF Coherent, NoSlot
      <4>2. calls[op].intent = "Stop" => snapshot.phase = "StoppedClean"
        BY <3>3 DEF Coherent
      <4> QED
        BY <2>4, <3>1, <4>1, <4>2
    <3> QED
      BY <1>1, <2>4, <3>2, <3>3, AnswersFollow
  <2> QED
    BY <2>1, <2>2, <2>3, <2>4
<1>2. SlotInv /\ OwnInv /\ PubInv /\ [Next]_vars =>
        [\A op \in Operations : answers[op] = None /\ answers'[op] # None /\ pc' # "ended" =>
           Follow(op)]_vars
  BY <1>1
<1> QED
  BY <1>2, OwnAlways, PubAlways, PTL DEF Spec, ResultsFollowPublication

-----------------------------------------------------------------------------
(* The endpoint implements its view.                                       *)

Picture(desired, phase, slot, exit) ==
  [desired |-> desired, phase |-> phase, slot |-> slot, exit |-> exit]

\* What publish_state shows of supervisor s after exit report e.
Shot(s, e) ==
  Picture(IF s.running THEN "Running" ELSE "Stopped",
          IF s.faulted THEN "Faulted"
          ELSE IF s.slot # None /\ IsDraining(s.slot.g) THEN "Draining"
          ELSE IF s.running THEN "Running" ELSE "StoppedClean",
          IF s.slot = None THEN NoSlot
          ELSE [kind |-> IF IsDraining(s.slot.g) THEN "Draining" ELSE "Open", gen |-> s.slot.gen],
          e)

\* The steps of EndpointView from picture v to picture w.
Starts(v, w) ==
  v.slot.kind = "None" /\ v.phase = "StoppedClean" /\ w = Picture("Running", "Running", NoSlot, v.exit)
Opens(v, w) ==
  \E g \in 1..GenerationSpace :
    /\ v.slot.kind = "None" /\ v.phase = "Running" /\ (v.exit = None \/ g > v.exit.gen)
    /\ w = Picture("Running", "Running", [kind |-> "Open", gen |-> g], v.exit)
Drains(v, w) ==
  \E d \in {v.desired, "Stopped"} :
    /\ v.slot.kind \in {"Open", "Draining"} /\ v.phase # "Faulted"
    /\ w = Picture(d, "Draining", [kind |-> "Draining", gen |-> v.slot.gen], v.exit)
Closes(v, w) ==
  \E r \in Reasons, clean \in BOOLEAN :
    /\ v.slot.kind = "Draining" /\ v.phase = "Draining"
    /\ LET exit == [gen |-> v.slot.gen, reason |-> r, clean |-> clean]
       IN  \/ clean /\ v.desired = "Running"
              /\ \E p \in {"Running", "Faulted"} : w = Picture("Running", p, NoSlot, exit)
           \/ clean /\ v.desired = "Stopped" /\ w = Picture("Stopped", "StoppedClean", NoSlot, exit)
           \/ ~clean /\ w = Picture(v.desired, "Faulted", v.slot, exit)
Recovers(v, w) ==
  \E clean \in BOOLEAN :
    /\ v.slot.kind = "Draining" /\ v.phase = "Faulted" /\ v.exit # None /\ v.exit.gen = v.slot.gen
    /\ LET exit == [v.exit EXCEPT !.clean = clean]
       IN  IF clean THEN w = Picture("Stopped", "StoppedClean", NoSlot, exit)
           ELSE w = Picture("Stopped", "Faulted", v.slot, exit)
Faults(v, w) ==
  v.slot.kind = "None" /\ v.phase = "Running" /\ w = Picture("Running", "Faulted", NoSlot, v.exit)
Stops(v, w) == v.slot.kind = "None" /\ w = Picture("Stopped", "StoppedClean", NoSlot, v.exit)
Abandons(v, w) == v.slot.kind # "None" /\ w = Picture("Stopped", "Faulted", v.slot, v.exit)

Moves(v, w) ==
  \/ w = v \/ Starts(v, w) \/ Opens(v, w) \/ Drains(v, w) \/ Closes(v, w) \/ Recovers(v, w)
  \/ Faults(v, w) \/ Stops(v, w) \/ Abandons(v, w)

\* A move of the slot that the loop may publish is a step of the view.
LEMMA MovesAreViewSteps ==
  ASSUME Moves(snapshot, snapshot')
  PROVE  [View!Next]_snapshot
<1>1. CASE Starts(snapshot, snapshot')
  BY <1>1 DEF Starts, Picture, NoSlot, View!Next, View!Start, View!Empty, View!Step, View!NoSlot
<1>2. CASE Opens(snapshot, snapshot')
  <2>1. PICK g \in 1..GenerationSpace :
          /\ snapshot.slot.kind = "None" /\ snapshot.phase = "Running"
          /\ snapshot.exit = None \/ g > snapshot.exit.gen
          /\ snapshot' = Picture("Running", "Running", [kind |-> "Open", gen |-> g], snapshot.exit)
    BY <1>2 DEF Opens
  <2>2. g > View!Reported
    BY <2>1 DEF View!Reported
  <2>3. View!Open
    BY <2>1, <2>2 DEF Picture, View!Open, View!Empty, View!Step
  <2> QED
    BY <2>3 DEF View!Next
<1>3. CASE Drains(snapshot, snapshot')
  BY <1>3 DEF Drains, Picture, View!Next, View!Drain, View!Step
<1>4. CASE Closes(snapshot, snapshot')
  BY <1>4 DEF Closes, Picture, NoSlot, View!Next, View!Close, View!Step, View!NoSlot
<1>5. CASE Recovers(snapshot, snapshot')
  <2>1. PICK clean \in BOOLEAN :
    /\ snapshot.slot.kind = "Draining" /\ snapshot.phase = "Faulted"
    /\ snapshot.exit # None /\ snapshot.exit.gen = snapshot.slot.gen
    /\ IF clean THEN snapshot' = Picture("Stopped", "StoppedClean", NoSlot,
                                         [snapshot.exit EXCEPT !.clean = clean])
       ELSE snapshot' = Picture("Stopped", "Faulted", snapshot.slot,
                                [snapshot.exit EXCEPT !.clean = clean])
    BY <1>5 DEF Recovers
  <2>2. View!Reported = snapshot.slot.gen
    BY <2>1 DEF View!Reported
  <2>3. View!Recover
    BY <2>1, <2>2 DEF Picture, NoSlot, View!Recover, View!Step, View!NoSlot
  <2> QED
    BY <2>3 DEF View!Next
<1>6. CASE Faults(snapshot, snapshot')
  BY <1>6 DEF Faults, Picture, NoSlot, View!Next, View!Fault, View!Empty, View!Step, View!NoSlot
<1>7. CASE Stops(snapshot, snapshot')
  BY <1>7 DEF Stops, Picture, NoSlot, View!Next, View!Stop, View!Empty, View!Step, View!NoSlot
<1>8. CASE Abandons(snapshot, snapshot')
  BY <1>8 DEF Abandons, Picture, View!Next, View!Abandon, View!Empty, View!Step
<1> QED
  BY <1>1, <1>2, <1>3, <1>4, <1>5, <1>6, <1>7, <1>8 DEF Moves

\* The snapshot the loop publishes is the picture of its supervisor.
LEMMA CoherentShot ==
  ASSUME NEW s, NEW e, e = lastExit, s.running \in BOOLEAN, s.faulted \in BOOLEAN
  PROVE  Coherent(s) = Shot(s, e)
BY DEF Coherent, Shot, Picture

\* The fields of a picture.
LEMMA ShotFields ==
  ASSUME NEW s, NEW e
  PROVE  /\ Shot(s, e).exit = e
         /\ Shot(s, e).desired = IF s.running THEN "Running" ELSE "Stopped"
         /\ s.slot = None => Shot(s, e).slot.kind = "None"
         /\ s.slot # None => /\ Shot(s, e).slot.gen = s.slot.gen
                             /\ Shot(s, e).slot.kind = IF IsDraining(s.slot.g) THEN "Draining" ELSE "Open"
         /\ s.faulted <=> Shot(s, e).phase = "Faulted"
         /\ s.slot = None /\ ~s.faulted =>
              Shot(s, e).phase = IF s.running THEN "Running" ELSE "StoppedClean"
BY DEF Shot, Picture, NoSlot

\* The picture v is one that a connection in the slot of s may be shown draining after.
Drainable(v, s, e) ==
  /\ v.slot.kind \in {"Open", "Draining"} /\ v.slot.gen = s.slot.gen
  /\ v.phase # "Faulted" /\ v.exit = e
  /\ s.running => v.desired = "Running"

\* What the next publication may show after picture v.
Linked(v, s, e, delivering) ==
  /\ Moves(v, Shot(s, e))
  /\ delivering /\ s.slot # None /\ ~s.faulted => Drainable(v, s, e)

\* A connection that begins to drain is published as a step of the view.
LEMMA DrainableMoves ==
  ASSUME NEW v, NEW s, NEW e, Drainable(v, s, e), s.slot # None, ~s.faulted, IsDraining(s.slot.g)
  PROVE  Moves(v, Shot(s, e))
<1> DEFINE d == IF s.running THEN "Running" ELSE "Stopped"
<1>1. Shot(s, e) = Picture(d, "Draining", [kind |-> "Draining", gen |-> v.slot.gen], v.exit)
  BY DEF Shot, Drainable
<1>2. d \in {v.desired, "Stopped"}
  BY DEF Drainable
<1>3. Drains(v, Shot(s, e))
  BY <1>1, <1>2 DEF Drains, Drainable
<1> QED
  BY <1>3 DEF Moves

\* A connection that goes on, or is asked to drain.
LEMMA GoesOn ==
  ASSUME NEW s, NEW t, NEW e, s.slot # None, t.slot # None, ~s.faulted, ~t.faulted,
         t.slot.gen = s.slot.gen, IsDraining(s.slot.g) => IsDraining(t.slot.g),
         t.running = s.running \/ (~t.running /\ IsDraining(t.slot.g)),
         NEW delivering
  PROVE  Linked(Shot(s, e), t, e, delivering)
<1>1. Drainable(Shot(s, e), t, e)
  BY ShotFields DEF Drainable
<1>2. Moves(Shot(s, e), Shot(t, e))
  <2>1. CASE IsDraining(t.slot.g)
    BY <1>1, <2>1, DrainableMoves
  <2>2. CASE ~IsDraining(t.slot.g)
    <3>1. Shot(t, e) = Shot(s, e)
      BY <2>2 DEF Shot
    <3> QED
      BY <3>1 DEF Moves
  <2> QED
    BY <2>1, <2>2
<1> QED
  BY <1>1, <1>2 DEF Linked

\* Nothing to show.
LEMMA NothingNew ==
  ASSUME NEW s, NEW t, NEW e, t.running = s.running, t.faulted = s.faulted,
         t.slot = s.slot, s.slot = None \/ s.faulted, NEW delivering
  PROVE  Linked(Shot(s, e), t, e, delivering)
BY DEF Linked, Moves, Shot

LinkInv ==
  pc \in {"publish", "deliver"} => Linked(snapshot, supervisor, lastExit, pc = "deliver")

\* At the select of the loop, the published snapshot is the current picture.
LEMMA AtSelect ==
  ASSUME SlotInv, PubInv, pc \in {"flush", "select"}
  PROVE  snapshot = Shot(supervisor, lastExit)
BY CoherentShot DEF PubInv, SlotInv, Supervised, Supervisors

\* A connection that continues keeps draining.
LEMMA StillDraining ==
  ASSUME NEW g, NEW h, Continues(g, h), IsDraining(g)
  PROVE  IsDraining(h)
BY DEF Continues, IsDraining

\* A supervisor that follows another is linked to the picture of the old one.
LEMMA FollowsLinked ==
  ASSUME NEW s, NEW t, Follows(s, t), NEW e, NEW delivering
  PROVE  Linked(Shot(s, e), t, e, delivering)
<1>1. CASE s.slot = None \/ s.faulted
  BY <1>1, NothingNew DEF Follows
<1>2. CASE s.slot # None /\ ~s.faulted
  BY <1>2, GoesOn, StillDraining DEF Follows
<1> QED
  BY <1>1, <1>2

\* FinishGeneration keeps the slot linked to the published snapshot.
LEMMA FinishGenerationLink ==
  ASSUME SlotInv, PubInv, FinishGeneration
  PROVE  LinkInv'
<1>1. pc = "select" /\ pc' = "publish" /\ UNCHANGED snapshot /\ supervisor.slot # None
      /\ ~supervisor.faulted /\ supervisor.slot.g.closed
  BY DEF FinishGeneration, LoopLeaves, SlotClosed
<1>2. PICK h \in Exits(supervisor.slot.g) :
        supervisor' = Released(supervisor, h) /\ lastExit' = Exit(supervisor, h)
  BY DEF FinishGeneration
<1>3. LET t == supervisor'
      IN  /\ t.running = supervisor.running
          /\ h.exit = "Clean" => t.slot = None
          /\ h.exit = "Clean" => (t.faulted <=> supervisor.running /\ ~Recoverable(h.closing))
          /\ h.exit # "Clean" => /\ t.slot # None /\ t.slot.g = h /\ t.slot.gen = supervisor.slot.gen
                                 /\ t.faulted
  BY <1>1, <1>2, ReleasedEffect DEF SlotInv
<1>4. /\ h.closing \in Reasons /\ h.closing # None /\ supervisor.slot.g.closing # None
  BY <1>1, ExitsEffect DEF SlotInv, Supervised, Sound
<1>5. snapshot = Shot(supervisor, lastExit)
  BY <1>1, AtSelect
<1>6. /\ snapshot.slot = [kind |-> "Draining", gen |-> supervisor.slot.gen]
      /\ snapshot.phase = "Draining"
      /\ snapshot.desired = IF supervisor.running THEN "Running" ELSE "Stopped"
      /\ snapshot.slot.kind = "Draining" /\ snapshot.slot.gen = supervisor.slot.gen
  BY <1>1, <1>4, <1>5 DEF Shot, Picture, IsDraining
<1>7. supervisor.running \in BOOLEAN /\ supervisor'.faulted \in BOOLEAN
  BY <1>1, <1>2, ReleasedEffect DEF SlotInv, Supervised, Supervisors
<1> DEFINE clean == h.exit = "Clean"
           exit == [gen |-> snapshot.slot.gen, reason |-> h.closing, clean |-> clean]
<1>8. lastExit' = exit
  BY <1>2, <1>6 DEF Exit
<1>9. Closes(snapshot, Shot(supervisor', exit))
  <2>1. CASE clean
    <3>1. CASE supervisor.running
      <4>1. PICK p \in {"Running", "Faulted"} :
              Shot(supervisor', exit) = Picture("Running", p, NoSlot, exit)
        BY <1>3, <2>1, <3>1 DEF Shot
      <4>2. snapshot.desired = "Running"
        BY <1>6, <3>1
      <4> QED
        BY <1>4, <1>6, <2>1, <4>1, <4>2 DEF Closes
    <3>2. CASE ~supervisor.running
      <4>1. Shot(supervisor', exit) = Picture("Stopped", "StoppedClean", NoSlot, exit)
        BY <1>3, <2>1, <3>2 DEF Shot
      <4>2. snapshot.desired = "Stopped"
        BY <1>6, <3>2
      <4> QED
        BY <1>4, <1>6, <2>1, <4>1, <4>2 DEF Closes
    <3> QED
      BY <3>1, <3>2
  <2>2. CASE ~clean
    <3>1. IsDraining(h)
      BY <1>4 DEF IsDraining
    <3>2. Shot(supervisor', exit) = Picture(snapshot.desired, "Faulted", snapshot.slot, exit)
      BY <1>3, <1>6, <2>2, <3>1 DEF Shot
    <3> QED
      BY <1>4, <1>6, <2>2, <3>2 DEF Closes
  <2> QED
    BY <2>1, <2>2
<1> HIDE DEF exit
<1>10. Linked(snapshot, supervisor', lastExit', FALSE)
  BY <1>8, <1>9 DEF Linked, Moves
<1> QED
  BY <1>1, <1>10 DEF LinkInv, Linked

\* StepCurrent keeps the slot linked to the published snapshot.
LEMMA StepCurrentLink ==
  ASSUME SlotInv, PubInv, StepCurrent
  PROVE  LinkInv'
<1>1. pc = "select" /\ UNCHANGED <<snapshot, lastExit>> /\ supervisor.slot # None
      /\ ~supervisor.faulted
  BY DEF StepCurrent, LoopLeaves, Waiting
<1>2. PICK h \in Rounds(supervisor.slot.g) : supervisor' = [supervisor EXCEPT !.slot.g = h]
  BY DEF StepCurrent
<1>3. Sound(h) /\ Continues(supervisor.slot.g, h)
  BY <1>1, RoundsEffect DEF SlotInv, Supervised
<1>4. /\ supervisor'.slot # None /\ supervisor'.slot.g = h
      /\ supervisor'.slot.gen = supervisor.slot.gen
      /\ supervisor'.running = supervisor.running /\ supervisor'.faulted = supervisor.faulted
  BY <1>1, <1>2, <1>3, SlotUpdate DEF Sound, SlotInv, Supervised
<1>5. \A delivering : Linked(Shot(supervisor, lastExit), supervisor', lastExit, delivering)
  BY <1>1, <1>3, <1>4, StillDraining, GoesOn
<1> QED
  BY <1>1, <1>5, AtSelect DEF LinkInv

\* ReceiveRouted keeps the slot linked to the published snapshot.
LEMMA ReceiveRoutedLink ==
  ASSUME SlotInv, PubInv, NEW op \in Operations, ReceiveRouted(op)
  PROVE  LinkInv'
<1>1. pc = "select" /\ UNCHANGED <<snapshot, lastExit>>
  BY ReceivedType DEF ReceiveRouted
<1>2. PICK s \in AfterPriority :
        \/ supervisor' = s
        \/ RouteError(s, op) = None /\ supervisor' = [s EXCEPT !.slot.g = Admit(@, op)]
  BY DEF ReceiveRouted
<1>3. Supervised(s) /\ Follows(supervisor, s)
  BY AfterPriorityEffect DEF SlotInv
<1>4. \A delivering : Linked(Shot(supervisor, lastExit), supervisor', lastExit, delivering)
  <2>1. CASE supervisor' = s
    BY <1>3, <2>1, FollowsLinked
  <2>2. CASE RouteError(s, op) = None /\ supervisor' = [s EXCEPT !.slot.g = Admit(@, op)]
    <3>1. s.slot # None /\ ~s.faulted /\ s \in Supervisors /\ s.slot \in Slots /\ Sound(s.slot.g)
      BY <1>3, <2>2, NoneAssumption DEF RouteError, Supervised, Supervisors, Results
    <3> DEFINE h == Admit(s.slot.g, op)
    <3>2. supervisor' = [s EXCEPT !.slot.g = h]
      BY <2>2, <3>1 DEF Supervisors, Slots
    <3>3. Sound(h) /\ (IsDraining(h) <=> IsDraining(s.slot.g))
      BY <3>1, AdmitEffect DEF IsDraining
    <3> HIDE DEF h
    <3>4. /\ supervisor'.slot # None /\ supervisor'.slot.g = h
          /\ supervisor'.slot.gen = s.slot.gen
          /\ supervisor'.running = s.running /\ supervisor'.faulted = s.faulted
      BY <3>1, <3>2, <3>3, SlotUpdate DEF Sound
    <3>5. supervisor.slot # None /\ ~supervisor.faulted
          /\ supervisor'.slot.gen = supervisor.slot.gen /\ supervisor'.running = supervisor.running
          /\ (IsDraining(supervisor.slot.g) => IsDraining(supervisor'.slot.g))
      BY <1>3, <3>1, <3>3, <3>4, StillDraining DEF Follows
    <3> QED
      BY <3>1, <3>4, <3>5, GoesOn
  <2> QED
    BY <1>2, <2>1, <2>2
<1> QED
  BY <1>1, <1>4, AtSelect DEF LinkInv

\* ReceiveStart keeps the slot linked to the published snapshot.
LEMMA ReceiveStartLink ==
  ASSUME SlotInv, PubInv, NEW op \in Operations, ReceiveStart(op)
  PROVE  LinkInv'
<1>1. pc = "select" /\ UNCHANGED <<snapshot, lastExit>>
  BY ReceivedType DEF ReceiveStart
<1>2. PICK s \in AfterPriority :
        \/ supervisor' = s
        \/ /\ StartError(s) = None /\ ~s.running
           /\ supervisor' = [s EXCEPT !.running = TRUE,
                                      !.source = IF Active THEN ActiveSource ELSE PassiveSource]
  BY DEF ReceiveStart
<1>3. Supervised(s) /\ Follows(supervisor, s)
  BY AfterPriorityEffect DEF SlotInv
<1>4. \A delivering : Linked(Shot(supervisor, lastExit), supervisor', lastExit, delivering)
  <2>1. CASE supervisor' = s
    BY <1>3, <2>1, FollowsLinked
  <2>2. CASE /\ StartError(s) = None /\ ~s.running
             /\ supervisor' = [s EXCEPT !.running = TRUE,
                                        !.source = IF Active THEN ActiveSource ELSE PassiveSource]
    <3>1. ~s.faulted /\ s.slot = None
      BY <2>2, NoneAssumption DEF StartError, Results
    <3>2. supervisor'.running /\ ~supervisor'.faulted /\ supervisor'.slot = None
      BY <1>3, <2>2, <3>1 DEF Supervised, Supervisors
    <3>3. supervisor.slot = None /\ ~supervisor.running /\ ~supervisor.faulted
      BY <1>3, <2>2, <3>1 DEF Follows
    <3> DEFINE v == Shot(supervisor, lastExit)
    <3>4. v.slot.kind = "None" /\ v.phase = "StoppedClean" /\ v.exit = lastExit
      BY <3>3, ShotFields
    <3>5. Shot(supervisor', lastExit) = Picture("Running", "Running", NoSlot, lastExit)
      BY <3>2 DEF Shot
    <3> HIDE DEF v
    <3>6. Starts(v, Shot(supervisor', lastExit))
      BY <3>4, <3>5 DEF Starts
    <3> QED
      BY <3>2, <3>6 DEF Linked, Moves, v
  <2> QED
    BY <1>2, <2>1, <2>2
<1> QED
  BY <1>1, <1>4, AtSelect DEF LinkInv

\* A Stop whose connection is not recovered: it ends, drains or stays faulted.
LEMMA BeginStopLinked ==
  ASSUME NEW s, Supervised(s), NEW t, Supervised(t), Follows(s, t), NEW e, Accounted(s, e),
         NEW delivering
  PROVE  Linked(Shot(s, e), BeginStop(t), e, delivering)
<1> DEFINE u == BeginStop(t)
           v == Shot(s, e)
<1>1. /\ ~u.running
      /\ t.slot = None => u.slot = None /\ ~u.faulted
      /\ t.slot # None => /\ u.slot # None /\ u.slot.gen = t.slot.gen /\ u.faulted = t.faulted
                          /\ IsDraining(u.slot.g) /\ (t.faulted => u.slot = t.slot)
  BY BeginStopEffect
<1> HIDE DEF u
<1>2. CASE s.slot = None
  <2>1. v.slot.kind = "None" /\ v.exit = e
    BY <1>2, ShotFields
  <2>2. u.slot = None /\ ~u.faulted
    BY <1>1, <1>2 DEF Follows
  <2>3. Shot(u, e) = Picture("Stopped", "StoppedClean", NoSlot, e)
    BY <1>1, <2>2 DEF Shot
  <2> HIDE DEF v
  <2>4. Stops(v, Shot(u, e))
    BY <2>1, <2>3 DEF Stops
  <2> QED
    BY <2>2, <2>4 DEF Linked, Moves, u, v
<1>3. CASE s.slot # None /\ ~s.faulted
  <2>1. u.slot # None /\ ~u.faulted /\ u.slot.gen = s.slot.gen /\ IsDraining(u.slot.g)
    BY <1>1, <1>3 DEF Follows
  <2> QED
    BY <1>1, <1>3, <2>1, GoesOn DEF u
<1>4. CASE s.slot # None /\ s.faulted
  <2>1. u.slot = s.slot /\ u.faulted /\ s.slot # None
    BY <1>1, <1>4 DEF Follows
  <2>2. IsDraining(s.slot.g)
    BY <1>4, NoneAssumption DEF Supervised, Sound, IsDraining
  <2>3. e = [gen |-> s.slot.gen, reason |-> s.slot.g.closing, clean |-> FALSE]
    BY <1>4 DEF Accounted
  <2>4. e \in ExitReports /\ e # None
    <3>1. e \in ExitReports
      BY <1>4, <2>3, NoneAssumption
      DEF ExitReports, Supervised, Supervisors, Slots, Sound, Generations
    <3> QED
      BY <3>1, NoneAssumption
  <2>5. [e EXCEPT !.clean = FALSE] = e /\ e.gen = s.slot.gen
    <3>1. e.clean = FALSE /\ e.gen = s.slot.gen
      BY <2>3
    <3> QED
      BY <2>4, <3>1 DEF ExitReports
  <2>6. /\ v.slot = [kind |-> "Draining", gen |-> s.slot.gen] /\ v.phase = "Faulted" /\ v.exit = e
        /\ v.slot.kind = "Draining" /\ v.slot.gen = s.slot.gen
    BY <1>4, <2>2 DEF Shot, Picture
  <2>7. Shot(u, e) = Picture("Stopped", "Faulted", v.slot, [v.exit EXCEPT !.clean = FALSE])
    BY <1>1, <2>1, <2>2, <2>5, <2>6 DEF Shot
  <2> HIDE DEF v
  <2>8. Recovers(v, Shot(u, e))
    BY <2>4, <2>5, <2>6, <2>7 DEF Recovers
  <2> QED
    BY <2>1, <2>8 DEF Linked, Moves, u, v
<1> QED
  BY <1>2, <1>3, <1>4

\* A Stop that tries to recover a faulted connection.
LEMMA RecoveredLinked ==
  ASSUME NEW s, Supervised(s), s.slot # None, s.faulted, NEW h \in Exits(s.slot.g),
         NEW t, ~t.running, h.exit = "Clean" => t.slot = None /\ ~t.faulted,
         h.exit # "Clean" => t.slot # None /\ t.slot.g = h /\ t.slot.gen = s.slot.gen /\ t.faulted,
         NEW e, Accounted(s, e), NEW delivering
  PROVE  Linked(Shot(s, e), t, Exit(s, h), delivering)
<1> DEFINE v == Shot(s, e)
           clean == h.exit = "Clean"
<1>1. IsDraining(s.slot.g)
  BY NoneAssumption DEF Supervised, Sound, IsDraining
<1>2. e = [gen |-> s.slot.gen, reason |-> s.slot.g.closing, clean |-> FALSE]
  BY DEF Accounted
<1>3. e # None
  <2>1. e \in ExitReports
    BY <1>2, NoneAssumption DEF ExitReports, Supervised, Supervisors, Slots, Sound, Generations
  <2> QED
    BY <2>1, NoneAssumption
<1>4. h.closing = s.slot.g.closing /\ h.closing # None
  BY ExitsEffect DEF Supervised
<1>5. Exit(s, h) = [e EXCEPT !.clean = clean] /\ e.gen = s.slot.gen
  BY <1>2, <1>4 DEF Exit
<1>6. /\ v.slot = [kind |-> "Draining", gen |-> s.slot.gen] /\ v.phase = "Faulted" /\ v.exit = e
      /\ v.slot.kind = "Draining" /\ v.slot.gen = s.slot.gen
  BY <1>1 DEF Shot, Picture
<1>7. IF clean THEN Shot(t, Exit(s, h)) = Picture("Stopped", "StoppedClean", NoSlot, Exit(s, h))
      ELSE Shot(t, Exit(s, h)) = Picture("Stopped", "Faulted", v.slot, Exit(s, h))
  <2>1. CASE clean
    BY <2>1 DEF Shot
  <2>2. CASE ~clean
    <3>1. IsDraining(h)
      BY <1>4 DEF IsDraining
    <3> QED
      BY <1>6, <2>2, <3>1 DEF Shot
  <2> QED
    BY <2>1, <2>2
<1>8. clean \in BOOLEAN
  OBVIOUS
<1> HIDE DEF v, clean
<1>9. Recovers(v, Shot(t, Exit(s, h)))
  BY <1>3, <1>5, <1>6, <1>7, <1>8 DEF Recovers
<1> QED
  BY <1>9 DEF Linked, Moves, v

\* ReceiveStop keeps the slot linked to the published snapshot.
LEMMA ReceiveStopLink ==
  ASSUME SlotInv, PubInv, NEW op \in Operations, ReceiveStop(op)
  PROVE  LinkInv'
<1>1. pc = "select" /\ UNCHANGED snapshot
  BY ReceivedType DEF ReceiveStop
<1>2. PICK s \in AfterPriority :
           \/ supervisor' = BeginStop(s) /\ UNCHANGED lastExit
           \/ /\ s.slot # None /\ s.faulted
              /\ \E h \in Exits(BeginStop(s).slot.g) :
                   /\ supervisor' = IF h.exit = "Clean"
                                    THEN [BeginStop(s) EXCEPT !.slot = None, !.faulted = FALSE]
                                    ELSE [BeginStop(s) EXCEPT !.slot.g = h]
                   /\ lastExit' = Exit(s, h)
  BY DEF ReceiveStop
<1>3. Supervised(s) /\ Follows(supervisor, s) /\ Accounted(supervisor, lastExit)
      /\ Accounted(s, lastExit)
  BY <1>1, AfterPriorityEffect, FollowsAccounted DEF SlotInv, Owed
<1>4. \A delivering : Linked(Shot(supervisor, lastExit), supervisor', lastExit', delivering)
  <2>1. CASE supervisor' = BeginStop(s) /\ UNCHANGED lastExit
    BY <1>3, <2>1, BeginStopLinked DEF SlotInv
  <2>2. ASSUME s.slot # None, s.faulted, NEW h \in Exits(BeginStop(s).slot.g),
               supervisor' = IF h.exit = "Clean"
                             THEN [BeginStop(s) EXCEPT !.slot = None, !.faulted = FALSE]
                             ELSE [BeginStop(s) EXCEPT !.slot.g = h],
               lastExit' = Exit(s, h)
        PROVE  \A delivering : Linked(Shot(supervisor, lastExit), supervisor', lastExit', delivering)
    <3>1. /\ ~supervisor'.running /\ h \in Exits(s.slot.g)
          /\ h.exit = "Clean" => supervisor'.slot = None /\ ~supervisor'.faulted
          /\ h.exit # "Clean" =>
               /\ supervisor'.slot # None /\ supervisor'.slot.g = h
               /\ supervisor'.slot.gen = s.slot.gen /\ supervisor'.faulted
      <4>1. ~supervisor'.running /\ h \in Exits(s.slot.g)
        BY <1>3, <2>2, RecoveredEffect
      <4>2. h.exit = "Clean" => supervisor'.slot = None /\ ~supervisor'.faulted
        BY <1>3, <2>2, RecoveredEffect
      <4>3. h.exit # "Clean" => supervisor'.slot # None /\ supervisor'.slot.g = h
        BY <1>3, <2>2, RecoveredEffect
      <4>4. h.exit # "Clean" => supervisor'.slot.gen = s.slot.gen /\ supervisor'.faulted
        BY <1>3, <2>2, RecoveredEffect
      <4> QED
        BY <4>1, <4>2, <4>3, <4>4
    <3>2. Shot(supervisor, lastExit) = Shot(s, lastExit)
      BY <1>3, <2>2 DEF Follows, Shot
    <3>3. \A delivering : Linked(Shot(s, lastExit), supervisor', Exit(s, h), delivering)
      BY <1>3, <2>2, <3>1, RecoveredLinked
    <3> QED
      BY <2>2, <3>2, <3>3
  <2> QED
    BY <1>2, <2>1, <2>2
<1> QED
  BY <1>1, <1>4, AtSelect DEF LinkInv

\* FinalHandleDropped keeps the slot linked to the published snapshot.
LEMMA FinalHandleDroppedLink ==
  ASSUME SlotInv, PubInv, FinalHandleDropped
  PROVE  LinkInv'
<1>1. pc = "select" /\ UNCHANGED <<snapshot, lastExit>>
  BY DEF FinalHandleDropped, Listening, Waiting, LoopLeaves
<1>2. PICK s \in AfterPriority : supervisor' = BeginStop(s)
  BY DEF FinalHandleDropped
<1>3. Supervised(s) /\ Follows(supervisor, s) /\ Accounted(supervisor, lastExit)
  BY <1>1, AfterPriorityEffect DEF SlotInv, Owed
<1>4. \A delivering : Linked(Shot(supervisor, lastExit), supervisor', lastExit, delivering)
  BY <1>2, <1>3, BeginStopLinked DEF SlotInv
<1> QED
  BY <1>1, <1>4, AtSelect DEF LinkInv

\* ReceiveDisconnect keeps the slot linked to the published snapshot.
LEMMA ReceiveDisconnectLink ==
  ASSUME SlotInv, PubInv, NEW op \in Operations, ReceiveDisconnect(op)
  PROVE  LinkInv'
<1>1. pc = "select" /\ UNCHANGED <<snapshot, lastExit>>
  BY ReceivedType DEF ReceiveDisconnect
<1>2. PICK s \in AfterPriority :
        supervisor' = IF DisconnectError(s, op) = None THEN BeginDisconnect(s) ELSE s
  BY DEF ReceiveDisconnect, DisconnectError
<1>3. Supervised(s) /\ Follows(supervisor, s)
  BY AfterPriorityEffect DEF SlotInv
<1>4. \A delivering : Linked(Shot(supervisor, lastExit), supervisor', lastExit, delivering)
  <2>1. CASE supervisor' = s
    BY <1>3, <2>1, FollowsLinked
  <2>2. CASE DisconnectError(s, op) = None /\ supervisor' = BeginDisconnect(s)
    <3>1. s.slot # None /\ ~s.faulted
      BY <2>2, DisconnectCases
    <3>2. /\ supervisor'.slot # None /\ supervisor'.slot.gen = s.slot.gen
          /\ IsDraining(supervisor'.slot.g)
          /\ supervisor'.running = s.running /\ supervisor'.faulted = s.faulted
      BY <1>3, <2>2, <3>1, BeginDisconnectEffect
    <3>3. supervisor.slot # None /\ ~supervisor.faulted /\ s.slot.gen = supervisor.slot.gen
          /\ s.running = supervisor.running
      BY <1>3, <3>1 DEF Follows
    <3> QED
      BY <3>1, <3>2, <3>3, GoesOn
  <2> QED
    BY <1>2, <2>1, <2>2
<1> QED
  BY <1>1, <1>4, AtSelect DEF LinkInv

\* The steps of the connection source keep the link to the published snapshot.
LEMMA ConnectLink ==
  ASSUME SlotInv, PubInv, Connect
  PROVE  LinkInv'
<1>1. /\ Connecting /\ pc = "select" /\ UNCHANGED <<snapshot, lastExit>>
      /\ supervisor.running /\ ~supervisor.faulted /\ supervisor.slot = None
  BY DEF Connect, GenerationExhausted, BeginAttempt, EndAttempt, Rebind, AcceptConnection,
         Connecting, Waiting, ConnectLeaves, LoopLeaves
<1> DEFINE v == Shot(supervisor, lastExit)
<1>2. v.slot.kind = "None" /\ v.phase = "Running" /\ v.exit = lastExit
  BY <1>1, ShotFields
<1>3. pc' \in {"publish", "select"} /\ (pc' = "select" \/ pc' # "deliver")
  BY <1>1 DEF Connect, GenerationExhausted, BeginAttempt, EndAttempt, Rebind, AcceptConnection
<1>4. CASE supervisor' = FaultSource(supervisor)
  <2>1. supervisor'.slot = None /\ supervisor'.faulted /\ supervisor'.running
    BY <1>1, <1>4, FaultSourceEffect DEF SlotInv
  <2>2. Shot(supervisor', lastExit) = Picture("Running", "Faulted", NoSlot, lastExit)
    BY <2>1 DEF Shot
  <2> HIDE DEF v
  <2>3. Faults(v, Shot(supervisor', lastExit))
    BY <1>2, <2>2 DEF Faults
  <2>4. \A delivering : Linked(v, supervisor', lastExit, delivering)
    BY <2>1, <2>3 DEF Linked, Moves
  <2> QED
    BY <1>1, <2>4, AtSelect DEF LinkInv, v
<1>5. CASE /\ supervisor'.running /\ ~supervisor'.faulted /\ supervisor'.slot # None
           /\ supervisor'.slot.gen = supervisor.next /\ supervisor'.slot.g = NewGeneration
           /\ Identified
  <2>1. ~IsDraining(NewGeneration)
    BY DEF IsDraining, NewGeneration
  <2>2. supervisor.next \in 1..GenerationSpace
    BY <1>5, EndpointAssumption DEF Identified, SlotInv, Supervised, Supervisors
  <2>3. Shot(supervisor', lastExit)
          = Picture("Running", "Running", [kind |-> "Open", gen |-> supervisor.next], lastExit)
    BY <1>5, <2>1 DEF Shot
  <2>4. lastExit = None \/ supervisor.next > lastExit.gen
    <3>1. lastExit # None => lastExit.gen \in Int /\ lastExit.gen < supervisor.next
      BY <1>1 DEF SlotInv, Owed, Accounted, Typed, ExitReports
    <3> QED
      BY <2>2, <3>1
  <2> HIDE DEF v
  <2>5. Opens(v, Shot(supervisor', lastExit))
    BY <1>2, <2>2, <2>3, <2>4 DEF Opens
  <2>6. Linked(v, supervisor', lastExit, FALSE)
    BY <2>5 DEF Linked, Moves
  <2> QED
    BY <1>1, <1>3, <2>6, AtSelect DEF LinkInv, Linked, v
<1>6. CASE /\ supervisor'.running = supervisor.running /\ supervisor'.faulted = supervisor.faulted
           /\ supervisor'.slot = supervisor.slot
  <2>1. \A delivering : Linked(v, supervisor', lastExit, delivering)
    BY <1>1, <1>6, NothingNew
  <2> HIDE DEF v
  <2> QED
    BY <1>1, <2>1, AtSelect DEF LinkInv, v
<1>7. ASSUME EndAttempt
      PROVE  LinkInv'
  <2> DEFINE source == DropConnect(supervisor.source)
  <2>1. supervisor.source \in Sources /\ Active /\ supervisor.source.trying /\ Identified
        /\ supervisor.source # None
    BY <1>7 DEF EndAttempt, Connecting, SlotInv, Supervised, Supervisors, Identified
  <2>2. source \in Sources /\ ~source.trying
    BY <2>1, DropConnectEffect, NoneAssumption
  <2> HIDE DEF source
  <2>3. CASE supervisor' = Connected(source)
    BY <1>1, <1>5, <2>1, <2>2, <2>3, ConnectedEffect DEF SlotInv
  <2>4. CASE supervisor' = [supervisor EXCEPT !.source = source]
    BY <1>6, <2>4 DEF SlotInv, Supervised, Supervisors
  <2> QED
    BY <1>7, <2>3, <2>4 DEF EndAttempt, source
<1>8. ASSUME AcceptConnection
      PROVE  LinkInv'
  <2> DEFINE source == Suspended(supervisor.source)
  <2>1. supervisor.source \in [listening : BOOLEAN] /\ ~Active /\ Identified
    BY <1>8 DEF AcceptConnection, Connecting, SlotInv, Supervised, Supervisors, Sources
  <2>2. source \in Sources /\ ~source.listening
    BY <2>1 DEF Sources, Suspended
  <2> HIDE DEF source
  <2>3. CASE supervisor' = Connected(source)
    BY <1>1, <1>5, <2>1, <2>2, <2>3, ConnectedEffect DEF SlotInv
  <2> QED
    BY <1>4, <1>8, <2>3 DEF AcceptConnection, source
<1>9. ASSUME BeginAttempt \/ Rebind
      PROVE  LinkInv'
  <2>1. \/ supervisor' = FaultSource(supervisor)
        \/ /\ supervisor'.running = supervisor.running /\ supervisor'.faulted = supervisor.faulted
           /\ supervisor'.slot = supervisor.slot
    BY <1>9 DEF BeginAttempt, Rebind, SlotInv, Supervised, Supervisors
  <2> QED
    BY <1>4, <1>6, <2>1
<1> QED
  BY <1>4, <1>7, <1>8, <1>9 DEF Connect, GenerationExhausted

\* A publication shows what was linked, or the connection that a delivery closed.
LEMMA PublishMoves ==
  ASSUME SlotInv, LinkInv, Publish
  PROVE  Moves(snapshot, snapshot')
<1>1. pc \in {"publish", "deliver"} /\ lastExit' = lastExit
  BY DEF Publish
<1>2. Linked(snapshot, supervisor, lastExit, pc = "deliver")
  BY <1>1 DEF LinkInv
<1>3. snapshot' = Shot(supervisor', lastExit)
  BY PublishEffect, CoherentShot DEF SlotInv, Supervised, Supervisors
<1>4. CASE supervisor' = supervisor
  BY <1>2, <1>3, <1>4 DEF Linked
<1>5. CASE supervisor' # supervisor
  <2>1. /\ supervisor.slot # None /\ supervisor'.slot # None /\ IsDraining(supervisor'.slot.g)
        /\ pc = "deliver" /\ supervisor'.slot.gen = supervisor.slot.gen
        /\ supervisor'.running = supervisor.running /\ supervisor'.faulted = supervisor.faulted
    BY <1>1, <1>5, PublishEffect DEF SlotInv
  <2>2. CASE supervisor.faulted
    <3>1. IsDraining(supervisor.slot.g)
      BY <2>1, <2>2, NoneAssumption DEF SlotInv, Supervised, Sound, IsDraining
    <3>2. Shot(supervisor', lastExit) = Shot(supervisor, lastExit)
      BY <2>1, <2>2, <3>1 DEF Shot
    <3> QED
      BY <1>2, <1>3, <3>2 DEF Linked
  <2>3. CASE ~supervisor.faulted
    <3>1. Drainable(snapshot, supervisor, lastExit)
      BY <1>2, <2>1, <2>3 DEF Linked
    <3>2. Drainable(snapshot, supervisor', lastExit)
      BY <2>1, <3>1 DEF Drainable
    <3> QED
      BY <1>3, <2>1, <2>3, <3>2, DrainableMoves
  <2> QED
    BY <2>2, <2>3
<1> QED
  BY <1>4, <1>5

\* The runtime that ends with a connection leaves it faulted.
LEMMA EndRuntimeMoves ==
  ASSUME SlotInv, Pictured, PubInv, pc = "select", EndRuntime
  PROVE  Moves(snapshot, snapshot')
<1>1. CASE supervisor.slot = None
  BY <1>1 DEF EndRuntime, Moves
<1>2. CASE supervisor.slot # None
  <2>1. snapshot.slot.kind # "None"
    BY <1>2, AtSelect, ShotFields
  <2>2. snapshot' = Picture("Stopped", "Faulted", snapshot.slot, snapshot.exit)
    BY <1>2 DEF EndRuntime, Pictured, Picture
  <2> QED
    BY <2>1, <2>2 DEF Moves, Abandons
<1> QED
  BY <1>1, <1>2

\* Every step keeps the slot linked to the published snapshot.
LEMMA LinkKept ==
  ASSUME SlotInv, PubInv, LinkInv, [Next]_vars
  PROVE  LinkInv'
<1>1. CASE Handles \/ UNCHANGED vars
  <2>1. UNCHANGED <<supervisor, lastExit, snapshot, pc>>
    BY <1>1 DEF Handles, Capture, Send, DropHandles, HandleLeaves, vars
  <2> QED
    BY <2>1 DEF LinkInv
<1>2. CASE Publish \/ Flush \/ Return \/ Abort
  BY <1>2 DEF Publish, Flush, Return, Abort, EndRuntime, LinkInv
<1>3. CASE Tick
  <2>1. /\ supervisor'.running = supervisor.running /\ supervisor'.faulted = supervisor.faulted
        /\ supervisor'.slot = supervisor.slot /\ UNCHANGED <<lastExit, snapshot, pc>>
    BY <1>3 DEF Tick, SlotInv, Supervised, Supervisors
  <2>2. Shot(supervisor', lastExit) = Shot(supervisor, lastExit)
    BY <2>1 DEF Shot
  <2> QED
    BY <2>1, <2>2 DEF LinkInv, Linked, Drainable
<1> QED
  BY <1>1, <1>2, <1>3, FinishGenerationLink, StepCurrentLink, ReceiveRoutedLink, ReceiveStartLink,
     ReceiveStopLink, ReceiveDisconnectLink, FinalHandleDroppedLink, ConnectLink
  DEF Next, Receive

\* Every step of the endpoint is a step of the view or leaves it unchanged.
LEMMA NextMoves ==
  ASSUME SlotInv, Pictured, PubInv, LinkInv, [Next]_vars
  PROVE  Moves(snapshot, snapshot')
<1>1. CASE UNCHANGED snapshot
  BY <1>1 DEF Moves
<1>2. CASE Publish
  BY <1>2, PublishMoves
<1>3. CASE pc = "select" /\ EndRuntime
  BY <1>3, EndRuntimeMoves
<1> QED
  BY <1>1, <1>2, <1>3
  DEF Next, vars, Handles, Capture, Send, HandleLeaves, DropHandles, Flush, FinishGeneration,
      StepCurrent, LoopLeaves, Receive, ReceiveRouted, ReceiveStart, ReceiveStop,
      ReceiveDisconnect, Received, FinalHandleDropped, Connect, ConnectLeaves,
      GenerationExhausted, BeginAttempt, EndAttempt, Rebind, AcceptConnection, Tick, Return, Abort

\* publish_state: whatever happens between two publications, the snapshots a watcher
\* reads are a behaviour of EndpointView.
THEOREM EndpointImplementsView == Spec => ImplementsView
<1>1. Init => View!Init /\ LinkInv
  <2> SUFFICES ASSUME Init PROVE View!Init /\ LinkInv
    OBVIOUS
  <2>1. View!Init
    BY DEF Init, StoppedClean, View!Init, NoSlot, View!NoSlot
  <2>2. supervisor.slot = None /\ ~supervisor.running /\ ~supervisor.faulted /\ lastExit = None
    BY DEF Init
  <2>3. Shot(supervisor, lastExit) = snapshot
    BY <2>2 DEF Init, Shot, Picture, StoppedClean
  <2> QED
    BY <2>1, <2>2, <2>3 DEF LinkInv, Linked, Moves
<1>2. SlotInv /\ PubInv /\ LinkInv /\ [Next]_vars => LinkInv'
  BY LinkKept
<1>3. SlotInv /\ Pictured /\ PubInv /\ LinkInv /\ [Next]_vars => [View!Next]_snapshot
  BY NextMoves, MovesAreViewSteps
<1> QED
  BY <1>1, <1>2, <1>3, SlotAlways, PubAlways, PTL DEF Spec, ImplementsView, View!Spec

=============================================================================
