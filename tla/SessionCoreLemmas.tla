-------------------------- MODULE SessionCoreLemmas --------------------------
(***************************************************************************)
(* What every procedure of SessionCore preserves, for every size of the    *)
(* identifier spaces, every capacity and every set of commands.            *)
(*                                                                         *)
(* IInv is the inductive invariant of the struct.  It has five parts: the  *)
(* shape and the bookkeeping between retained writes and open commands     *)
(* (Weak, which also holds half way through a handler), who owns a command *)
(* (Owners), what closing leaves behind (Closed), which timers are armed   *)
(* (Timed) and what each selection state allows (Selection).  Every Core   *)
(* procedure has a lemma that it preserves IInv; the specifications that   *)
(* drive a Core (SessionCore, GenerationRuntime, HsmsPair) put the handlers*)
(* together.                                                               *)
(*                                                                         *)
(* Run(p, s, c) says that a handler that started from the snapshot p, with *)
(* the announced state s, may have got as far as c: the completions,       *)
(* frames, closes and states it pushed, against the struct it started from.*)
(* Every procedure has a lemma that it continues a run, so the handlers do,*)
(* and the properties about completions, results, states and closes follow *)
(* from the runs and from what the histories remember between them.        *)
(*                                                                         *)
(* Awaits(c, X) says what every open command still waits for.              *)
(***************************************************************************)
EXTENDS SessionCoreOps, FiniteSetTheorems, TLAPS

\* The fields of the struct, written out for the provers.
Fields == {"state", "t7", "idle", "nextWrite", "nextSys", "nextReply", "active",
           "drain", "data", "tomb", "pending", "replies", "open", "deferred",
           "closing", "closeIssued", "out"}

\* Fields is the set of fields SessionCore::new gives the struct.
LEMMA FieldsOfCore == CoreFields = Fields
  BY DEF CoreFields, Fields, NewCore

\* The struct has its declared shape (TypeOK as a predicate of a core record),
\* with the fields of the records it holds.
Shape(c) ==
  /\ DOMAIN c = Fields
  /\ c.state \in {"None", "NotSelected", "Selected"}
  /\ c.t7 \in BOOLEAN /\ c.idle \in BOOLEAN
  /\ c.closing \in BOOLEAN /\ c.closeIssued \in BOOLEAN
  /\ c.nextWrite \in 0..WriteSpace
  /\ c.nextSys \in 0..SystemBytesSpace
  /\ c.nextReply \in 0..ReplySpace
  /\ c.active # None =>
       /\ c.active.kind \in TransactionKinds
       /\ c.active.command \in Commands \cup {None}
       /\ c.active.sys \in SystemBytes
       /\ c.active.write \in WriteIds
       /\ c.active.armed \in BOOLEAN
       /\ DOMAIN c.active = {"kind", "command", "sys", "write", "armed"}
  /\ c.drain \in Commands \cup {None}
  /\ DOMAIN c.data \subseteq SystemBytes
  /\ \A s \in DOMAIN c.data :
       /\ c.data[s].command \in Commands
       /\ c.data[s].write \in WriteIds
       /\ c.data[s].armed \in BOOLEAN
       /\ DOMAIN c.data[s] = {"command", "write", "armed", "contract"}
  /\ DOMAIN c.pending \subseteq WriteIds
  /\ \A w \in DOMAIN c.pending :
       /\ c.pending[w].kind \in WriteKinds
       /\ c.pending[w].command \in Commands \cup {None}
       /\ DOMAIN c.pending[w] = {"kind", "command", "sid", "sys"}
  /\ DOMAIN c.replies \subseteq ReplyIds
  /\ DOMAIN c.open \subseteq Commands
  /\ \A k \in DOMAIN c.open : c.open[k] \in CommandKinds

\* The command kind that the outcome of a write completes.
KindFor(kind) == CASE kind = "DataSend" -> "Send"
                   [] kind = "DataRequest" -> "Request"
                   [] OTHER -> "Control"

\* A retained write was numbered already, a Response answers for no command, and
\* the command another write answers for is open, of the right kind and its own.
Linked(c) ==
  \A w \in DOMAIN c.pending :
    /\ w < c.nextWrite
    /\ c.pending[w].kind = "Response" => c.pending[w].command = None
    /\ c.pending[w].command # None =>
         /\ c.pending[w].command \in DOMAIN c.open
         /\ c.open[c.pending[w].command] = KindFor(c.pending[w].kind)
         /\ \A v \in DOMAIN c.pending : c.pending[v].command = c.pending[w].command => v = w

\* A deferred error waits for an unresolved write.
Deferral(c) == DOMAIN c.deferred \subseteq UnresolvedCommands(c)

\* The part of the invariant that holds between the steps of a handler.
Weak(c) == Shape(c) /\ Linked(c) /\ Deferral(c)

\* A live transaction, a live request and the drain own an open command of their
\* kind; a drain excludes a control transaction and has no write.
Owners(c) ==
  /\ c.active # None /\ c.active.command # None =>
       /\ c.active.command \in DOMAIN c.open
       /\ c.open[c.active.command] = "Control"
  /\ \A s \in DOMAIN c.data :
       /\ c.data[s].command \in DOMAIN c.open
       /\ c.open[c.data[s].command] = "Request"
       /\ \A t \in DOMAIN c.data : c.data[t].command = c.data[s].command => t = s
  /\ c.drain # None /\ ~c.closing =>
       /\ c.drain \in DOMAIN c.open
       /\ c.open[c.drain] = "Control"
       /\ c.active = None
       /\ \A w \in DOMAIN c.pending : c.pending[w].command # c.drain

\* Closing, which is announced by an action, leaves no live transaction or request;
\* errors are deferred and a Separate is written only while closing.
Closed(c) ==
  /\ c.closeIssued <=> c.closing
  /\ c.closing => c.active = None /\ DOMAIN c.data = {}
  /\ DOMAIN c.deferred # {} => c.closing
  /\ \A w \in DOMAIN c.pending : c.pending[w].kind = "Separate" => c.closing

\* A transaction or request that is not armed still has its write retained.
Timed(c) ==
  /\ c.active # None /\ ~c.active.armed =>
       /\ c.active.write \in DOMAIN c.pending
       /\ c.pending[c.active.write].kind = "TransactionRequest"
  /\ \A s \in DOMAIN c.data : ~c.data[s].armed =>
       /\ c.data[s].write \in DOMAIN c.pending
       /\ c.pending[c.data[s].write].kind = "DataRequest"
       /\ c.pending[c.data[s].write].sys = s

\* T7, Data work and the Deselect transaction agree with the selection state.
Selection(c) ==
  /\ ~c.closing => (c.t7 <=> c.state = "NotSelected")
  /\ ~c.closing /\ (DOMAIN c.data # {} \/ DOMAIN c.replies # {}) => c.state = "Selected"
  /\ RepliesBlocked(c) =>
       /\ DOMAIN c.data = {}
       /\ \A w \in DOMAIN c.pending : c.pending[w].kind \notin DataWriteKinds

\* The inductive invariant.
IInv(c) == Weak(c) /\ Owners(c) /\ Closed(c) /\ Timed(c) /\ Selection(c)

\* Some procedure, other than a retained write, will complete k.
Owned(c, k) ==
  \/ c.active # None /\ c.active.command = k
  \/ c.drain = k /\ ~c.closing
  \/ \E s \in DOMAIN c.data : c.data[s].command = k

-----------------------------------------------------------------------------
\* Pushing an action changes nothing but the actions.
LEMMA EmitFields ==
  ASSUME NEW c, NEW a, DOMAIN c = Fields
  PROVE  /\ DOMAIN Emit(c, a) = Fields
         /\ \A f \in Fields \ {"out"} : Emit(c, a)[f] = c[f]
  BY DEF Emit, Fields

\* Pushing an action keeps the bookkeeping (CoreActions::push).
LEMMA EmitWeak ==
  ASSUME NEW c, NEW a, Weak(c)
  PROVE  Weak(Emit(c, a)) /\ \A f \in Fields \ {"out"} : Emit(c, a)[f] = c[f]
  BY DEF Emit, Weak, Shape, Linked, Deferral, UnresolvedCommands, Fields

\* Pushing an action keeps the invariant (CoreActions::push).
LEMMA EmitIInv ==
  ASSUME NEW c, NEW a, IInv(c) PROVE IInv(Emit(c, a))
  BY DEF Emit, IInv, Owners, Closed, Timed, Selection, RepliesBlocked, Weak, Shape, Linked, Deferral, UnresolvedCommands, Fields

\* emit_completion closes its commands, forgets their deferred errors, detaches
\* their writes and leaves everything else alone.
LEMMA EmitCompletionEffect ==
  ASSUME NEW c, NEW ks, NEW result, Shape(c)
  PROVE  LET r == EmitCompletion(c, ks, result)
         IN  /\ DOMAIN r = Fields
             /\ \A f \in Fields \ {"open", "deferred", "pending", "out"} : r[f] = c[f]
             /\ DOMAIN r.open = DOMAIN c.open \ ks
             /\ \A k \in DOMAIN r.open : r.open[k] = c.open[k]
             /\ DOMAIN r.deferred = DOMAIN c.deferred \ ks
             /\ DOMAIN r.pending = DOMAIN c.pending
             /\ \A w \in DOMAIN c.pending :
                  /\ DOMAIN r.pending[w] = DOMAIN c.pending[w]
                  /\ r.pending[w].kind = c.pending[w].kind
                  /\ r.pending[w].sys = c.pending[w].sys
                  /\ r.pending[w].command = IF c.pending[w].command \in ks THEN None
                                            ELSE c.pending[w].command
<1>1. CASE ks = {}
  BY <1>1 DEF EmitCompletion, Shape
<1>2. CASE ks # {}
  BY <1>2 DEF EmitCompletion, Emit, Drop, Shape, Fields
<1> QED BY <1>1, <1>2

\* The deferred errors of ks may already have lost their writes: completing ks
\* settles them.
LEMMA EmitCompletionSettles ==
  ASSUME NEW c, NEW ks, NEW result, Shape(c), Linked(c),
         DOMAIN c.deferred \ ks \subseteq UnresolvedCommands(c)
  PROVE  Weak(EmitCompletion(c, ks, result))
<1> DEFINE r == EmitCompletion(c, ks, result)
<1> HIDE DEF r
<1>1. Shape(r)
  BY EmitCompletionEffect DEF Shape, Fields, r
<1>2. Linked(r)
  BY EmitCompletionEffect DEF Linked, Fields, r
<1>3. Deferral(r)
  BY EmitCompletionEffect DEF Deferral, UnresolvedCommands, Fields, r
<1> QED
  BY <1>1, <1>2, <1>3 DEF Weak, r

\* emit_completion keeps the bookkeeping.
LEMMA EmitCompletionWeak ==
  ASSUME NEW c, NEW ks, NEW result, Weak(c)
  PROVE  Weak(EmitCompletion(c, ks, result))
BY EmitCompletionSettles DEF Weak, Deferral

\* As EmitCompletionSettles, for the whole invariant: emit_completion of commands
\* that no procedure owns any more.
LEMMA EmitCompletionSettlesIInv ==
  ASSUME NEW c, NEW ks, NEW result, Shape(c), Linked(c),
         DOMAIN c.deferred \ ks \subseteq UnresolvedCommands(c),
         Owners(c), Closed(c), Timed(c), Selection(c),
         \A k \in ks : ~Owned(c, k)
  PROVE  IInv(EmitCompletion(c, ks, result))
<1> DEFINE r == EmitCompletion(c, ks, result)
<1> HIDE DEF r
<1>1. Weak(r)
  BY EmitCompletionSettles DEF r
<1>2. Owners(r)
  BY EmitCompletionEffect DEF Owners, Owned, Fields, r
<1>3. Closed(r)
  BY EmitCompletionEffect DEF Closed, Fields, r
<1>4. Timed(r)
  BY EmitCompletionEffect DEF Timed, Fields, r
<1>5. Selection(r)
  BY EmitCompletionEffect DEF Selection, RepliesBlocked, Fields, r
<1> QED
  BY <1>1, <1>2, <1>3, <1>4, <1>5 DEF IInv, r

\* emit_completion of commands that nothing owns keeps the invariant.
LEMMA EmitCompletionIInv ==
  ASSUME NEW c, NEW ks, NEW result, IInv(c), \A k \in ks : ~Owned(c, k)
  PROVE  IInv(EmitCompletion(c, ks, result))
BY EmitCompletionSettlesIInv DEF IInv, Weak, Deferral

\* While closing, with no transaction and no request, the bookkeeping is enough.
LEMMA ClosedIInv ==
  ASSUME NEW c, Weak(c), c.closing, c.closeIssued, c.active = None, DOMAIN c.data = {}
  PROVE  IInv(c)
BY DEF IInv, Weak, Shape, Owners, Closed, Timed, Selection, RepliesBlocked

\* complete_or_defer keeps the bookkeeping and touches only its commands: those
\* with an unresolved write stay open and get a deferred error.
LEMMA CompleteOrDeferWeak ==
  ASSUME NEW c, NEW ks, NEW error, Weak(c)
  PROVE  LET r == CompleteOrDefer(c, ks, error)
         IN  /\ Weak(r)
             /\ \A f \in Fields \ {"open", "deferred", "pending", "out"} : r[f] = c[f]
             /\ DOMAIN r.open \subseteq DOMAIN c.open
             /\ DOMAIN r.pending = DOMAIN c.pending
             /\ \A w \in DOMAIN c.pending : r.pending[w].kind = c.pending[w].kind
             /\ \A k \in DOMAIN c.open \ ks : k \in DOMAIN r.open /\ r.open[k] = c.open[k]
             /\ UnresolvedCommands(r) \subseteq UnresolvedCommands(c)
<1> DEFINE held == ks \cap UnresolvedCommands(c)
           kept == [c EXCEPT !.deferred =
                     [k \in DOMAIN c.deferred \cup held |->
                        IF k \in DOMAIN c.deferred THEN c.deferred[k] ELSE error]]
<1>1. /\ DOMAIN kept = Fields
      /\ \A f \in Fields \ {"deferred"} : kept[f] = c[f]
      /\ DOMAIN kept.deferred = DOMAIN c.deferred \cup held
  BY DEF Weak, Shape, Fields
<1>2. CompleteOrDefer(c, ks, error) = EmitCompletion(kept, ks \ held, error)
  BY DEF CompleteOrDefer
<1> HIDE DEF kept
<1>3. Weak(kept)
  BY <1>1 DEF Weak, Shape, Linked, Deferral, UnresolvedCommands, Fields
<1>4. Weak(EmitCompletion(kept, ks \ held, error))
  BY <1>3, EmitCompletionWeak
<1> DEFINE r == EmitCompletion(kept, ks \ held, error)
<1>5. /\ \A f \in Fields \ {"open", "deferred", "pending", "out"} : r[f] = kept[f]
      /\ DOMAIN r.open = DOMAIN kept.open \ (ks \ held)
      /\ \A k \in DOMAIN r.open : r.open[k] = kept.open[k]
      /\ DOMAIN r.pending = DOMAIN kept.pending
      /\ \A w \in DOMAIN kept.pending :
           /\ r.pending[w].kind = kept.pending[w].kind
           /\ r.pending[w].command = IF kept.pending[w].command \in ks \ held THEN None
                                     ELSE kept.pending[w].command
  BY <1>3, EmitCompletionEffect DEF Weak
<1> HIDE DEF r, held
<1>6. UnresolvedCommands(r) \subseteq UnresolvedCommands(c)
  BY <1>1, <1>5 DEF UnresolvedCommands, Fields
<1> QED
  BY <1>1, <1>2, <1>4, <1>5, <1>6 DEF Fields, r

\* complete_all keeps the bookkeeping and ends every transaction.
LEMMA CompleteAllWeak ==
  ASSUME NEW c, NEW error, Weak(c)
  PROVE  LET r == CompleteAll(c, error)
         IN  /\ Weak(r)
             /\ r.active = None
             /\ DOMAIN r.data = {}
             /\ \A f \in Fields \ {"active", "data", "open", "deferred", "pending", "out"} :
                  r[f] = c[f]
<1> DEFINE d == [c EXCEPT !.active = None, !.data = EmptyFunction]
<1>1. /\ DOMAIN d = Fields
      /\ \A f \in Fields \ {"active", "data"} : d[f] = c[f]
      /\ d.active = None
      /\ DOMAIN d.data = {}
  BY DEF Weak, Shape, Fields, EmptyFunction
<1>2. CompleteAll(c, error) = CompleteOrDefer(d, DOMAIN c.open, error)
  BY DEF CompleteAll
<1> HIDE DEF d
<1>3. Weak(d)
  <2>1. Shape(d)
    BY <1>1 DEF Weak, Shape, Fields
  <2>2. Linked(d) /\ Deferral(d)
    BY <1>1 DEF Weak, Linked, Deferral, UnresolvedCommands, Fields
  <2> QED BY <2>1, <2>2 DEF Weak
<1> QED
  BY <1>1, <1>2, <1>3, CompleteOrDeferWeak DEF Fields

\* request_close keeps the bookkeeping and sets closing.
LEMMA RequestCloseEffect ==
  ASSUME NEW c, NEW reason, NEW barrier, Weak(c)
  PROVE  LET r == RequestClose(c, reason, barrier)
         IN  /\ Weak(r)
             /\ r.closing /\ r.closeIssued
             /\ r.active = c.active
             /\ r.data = c.data
<1> DEFINE d == [c EXCEPT !.closing = TRUE, !.drain = None,
                          !.replies = EmptyFunction, !.closeIssued = TRUE]
<1>1. /\ DOMAIN d = Fields
      /\ \A f \in Fields \ {"closing", "drain", "replies", "closeIssued"} : d[f] = c[f]
      /\ d.closing /\ d.closing \in BOOLEAN /\ d.closeIssued /\ d.closeIssued \in BOOLEAN
      /\ d.drain = None
      /\ DOMAIN d.replies = {}
  BY DEF Weak, Shape, Fields, EmptyFunction
<1>2. RequestClose(c, reason, barrier)
        = IF c.closeIssued THEN d ELSE Emit(d, CloseGeneration(reason, barrier))
  BY DEF RequestClose
<1> HIDE DEF d
<1>3. Weak(d)
  <2>1. Shape(d)
    BY <1>1 DEF Weak, Shape, Fields
  <2>2. Linked(d) /\ Deferral(d)
    BY <1>1 DEF Weak, Linked, Deferral, UnresolvedCommands, Fields
  <2> QED BY <2>1, <2>2 DEF Weak
<1> QED
  BY <1>1, <1>2, <1>3, EmitWeak, EmitFields DEF Fields

\* complete_all followed by request_close establishes the invariant from the
\* bookkeeping alone.
LEMMA CloseAllIInv ==
  ASSUME NEW c, NEW reason, Weak(c)
  PROVE  IInv(CloseAll(c, reason)) /\ CloseAll(c, reason).closing
BY CompleteAllWeak, RequestCloseEffect, ClosedIInv DEF CloseAll

\* fail_runtime_invariant leaves a closed Core that satisfies the invariant.
LEMMA FailRuntimeInvariantIInv ==
  ASSUME NEW c, Weak(c)
  PROVE  IInv(FailRuntimeInvariant(c)) /\ FailRuntimeInvariant(c).closing
BY CloseAllIInv DEF FailRuntimeInvariant

\* complete_error, complete_control, complete_send and complete_request of a
\* command nothing owns keep the invariant.
LEMMA CompleteAsIInv ==
  ASSUME NEW c, NEW k, NEW kinds, NEW result, IInv(c), ~Owned(c, k)
  PROVE  IInv(CompleteAs(c, k, kinds, result))
BY EmitCompletionIInv, FailRuntimeInvariantIInv DEF CompleteAs, IInv

\* The complete_* procedures keep the bookkeeping.
LEMMA CompleteAsWeak ==
  ASSUME NEW c, NEW k, NEW kinds, NEW result, Weak(c)
  PROVE  Weak(CompleteAs(c, k, kinds, result))
BY EmitCompletionWeak, FailRuntimeInvariantIInv DEF CompleteAs, IInv

-----------------------------------------------------------------------------
\* complete_control_transaction of a transaction already taken out of its slot
\* keeps the invariant.
LEMMA CompleteControlTransactionIInv ==
  ASSUME NEW c, NEW t, NEW result, IInv(c), t.command = None \/ ~Owned(c, t.command)
  PROVE  IInv(CompleteControlTransaction(c, t, result))
BY CompleteAsIInv DEF CompleteControlTransaction, CompleteControl

\* next_write_id names no retained write and can be advanced.
LEMMA FreshWrite ==
  ASSUME NEW c, Weak(c), c.nextWrite # WriteSpace
  PROVE  /\ c.nextWrite \in WriteIds /\ c.nextWrite \in Nat /\ WriteSpace \in Nat
         /\ c.nextWrite + 1 \in 0..WriteSpace
         /\ \A w \in DOMAIN c.pending : w # c.nextWrite /\ w < c.nextWrite /\ w < c.nextWrite + 1
BY SpaceAssumption DEF Weak, Shape, Linked, WriteIds

\* next_system_bytes is a value of its space and can be advanced.
LEMMA FreshSystemBytes ==
  ASSUME NEW c, Weak(c), c.nextSys # SystemBytesSpace
  PROVE  /\ c.nextSys \in SystemBytes
         /\ c.nextSys + 1 \in 0..SystemBytesSpace
BY SpaceAssumption DEF Weak, Shape, SystemBytes

\* send_response keeps the invariant; unless it closes, it only adds a write.
LEMMA SendResponseEffect ==
  ASSUME NEW c, NEW m, IInv(c)
  PROVE  LET r == SendResponse(c, m)
         IN  /\ IInv(r)
             /\ ~r.closing => \A f \in Fields \ {"nextWrite", "pending", "out"} : r[f] = c[f]
<1>1. CASE c.nextWrite = WriteSpace
  BY <1>1, FailRuntimeInvariantIInv DEF SendResponse, IInv
<1>2. CASE c.nextWrite # WriteSpace
  <2> DEFINE p == PendingWrite("Response", None, None, None)
             q == Put(c.pending, c.nextWrite, p)
             d == [c EXCEPT !.nextWrite = @ + 1, !.pending = q]
  <2>0. /\ Shape(c) /\ c.nextWrite \in WriteIds /\ c.nextWrite + 1 \in 0..WriteSpace
        /\ \A w \in DOMAIN c.pending : w # c.nextWrite /\ w < c.nextWrite + 1
        /\ c.nextWrite < c.nextWrite + 1
    BY <1>2, FreshWrite DEF IInv, Weak
  <2>1. /\ DOMAIN d = Fields
        /\ \A f \in Fields \ {"nextWrite", "pending"} : d[f] = c[f]
        /\ d.nextWrite = c.nextWrite + 1
        /\ DOMAIN d.pending = DOMAIN c.pending \cup {c.nextWrite}
        /\ d.pending[c.nextWrite] = p
        /\ \A w \in DOMAIN c.pending : d.pending[w] = c.pending[w]
    <3>1. /\ DOMAIN q = DOMAIN c.pending \cup {c.nextWrite}
          /\ q[c.nextWrite] = p
          /\ \A w \in DOMAIN c.pending : q[w] = c.pending[w]
      BY <2>0 DEF Put
    <3> HIDE DEF q, p
    <3> QED BY <2>0, <3>1 DEF Shape, Fields
  <2>2. SendResponse(c, m) = Emit(d, SendFrame(c.nextWrite, m))
    BY <1>2 DEF SendResponse
  <2> HIDE DEF d
  <2>3. Shape(d)
    BY <2>0, <2>1 DEF Shape, PendingWrite, WriteKinds, Fields
  <2>4. Linked(d) /\ Deferral(d)
    BY <2>0, <2>1 DEF IInv, Weak, Linked, Deferral, UnresolvedCommands, PendingWrite,
                      WriteIds, Shape, Fields
  <2>5. Owners(d)
    BY <2>0, <2>1, NoneAssumption DEF IInv, Owners, PendingWrite, Fields
  <2>6. Closed(d) /\ Timed(d)
    BY <2>0, <2>1 DEF IInv, Closed, Timed, PendingWrite, Fields
  <2>7. Selection(d)
    BY <2>0, <2>1 DEF IInv, Selection, RepliesBlocked, PendingWrite, DataWriteKinds, Fields
  <2>8. IInv(d)
    BY <2>3, <2>4, <2>5, <2>6, <2>7 DEF IInv, Weak
  <2> QED
    BY <2>1, <2>2, <2>8, EmitIInv, EmitFields DEF Fields
<1> QED BY <1>1, <1>2

\* k may be given to a new write: it is an open command of this kind, and no
\* retained write and no procedure stands for it yet.
Free(c, k, kind) ==
  /\ k \in DOMAIN c.open
  /\ c.open[k] = kind
  /\ k \notin UnresolvedCommands(c)
  /\ ~Owned(c, k)

\* start_transaction keeps the invariant from a free control slot; a Deselect
\* needs in addition that no Data is in use.
LEMMA StartTransactionIInv ==
  ASSUME NEW c, NEW kind \in TransactionKinds, NEW k, IInv(c),
         ~c.closing, c.active = None, c.drain = None,
         k = None \/ Free(c, k, "Control"),
         kind = "Deselect" => ~DataInUse(c)
  PROVE  IInv(StartTransaction(c, kind, k))
<1>1. CASE IdentifiersExhausted(c)
  BY <1>1, FailRuntimeInvariantIInv, CloseAllIInv
  DEF StartTransaction, RefuseIdentifiers, IInv
<1>2. CASE ~IdentifiersExhausted(c)
  <2> DEFINE a == [kind |-> kind, command |-> k, sys |-> c.nextSys,
                   write |-> c.nextWrite, armed |-> FALSE]
             p == PendingWrite("TransactionRequest", k, None, None)
             q == Put(c.pending, c.nextWrite, p)
             d == [c EXCEPT !.nextSys = @ + 1, !.nextWrite = @ + 1,
                            !.active = a, !.pending = q]
  <2>0. /\ Shape(c) /\ c.nextWrite \in WriteIds /\ c.nextWrite + 1 \in 0..WriteSpace
        /\ \A w \in DOMAIN c.pending : w # c.nextWrite /\ w < c.nextWrite + 1
        /\ c.nextWrite < c.nextWrite + 1
        /\ c.nextSys \in SystemBytes /\ c.nextSys + 1 \in 0..SystemBytesSpace
    BY <1>2, FreshWrite, FreshSystemBytes DEF IInv, Weak, IdentifiersExhausted
  <2>1. /\ DOMAIN d = Fields
        /\ \A f \in Fields \ {"nextWrite", "nextSys", "pending", "active"} : d[f] = c[f]
        /\ d.nextWrite = c.nextWrite + 1
        /\ d.nextSys = c.nextSys + 1
        /\ d.active = a
        /\ DOMAIN d.pending = DOMAIN c.pending \cup {c.nextWrite}
        /\ d.pending[c.nextWrite] = p
        /\ \A w \in DOMAIN c.pending : d.pending[w] = c.pending[w]
    <3>1. /\ DOMAIN q = DOMAIN c.pending \cup {c.nextWrite}
          /\ q[c.nextWrite] = p
          /\ \A w \in DOMAIN c.pending : q[w] = c.pending[w]
      BY <2>0 DEF Put
    <3> HIDE DEF q, a, p
    <3> QED BY <2>0, <3>1 DEF Shape, Fields
  <2>2. StartTransaction(c, kind, k) = Emit(d, SendFrame(c.nextWrite, TransactionMessage(kind, c.nextSys)))
    BY <1>2 DEF StartTransaction, AllocateRequestIdentifiers, Shape
  <2>a. k # None => k \in Commands /\ k \in DOMAIN c.open /\ c.open[k] = "Control"
                    /\ \A w \in DOMAIN c.pending : c.pending[w].command # k
    BY <2>0, NoneAssumption DEF Free, Shape, UnresolvedCommands
  <2> HIDE DEF d
  <2>3. Shape(d)
    BY <2>0, <2>1, <2>a DEF Shape, PendingWrite, WriteKinds, Fields
  <2>4. Linked(d)
    BY <2>0, <2>1, <2>a DEF IInv, Weak, Linked, PendingWrite, KindFor,
                      WriteIds, Shape, Fields
  <2>4a. Deferral(d)
    BY <2>0, <2>1, <2>a DEF IInv, Weak, Deferral, UnresolvedCommands, Fields
  <2>5. Owners(d)
    BY <2>0, <2>1, <2>a, NoneAssumption DEF IInv, Owners, PendingWrite, Fields
  <2>6. Closed(d) /\ Timed(d)
    BY <2>0, <2>1 DEF IInv, Closed, Timed, PendingWrite, Fields
  <2>7. Selection(d)
    BY <2>0, <2>1 DEF IInv, Selection, RepliesBlocked, PendingWrite, DataWriteKinds, DataInUse, Fields
  <2>8. IInv(d)
    BY <2>3, <2>4, <2>4a, <2>5, <2>6, <2>7 DEF IInv, Weak
  <2> QED
    BY <2>1, <2>2, <2>8, EmitIInv, EmitFields DEF Fields
<1> QED BY <1>1, <1>2

\* Taking the drain out of deselect_drain keeps the invariant.
LEMMA DropDrain ==
  ASSUME NEW c, IInv(c)
  PROVE  LET r == [c EXCEPT !.drain = None]
         IN  IInv(r) /\ r.drain = None /\ \A f \in Fields \ {"drain"} : r[f] = c[f]
<1> DEFINE r == [c EXCEPT !.drain = None]
<1>1. DOMAIN r = Fields /\ r.drain = None /\ \A f \in Fields \ {"drain"} : r[f] = c[f]
  BY DEF IInv, Weak, Shape, Fields
<1> HIDE DEF r
<1>2. Weak(r)
  BY <1>1 DEF IInv, Weak, Shape, Linked, Deferral, UnresolvedCommands, Fields
<1>3. Owners(r) /\ Closed(r) /\ Timed(r) /\ Selection(r)
  BY <1>1 DEF IInv, Owners, Closed, Timed, Selection, RepliesBlocked, Fields
<1> QED
  BY <1>1, <1>2, <1>3 DEF IInv, r

\* Taking the transaction out of active_transaction keeps the invariant.
LEMMA DropActive ==
  ASSUME NEW c, IInv(c)
  PROVE  LET r == [c EXCEPT !.active = None]
         IN  IInv(r) /\ r.active = None /\ \A f \in Fields \ {"active"} : r[f] = c[f]
<1> DEFINE r == [c EXCEPT !.active = None]
<1>1. DOMAIN r = Fields /\ r.active = None /\ \A f \in Fields \ {"active"} : r[f] = c[f]
  BY DEF IInv, Weak, Shape, Fields
<1> HIDE DEF r
<1>2. Weak(r)
  BY <1>1 DEF IInv, Weak, Shape, Linked, Deferral, UnresolvedCommands, Fields
<1>3. Owners(r) /\ Closed(r) /\ Timed(r) /\ Selection(r)
  BY <1>1 DEF IInv, Owners, Closed, Timed, Selection, RepliesBlocked, Fields
<1> QED
  BY <1>1, <1>2, <1>3 DEF IInv, r

\* Nothing else owns the command of the control transaction.
LEMMA ActiveUnowned ==
  ASSUME NEW c, IInv(c), c.active # None, c.active.command # None,
         NEW d, d.active = None, d.drain = c.drain, d.closing = c.closing,
         \A s \in DOMAIN d.data : s \in DOMAIN c.data /\ d.data[s] = c.data[s]
  PROVE  ~Owned(d, c.active.command)
BY DEF IInv, Owners, Closed, Owned

\* progress_deselect keeps the invariant, whether the drain expires, waits or
\* becomes a Deselect transaction.
LEMMA ProgressDeselectIInv ==
  ASSUME NEW c, NEW due, IInv(c)
  PROVE  IInv(ProgressDeselect(c, due))
<1> DEFINE ended == [c EXCEPT !.drain = None]
<1>1. IInv(ended) /\ ended.drain = None /\ \A f \in Fields \ {"drain"} : ended[f] = c[f]
  BY DropDrain
<1> HIDE DEF ended
<1>2. CASE c.closing \/ c.drain = None
  BY <1>2 DEF ProgressDeselect
<1>3. CASE ~c.closing /\ c.drain # None
  <2>1. /\ c.drain \in DOMAIN c.open /\ c.open[c.drain] = "Control"
        /\ c.active = None
        /\ \A w \in DOMAIN c.pending : c.pending[w].command # c.drain
        /\ \A s \in DOMAIN c.data : c.data[s].command # c.drain
    BY <1>3 DEF IInv, Owners
  <2>2. Free(ended, c.drain, "Control")
    BY <1>1, <1>3, <2>1, NoneAssumption
    DEF Free, Owned, UnresolvedCommands, Fields, IInv, Weak, Shape
  <2>3. DataInUse(ended) = DataInUse(c)
    BY <1>1 DEF DataInUse, Fields
  <2>4. IInv(CompleteError(ended, c.drain, "TimeoutDrain"))
        /\ IInv(CompleteControl(ended, c.drain, "Ok"))
    BY <1>1, <2>2, CompleteAsIInv DEF CompleteError, CompleteControl, Free
  <2>5. ~DataInUse(c) => IInv(StartTransaction(ended, "Deselect", c.drain))
    BY <1>1, <1>3, <2>1, <2>2, <2>3, StartTransactionIInv DEF TransactionKinds, Fields
  <2> QED
    BY <1>1, <1>3, <2>4, <2>5 DEF ProgressDeselect, ended
<1> QED BY <1>2, <1>3

\* Taking a Deselect command as the drain keeps the invariant.
LEMMA AddDrain ==
  ASSUME NEW c, NEW k, IInv(c), ~c.closing, Free(c, k, "Control"), c.active = None
  PROVE  LET d == [c EXCEPT !.drain = k]
         IN  IInv(d) /\ d.drain = k /\ \A f \in Fields \ {"drain"} : d[f] = c[f]
<1> DEFINE d == [c EXCEPT !.drain = k]
<1>1. DOMAIN d = Fields /\ d.drain = k /\ \A f \in Fields \ {"drain"} : d[f] = c[f]
  BY DEF IInv, Weak, Shape, Fields
<1> HIDE DEF d
<1>2. Weak(d)
  BY <1>1 DEF IInv, Weak, Shape, Linked, Deferral, UnresolvedCommands, Fields, Free
<1>3. Owners(d)
  BY <1>1, NoneAssumption
  DEF IInv, Weak, Shape, Owners, Fields, Free, UnresolvedCommands
<1>4. Closed(d) /\ Timed(d) /\ Selection(d)
  BY <1>1 DEF IInv, Closed, Timed, Selection, RepliesBlocked, Fields
<1> QED
  BY <1>1, <1>2, <1>3, <1>4 DEF IInv, d

\* start_deselect keeps the invariant.
LEMMA StartDeselectIInv ==
  ASSUME NEW c, NEW k, IInv(c), ~c.closing, Free(c, k, "Control")
  PROVE  IInv(StartDeselect(c, k))
<1>1. IInv(CompleteError(c, k, "NotSelected")) /\ IInv(CompleteError(c, k, "ControlBusy"))
  BY CompleteAsIInv DEF CompleteError, Free
<1>2. ASSUME c.active = None
      PROVE  IInv(ProgressDeselect([c EXCEPT !.drain = k], FALSE))
  BY <1>2, AddDrain, ProgressDeselectIInv
<1> QED
  BY <1>1, <1>2 DEF StartDeselect

\* commit_deselection keeps the invariant once no request is live.
LEMMA CommitDeselectionIInv ==
  ASSUME NEW c, IInv(c), DOMAIN c.data = {}
  PROVE  LET r == CommitDeselection(c)
         IN  IInv(r) /\ \A f \in Fields \ {"state", "t7", "replies", "out"} : r[f] = c[f]
<1>1. CASE c.state = "NotSelected"
  BY <1>1 DEF CommitDeselection, Fields
<1>2. CASE c.state # "NotSelected"
  <2> DEFINE d == ArmSelectionTimeout([c EXCEPT !.state = "NotSelected",
                                                !.replies = EmptyFunction])
  <2>1. /\ DOMAIN d = Fields
        /\ \A f \in Fields \ {"state", "t7", "replies"} : d[f] = c[f]
        /\ d.state = "NotSelected" /\ d.t7 /\ d.t7 \in BOOLEAN /\ DOMAIN d.replies = {}
    BY DEF IInv, Weak, Shape, Fields, EmptyFunction, ArmSelectionTimeout
  <2> HIDE DEF d
  <2>2. Shape(d)
    BY <2>1 DEF IInv, Weak, Shape, Fields
  <2>3. Linked(d) /\ Deferral(d)
    BY <2>1 DEF IInv, Weak, Linked, Deferral, UnresolvedCommands, Fields
  <2>4. Owners(d) /\ Closed(d) /\ Timed(d) /\ Selection(d)
    BY <2>1 DEF IInv, Owners, Closed, Timed, Selection, RepliesBlocked, Fields
  <2>5. IInv(d)
    BY <2>2, <2>3, <2>4 DEF IInv, Weak
  <2>6. CommitDeselection(c) = Emit(d, StateChanged("NotSelected"))
    BY <1>2 DEF CommitDeselection, d
  <2> QED
    BY <2>1, <2>5, <2>6, EmitIInv, EmitFields DEF Fields
<1> QED BY <1>1, <1>2

\* receive_deselect_request keeps the invariant.
LEMMA ReceiveDeselectRequestIInv ==
  ASSUME NEW c, NEW m, IInv(c)
  PROVE  IInv(ReceiveDeselectRequest(c, m))
<1> DEFINE answer == IF m.sid # ControlSession \/ c.state # "Selected" THEN "NOT_SELECTED"
                     ELSE IF DataInUse(c) THEN "BUSY" ELSE "SUCCESS"
           sent == SendResponse(c, DeselectRsp(m.sid, answer, m.sys))
<1>1. IInv(sent) /\ (~sent.closing => sent.data = c.data)
  BY SendResponseEffect DEF Fields
<1>2. ReceiveDeselectRequest(c, m)
        = IF answer = "SUCCESS" /\ ~sent.closing THEN CommitDeselection(sent) ELSE sent
  BY DEF ReceiveDeselectRequest
<1>3. answer = "SUCCESS" => DOMAIN c.data = {}
  BY DEF DataInUse
<1> HIDE DEF sent, answer
<1> QED
  BY <1>1, <1>2, <1>3, CommitDeselectionIInv

\* receive_deselect_response keeps the invariant.
LEMMA ReceiveDeselectResponseIInv ==
  ASSUME NEW c, NEW m, IInv(c)
  PROVE  IInv(ReceiveDeselectResponse(c, m))
<1> DEFINE done == [c EXCEPT !.active = None]
<1>1. IInv(done) /\ done.active = None /\ \A f \in Fields \ {"active"} : done[f] = c[f]
  BY DropActive
<1>2. CASE ~Answers(c, "Deselect", m.sid, m.sys)
  BY <1>2, SendResponseEffect DEF ReceiveDeselectResponse, SendTransactionNotOpenReject
<1>3. CASE Answers(c, "Deselect", m.sid, m.sys)
  <2>1. c.active # None /\ RepliesBlocked(c) /\ DOMAIN c.data = {}
    BY <1>3 DEF Answers, RepliesBlocked, IInv, Selection
  <2> HIDE DEF done
  <2>2. IInv(CompleteControlTransaction(done, c.active, "DeselectRejected"))
    BY <1>1, <2>1, ActiveUnowned, CompleteControlTransactionIInv DEF Fields
  <2> DEFINE r == CommitDeselection(done)
  <2>3. IInv(r) /\ \A f \in Fields \ {"state", "t7", "replies", "out"} : r[f] = done[f]
    BY <1>1, <2>1, CommitDeselectionIInv DEF Fields
  <2> HIDE DEF r
  <2>4. IInv(CompleteControlTransaction(r, c.active, "Ok"))
    BY <1>1, <2>1, <2>3, ActiveUnowned, CompleteControlTransactionIInv DEF Fields
  <2> QED
    BY <1>3, <2>2, <2>4 DEF ReceiveDeselectResponse, r, done
<1> QED BY <1>2, <1>3

-----------------------------------------------------------------------------
\* Retiring requests keeps the invariant and leaves their commands unowned.
LEMMA DropData ==
  ASSUME NEW c, NEW S, NEW tomb, IInv(c)
  PROVE  LET r == [c EXCEPT !.data = Drop(@, S), !.tomb = tomb]
         IN  /\ IInv(r)
             /\ \A f \in Fields \ {"data", "tomb"} : r[f] = c[f]
             /\ \A s \in S \cap DOMAIN c.data : ~Owned(r, c.data[s].command)
<1> DEFINE r == [c EXCEPT !.data = Drop(@, S), !.tomb = tomb]
<1>1. /\ DOMAIN r = Fields
      /\ \A f \in Fields \ {"data", "tomb"} : r[f] = c[f]
      /\ DOMAIN r.data = DOMAIN c.data \ S
      /\ \A s \in DOMAIN r.data : r.data[s] = c.data[s]
  BY DEF IInv, Weak, Shape, Fields, Drop
<1> HIDE DEF r
<1>2. Shape(r)
  BY <1>1 DEF IInv, Weak, Shape, Fields
<1>3. Linked(r) /\ Deferral(r)
  BY <1>1 DEF IInv, Weak, Linked, Deferral, UnresolvedCommands, Fields
<1>4. Owners(r)
  BY <1>1 DEF IInv, Owners, Fields
<1>5. Closed(r) /\ Timed(r) /\ Selection(r)
  BY <1>1 DEF IInv, Closed, Timed, Selection, RepliesBlocked, Fields
<1>6. \A s \in S \cap DOMAIN c.data : ~Owned(r, c.data[s].command)
  BY <1>1, NoneAssumption DEF IInv, Weak, Shape, Owners, Owned, Fields
<1> QED
  BY <1>1, <1>2, <1>3, <1>4, <1>5, <1>6 DEF IInv, Weak, r

\* The T3 loop keeps the invariant.
LEMMA RetireRequestsIInv ==
  ASSUME NEW c, NEW systems, IInv(c), systems \subseteq DOMAIN c.data
  PROVE  IInv(RetireRequests(c, systems))
<1> DEFINE tomb == InsertTombstones(c.tomb, Contracts(c, systems), TombstoneCapacity)
           r == [c EXCEPT !.data = Drop(@, systems), !.tomb = tomb]
           ks == {c.data[s].command : s \in systems}
<1>1. RetireRequests(c, systems) = EmitCompletion(r, ks, "RequestTimedOut")
  BY DEF RetireRequests
<1> HIDE DEF tomb
<1>2. IInv(r) /\ \A s \in systems : ~Owned(r, c.data[s].command)
  BY DropData
<1> HIDE DEF r
<1>3. \A k \in ks : ~Owned(r, k)
  BY <1>2
<1> HIDE DEF ks
<1> QED
  BY <1>1, <1>2, <1>3, EmitCompletionIInv

\* Retiring one answered request keeps the invariant.
LEMMA RetireRequestIInv ==
  ASSUME NEW c, NEW sys \in DOMAIN c.data, IInv(c)
  PROVE  IInv(RetireRequest(c, sys)) /\ ~Owned(RetireRequest(c, sys), c.data[sys].command)
<1> DEFINE tomb == InsertTombstone(c.tomb, c.data[sys].contract, TombstoneCapacity)
           r == [c EXCEPT !.data = Drop(@, {sys}), !.tomb = tomb]
<1>1. RetireRequest(c, sys) = r
  BY DEF RetireRequest
<1> HIDE DEF tomb
<1>2. IInv(r) /\ \A s \in {sys} \cap DOMAIN c.data : ~Owned(r, c.data[s].command)
  BY DropData
<1> HIDE DEF r
<1> QED BY <1>1, <1>2

\* The idle Linktest probe keeps the invariant.
LEMMA StartIdleProbeIInv ==
  ASSUME NEW c, NEW due, IInv(c)
  PROVE  IInv(StartIdleProbe(c, due))
<1> DEFINE d == [c EXCEPT !.idle = FALSE]
<1>1. /\ DOMAIN d = Fields /\ d.idle \in BOOLEAN
      /\ \A f \in Fields \ {"idle"} : d[f] = c[f]
  BY DEF IInv, Weak, Shape, Fields
<1>a. StartIdleProbe(c, due) = c
      \/ (~c.closing /\ c.active = None /\ c.drain = None
          /\ StartIdleProbe(c, due) = StartTransaction(d, "Linktest", None))
  BY DEF StartIdleProbe
<1> HIDE DEF d
<1>2. Weak(d)
  BY <1>1 DEF IInv, Weak, Shape, Linked, Deferral, UnresolvedCommands, Fields
<1>3. Owners(d) /\ Closed(d) /\ Timed(d) /\ Selection(d)
  BY <1>1 DEF IInv, Owners, Closed, Timed, Selection, RepliesBlocked, Fields
<1> QED
  BY <1>1, <1>2, <1>3, <1>a, StartTransactionIInv DEF IInv, TransactionKinds, Fields

\* expire_deadlines keeps the invariant, whichever deadlines have passed.
LEMMA ExpireDeadlinesIInv ==
  ASSUME NEW c, NEW due, IInv(c)
  PROVE  IInv(ExpireDeadlines(c, due))
<1>1. IInv(CloseAll(c, "CommunicationsTimeoutT7"))
  BY CloseAllIInv DEF IInv
<1>2. ASSUME c.active # None
      PROVE  IInv(CloseAll(CompleteControlTransaction([c EXCEPT !.active = None], c.active,
                                                      "TimeoutT6"),
                           "CommunicationsTimeoutT6"))
  <2> DEFINE done == [c EXCEPT !.active = None]
  <2>1. IInv(done) /\ done.active = None /\ \A f \in Fields \ {"active"} : done[f] = c[f]
    BY DropActive
  <2> HIDE DEF done
  <2>2. IInv(CompleteControlTransaction(done, c.active, "TimeoutT6"))
    BY <1>2, <2>1, ActiveUnowned, CompleteControlTransactionIInv DEF Fields
  <2> QED
    BY <2>2, CloseAllIInv DEF IInv, done
<1>3. IInv(RetireRequests(c, ExpiredRequests(c, due)))
  BY RetireRequestsIInv DEF ExpiredRequests
<1>4. IInv(StartIdleProbe(
         ProgressDeselect(RetireRequests(c, ExpiredRequests(c, due)), due.drain), due.idle))
  BY <1>3, ProgressDeselectIInv, StartIdleProbeIInv
<1> QED
  BY <1>1, <1>2, <1>4 DEF ExpireDeadlines

-----------------------------------------------------------------------------
\* The invariant does not depend on the actions of the previous handler.
LEMMA BeginIInv ==
  ASSUME NEW c, IInv(c)
  PROVE  IInv(Begin(c)) /\ \A f \in Fields \ {"out"} : Begin(c)[f] = c[f]
<1> DEFINE r == Begin(c)
<1>1. DOMAIN r = Fields /\ \A f \in Fields \ {"out"} : r[f] = c[f]
  BY DEF Begin, IInv, Weak, Shape, Fields
<1> HIDE DEF r
<1>2. Weak(r)
  BY <1>1 DEF IInv, Weak, Shape, Linked, Deferral, UnresolvedCommands, Fields
<1>3. Owners(r) /\ Closed(r) /\ Timed(r) /\ Selection(r)
  BY <1>1 DEF IInv, Owners, Closed, Timed, Selection, RepliesBlocked, Fields
<1> QED
  BY <1>1, <1>2, <1>3 DEF IInv, r

\* Opening a new command keeps the invariant, and nothing owns it yet.
LEMMA OpenCommandIInv ==
  ASSUME NEW core0, IInv(core0), NEW k \in Commands \ DOMAIN core0.open, NEW kind \in CommandKinds
  PROVE  LET c == [Begin(core0) EXCEPT !.open = Put(@, k, kind)]
         IN  /\ IInv(c) /\ Free(c, k, kind)
             /\ \A f \in Fields \ {"open", "out"} : c[f] = core0[f]
<1> DEFINE b == Begin(core0)
           q == Put(b.open, k, kind)
           c == [b EXCEPT !.open = q]
<1>1. IInv(b) /\ \A f \in Fields \ {"out"} : b[f] = core0[f]
  BY BeginIInv
<1> HIDE DEF b
<1>2. /\ DOMAIN q = DOMAIN b.open \cup {k}
      /\ q[k] = kind
      /\ \A j \in DOMAIN b.open : j # k /\ q[j] = b.open[j]
  BY <1>1 DEF Put, Fields
<1> HIDE DEF q
<1>3. DOMAIN c = Fields /\ c.open = q /\ \A f \in Fields \ {"open"} : c[f] = b[f]
  BY <1>1 DEF IInv, Weak, Shape, Fields
<1> HIDE DEF c
<1>4. Shape(c)
  BY <1>1, <1>2, <1>3 DEF IInv, Weak, Shape, Fields
<1>5. Linked(c) /\ Deferral(c)
  BY <1>1, <1>2, <1>3 DEF IInv, Weak, Linked, Deferral, UnresolvedCommands, Fields
<1>6. Owners(c)
  BY <1>1, <1>2, <1>3 DEF IInv, Owners, Fields
<1>7. Closed(c) /\ Timed(c) /\ Selection(c)
  BY <1>1, <1>3 DEF IInv, Closed, Timed, Selection, RepliesBlocked, Fields
<1>8. Free(c, k, kind)
  BY <1>1, <1>2, <1>3, NoneAssumption
  DEF IInv, Weak, Linked, Owners, Closed, Free, Owned, UnresolvedCommands, Fields
<1> QED
  BY <1>1, <1>3, <1>4, <1>5, <1>6, <1>7, <1>8 DEF IInv, Weak, Fields, b, q, c

\* start_select and start_linktest keep the invariant.
LEMMA StartSelectIInv ==
  ASSUME NEW c, NEW k, IInv(c), ~c.closing, c.drain = None, Free(c, k, "Control")
  PROVE  IInv(StartSelect(c, k)) /\ IInv(StartLinktest(c, k))
BY CompleteAsIInv, StartTransactionIInv
DEF StartSelect, StartLinktest, CompleteError, Free, TransactionKinds

\* A new write for a command without one keeps the bookkeeping of writes.
LEMMA NewWriteLinked ==
  ASSUME NEW c, NEW d, NEW k, NEW kind, NEW sid, NEW sys,
         Weak(c), c.nextWrite # WriteSpace,
         d.nextWrite = c.nextWrite + 1,
         d.pending = Put(c.pending, c.nextWrite, PendingWrite(kind, k, sid, sys)),
         d.open = c.open, d.deferred = c.deferred,
         k # None => /\ kind # "Response"
                     /\ k \in DOMAIN c.open
                     /\ c.open[k] = KindFor(kind)
                     /\ k \notin UnresolvedCommands(c)
  PROVE  Linked(d) /\ Deferral(d)
<1> DEFINE p == PendingWrite(kind, k, sid, sys)
<1>1. /\ DOMAIN d.pending = DOMAIN c.pending \cup {c.nextWrite}
      /\ d.pending[c.nextWrite] = p
      /\ \A w \in DOMAIN c.pending : w # c.nextWrite => d.pending[w] = c.pending[w]
  BY DEF Put
<1>2. p.command = k /\ p.kind = kind
  BY DEF PendingWrite
<1> HIDE DEF p
<1>3. /\ \A w \in DOMAIN c.pending : w # c.nextWrite /\ w < d.nextWrite
      /\ c.nextWrite < d.nextWrite
  BY FreshWrite
<1>4. \A w \in DOMAIN c.pending : k # None => c.pending[w].command # k
  BY DEF UnresolvedCommands
<1>5. Linked(d)
  BY <1>1, <1>2, <1>3, <1>4 DEF Weak, Linked
<1>6. Deferral(d)
  BY <1>1, <1>2, <1>3 DEF Weak, Deferral, UnresolvedCommands
<1> QED BY <1>5, <1>6

\* start_data keeps the invariant for Send and for Request.
LEMMA StartDataIInv ==
  ASSUME NEW c, NEW k, NEW primary, NEW w \in BOOLEAN, IInv(c), ~c.closing,
         Free(c, k, IF w THEN "Request" ELSE "Send")
  PROVE  IInv(StartData(c, k, primary, w))
<1> DEFINE header == DataHeader(DataSession, primary.stream, primary.function, w, c.nextSys)
           contract == ForRequest(DataSession, c.nextSys, primary.stream, primary.function)
           request == [command |-> k, write |-> c.nextWrite, armed |-> FALSE,
                       contract |-> contract]
           kind == IF w THEN "DataRequest" ELSE "DataSend"
           p == PendingWrite(kind, k, DataSession, c.nextSys)
           q == Put(c.pending, c.nextWrite, p)
           data == IF w THEN Put(c.data, c.nextSys, request) ELSE c.data
           d == [c EXCEPT !.nextSys = @ + 1, !.nextWrite = @ + 1, !.data = data, !.pending = q]
           frame == SendFrame(c.nextWrite, DataMsg(header, primary.body))
<1>1. \A e : IInv(CompleteError(c, k, e))
  BY CompleteAsIInv DEF CompleteError, Free
<1>2. IdentifiersExhausted(c) => IInv(RefuseIdentifiers(c))
  BY FailRuntimeInvariantIInv, CloseAllIInv DEF RefuseIdentifiers, IInv
<1>3. ASSUME c.drain = None, ~RepliesBlocked(c), c.state = "Selected", ~IdentifiersExhausted(c)
      PROVE  IInv(Emit(d, frame))
  <2>0. /\ Shape(c) /\ c.nextWrite \in WriteIds /\ c.nextWrite + 1 \in 0..WriteSpace
        /\ \A v \in DOMAIN c.pending : v # c.nextWrite
        /\ c.nextSys \in SystemBytes /\ c.nextSys + 1 \in 0..SystemBytesSpace
        /\ c.nextWrite # WriteSpace
    BY <1>3, FreshWrite, FreshSystemBytes DEF IInv, Weak, IdentifiersExhausted
  <2>1. /\ k \in Commands /\ k \in DOMAIN c.open
        /\ c.open[k] = IF w THEN "Request" ELSE "Send"
        /\ k \notin UnresolvedCommands(c)
        /\ c.open[k] = KindFor(kind)
        /\ \A s \in DOMAIN c.data : c.data[s].command # k
    BY <2>0 DEF Free, Shape, KindFor, Owned
  <2>2. /\ DOMAIN q = DOMAIN c.pending \cup {c.nextWrite}
        /\ q[c.nextWrite] = p
        /\ \A v \in DOMAIN c.pending : q[v] = c.pending[v]
    BY <2>0 DEF Put
  <2>3. /\ DOMAIN p = {"kind", "command", "sid", "sys"} /\ p.kind = kind /\ p.command = k
        /\ p.sys = c.nextSys
    BY DEF PendingWrite
  <2> HIDE DEF contract
  <2>4. /\ DOMAIN data = IF w THEN DOMAIN c.data \cup {c.nextSys} ELSE DOMAIN c.data
        /\ w => data[c.nextSys] = request
        /\ \A s \in DOMAIN c.data : ~w \/ s # c.nextSys => data[s] = c.data[s]
    BY DEF Put
  <2>5. /\ DOMAIN request = {"command", "write", "armed", "contract"}
        /\ request.command = k /\ request.write = c.nextWrite /\ request.armed \in BOOLEAN
    OBVIOUS
  <2> HIDE DEF p, q, data, request
  <2>6. /\ DOMAIN d = Fields
        /\ \A f \in Fields \ {"nextSys", "nextWrite", "data", "pending"} : d[f] = c[f]
        /\ d.nextSys = c.nextSys + 1 /\ d.nextWrite = c.nextWrite + 1
        /\ d.data = data /\ d.pending = q
    BY <2>0 DEF Shape, Fields
  <2> HIDE DEF d
  <2>7. Shape(d)
    <3>1. ASSUME NEW s \in DOMAIN data
          PROVE  /\ s \in SystemBytes
                 /\ data[s].command \in Commands
                 /\ data[s].write \in WriteIds
                 /\ data[s].armed \in BOOLEAN
                 /\ DOMAIN data[s] = {"command", "write", "armed", "contract"}
      <4>1. CASE w /\ s = c.nextSys
        BY <4>1, <2>0, <2>1, <2>4, <2>5
      <4>2. CASE ~(w /\ s = c.nextSys)
        BY <4>2, <2>0, <2>4 DEF Shape
      <4> QED BY <4>1, <4>2
    <3>2. ASSUME NEW v \in DOMAIN q
          PROVE  /\ v \in WriteIds
                 /\ q[v].kind \in WriteKinds
                 /\ q[v].command \in Commands \cup {None}
                 /\ DOMAIN q[v] = {"kind", "command", "sid", "sys"}
      <4>1. CASE v = c.nextWrite
        BY <4>1, <2>0, <2>1, <2>2, <2>3 DEF WriteKinds
      <4>2. CASE v # c.nextWrite
        BY <4>2, <2>0, <2>2 DEF Shape
      <4> QED BY <4>1, <4>2
    <3> QED
      BY <2>0, <2>6, <3>1, <3>2 DEF Shape, Fields
  <2>8. Linked(d) /\ Deferral(d)
    BY <2>0, <2>1, <2>6, NewWriteLinked DEF IInv, p, q, Fields
  <2>9. Owners(d)
    BY <1>3, <2>0, <2>1, <2>2, <2>3, <2>4, <2>5, <2>6 DEF IInv, Owners, Fields
  <2>10. Closed(d)
    BY <2>2, <2>3, <2>6 DEF IInv, Closed, Fields
  <2>11. Timed(d)
    BY <2>0, <2>2, <2>3, <2>4, <2>5, <2>6 DEF IInv, Timed, Fields
  <2>12. Selection(d)
    BY <1>3, <2>2, <2>6 DEF IInv, Selection, RepliesBlocked, Fields
  <2> QED
    BY <2>7, <2>8, <2>9, <2>10, <2>11, <2>12, EmitIInv DEF IInv, Weak
<1>4. \/ \E e : StartData(c, k, primary, w) = CompleteError(c, k, e)
      \/ IdentifiersExhausted(c) /\ StartData(c, k, primary, w) = RefuseIdentifiers(c)
      \/ /\ c.drain = None /\ ~RepliesBlocked(c) /\ c.state = "Selected"
         /\ ~IdentifiersExhausted(c)
         /\ StartData(c, k, primary, w) = Emit(d, frame)
  BY DEF StartData, AllocateRequestIdentifiers, IInv, Weak, Shape, Fields
<1> HIDE DEF d, frame
<1> QED BY <1>1, <1>2, <1>3, <1>4

\* What the completion of an open, unshared command leaves alone.
LEMMA EmitOneEffect ==
  ASSUME NEW c, NEW j \in DOMAIN c.open, NEW kinds, NEW result, Weak(c), c.open[j] \in kinds
  PROVE  LET r == CompleteAs(c, j, kinds, result)
         IN  /\ Weak(r)
             /\ \A f \in Fields \ {"open", "deferred", "pending", "out"} : r[f] = c[f]
             /\ DOMAIN r.pending = DOMAIN c.pending
             /\ \A k \in DOMAIN c.open \ {j} : k \in DOMAIN r.open /\ r.open[k] = c.open[k]
             /\ UnresolvedCommands(r) \subseteq UnresolvedCommands(c)
<1>1. CompleteAs(c, j, kinds, result) = EmitCompletion(c, {j}, result)
  BY DEF CompleteAs
<1> DEFINE r == EmitCompletion(c, {j}, result)
<1>2. /\ \A f \in Fields \ {"open", "deferred", "pending", "out"} : r[f] = c[f]
      /\ DOMAIN r.open = DOMAIN c.open \ {j}
      /\ \A k \in DOMAIN r.open : r.open[k] = c.open[k]
      /\ DOMAIN r.pending = DOMAIN c.pending
      /\ \A w \in DOMAIN c.pending :
           r.pending[w].command = IF c.pending[w].command \in {j} THEN None
                                  ELSE c.pending[w].command
  BY EmitCompletionEffect DEF Weak
<1>3. Weak(r)
  BY EmitCompletionWeak
<1> HIDE DEF r
<1>4. UnresolvedCommands(r) \subseteq UnresolvedCommands(c)
  BY <1>2 DEF UnresolvedCommands
<1> QED
  BY <1>1, <1>2, <1>3, <1>4 DEF r

\* complete_data_for_deselection ends the requests and leaves the control commands
\* open.
LEMMA CompleteDataForDeselectionEffect ==
  ASSUME NEW c, Weak(c)
  PROVE  LET r == CompleteDataForDeselection(c)
         IN  /\ Weak(r)
             /\ DOMAIN r.data = {}
             /\ \A f \in Fields \ {"data", "open", "deferred", "pending", "out"} : r[f] = c[f]
             /\ DOMAIN r.pending = DOMAIN c.pending
             /\ \A k \in DOMAIN c.open : c.open[k] = "Control" =>
                  k \in DOMAIN r.open /\ r.open[k] = "Control"
             /\ UnresolvedCommands(r) \subseteq UnresolvedCommands(c)
<1> DEFINE d == [c EXCEPT !.data = EmptyFunction]
           ks == {k \in DOMAIN c.open : c.open[k] \in {"Send", "Request"}}
<1>1. DOMAIN d = Fields /\ DOMAIN d.data = {} /\ \A f \in Fields \ {"data"} : d[f] = c[f]
  BY DEF Weak, Shape, Fields, EmptyFunction
<1>2. CompleteDataForDeselection(c) = CompleteOrDefer(d, ks, "SessionDeselected")
  BY DEF CompleteDataForDeselection
<1> HIDE DEF d
<1>3. Shape(d)
  BY <1>1 DEF Weak, Shape, Fields
<1>4. Linked(d) /\ Deferral(d) /\ UnresolvedCommands(d) = UnresolvedCommands(c)
  BY <1>1 DEF Weak, Linked, Deferral, UnresolvedCommands, Fields
<1>5. Weak(d)
  BY <1>3, <1>4 DEF Weak
<1>6. \A k \in DOMAIN c.open : c.open[k] = "Control" => k \in DOMAIN d.open \ ks
  BY <1>1 DEF Fields
<1> DEFINE r == CompleteOrDefer(d, ks, "SessionDeselected")
<1> HIDE DEF ks
<1>7. /\ Weak(r)
      /\ \A f \in Fields \ {"open", "deferred", "pending", "out"} : r[f] = d[f]
      /\ DOMAIN r.pending = DOMAIN d.pending
      /\ \A k \in DOMAIN d.open \ ks : k \in DOMAIN r.open /\ r.open[k] = d.open[k]
      /\ UnresolvedCommands(r) \subseteq UnresolvedCommands(d)
  BY <1>5, CompleteOrDeferWeak
<1> HIDE DEF r
<1> QED
  BY <1>1, <1>2, <1>4, <1>6, <1>7 DEF Fields, r

\* start_separate keeps the invariant, for a command and for the tail Separate of
\* a shutdown drain.
LEMMA StartSeparateIInv ==
  ASSUME NEW c, NEW k, NEW reason, IInv(c), ~c.closing,
         k = None \/ Free(c, k, "Control")
  PROVE  IInv(StartSeparate(c, k, reason))
<1>1. CASE c.state # "Selected"
  BY <1>1, CompleteAsIInv DEF StartSeparate, CompleteError, Free
<1>2. CASE c.state = "Selected" /\ IdentifiersExhausted(c)
  BY <1>2, FailRuntimeInvariantIInv, CloseAllIInv DEF StartSeparate, RefuseIdentifiers, IInv
<1>3. CASE c.state = "Selected" /\ ~IdentifiersExhausted(c)
  <2> DEFINE left == [AllocateRequestIdentifiers(c) EXCEPT !.state = "NotSelected",
                                                           !.closing = TRUE]
             nodrain == IF left.drain = None THEN left
                        ELSE CompleteError([left EXCEPT !.drain = None], left.drain,
                                           "TransactionAborted")
             nocontrol == IF nodrain.active = None THEN nodrain
                          ELSE CompleteControlTransaction([nodrain EXCEPT !.active = None],
                                                          nodrain.active, "TransactionAborted")
             nodata == CompleteDataForDeselection(nocontrol)
             written == [nodata EXCEPT !.pending =
                           Put(@, c.nextWrite, PendingWrite("Separate", k, None, None))]
             sent == Emit(written, SendFrame(c.nextWrite, SeparateReq(ControlSession, c.nextSys)))
  <2> DEFINE Keeps(d) ==
               /\ Weak(d) /\ d.closing
               /\ d.nextWrite = c.nextWrite + 1
               /\ DOMAIN d.pending = DOMAIN c.pending
               /\ k # None => /\ k \in DOMAIN d.open /\ d.open[k] = "Control"
                              /\ k \notin UnresolvedCommands(d)
  <2>0. StartSeparate(c, k, reason)
          = RequestClose(Emit(sent, StateChanged("NotSelected")), reason, c.nextWrite)
    BY <1>3 DEF StartSeparate
  <2>1. /\ Shape(c) /\ c.nextWrite \in WriteIds /\ c.nextWrite + 1 \in 0..WriteSpace
        /\ \A v \in DOMAIN c.pending : v # c.nextWrite /\ v < c.nextWrite + 1
        /\ c.nextSys + 1 \in 0..SystemBytesSpace
        /\ c.nextWrite < c.nextWrite + 1
    BY <1>3, FreshWrite, FreshSystemBytes DEF IInv, Weak, IdentifiersExhausted
  <2>2. /\ Keeps(left)
        /\ \A f \in Fields \ {"nextWrite", "nextSys", "state", "closing"} : left[f] = c[f]
    <3>1. /\ DOMAIN left = Fields
          /\ \A f \in Fields \ {"nextWrite", "nextSys", "state", "closing"} : left[f] = c[f]
          /\ left.nextWrite = c.nextWrite + 1 /\ left.nextSys = c.nextSys + 1
          /\ left.state = "NotSelected" /\ left.closing /\ left.closing \in BOOLEAN
      BY <2>1 DEF Shape, Fields, AllocateRequestIdentifiers
    <3> HIDE DEF left
    <3>2. Shape(left)
      BY <2>1, <3>1 DEF Shape, Fields
    <3>3. Linked(left) /\ Deferral(left) /\ UnresolvedCommands(left) = UnresolvedCommands(c)
      BY <2>1, <3>1 DEF IInv, Weak, Linked, Deferral, UnresolvedCommands, Fields
    <3> QED
      BY <3>1, <3>2, <3>3 DEF Weak, Free, Fields
  <2> HIDE DEF left
  <2>3. /\ Keeps(nodrain)
        /\ nodrain.active = c.active
        /\ c.active # None => nodrain.open = c.open
    <3>1. CASE c.drain = None
      BY <2>2, <3>1 DEF Fields
    <3>2. CASE c.drain # None
      <4> DEFINE e == [left EXCEPT !.drain = None]
      <4>1. DOMAIN e = Fields /\ e.drain = None /\ \A f \in Fields \ {"drain"} : e[f] = left[f]
        BY <2>2 DEF Weak, Shape, Fields
      <4> HIDE DEF e
      <4>2. Shape(e)
        <5>1. Shape(left) BY <2>2 DEF Weak
        <5> QED BY <4>1, <5>1 DEF Shape, Fields
      <4>3. Linked(e) /\ Deferral(e) /\ UnresolvedCommands(e) = UnresolvedCommands(left)
        BY <2>2, <4>1 DEF Weak, Linked, Deferral, UnresolvedCommands, Fields
      <4>4. /\ c.drain \in DOMAIN e.open /\ e.open[c.drain] = "Control"
            /\ c.active = None /\ k # c.drain
        BY <2>2, <3>2, <4>1 DEF IInv, Owners, Free, Owned, Fields
      <4>5. e.open[c.drain] \in CommandKinds
        BY <4>4 DEF CommandKinds
      <4>6. Weak(e) BY <4>2, <4>3 DEF Weak
      <4>7. nodrain = CompleteAs(e, c.drain, CommandKinds, "TransactionAborted")
        BY <2>2, <3>2 DEF CompleteError, Fields, e
      <4> DEFINE r == CompleteAs(e, c.drain, CommandKinds, "TransactionAborted")
      <4>8. /\ Weak(r)
            /\ \A f \in Fields \ {"open", "deferred", "pending", "out"} : r[f] = e[f]
            /\ DOMAIN r.pending = DOMAIN e.pending
            /\ \A i \in DOMAIN e.open \ {c.drain} : i \in DOMAIN r.open /\ r.open[i] = e.open[i]
            /\ UnresolvedCommands(r) \subseteq UnresolvedCommands(e)
        BY <4>4, <4>5, <4>6, EmitOneEffect
      <4> HIDE DEF r
      <4>9. Keeps(r) /\ r.active = None
        BY <2>2, <4>1, <4>3, <4>4, <4>8 DEF Fields
      <4> QED
        BY <4>4, <4>7, <4>9 DEF r
    <3> QED BY <3>1, <3>2
  <2> HIDE DEF nodrain
  <2>4. Keeps(nocontrol) /\ nocontrol.active = None
    <3>1. CASE c.active = None
      BY <2>3, <3>1
    <3>2. CASE c.active # None
      <4> DEFINE e == [nodrain EXCEPT !.active = None]
      <4>1. DOMAIN e = Fields /\ e.active = None /\ \A f \in Fields \ {"active"} : e[f] = nodrain[f]
        BY <2>3 DEF Weak, Shape, Fields
      <4> HIDE DEF e
      <4>2. Shape(e)
        <5>1. Shape(nodrain) BY <2>3 DEF Weak
        <5> QED BY <4>1, <5>1 DEF Shape, Fields
      <4>3. Linked(e) /\ Deferral(e) /\ UnresolvedCommands(e) = UnresolvedCommands(nodrain)
        BY <2>3, <4>1 DEF Weak, Linked, Deferral, UnresolvedCommands, Fields
      <4>4. Weak(e) BY <4>2, <4>3 DEF Weak
      <4>5. nocontrol = CompleteControlTransaction(e, c.active, "TransactionAborted")
        BY <2>3, <3>2 DEF e
      <4>6. Keeps(e)
        BY <2>3, <4>1, <4>3, <4>4 DEF Fields
      <4>7. CASE c.active.command = None
        BY <4>1, <4>5, <4>6, <4>7 DEF CompleteControlTransaction
      <4>8. CASE c.active.command # None
        <5> DEFINE j == c.active.command
                   r == CompleteAs(e, j, {"Control"}, "TransactionAborted")
        <5>1. nocontrol = r
          BY <4>5, <4>8 DEF CompleteControlTransaction, CompleteControl
        <5>2. j \in DOMAIN e.open /\ e.open[j] \in {"Control"} /\ k # j
          BY <2>3, <3>2, <4>1, <4>8 DEF IInv, Owners, Free, Owned, Fields
        <5>3. /\ Weak(r)
              /\ \A f \in Fields \ {"open", "deferred", "pending", "out"} : r[f] = e[f]
              /\ DOMAIN r.pending = DOMAIN e.pending
              /\ \A i \in DOMAIN e.open \ {j} : i \in DOMAIN r.open /\ r.open[i] = e.open[i]
              /\ UnresolvedCommands(r) \subseteq UnresolvedCommands(e)
          BY <4>4, <5>2, EmitOneEffect
        <5> HIDE DEF r, j
        <5> QED
          BY <4>1, <4>6, <5>1, <5>2, <5>3 DEF Fields
      <4> QED BY <4>7, <4>8
    <3> QED BY <3>1, <3>2
  <2> HIDE DEF nocontrol
  <2>5. Keeps(nodata) /\ nodata.active = None /\ DOMAIN nodata.data = {}
    <3>1. /\ Weak(nodata)
          /\ DOMAIN nodata.data = {}
          /\ \A f \in Fields \ {"data", "open", "deferred", "pending", "out"} :
               nodata[f] = nocontrol[f]
          /\ DOMAIN nodata.pending = DOMAIN nocontrol.pending
          /\ \A i \in DOMAIN nocontrol.open : nocontrol.open[i] = "Control" =>
               i \in DOMAIN nodata.open /\ nodata.open[i] = "Control"
          /\ UnresolvedCommands(nodata) \subseteq UnresolvedCommands(nocontrol)
      BY <2>4, CompleteDataForDeselectionEffect
    <3> HIDE DEF nodata
    <3> QED
      BY <2>4, <3>1 DEF Fields
  <2> HIDE DEF nodata
  <2>6. Weak(written) /\ written.closing /\ written.active = None /\ DOMAIN written.data = {}
    <3> DEFINE p == PendingWrite("Separate", k, None, None)
               q == Put(nodata.pending, c.nextWrite, p)
    <3>1. /\ DOMAIN q = DOMAIN nodata.pending \cup {c.nextWrite}
          /\ q[c.nextWrite] = p
          /\ \A v \in DOMAIN nodata.pending : q[v] = nodata.pending[v]
      BY <2>1, <2>5 DEF Put
    <3>2. /\ DOMAIN p = {"kind", "command", "sid", "sys"} /\ p.kind = "Separate" /\ p.command = k
      BY DEF PendingWrite
    <3> HIDE DEF p, q
    <3>3. /\ DOMAIN written = Fields
          /\ \A f \in Fields \ {"pending"} : written[f] = nodata[f]
          /\ written.pending = q
      BY <2>5 DEF Weak, Shape, Fields, p, q
    <3> HIDE DEF written
    <3>4. k # None => k \in Commands
      BY <2>1 DEF Free, Shape
    <3>5. Shape(written)
      <4>1. Shape(nodata)
        BY <2>5 DEF Weak
      <4>2. ASSUME NEW v \in DOMAIN q
            PROVE  /\ v \in WriteIds
                   /\ q[v].kind \in WriteKinds
                   /\ q[v].command \in Commands \cup {None}
                   /\ DOMAIN q[v] = {"kind", "command", "sid", "sys"}
        <5>1. CASE v = c.nextWrite
          BY <2>1, <3>1, <3>2, <3>4, <5>1 DEF WriteKinds
        <5>2. CASE v # c.nextWrite
          BY <3>1, <4>1, <5>2 DEF Shape
        <5> QED BY <5>1, <5>2
      <4> QED
        BY <3>3, <4>1, <4>2 DEF Shape, Fields
    <3>6. Linked(written)
      <4>1. \A v \in DOMAIN nodata.pending : k # None => nodata.pending[v].command # k
        BY <2>5 DEF UnresolvedCommands
      <4>2. KindFor("Separate") = "Control"
        BY DEF KindFor
      <4> QED
        BY <2>1, <2>5, <3>1, <3>2, <3>3, <4>1, <4>2 DEF Weak, Linked, Fields
    <3>7. Deferral(written)
      BY <2>1, <2>5, <3>1, <3>3 DEF Weak, Deferral, UnresolvedCommands, Fields
    <3> QED
      BY <2>5, <3>3, <3>5, <3>6, <3>7 DEF Weak, Fields
  <2> HIDE DEF written
  <2>7. /\ Weak(Emit(sent, StateChanged("NotSelected")))
        /\ \A f \in Fields \ {"out"} : Emit(sent, StateChanged("NotSelected"))[f] = written[f]
    <3>1. Weak(sent) /\ \A f \in Fields \ {"out"} : sent[f] = written[f]
      BY <2>6, EmitWeak
    <3> HIDE DEF sent
    <3> QED
      BY <3>1, EmitWeak
  <2> HIDE DEF sent
  <2> QED
    BY <2>0, <2>6, <2>7, RequestCloseEffect, ClosedIInv DEF Fields
<1> QED BY <1>1, <1>2, <1>3

\* on_command keeps the invariant for every command.
LEMMA OnCommandIInv ==
  ASSUME NEW c0, IInv(c0), NEW k \in Commands, NEW kind \in CommandNames, NEW primary
  PROVE  IInv(OnCommand(c0, k, kind, primary))
<1>1. CASE k \in DOMAIN c0.open
  BY <1>1, BeginIInv, FailRuntimeInvariantIInv DEF OnCommand, IInv
<1>2. CASE k \notin DOMAIN c0.open
  <2> DEFINE c == [Begin(c0) EXCEPT !.open = Put(@, k, OpenKind(kind))]
  <2>1. OpenKind(kind) \in CommandKinds
    BY DEF OpenKind, CommandKinds, CommandNames, ControlCommands
  <2>2. IInv(c) /\ Free(c, k, OpenKind(kind))
    BY <1>2, <2>1, OpenCommandIInv
  <2>3. OnCommand(c0, k, kind, primary) =
          IF c.state = "None" THEN CompleteError(c, k, "NotConnected")
          ELSE IF c.closing THEN CompleteError(c, k, "ConnectionLost")
          ELSE IF c.drain # None /\ kind \in {"Select", "Deselect", "Linktest"}
          THEN CompleteError(c, k, "ControlBusy")
          ELSE CASE kind = "Select"   -> StartSelect(c, k)
                 [] kind = "Deselect" -> StartDeselect(c, k)
                 [] kind = "Linktest" -> StartLinktest(c, k)
                 [] kind = "Separate" -> StartSeparate(c, k, "LocalSeparate")
                 [] kind = "Send"     -> StartData(c, k, primary, FALSE)
                 [] kind = "Request"  -> StartData(c, k, primary, TRUE)
    BY <1>2 DEF OnCommand
  <2> HIDE DEF c
  <2>4. \A e : IInv(CompleteError(c, k, e))
    BY <2>2, CompleteAsIInv DEF CompleteError, Free
  <2>5. ASSUME ~c.closing, c.drain = None, kind = "Select" PROVE IInv(StartSelect(c, k))
    BY <2>2, <2>5, StartSelectIInv DEF OpenKind, ControlCommands
  <2>6. ASSUME ~c.closing, c.drain = None, kind = "Linktest" PROVE IInv(StartLinktest(c, k))
    BY <2>2, <2>6, StartSelectIInv DEF OpenKind, ControlCommands
  <2>7. ASSUME ~c.closing, kind = "Deselect" PROVE IInv(StartDeselect(c, k))
    BY <2>2, <2>7, StartDeselectIInv DEF OpenKind, ControlCommands
  <2>8. ASSUME ~c.closing, kind = "Separate" PROVE IInv(StartSeparate(c, k, "LocalSeparate"))
    BY <2>2, <2>8, StartSeparateIInv DEF OpenKind, ControlCommands
  <2>9. ASSUME ~c.closing, kind = "Send" PROVE IInv(StartData(c, k, primary, FALSE))
    BY <2>2, <2>9, StartDataIInv DEF OpenKind, ControlCommands
  <2>10. ASSUME ~c.closing, kind = "Request" PROVE IInv(StartData(c, k, primary, TRUE))
    BY <2>2, <2>10, StartDataIInv DEF OpenKind, ControlCommands
  <2>11. CASE c.state = "None" \/ c.closing
              \/ (c.drain # None /\ kind \in {"Select", "Deselect", "Linktest"})
    BY <2>3, <2>4, <2>11
  <2>12. CASE ~(c.state = "None" \/ c.closing
                \/ (c.drain # None /\ kind \in {"Select", "Deselect", "Linktest"}))
    BY <2>3, <2>5, <2>6, <2>7, <2>8, <2>9, <2>10, <2>12 DEF CommandNames, ControlCommands
  <2> QED BY <2>11, <2>12
<1> QED BY <1>1, <1>2

\* Consuming reply capabilities keeps the invariant.
LEMMA DropReply ==
  ASSUME NEW c, NEW S, IInv(c)
  PROVE  LET r == [c EXCEPT !.replies = Drop(@, S)]
         IN  IInv(r) /\ \A f \in Fields \ {"replies"} : r[f] = c[f]
<1> DEFINE r == [c EXCEPT !.replies = Drop(@, S)]
<1>1. /\ DOMAIN r = Fields /\ DOMAIN r.replies \subseteq DOMAIN c.replies
      /\ \A f \in Fields \ {"replies"} : r[f] = c[f]
  BY DEF IInv, Weak, Shape, Fields, Drop
<1> HIDE DEF r
<1>2. Shape(r)
  BY <1>1 DEF IInv, Weak, Shape, Fields
<1>3. Linked(r) /\ Deferral(r)
  BY <1>1 DEF IInv, Weak, Linked, Deferral, UnresolvedCommands, Fields
<1>4. Owners(r) /\ Closed(r) /\ Timed(r) /\ Selection(r)
  BY <1>1 DEF IInv, Owners, Closed, Timed, Selection, RepliesBlocked, Fields
<1> QED
  BY <1>1, <1>2, <1>3, <1>4 DEF IInv, Weak, r

\* on_reply keeps the invariant for every intent.
LEMMA OnReplyIInv ==
  ASSUME NEW c0, IInv(c0), NEW k \in Commands, NEW capability, NEW intent, NEW body, NEW due
  PROVE  IInv(OnReply(c0, k, capability, intent, body, due))
<1>1. CASE k \in DOMAIN c0.open
  BY <1>1, BeginIInv, FailRuntimeInvariantIInv DEF OnReply, IInv
<1>2. CASE k \notin DOMAIN c0.open
  <2> DEFINE kind == IF intent = "Abandon" THEN "Control" ELSE "Send"
             c    == [Begin(c0) EXCEPT !.open = Put(@, k, kind)]
             used == [c EXCEPT !.replies = Drop(@, {capability})]
             primary == c.replies[capability]
             function == IF intent = "Abort" THEN 0 ELSE primary.function + 1
             header  == DataHeader(primary.sid, primary.stream, function, FALSE, primary.sys)
             p == PendingWrite("DataSend", k, primary.sid, primary.sys)
             q == Put(used.pending, used.nextWrite, p)
             d == [used EXCEPT !.nextWrite = @ + 1, !.pending = q]
             frame == SendFrame(c.nextWrite, DataMsg(header, intent = "Secondary" /\ body))
  <2>1. IInv(c) /\ Free(c, k, kind)
    BY <1>2, OpenCommandIInv DEF CommandKinds
  <2>2. \/ \E e : OnReply(c0, k, capability, intent, body, due) = CompleteError(c, k, e)
        \/ OnReply(c0, k, capability, intent, body, due)
             = ProgressDeselect(CompleteControl(used, k, "Ok"), due)
        \/ OnReply(c0, k, capability, intent, body, due)
             = CompleteError(used, k, "ReplyRequiresAbort")
        \/ OnReply(c0, k, capability, intent, body, due) = FailRuntimeInvariant(used)
        \/ /\ ~c.closing /\ c.state = "Selected" /\ intent # "Abandon" /\ ~RepliesBlocked(c)
           /\ used.nextWrite # WriteSpace
           /\ OnReply(c0, k, capability, intent, body, due) = Emit(d, frame)
    <3> HIDE DEF c
    <3>1. c.nextWrite = used.nextWrite /\ c.pending = used.pending
      BY <2>1 DEF IInv, Weak, Shape, Fields
    <3> QED
      BY <1>2, <3>1 DEF OnReply, c
  <2> HIDE DEF c
  <2>3. IInv(used) /\ \A f \in Fields \ {"replies"} : used[f] = c[f]
    BY <2>1, DropReply
  <2> HIDE DEF used
  <2>4. Free(used, k, kind)
    BY <2>1, <2>3 DEF Free, Owned, UnresolvedCommands, Fields
  <2>5. /\ \A e : IInv(CompleteError(c, k, e))
        /\ IInv(CompleteError(used, k, "ReplyRequiresAbort"))
        /\ IInv(CompleteControl(used, k, "Ok"))
    BY <2>1, <2>3, <2>4, CompleteAsIInv DEF CompleteError, CompleteControl, Free
  <2>6. IInv(ProgressDeselect(CompleteControl(used, k, "Ok"), due)) /\ IInv(FailRuntimeInvariant(used))
    BY <2>3, <2>5, ProgressDeselectIInv, FailRuntimeInvariantIInv DEF IInv
  <2>7. ASSUME ~c.closing, c.state = "Selected", intent # "Abandon", ~RepliesBlocked(c),
               used.nextWrite # WriteSpace
        PROVE  IInv(Emit(d, frame))
    <3>0. /\ Shape(used) /\ used.nextWrite \in WriteIds /\ used.nextWrite + 1 \in 0..WriteSpace
          /\ \A v \in DOMAIN used.pending : v # used.nextWrite
      BY <2>3, <2>7, FreshWrite DEF IInv, Weak
    <3>1. /\ k \in Commands /\ k \in DOMAIN used.open /\ used.open[k] = "Send"
          /\ k \notin UnresolvedCommands(used) /\ k # used.drain
          /\ used.open[k] = KindFor("DataSend")
          /\ ~used.closing /\ used.state = "Selected" /\ ~RepliesBlocked(used)
      BY <2>3, <2>4, <2>7, <3>0 DEF Free, Owned, Shape, KindFor, RepliesBlocked, Fields
    <3>2. /\ DOMAIN q = DOMAIN used.pending \cup {used.nextWrite}
          /\ q[used.nextWrite] = p
          /\ \A v \in DOMAIN used.pending : q[v] = used.pending[v]
      BY <3>0 DEF Put
    <3>3. /\ DOMAIN p = {"kind", "command", "sid", "sys"} /\ p.kind = "DataSend" /\ p.command = k
      BY DEF PendingWrite
    <3> HIDE DEF p, q
    <3>4. /\ DOMAIN d = Fields
          /\ \A f \in Fields \ {"nextWrite", "pending"} : d[f] = used[f]
          /\ d.nextWrite = used.nextWrite + 1 /\ d.pending = q
      BY <3>0 DEF Shape, Fields
    <3> HIDE DEF d
    <3>5. Shape(d)
      <4>1. ASSUME NEW v \in DOMAIN q
            PROVE  /\ v \in WriteIds
                   /\ q[v].kind \in WriteKinds
                   /\ q[v].command \in Commands \cup {None}
                   /\ DOMAIN q[v] = {"kind", "command", "sid", "sys"}
        <5>1. CASE v = used.nextWrite
          BY <3>0, <3>1, <3>2, <3>3, <5>1 DEF WriteKinds
        <5>2. CASE v # used.nextWrite
          BY <3>0, <3>2, <5>2 DEF Shape
        <5> QED BY <5>1, <5>2
      <4> QED
        BY <3>0, <3>4, <4>1 DEF Shape, Fields
    <3>6. Linked(d) /\ Deferral(d)
      BY <2>3, <2>7, <3>1, <3>4, NewWriteLinked DEF IInv, p, q, Fields
    <3>7. Owners(d)
      BY <2>3, <3>0, <3>1, <3>2, <3>3, <3>4 DEF IInv, Owners, Fields
    <3>8. Closed(d) /\ Timed(d)
      BY <2>3, <3>0, <3>2, <3>3, <3>4 DEF IInv, Closed, Timed, Fields
    <3>9. Selection(d)
      BY <2>3, <3>1, <3>2, <3>4 DEF IInv, Selection, RepliesBlocked, Fields
    <3> QED
      BY <3>5, <3>6, <3>7, <3>8, <3>9, EmitIInv DEF IInv, Weak
  <2> HIDE DEF d, frame
  <2> QED BY <2>2, <2>5, <2>6, <2>7
<1> QED BY <1>1, <1>2

\* on_connected keeps the invariant.
LEMMA OnConnectedIInv ==
  ASSUME NEW c0, IInv(c0)
  PROVE  IInv(OnConnected(c0))
<1> DEFINE c == Begin(c0)
<1>1. IInv(c) /\ IInv(FailRuntimeInvariant(c))
  BY BeginIInv, FailRuntimeInvariantIInv DEF IInv
<1> DEFINE d == RecordActivity(ArmSelectionTimeout([c EXCEPT !.state = "NotSelected"]))
<1>2. \/ OnConnected(c0) = FailRuntimeInvariant(c)
      \/ c.state = "None" /\ ~c.closing /\ OnConnected(c0) = Emit(d, StateChanged("NotSelected"))
  BY DEF OnConnected
<1> HIDE DEF c
<1>3. ASSUME c.state = "None", ~c.closing PROVE IInv(d)
  <2>1. /\ DOMAIN d = Fields
        /\ \A f \in Fields \ {"state", "t7", "idle"} : d[f] = c[f]
        /\ d.state = "NotSelected" /\ d.t7 /\ d.t7 \in BOOLEAN /\ d.idle = IdleLinktest
    BY <1>1 DEF IInv, Weak, Shape, Fields, ArmSelectionTimeout, RecordActivity
  <2>2. DOMAIN c.data = {} /\ DOMAIN c.replies = {}
    BY <1>1, <1>3 DEF IInv, Selection
  <2> HIDE DEF d
  <2>3. Shape(d)
    BY <1>1, <2>1, IdleAssumption DEF IInv, Weak, Shape, Fields
  <2>4. Linked(d) /\ Deferral(d)
    BY <1>1, <2>1 DEF IInv, Weak, Linked, Deferral, UnresolvedCommands, Fields
  <2>5. Owners(d) /\ Closed(d) /\ Timed(d) /\ Selection(d)
    BY <1>1, <2>1, <2>2 DEF IInv, Owners, Closed, Timed, Selection, RepliesBlocked, Fields
  <2> QED BY <2>3, <2>4, <2>5 DEF IInv, Weak
<1> QED
  BY <1>1, <1>2, <1>3, EmitIInv

-----------------------------------------------------------------------------
\* Entering Selected and stopping T7 keeps the invariant.
LEMMA SelectedIInv ==
  ASSUME NEW c, IInv(c)
  PROVE  LET r == [c EXCEPT !.state = "Selected", !.t7 = FALSE]
         IN  IInv(r) /\ \A f \in Fields \ {"state", "t7"} : r[f] = c[f]
<1> DEFINE r == [c EXCEPT !.state = "Selected", !.t7 = FALSE]
<1>1. /\ DOMAIN r = Fields
      /\ \A f \in Fields \ {"state", "t7"} : r[f] = c[f]
      /\ r.state = "Selected" /\ ~r.t7 /\ r.t7 \in BOOLEAN
  BY DEF IInv, Weak, Shape, Fields
<1> HIDE DEF r
<1>2. Shape(r)
  BY <1>1 DEF IInv, Weak, Shape, Fields
<1>3. Linked(r) /\ Deferral(r)
  BY <1>1 DEF IInv, Weak, Linked, Deferral, UnresolvedCommands, Fields
<1>4. Owners(r) /\ Closed(r) /\ Timed(r) /\ Selection(r)
  BY <1>1 DEF IInv, Owners, Closed, Timed, Selection, RepliesBlocked, Fields
<1> QED
  BY <1>1, <1>2, <1>3, <1>4 DEF IInv, Weak, r

\* receive_select_request keeps the invariant.
LEMMA ReceiveSelectRequestIInv ==
  ASSUME NEW c, NEW m, IInv(c)
  PROVE  IInv(ReceiveSelectRequest(c, m))
<1> DEFINE answer == IF m.sid # ControlSession THEN "NOT_READY"
                     ELSE IF c.state = "Selected" THEN "ALREADY_ACTIVE" ELSE "SUCCESS"
           chosen == IF answer = "SUCCESS"
                     THEN [c EXCEPT !.state = "Selected", !.t7 = FALSE] ELSE c
           sent   == SendResponse(chosen, SelectRsp(m.sid, answer, m.sys))
<1>1. IInv(chosen)
  BY SelectedIInv
<1>2. ReceiveSelectRequest(c, m) \in {sent, Emit(sent, StateChanged("Selected"))}
  BY DEF ReceiveSelectRequest
<1> HIDE DEF chosen, answer
<1>3. IInv(sent)
  BY <1>1, SendResponseEffect
<1> HIDE DEF sent
<1> QED BY <1>2, <1>3, EmitIInv

\* receive_select_response keeps the invariant.
LEMMA ReceiveSelectResponseIInv ==
  ASSUME NEW c, NEW m, IInv(c)
  PROVE  IInv(ReceiveSelectResponse(c, m))
<1> DEFINE done == [c EXCEPT !.active = None]
           e == [done EXCEPT !.state = "Selected", !.t7 = FALSE]
           selected == IF c.state = "Selected" THEN done ELSE Emit(e, StateChanged("Selected"))
<1>1. CASE ~Answers(c, "Select", m.sid, m.sys)
  BY <1>1, SendResponseEffect DEF ReceiveSelectResponse, SendTransactionNotOpenReject
<1>2. CASE Answers(c, "Select", m.sid, m.sys)
  <2>1. IInv(done) /\ done.active = None /\ \A f \in Fields \ {"active"} : done[f] = c[f]
    BY DropActive
  <2>2. c.active # None
    BY <1>2 DEF Answers
  <2>3. ReceiveSelectResponse(c, m)
          \in {CompleteControlTransaction(selected, c.active, "Ok"),
               CompleteControlTransaction(done, c.active, "SelectRejected")}
    BY <1>2 DEF ReceiveSelectResponse
  <2> HIDE DEF done
  <2>4. IInv(e) /\ \A f \in Fields \ {"state", "t7"} : e[f] = done[f]
    BY <2>1, SelectedIInv
  <2> HIDE DEF e
  <2>5. IInv(selected) /\ \A f \in Fields \ {"state", "t7", "out"} : selected[f] = done[f]
    BY <2>1, <2>4, EmitIInv, EmitWeak DEF IInv
  <2> HIDE DEF selected
  <2>6. /\ IInv(CompleteControlTransaction(selected, c.active, "Ok"))
        /\ IInv(CompleteControlTransaction(done, c.active, "SelectRejected"))
    BY <2>1, <2>2, <2>5, ActiveUnowned, CompleteControlTransactionIInv DEF Fields
  <2> QED BY <2>3, <2>6
<1> QED BY <1>1, <1>2

\* receive_linktest_response keeps the invariant.
LEMMA ReceiveLinktestResponseIInv ==
  ASSUME NEW c, NEW m, IInv(c)
  PROVE  IInv(ReceiveLinktestResponse(c, m))
<1> DEFINE done == [c EXCEPT !.active = None]
<1>1. CASE ~Answers(c, "Linktest", ControlSession, m.sys)
  BY <1>1, SendResponseEffect DEF ReceiveLinktestResponse, SendTransactionNotOpenReject
<1>2. CASE Answers(c, "Linktest", ControlSession, m.sys)
  <2>1. IInv(done) /\ done.active = None /\ \A f \in Fields \ {"active"} : done[f] = c[f]
    BY DropActive
  <2>2. c.active # None
    BY <1>2 DEF Answers
  <2>3. ReceiveLinktestResponse(c, m) = CompleteControlTransaction(done, c.active, "Ok")
    BY <1>2 DEF ReceiveLinktestResponse
  <2> HIDE DEF done
  <2> QED
    BY <2>1, <2>2, <2>3, ActiveUnowned, CompleteControlTransactionIInv DEF Fields
<1> QED BY <1>1, <1>2

\* receive_reject keeps the invariant, whichever operation it names.
LEMMA ReceiveRejectIInv ==
  ASSUME NEW c, NEW m, IInv(c)
  PROVE  IInv(ReceiveReject(c, m))
<1> DEFINE control  == c.active # None /\ RejectsControl(c, m)
           requests == RejectedRequests(c, m)
           sends    == RejectedSends(c, m)
           targets  == (IF control THEN 1 ELSE 0) + Cardinality(requests) + Cardinality(sends)
           request  == CHOOSE s \in requests : TRUE
           send     == CHOOSE w \in sends : TRUE
           done == [c EXCEPT !.active = None]
           byControl == CompleteControlTransaction(done, c.active, "PeerRejected")
           byRequest == CompleteError(RetireRequest(c, request), c.data[request].command,
                                      "PeerRejected")
           bySend == CompleteError(c, c.pending[send].command, "PeerRejected")
<1>1. \/ \E n : ReceiveReject(c, m) = Emit(c, n)
      \/ control /\ \E n : ReceiveReject(c, m) = Emit(byControl, n)
      \/ requests # {} /\ \E n : ReceiveReject(c, m) = Emit(byRequest, n)
      \/ targets # 0 /\ ~control /\ requests = {} /\ \E n : ReceiveReject(c, m) = Emit(bySend, n)
  <2> HIDE DEF control, requests, sends, targets, byControl, byRequest, bySend
  <2> QED
    BY DEF ReceiveReject, control, requests, sends, targets, byControl, byRequest, bySend
<1>2. ASSUME control PROVE IInv(byControl)
  <2>1. IInv(done) /\ done.active = None /\ \A f \in Fields \ {"active"} : done[f] = c[f]
    BY DropActive
  <2> HIDE DEF done
  <2> QED
    BY <1>2, <2>1, ActiveUnowned, CompleteControlTransactionIInv DEF Fields
<1>3. ASSUME requests # {} PROVE IInv(byRequest)
  <2>1. request \in DOMAIN c.data
    BY <1>3 DEF RejectedRequests
  <2> HIDE DEF request
  <2> QED
    BY <2>1, RetireRequestIInv, CompleteAsIInv DEF CompleteError
<1>4. ASSUME targets # 0, ~control, requests = {} PROVE IInv(bySend)
  <2>1. sends # {}
    BY <1>4, FS_EmptySet
  <2>2. /\ send \in DOMAIN c.pending /\ c.pending[send].kind = "DataSend"
        /\ c.pending[send].command # None
    BY <2>1 DEF RejectedSends
  <2> HIDE DEF send
  <2>3. ~Owned(c, c.pending[send].command)
    BY <2>2 DEF IInv, Weak, Linked, KindFor, Owners, Owned
  <2> QED
    BY <2>3, CompleteAsIInv DEF CompleteError
<1> HIDE DEF control, requests, targets, byControl, byRequest, bySend
<1> QED
  BY <1>1, <1>2, <1>3, <1>4, EmitIInv

\* receive_separate keeps the invariant.
LEMMA ReceiveSeparateIInv ==
  ASSUME NEW c, IInv(c)
  PROVE  IInv(ReceiveSeparate(c))
<1>1. CASE c.state # "Selected"
  BY <1>1 DEF ReceiveSeparate
<1>2. CASE c.state = "Selected"
  <2> DEFINE left == [c EXCEPT !.state = "NotSelected", !.active = None]
             nocontrol == IF c.active = None THEN left
                          ELSE CompleteControlTransaction(left, c.active, "TransactionAborted")
             nodata == CompleteDataForDeselection(nocontrol)
             told == Emit(nodata, StateChanged("NotSelected"))
  <2>1. ReceiveSeparate(c) = RequestClose(told, "SeparateReceived", Immediate)
    BY <1>2 DEF ReceiveSeparate
  <2>2. Weak(left) /\ left.active = None
    <3>1. /\ DOMAIN left = Fields /\ left.state = "NotSelected" /\ left.active = None
          /\ \A f \in Fields \ {"state", "active"} : left[f] = c[f]
      BY DEF IInv, Weak, Shape, Fields
    <3> HIDE DEF left
    <3>2. Shape(left)
      BY <3>1 DEF IInv, Weak, Shape, Fields
    <3>3. Linked(left) /\ Deferral(left)
      BY <3>1 DEF IInv, Weak, Linked, Deferral, UnresolvedCommands, Fields
    <3> QED BY <3>1, <3>2, <3>3 DEF Weak
  <2> HIDE DEF left
  <2>3. Weak(nocontrol) /\ nocontrol.active = None
    <3>1. CASE c.active = None \/ c.active.command = None
      BY <2>2, <3>1 DEF CompleteControlTransaction
    <3>2. CASE c.active # None /\ c.active.command # None
      <4>1. nocontrol = CompleteAs(left, c.active.command, {"Control"}, "TransactionAborted")
        BY <3>2 DEF CompleteControlTransaction, CompleteControl
      <4>2. Weak(nocontrol)
        BY <2>2, <4>1, CompleteAsWeak
      <4>3. nocontrol.active = None
        <5> DEFINE k == c.active.command
        <5> HIDE DEF k
        <5>1. EmitCompletion(left, {k}, "TransactionAborted").active = None
          BY <2>2, EmitCompletionEffect DEF Weak, Fields
        <5>2. FailRuntimeInvariant(left).active = None
          BY <2>2, FailRuntimeInvariantIInv DEF IInv, Closed
        <5> QED
          BY <4>1, <5>1, <5>2 DEF CompleteAs, k
      <4> QED BY <4>2, <4>3
    <3> QED BY <3>1, <3>2
  <2> HIDE DEF nocontrol
  <2>4. Weak(nodata) /\ nodata.active = None /\ DOMAIN nodata.data = {}
    BY <2>3, CompleteDataForDeselectionEffect DEF Fields
  <2> HIDE DEF nodata
  <2>5. Weak(told) /\ told.active = None /\ DOMAIN told.data = {}
    BY <2>4, EmitWeak DEF Fields
  <2> HIDE DEF told
  <2> QED
    BY <2>1, <2>5, RequestCloseEffect, ClosedIInv
<1> QED BY <1>1, <1>2

\* receive_data keeps the invariant for every classification of the message.
LEMMA ReceiveDataIInv ==
  ASSUME NEW c, NEW m, IInv(c)
  PROVE  IInv(ReceiveData(c, m))
<1> DEFINE sys == m.header.sys
           k == c.data[sys].command
<1>1. \/ \E n : ReceiveData(c, m) = Emit(c, n)
      \/ sys \in DOMAIN c.data /\ \E r : ReceiveData(c, m)
                                           = CompleteRequest(RetireRequest(c, sys), k, r)
  BY DEF ReceiveData
<1> HIDE DEF sys
<1>2. ASSUME sys \in DOMAIN c.data, NEW r
      PROVE  IInv(CompleteRequest(RetireRequest(c, sys), k, r))
  BY <1>2, RetireRequestIInv, CompleteAsIInv DEF CompleteRequest
<1> QED
  BY <1>1, <1>2, EmitIInv

\* receive_inbound_data keeps the invariant.
LEMMA ReceiveInboundDataIInv ==
  ASSUME NEW c, NEW m, IInv(c), ~c.closing
  PROVE  IInv(ReceiveInboundData(c, m))
<1> DEFINE q == Put(c.replies, c.nextReply, m.header)
           granted == [c EXCEPT !.nextReply = @ + 1, !.replies = q]
<1>1. \/ \E x : ReceiveInboundData(c, m) = SendResponse(c, x)
      \/ ReceiveInboundData(c, m) = ReceiveData(c, m)
      \/ \E x : ReceiveInboundData(c, m) = CloseAll(c, x)
      \/ \E x : ReceiveInboundData(c, m) = Emit(c, x)
      \/ ReceiveInboundData(c, m) = FailRuntimeInvariant(c)
      \/ /\ c.state = "Selected" /\ c.nextReply # ReplySpace
         /\ \E x : ReceiveInboundData(c, m) = Emit(granted, x)
  <2> HIDE DEF granted
  <2> QED BY DEF ReceiveInboundData, granted
<1>2. ASSUME c.state = "Selected", c.nextReply # ReplySpace PROVE IInv(granted)
  <2>1. c.nextReply \in ReplyIds /\ c.nextReply + 1 \in 0..ReplySpace
    BY <1>2, SpaceAssumption DEF IInv, Weak, Shape, ReplyIds
  <2>2. DOMAIN q = DOMAIN c.replies \cup {c.nextReply}
    BY DEF Put
  <2> HIDE DEF q
  <2>3. /\ DOMAIN granted = Fields
        /\ \A f \in Fields \ {"nextReply", "replies"} : granted[f] = c[f]
        /\ granted.nextReply = c.nextReply + 1 /\ granted.replies = q
    BY DEF IInv, Weak, Shape, Fields
  <2> HIDE DEF granted
  <2>4. Shape(granted)
    BY <2>1, <2>2, <2>3 DEF IInv, Weak, Shape, Fields
  <2>5. Linked(granted) /\ Deferral(granted)
    BY <2>3 DEF IInv, Weak, Linked, Deferral, UnresolvedCommands, Fields
  <2>6. Owners(granted) /\ Closed(granted) /\ Timed(granted) /\ Selection(granted)
    BY <1>2, <2>3 DEF IInv, Owners, Closed, Timed, Selection, RepliesBlocked, Fields
  <2> QED BY <2>4, <2>5, <2>6 DEF IInv, Weak
<1> HIDE DEF granted
<1>3. Weak(c) BY DEF IInv
<1> QED
  BY <1>1, <1>2, <1>3, SendResponseEffect, ReceiveDataIInv, CloseAllIInv,
     FailRuntimeInvariantIInv, EmitIInv

\* record_activity keeps the invariant.
LEMMA RecordActivityIInv ==
  ASSUME NEW c, IInv(c)
  PROVE  IInv(RecordActivity(c)) /\ \A f \in Fields \ {"idle"} : RecordActivity(c)[f] = c[f]
<1> DEFINE r == RecordActivity(c)
<1>1. /\ DOMAIN r = Fields /\ r.idle = IdleLinktest
      /\ \A f \in Fields \ {"idle"} : r[f] = c[f]
  BY DEF RecordActivity, IInv, Weak, Shape, Fields
<1> HIDE DEF r
<1>2. Shape(r)
  BY <1>1, IdleAssumption DEF IInv, Weak, Shape, Fields
<1>3. Linked(r) /\ Deferral(r)
  BY <1>1 DEF IInv, Weak, Linked, Deferral, UnresolvedCommands, Fields
<1>4. Owners(r) /\ Closed(r) /\ Timed(r) /\ Selection(r)
  BY <1>1 DEF IInv, Owners, Closed, Timed, Selection, RepliesBlocked, Fields
<1> QED
  BY <1>1, <1>2, <1>3, <1>4 DEF IInv, Weak, r

\* on_message keeps the invariant for every validated message.
LEMMA OnMessageIInv ==
  ASSUME NEW c0, IInv(c0), NEW m, m.type \in MessageTypes, NEW drainDue
  PROVE  IInv(OnMessage(c0, m, drainDue))
<1> DEFINE c == Begin(c0)
           d == RecordActivity(c)
<1>1. IInv(c)
  BY BeginIInv
<1>2. IF c.state = "None" \/ c.closing THEN OnMessage(c0, m, drainDue) = c
      ELSE OnMessage(c0, m, drainDue) = ProgressDeselect(DispatchMessage(d, m), drainDue)
  <2> DEFINE e == ProgressDeselect(DispatchMessage(d, m), drainDue)
  <2>1. OnMessage(c0, m, drainDue) = IF c.state = "None" \/ c.closing THEN c ELSE e
    BY DEF OnMessage
  <2> HIDE DEF c, d, e
  <2> QED BY <2>1 DEF e
<1> HIDE DEF c
<1>3. IInv(d) /\ d.closing = c.closing
  BY <1>1, RecordActivityIInv DEF Fields
<1> HIDE DEF d
<1>4. ASSUME ~c.closing PROVE IInv(DispatchMessage(d, m))
  <2>1. m.type = "Linktest.req" => IInv(SendResponse(d, LinktestRsp(m.sys)))
    BY <1>3, SendResponseEffect
  <2>2. ~d.closing
    BY <1>3, <1>4
  <2> QED
    BY <1>3, <2>1, <2>2, ReceiveSelectRequestIInv, ReceiveSelectResponseIInv,
       ReceiveDeselectRequestIInv, ReceiveDeselectResponseIInv, ReceiveLinktestResponseIInv,
       ReceiveRejectIInv, ReceiveSeparateIInv, ReceiveInboundDataIInv
    DEF DispatchMessage, MessageTypes
<1> QED
  BY <1>1, <1>2, <1>4, ProgressDeselectIInv

\* on_inbound_violation keeps the invariant.
LEMMA OnInboundViolationIInv ==
  ASSUME NEW c0, IInv(c0), NEW v
  PROVE  IInv(OnInboundViolation(c0, v))
<1> DEFINE c == Begin(c0)
<1>1. IInv(c)
  BY BeginIInv
<1>2. OnInboundViolation(c0, v) = c \/ \E x : OnInboundViolation(c0, v) = SendResponse(c, x)
  BY DEF OnInboundViolation
<1> HIDE DEF c
<1> QED
  BY <1>1, <1>2, SendResponseEffect

-----------------------------------------------------------------------------
\* The state once the record of write w has been taken out of pending_writes.
Removed(c, w) == [Begin(c) EXCEPT !.pending = Drop(@, {w})]

\* Removing a retained write keeps all but its command's deferral and the timing
\* of its transaction.
LEMMA RemovedEffect ==
  ASSUME NEW c, NEW w \in DOMAIN c.pending, IInv(c)
  PROVE  LET r == Removed(c, w)
             k == c.pending[w].command
         IN  /\ DOMAIN r = Fields
             /\ \A f \in Fields \ {"pending", "out"} : r[f] = c[f]
             /\ DOMAIN r.pending = DOMAIN c.pending \ {w}
             /\ \A v \in DOMAIN r.pending : r.pending[v] = c.pending[v]
             /\ Shape(r) /\ Linked(r) /\ Owners(r) /\ Closed(r) /\ Selection(r)
             /\ DOMAIN r.deferred \ {k} \subseteq UnresolvedCommands(r)
             /\ k # None => /\ k \in DOMAIN r.open
                            /\ r.open[k] = KindFor(c.pending[w].kind)
                            /\ k \notin UnresolvedCommands(r)
<1> DEFINE b == Begin(c)
           r == Removed(c, w)
           k == c.pending[w].command
<1>1. IInv(b) /\ \A f \in Fields \ {"out"} : b[f] = c[f]
  BY BeginIInv
<1>2. r = [b EXCEPT !.pending = Drop(b.pending, {w})]
  BY DEF Removed
<1> HIDE DEF b, r
<1>3. /\ DOMAIN r = Fields
      /\ \A f \in Fields \ {"pending"} : r[f] = b[f]
      /\ DOMAIN r.pending = DOMAIN b.pending \ {w}
      /\ \A v \in DOMAIN r.pending : r.pending[v] = b.pending[v]
  BY <1>1, <1>2 DEF IInv, Weak, Shape, Fields, Drop
<1>4. b.pending = c.pending /\ b.open = c.open /\ b.deferred = c.deferred
  BY <1>1 DEF Fields
<1>5. Shape(r)
  BY <1>1, <1>3 DEF IInv, Weak, Shape, Fields
<1>6. Linked(r)
  BY <1>1, <1>3 DEF IInv, Weak, Linked, Fields
<1>7. Owners(r) /\ Closed(r) /\ Selection(r)
  BY <1>1, <1>3 DEF IInv, Owners, Closed, Selection, RepliesBlocked, Fields
<1>8. DOMAIN r.deferred \ {k} \subseteq UnresolvedCommands(r)
  BY <1>1, <1>3, <1>4 DEF IInv, Weak, Deferral, UnresolvedCommands, Fields
<1>9. k # None => /\ k \in DOMAIN r.open
                  /\ r.open[k] = KindFor(c.pending[w].kind)
                  /\ k \notin UnresolvedCommands(r)
  BY <1>3, <1>4 DEF IInv, Weak, Linked, UnresolvedCommands, Fields
<1>10. /\ \A f \in Fields \ {"pending", "out"} : r[f] = c[f]
       /\ DOMAIN r.pending = DOMAIN c.pending \ {w}
       /\ \A v \in DOMAIN r.pending : r.pending[v] = c.pending[v]
  BY <1>1, <1>3, <1>4 DEF Fields
<1> QED
  BY <1>3, <1>5, <1>6, <1>7, <1>8, <1>9, <1>10 DEF r

\* A write that failed takes its transaction and its command with it.
LEMMA FailedWriteWeak ==
  ASSUME NEW c, NEW w \in DOMAIN c.pending, IInv(c), NEW error
  PROVE  LET write == c.pending[w]
         IN  Weak(CompleteWriteError(RemoveTransactionForWrite(Removed(c, w), w, write),
                                     write, error))
<1> DEFINE write == c.pending[w]
           r == Removed(c, w)
           x == RemoveTransactionForWrite(r, w, write)
           k == write.command
<1>1. /\ DOMAIN r = Fields
      /\ Shape(r) /\ Linked(r)
      /\ DOMAIN r.deferred \ {k} \subseteq UnresolvedCommands(r)
      /\ k # None => k \in DOMAIN r.open
  BY RemovedEffect
<1> HIDE DEF r
<1>2. /\ DOMAIN x = Fields
      /\ \A f \in Fields \ {"active", "data"} : x[f] = r[f]
      /\ x.active \in {r.active, None}
      /\ DOMAIN x.data \subseteq DOMAIN r.data
      /\ \A s \in DOMAIN x.data : x.data[s] = r.data[s]
  BY <1>1 DEF RemoveTransactionForWrite, Drop, Fields
<1> HIDE DEF x
<1>3. Shape(x)
  BY <1>1, <1>2 DEF Shape, Fields
<1>4. /\ Linked(x) /\ UnresolvedCommands(x) = UnresolvedCommands(r)
      /\ x.deferred = r.deferred /\ x.open = r.open
  BY <1>1, <1>2 DEF Linked, UnresolvedCommands, Fields
<1>5. CASE k = None
  <2>1. DOMAIN x.deferred \subseteq UnresolvedCommands(x)
    <3>1. None \notin DOMAIN c.deferred /\ r.deferred = c.deferred
      BY RemovedEffect, NoneAssumption
      DEF r, IInv, Weak, Deferral, UnresolvedCommands, Fields
    <3> QED BY <1>1, <1>4, <1>5, <3>1
  <2> QED
    BY <1>3, <1>4, <1>5, <2>1 DEF CompleteWriteError, Weak, Deferral, x, r
<1>6. CASE k # None
  <2>1. k \in DOMAIN x.open /\ x.open[k] \in CommandKinds
    BY <1>1, <1>3, <1>4, <1>6 DEF Shape
  <2>2. CompleteWriteError(x, write, error) = EmitCompletion(x, {k}, error)
    BY <1>6, <2>1 DEF CompleteWriteError, CompleteError, CompleteAs
  <2> QED
    BY <1>1, <1>3, <1>4, <2>2, EmitCompletionSettles DEF x, r
<1> QED BY <1>5, <1>6

\* finish_failed_write keeps the invariant.
LEMMA FinishFailedWriteIInv ==
  ASSUME NEW c, NEW w \in DOMAIN c.pending, IInv(c), NEW error
  PROVE  IInv(FinishFailedWrite(Removed(c, w), w, c.pending[w], error))
<1> DEFINE x == CompleteWriteError(RemoveTransactionForWrite(Removed(c, w), w, c.pending[w]),
                                   c.pending[w], error)
<1>1. Weak(x)
  BY FailedWriteWeak
<1>2. FinishFailedWrite(Removed(c, w), w, c.pending[w], error)
        = RequestClose(CompleteAll(x, "ConnectionLost"), "TransportLost", Immediate)
  BY DEF FinishFailedWrite
<1> HIDE DEF x
<1> QED
  BY <1>1, <1>2, CompleteAllWeak, RequestCloseEffect, ClosedIInv

\* on_shutdown with a failed write keeps the invariant.
LEMMA OnAdmissionFailureIInv ==
  ASSUME NEW c, NEW w \in DOMAIN c.pending, IInv(c), NEW reason
  PROVE  IInv(OnAdmissionFailure(c, reason, w))
<1> DEFINE error == IF reason = "ControlBackpressure" THEN "Backpressure" ELSE "ConnectionLost"
           x == CompleteWriteError(RemoveTransactionForWrite(Removed(c, w), w, c.pending[w]),
                                   c.pending[w], error)
           y == CompleteAll(x, "ConnectionLost")
           z == [y EXCEPT !.closing = TRUE, !.closeIssued = TRUE]
<1>1. OnAdmissionFailure(c, reason, w) = Emit(z, CloseGeneration(reason, Immediate))
  BY DEF OnAdmissionFailure, Removed
<1>2. Weak(x)
  BY FailedWriteWeak
<1> HIDE DEF x
<1>3. Weak(y) /\ y.active = None /\ DOMAIN y.data = {}
  BY <1>2, CompleteAllWeak
<1> HIDE DEF y
<1>4. /\ DOMAIN z = Fields /\ z.closing /\ z.closing \in BOOLEAN
      /\ z.closeIssued /\ z.closeIssued \in BOOLEAN
      /\ \A f \in Fields \ {"closing", "closeIssued"} : z[f] = y[f]
  BY <1>3 DEF Weak, Shape, Fields
<1> HIDE DEF z
<1>5. Shape(z)
  BY <1>3, <1>4 DEF Weak, Shape, Fields
<1>6. Linked(z) /\ Deferral(z)
  BY <1>3, <1>4 DEF Weak, Linked, Deferral, UnresolvedCommands, Fields
<1>7. IInv(z)
  BY <1>3, <1>4, <1>5, <1>6, ClosedIInv DEF Weak, Fields
<1> QED
  BY <1>1, <1>7, EmitIInv

\* A commit arms the transaction its write carried, or completes the Send or the
\* Separate; r is the state without the write, its idle timer restarted or not.
LEMMA CommitWriteIInv ==
  ASSUME NEW c, NEW w \in DOMAIN c.pending, IInv(c),
         NEW r, DOMAIN r = Fields, r.idle \in BOOLEAN,
         \A f \in Fields \ {"idle"} : r[f] = Removed(c, w)[f],
         c.pending[w].kind \in {"TransactionRequest", "DataRequest"} =>
           c.pending[w].command \notin DOMAIN c.deferred
  PROVE  IInv(CommitWrite(r, w, c.pending[w]))
<1> DEFINE write == c.pending[w]
           k == write.command
           b == Removed(c, w)
<1>1. /\ DOMAIN b = Fields
      /\ \A f \in Fields \ {"pending", "out"} : b[f] = c[f]
      /\ DOMAIN b.pending = DOMAIN c.pending \ {w}
      /\ \A v \in DOMAIN b.pending : b.pending[v] = c.pending[v]
      /\ Shape(b) /\ Linked(b) /\ Owners(b) /\ Closed(b) /\ Selection(b)
      /\ DOMAIN b.deferred \ {k} \subseteq UnresolvedCommands(b)
      /\ k # None => /\ k \in DOMAIN b.open
                     /\ b.open[k] = KindFor(write.kind)
                     /\ k \notin UnresolvedCommands(b)
  BY RemovedEffect
<1> HIDE DEF b
<1>2. \A f \in Fields \ {"idle"} : r[f] = b[f]
  BY DEF b
<1>3. Shape(r)
  BY <1>1, <1>2 DEF Shape, Fields
<1>4. Linked(r) /\ DOMAIN r.deferred \ {k} \subseteq UnresolvedCommands(r)
  BY <1>1, <1>2 DEF Linked, UnresolvedCommands, Fields
<1>5. Owners(r) /\ Closed(r) /\ Selection(r)
  BY <1>1, <1>2 DEF Owners, Closed, Selection, RepliesBlocked, Fields
<1>6. /\ \A f \in Fields \ {"pending", "out", "idle"} : r[f] = c[f]
      /\ DOMAIN r.pending = DOMAIN c.pending \ {w}
      /\ \A v \in DOMAIN r.pending : r.pending[v] = c.pending[v]
      /\ k # None => k \in DOMAIN r.open /\ r.open[k] = KindFor(write.kind)
  BY <1>1, <1>2 DEF Fields
<1>7. write.kind \in WriteKinds /\ (write.kind = "Response" => k = None)
  BY DEF IInv, Weak, Shape, Linked
<1>8. None \notin DOMAIN r.deferred /\ r.deferred = c.deferred
  BY <1>6 DEF IInv, Weak, Deferral, UnresolvedCommands, Fields
<1>9. write.kind \in {"TransactionRequest", "DataRequest"} \/ k = None => Deferral(r)
  BY <1>4, <1>8 DEF Deferral
<1>10. r.active = c.active /\ r.data = c.data /\ r.closing = c.closing /\ r.drain = c.drain
  BY <1>6 DEF Fields
<1>11. Timed(c)
  BY DEF IInv
<1>12. CASE write.kind = "TransactionRequest" /\ r.active # None /\ r.active.write = w
  <2> DEFINE x == [r EXCEPT !.active.armed = TRUE]
  <2>1. CommitWrite(r, w, write) = x
    BY <1>12 DEF CommitWrite
  <2>2. /\ DOMAIN r.active = {"kind", "command", "sys", "write", "armed"}
    BY <1>3, <1>12 DEF Shape
  <2>3. /\ DOMAIN x = Fields
        /\ \A f \in Fields \ {"active"} : x[f] = r[f]
        /\ x.active = [r.active EXCEPT !.armed = TRUE]
    BY DEF Fields
  <2> HIDE DEF x
  <2>4. /\ DOMAIN x.active = {"kind", "command", "sys", "write", "armed"}
        /\ x.active.kind = r.active.kind /\ x.active.command = r.active.command
        /\ x.active.sys = r.active.sys /\ x.active.write = r.active.write
        /\ x.active.armed /\ x.active.armed \in BOOLEAN
    BY <2>2, <2>3
  <2>5. Shape(x)
    BY <1>3, <1>12, <2>3, <2>4 DEF Shape, Fields
  <2>6. Linked(x) /\ Deferral(x)
    BY <1>4, <1>9, <1>12, <2>3 DEF Linked, Deferral, UnresolvedCommands, Fields
  <2>7. Owners(x) /\ Closed(x) /\ Selection(x)
    BY <1>5, <1>12, <2>3, <2>4 DEF Owners, Closed, Selection, RepliesBlocked, Fields
  <2>8. Timed(x)
    BY <1>6, <1>10, <1>11, <1>12, <2>3, <2>4 DEF Timed, Fields
  <2> QED
    BY <2>1, <2>5, <2>6, <2>7, <2>8 DEF IInv, Weak
<1>13. CASE write.kind = "DataRequest" /\ write.sys \in DOMAIN r.data
            /\ r.data[write.sys].write = w
  <2> DEFINE s == write.sys
             x == [r EXCEPT !.data = Put(@, s, [r.data[s] EXCEPT !.armed = TRUE])]
  <2>1. CommitWrite(r, w, write) = x
    BY <1>13 DEF CommitWrite
  <2>2. /\ DOMAIN x = Fields
        /\ \A f \in Fields \ {"data"} : x[f] = r[f]
        /\ DOMAIN x.data = DOMAIN r.data
        /\ x.data[s] = [r.data[s] EXCEPT !.armed = TRUE]
        /\ \A t \in DOMAIN r.data \ {s} : x.data[t] = r.data[t]
    BY <1>13 DEF Fields, Put
  <2> HIDE DEF x
  <2>3. /\ DOMAIN x.data[s] = {"command", "write", "armed", "contract"}
        /\ x.data[s].armed /\ x.data[s].armed \in BOOLEAN
        /\ x.data[s].command = r.data[s].command
        /\ x.data[s].write = r.data[s].write
    BY <1>3, <1>13, <2>2 DEF Shape
  <2>4. /\ \A t \in DOMAIN x.data : /\ x.data[t].command = r.data[t].command
                                    /\ x.data[t].write = r.data[t].write
                                    /\ x.data[t].armed \in BOOLEAN
                                    /\ DOMAIN x.data[t] = {"command", "write", "armed", "contract"}
        /\ \A t \in DOMAIN x.data : ~x.data[t].armed => t # s /\ ~r.data[t].armed
    <3> SUFFICES ASSUME NEW t \in DOMAIN x.data
                 PROVE  /\ x.data[t].command = r.data[t].command
                        /\ x.data[t].write = r.data[t].write
                        /\ x.data[t].armed \in BOOLEAN
                        /\ DOMAIN x.data[t] = {"command", "write", "armed", "contract"}
                        /\ ~x.data[t].armed => t # s /\ ~r.data[t].armed
      OBVIOUS
    <3>1. CASE t = s
      BY <2>3, <3>1
    <3>2. CASE t # s
      <4>1. t \in DOMAIN r.data /\ x.data[t] = r.data[t]
        BY <2>2, <3>2
      <4> QED BY <1>3, <3>2, <4>1 DEF Shape
    <3> QED BY <3>1, <3>2
  <2>5. Shape(x)
    BY <1>3, <2>2, <2>4 DEF Shape, Fields
  <2>6. Linked(x) /\ Deferral(x)
    BY <1>4, <1>9, <1>13, <2>2 DEF Linked, Deferral, UnresolvedCommands, Fields
  <2>7. Owners(x) /\ Closed(x) /\ Selection(x)
    BY <1>5, <1>13, <2>2, <2>4 DEF Owners, Closed, Selection, RepliesBlocked, Fields
  <2>8. Timed(x)
    BY <1>6, <1>10, <1>11, <1>13, <2>2, <2>4 DEF Timed, Fields
  <2> QED
    BY <2>1, <2>5, <2>6, <2>7, <2>8 DEF IInv, Weak
<1>14. CASE /\ ~(write.kind = "TransactionRequest" /\ r.active # None /\ r.active.write = w)
            /\ ~(write.kind = "DataRequest" /\ write.sys \in DOMAIN r.data
                   /\ r.data[write.sys].write = w)
  <2>1. Timed(r)
    BY <1>6, <1>10, <1>11, <1>14 DEF Timed
  <2>2. CASE write.kind \in {"DataSend", "Separate"} /\ k # None
    <3>1. r.open[k] = KindFor(write.kind) /\ k \in DOMAIN r.open
      BY <1>6, <2>2
    <3>2. ~Owned(r, k)
      BY <1>5, <1>10, <2>2, <3>1 DEF Owners, Owned, KindFor, IInv, Closed
    <3>3. CommitWrite(r, w, write) = EmitCompletion(r, {k}, "Ok")
      BY <2>2, <3>1 DEF CommitWrite, CompleteSend, CompleteControl, CompleteAs, KindFor
    <3> QED
      BY <1>3, <1>4, <1>5, <2>1, <3>2, <3>3, EmitCompletionSettlesIInv
  <2>3. CASE ~(write.kind \in {"DataSend", "Separate"} /\ k # None)
    <3>1. CommitWrite(r, w, write) = r
      BY <1>14, <2>3 DEF CommitWrite
    <3>2. Deferral(r)
      BY <1>7, <1>9, <2>3 DEF WriteKinds
    <3> QED
      BY <1>3, <1>4, <1>5, <2>1, <3>1, <3>2 DEF IInv, Weak
  <2> QED BY <2>2, <2>3
<1> QED
  BY <1>12, <1>13, <1>14

\* on_write_outcome_at keeps the invariant for every outcome: the overtaken commit
\* ends a deferred command, the others arm, complete or close.
LEMMA OnWriteOutcomeIInv ==
  ASSUME NEW c0, NEW w \in DOMAIN c0.pending, IInv(c0),
         NEW outcome \in Outcomes, NEW due
  PROVE  IInv(OnWriteOutcome(c0, w, outcome, due))
<1> DEFINE write == c0.pending[w]
           k == write.command
           b == Removed(c0, w)
           c == IF outcome = "Committed" /\ ~c0.closing THEN RecordActivity(b) ELSE b
           overtaken == /\ outcome = "Committed"
                        /\ write.kind \in {"TransactionRequest", "DataRequest"}
                        /\ k # None
                        /\ k \in DOMAIN c.deferred
           applied == CASE outcome = "Committed"     -> CommitWrite(c, w, write)
                        [] outcome = "NotWritten"    ->
                             FinishFailedWrite(c, w, write, "ConnectionLost")
                        [] outcome = "Indeterminate" ->
                             FinishFailedWrite(c, w, write, "DeliveryIndeterminate")
<1>1. OnWriteOutcome(c0, w, outcome, due) =
        IF overtaken THEN CompleteError([c EXCEPT !.deferred = Drop(@, {k})], k, c.deferred[k])
        ELSE ExpireDeadlines(applied, due)
  BY DEF OnWriteOutcome, Removed
<1>2. /\ DOMAIN b = Fields
      /\ \A f \in Fields \ {"pending", "out"} : b[f] = c0[f]
      /\ Shape(b) /\ Linked(b) /\ Closed(b)
      /\ DOMAIN b.deferred \ {k} \subseteq UnresolvedCommands(b)
      /\ k # None => k \in DOMAIN b.open
  BY RemovedEffect
<1>3. DOMAIN c = Fields /\ c.idle \in BOOLEAN /\ \A f \in Fields \ {"idle"} : c[f] = b[f]
  <2> HIDE DEF b
  <2> QED BY <1>2, IdleAssumption DEF RecordActivity, Shape, Fields
<1>4. b.deferred = c0.deferred /\ c.deferred = c0.deferred
  BY <1>2, <1>3 DEF Fields
<1>5. outcome # "Committed" => c = b
  OBVIOUS
<1> HIDE DEF c
<1>6. ASSUME ~overtaken PROVE IInv(applied)
  <2>1. CASE outcome = "Committed"
    <3>1. None \notin DOMAIN c0.deferred
      BY DEF IInv, Weak, Deferral, UnresolvedCommands
    <3>2. write.kind \in {"TransactionRequest", "DataRequest"} => k \notin DOMAIN c0.deferred
      BY <1>4, <1>6, <2>1, <3>1
    <3> QED
      BY <1>3, <2>1, <3>2, CommitWriteIInv
  <2>2. CASE outcome # "Committed"
    BY <1>5, <2>2, FinishFailedWriteIInv DEF Outcomes
  <2> QED BY <2>1, <2>2
<1>7. ASSUME overtaken
      PROVE IInv(CompleteError([c EXCEPT !.deferred = Drop(@, {k})], k, c.deferred[k]))
  <2> DEFINE x == [c EXCEPT !.deferred = Drop(@, {k})]
  <2>1. c0.closing /\ c0.closeIssued /\ c0.active = None /\ DOMAIN c0.data = {}
    BY <1>4, <1>7 DEF IInv, Closed
  <2>2. /\ DOMAIN x = Fields
        /\ \A f \in Fields \ {"deferred"} : x[f] = c[f]
        /\ DOMAIN x.deferred = DOMAIN c.deferred \ {k}
    BY <1>3 DEF Fields, Drop
  <2> HIDE DEF x, b
  <2>3. x.closing /\ x.closeIssued /\ x.active = None /\ DOMAIN x.data = {}
    BY <1>2, <1>3, <2>1, <2>2 DEF Fields
  <2>4. Shape(x)
    BY <1>2, <1>3, <2>2 DEF Shape, Fields
  <2>5. Linked(x) /\ Deferral(x)
    BY <1>2, <1>3, <2>2 DEF Linked, Deferral, UnresolvedCommands, Fields
  <2>6. IInv(x)
    BY <2>3, <2>4, <2>5, ClosedIInv DEF Weak
  <2>7. ~Owned(x, k)
    BY <1>7, <2>3 DEF Owned
  <2> QED
    BY <2>6, <2>7, CompleteAsIInv DEF CompleteError, x
<1> HIDE DEF overtaken, applied
<1> QED
  BY <1>1, <1>6, <1>7, ExpireDeadlinesIInv

\* on_shutdown keeps the invariant.
LEMMA OnShutdownIInv ==
  ASSUME NEW c, NEW reason, IInv(c)
  PROVE  IInv(OnShutdown(c, reason))
BY BeginIInv, CloseAllIInv DEF OnShutdown, IInv

\* finish_shutdown_drain keeps the invariant.
LEMMA FinishShutdownDrainIInv ==
  ASSUME NEW c, NEW reason, IInv(c)
  PROVE  IInv(FinishShutdownDrain(c, reason))
<1>1. IInv(Begin(c)) /\ Begin(c).closing = c.closing
  BY BeginIInv DEF Fields
<1>2. CASE c.state # "Selected" \/ c.closing
  BY <1>2, OnShutdownIInv DEF FinishShutdownDrain
<1>3. CASE ~(c.state # "Selected" \/ c.closing)
  BY <1>1, <1>3, StartSeparateIInv DEF FinishShutdownDrain
<1> QED BY <1>2, <1>3

\* finalize_writer keeps the invariant: it ends every deferred command.
LEMMA FinalizeWriterIInv ==
  ASSUME NEW c0, IInv(c0)
  PROVE  IInv(FinalizeWriter(c0))
<1> DEFINE c == Begin(c0)
           d == [c EXCEPT !.pending = EmptyFunction]
           ks == UnresolvedCommands(c)
           e == EmitCompletion(d, ks, "DeliveryIndeterminate")
<1>1. IInv(c)
  BY BeginIInv
<1>2. FinalizeWriter(c0) = IF ~c.closing THEN FailRuntimeInvariant(c)
                           ELSE CompleteAll(e, "ConnectionLost")
  BY DEF FinalizeWriter
<1> HIDE DEF c
<1>3. /\ DOMAIN d = Fields /\ DOMAIN d.pending = {}
      /\ \A f \in Fields \ {"pending"} : d[f] = c[f]
  BY <1>1 DEF IInv, Weak, Shape, Fields, EmptyFunction
<1> HIDE DEF d
<1>4. Shape(d)
  BY <1>1, <1>3 DEF IInv, Weak, Shape, Fields
<1>5. Linked(d) /\ DOMAIN d.deferred \ ks \subseteq UnresolvedCommands(d)
  BY <1>1, <1>3 DEF IInv, Weak, Linked, Deferral, Fields
<1>6. Weak(e) /\ e.closing = c.closing /\ e.closeIssued = c.closeIssued
  BY <1>3, <1>4, <1>5, EmitCompletionSettles, EmitCompletionEffect DEF Fields
<1> HIDE DEF e
<1>7. CASE c.closing
  <2>1. LET f == CompleteAll(e, "ConnectionLost")
        IN  Weak(f) /\ f.closing /\ f.closeIssued /\ f.active = None /\ DOMAIN f.data = {}
    BY <1>1, <1>6, <1>7, CompleteAllWeak DEF IInv, Closed, Fields
  <2> QED BY <1>2, <1>7, <2>1, ClosedIInv
<1>8. CASE ~c.closing
  BY <1>1, <1>2, <1>8, FailRuntimeInvariantIInv DEF IInv
<1> QED BY <1>7, <1>8

\* SessionCore::new satisfies the invariant.
LEMMA NewCoreIInv == IInv(NewCore)
<1> DEFINE n == NewCore
<1>1. /\ DOMAIN n = Fields
      /\ n.state = "None" /\ n.t7 = FALSE /\ n.idle = FALSE
      /\ n.nextWrite = 0 /\ n.nextSys = 0 /\ n.nextReply = 0
      /\ n.active = None /\ n.drain = None
      /\ DOMAIN n.data = {} /\ DOMAIN n.pending = {} /\ DOMAIN n.replies = {}
      /\ DOMAIN n.open = {} /\ DOMAIN n.deferred = {}
      /\ n.closing = FALSE /\ n.closeIssued = FALSE
  BY DEF NewCore, Fields, EmptyFunction
<1> HIDE DEF n
<1>2. Shape(n)
  <2>1. n.t7 \in BOOLEAN /\ n.idle \in BOOLEAN /\ n.closing \in BOOLEAN /\ n.closeIssued \in BOOLEAN
    BY <1>1
  <2>2. 0 \in 0..WriteSpace /\ 0 \in 0..SystemBytesSpace /\ 0 \in 0..ReplySpace
    BY SpaceAssumption
  <2> QED
    BY <1>1, <2>1, <2>2 DEF Shape
<1>3. Linked(n) /\ Deferral(n)
  BY <1>1 DEF Linked, Deferral
<1>4. Owners(n) /\ Closed(n) /\ Timed(n) /\ Selection(n)
  BY <1>1 DEF Owners, Closed, Timed, Selection, RepliesBlocked
<1> QED
  BY <1>2, <1>3, <1>4 DEF IInv, Weak, n

-----------------------------------------------------------------------------
(* Core after an immediate close.                                          *)

\* Every command still open was answered with a deferred error already: it waits for
\* nothing but the outcome of its write.
GivenUp(c) == DOMAIN c.open \subseteq DOMAIN c.deferred

\* complete_or_defer completes or defers each of its commands.
LEMMA CompleteOrDeferGivesUp ==
  ASSUME NEW c, NEW error, Weak(c)
  PROVE  GivenUp(CompleteOrDefer(c, DOMAIN c.open, error))
<1> DEFINE ks == DOMAIN c.open
           held == ks \cap UnresolvedCommands(c)
           kept == [c EXCEPT !.deferred =
                     [k \in DOMAIN c.deferred \cup held |->
                        IF k \in DOMAIN c.deferred THEN c.deferred[k] ELSE error]]
           r == EmitCompletion(kept, ks \ held, error)
<1>1. /\ DOMAIN kept = Fields
      /\ \A f \in Fields \ {"deferred"} : kept[f] = c[f]
      /\ DOMAIN kept.deferred = DOMAIN c.deferred \cup held
  BY DEF Weak, Shape, Fields
<1>2. CompleteOrDefer(c, ks, error) = r
  BY DEF CompleteOrDefer
<1> HIDE DEF kept, ks, held
<1>3. Shape(kept)
  BY <1>1 DEF Weak, Shape, Fields
<1>4. /\ DOMAIN r.open = DOMAIN kept.open \ (ks \ held)
      /\ DOMAIN r.deferred = DOMAIN kept.deferred \ (ks \ held)
  BY <1>3, EmitCompletionEffect
<1>5. DOMAIN kept.open = ks
  BY <1>1 DEF Fields, ks
<1> HIDE DEF r
<1>6. GivenUp(r)
  BY <1>1, <1>4, <1>5 DEF GivenUp
<1> QED
  BY <1>2, <1>6 DEF ks

\* complete_all.
LEMMA CompleteAllGivesUp ==
  ASSUME NEW c, NEW error, Weak(c)
  PROVE  GivenUp(CompleteAll(c, error))
<1> DEFINE d == [c EXCEPT !.active = None, !.data = EmptyFunction]
<1>1. /\ DOMAIN d = Fields
      /\ \A f \in Fields \ {"active", "data"} : d[f] = c[f]
      /\ d.active = None /\ DOMAIN d.data = {}
  BY DEF Weak, Shape, Fields, EmptyFunction
<1>2. CompleteAll(c, error) = CompleteOrDefer(d, DOMAIN c.open, error)
  BY DEF CompleteAll
<1> HIDE DEF d
<1>3. Weak(d)
  <2>1. Shape(d)
    BY <1>1 DEF Weak, Shape, Fields
  <2>2. Linked(d) /\ Deferral(d)
    BY <1>1 DEF Weak, Linked, Deferral, UnresolvedCommands, Fields
  <2> QED BY <2>1, <2>2 DEF Weak
<1>4. DOMAIN c.open = DOMAIN d.open
  BY <1>1 DEF Fields
<1>5. GivenUp(CompleteOrDefer(d, DOMAIN d.open, error))
  BY <1>3, CompleteOrDeferGivesUp
<1> QED
  BY <1>2, <1>4, <1>5

\* request_close neither opens nor answers a command.
LEMMA RequestCloseGivesUp ==
  ASSUME NEW c, NEW reason, NEW barrier, DOMAIN c = Fields, GivenUp(c)
  PROVE  GivenUp(RequestClose(c, reason, barrier))
<1> DEFINE d == [c EXCEPT !.closing = TRUE, !.drain = None,
                          !.replies = EmptyFunction, !.closeIssued = TRUE]
<1>1. DOMAIN d = Fields /\ d.open = c.open /\ d.deferred = c.deferred
  BY DEF Fields
<1>2. RequestClose(c, reason, barrier)
        = IF c.closeIssued THEN d ELSE Emit(d, CloseGeneration(reason, barrier))
  BY DEF RequestClose
<1> HIDE DEF d
<1>3. \A a : Emit(d, a).open = c.open /\ Emit(d, a).deferred = c.deferred
  BY <1>1, EmitFields DEF Fields
<1> QED
  BY <1>1, <1>2, <1>3 DEF GivenUp

-----------------------------------------------------------------------------
(* Induction.                                                              *)

\* Induction on a set: the positions up to n that S holds would inject into
\* those of them that are not 0.
LEMMA SetInduction ==
  ASSUME NEW S, 0 \in S, \A n \in Nat : n \in S => n + 1 \in S
  PROVE  Nat \subseteq S
<1> SUFFICES ASSUME NEW n \in Nat, n \notin S PROVE FALSE
  OBVIOUS
<1> DEFINE A == {i \in 0..n : i \in S}
           B == A \ {0}
           f == [i \in A |-> i + 1]
<1>1. IsFiniteSet(0..n)
  BY FS_Interval
<1>2. IsFiniteSet(A) /\ IsFiniteSet(B)
  BY <1>1, FS_Subset
<1>3. f \in Injection(A, B)
  <2>1. \A i \in A : i + 1 \in B
    <3> SUFFICES ASSUME NEW i \in A PROVE i + 1 \in B
      OBVIOUS
    <3>1. i # n
      OBVIOUS
    <3>2. i + 1 \in 0..n /\ i + 1 # 0
      BY <3>1
    <3> QED
      BY <3>2
  <2>2. f \in [A -> B]
    BY <2>1
  <2>3. \A i, j \in A : f[i] = f[j] => i = j
    OBVIOUS
  <2> QED
    BY <2>2, <2>3 DEF Injection, IsInjective
<1>4. Cardinality(A) <= Cardinality(B)
  BY <1>2, <1>3, FS_Injection
<1>5. 0 \in A
  OBVIOUS
<1>6. Cardinality(B) = Cardinality(A) - 1 /\ Cardinality(A) \in Nat
  BY <1>2, <1>5, FS_RemoveElement, FS_CardinalityType
<1> QED
  BY <1>4, <1>6

\* A property of 0 that every step up to n keeps is one of n.
LEMMA BoundedInduction ==
  ASSUME NEW n \in Nat, NEW S, 0 \in S, \A i \in 0..(n - 1) : i \in S => i + 1 \in S
  PROVE  \A i \in 0..n : i \in S
<1> DEFINE T == {i \in Nat : i <= n => i \in S}
<1>1. 0 \in T
  OBVIOUS
<1>2. ASSUME NEW i \in Nat, i \in T PROVE i + 1 \in T
  <2>1. CASE i + 1 <= n
    BY <1>2, <2>1
  <2>2. CASE ~(i + 1 <= n)
    BY <2>2
  <2> QED
    BY <2>1, <2>2
<1> HIDE DEF T
<1>3. Nat \subseteq T
  BY <1>1, <1>2, SetInduction
<1> QED
  BY <1>3 DEF T

\* A bounded set of numbers has an ascending order.
LEMMA AscendingOrder ==
  ASSUME NEW n \in Nat, NEW S, S \subseteq 0..(n - 1)
  PROVE  /\ IsFiniteSet(S) /\ Cardinality(S) \in Nat
         /\ Ascending(S) \in [1..Cardinality(S) -> S]
         /\ \A i, j \in 1..Cardinality(S) : i < j => Ascending(S)[i] < Ascending(S)[j]
<1> DEFINE Orders(q, U) == /\ q \in [1..Cardinality(U) -> U]
                           /\ \A i, j \in 1..Cardinality(U) : i < j => q[i] < q[j]
           T == {b \in Nat : \A U \in SUBSET (0..(b - 1)) : \E q : Orders(q, U)}
<1>1. 0 \in T
  <2>1. ASSUME NEW U \in SUBSET (0..(0 - 1)) PROVE \E q : Orders(q, U)
    <3>1. U = {}
      OBVIOUS
    <3>2. Cardinality(U) = 0
      BY <3>1, FS_EmptySet
    <3>3. 1..0 = {}
      OBVIOUS
    <3>4. Orders([i \in 1..0 |-> i], U)
      BY <3>1, <3>2, <3>3
    <3> QED
      BY <3>4
  <2> QED
    BY <2>1
<1>2. ASSUME NEW b \in Nat, b \in T PROVE b + 1 \in T
  <2> HIDE DEF Orders
  <2>0. \A V \in SUBSET (0..(b - 1)) : \E q : Orders(q, V)
    BY <1>2
  <2>1. ASSUME NEW U \in SUBSET (0..((b + 1) - 1)) PROVE \E q : Orders(q, U)
    <3>1. \A u \in U : u \in Nat /\ u <= b
      BY <2>1
    <3>2. CASE b \notin U
      <4>1. U \in SUBSET (0..(b - 1))
        BY <3>1, <3>2
      <4> QED
        BY <2>0, <4>1
    <3>3. CASE b \in U
      <4> DEFINE V == U \ {b}
                 size == Cardinality(V)
      <4>1. V \in SUBSET (0..(b - 1))
        BY <3>1
      <4>2. IsFiniteSet(0..(b - 1))
        BY FS_Interval
      <4>3. IsFiniteSet(V)
        BY <4>1, <4>2, FS_Subset
      <4>4. size \in Nat /\ Cardinality(V \cup {b}) = size + 1
        BY <4>3, FS_CardinalityType, FS_AddElement
      <4>5. U = V \cup {b} /\ Cardinality(U) = size + 1
        <5>1. U = V \cup {b}
          BY <3>3
        <5> QED
          BY <4>4, <5>1
      <4>6. PICK q : Orders(q, V)
        BY <2>0, <4>1
      <4>7. /\ q \in [1..size -> V]
            /\ \A i, j \in 1..size : i < j => q[i] < q[j]
        BY <4>6 DEF Orders
      <4>8. \A v \in V : v \in Nat /\ v < b
        BY <4>1
      <4>9. b \in U /\ V \subseteq U
        BY <3>3
      <4> HIDE DEF V, size
      <4> DEFINE r == [i \in 1..(size + 1) |-> IF i = size + 1 THEN b ELSE q[i]]
      <4>10. \A i \in 1..(size + 1) : i = size + 1 \/ i \in 1..size
        BY <4>4
      <4>11. r \in [1..(size + 1) -> U]
        BY <4>7, <4>9, <4>10
      <4>12. ASSUME NEW i \in 1..(size + 1), NEW j \in 1..(size + 1), i < j PROVE r[i] < r[j]
        <5>1. i \in 1..size /\ i # size + 1 /\ r[i] = q[i]
          BY <4>4, <4>12
        <5>2. CASE j = size + 1
          BY <4>7, <4>8, <5>1, <5>2
        <5>3. CASE j # size + 1
          <6>1. j \in 1..size /\ r[j] = q[j]
            BY <4>10, <5>3
          <6> QED
            BY <4>7, <4>12, <5>1, <6>1
        <5> QED BY <5>2, <5>3
      <4> HIDE DEF r
      <4>13. Orders(r, U)
        BY <4>5, <4>11, <4>12 DEF Orders
      <4> QED
        BY <4>13
    <3> QED BY <3>2, <3>3
  <2> QED
    BY <2>1
<1> HIDE DEF T
<1>3. n \in T
  BY <1>1, <1>2, SetInduction
<1>4. S \in SUBSET (0..(n - 1))
  OBVIOUS
<1>5. PICK q : Orders(q, S)
  BY <1>3, <1>4 DEF T
<1>6. q \in [1..Cardinality(S) -> S] /\ \A i, j \in DOMAIN q : i < j => q[i] < q[j]
  BY <1>5
<1>7. /\ Ascending(S) \in [1..Cardinality(S) -> S]
      /\ \A i, j \in DOMAIN Ascending(S) : i < j => Ascending(S)[i] < Ascending(S)[j]
  BY <1>6 DEF Ascending
<1>8. IsFiniteSet(0..(n - 1))
  BY FS_Interval
<1>9. IsFiniteSet(S) /\ Cardinality(S) \in Nat
  BY <1>4, <1>8, FS_Subset, FS_CardinalityType
<1> QED
  BY <1>7, <1>9

-----------------------------------------------------------------------------
(* Runs.                                                                   *)

\* What a run keeps of the struct it started from.  told are the results the
\* outcome of a write dictates for its command; bound are the commands whose
\* write has not come to its end, so that no other result may speak of it.  permit
\* says whether the handler may write a Data frame; cause is the reason it was told
\* to close for (LocalSeparate, one of its own, when it was told none).  heard are the
\* requests a message answers, live is the control transaction under way, and said
\* are messages known to have been pushed.
Snapshot(c, told, bound) ==
  [open |-> c.open, nextWrite |-> c.nextWrite, nextReply |-> c.nextReply,
   pending |-> DOMAIN c.pending, kinds |-> [w \in DOMAIN c.pending |-> c.pending[w].kind],
   replies |-> DOMAIN c.replies,
   closing |-> c.closing, told |-> told, bound |-> bound, permit |-> FALSE,
   cause |-> "LocalSeparate", heard |-> {}, said |-> {},
   live |-> IF c.active = None THEN {} ELSE {<<c.active.kind, c.active.sys>>}]

\* The results nothing but the outcome of a write, or its end, may give.
Fair(p, k, result) ==
  /\ result \notin {"DeliveryIndeterminate", "Backpressure"}
  /\ k \in p.bound =>
       /\ result \notin {"ConnectionLost", "TimeoutT6", "RequestTimedOut", "SessionDeselected"}
       /\ result = "Ok" => ~p.closing
  /\ result = "Ok" => p.open[k] = "Control"
  /\ result = "SessionDeselected" => p.open[k] \in {"Send", "Request"}
  /\ result \in {"Secondary", "TransactionAborted"} => p.open[k] = "Control" \/ k \in p.heard

Justified(p, k, result) == <<k, result>> \in p.told \/ Fair(p, k, result)

\* CoreActions is a sequence.
IsBatch(out) == \E S : out \in Seq(S)

Completes(a, k) == a.act = "CompleteCommand" /\ k \in a.commands

\* A handler opens nothing after its first line and changes no command's kind.
Opened(p, c) == \A k \in DOMAIN c.open : k \in DOMAIN p.open /\ c.open[k] = p.open[k]

\* One completion, with a justified result, for each command it closed.
Answered(p, c) ==
  /\ \A i \in DOMAIN c.out : c.out[i].act = "CompleteCommand" =>
       /\ c.out[i].result \notin {"open", "unused"}
       /\ \A k \in c.out[i].commands :
            /\ k \in DOMAIN p.open /\ k \notin DOMAIN c.open
            /\ Justified(p, k, c.out[i].result)
            /\ \A j \in DOMAIN c.out : Completes(c.out[j], k) => j = i
  /\ \A k \in DOMAIN p.open : k \notin DOMAIN c.open =>
       \E i \in DOMAIN c.out : Completes(c.out[i], k)

\* Every new write has its frame, and a frame a new WriteId.
Written(p, c) ==
  /\ p.nextWrite <= c.nextWrite
  /\ \A w \in DOMAIN c.pending :
       \/ w \in p.pending
       \/ \E i \in DOMAIN c.out : c.out[i].act = "SendFrame" /\ c.out[i].write = w
  /\ \A i \in DOMAIN c.out : c.out[i].act = "SendFrame" => p.nextWrite <= c.out[i].write

Exhausted(c) == c.nextWrite = WriteSpace \/ c.nextReply = ReplySpace

\* What a handler may close for: a reason of its own, the one it was told, or a
\* runtime invariant when an identifier space is exhausted.
CoreReasons ==
  {"LocalSeparate", "SeparateReceived", "TransportLost", "ProtocolViolation",
   "ApplicationBackpressure", "SystemBytesExhausted", "CommunicationsTimeoutT6",
   "CommunicationsTimeoutT7"}

Excusable(p, c, reason) ==
  reason \in CoreReasons \cup {p.cause} \/ (reason = "RuntimeInvariant" /\ Exhausted(c))

\* Every close is excusable, and a Core that came to issue one has pushed it.
Excused(p, c) ==
  /\ \A i \in DOMAIN c.out :
       c.out[i].act = "CloseGeneration" => Excusable(p, c, c.out[i].reason)
  /\ c.closeIssued /\ ~p.closing => \E i \in DOMAIN c.out : c.out[i].act = "CloseGeneration"

\* A handler keeps the retained writes, of their kinds.  Frames leave in the order of
\* their WriteIds, each with its obligation, and Data only with a permit, once.
Framed(p, c) ==
  /\ p.pending \subseteq DOMAIN c.pending
  /\ \A w \in p.pending : c.pending[w].kind = p.kinds[w]
  /\ \A i \in DOMAIN c.out : c.out[i].act = "SendFrame" =>
       /\ c.out[i].write \in DOMAIN c.pending /\ c.out[i].message.type \in MessageTypes
       /\ \A j \in DOMAIN c.out : c.out[j].act = "SendFrame" /\ j < i =>
            c.out[j].write < c.out[i].write
       /\ c.out[i].message.type = "Data" =>
            /\ p.permit
            /\ \A j \in DOMAIN c.out :
                 c.out[j].act = "SendFrame" /\ c.out[j].message.type = "Data" => j = i

\* A close is pushed by a Core that closes, and the write it waits for is the Separate
\* of the same batch, the last frame.
Barred(p, c) ==
  \A i \in DOMAIN c.out : c.out[i].act = "CloseGeneration" =>
    /\ c.closing /\ c.closeIssued
    /\ c.out[i].barrier # None =>
         /\ ~p.closing
         /\ c.out[i].barrier \in DOMAIN c.pending
         /\ c.pending[c.out[i].barrier].kind = "Separate"
         /\ \A w \in DOMAIN c.pending : w <= c.out[i].barrier
         /\ \E j \in DOMAIN c.out :
              j < i /\ c.out[j].act = "SendFrame" /\ c.out[j].write = c.out[i].barrier

\* At most one capability is granted, the next one, to a Primary that is delivered.
Granted(p, c) ==
  /\ p.nextReply <= c.nextReply
  /\ \A r \in DOMAIN c.replies :
       \/ r \in p.replies
       \/ \E i \in DOMAIN c.out : c.out[i].act = "DeliverPrimary" /\ c.out[i].capability = r
  /\ \A i \in DOMAIN c.out : c.out[i].act = "DeliverPrimary" =>
       /\ c.out[i].capability # None =>
            c.out[i].capability = p.nextReply /\ p.nextReply < c.nextReply
       /\ \A j \in DOMAIN c.out : c.out[j].act = "DeliverPrimary" => j = i

Posted(p, c) == Framed(p, c) /\ Barred(p, c) /\ Granted(p, c)

\* A state other than s was published, after the response that led to it, and a Core
\* stays connected.
Announced(s, c) ==
  /\ c.state = "None" => s = "None"
  /\ \/ c.state = s
     \/ \E i \in DOMAIN c.out :
          /\ c.out[i] = StateChanged(c.state)
          /\ \A j \in DOMAIN c.out : c.out[j].act = "SendFrame" /\ j > i =>
               c.out[j].message.type \notin {"Select.rsp", "Deselect.rsp"}
     \/ c.closing /\ c.nextWrite = WriteSpace

\* A handler that started closing only completes and closes.
Quieted(p, s, c) ==
  p.closing =>
    /\ c.closing /\ c.state = s
    /\ DOMAIN c.pending \subseteq p.pending
    /\ \A i \in DOMAIN c.out : c.out[i].act \in {"CompleteCommand", "CloseGeneration"}

Pushes(c, m) == \E i \in DOMAIN c.out : c.out[i].act = "SendFrame" /\ c.out[i].message = m

\* A control transaction that was not under way has its request pushed, and what was
\* said remains said.
Spoken(p, c) ==
  /\ c.active # None =>
       \/ <<c.active.kind, c.active.sys>> \in p.live
       \/ Pushes(c, TransactionMessage(c.active.kind, c.active.sys))
  /\ \A m \in p.said : Pushes(c, m)

Log(p, s, c) ==
  /\ IsBatch(c.out) /\ Opened(p, c) /\ Answered(p, c) /\ Written(p, c)
  /\ Excused(p, c) /\ Announced(s, c) /\ Quieted(p, s, c) /\ Posted(p, c) /\ Spoken(p, c)

\* A bound command that is still open is still bound.
Bounded(p, c) == \A k \in p.bound : k \in DOMAIN c.open => k \in UnresolvedCommands(c)

\* A transaction whose timer is armed waits for no write, one whose timer is not
\* armed yet stands for the command of its write, and a deferred error is one that
\* shutdown or deselection defers.
Traced(c) ==
  /\ c.active # None =>
       IF c.active.armed THEN c.active.command \notin UnresolvedCommands(c)
       ELSE c.active.write \in DOMAIN c.pending =>
              c.pending[c.active.write].command = c.active.command
  /\ \A s \in DOMAIN c.data :
       IF c.data[s].armed THEN c.data[s].command \notin UnresolvedCommands(c)
       ELSE c.data[s].write \in DOMAIN c.pending =>
              c.pending[c.data[s].write].command = c.data[s].command
  /\ \A k \in DOMAIN c.deferred :
       \/ c.deferred[k] = "ConnectionLost"
       \/ /\ c.deferred[k] = "SessionDeselected" /\ k \in DOMAIN c.open
          /\ c.open[k] \in {"Send", "Request"}

Run(p, s, c) == Log(p, s, c) /\ Bounded(p, c) /\ Traced(c)

\* A live transaction or request stands for k.
Claimed(c, k) ==
  \/ c.active # None /\ c.active.command = k
  \/ \E s \in DOMAIN c.data : c.data[s].command = k

-----------------------------------------------------------------------------
(* Primitive steps of a run.                                               *)

\* Pushing an action adds one index, after all the others (CoreActions::push).
LEMMA EmitAppends ==
  ASSUME NEW c, NEW a, DOMAIN c = Fields, IsBatch(c.out)
  PROVE  /\ IsBatch(Emit(c, a).out)
         /\ \E n \in Nat :
              /\ n \notin DOMAIN c.out
              /\ DOMAIN Emit(c, a).out = DOMAIN c.out \cup {n}
              /\ Emit(c, a).out[n] = a
              /\ \A i \in DOMAIN c.out : i \in Nat /\ i < n /\ Emit(c, a).out[i] = c.out[i]
<1>1. PICK S : c.out \in Seq(S)
  BY DEF IsBatch
<1> DEFINE T == S \cup {a}
           n == Len(c.out) + 1
<1>2. c.out \in Seq(T) /\ a \in T
  BY <1>1
<1> HIDE DEF T
<1>3. Emit(c, a).out = Append(c.out, a)
  BY DEF Emit, Fields
<1>4. /\ Append(c.out, a) \in Seq(T) /\ Len(c.out) \in Nat
      /\ DOMAIN c.out = 1 .. Len(c.out) /\ DOMAIN Append(c.out, a) = 1 .. (Len(c.out) + 1)
      /\ Append(c.out, a)[n] = a
      /\ \A i \in 1 .. Len(c.out) : Append(c.out, a)[i] = c.out[i]
  BY <1>2
<1>5. n \in Nat /\ n \notin DOMAIN c.out /\ DOMAIN Append(c.out, a) = DOMAIN c.out \cup {n}
  BY <1>4
<1>6. \A i \in DOMAIN c.out : i \in Nat /\ i < n
  BY <1>4
<1>7. IsBatch(Emit(c, a).out)
  BY <1>3, <1>4 DEF IsBatch
<1> HIDE DEF n
<1> QED
  BY <1>3, <1>4, <1>5, <1>6, <1>7

\* A step that keeps the batch, the retained writes and their kinds, and grants no
\* capability, keeps what was posted.
LEMMA PostedSame ==
  ASSUME NEW p, NEW c, NEW d, Posted(p, c), d.out = c.out,
         DOMAIN d.pending = DOMAIN c.pending,
         \A w \in DOMAIN c.pending : d.pending[w].kind = c.pending[w].kind,
         d.nextReply = c.nextReply, DOMAIN d.replies \subseteq DOMAIN c.replies,
         c.closing => d.closing, c.closeIssued => d.closeIssued
  PROVE  Posted(p, d)
<1>1. Framed(p, d)
  BY DEF Posted, Framed
<1>2. Barred(p, d)
  BY DEF Posted, Barred
<1>3. Granted(p, d)
  BY DEF Posted, Granted
<1> QED
  BY <1>1, <1>2, <1>3 DEF Posted

\* A step that keeps the batch, and the control transaction or none, keeps what was
\* spoken.
LEMMA SpokenSame ==
  ASSUME NEW p, NEW c, NEW d, Spoken(p, c), d.out = c.out,
         d.active # None => /\ c.active # None
                            /\ d.active.kind = c.active.kind /\ d.active.sys = c.active.sys
  PROVE  Spoken(p, d)
  BY DEF Spoken, Pushes

\* Pushing an action keeps what was spoken.
LEMMA SpokenEmits ==
  ASSUME NEW p, NEW c, NEW r, Spoken(p, c), DOMAIN c.out \subseteq DOMAIN r.out,
         \A i \in DOMAIN c.out : r.out[i] = c.out[i], r.active = c.active
  PROVE  Spoken(p, r)
  BY DEF Spoken, Pushes

\* A new write, the last one, of a Core that has pushed no close keeps what was posted.
LEMMA PostedGrows ==
  ASSUME NEW p, NEW c, NEW d, NEW w, Posted(p, c), d.out = c.out, ~c.closeIssued,
         DOMAIN d.pending = DOMAIN c.pending \cup {w},
         \A v \in DOMAIN c.pending : d.pending[v].kind = c.pending[v].kind,
         d.nextReply = c.nextReply, DOMAIN d.replies \subseteq DOMAIN c.replies
  PROVE  Posted(p, d)
<1>1. Framed(p, d)
  BY DEF Posted, Framed
<1>2. Barred(p, d)
  BY DEF Posted, Barred
<1>3. Granted(p, d)
  BY DEF Posted, Granted
<1> QED
  BY <1>1, <1>2, <1>3 DEF Posted

\* An action fits what was posted before it.
Fits(p, c, a) ==
  /\ a.act = "SendFrame" =>
       /\ a.write \in DOMAIN c.pending /\ a.message.type \in MessageTypes
       /\ \A i \in DOMAIN c.out : c.out[i].act = "SendFrame" => c.out[i].write < a.write
       /\ a.message.type = "Data" => p.permit /\ DOMAIN c.out = {}
  /\ a.act = "CloseGeneration" =>
       /\ c.closing /\ c.closeIssued
       /\ a.barrier # None =>
            /\ ~p.closing
            /\ a.barrier \in DOMAIN c.pending /\ c.pending[a.barrier].kind = "Separate"
            /\ \A w \in DOMAIN c.pending : w <= a.barrier
            /\ \E j \in DOMAIN c.out : c.out[j].act = "SendFrame" /\ c.out[j].write = a.barrier
  /\ a.act = "DeliverPrimary" =>
       /\ DOMAIN c.out = {}
       /\ a.capability # None => a.capability = p.nextReply /\ p.nextReply < c.nextReply

\* Pushing an action that fits keeps what was posted.
LEMMA PostedEmits ==
  ASSUME NEW p, NEW c, NEW r, NEW a, NEW n \in Nat, Posted(p, c), Fits(p, c, a),
         DOMAIN r.pending = DOMAIN c.pending,
         \A w \in DOMAIN c.pending : r.pending[w].kind = c.pending[w].kind,
         r.nextReply = c.nextReply, r.replies = c.replies,
         r.closing = c.closing, r.closeIssued = c.closeIssued,
         n \notin DOMAIN c.out, DOMAIN r.out = DOMAIN c.out \cup {n}, r.out[n] = a,
         \A i \in DOMAIN c.out : i \in Nat /\ i < n /\ r.out[i] = c.out[i]
  PROVE  Posted(p, r)
<1>0. \A i \in DOMAIN c.out : ~(n < i)
  OBVIOUS
<1>1. Framed(p, r)
  <2>1. ASSUME NEW i \in DOMAIN r.out, r.out[i].act = "SendFrame"
        PROVE  /\ r.out[i].write \in DOMAIN r.pending
               /\ r.out[i].message.type \in MessageTypes
               /\ \A j \in DOMAIN r.out : r.out[j].act = "SendFrame" /\ j < i =>
                    r.out[j].write < r.out[i].write
               /\ r.out[i].message.type = "Data" =>
                    /\ p.permit
                    /\ \A j \in DOMAIN r.out :
                         r.out[j].act = "SendFrame" /\ r.out[j].message.type = "Data" => j = i
    <3>1. CASE i = n
      BY <1>0, <2>1, <3>1 DEF Fits
    <3>2. CASE i # n
      <4>1. i \in DOMAIN c.out /\ r.out[i] = c.out[i]
        BY <3>2
      <4>2. c.out[i].message.type = "Data" =>
              ~(a.act = "SendFrame" /\ a.message.type = "Data")
        BY <4>1 DEF Fits
      <4> QED
        BY <1>0, <2>1, <4>1, <4>2 DEF Posted, Framed
    <3> QED
      BY <3>1, <3>2
  <2>2. p.pending \subseteq DOMAIN r.pending /\ \A w \in p.pending : r.pending[w].kind = p.kinds[w]
    BY DEF Posted, Framed
  <2> QED
    BY <2>1, <2>2 DEF Framed
<1>2. Barred(p, r)
  <2>1. ASSUME NEW i \in DOMAIN r.out, r.out[i].act = "CloseGeneration"
        PROVE  /\ r.closing /\ r.closeIssued
               /\ r.out[i].barrier # None =>
                    /\ ~p.closing
                    /\ r.out[i].barrier \in DOMAIN r.pending
                    /\ r.pending[r.out[i].barrier].kind = "Separate"
                    /\ \A w \in DOMAIN r.pending : w <= r.out[i].barrier
                    /\ \E j \in DOMAIN r.out :
                         /\ j < i /\ r.out[j].act = "SendFrame"
                         /\ r.out[j].write = r.out[i].barrier
    <3>1. CASE i = n
      BY <2>1, <3>1 DEF Fits
    <3>2. CASE i # n
      BY <2>1, <3>2 DEF Posted, Barred
    <3> QED
      BY <3>1, <3>2
  <2> QED
    BY <2>1 DEF Barred
<1>3. Granted(p, r)
  <2>1. p.nextReply <= r.nextReply
    BY DEF Posted, Granted
  <2>2. \A x \in DOMAIN r.replies :
          \/ x \in p.replies
          \/ \E i \in DOMAIN r.out : r.out[i].act = "DeliverPrimary" /\ r.out[i].capability = x
    BY DEF Posted, Granted
  <2>3. ASSUME NEW i \in DOMAIN r.out, r.out[i].act = "DeliverPrimary"
        PROVE  /\ r.out[i].capability # None =>
                    r.out[i].capability = p.nextReply /\ p.nextReply < r.nextReply
               /\ \A j \in DOMAIN r.out : r.out[j].act = "DeliverPrimary" => j = i
    <3>1. CASE i = n
      BY <2>3, <3>1 DEF Fits
    <3>2. CASE i # n
      BY <2>3, <3>2 DEF Fits, Posted, Granted
    <3> QED
      BY <3>1, <3>2
  <2> QED
    BY <2>1, <2>2, <2>3 DEF Granted
<1> QED
  BY <1>1, <1>2, <1>3 DEF Posted

\* A run starts with an empty batch.
LEMMA RunStarts ==
  ASSUME NEW c, NEW told, NEW bound, Shape(c), Closed(c), c.out = <<>>, Traced(c),
         \A k \in bound : k \in DOMAIN c.open => k \in UnresolvedCommands(c)
  PROVE  Run(Snapshot(c, told, bound), c.state, c)
<1> DEFINE p == Snapshot(c, told, bound)
<1>1. /\ p.open = c.open /\ p.nextWrite = c.nextWrite /\ p.pending = DOMAIN c.pending
      /\ \A w \in DOMAIN c.pending : p.kinds[w] = c.pending[w].kind
      /\ p.closing = c.closing /\ p.bound = bound
      /\ p.nextReply = c.nextReply /\ p.replies = DOMAIN c.replies
  BY DEF Snapshot
<1> HIDE DEF p
<1>2. IsBatch(c.out) /\ DOMAIN c.out = {}
  <2>1. <<>> \in Seq({}) /\ DOMAIN <<>> = {}
    OBVIOUS
  <2> QED
    BY <2>1 DEF IsBatch
<1>3. Opened(p, c) /\ Answered(p, c)
  BY <1>1, <1>2 DEF Opened, Answered
<1>4. Written(p, c)
  BY <1>1, <1>2 DEF Written, Shape
<1>5. Excused(p, c) /\ Announced(c.state, c) /\ Quieted(p, c.state, c) /\ Bounded(p, c)
  BY <1>1, <1>2 DEF Excused, Announced, Quieted, Bounded, Closed
<1>6. Posted(p, c)
  <2>1. c.nextReply \in Nat
    BY SpaceAssumption DEF Shape
  <2> QED
    BY <1>1, <1>2, <2>1 DEF Posted, Framed, Barred, Granted
<1>7. Spoken(p, c)
  BY DEF Spoken, Snapshot, p
<1> QED
  BY <1>2, <1>3, <1>4, <1>5, <1>6, <1>7 DEF Run, Log, p

\* A handler begins a run with an empty batch (CoreActions::default).
LEMMA RunBegins ==
  ASSUME NEW c, NEW told, NEW bound, IInv(c), Traced(c), bound \subseteq UnresolvedCommands(c)
  PROVE  LET p == Snapshot(c, told, bound)
             b == Begin(c)
         IN  /\ IInv(b) /\ Run(p, c.state, b) /\ b.state = c.state
             /\ \A f \in Fields \ {"out"} : b[f] = c[f]
             /\ p.nextWrite \in Nat
<1> DEFINE b == Begin(c)
<1>1. IInv(b) /\ (\A f \in Fields \ {"out"} : b[f] = c[f])
  BY BeginIInv
<1>2. b.out = <<>>
  BY DEF Begin, IInv, Weak, Shape, Fields
<1> HIDE DEF b
<1>3. /\ Shape(b) /\ Closed(b) /\ b.state = c.state
      /\ Snapshot(b, told, bound) = Snapshot(c, told, bound)
  <2>1. /\ b.open = c.open /\ b.nextWrite = c.nextWrite /\ b.nextReply = c.nextReply
        /\ b.pending = c.pending /\ b.replies = c.replies /\ b.closing = c.closing
        /\ b.active = c.active /\ b.state = c.state
    BY <1>1 DEF Fields
  <2> QED
    BY <1>1, <2>1 DEF IInv, Weak, Snapshot
<1>4. Traced(b) /\ \A k \in bound : k \in DOMAIN b.open => k \in UnresolvedCommands(b)
  BY <1>1 DEF Traced, UnresolvedCommands, Fields
<1>5. Run(Snapshot(c, told, bound), c.state, b)
  BY <1>2, <1>3, <1>4, RunStarts
<1>6. Snapshot(c, told, bound).nextWrite \in Nat
  BY SpaceAssumption DEF Snapshot, IInv, Weak, Shape
<1> QED
  BY <1>1, <1>3, <1>5, <1>6 DEF b

\* The snapshot of a handler that may write a Data frame, or was told why to close.
Permitted(p, x) == [p EXCEPT !.permit = x]
Caused(p, reason) == [p EXCEPT !.cause = reason]

\* A handler that was told no reason has the default one.
LEMMA Uncaused ==
  ASSUME NEW c, NEW told, NEW bound
  PROVE  Caused(Snapshot(c, told, bound), "LocalSeparate") = Snapshot(c, told, bound)
<1> DEFINE p == Snapshot(c, told, bound)
<1>1. p.cause = "LocalSeparate" /\ p = [f \in DOMAIN p |-> p[f]]
  BY DEF Snapshot
<1> HIDE DEF p
<1>2. Caused(p, "LocalSeparate") = p
  BY <1>1 DEF Caused
<1> QED
  BY <1>2 DEF p

\* A permit, and a reason to close, take nothing from a run.
LEMMA RunAllows ==
  ASSUME NEW p, NEW q, NEW s, NEW c, Run(p, s, c),
         q.open = p.open, q.nextWrite = p.nextWrite, q.nextReply = p.nextReply,
         q.pending = p.pending, q.kinds = p.kinds, q.replies = p.replies, q.closing = p.closing,
         q.told = p.told, q.bound = p.bound,
         p.heard \subseteq q.heard, p.live \subseteq q.live, q.said \subseteq p.said,
         p.permit => q.permit, p.cause \in CoreReasons \/ p.cause = q.cause
  PROVE  Run(q, s, c)
<1>1. Opened(q, c) /\ Written(q, c) /\ Announced(s, c) /\ Quieted(q, s, c) /\ Bounded(q, c)
  BY DEF Run, Log, Opened, Written, Announced, Quieted, Bounded
<1>2. Answered(q, c)
  BY DEF Run, Log, Answered, Justified, Fair
<1>3. Excused(q, c)
  BY DEF Run, Log, Excused, Excusable
<1>4. Framed(q, c) /\ Barred(q, c) /\ Granted(q, c)
  BY DEF Run, Log, Posted, Framed, Barred, Granted
<1>5. Spoken(q, c)
  BY DEF Run, Log, Spoken
<1> QED
  BY <1>1, <1>2, <1>3, <1>4, <1>5 DEF Run, Log, Posted

\* A step that touches neither the batch nor the bookkeeping of writes and commands
\* continues a run; it may end transactions, and it may set closing.
LEMMA RunSame ==
  ASSUME NEW p, NEW s, NEW c, NEW d, Run(p, s, c),
         d.out = c.out, d.open = c.open, d.pending = c.pending, d.deferred = c.deferred,
         d.nextWrite = c.nextWrite, d.nextReply = c.nextReply, d.state = c.state,
         c.closing => d.closing, d.closeIssued = c.closeIssued,
         DOMAIN d.replies \subseteq DOMAIN c.replies,
         d.active = None \/ d.active = c.active,
         \A t \in DOMAIN d.data : t \in DOMAIN c.data /\ d.data[t] = c.data[t]
  PROVE  Run(p, s, d)
<1>1. Opened(p, d) /\ Answered(p, d) /\ Written(p, d)
  BY DEF Run, Log, Opened, Answered, Written
<1>2. Excused(p, d) /\ Announced(s, d) /\ Quieted(p, s, d) /\ Bounded(p, d)
  BY DEF Run, Log, Excused, Excusable, Exhausted, Announced, Quieted, Bounded, UnresolvedCommands
<1>4. Posted(p, d) /\ Spoken(p, d)
  BY PostedSame, SpokenSame DEF Run, Log
<1>3. Traced(d)
  BY DEF Run, Traced, UnresolvedCommands
<1> QED
  BY <1>1, <1>2, <1>3, <1>4 DEF Run, Log

\* Pushing an action other than a completion or a frame continues a run; publishing
\* the state announces it.
LEMMA RunEmit ==
  ASSUME NEW p, NEW s, NEW c, NEW a, NEW t, DOMAIN c = Fields, Run(p, t, c),
         a.act \in {"SessionStateChanged", "DeliverPrimary", "Notice", "CloseGeneration"},
         a.act = "CloseGeneration" => Excusable(p, c, a.reason),
         Fits(p, c, a), p.closing => a.act = "CloseGeneration",
         s = t \/ (a = StateChanged(c.state) /\ ~p.closing /\ t # "None")
  PROVE  Run(p, s, Emit(c, a))
<1> DEFINE r == Emit(c, a)
<1>0. IsBatch(c.out)
  BY DEF Run, Log
<1>1. DOMAIN r = Fields /\ \A f \in Fields \ {"out"} : r[f] = c[f]
  BY EmitFields
<1>2. IsBatch(r.out)
  BY <1>0, EmitAppends
<1>3. PICK n \in Nat :
        /\ n \notin DOMAIN c.out
        /\ DOMAIN r.out = DOMAIN c.out \cup {n}
        /\ r.out[n] = a
        /\ \A i \in DOMAIN c.out : i \in Nat /\ i < n /\ r.out[i] = c.out[i]
  BY <1>0, EmitAppends
<1> HIDE DEF r
<1>4. Opened(p, r)
  BY <1>1 DEF Run, Log, Opened, Fields
<1>5. Answered(p, r)
  BY <1>1, <1>3 DEF Run, Log, Answered, Completes, Fields
<1>6. Written(p, r)
  BY <1>1, <1>3 DEF Run, Log, Written, Fields
<1>7. Excused(p, r) /\ Posted(p, r)
  <2>1. Excused(p, r)
    BY <1>1, <1>3 DEF Run, Log, Excused, Excusable, Exhausted, Fields
  <2>2. Posted(p, c)
    BY DEF Run, Log
  <2> QED
    BY <1>1, <1>3, <2>1, <2>2, PostedEmits DEF Fields
<1>8. Announced(s, r)
  <2>1. CASE s = t
    BY <1>1, <1>3, <2>1 DEF Run, Log, Announced, Fields
  <2>2. CASE a = StateChanged(c.state)
    <3>1. c.state # "None" \/ s = t
      BY DEF Run, Log, Announced
    <3>2. CASE s = t
      BY <2>1, <3>2
    <3>3. CASE c.state # "None"
      BY <1>1, <1>3, <2>2, <3>3 DEF Announced, Fields
    <3> QED
      BY <3>1, <3>2, <3>3
  <2> QED
    BY <2>1, <2>2
<1>9. Quieted(p, s, r)
  BY <1>1, <1>3 DEF Run, Log, Quieted, Fields
<1>10. Bounded(p, r) /\ Traced(r)
  BY <1>1 DEF Run, Bounded, Traced, UnresolvedCommands, Fields
<1>11. Spoken(p, r)
  BY <1>1, <1>3, SpokenEmits DEF Run, Log, Fields
<1> QED
  BY <1>2, <1>4, <1>5, <1>6, <1>7, <1>8, <1>9, <1>10, <1>11 DEF Run, Log, r

\* emit_completion of open commands with justified results continues the log.
LEMMA LogCompletes ==
  ASSUME NEW p, NEW s, NEW c, NEW ks, NEW result, Shape(c), Log(p, s, c),
         ks \subseteq DOMAIN c.open, result \notin {"open", "unused"},
         \A k \in ks : Justified(p, k, result)
  PROVE  Log(p, s, EmitCompletion(c, ks, result))
<1> DEFINE r == EmitCompletion(c, ks, result)
<1>1. CASE ks = {}
  BY <1>1 DEF EmitCompletion
<1>2. CASE ks # {}
  <2> DEFINE d == [c EXCEPT
                     !.open     = Drop(@, ks),
                     !.deferred = Drop(@, ks),
                     !.pending  = [w \in DOMAIN c.pending |->
                                     IF c.pending[w].command \in ks
                                     THEN [c.pending[w] EXCEPT !.command = None]
                                     ELSE c.pending[w]]]
             a == CompleteCommands(ks, result)
  <2>1. r = Emit(d, a)
    BY <1>2 DEF EmitCompletion
  <2>2. /\ DOMAIN r = Fields
        /\ \A f \in Fields \ {"open", "deferred", "pending", "out"} : r[f] = c[f]
        /\ DOMAIN r.open = DOMAIN c.open \ ks
        /\ \A k \in DOMAIN r.open : r.open[k] = c.open[k]
        /\ DOMAIN r.pending = DOMAIN c.pending
        /\ \A w \in DOMAIN c.pending : r.pending[w].kind = c.pending[w].kind
    BY EmitCompletionEffect
  <2>3. d.out = c.out /\ DOMAIN d = Fields /\ IsBatch(d.out)
    BY DEF Shape, Fields, Log
  <2> HIDE DEF d
  <2>4. IsBatch(r.out)
    BY <2>1, <2>3, EmitAppends
  <2>5. PICK n \in Nat :
          /\ n \notin DOMAIN c.out
          /\ DOMAIN r.out = DOMAIN c.out \cup {n}
          /\ r.out[n] = a
          /\ \A i \in DOMAIN c.out : i \in Nat /\ i < n /\ r.out[i] = c.out[i]
    BY <2>1, <2>3, EmitAppends
  <2>6. a.act = "CompleteCommand" /\ a.commands = ks /\ a.result = result
    BY DEF CompleteCommands
  <2> HIDE DEF a, r
  <2>7. Opened(p, r)
    BY <2>2 DEF Log, Opened
  <2>8. Answered(p, r)
    <3>1. ASSUME NEW i \in DOMAIN r.out, r.out[i].act = "CompleteCommand"
          PROVE  /\ r.out[i].result \notin {"open", "unused"}
                 /\ \A k \in r.out[i].commands :
                      /\ k \in DOMAIN p.open /\ k \notin DOMAIN r.open
                      /\ Justified(p, k, r.out[i].result)
                      /\ \A j \in DOMAIN r.out : Completes(r.out[j], k) => j = i
      <4>1. CASE i = n
        BY <2>2, <2>5, <2>6, <4>1 DEF Log, Opened, Answered, Completes
      <4>2. CASE i \in DOMAIN c.out
        BY <2>2, <2>5, <2>6, <3>1, <4>2 DEF Log, Answered, Completes
      <4> QED
        BY <2>5, <4>1, <4>2
    <3>2. ASSUME NEW k \in DOMAIN p.open, k \notin DOMAIN r.open
          PROVE  \E i \in DOMAIN r.out : Completes(r.out[i], k)
      <4>1. CASE k \in ks
        BY <2>5, <2>6, <4>1 DEF Completes
      <4>2. CASE k \notin ks
        <5>1. PICK i \in DOMAIN c.out : Completes(c.out[i], k)
          BY <2>2, <3>2, <4>2 DEF Log, Answered
        <5> QED
          BY <2>5, <5>1
      <4> QED
        BY <4>1, <4>2
    <3> QED
      BY <3>1, <3>2 DEF Answered
  <2>9. Written(p, r)
    BY <2>2, <2>5, <2>6 DEF Log, Written, Fields
  <2>10. Excused(p, r) /\ Quieted(p, s, r)
    BY <2>2, <2>5, <2>6 DEF Log, Excused, Excusable, Exhausted, Quieted, Fields
  <2>12. Posted(p, r)
    <3>1. Posted(p, c) /\ Fits(p, c, a)
      BY <2>6 DEF Log, Fits
    <3> QED
      BY <2>2, <2>5, <3>1, PostedEmits DEF Fields
  <2>11. Announced(s, r)
    BY <2>2, <2>5, <2>6 DEF Log, Announced, Fields
  <2>13. Spoken(p, r)
    BY <2>2, <2>5, SpokenEmits DEF Log, Fields
  <2> QED
    BY <2>4, <2>7, <2>8, <2>9, <2>10, <2>11, <2>12, <2>13 DEF Log, r
<1> QED
  BY <1>1, <1>2

\* emit_completion keeps the other deferred errors and open commands.
LEMMA EmitCompletionDeferral ==
  ASSUME NEW c, NEW ks, NEW result, Shape(c)
  PROVE  LET r == EmitCompletion(c, ks, result)
         IN  /\ DOMAIN r.deferred = DOMAIN c.deferred \ ks
             /\ \A k \in DOMAIN r.deferred : r.deferred[k] = c.deferred[k]
<1>1. CASE ks = {}
  BY <1>1 DEF EmitCompletion
<1>2. CASE ks # {}
  BY <1>2 DEF EmitCompletion, Emit, Drop, Shape, Fields
<1> QED BY <1>1, <1>2

\* emit_completion resolves the commands it completes and no others.
LEMMA EmitCompletionResolves ==
  ASSUME NEW c, NEW ks, NEW result, Shape(c), ks \subseteq Commands
  PROVE  UnresolvedCommands(EmitCompletion(c, ks, result)) = UnresolvedCommands(c) \ ks
<1> DEFINE r == EmitCompletion(c, ks, result)
<1>1. /\ DOMAIN r.pending = DOMAIN c.pending
      /\ \A w \in DOMAIN c.pending :
           r.pending[w].command = IF c.pending[w].command \in ks THEN None
                                  ELSE c.pending[w].command
  BY EmitCompletionEffect
<1> HIDE DEF r
<1>2. None \notin ks
  BY NoneAssumption
<1>3. ASSUME NEW k PROVE k \in UnresolvedCommands(r) <=> k \in UnresolvedCommands(c) \ ks
  BY <1>1, <1>2 DEF UnresolvedCommands
<1> QED
  BY <1>3 DEF r

\* emit_completion of commands no transaction claims keeps the traces.
LEMMA TracedCompletes ==
  ASSUME NEW c, NEW ks, NEW result, Shape(c), Traced(c), ks \subseteq DOMAIN c.open,
         \A k \in ks : ~Claimed(c, k)
  PROVE  Traced(EmitCompletion(c, ks, result))
<1> DEFINE r == EmitCompletion(c, ks, result)
<1>1. /\ DOMAIN r = Fields
      /\ \A f \in Fields \ {"open", "deferred", "pending", "out"} : r[f] = c[f]
      /\ DOMAIN r.open = DOMAIN c.open \ ks
      /\ \A k \in DOMAIN r.open : r.open[k] = c.open[k]
      /\ DOMAIN r.pending = DOMAIN c.pending
      /\ \A w \in DOMAIN c.pending :
           /\ r.pending[w].kind = c.pending[w].kind
           /\ r.pending[w].command = IF c.pending[w].command \in ks THEN None
                                     ELSE c.pending[w].command
  BY EmitCompletionEffect
<1>2. /\ DOMAIN r.deferred = DOMAIN c.deferred \ ks
      /\ \A k \in DOMAIN r.deferred : r.deferred[k] = c.deferred[k]
  BY EmitCompletionDeferral
<1>3. UnresolvedCommands(r) \subseteq UnresolvedCommands(c)
  BY EmitCompletionResolves DEF Shape
<1> HIDE DEF r
<1>4. r.active = c.active /\ r.data = c.data
  BY <1>1 DEF Fields
<1>5. c.active # None =>
        IF c.active.armed THEN c.active.command \notin UnresolvedCommands(r)
        ELSE c.active.write \in DOMAIN r.pending =>
               r.pending[c.active.write].command = c.active.command
  BY <1>1, <1>3 DEF Traced, Claimed
<1>6. \A s \in DOMAIN c.data :
        IF c.data[s].armed THEN c.data[s].command \notin UnresolvedCommands(r)
        ELSE c.data[s].write \in DOMAIN r.pending =>
               r.pending[c.data[s].write].command = c.data[s].command
  BY <1>1, <1>3 DEF Traced, Claimed
<1>7. \A k \in DOMAIN r.deferred :
        \/ r.deferred[k] = "ConnectionLost"
        \/ /\ r.deferred[k] = "SessionDeselected" /\ k \in DOMAIN r.open
           /\ r.open[k] \in {"Send", "Request"}
  BY <1>1, <1>2 DEF Traced
<1> QED
  BY <1>4, <1>5, <1>6, <1>7 DEF Traced, r

\* emit_completion of open commands with justified results continues a run.
LEMMA RunCompletes ==
  ASSUME NEW p, NEW s, NEW c, NEW ks, NEW result, Shape(c), Run(p, s, c),
         ks \subseteq DOMAIN c.open, result \notin {"open", "unused"},
         \A k \in ks : Justified(p, k, result) /\ ~Claimed(c, k)
  PROVE  Run(p, s, EmitCompletion(c, ks, result))
<1> DEFINE r == EmitCompletion(c, ks, result)
<1>1. Log(p, s, r)
  BY LogCompletes DEF Run
<1>2. Traced(r)
  BY TracedCompletes DEF Run
<1>3. DOMAIN r.open = DOMAIN c.open \ ks
  BY EmitCompletionEffect
<1>4. UnresolvedCommands(r) = UnresolvedCommands(c) \ ks
  BY EmitCompletionResolves DEF Shape
<1> HIDE DEF r
<1>5. Bounded(p, r)
  BY <1>3, <1>4 DEF Run, Bounded
<1> QED
  BY <1>1, <1>2, <1>5 DEF Run, r

\* complete_or_defer of what shutdown or deselection ends continues a run: it
\* completes only commands whose write has come to its end.
LEMMA RunCompletesOrDefers ==
  ASSUME NEW p, NEW s, NEW c, NEW ks, NEW error, Shape(c), Run(p, s, c),
         ks \subseteq DOMAIN c.open,
         \A k \in ks : ~Claimed(c, k),
         \/ error = "ConnectionLost"
         \/ error = "SessionDeselected" /\ \A k \in ks : c.open[k] \in {"Send", "Request"}
  PROVE  Run(p, s, CompleteOrDefer(c, ks, error))
<1> DEFINE held == ks \cap UnresolvedCommands(c)
           later == [k \in DOMAIN c.deferred \cup held |->
                       IF k \in DOMAIN c.deferred THEN c.deferred[k] ELSE error]
           kept == [c EXCEPT !.deferred = later]
<1>1. CompleteOrDefer(c, ks, error) = EmitCompletion(kept, ks \ held, error)
  BY DEF CompleteOrDefer
<1>2. \A k \in DOMAIN later : later[k] = c.deferred[k] \/ (k \in ks /\ later[k] = error)
  OBVIOUS
<1>3. \A k \in DOMAIN later : k \notin DOMAIN c.deferred => k \in ks /\ later[k] = error
  OBVIOUS
<1>4. \A k \in DOMAIN later : k \in DOMAIN c.deferred => later[k] = c.deferred[k]
  OBVIOUS
<1> HIDE DEF later
<1>5. /\ DOMAIN kept = Fields
      /\ \A f \in Fields \ {"deferred"} : kept[f] = c[f]
      /\ kept.deferred = later
  BY DEF Shape, Fields
<1> HIDE DEF kept
<1>6. Shape(kept)
  BY <1>5 DEF Shape, Fields
<1>7. Log(p, s, kept)
  <2>1. Opened(p, kept) /\ Answered(p, kept) /\ Written(p, kept)
    BY <1>5 DEF Run, Log, Opened, Answered, Written, Fields
  <2>2. IsBatch(kept.out) /\ Excused(p, kept) /\ Announced(s, kept) /\ Quieted(p, s, kept)
    BY <1>5 DEF Run, Log, Excused, Excusable, Exhausted, Announced, Quieted, Fields
  <2>3. Posted(p, kept) /\ Spoken(p, kept)
    BY <1>5, PostedSame, SpokenSame DEF Run, Log, Fields
  <2> QED
    BY <2>1, <2>2, <2>3 DEF Log
<1>8. Bounded(p, kept)
  BY <1>5 DEF Run, Bounded, UnresolvedCommands, Fields
<1>9. Traced(kept)
  <2>1. /\ kept.active = c.active /\ kept.data = c.data /\ kept.pending = c.pending
        /\ kept.open = c.open /\ UnresolvedCommands(kept) = UnresolvedCommands(c)
    BY <1>5 DEF UnresolvedCommands, Fields
  <2>2. \A k \in DOMAIN kept.deferred :
          \/ kept.deferred[k] = "ConnectionLost"
          \/ /\ kept.deferred[k] = "SessionDeselected" /\ k \in DOMAIN kept.open
             /\ kept.open[k] \in {"Send", "Request"}
    <3> SUFFICES ASSUME NEW k \in DOMAIN later
                 PROVE  \/ later[k] = "ConnectionLost"
                        \/ /\ later[k] = "SessionDeselected" /\ k \in DOMAIN c.open
                           /\ c.open[k] \in {"Send", "Request"}
      BY <1>5, <2>1
    <3>1. CASE k \in DOMAIN c.deferred
      BY <1>4, <3>1 DEF Run, Traced
    <3>2. CASE k \notin DOMAIN c.deferred
      BY <1>3, <3>2
    <3> QED
      BY <3>1, <3>2
  <2> QED
    BY <2>1, <2>2 DEF Run, Traced
<1>10. \A k \in ks \ held :
         k \in DOMAIN kept.open /\ ~Claimed(kept, k) /\ Justified(p, k, error)
  <2>1. \A k \in ks \ held : k \in DOMAIN c.open /\ k \notin p.bound /\ p.open[k] = c.open[k]
    BY DEF Run, Bounded, Log, Opened
  <2>2. \A k \in ks \ held : Fair(p, k, error)
    BY <2>1 DEF Fair
  <2> QED
    BY <1>5, <2>1, <2>2 DEF Justified, Claimed, Fields
<1> QED
  BY <1>1, <1>6, <1>7, <1>8, <1>9, <1>10, RunCompletes DEF Run

\* complete_all continues a run and ends every transaction and request.
LEMMA RunCompletesAll ==
  ASSUME NEW p, NEW s, NEW c, Shape(c), Run(p, s, c)
  PROVE  Run(p, s, CompleteAll(c, "ConnectionLost"))
<1> DEFINE d == [c EXCEPT !.active = None, !.data = EmptyFunction]
<1>1. /\ DOMAIN d = Fields
      /\ \A f \in Fields \ {"active", "data"} : d[f] = c[f]
      /\ d.active = None
      /\ DOMAIN d.data = {}
  BY DEF Shape, Fields, EmptyFunction
<1>2. CompleteAll(c, "ConnectionLost") = CompleteOrDefer(d, DOMAIN c.open, "ConnectionLost")
  BY DEF CompleteAll
<1> HIDE DEF d
<1>3. Shape(d)
  BY <1>1 DEF Shape, Fields
<1>4. Run(p, s, d)
  BY <1>1, RunSame DEF Fields
<1>5. \A k \in DOMAIN c.open : k \in DOMAIN d.open /\ ~Claimed(d, k)
  BY <1>1 DEF Claimed, Fields
<1> QED
  BY <1>2, <1>3, <1>4, <1>5, RunCompletesOrDefers

\* Setting closing and pushing the close continues a run.
LEMMA RunEmitsClose ==
  ASSUME NEW p, NEW s, NEW c, NEW d, NEW a, DOMAIN d = Fields, Run(p, s, c),
         \A f \in Fields \ {"closing", "drain", "replies", "closeIssued"} : d[f] = c[f],
         d.closing, d.closeIssued, DOMAIN d.replies \subseteq DOMAIN c.replies,
         a.act = "CloseGeneration", Excusable(p, c, a.reason), Fits(p, d, a)
  PROVE  Run(p, s, Emit(d, a))
<1> DEFINE r == Emit(d, a)
<1>0. /\ d.out = c.out /\ d.pending = c.pending /\ d.open = c.open
      /\ d.nextWrite = c.nextWrite /\ d.nextReply = c.nextReply /\ d.state = c.state
      /\ d.deferred = c.deferred /\ d.active = c.active /\ d.data = c.data
  BY DEF Fields
<1>1. DOMAIN r = Fields /\ \A f \in Fields \ {"out"} : r[f] = d[f]
  BY EmitFields
<1>2. IsBatch(c.out) /\ IsBatch(r.out)
  BY <1>0, EmitAppends DEF Run, Log
<1>3. PICK n \in Nat :
        /\ n \notin DOMAIN c.out
        /\ DOMAIN r.out = DOMAIN c.out \cup {n}
        /\ r.out[n] = a
        /\ \A i \in DOMAIN c.out : i \in Nat /\ i < n /\ r.out[i] = c.out[i]
  BY <1>0, <1>2, EmitAppends
<1> HIDE DEF r
<1>4. /\ r.pending = d.pending /\ r.open = c.open /\ r.closing /\ r.closeIssued
      /\ r.nextWrite = c.nextWrite /\ r.nextReply = c.nextReply /\ r.state = c.state
      /\ r.deferred = c.deferred /\ r.active = c.active /\ r.data = c.data
      /\ r.replies = d.replies
  BY <1>0, <1>1 DEF Fields
<1>5. Opened(p, r) /\ Written(p, r)
  BY <1>0, <1>3, <1>4 DEF Run, Log, Opened, Written
<1>6. Answered(p, r)
  BY <1>3, <1>4 DEF Run, Log, Answered, Completes
<1>7. Excused(p, r)
  BY <1>3, <1>4 DEF Run, Log, Excused, Excusable, Exhausted
<1>8. Posted(p, r)
  <2>1. Posted(p, d)
    BY <1>0, PostedSame DEF Run, Log
  <2> QED
    BY <1>0, <1>1, <1>3, <1>4, <2>1, PostedEmits DEF Fields
<1>9. Announced(s, r) /\ Quieted(p, s, r)
  BY <1>0, <1>3, <1>4 DEF Run, Log, Announced, Quieted
<1>10. Bounded(p, r) /\ Traced(r)
  BY <1>0, <1>4 DEF Run, Bounded, Traced, UnresolvedCommands
<1>11. Spoken(p, r)
  BY <1>3, <1>4, SpokenEmits DEF Run, Log
<1> QED
  BY <1>2, <1>5, <1>6, <1>7, <1>8, <1>9, <1>10, <1>11 DEF Run, Log, r

\* request_close continues a run.
LEMMA RunCloses ==
  ASSUME NEW p, NEW s, NEW c, NEW reason, NEW barrier, DOMAIN c = Fields, Run(p, s, c),
         Excusable(p, c, reason),
         barrier # Immediate =>
           /\ ~p.closing
           /\ barrier \in DOMAIN c.pending /\ c.pending[barrier].kind = "Separate"
           /\ \A w \in DOMAIN c.pending : w <= barrier
           /\ \E j \in DOMAIN c.out : c.out[j].act = "SendFrame" /\ c.out[j].write = barrier
  PROVE  Run(p, s, RequestClose(c, reason, barrier))
<1> DEFINE d == [c EXCEPT !.closing = TRUE, !.drain = None,
                          !.replies = EmptyFunction, !.closeIssued = TRUE]
           a == CloseGeneration(reason, barrier)
<1>1. /\ DOMAIN d = Fields
      /\ \A f \in Fields \ {"closing", "drain", "replies", "closeIssued"} : d[f] = c[f]
      /\ d.closing /\ d.closeIssued /\ DOMAIN d.replies = {}
  BY DEF Fields, EmptyFunction
<1>2. RequestClose(c, reason, barrier) = IF c.closeIssued THEN d ELSE Emit(d, a)
  BY DEF RequestClose
<1> HIDE DEF d
<1>3. c.closeIssued => Run(p, s, d)
  BY <1>1, RunSame DEF Fields
<1>4. a.act = "CloseGeneration" /\ a.reason = reason /\ a.barrier = barrier
  BY DEF CloseGeneration
<1> HIDE DEF a
<1>6. d.pending = c.pending /\ d.out = c.out
  BY <1>1 DEF Fields
<1>7. Fits(p, d, a)
  BY <1>1, <1>4, <1>6 DEF Fits, Immediate
<1>5. Run(p, s, Emit(d, a))
  BY <1>1, <1>4, <1>7, RunEmitsClose
<1> QED
  BY <1>2, <1>3, <1>5

\* complete_all(ConnectionLost) and an immediate request_close continue a run.
LEMMA RunClosesAll ==
  ASSUME NEW p, NEW s, NEW c, NEW reason, Weak(c), Run(p, s, c),
         Excusable(p, c, reason)
  PROVE  Run(p, s, CloseAll(c, reason))
<1> DEFINE d == CompleteAll(c, "ConnectionLost")
<1>1. Run(p, s, d)
  BY RunCompletesAll DEF Weak
<1>2. Shape(d) /\ d.nextWrite = c.nextWrite /\ d.nextReply = c.nextReply
  BY CompleteAllWeak DEF Weak, Fields
<1>3. CloseAll(c, reason) = RequestClose(d, reason, Immediate)
  BY DEF CloseAll
<1> HIDE DEF d
<1> QED
  BY <1>1, <1>2, <1>3, RunCloses DEF Excusable, Exhausted, Shape

\* fail_runtime_invariant for an exhausted identifier space continues a run.
LEMMA RunFails ==
  ASSUME NEW p, NEW s, NEW c, Weak(c), Run(p, s, c), Exhausted(c)
  PROVE  Run(p, s, FailRuntimeInvariant(c))
BY RunClosesAll DEF FailRuntimeInvariant, Excusable

\* A close for lack of a WriteId needs no announcement.
LEMMA RunExcused ==
  ASSUME NEW p, NEW s, NEW t, NEW c, Run(p, t, c), c.closing, c.nextWrite = WriteSpace,
         ~p.closing, t # "None"
  PROVE  Run(p, s, c)
BY DEF Run, Log, Announced, Quieted

\* fail_runtime_invariant closes and hands out no WriteId.
LEMMA FailureEffect ==
  ASSUME NEW c, Weak(c)
  PROVE  /\ FailRuntimeInvariant(c).closing
         /\ FailRuntimeInvariant(c).nextWrite = c.nextWrite
<1> DEFINE d == CompleteAll(c, "ConnectionLost")
<1>1. Shape(d) /\ d.nextWrite = c.nextWrite
  BY CompleteAllWeak DEF Weak, Fields
<1>2. FailRuntimeInvariant(c) = RequestClose(d, "RuntimeInvariant", Immediate)
  BY DEF FailRuntimeInvariant, CloseAll
<1> HIDE DEF d
<1> QED
  BY <1>1, <1>2 DEF RequestClose, Emit, Shape, Fields

\* The results that say nothing about a write.
Plain(result) ==
  result \notin {"ConnectionLost", "TimeoutT6", "RequestTimedOut", "SessionDeselected",
                 "DeliveryIndeterminate", "Backpressure", "Ok", "open", "unused"}

\* complete_error, complete_control, complete_send and complete_request of a command
\* that is open as expected continue a run.
LEMMA RunCompletesAs ==
  ASSUME NEW p, NEW s, NEW c, NEW k, NEW kinds, NEW result, Shape(c), Run(p, s, c),
         k \in DOMAIN c.open, c.open[k] \in kinds, ~Claimed(c, k),
         \/ /\ Plain(result)
            /\ result \in {"Secondary", "TransactionAborted"} =>
                 c.open[k] = "Control" \/ k \in p.heard
         \/ Justified(p, k, result) /\ result \notin {"open", "unused"}
  PROVE  Run(p, s, CompleteAs(c, k, kinds, result))
<1>0. p.open[k] = c.open[k]
  BY DEF Run, Log, Opened
<1>1. Justified(p, k, result) /\ result \notin {"open", "unused"}
  BY <1>0 DEF Plain, Justified, Fair
<1>2. CompleteAs(c, k, kinds, result) = EmitCompletion(c, {k}, result)
  BY DEF CompleteAs
<1>3. Run(p, s, EmitCompletion(c, {k}, result))
  BY <1>1, RunCompletes
<1> QED
  BY <1>2, <1>3

\* As RunCompletesAs, for complete_error.
LEMMA RunCompletesError ==
  ASSUME NEW p, NEW s, NEW c, NEW k, NEW result, Shape(c), Run(p, s, c),
         k \in DOMAIN c.open, ~Claimed(c, k),
         \/ /\ Plain(result)
            /\ result \in {"Secondary", "TransactionAborted"} =>
                 c.open[k] = "Control" \/ k \in p.heard
         \/ Justified(p, k, result) /\ result \notin {"open", "unused"}
  PROVE  Run(p, s, CompleteError(c, k, result))
<1>1. c.open[k] \in CommandKinds
  BY DEF Shape
<1> QED
  BY <1>1, RunCompletesAs DEF CompleteError

\* complete_control_transaction of the transaction just taken out of its slot
\* continues a run.
LEMMA RunCompletesTransaction ==
  ASSUME NEW p, NEW s, NEW c, NEW t, NEW result, Shape(c), Run(p, s, c),
         t.command # None => /\ t.command \in DOMAIN c.open
                             /\ c.open[t.command] = "Control"
                             /\ ~Claimed(c, t.command),
         \/ Plain(result)
         \/ /\ t.command # None => Justified(p, t.command, result)
            /\ result \notin {"open", "unused"}
  PROVE  Run(p, s, CompleteControlTransaction(c, t, result))
<1>1. CASE t.command = None
  BY <1>1 DEF CompleteControlTransaction
<1>2. CASE t.command # None
  <2>1. Run(p, s, CompleteAs(c, t.command, {"Control"}, result))
    BY <1>2, RunCompletesAs
  <2> QED
    BY <1>2, <2>1 DEF CompleteControlTransaction, CompleteControl
<1> QED
  BY <1>1, <1>2

-----------------------------------------------------------------------------
(* New writes.                                                             *)

\* A new write and its frame continue a run, as long as no response follows an
\* announced state.
LEMMA RunWrites ==
  ASSUME NEW p, NEW s, NEW c, NEW d, NEW m, DOMAIN d = Fields, Run(p, s, c),
         ~p.closing, p.nextWrite \in Nat, c.nextWrite \in Nat, d.nextWrite \in Nat,
         NEW w \in Nat, p.nextWrite <= w, c.nextWrite <= d.nextWrite,
         c.nextWrite = WriteSpace => d.nextWrite = WriteSpace,
         d.out = c.out, d.open = c.open, d.state = c.state,
         d.nextReply = c.nextReply, d.replies = c.replies,
         ~c.closeIssued, d.closing = c.closing, d.closeIssued = c.closeIssued,
         \A v \in DOMAIN c.pending : v < w,
         m.type = "Data" => p.permit /\ DOMAIN c.out = {},
         DOMAIN d.pending = DOMAIN c.pending \cup {w},
         \A v \in DOMAIN c.pending : d.pending[v] = c.pending[v],
         Traced(d),
         c.state = s \/ m.type \notin {"Select.rsp", "Deselect.rsp"},
         m.type \in MessageTypes,
         \/ d.active = None
         \/ d.active = c.active
         \/ m = TransactionMessage(d.active.kind, d.active.sys)
  PROVE  Run(p, s, Emit(d, SendFrame(w, m)))
<1> DEFINE r == Emit(d, SendFrame(w, m))
           a == SendFrame(w, m)
<1>0. IsBatch(d.out)
  BY DEF Run, Log
<1>1. DOMAIN r = Fields /\ \A f \in Fields \ {"out"} : r[f] = d[f]
  BY EmitFields
<1>2. IsBatch(r.out)
  BY <1>0, EmitAppends
<1>3. PICK n \in Nat :
        /\ n \notin DOMAIN c.out
        /\ DOMAIN r.out = DOMAIN c.out \cup {n}
        /\ r.out[n] = a
        /\ \A i \in DOMAIN c.out : i \in Nat /\ i < n /\ r.out[i] = c.out[i]
  BY <1>0, EmitAppends
<1> HIDE DEF r
<1>4. a.act = "SendFrame" /\ a.write = w /\ a.message = m
  BY DEF SendFrame
<1> HIDE DEF a
<1>5. p.nextWrite <= c.nextWrite
  BY DEF Run, Log, Written
<1>6. Opened(p, r)
  BY <1>1 DEF Run, Log, Opened, Fields
<1>7. Answered(p, r)
  BY <1>1, <1>3, <1>4 DEF Run, Log, Answered, Completes, Fields
<1>8. Written(p, r)
  <2>1. p.nextWrite <= r.nextWrite
    BY <1>1, <1>5 DEF Fields
  <2>2. \A v \in DOMAIN r.pending :
          \/ v \in p.pending
          \/ \E i \in DOMAIN r.out : r.out[i].act = "SendFrame" /\ r.out[i].write = v
    BY <1>1, <1>3, <1>4 DEF Run, Log, Written, Fields
  <2>3. \A i \in DOMAIN r.out : r.out[i].act = "SendFrame" => p.nextWrite <= r.out[i].write
    BY <1>3, <1>4 DEF Run, Log, Written
  <2> QED
    BY <2>1, <2>2, <2>3 DEF Written
<1>9. Excused(p, r)
  <2>1. ASSUME NEW i \in DOMAIN r.out, r.out[i].act = "CloseGeneration"
        PROVE  Excusable(p, r, r.out[i].reason)
    <3>1. i \in DOMAIN c.out /\ r.out[i] = c.out[i]
      BY <1>3, <1>4, <2>1
    <3>2. Excusable(p, c, r.out[i].reason)
      BY <2>1, <3>1 DEF Run, Log, Excused
    <3> QED
      BY <1>1, <3>2 DEF Excusable, Exhausted, Fields
  <2>2. r.closeIssued /\ ~p.closing => \E i \in DOMAIN r.out : r.out[i].act = "CloseGeneration"
    BY <1>1, <1>3, <1>4 DEF Run, Log, Excused, Fields
  <2> QED
    BY <2>1, <2>2 DEF Excused
<1>14. Posted(p, r)
  <2>1. Posted(p, c)
    BY DEF Run, Log
  <2>2. Posted(p, d)
    BY <2>1, PostedGrows
  <2>3. \A i \in DOMAIN c.out : c.out[i].act = "SendFrame" => c.out[i].write < w
    BY <2>1 DEF Posted, Framed
  <2>4. Fits(p, d, a)
    BY <1>4, <2>3 DEF Fits
  <2> QED
    BY <1>1, <1>3, <2>2, <2>4, PostedEmits DEF Fields
<1>10. Announced(s, r)
  BY <1>1, <1>3, <1>4 DEF Run, Log, Announced, Fields
<1>11. Quieted(p, s, r)
  BY DEF Quieted
<1>12. Bounded(p, r)
  BY <1>1 DEF Run, Bounded, UnresolvedCommands, Fields
<1>13. Traced(r)
  BY <1>1 DEF Traced, UnresolvedCommands, Fields
<1>15. Spoken(p, r)
  <2>1. Spoken(p, c) /\ r.active = d.active
    BY <1>1 DEF Run, Log, Fields
  <2>2. \A x : Pushes(c, x) => Pushes(r, x)
    BY <1>3 DEF Pushes
  <2>3. Pushes(r, m)
    BY <1>3, <1>4 DEF Pushes
  <2> QED
    BY <2>1, <2>2, <2>3 DEF Spoken
<1> QED
  BY <1>2, <1>6, <1>7, <1>8, <1>9, <1>10, <1>11, <1>12, <1>13, <1>14, <1>15 DEF Run, Log, r

\* A new write for a command no live transaction stands for keeps the traces, with
\* or without a new transaction of its own.
LEMMA TracedWrites ==
  ASSUME NEW c, NEW d, NEW k, Weak(c), Timed(c), Traced(c), c.nextWrite # WriteSpace,
         d.open = c.open, d.deferred = c.deferred,
         DOMAIN d.pending = DOMAIN c.pending \cup {c.nextWrite},
         \A w \in DOMAIN c.pending : d.pending[w] = c.pending[w],
         d.pending[c.nextWrite].command = k,
         k # None => ~Claimed(c, k),
         \/ d.active = None
         \/ d.active = c.active
         \/ ~d.active.armed /\ d.active.write = c.nextWrite /\ d.active.command = k,
         \A t \in DOMAIN d.data :
           \/ t \in DOMAIN c.data /\ d.data[t] = c.data[t]
           \/ ~d.data[t].armed /\ d.data[t].write = c.nextWrite /\ d.data[t].command = k
  PROVE  Traced(d)
<1>1. \A j : j \in UnresolvedCommands(d) => j \in UnresolvedCommands(c) \/ (j = k /\ k # None)
  BY DEF UnresolvedCommands
<1>2. d.active # None =>
        IF d.active.armed THEN d.active.command \notin UnresolvedCommands(d)
        ELSE d.active.write \in DOMAIN d.pending =>
               d.pending[d.active.write].command = d.active.command
  <2>1. CASE d.active = c.active
    BY <1>1, <2>1 DEF Traced, Timed, Claimed
  <2>2. CASE d.active # c.active
    BY <2>2
  <2> QED
    BY <2>1, <2>2
<1>3. ASSUME NEW t \in DOMAIN d.data
      PROVE  IF d.data[t].armed THEN d.data[t].command \notin UnresolvedCommands(d)
             ELSE d.data[t].write \in DOMAIN d.pending =>
                    d.pending[d.data[t].write].command = d.data[t].command
  <2>1. CASE t \in DOMAIN c.data /\ d.data[t] = c.data[t]
    BY <1>1, <2>1 DEF Traced, Timed, Claimed
  <2>2. CASE ~(t \in DOMAIN c.data /\ d.data[t] = c.data[t])
    BY <2>2
  <2> QED
    BY <2>1, <2>2
<1>4. \A j \in DOMAIN d.deferred :
        \/ d.deferred[j] = "ConnectionLost"
        \/ /\ d.deferred[j] = "SessionDeselected" /\ j \in DOMAIN d.open
           /\ d.open[j] \in {"Send", "Request"}
  BY DEF Traced
<1> QED
  BY <1>2, <1>3, <1>4 DEF Traced

\* send_response continues a run in which the response announces nothing yet.
LEMMA RunResponds ==
  ASSUME NEW p, NEW s, NEW c, NEW m, IInv(c), Run(p, s, c), ~p.closing,
         p.nextWrite \in Nat, c.state = s, ~c.closeIssued,
         m.type \in MessageTypes \ {"Data"}
  PROVE  /\ Run(p, s, SendResponse(c, m))
         /\ SendResponse(c, m).closing /\ ~c.closing =>
              SendResponse(c, m).nextWrite = WriteSpace
<1>1. CASE c.nextWrite = WriteSpace
  <2>1. Weak(c) /\ Exhausted(c)
    BY <1>1 DEF IInv, Exhausted
  <2>2. FailRuntimeInvariant(c).nextWrite = c.nextWrite
    BY <2>1, FailureEffect
  <2> QED
    BY <1>1, <2>1, <2>2, RunFails DEF SendResponse
<1>2. CASE c.nextWrite # WriteSpace
  <2> DEFINE x == PendingWrite("Response", None, None, None)
             q == Put(c.pending, c.nextWrite, x)
             d == [c EXCEPT !.nextWrite = @ + 1, !.pending = q]
  <2>0. Shape(c) /\ c.nextWrite \in Nat /\ \A w \in DOMAIN c.pending : w # c.nextWrite
    BY <1>2, FreshWrite DEF IInv, Weak
  <2>c. \A w \in DOMAIN c.pending : w < c.nextWrite
    BY <1>2, FreshWrite DEF IInv
  <2>1. /\ DOMAIN d = Fields
        /\ \A f \in Fields \ {"nextWrite", "pending"} : d[f] = c[f]
        /\ d.nextWrite = c.nextWrite + 1
        /\ DOMAIN d.pending = DOMAIN c.pending \cup {c.nextWrite}
        /\ d.pending[c.nextWrite].command = None
        /\ \A w \in DOMAIN c.pending : d.pending[w] = c.pending[w]
    <3>1. /\ DOMAIN q = DOMAIN c.pending \cup {c.nextWrite}
          /\ q[c.nextWrite] = x
          /\ \A w \in DOMAIN c.pending : q[w] = c.pending[w]
      BY <2>0 DEF Put
    <3>2. x.command = None
      BY DEF PendingWrite
    <3> HIDE DEF q, x
    <3> QED BY <2>0, <3>1, <3>2 DEF Shape, Fields
  <2>2. SendResponse(c, m) = Emit(d, SendFrame(c.nextWrite, m))
    BY <1>2 DEF SendResponse
  <2> HIDE DEF d
  <2>3. /\ d.open = c.open /\ d.deferred = c.deferred /\ d.active = c.active
        /\ d.data = c.data /\ d.out = c.out /\ d.state = c.state
        /\ d.nextReply = c.nextReply /\ d.replies = c.replies
        /\ d.closing = c.closing /\ d.closeIssued = c.closeIssued
    BY <2>1 DEF Fields
  <2>4. Traced(d)
    BY <1>2, <2>1, <2>3, TracedWrites DEF IInv, Run
  <2>a. p.nextWrite <= c.nextWrite
    BY DEF Run, Log, Written
  <2>b. c.nextWrite + 1 \in Nat /\ c.nextWrite <= c.nextWrite + 1
    BY <2>0
  <2>5. Run(p, s, Emit(d, SendFrame(c.nextWrite, m)))
    BY <1>2, <2>0, <2>1, <2>3, <2>4, <2>a, <2>b, <2>c, RunWrites
  <2>6. SendResponse(c, m).closing = c.closing
    BY <2>1, <2>2, <2>3, EmitFields DEF Fields
  <2> QED
    BY <2>2, <2>5, <2>6
<1> QED
  BY <1>1, <1>2

\* start_transaction continues a run.
LEMMA RunStartsTransaction ==
  ASSUME NEW p, NEW s, NEW c, NEW kind \in TransactionKinds, NEW k, IInv(c), Run(p, s, c),
         ~p.closing, ~c.closeIssued, p.nextWrite \in Nat, k # None => ~Claimed(c, k)
  PROVE  Run(p, s, StartTransaction(c, kind, k))
<1>1. CASE IdentifiersExhausted(c)
  <2>1. CASE c.nextWrite = WriteSpace
    BY <1>1, <2>1, RunFails DEF StartTransaction, RefuseIdentifiers, IInv, Exhausted
  <2>2. CASE c.nextWrite # WriteSpace
    BY <1>1, <2>2, RunClosesAll DEF StartTransaction, RefuseIdentifiers, IInv, Excusable, CoreReasons
  <2> QED
    BY <2>1, <2>2
<1>2. CASE ~IdentifiersExhausted(c)
  <2> DEFINE a == [kind |-> kind, command |-> k, sys |-> c.nextSys,
                   write |-> c.nextWrite, armed |-> FALSE]
             x == PendingWrite("TransactionRequest", k, None, None)
             q == Put(c.pending, c.nextWrite, x)
             d == [c EXCEPT !.nextSys = @ + 1, !.nextWrite = @ + 1,
                            !.active = a, !.pending = q]
             m == TransactionMessage(kind, c.nextSys)
  <2>0. /\ Shape(c) /\ c.nextWrite \in Nat /\ c.nextWrite # WriteSpace
        /\ \A w \in DOMAIN c.pending : w # c.nextWrite
    BY <1>2, FreshWrite DEF IInv, Weak, IdentifiersExhausted
  <2>c. \A w \in DOMAIN c.pending : w < c.nextWrite
    BY <1>2, FreshWrite DEF IInv, IdentifiersExhausted
  <2>1. /\ DOMAIN d = Fields
        /\ \A f \in Fields \ {"nextWrite", "nextSys", "pending", "active"} : d[f] = c[f]
        /\ d.nextWrite = c.nextWrite + 1
        /\ ~d.active.armed /\ d.active.write = c.nextWrite /\ d.active.command = k
        /\ DOMAIN d.pending = DOMAIN c.pending \cup {c.nextWrite}
        /\ d.pending[c.nextWrite].command = k
        /\ \A w \in DOMAIN c.pending : d.pending[w] = c.pending[w]
    <3>1. /\ DOMAIN q = DOMAIN c.pending \cup {c.nextWrite}
          /\ q[c.nextWrite] = x
          /\ \A w \in DOMAIN c.pending : q[w] = c.pending[w]
      BY <2>0 DEF Put
    <3>2. x.command = k
      BY DEF PendingWrite
    <3>3. ~a.armed /\ a.write = c.nextWrite /\ a.command = k
      OBVIOUS
    <3> HIDE DEF q, x, a
    <3> QED BY <2>0, <3>1, <3>2, <3>3 DEF Shape, Fields
  <2>2. StartTransaction(c, kind, k) = Emit(d, SendFrame(c.nextWrite, m))
    BY <1>2 DEF StartTransaction, AllocateRequestIdentifiers, IInv, Weak, Shape
  <2>3. m.type \in MessageTypes \ {"Select.rsp", "Deselect.rsp", "Data"}
    BY DEF TransactionMessage, TransactionKinds, SelectReq, DeselectReq, LinktestReq, MessageTypes
  <2>m. m = TransactionMessage(d.active.kind, d.active.sys)
    BY <2>0 DEF Shape, Fields
  <2> HIDE DEF d, m
  <2>4. /\ d.open = c.open /\ d.deferred = c.deferred /\ d.data = c.data
        /\ d.out = c.out /\ d.state = c.state
        /\ d.nextReply = c.nextReply /\ d.replies = c.replies
        /\ d.closing = c.closing /\ d.closeIssued = c.closeIssued
    BY <2>1 DEF Fields
  <2>5. Traced(d)
    BY <2>0, <2>1, <2>4, TracedWrites DEF IInv, Run
  <2>a. p.nextWrite <= c.nextWrite
    BY DEF Run, Log, Written
  <2>b. c.nextWrite + 1 \in Nat /\ c.nextWrite <= c.nextWrite + 1
    BY <2>0
  <2> QED
    BY <2>0, <2>1, <2>2, <2>3, <2>4, <2>5, <2>a, <2>b, <2>c, <2>m, RunWrites
<1> QED
  BY <1>1, <1>2

-----------------------------------------------------------------------------
(* Deselection (deselect.rs).                                              *)

\* progress_deselect continues a run.
LEMMA RunProgresses ==
  ASSUME NEW p, NEW s, NEW c, NEW due, IInv(c), Run(p, s, c), p.nextWrite \in Nat
  PROVE  Run(p, s, ProgressDeselect(c, due))
<1> DEFINE ended == [c EXCEPT !.drain = None]
<1>1. IInv(ended) /\ ended.drain = None /\ \A f \in Fields \ {"drain"} : ended[f] = c[f]
  BY DropDrain
<1> HIDE DEF ended
<1>2. CASE c.closing \/ c.drain = None
  BY <1>2 DEF ProgressDeselect
<1>3. CASE ~c.closing /\ c.drain # None
  <2>1. /\ c.drain \in DOMAIN c.open /\ c.open[c.drain] = "Control" /\ c.active = None
        /\ \A w \in DOMAIN c.pending : c.pending[w].command # c.drain
        /\ \A t \in DOMAIN c.data : c.data[t].command # c.drain
    BY <1>3 DEF IInv, Owners
  <2>2. Run(p, s, ended)
    BY <1>1, RunSame DEF Fields
  <2>3. /\ ~Claimed(ended, c.drain) /\ c.drain \in DOMAIN ended.open
        /\ ended.open[c.drain] = "Control" /\ Shape(ended) /\ ~ended.closeIssued
    BY <1>1, <1>3, <2>1 DEF Claimed, Fields, IInv, Weak, Closed
  <2>4. ~p.closing /\ c.drain \notin p.bound
    BY <1>3, <2>1 DEF Run, Log, Quieted, Bounded, UnresolvedCommands
  <2>5. Run(p, s, CompleteError(ended, c.drain, "TimeoutDrain"))
    BY <2>2, <2>3, RunCompletesError DEF Plain
  <2>6. Run(p, s, CompleteControl(ended, c.drain, "Ok"))
    <3>1. p.open[c.drain] = "Control"
      BY <2>1 DEF Run, Log, Opened
    <3>2. Justified(p, c.drain, "Ok")
      BY <2>4, <3>1 DEF Justified, Fair
    <3> QED
      BY <2>2, <2>3, <3>2, RunCompletesAs DEF CompleteControl
  <2>7. Run(p, s, StartTransaction(ended, "Deselect", c.drain))
    BY <1>1, <2>2, <2>3, <2>4, RunStartsTransaction DEF TransactionKinds
  <2> QED
    BY <1>3, <2>5, <2>6, <2>7 DEF ProgressDeselect, ended
<1> QED BY <1>2, <1>3

\* A new state that is not announced yet: the run goes on with it.
LEMMA RunMoves ==
  ASSUME NEW p, NEW s, NEW c, NEW d, Run(p, s, c), ~p.closing,
         d.out = c.out, d.open = c.open, d.pending = c.pending, d.deferred = c.deferred,
         p.nextWrite \in Nat, c.nextWrite \in Nat, d.nextWrite \in Nat,
         c.nextWrite <= d.nextWrite, c.nextWrite = WriteSpace => d.nextWrite = WriteSpace,
         d.nextReply = c.nextReply, DOMAIN d.replies \subseteq DOMAIN c.replies,
         c.closing => d.closing, d.closeIssued = c.closeIssued,
         d.active = None \/ d.active = c.active,
         \A t \in DOMAIN d.data : t \in DOMAIN c.data /\ d.data[t] = c.data[t]
  PROVE  Run(p, d.state, d)
<1>1. Opened(p, d) /\ Answered(p, d) /\ Written(p, d)
  BY DEF Run, Log, Opened, Answered, Written
<1>2. Excused(p, d) /\ Announced(d.state, d) /\ Quieted(p, d.state, d) /\ Bounded(p, d)
  BY DEF Run, Log, Excused, Excusable, Exhausted, Announced, Quieted, Bounded, UnresolvedCommands
<1>3. Traced(d)
  BY DEF Run, Traced, UnresolvedCommands
<1>4. Posted(p, d) /\ Spoken(p, d)
  BY PostedSame, SpokenSame DEF Run, Log
<1> QED
  BY <1>1, <1>2, <1>3, <1>4 DEF Run, Log

\* commit_deselection continues a run and announces its state.
LEMMA RunCommits ==
  ASSUME NEW p, NEW s, NEW c, Shape(c), Run(p, s, c), ~p.closing, p.nextWrite \in Nat,
         c.state = s
  PROVE  Run(p, s, CommitDeselection(c))
<1>1. CASE c.state = "NotSelected"
  BY <1>1 DEF CommitDeselection
<1>2. CASE c.state # "NotSelected"
  <2> DEFINE d == ArmSelectionTimeout([c EXCEPT !.state = "NotSelected",
                                                !.replies = EmptyFunction])
  <2>1. /\ DOMAIN d = Fields
        /\ \A f \in Fields \ {"state", "t7", "replies"} : d[f] = c[f]
        /\ d.state = "NotSelected" /\ DOMAIN d.replies = {}
    BY DEF Shape, Fields, EmptyFunction, ArmSelectionTimeout
  <2>a. c.nextWrite \in Nat /\ c.nextWrite <= c.nextWrite
    BY SpaceAssumption DEF Shape
  <2>2. CommitDeselection(c) = Emit(d, StateChanged("NotSelected"))
    BY <1>2 DEF CommitDeselection
  <2> HIDE DEF d
  <2>3. Run(p, "NotSelected", d)
    BY <2>1, <2>a, RunMoves DEF Fields
  <2>4. Run(p, s, Emit(d, StateChanged("NotSelected")))
    BY <2>1, <2>3, RunEmit DEF StateChanged, Fits
  <2> QED
    BY <2>2, <2>4
<1> QED BY <1>1, <1>2

\* start_deselect continues a run.
LEMMA RunStartsDeselect ==
  ASSUME NEW p, NEW s, NEW c, NEW k, IInv(c), Run(p, s, c), p.nextWrite \in Nat,
         ~c.closing, Free(c, k, "Control")
  PROVE  Run(p, s, StartDeselect(c, k))
<1>0. k \in DOMAIN c.open /\ ~Claimed(c, k) /\ Shape(c)
  BY DEF Free, Owned, Claimed, IInv, Weak
<1>1. Run(p, s, CompleteError(c, k, "NotSelected")) /\ Run(p, s, CompleteError(c, k, "ControlBusy"))
  BY <1>0, RunCompletesError DEF Plain
<1>2. ASSUME c.active = None
      PROVE  Run(p, s, ProgressDeselect([c EXCEPT !.drain = k], FALSE))
  <2> DEFINE d == [c EXCEPT !.drain = k]
  <2>1. IInv(d) /\ \A f \in Fields \ {"drain"} : d[f] = c[f]
    BY <1>2, AddDrain
  <2> HIDE DEF d
  <2>2. Run(p, s, d)
    BY <2>1, RunSame DEF Fields
  <2>3. Run(p, s, ProgressDeselect(d, FALSE))
    BY <2>1, <2>2, RunProgresses
  <2> QED
    BY <2>3 DEF d
<1> QED
  BY <1>1, <1>2 DEF StartDeselect

\* receive_deselect_request continues a run: the response precedes the state.
LEMMA RunReceivesDeselectRequest ==
  ASSUME NEW p, NEW s, NEW c, NEW m, IInv(c), Run(p, s, c), p.nextWrite \in Nat,
         ~c.closing, c.state = s
  PROVE  Run(p, s, ReceiveDeselectRequest(c, m))
<1> DEFINE answer == IF m.sid # ControlSession \/ c.state # "Selected" THEN "NOT_SELECTED"
                     ELSE IF DataInUse(c) THEN "BUSY" ELSE "SUCCESS"
           sent == SendResponse(c, DeselectRsp(m.sid, answer, m.sys))
<1>0. ~p.closing /\ ~c.closeIssued
  BY DEF Run, Log, Quieted, IInv, Closed
<1>1. IInv(sent) /\ Run(p, s, sent)
      /\ (~sent.closing => \A f \in Fields \ {"nextWrite", "pending", "out"} : sent[f] = c[f])
  BY <1>0, SendResponseEffect, RunResponds DEF DeselectRsp, MessageTypes
<1>2. ReceiveDeselectRequest(c, m)
        = IF answer = "SUCCESS" /\ ~sent.closing THEN CommitDeselection(sent) ELSE sent
  BY DEF ReceiveDeselectRequest
<1> HIDE DEF sent, answer
<1>3. ~sent.closing => Run(p, s, CommitDeselection(sent))
  BY <1>0, <1>1, RunCommits DEF IInv, Weak, Fields
<1> QED
  BY <1>1, <1>2, <1>3

\* The command of the control transaction, once out of its slot, may be completed.
LEMMA TransactionCommand ==
  ASSUME NEW p, NEW s, NEW c, NEW d, IInv(c), c.active # None, c.active.command # None,
         d.active = None, d.data = c.data, d.open = c.open,
         Run(p, s, c), ~p.closing
  PROVE  /\ c.active.command \in DOMAIN d.open
         /\ d.open[c.active.command] = "Control"
         /\ ~Claimed(d, c.active.command)
         /\ Justified(p, c.active.command, "Ok")
         /\ c.active.armed => Justified(p, c.active.command, "TimeoutT6")
<1> DEFINE k == c.active.command
<1>1. k \in DOMAIN c.open /\ c.open[k] = "Control" /\ \A t \in DOMAIN c.data : c.data[t].command # k
  BY DEF IInv, Owners
<1> HIDE DEF k
<1>2. p.open[k] = "Control"
  BY <1>1 DEF Run, Log, Opened
<1>3. Justified(p, k, "Ok")
  BY <1>2 DEF Justified, Fair
<1>4. ASSUME c.active.armed PROVE Justified(p, k, "TimeoutT6")
  <2>1. k \notin UnresolvedCommands(c)
    BY <1>4 DEF Run, Traced, k
  <2>2. k \notin p.bound
    BY <1>1, <2>1 DEF Run, Bounded
  <2> QED
    BY <2>2 DEF Justified, Fair
<1>5. ~Claimed(d, k)
  BY <1>1 DEF Claimed
<1> QED
  BY <1>1, <1>3, <1>4, <1>5 DEF k

\* receive_deselect_response continues a run.
LEMMA RunReceivesDeselectResponse ==
  ASSUME NEW p, NEW s, NEW c, NEW m, IInv(c), Run(p, s, c), p.nextWrite \in Nat,
         ~c.closing, c.state = s
  PROVE  Run(p, s, ReceiveDeselectResponse(c, m))
<1> DEFINE done == [c EXCEPT !.active = None]
<1>0. ~p.closing /\ ~c.closeIssued
  BY DEF Run, Log, Quieted, IInv, Closed
<1>1. IInv(done) /\ done.active = None /\ \A f \in Fields \ {"active"} : done[f] = c[f]
  BY DropActive
<1>2. CASE ~Answers(c, "Deselect", m.sid, m.sys)
  BY <1>0, <1>2, RunResponds DEF ReceiveDeselectResponse, SendTransactionNotOpenReject, RejectReq,
                                  MessageTypes
<1>3. CASE Answers(c, "Deselect", m.sid, m.sys)
  <2>1. c.active # None /\ RepliesBlocked(c) /\ DOMAIN c.data = {}
    BY <1>3 DEF Answers, RepliesBlocked, IInv, Selection
  <2> HIDE DEF done
  <2>2. Run(p, s, done) /\ Shape(done) /\ done.data = c.data /\ done.open = c.open
        /\ done.state = c.state
    BY <1>1, RunSame DEF IInv, Weak, Fields
  <2>3. c.active.command # None =>
          /\ c.active.command \in DOMAIN done.open
          /\ done.open[c.active.command] = "Control"
          /\ ~Claimed(done, c.active.command)
          /\ Justified(p, c.active.command, "Ok")
    BY <1>0, <1>1, <2>1, <2>2, TransactionCommand
  <2>4. Run(p, s, CompleteControlTransaction(done, c.active, "DeselectRejected"))
    BY <2>2, <2>3, RunCompletesTransaction DEF Plain
  <2> DEFINE r == CommitDeselection(done)
  <2>5. IInv(r) /\ \A f \in Fields \ {"state", "t7", "replies", "out"} : r[f] = done[f]
    BY <1>1, <2>1, <2>2, CommitDeselectionIInv
  <2>6. Run(p, s, r)
    BY <1>0, <2>2, RunCommits
  <2> HIDE DEF r
  <2>7. Shape(r) /\ r.active = done.active /\ r.data = done.data /\ r.open = done.open
    BY <2>5 DEF IInv, Weak, Fields
  <2>8. Run(p, s, CompleteControlTransaction(r, c.active, "Ok"))
    <3>1. c.active.command # None =>
            /\ c.active.command \in DOMAIN r.open
            /\ r.open[c.active.command] = "Control"
            /\ ~Claimed(r, c.active.command)
      BY <2>3, <2>7 DEF Claimed
    <3> QED
      BY <2>3, <2>6, <2>7, <3>1, RunCompletesTransaction
  <2> QED
    BY <1>3, <2>4, <2>8 DEF ReceiveDeselectResponse, r, done
<1> QED BY <1>2, <1>3

-----------------------------------------------------------------------------
(* Timers (timing.rs) and retired requests.                                *)

\* A command nothing owns is claimed by no transaction.
LEMMA UnownedUnclaimed ==
  ASSUME NEW c, NEW k, ~Owned(c, k) PROVE ~Claimed(c, k)
BY DEF Owned, Claimed

\* The requests of S leave data_transactions, and tomb replaces the tombstones.
Retired(c, S, tomb) == [c EXCEPT !.data = Drop(@, S), !.tomb = tomb]

\* Retiring requests changes no open command.
LEMMA RetiredOpen ==
  ASSUME NEW c, NEW S, NEW tomb, DOMAIN c = Fields PROVE Retired(c, S, tomb).open = c.open
BY DEF Retired, Fields

\* Taking requests out of data_transactions continues a run.
LEMMA RunDropsData ==
  ASSUME NEW p, NEW s, NEW c, NEW S, NEW tomb, IInv(c), Run(p, s, c)
  PROVE  LET r == Retired(c, S, tomb)
         IN  /\ IInv(r) /\ Run(p, s, r)
             /\ \A t \in S \cap DOMAIN c.data : ~Claimed(r, c.data[t].command)
<1> DEFINE r == Retired(c, S, tomb)
<1>1. IInv(r) /\ \A t \in S \cap DOMAIN c.data : ~Owned(r, c.data[t].command)
  BY DropData DEF Retired
<1>2. /\ \A f \in Fields \ {"data", "tomb"} : r[f] = c[f]
      /\ \A t \in DOMAIN r.data : t \in DOMAIN c.data /\ r.data[t] = c.data[t]
  BY DEF IInv, Weak, Shape, Fields, Drop, Retired
<1> HIDE DEF r
<1>3. Run(p, s, r)
  BY <1>2, RunSame DEF Fields
<1> QED
  BY <1>1, <1>3, UnownedUnclaimed DEF r

\* The command of a live request, once its contract is a tombstone, may be completed.
LEMMA RequestCommand ==
  ASSUME NEW p, NEW s, NEW c, NEW t \in DOMAIN c.data, IInv(c), Run(p, s, c)
  PROVE  /\ c.data[t].command \in DOMAIN c.open
         /\ c.open[c.data[t].command] = "Request"
         /\ c.data[t].armed => Justified(p, c.data[t].command, "RequestTimedOut")
<1> DEFINE k == c.data[t].command
<1>1. k \in DOMAIN c.open /\ c.open[k] = "Request"
  BY DEF IInv, Owners
<1>2. ASSUME c.data[t].armed PROVE Justified(p, k, "RequestTimedOut")
  <2>1. k \notin UnresolvedCommands(c)
    BY <1>2 DEF Run, Traced
  <2>2. k \notin p.bound
    BY <1>1, <2>1 DEF Run, Bounded
  <2> QED
    BY <2>2 DEF Justified, Fair
<1> QED
  BY <1>1, <1>2

\* The T3 loop continues a run: only armed requests time out.
LEMMA RunRetiresRequests ==
  ASSUME NEW p, NEW s, NEW c, NEW systems, IInv(c), Run(p, s, c),
         systems \subseteq DOMAIN c.data, \A t \in systems : c.data[t].armed
  PROVE  Run(p, s, RetireRequests(c, systems))
<1> DEFINE tomb == InsertTombstones(c.tomb, Contracts(c, systems), TombstoneCapacity)
           r == Retired(c, systems, tomb)
           ks == {c.data[t].command : t \in systems}
<1>1. RetireRequests(c, systems) = EmitCompletion(r, ks, "RequestTimedOut")
  BY DEF RetireRequests, Retired
<1> HIDE DEF tomb
<1>a. DOMAIN c = Fields
  BY DEF IInv, Weak, Shape
<1>b. r.open = c.open
  BY <1>a, RetiredOpen
<1>2. /\ IInv(r) /\ Run(p, s, r)
      /\ \A t \in systems \cap DOMAIN c.data : ~Claimed(r, c.data[t].command)
  BY RunDropsData
<1> HIDE DEF r
<1>3. \A t \in systems : /\ c.data[t].command \in DOMAIN r.open
                         /\ Justified(p, c.data[t].command, "RequestTimedOut")
  BY <1>b, RequestCommand
<1>4. \A k \in ks : /\ k \in DOMAIN r.open /\ ~Claimed(r, k)
                    /\ Justified(p, k, "RequestTimedOut")
  BY <1>2, <1>3
<1> HIDE DEF ks
<1>5. Shape(r) /\ ks \subseteq DOMAIN r.open
  BY <1>2, <1>4 DEF IInv, Weak
<1> QED
  BY <1>1, <1>2, <1>4, <1>5, RunCompletes

\* Retiring one answered request continues a run.
LEMMA RunRetiresRequest ==
  ASSUME NEW p, NEW s, NEW c, NEW sys \in DOMAIN c.data, IInv(c), Run(p, s, c)
  PROVE  LET r == RetireRequest(c, sys)
         IN  /\ Shape(r) /\ Run(p, s, r)
             /\ c.data[sys].command \in DOMAIN r.open
             /\ r.open[c.data[sys].command] = "Request"
             /\ ~Claimed(r, c.data[sys].command)
<1> DEFINE tomb == InsertTombstone(c.tomb, c.data[sys].contract, TombstoneCapacity)
           r == Retired(c, {sys}, tomb)
<1>1. RetireRequest(c, sys) = r
  BY DEF RetireRequest, Retired
<1> HIDE DEF tomb
<1>a. DOMAIN c = Fields
  BY DEF IInv, Weak, Shape
<1>b. r.open = c.open
  BY <1>a, RetiredOpen
<1>2. /\ IInv(r) /\ Run(p, s, r)
      /\ \A t \in {sys} \cap DOMAIN c.data : ~Claimed(r, c.data[t].command)
  BY RunDropsData
<1> HIDE DEF r
<1>3. c.data[sys].command \in DOMAIN c.open /\ c.open[c.data[sys].command] = "Request"
  BY RequestCommand
<1> QED
  BY <1>1, <1>b, <1>2, <1>3 DEF IInv, Weak

\* The idle Linktest probe continues a run.
LEMMA RunProbes ==
  ASSUME NEW p, NEW s, NEW c, NEW due, IInv(c), Run(p, s, c), p.nextWrite \in Nat
  PROVE  Run(p, s, StartIdleProbe(c, due))
<1> DEFINE d == [c EXCEPT !.idle = FALSE]
<1>1. /\ DOMAIN d = Fields /\ d.idle \in BOOLEAN
      /\ \A f \in Fields \ {"idle"} : d[f] = c[f]
  BY DEF IInv, Weak, Shape, Fields
<1>2. \/ StartIdleProbe(c, due) = c
      \/ ~c.closing /\ StartIdleProbe(c, due) = StartTransaction(d, "Linktest", None)
  BY DEF StartIdleProbe
<1> HIDE DEF d
<1>3. Weak(d)
  BY <1>1 DEF IInv, Weak, Shape, Linked, Deferral, UnresolvedCommands, Fields
<1>4. Owners(d) /\ Closed(d) /\ Timed(d) /\ Selection(d)
  BY <1>1 DEF IInv, Owners, Closed, Timed, Selection, RepliesBlocked, Fields
<1>5. IInv(d) /\ Run(p, s, d)
  BY <1>1, <1>3, <1>4, RunSame DEF IInv, Fields
<1>6. ~c.closing => ~p.closing /\ ~d.closeIssued
  BY <1>1 DEF Run, Log, Quieted, IInv, Closed, Fields
<1>7. ~c.closing => Run(p, s, StartTransaction(d, "Linktest", None))
  BY <1>5, <1>6, RunStartsTransaction DEF TransactionKinds
<1> QED
  BY <1>2, <1>7

\* expire_deadlines continues a run: T6 and T3 are blamed only for armed timers.
LEMMA RunExpires ==
  ASSUME NEW p, NEW s, NEW c, NEW due, IInv(c), Run(p, s, c), p.nextWrite \in Nat
  PROVE  Run(p, s, ExpireDeadlines(c, due))
<1>1. CASE c.closing \/ c.state = "None"
  BY <1>1 DEF ExpireDeadlines
<1>2. CASE ~(c.closing \/ c.state = "None")
  <2>0. ~p.closing
    BY <1>2 DEF Run, Log, Quieted
  <2>1. Run(p, s, CloseAll(c, "CommunicationsTimeoutT7"))
    BY RunClosesAll DEF IInv, Excusable, CoreReasons
  <2>2. ASSUME c.active # None, c.active.armed
        PROVE  Run(p, s, CloseAll(CompleteControlTransaction([c EXCEPT !.active = None],
                                                             c.active, "TimeoutT6"),
                                  "CommunicationsTimeoutT6"))
    <3> DEFINE done == [c EXCEPT !.active = None]
               x == CompleteControlTransaction(done, c.active, "TimeoutT6")
    <3>1. IInv(done) /\ done.active = None /\ \A f \in Fields \ {"active"} : done[f] = c[f]
      BY DropActive
    <3> HIDE DEF done
    <3>2. Run(p, s, done) /\ Shape(done) /\ done.data = c.data /\ done.open = c.open
      BY <3>1, RunSame DEF IInv, Weak, Fields
    <3>3. c.active.command # None =>
            /\ c.active.command \in DOMAIN done.open
            /\ done.open[c.active.command] = "Control"
            /\ ~Claimed(done, c.active.command)
            /\ Justified(p, c.active.command, "TimeoutT6")
      BY <2>0, <2>2, <3>1, <3>2, TransactionCommand
    <3>4. Run(p, s, x)
      BY <3>2, <3>3, RunCompletesTransaction
    <3>5. IInv(x)
      BY <2>2, <3>1, ActiveUnowned, CompleteControlTransactionIInv DEF Fields
    <3> HIDE DEF x
    <3>6. Run(p, s, CloseAll(x, "CommunicationsTimeoutT6"))
      BY <3>4, <3>5, RunClosesAll DEF IInv, Excusable, CoreReasons
    <3> QED
      BY <3>6 DEF x, done
  <2> DEFINE q == RetireRequests(c, ExpiredRequests(c, due))
             g == ProgressDeselect(q, due.drain)
  <2>3. IInv(q) /\ Run(p, s, q)
    BY RetireRequestsIInv, RunRetiresRequests DEF ExpiredRequests
  <2> HIDE DEF q
  <2>4. IInv(g) /\ Run(p, s, g)
    BY <2>3, ProgressDeselectIInv, RunProgresses
  <2> HIDE DEF g
  <2>5. Run(p, s, StartIdleProbe(g, due.idle))
    BY <2>4, RunProbes
  <2> QED
    BY <1>2, <2>1, <2>2, <2>5 DEF ExpireDeadlines, q, g
<1> QED
  BY <1>1, <1>2

-----------------------------------------------------------------------------
(* Commands (session.rs start_select .. start_data).                       *)

\* start_select and start_linktest continue a run.
LEMMA RunStartsSelect ==
  ASSUME NEW p, NEW s, NEW c, NEW k, IInv(c), Run(p, s, c), p.nextWrite \in Nat,
         ~c.closing, Free(c, k, "Control")
  PROVE  Run(p, s, StartSelect(c, k)) /\ Run(p, s, StartLinktest(c, k))
<1>0. k \in DOMAIN c.open /\ ~Claimed(c, k) /\ Shape(c)
  BY DEF Free, Owned, Claimed, IInv, Weak
<1>1. ~p.closing /\ ~c.closeIssued
  BY DEF Run, Log, Quieted, IInv, Closed
<1>2. Run(p, s, CompleteError(c, k, "AlreadySelected")) /\ Run(p, s, CompleteError(c, k, "ControlBusy"))
  BY <1>0, RunCompletesError DEF Plain
<1>3. Run(p, s, StartTransaction(c, "Select", k)) /\ Run(p, s, StartTransaction(c, "Linktest", k))
  BY <1>0, <1>1, RunStartsTransaction DEF TransactionKinds
<1> QED
  BY <1>2, <1>3 DEF StartSelect, StartLinktest

\* start_data continues a run; a refusal for lack of request capacity needs told.
LEMMA RunStartsData ==
  ASSUME NEW p, NEW s, NEW c, NEW k, NEW primary, NEW w \in BOOLEAN, IInv(c), Run(p, s, c),
         p.nextWrite \in Nat, ~c.closing, Free(c, k, IF w THEN "Request" ELSE "Send"),
         <<k, "Backpressure">> \in p.told, p.permit, DOMAIN c.out = {}
  PROVE  Run(p, s, StartData(c, k, primary, w))
<1> DEFINE header == DataHeader(DataSession, primary.stream, primary.function, w, c.nextSys)
           contract == ForRequest(DataSession, c.nextSys, primary.stream, primary.function)
           request == [command |-> k, write |-> c.nextWrite, armed |-> FALSE,
                       contract |-> contract]
           x == PendingWrite(IF w THEN "DataRequest" ELSE "DataSend", k, DataSession, c.nextSys)
           q == Put(c.pending, c.nextWrite, x)
           data == IF w THEN Put(c.data, c.nextSys, request) ELSE c.data
           d == [c EXCEPT !.nextSys = @ + 1, !.nextWrite = @ + 1, !.data = data, !.pending = q]
           m == DataMsg(header, primary.body)
<1>0. k \in DOMAIN c.open /\ ~Claimed(c, k) /\ Shape(c)
  BY DEF Free, Owned, Claimed, IInv, Weak
<1>1. ~p.closing /\ ~c.closeIssued
  BY DEF Run, Log, Quieted, IInv, Closed
<1>2. \A e \in {"Draining", "NotSelected", "InvalidPrimaryFunction", "Backpressure"} :
        Run(p, s, CompleteError(c, k, e))
  BY <1>0, RunCompletesError DEF Plain, Justified
<1>3. ASSUME IdentifiersExhausted(c) PROVE Run(p, s, RefuseIdentifiers(c))
  <2>1. CASE c.nextWrite = WriteSpace
    BY <2>1, RunFails DEF RefuseIdentifiers, IInv, Exhausted
  <2>2. CASE c.nextWrite # WriteSpace
    BY <2>2, RunClosesAll DEF RefuseIdentifiers, IInv, Excusable, CoreReasons
  <2> QED
    BY <2>1, <2>2
<1>4. ASSUME ~IdentifiersExhausted(c)
      PROVE  Run(p, s, Emit(d, SendFrame(c.nextWrite, m)))
  <2>0. /\ c.nextWrite \in Nat /\ c.nextWrite # WriteSpace
        /\ \A v \in DOMAIN c.pending : v # c.nextWrite
    BY <1>4, FreshWrite DEF IInv, Weak, IdentifiersExhausted
  <2>a. \A v \in DOMAIN c.pending : v < c.nextWrite
    BY <1>4, FreshWrite DEF IInv, IdentifiersExhausted
  <2>1. /\ DOMAIN q = DOMAIN c.pending \cup {c.nextWrite}
        /\ q[c.nextWrite] = x
        /\ \A v \in DOMAIN c.pending : q[v] = c.pending[v]
    BY <2>0 DEF Put
  <2>2. x.command = k
    BY DEF PendingWrite
  <2> HIDE DEF contract
  <2>3. ~request.armed /\ request.write = c.nextWrite /\ request.command = k
    OBVIOUS
  <2>4. \A t \in DOMAIN data : (t \in DOMAIN c.data /\ data[t] = c.data[t]) \/ data[t] = request
    BY DEF Put
  <2> HIDE DEF x, q, request, data
  <2>5. /\ DOMAIN d = Fields
        /\ \A f \in Fields \ {"nextSys", "nextWrite", "data", "pending"} : d[f] = c[f]
        /\ d.nextWrite = c.nextWrite + 1 /\ d.data = data /\ d.pending = q
    BY <1>0 DEF Shape, Fields
  <2> HIDE DEF d
  <2>6. /\ d.open = c.open /\ d.deferred = c.deferred /\ d.active = c.active
        /\ d.out = c.out /\ d.state = c.state
        /\ d.nextReply = c.nextReply /\ d.replies = c.replies
        /\ d.closing = c.closing /\ d.closeIssued = c.closeIssued
    BY <2>5 DEF Fields
  <2>7. \A t \in DOMAIN d.data :
          \/ t \in DOMAIN c.data /\ d.data[t] = c.data[t]
          \/ ~d.data[t].armed /\ d.data[t].write = c.nextWrite /\ d.data[t].command = k
    BY <2>3, <2>4, <2>5
  <2>8. Traced(d)
    BY <1>0, <2>0, <2>1, <2>2, <2>5, <2>6, <2>7, TracedWrites DEF IInv, Run
  <2>9. p.nextWrite <= c.nextWrite
    BY DEF Run, Log, Written
  <2>10. c.nextWrite + 1 \in Nat /\ c.nextWrite <= c.nextWrite + 1
    BY <2>0
  <2>11. m.type \in MessageTypes \ {"Select.rsp", "Deselect.rsp"}
    BY DEF DataMsg, MessageTypes
  <2> HIDE DEF m
  <2> QED
    BY <1>1, <2>0, <2>1, <2>5, <2>6, <2>8, <2>9, <2>10, <2>11, <2>a, RunWrites
<1>5. \/ \E e \in {"Draining", "NotSelected", "InvalidPrimaryFunction", "Backpressure"} :
           StartData(c, k, primary, w) = CompleteError(c, k, e)
      \/ IdentifiersExhausted(c) /\ StartData(c, k, primary, w) = RefuseIdentifiers(c)
      \/ /\ ~IdentifiersExhausted(c)
         /\ StartData(c, k, primary, w) = Emit(d, SendFrame(c.nextWrite, m))
  BY DEF StartData, AllocateRequestIdentifiers, IInv, Weak, Shape, Fields
<1> HIDE DEF d, m
<1> QED
  BY <1>2, <1>3, <1>4, <1>5

\* complete_data_for_deselection continues a run in which no transaction is live.
LEMMA RunCompletesData ==
  ASSUME NEW p, NEW s, NEW c, Shape(c), Run(p, s, c), c.active = None
  PROVE  Run(p, s, CompleteDataForDeselection(c))
<1> DEFINE d == [c EXCEPT !.data = EmptyFunction]
           ks == {k \in DOMAIN c.open : c.open[k] \in {"Send", "Request"}}
<1>1. DOMAIN d = Fields /\ DOMAIN d.data = {} /\ \A f \in Fields \ {"data"} : d[f] = c[f]
  BY DEF Shape, Fields, EmptyFunction
<1>2. CompleteDataForDeselection(c) = CompleteOrDefer(d, ks, "SessionDeselected")
  BY DEF CompleteDataForDeselection
<1> HIDE DEF d
<1>3. Shape(d)
  BY <1>1 DEF Shape, Fields
<1>4. Run(p, s, d)
  BY <1>1, RunSame DEF Fields
<1>5. \A k \in ks : k \in DOMAIN d.open /\ ~Claimed(d, k) /\ d.open[k] \in {"Send", "Request"}
  BY <1>1 DEF Claimed, Fields
<1> HIDE DEF ks
<1> QED
  BY <1>2, <1>3, <1>4, <1>5, RunCompletesOrDefers

\* start_separate continues a run: it ends every transaction and announces the new
\* state behind the Separate.req.
LEMMA RunStartsSeparate ==
  ASSUME NEW p, NEW s, NEW c, NEW k, NEW reason, IInv(c), Run(p, s, c), ~c.closing,
         p.nextWrite \in Nat, reason \in CoreReasons \cup {p.cause},
         k = None \/ Free(c, k, "Control")
  PROVE  Run(p, s, StartSeparate(c, k, reason))
<1>0. ~p.closing /\ ~c.closeIssued
  BY DEF Run, Log, Quieted, IInv, Closed
<1>1. CASE c.state # "Selected"
  <2>1. k # None => k \in DOMAIN c.open /\ ~Claimed(c, k) /\ Shape(c)
    BY DEF Free, Owned, Claimed, IInv, Weak
  <2>2. k # None => Run(p, s, CompleteError(c, k, "NotSelected"))
    BY <2>1, RunCompletesError DEF Plain
  <2> QED
    BY <1>1, <2>2 DEF StartSeparate
<1>2. CASE c.state = "Selected" /\ IdentifiersExhausted(c)
  <2>1. CASE c.nextWrite = WriteSpace
    BY <1>2, <2>1, RunFails DEF StartSeparate, RefuseIdentifiers, IInv, Exhausted
  <2>2. CASE c.nextWrite # WriteSpace
    BY <1>2, <2>2, RunClosesAll DEF StartSeparate, RefuseIdentifiers, IInv, Excusable, CoreReasons
  <2> QED
    BY <2>1, <2>2
<1>3. CASE c.state = "Selected" /\ ~IdentifiersExhausted(c)
  <2> DEFINE left == [AllocateRequestIdentifiers(c) EXCEPT !.state = "NotSelected",
                                                           !.closing = TRUE]
             nodrain == IF left.drain = None THEN left
                        ELSE CompleteError([left EXCEPT !.drain = None], left.drain,
                                           "TransactionAborted")
             nocontrol == IF nodrain.active = None THEN nodrain
                          ELSE CompleteControlTransaction([nodrain EXCEPT !.active = None],
                                                          nodrain.active, "TransactionAborted")
             nodata == CompleteDataForDeselection(nocontrol)
             x == PendingWrite("Separate", k, None, None)
             q == Put(nodata.pending, c.nextWrite, x)
             written == [nodata EXCEPT !.pending = q]
             m == SeparateReq(ControlSession, c.nextSys)
             sent == Emit(written, SendFrame(c.nextWrite, m))
  <2> DEFINE Keeps(d) == /\ Weak(d) /\ d.closing /\ ~d.closeIssued
                         /\ d.state = "NotSelected"
                         /\ d.nextWrite = c.nextWrite + 1
                         /\ DOMAIN d.pending = DOMAIN c.pending
                         /\ Run(p, "NotSelected", d)
  <2>0. StartSeparate(c, k, reason)
          = RequestClose(Emit(sent, StateChanged("NotSelected")), reason, c.nextWrite)
    BY <1>3 DEF StartSeparate
  <2>1. /\ Shape(c) /\ c.nextWrite \in Nat /\ c.nextWrite # WriteSpace
        /\ c.nextWrite + 1 \in 0..WriteSpace /\ c.nextWrite + 1 \in Nat
        /\ \A v \in DOMAIN c.pending : v # c.nextWrite /\ v < c.nextWrite
        /\ c.nextSys + 1 \in 0..SystemBytesSpace
        /\ c.nextWrite <= c.nextWrite + 1
    BY <1>3, FreshWrite, FreshSystemBytes DEF IInv, Weak, IdentifiersExhausted
  <2>2. /\ Keeps(left)
        /\ \A f \in Fields \ {"nextWrite", "nextSys", "state", "closing"} : left[f] = c[f]
    <3>1. /\ DOMAIN left = Fields
          /\ \A f \in Fields \ {"nextWrite", "nextSys", "state", "closing"} : left[f] = c[f]
          /\ left.nextWrite = c.nextWrite + 1 /\ left.nextSys = c.nextSys + 1
          /\ left.state = "NotSelected" /\ left.closing /\ left.closing \in BOOLEAN
      BY <2>1 DEF Shape, Fields, AllocateRequestIdentifiers
    <3> HIDE DEF left
    <3>2. Shape(left)
      BY <2>1, <3>1 DEF Shape, Fields
    <3>c. \A v \in DOMAIN c.pending : v < c.nextWrite + 1
      BY <1>3, FreshWrite DEF IInv, IdentifiersExhausted
    <3>3. Linked(left) /\ Deferral(left)
      BY <2>1, <3>1, <3>c DEF IInv, Weak, Linked, Deferral, UnresolvedCommands, Fields
    <3>4. /\ left.out = c.out /\ left.open = c.open /\ left.pending = c.pending
          /\ left.deferred = c.deferred /\ left.nextReply = c.nextReply
          /\ left.active = c.active /\ left.data = c.data
          /\ left.replies = c.replies /\ left.closeIssued = c.closeIssued
      BY <3>1 DEF Fields
    <3>5. Run(p, left.state, left)
      BY <1>0, <2>1, <3>1, <3>4, RunMoves
    <3> QED
      BY <1>0, <3>1, <3>2, <3>3, <3>4, <3>5 DEF Weak
  <2> HIDE DEF left
  <2>3. /\ Keeps(nodrain)
        /\ nodrain.active = c.active
        /\ c.active # None => nodrain.open = c.open /\ nodrain.data = c.data
    <3>1. CASE c.drain = None
      BY <2>2, <3>1 DEF Fields
    <3>2. CASE c.drain # None
      <4> DEFINE e == [left EXCEPT !.drain = None]
      <4>1. DOMAIN e = Fields /\ e.drain = None /\ \A f \in Fields \ {"drain"} : e[f] = left[f]
        BY <2>2 DEF Weak, Shape, Fields
      <4> HIDE DEF e
      <4>2. Shape(e)
        <5>1. Shape(left) BY <2>2 DEF Weak
        <5> QED BY <4>1, <5>1 DEF Shape, Fields
      <4>3. Linked(e) /\ Deferral(e)
        BY <2>2, <4>1 DEF Weak, Linked, Deferral, UnresolvedCommands, Fields
      <4>4. /\ c.drain \in DOMAIN e.open /\ e.open[c.drain] = "Control"
            /\ c.active = None /\ ~Claimed(e, c.drain)
        BY <2>2, <3>2, <4>1 DEF IInv, Owners, Claimed, Fields
      <4>5. e.open[c.drain] \in CommandKinds
        BY <4>4 DEF CommandKinds
      <4>6. Weak(e) BY <4>2, <4>3 DEF Weak
      <4>7. nodrain = CompleteAs(e, c.drain, CommandKinds, "TransactionAborted")
        BY <2>2, <3>2 DEF CompleteError, Fields, e
      <4>8. Run(p, "NotSelected", e)
        BY <2>2, <4>1, RunSame DEF Fields
      <4> DEFINE r == CompleteAs(e, c.drain, CommandKinds, "TransactionAborted")
      <4>9. /\ Weak(r)
            /\ \A f \in Fields \ {"open", "deferred", "pending", "out"} : r[f] = e[f]
            /\ DOMAIN r.pending = DOMAIN e.pending
        BY <4>4, <4>5, <4>6, EmitOneEffect
      <4>10. Run(p, "NotSelected", r)
        BY <4>2, <4>4, <4>5, <4>8, RunCompletesAs DEF Plain
      <4> HIDE DEF r
      <4>11. Keeps(r) /\ r.active = None
        BY <2>2, <4>1, <4>4, <4>9, <4>10 DEF Fields
      <4> QED
        BY <4>4, <4>7, <4>11 DEF r
    <3> QED BY <3>1, <3>2
  <2> HIDE DEF nodrain
  <2>4. Keeps(nocontrol) /\ nocontrol.active = None
    <3>1. CASE c.active = None
      BY <2>3, <3>1
    <3>2. CASE c.active # None
      <4> DEFINE e == [nodrain EXCEPT !.active = None]
      <4>1. DOMAIN e = Fields /\ e.active = None /\ \A f \in Fields \ {"active"} : e[f] = nodrain[f]
        BY <2>3 DEF Weak, Shape, Fields
      <4> HIDE DEF e
      <4>2. Shape(e)
        <5>1. Shape(nodrain) BY <2>3 DEF Weak
        <5> QED BY <4>1, <5>1 DEF Shape, Fields
      <4>3. Linked(e) /\ Deferral(e)
        BY <2>3, <4>1 DEF Weak, Linked, Deferral, UnresolvedCommands, Fields
      <4>4. Weak(e) BY <4>2, <4>3 DEF Weak
      <4>5. nocontrol = CompleteControlTransaction(e, c.active, "TransactionAborted")
        BY <2>3, <3>2 DEF e
      <4>6. Run(p, "NotSelected", e)
        BY <2>3, <4>1, RunSame DEF Fields
      <4>7. Keeps(e)
        BY <2>3, <4>1, <4>4, <4>6 DEF Fields
      <4>8. CASE c.active.command = None
        BY <4>1, <4>5, <4>7, <4>8 DEF CompleteControlTransaction
      <4>9. CASE c.active.command # None
        <5> DEFINE j == c.active.command
                   r == CompleteAs(e, j, {"Control"}, "TransactionAborted")
        <5>1. nocontrol = r
          BY <4>5, <4>9 DEF CompleteControlTransaction, CompleteControl
        <5>2. j \in DOMAIN e.open /\ e.open[j] \in {"Control"} /\ ~Claimed(e, j)
          BY <2>3, <3>2, <4>1, <4>9 DEF IInv, Owners, Claimed, Fields
        <5>3. /\ Weak(r)
              /\ \A f \in Fields \ {"open", "deferred", "pending", "out"} : r[f] = e[f]
              /\ DOMAIN r.pending = DOMAIN e.pending
          BY <4>4, <5>2, EmitOneEffect
        <5>4. Run(p, "NotSelected", r)
          BY <4>2, <4>6, <5>2, RunCompletesAs DEF Plain
        <5> HIDE DEF r, j
        <5> QED
          BY <4>1, <4>7, <5>1, <5>3, <5>4 DEF Fields
      <4> QED BY <4>8, <4>9
    <3> QED BY <3>1, <3>2
  <2> HIDE DEF nocontrol
  <2>5. Keeps(nodata) /\ nodata.active = None /\ DOMAIN nodata.data = {}
    <3>1. /\ Weak(nodata)
          /\ DOMAIN nodata.data = {}
          /\ \A f \in Fields \ {"data", "open", "deferred", "pending", "out"} :
               nodata[f] = nocontrol[f]
          /\ DOMAIN nodata.pending = DOMAIN nocontrol.pending
      BY <2>4, CompleteDataForDeselectionEffect
    <3>2. Run(p, "NotSelected", nodata)
      BY <2>4, RunCompletesData DEF Weak
    <3> HIDE DEF nodata
    <3> QED
      BY <2>4, <3>1, <3>2 DEF Fields
  <2> HIDE DEF nodata
  <2>6. /\ DOMAIN q = DOMAIN nodata.pending \cup {c.nextWrite}
        /\ \A v \in DOMAIN nodata.pending : q[v] = nodata.pending[v]
        /\ q[c.nextWrite] = x
    BY <2>1, <2>5 DEF Put
  <2>a. x.kind = "Separate"
    BY DEF PendingWrite
  <2> HIDE DEF q, x
  <2>7. /\ DOMAIN written = Fields
        /\ \A f \in Fields \ {"pending"} : written[f] = nodata[f]
        /\ written.pending = q
    BY <2>5 DEF Weak, Shape, Fields
  <2> HIDE DEF written
  <2>8. Traced(written)
    BY <2>5, <2>7 DEF Run, Traced, Fields
  <2>9. p.nextWrite <= c.nextWrite
    BY DEF Run, Log, Written
  <2>10. m.type \in MessageTypes \ {"Select.rsp", "Deselect.rsp", "Data"}
    BY DEF SeparateReq, MessageTypes
  <2> HIDE DEF m
  <2>11. /\ written.out = nodata.out /\ written.open = nodata.open
         /\ written.state = "NotSelected" /\ written.nextReply = nodata.nextReply
         /\ written.nextWrite = nodata.nextWrite /\ written.closing = nodata.closing
         /\ written.closeIssued = nodata.closeIssued /\ written.replies = nodata.replies
         /\ written.active = nodata.active
    BY <2>5, <2>7 DEF Fields
  <2>i. nodata.nextWrite \in Nat /\ nodata.nextWrite <= nodata.nextWrite
    BY <2>1, <2>5
  <2>12. Run(p, "NotSelected", sent)
    BY <1>0, <2>1, <2>5, <2>6, <2>7, <2>8, <2>9, <2>10, <2>11, <2>i, RunWrites
  <2>13. DOMAIN sent = Fields /\ sent.state = "NotSelected" /\ sent.pending = q
    BY <2>7, <2>11, EmitFields DEF Fields
  <2>b. IsBatch(written.out)
    BY <2>5, <2>11 DEF Run, Log
  <2>c. \E j \in DOMAIN sent.out : sent.out[j].act = "SendFrame" /\ sent.out[j].write = c.nextWrite
    BY <2>7, <2>b, EmitAppends DEF SendFrame
  <2> HIDE DEF sent
  <2> DEFINE a == StateChanged("NotSelected")
  <2>14. a.act = "SessionStateChanged" /\ a = StateChanged(sent.state)
    BY <2>13 DEF StateChanged
  <2> HIDE DEF a
  <2>15. Run(p, s, Emit(sent, a)) /\ DOMAIN Emit(sent, a) = Fields
    BY <1>0, <2>12, <2>13, <2>14, RunEmit, EmitFields DEF Fits
  <2>d. IsBatch(sent.out)
    BY <2>12 DEF Run, Log
  <2>e. \E j \in DOMAIN Emit(sent, a).out : /\ Emit(sent, a).out[j].act = "SendFrame"
                                           /\ Emit(sent, a).out[j].write = c.nextWrite
    BY <2>13, <2>c, <2>d, EmitAppends
  <2>f. Emit(sent, a).pending = q
    BY <2>13, EmitFields DEF Fields
  <2>g. \A w \in DOMAIN q : w <= c.nextWrite
    <3>1. DOMAIN nodata.pending \subseteq Nat
      BY <2>1, <2>5 DEF Shape, WriteIds
    <3> QED
      BY <2>1, <2>5, <2>6, <3>1
  <2>h. Run(p, s, RequestClose(Emit(sent, a), reason, c.nextWrite))
    BY <1>0, <2>15, <2>6, <2>a, <2>e, <2>f, <2>g, RunCloses DEF Excusable
  <2> QED
    BY <2>0, <2>h DEF a
<1> QED
  BY <1>1, <1>2, <1>3

-----------------------------------------------------------------------------
(* Peer messages (session.rs on_message, inbound.rs).                      *)

\* receive_select_request continues a run: the response precedes the state.
LEMMA RunReceivesSelectRequest ==
  ASSUME NEW p, NEW s, NEW c, NEW m, IInv(c), Run(p, s, c), p.nextWrite \in Nat,
         ~c.closing, c.state = s
  PROVE  Run(p, s, ReceiveSelectRequest(c, m))
<1> DEFINE answer == IF m.sid # ControlSession THEN "NOT_READY"
                     ELSE IF c.state = "Selected" THEN "ALREADY_ACTIVE" ELSE "SUCCESS"
           chosen == [c EXCEPT !.state = "Selected", !.t7 = FALSE]
           rsp == SelectRsp(m.sid, answer, m.sys)
           plain == SendResponse(c, rsp)
           sent == SendResponse(chosen, rsp)
<1>0. ~p.closing /\ ~c.closeIssued /\ rsp.type \in MessageTypes \ {"Data"}
  BY DEF Run, Log, Quieted, IInv, Closed, SelectRsp, MessageTypes
<1>1. ReceiveSelectRequest(c, m)
        = IF answer # "SUCCESS" THEN plain
          ELSE IF ~sent.closing THEN Emit(sent, StateChanged("Selected")) ELSE sent
  BY DEF ReceiveSelectRequest
<1> HIDE DEF answer, rsp
<1>2. Run(p, s, plain)
  BY <1>0, RunResponds
<1>3. IInv(chosen) /\ \A f \in Fields \ {"state", "t7"} : chosen[f] = c[f]
  BY SelectedIInv
<1>4. chosen.state = "Selected"
  BY DEF IInv, Weak, Shape, Fields
<1>a. c.nextWrite \in Nat /\ c.nextWrite <= c.nextWrite
  BY SpaceAssumption DEF IInv, Weak, Shape
<1> HIDE DEF chosen
<1>5. Run(p, "Selected", chosen) /\ ~chosen.closeIssued
  BY <1>0, <1>3, <1>4, <1>a, RunMoves DEF Fields
<1>6. /\ Run(p, "Selected", sent)
      /\ sent.closing => sent.nextWrite = WriteSpace
      /\ ~sent.closing => sent.state = "Selected"
      /\ DOMAIN sent = Fields
  <2>1. ~chosen.closing
    BY <1>3 DEF Fields
  <2>2. IInv(sent)
        /\ (~sent.closing => \A f \in Fields \ {"nextWrite", "pending", "out"} : sent[f] = chosen[f])
    BY <1>3, SendResponseEffect
  <2>3. Run(p, "Selected", sent) /\ (sent.closing /\ ~chosen.closing => sent.nextWrite = WriteSpace)
    BY <1>0, <1>3, <1>4, <1>5, RunResponds
  <2> HIDE DEF sent
  <2> QED
    BY <1>4, <2>1, <2>2, <2>3 DEF IInv, Weak, Shape, Fields
<1> HIDE DEF sent, plain
<1>7. ASSUME ~sent.closing PROVE Run(p, s, Emit(sent, StateChanged("Selected")))
  BY <1>0, <1>6, <1>7, RunEmit DEF StateChanged, Fits
<1>8. sent.closing => Run(p, s, sent)
  BY <1>0, <1>6, RunExcused
<1> QED
  BY <1>1, <1>2, <1>7, <1>8

\* receive_select_response continues a run.
LEMMA RunReceivesSelectResponse ==
  ASSUME NEW p, NEW s, NEW c, NEW m, IInv(c), Run(p, s, c), p.nextWrite \in Nat,
         ~c.closing, c.state = s
  PROVE  Run(p, s, ReceiveSelectResponse(c, m))
<1> DEFINE done == [c EXCEPT !.active = None]
           e == [done EXCEPT !.state = "Selected", !.t7 = FALSE]
           selected == Emit(e, StateChanged("Selected"))
<1>0. ~p.closing /\ ~c.closeIssued
  BY DEF Run, Log, Quieted, IInv, Closed
<1>1. CASE ~Answers(c, "Select", m.sid, m.sys)
  BY <1>0, <1>1, RunResponds DEF ReceiveSelectResponse, SendTransactionNotOpenReject, RejectReq,
                                  MessageTypes
<1>2. CASE Answers(c, "Select", m.sid, m.sys)
  <2>1. IInv(done) /\ done.active = None /\ \A f \in Fields \ {"active"} : done[f] = c[f]
    BY DropActive
  <2>2. c.active # None
    BY <1>2 DEF Answers
  <2>3. \/ ReceiveSelectResponse(c, m) = CompleteControlTransaction(done, c.active, "Ok")
        \/ ReceiveSelectResponse(c, m) = CompleteControlTransaction(selected, c.active, "Ok")
        \/ ReceiveSelectResponse(c, m) = CompleteControlTransaction(done, c.active, "SelectRejected")
    BY <1>2 DEF ReceiveSelectResponse
  <2>4. IInv(e) /\ \A f \in Fields \ {"state", "t7"} : e[f] = done[f]
    BY <2>1, SelectedIInv
  <2>5. e.state = "Selected"
    BY <2>1 DEF IInv, Weak, Shape, Fields
  <2> HIDE DEF done, e
  <2>6. Run(p, s, done) /\ Shape(done) /\ done.data = c.data /\ done.open = c.open
    BY <2>1, RunSame DEF IInv, Weak, Fields
  <2>7. c.active.command # None =>
          /\ c.active.command \in DOMAIN done.open
          /\ done.open[c.active.command] = "Control"
          /\ ~Claimed(done, c.active.command)
          /\ Justified(p, c.active.command, "Ok")
    BY <1>0, <2>1, <2>2, <2>6, TransactionCommand
  <2>a. done.nextWrite \in Nat /\ done.nextWrite <= done.nextWrite
    BY <2>6, SpaceAssumption DEF Shape
  <2>8. Run(p, "Selected", e)
    BY <1>0, <2>4, <2>5, <2>6, <2>a, RunMoves DEF Fields
  <2>9. /\ Run(p, s, selected) /\ Shape(selected)
        /\ \A f \in Fields \ {"out"} : selected[f] = e[f]
    BY <1>0, <2>4, <2>5, <2>8, RunEmit, EmitWeak DEF IInv, Weak, Shape, StateChanged, Fits
  <2> HIDE DEF selected
  <2>10. c.active.command # None =>
          /\ c.active.command \in DOMAIN selected.open
          /\ selected.open[c.active.command] = "Control"
          /\ ~Claimed(selected, c.active.command)
    BY <2>4, <2>7, <2>9 DEF Claimed, Fields
  <2>11. Run(p, s, CompleteControlTransaction(done, c.active, "SelectRejected"))
    BY <2>6, <2>7, RunCompletesTransaction DEF Plain
  <2>12. Run(p, s, CompleteControlTransaction(done, c.active, "Ok"))
    BY <2>6, <2>7, RunCompletesTransaction
  <2>13. Run(p, s, CompleteControlTransaction(selected, c.active, "Ok"))
    BY <2>7, <2>9, <2>10, RunCompletesTransaction
  <2> QED
    BY <2>3, <2>11, <2>12, <2>13
<1> QED
  BY <1>1, <1>2

\* receive_linktest_response continues a run.
LEMMA RunReceivesLinktestResponse ==
  ASSUME NEW p, NEW s, NEW c, NEW m, IInv(c), Run(p, s, c), p.nextWrite \in Nat,
         ~c.closing, c.state = s
  PROVE  Run(p, s, ReceiveLinktestResponse(c, m))
<1> DEFINE done == [c EXCEPT !.active = None]
<1>0. ~p.closing /\ ~c.closeIssued
  BY DEF Run, Log, Quieted, IInv, Closed
<1>1. CASE ~Answers(c, "Linktest", ControlSession, m.sys)
  BY <1>0, <1>1, RunResponds DEF ReceiveLinktestResponse, SendTransactionNotOpenReject, RejectReq,
                                  MessageTypes
<1>2. CASE Answers(c, "Linktest", ControlSession, m.sys)
  <2>1. IInv(done) /\ done.active = None /\ \A f \in Fields \ {"active"} : done[f] = c[f]
    BY DropActive
  <2>2. c.active # None
    BY <1>2 DEF Answers
  <2>3. ReceiveLinktestResponse(c, m) = CompleteControlTransaction(done, c.active, "Ok")
    BY <1>2 DEF ReceiveLinktestResponse
  <2> HIDE DEF done
  <2>6. Run(p, s, done) /\ Shape(done) /\ done.data = c.data /\ done.open = c.open
    BY <2>1, RunSame DEF IInv, Weak, Fields
  <2>7. c.active.command # None =>
          /\ c.active.command \in DOMAIN done.open
          /\ done.open[c.active.command] = "Control"
          /\ ~Claimed(done, c.active.command)
          /\ Justified(p, c.active.command, "Ok")
    BY <1>0, <2>1, <2>2, <2>6, TransactionCommand
  <2> QED
    BY <2>3, <2>6, <2>7, RunCompletesTransaction
<1> QED
  BY <1>1, <1>2

\* A notice continues a run.
LEMMA RunNotices ==
  ASSUME NEW p, NEW s, NEW c, NEW what, Shape(c), Run(p, s, c), ~p.closing
  PROVE  Run(p, s, Emit(c, Notice(what)))
<1> DEFINE a == Notice(what)
<1>1. a.act = "Notice"
  BY DEF Notice
<1> HIDE DEF a
<1>2. Run(p, s, Emit(c, a))
  BY <1>1, RunEmit DEF Shape, Fits
<1> QED
  BY <1>2 DEF a

\* receive_reject continues a run, whichever operation it names.
LEMMA RunReceivesReject ==
  ASSUME NEW p, NEW s, NEW c, NEW m, IInv(c), Run(p, s, c), ~c.closing
  PROVE  Run(p, s, ReceiveReject(c, m))
<1> DEFINE control  == c.active # None /\ RejectsControl(c, m)
           requests == RejectedRequests(c, m)
           sends    == RejectedSends(c, m)
           targets  == (IF control THEN 1 ELSE 0) + Cardinality(requests) + Cardinality(sends)
           request  == CHOOSE t \in requests : TRUE
           send     == CHOOSE w \in sends : TRUE
           done == [c EXCEPT !.active = None]
           byControl == CompleteControlTransaction(done, c.active, "PeerRejected")
           byRequest == CompleteError(RetireRequest(c, request), c.data[request].command,
                                      "PeerRejected")
           bySend == CompleteError(c, c.pending[send].command, "PeerRejected")
<1>0. ~p.closing /\ Shape(c)
  BY DEF Run, Log, Quieted, IInv, Weak
<1>1. \/ \E n : ReceiveReject(c, m) = Emit(c, Notice(n))
      \/ control /\ \E n : ReceiveReject(c, m) = Emit(byControl, Notice(n))
      \/ requests # {} /\ \E n : ReceiveReject(c, m) = Emit(byRequest, Notice(n))
      \/ targets # 0 /\ ~control /\ requests = {}
         /\ \E n : ReceiveReject(c, m) = Emit(bySend, Notice(n))
  <2> HIDE DEF control, requests, sends, targets, byControl, byRequest, bySend
  <2> QED
    BY DEF ReceiveReject, control, requests, sends, targets, byControl, byRequest, bySend
<1>2. ASSUME control PROVE Run(p, s, byControl) /\ Shape(byControl)
  <2>1. IInv(done) /\ done.active = None /\ \A f \in Fields \ {"active"} : done[f] = c[f]
    BY DropActive
  <2> HIDE DEF done
  <2>2. Run(p, s, done) /\ Shape(done) /\ done.data = c.data /\ done.open = c.open
    BY <2>1, RunSame DEF IInv, Weak, Fields
  <2>3. c.active.command # None =>
          /\ c.active.command \in DOMAIN done.open
          /\ done.open[c.active.command] = "Control"
          /\ ~Claimed(done, c.active.command)
    BY <1>0, <1>2, <2>1, <2>2, TransactionCommand
  <2>4. IInv(byControl)
    BY <1>2, <2>1, ActiveUnowned, CompleteControlTransactionIInv DEF Fields
  <2> QED
    BY <2>2, <2>3, <2>4, RunCompletesTransaction DEF Plain, IInv, Weak
<1>3. ASSUME requests # {} PROVE Run(p, s, byRequest) /\ Shape(byRequest)
  <2>1. request \in DOMAIN c.data
    BY <1>3 DEF RejectedRequests
  <2> HIDE DEF request
  <2> DEFINE r == RetireRequest(c, request)
             k == c.data[request].command
  <2>2. /\ Shape(r) /\ Run(p, s, r) /\ k \in DOMAIN r.open /\ ~Claimed(r, k)
    BY <2>1, RunRetiresRequest
  <2>3. IInv(byRequest)
    BY <2>1, RetireRequestIInv, CompleteAsIInv DEF CompleteError
  <2> HIDE DEF r, k
  <2>4. Run(p, s, CompleteError(r, k, "PeerRejected"))
    BY <2>2, RunCompletesError DEF Plain
  <2> QED
    BY <2>3, <2>4 DEF r, k, IInv, Weak
<1>4. ASSUME targets # 0, ~control, requests = {} PROVE Run(p, s, bySend) /\ Shape(bySend)
  <2>1. sends # {}
    BY <1>4, FS_EmptySet
  <2>2. /\ send \in DOMAIN c.pending /\ c.pending[send].kind = "DataSend"
        /\ c.pending[send].command # None
    BY <2>1 DEF RejectedSends
  <2> HIDE DEF send
  <2> DEFINE k == c.pending[send].command
  <2>3. k \in DOMAIN c.open /\ ~Owned(c, k)
    BY <2>2 DEF IInv, Weak, Linked, KindFor, Owners, Owned
  <2>4. IInv(bySend)
    BY <2>3, CompleteAsIInv DEF CompleteError
  <2> HIDE DEF k
  <2>5. Run(p, s, CompleteError(c, k, "PeerRejected"))
    BY <1>0, <2>3, UnownedUnclaimed, RunCompletesError DEF Plain
  <2> QED
    BY <2>4, <2>5 DEF k, IInv, Weak
<1> HIDE DEF control, requests, targets, byControl, byRequest, bySend
<1> QED
  BY <1>0, <1>1, <1>2, <1>3, <1>4, RunNotices

\* receive_separate continues a run and announces the state it enters.
LEMMA RunReceivesSeparate ==
  ASSUME NEW p, NEW s, NEW c, IInv(c), Run(p, s, c), p.nextWrite \in Nat, ~c.closing
  PROVE  Run(p, s, ReceiveSeparate(c))
<1>0. ~p.closing
  BY DEF Run, Log, Quieted
<1>1. CASE c.state # "Selected"
  BY <1>1 DEF ReceiveSeparate
<1>2. CASE c.state = "Selected"
  <2> DEFINE left == [c EXCEPT !.state = "NotSelected", !.active = None]
             nocontrol == IF c.active = None THEN left
                          ELSE CompleteControlTransaction(left, c.active, "TransactionAborted")
             nodata == CompleteDataForDeselection(nocontrol)
             a == StateChanged("NotSelected")
             told == Emit(nodata, a)
  <2> DEFINE Keeps(d) == /\ Weak(d) /\ d.state = "NotSelected" /\ d.active = None
                         /\ Run(p, "NotSelected", d)
  <2>1. ReceiveSeparate(c) = RequestClose(told, "SeparateReceived", Immediate)
    BY <1>2 DEF ReceiveSeparate
  <2>2. Keeps(left) /\ left.open = c.open /\ left.data = c.data
    <3>1. /\ DOMAIN left = Fields /\ left.state = "NotSelected" /\ left.active = None
          /\ \A f \in Fields \ {"state", "active"} : left[f] = c[f]
      BY DEF IInv, Weak, Shape, Fields
    <3> HIDE DEF left
    <3>2. Shape(left)
      BY <3>1 DEF IInv, Weak, Shape, Fields
    <3>3. Linked(left) /\ Deferral(left)
      BY <3>1 DEF IInv, Weak, Linked, Deferral, UnresolvedCommands, Fields
    <3>4. c.nextWrite \in Nat /\ c.nextWrite <= c.nextWrite
      BY SpaceAssumption DEF IInv, Weak, Shape
    <3>5. Run(p, "NotSelected", left)
      BY <1>0, <3>1, <3>4, RunMoves DEF Fields
    <3> QED BY <3>1, <3>2, <3>3, <3>5 DEF Weak, Fields
  <2> HIDE DEF left
  <2>3. Keeps(nocontrol)
    <3>1. CASE c.active = None \/ c.active.command = None
      BY <2>2, <3>1 DEF CompleteControlTransaction
    <3>2. CASE c.active # None /\ c.active.command # None
      <4> DEFINE j == c.active.command
                 r == CompleteAs(left, j, {"Control"}, "TransactionAborted")
      <4>1. nocontrol = r
        BY <3>2 DEF CompleteControlTransaction, CompleteControl
      <4>2. j \in DOMAIN left.open /\ left.open[j] \in {"Control"} /\ ~Claimed(left, j)
        BY <2>2, <3>2 DEF IInv, Owners, Claimed
      <4>3. Weak(r) /\ \A f \in Fields \ {"open", "deferred", "pending", "out"} : r[f] = left[f]
        BY <2>2, <4>2, EmitOneEffect
      <4>4. Run(p, "NotSelected", r)
        BY <2>2, <4>2, RunCompletesAs DEF Plain, Weak
      <4> HIDE DEF r, j
      <4> QED
        BY <2>2, <4>1, <4>3, <4>4 DEF Fields
    <3> QED BY <3>1, <3>2
  <2> HIDE DEF nocontrol
  <2>4. /\ Run(p, "NotSelected", nodata) /\ Weak(nodata)
        /\ \A f \in Fields \ {"data", "open", "deferred", "pending", "out"} : nodata[f] = nocontrol[f]
    BY <2>3, RunCompletesData, CompleteDataForDeselectionEffect DEF Weak
  <2> HIDE DEF nodata
  <2>5. a.act = "SessionStateChanged" /\ a = StateChanged(nodata.state) /\ DOMAIN nodata = Fields
    BY <2>3, <2>4 DEF StateChanged, Weak, Shape, Fields
  <2> HIDE DEF a
  <2>6. Run(p, s, told) /\ DOMAIN told = Fields
    BY <1>0, <2>4, <2>5, RunEmit, EmitFields DEF Fits
  <2> HIDE DEF told
  <2> QED
    BY <2>1, <2>6, RunCloses DEF Excusable, CoreReasons
<1> QED
  BY <1>1, <1>2

\* receive_data continues a run for every classification of the message.
LEMMA RunReceivesData ==
  ASSUME NEW p, NEW s, NEW c, NEW m, IInv(c), Run(p, s, c), ~c.closing,
         m.header.sys \in DOMAIN c.data => c.data[m.header.sys].command \in p.heard
  PROVE  Run(p, s, ReceiveData(c, m))
<1> DEFINE sys == m.header.sys
           k == c.data[sys].command
           r == RetireRequest(c, sys)
<1>0. ~p.closing /\ Shape(c)
  BY DEF Run, Log, Quieted, IInv, Weak
<1>1. \/ \E n : ReceiveData(c, m) = Emit(c, Notice(n))
      \/ sys \in DOMAIN c.data
         /\ \/ ReceiveData(c, m) = CompleteRequest(r, k, "Secondary")
            \/ ReceiveData(c, m) = CompleteRequest(r, k, "TransactionAborted")
  BY DEF ReceiveData
<1>a. sys \in DOMAIN c.data => k \in p.heard
  OBVIOUS
<1> HIDE DEF sys
<1>2. ASSUME sys \in DOMAIN c.data
      PROVE  /\ Run(p, s, CompleteRequest(r, k, "Secondary"))
             /\ Run(p, s, CompleteRequest(r, k, "TransactionAborted"))
  <2>1. /\ Shape(r) /\ Run(p, s, r) /\ k \in DOMAIN r.open /\ r.open[k] = "Request"
        /\ ~Claimed(r, k)
    BY <1>2, RunRetiresRequest
  <2>2. k \in p.heard
    BY <1>2, <1>a
  <2> HIDE DEF r, k
  <2> QED
    BY <2>1, <2>2, RunCompletesAs DEF Plain, CompleteRequest
<1> QED
  BY <1>0, <1>1, <1>2, RunNotices

\* The request a Data message with an even function may answer.
Addressed(c, m) ==
  {c.data[y].command : y \in
     {z \in DOMAIN c.data : m.header.function % 2 = 0 /\ z = m.header.sys}}

\* What a handler of m may hear of: the request a Data message answers.
Heard(c, m) == IF m.type = "Data" THEN Addressed(c, m) ELSE {}

\* The snapshot of a handler that hears of the requests H.
Hearing(p, H) == [p EXCEPT !.heard = H]

\* A run continues when its handler may hear of more requests.
LEMMA RunHears ==
  ASSUME NEW c, NEW told, NEW bound, NEW H, NEW s, NEW d, Run(Snapshot(c, told, bound), s, d)
  PROVE  Run(Hearing(Snapshot(c, told, bound), H), s, d)
<1> DEFINE p == Snapshot(c, told, bound)
           q == Hearing(p, H)
<1>1. /\ q.open = p.open /\ q.nextWrite = p.nextWrite /\ q.nextReply = p.nextReply
      /\ q.pending = p.pending /\ q.kinds = p.kinds /\ q.replies = p.replies
      /\ q.closing = p.closing /\ q.told = p.told /\ q.bound = p.bound
      /\ p.heard = {} /\ q.live = p.live /\ q.said = p.said
      /\ q.permit = p.permit /\ q.cause = p.cause
  BY DEF Hearing, Snapshot
<1>2. Run(p, s, d)
  OBVIOUS
<1> HIDE DEF p, q
<1>3. Run(q, s, d)
  BY <1>1, <1>2, RunAllows
<1> QED
  BY <1>3 DEF p, q

\* receive_inbound_data continues a run.
LEMMA RunReceivesInboundData ==
  ASSUME NEW p, NEW s, NEW c, NEW m, IInv(c), Run(p, s, c), p.nextWrite \in Nat,
         ~c.closing, c.state = s, DOMAIN c.out = {}, c.nextReply = p.nextReply,
         \A k \in Addressed(c, m) : k \in p.heard
  PROVE  Run(p, s, ReceiveInboundData(c, m))
<1> DEFINE granted == [c EXCEPT !.nextReply = @ + 1,
                                !.replies = Put(c.replies, c.nextReply, m.header)]
<1>0. ~p.closing /\ ~c.closeIssued /\ Shape(c) /\ Weak(c)
  BY DEF Run, Log, Quieted, IInv, Weak, Closed
<1>1. \/ \E x : x.type \in MessageTypes \ {"Data"} /\ ReceiveInboundData(c, m) = SendResponse(c, x)
      \/ /\ ReceiveInboundData(c, m) = ReceiveData(c, m)
         /\ m.header.sys \in DOMAIN c.data => c.data[m.header.sys].command \in p.heard
      \/ \E x \in {"ProtocolViolation", "ApplicationBackpressure"} :
           ReceiveInboundData(c, m) = CloseAll(c, x)
      \/ ReceiveInboundData(c, m) = Emit(c, DeliverPrimary(m, None))
      \/ c.nextReply = ReplySpace /\ ReceiveInboundData(c, m) = FailRuntimeInvariant(c)
      \/ /\ c.nextReply # ReplySpace
         /\ ReceiveInboundData(c, m) = Emit(granted, DeliverPrimary(m, c.nextReply))
  <2> HIDE DEF granted
  <2>1. \A sid, stype, sys, reason :
          RejectReq(sid, stype, reason, sys).type \in MessageTypes \ {"Data"}
    BY DEF RejectReq, MessageTypes
  <2>2. m.header.function % 2 = 0 /\ m.header.sys \in DOMAIN c.data =>
          c.data[m.header.sys].command \in p.heard
    BY DEF Addressed
  <2> QED BY <2>1, <2>2 DEF ReceiveInboundData, granted
<1>2. \A x \in {"ProtocolViolation", "ApplicationBackpressure"} : Run(p, s, CloseAll(c, x))
  BY <1>0, RunClosesAll DEF Excusable, CoreReasons
<1>3. Run(p, s, Emit(c, DeliverPrimary(m, None)))
  <2> DEFINE a == DeliverPrimary(m, None)
  <2>1. a.act = "DeliverPrimary" /\ a.capability = None
    BY DEF DeliverPrimary
  <2> HIDE DEF a
  <2>2. Run(p, s, Emit(c, a))
    BY <1>0, <2>1, RunEmit DEF Shape, Fits
  <2> QED BY <2>2 DEF a
<1>4. ASSUME c.nextReply = ReplySpace PROVE Run(p, s, FailRuntimeInvariant(c))
  BY <1>0, <1>4, RunFails DEF Exhausted
<1>5. ASSUME c.nextReply # ReplySpace
      PROVE  Run(p, s, Emit(granted, DeliverPrimary(m, c.nextReply)))
  <2> DEFINE a == DeliverPrimary(m, c.nextReply)
             r == Emit(granted, a)
  <2>1. a.act = "DeliverPrimary" /\ a.capability = c.nextReply
    BY DEF DeliverPrimary
  <2>2. /\ DOMAIN granted = Fields
        /\ \A f \in Fields \ {"nextReply", "replies"} : granted[f] = c[f]
        /\ granted.nextReply = c.nextReply + 1
        /\ DOMAIN granted.replies = DOMAIN c.replies \cup {c.nextReply}
    BY <1>0 DEF Shape, Fields, Put
  <2>3. c.nextReply \in Nat
    BY <1>0, SpaceAssumption DEF Shape
  <2> HIDE DEF granted, a
  <2>4. IsBatch(granted.out) /\ DOMAIN granted.out = {}
    BY <2>2 DEF Run, Log, Fields
  <2>5. IsBatch(r.out) /\ \E n : DOMAIN r.out = {n} /\ r.out[n] = a
    <3>1. DOMAIN granted = Fields /\ IsBatch(granted.out)
      BY <2>2, <2>4
    <3>2. IsBatch(r.out) /\ \E n \in Nat : DOMAIN r.out = DOMAIN granted.out \cup {n}
                                           /\ r.out[n] = a
      BY <3>1, EmitAppends
    <3> QED
      BY <2>4, <3>2
  <2>6. PICK n : DOMAIN r.out = {n} /\ r.out[n] = a
    BY <2>5
  <2>7. /\ DOMAIN r = Fields
        /\ \A f \in Fields \ {"nextReply", "replies", "out"} : r[f] = c[f]
        /\ r.nextReply = c.nextReply + 1
        /\ DOMAIN r.replies = DOMAIN c.replies \cup {c.nextReply}
    BY <2>2, EmitFields DEF Fields
  <2> HIDE DEF r
  <2>8. Opened(p, r) /\ Answered(p, r) /\ Written(p, r)
    <3>1. Opened(p, r)
      BY <2>7 DEF Run, Log, Opened, Fields
    <3>2. Answered(p, r)
      BY <2>1, <2>6, <2>7 DEF Run, Log, Answered, Fields
    <3>3. Written(p, r)
      BY <2>1, <2>6, <2>7 DEF Run, Log, Written, Fields
    <3> QED
      BY <3>1, <3>2, <3>3
  <2>9. Excused(p, r) /\ Quieted(p, s, r) /\ Announced(s, r)
    BY <1>0, <2>1, <2>6, <2>7 DEF Excused, Quieted, Announced, Fields
  <2>10. Bounded(p, r) /\ Traced(r)
    BY <2>7 DEF Run, Bounded, Traced, UnresolvedCommands, Fields
  <2>11. Framed(p, r) /\ Barred(p, r)
    BY <2>1, <2>6, <2>7 DEF Run, Log, Posted, Framed, Barred, Fields
  <2>12. Granted(p, r)
    BY <2>1, <2>3, <2>6, <2>7 DEF Run, Log, Posted, Granted
  <2>14. Spoken(p, r)
    <3>1. DOMAIN c.out \subseteq DOMAIN r.out /\ r.active = c.active
      BY <2>7 DEF Fields
    <3> QED
      BY <3>1, SpokenEmits DEF Run, Log
  <2>13. Run(p, s, r)
    BY <2>5, <2>8, <2>9, <2>10, <2>11, <2>12, <2>14 DEF Run, Log, Posted
  <2> QED
    BY <2>13 DEF r, a
<1> HIDE DEF granted
<1> QED
  BY <1>0, <1>1, <1>2, <1>3, <1>4, <1>5, RunResponds, RunReceivesData

\* on_message continues a run for every validated message.
LEMMA RunOnMessage ==
  ASSUME NEW c0, NEW told, NEW bound, NEW m, NEW drainDue, IInv(c0), Traced(c0),
         m.type \in MessageTypes, bound = UnresolvedCommands(c0)
  PROVE  Run(Hearing(Snapshot(c0, told, bound), Heard(c0, m)), c0.state,
             OnMessage(c0, m, drainDue))
<1> DEFINE o == Snapshot(c0, told, bound)
           p == Hearing(o, Heard(c0, m))
           c == Begin(c0)
           d == RecordActivity(c)
           s == c0.state
<1>1. IInv(c) /\ Run(p, s, c) /\ c.state = s /\ p.nextWrite \in Nat
  <2>1. IInv(c) /\ Run(o, s, c) /\ c.state = s /\ o.nextWrite \in Nat
    BY RunBegins
  <2>2. p.nextWrite = o.nextWrite
    BY DEF Hearing, Snapshot
  <2> QED
    BY <2>1, <2>2, RunHears
<1>0. /\ DOMAIN c.out = {} /\ c.nextReply = p.nextReply /\ c.data = c0.data
      /\ p.heard = Heard(c0, m)
  BY DEF Begin, Snapshot, Hearing, IInv, Weak, Shape, Fields
<1> HIDE DEF p, s
<1>2. IF c.state = "None" \/ c.closing THEN OnMessage(c0, m, drainDue) = c
      ELSE OnMessage(c0, m, drainDue) = ProgressDeselect(DispatchMessage(d, m), drainDue)
  <2> DEFINE e == ProgressDeselect(DispatchMessage(d, m), drainDue)
  <2>1. OnMessage(c0, m, drainDue) = IF c.state = "None" \/ c.closing THEN c ELSE e
    BY DEF OnMessage
  <2> HIDE DEF c, d, e
  <2> QED BY <2>1 DEF e
<1> HIDE DEF c
<1>3. IInv(d) /\ \A f \in Fields \ {"idle"} : d[f] = c[f]
  BY <1>1, RecordActivityIInv
<1> HIDE DEF d
<1>4. Run(p, s, d) /\ d.state = s /\ d.closing = c.closing
  BY <1>1, <1>3, RunSame DEF Fields
<1>a. DOMAIN d.out = {} /\ d.nextReply = p.nextReply
  BY <1>0, <1>3 DEF Fields
<1>b. m.type = "Data" => \A k \in Addressed(d, m) : k \in p.heard
  BY <1>0, <1>3 DEF Heard, Addressed, Fields
<1>5. ASSUME ~c.closing PROVE Run(p, s, DispatchMessage(d, m)) /\ IInv(DispatchMessage(d, m))
  <2>0. ~d.closing /\ ~p.closing /\ ~d.closeIssued
    BY <1>3, <1>4, <1>5 DEF Run, Log, Quieted, IInv, Closed
  <2>1. m.type = "Linktest.req" => /\ IInv(SendResponse(d, LinktestRsp(m.sys)))
                                   /\ Run(p, s, SendResponse(d, LinktestRsp(m.sys)))
    BY <1>1, <1>3, <1>4, <2>0, SendResponseEffect, RunResponds DEF LinktestRsp, MessageTypes
  <2>2. IInv(DispatchMessage(d, m))
    BY <1>3, <2>0, <2>1, ReceiveSelectRequestIInv, ReceiveSelectResponseIInv,
       ReceiveDeselectRequestIInv, ReceiveDeselectResponseIInv, ReceiveLinktestResponseIInv,
       ReceiveRejectIInv, ReceiveSeparateIInv, ReceiveInboundDataIInv
    DEF DispatchMessage, MessageTypes
  <2>3. Run(p, s, DispatchMessage(d, m))
    BY <1>1, <1>3, <1>4, <1>a, <1>b, <2>0, <2>1, RunReceivesSelectRequest, RunReceivesSelectResponse,
       RunReceivesDeselectRequest, RunReceivesDeselectResponse, RunReceivesLinktestResponse,
       RunReceivesReject, RunReceivesSeparate, RunReceivesInboundData
    DEF DispatchMessage, MessageTypes
  <2> QED BY <2>2, <2>3
<1>6. Run(p, s, OnMessage(c0, m, drainDue))
  BY <1>1, <1>2, <1>5, RunProgresses
<1> QED
  BY <1>6 DEF p, s

\* on_inbound_violation continues a run.
LEMMA RunOnInboundViolation ==
  ASSUME NEW c0, NEW told, NEW bound, NEW v, IInv(c0), Traced(c0),
         bound = UnresolvedCommands(c0)
  PROVE  Run(Snapshot(c0, told, bound), c0.state, OnInboundViolation(c0, v))
<1> DEFINE p == Snapshot(c0, told, bound)
           c == Begin(c0)
           s == c0.state
<1>1. IInv(c) /\ Run(p, s, c) /\ c.state = s /\ p.nextWrite \in Nat
  BY RunBegins
<1>2. \/ OnInboundViolation(c0, v) = c
      \/ /\ ~c.closing
         /\ \E x : /\ x.type \in MessageTypes \ {"Data"}
                  /\ OnInboundViolation(c0, v) = SendResponse(c, x)
  BY DEF OnInboundViolation, RejectReq, MessageTypes
<1> HIDE DEF c, p, s
<1>3. ~c.closing => ~p.closing /\ ~c.closeIssued
  BY <1>1 DEF Run, Log, Quieted, IInv, Closed
<1>4. Run(p, s, OnInboundViolation(c0, v))
  BY <1>1, <1>2, <1>3, RunResponds
<1> QED
  BY <1>4 DEF p, s

-----------------------------------------------------------------------------
(* Commands and replies.                                                   *)

\* The struct once on_command or on_reply has opened k.
Opening(c, k, kind) == [Begin(c) EXCEPT !.open = Put(@, k, kind)]

\* What a handler that opens k starts from: only backpressure is told, every retained
\* write still binds its command, and Driver holds a data permit for a data command.
Accepting(c, k, kind) ==
  Permitted(Snapshot(Opening(c, k, kind), {<<k, "Backpressure">>}, UnresolvedCommands(c)),
            kind # "Control")

\* A handler that opens a new command begins a run.
LEMMA RunOpens ==
  ASSUME NEW c0, IInv(c0), Traced(c0), NEW k \in Commands \ DOMAIN c0.open,
         NEW kind \in CommandKinds
  PROVE  LET c == Opening(c0, k, kind)
             p == Accepting(c0, k, kind)
         IN  /\ IInv(c) /\ Free(c, k, kind) /\ Run(p, c0.state, c)
             /\ \A f \in Fields \ {"open", "out"} : c[f] = c0[f]
             /\ c.state = c0.state /\ p.nextWrite \in Nat
             /\ k \notin p.bound /\ <<k, "Backpressure">> \in p.told
             /\ p.permit = (kind # "Control") /\ DOMAIN c.out = {}
<1> DEFINE c == Opening(c0, k, kind)
           told == {<<k, "Backpressure">>}
           bound == UnresolvedCommands(c0)
           p == Snapshot(c, told, bound)
           g == Permitted(p, kind # "Control")
           b == Begin(c0)
           q == Put(b.open, k, kind)
<1>1. /\ IInv(c) /\ Free(c, k, kind)
      /\ \A f \in Fields \ {"open", "out"} : c[f] = c0[f]
  BY OpenCommandIInv DEF Opening
<1>2. /\ IInv(b) /\ (\A f \in Fields \ {"out"} : b[f] = c0[f]) /\ b.out = <<>>
      /\ b.open = c0.open
  <2>1. IInv(b) /\ (\A f \in Fields \ {"out"} : b[f] = c0[f])
    BY BeginIInv
  <2>2. b.out = <<>>
    BY DEF Begin, IInv, Weak, Shape, Fields
  <2> QED
    BY <2>1, <2>2 DEF Fields
<1>3. c = [b EXCEPT !.open = q]
  BY DEF Opening
<1> HIDE DEF b
<1>4. c.open = q /\ c.out = <<>>
  BY <1>2, <1>3 DEF IInv, Weak, Shape, Fields
<1>5. \A j \in DOMAIN c0.open : j \in DOMAIN q /\ q[j] = c0.open[j]
  BY <1>2 DEF Put
<1> HIDE DEF c, q
<1>6. k \notin bound
  BY DEF IInv, Weak, Linked, UnresolvedCommands
<1>7. UnresolvedCommands(c) = bound
  BY <1>1 DEF UnresolvedCommands, Fields
<1>8. Traced(c)
  <2>1. c.active = c0.active /\ c.data = c0.data /\ c.deferred = c0.deferred /\ c.pending = c0.pending
    BY <1>1 DEF Fields
  <2>2. \A j \in DOMAIN c.deferred :
          \/ c.deferred[j] = "ConnectionLost"
          \/ /\ c.deferred[j] = "SessionDeselected" /\ j \in DOMAIN c.open
             /\ c.open[j] \in {"Send", "Request"}
    BY <1>4, <1>5, <2>1 DEF Traced
  <2>3. /\ c.active # None =>
             IF c.active.armed THEN c.active.command \notin UnresolvedCommands(c)
             ELSE c.active.write \in DOMAIN c.pending =>
                    c.pending[c.active.write].command = c.active.command
        /\ \A s \in DOMAIN c.data :
             IF c.data[s].armed THEN c.data[s].command \notin UnresolvedCommands(c)
             ELSE c.data[s].write \in DOMAIN c.pending =>
                    c.pending[c.data[s].write].command = c.data[s].command
    BY <1>7, <2>1 DEF Traced
  <2> QED
    BY <2>2, <2>3 DEF Traced
<1>9. c.state = c0.state /\ p.nextWrite \in Nat
  BY <1>1, SpaceAssumption DEF Snapshot, IInv, Weak, Shape, Fields
<1>10. Run(p, c.state, c)
  BY <1>1, <1>4, <1>7, <1>8, RunStarts DEF IInv, Weak
<1>11. <<k, "Backpressure">> \in p.told /\ p.bound = bound
  BY DEF Snapshot
<1>12. g = Accepting(c0, k, kind)
  BY DEF Accepting, c
<1>13. /\ g.told = p.told /\ g.bound = p.bound /\ g.nextWrite = p.nextWrite
       /\ g.permit = (kind # "Control")
  BY DEF Snapshot, Permitted
<1>14. Run(g, c.state, c)
  <2>1. /\ g.open = p.open /\ g.nextWrite = p.nextWrite /\ g.nextReply = p.nextReply
        /\ g.pending = p.pending /\ g.kinds = p.kinds /\ g.replies = p.replies /\ g.closing = p.closing
        /\ g.told = p.told /\ g.bound = p.bound /\ ~p.permit
        /\ p.cause \in CoreReasons
        /\ p.heard = g.heard /\ p.live = g.live /\ p.said = g.said
    BY DEF Snapshot, Permitted, CoreReasons
  <2> HIDE DEF g, p
  <2> QED
    BY <1>10, <2>1, RunAllows
<1>15. DOMAIN c.out = {}
  BY <1>4
<1> HIDE DEF bound, told, p, g
<1> QED
  BY <1>1, <1>6, <1>9, <1>11, <1>12, <1>13, <1>14, <1>15 DEF c

\* on_command of a new command continues a run.
LEMMA RunOnCommand ==
  ASSUME NEW c0, IInv(c0), Traced(c0), NEW k \in Commands \ DOMAIN c0.open,
         NEW kind \in CommandNames, NEW primary
  PROVE  Run(Accepting(c0, k, OpenKind(kind)), c0.state, OnCommand(c0, k, kind, primary))
<1> DEFINE c == Opening(c0, k, OpenKind(kind))
           p == Accepting(c0, k, OpenKind(kind))
           s == c0.state
<1>1. OpenKind(kind) \in CommandKinds
  BY DEF OpenKind, CommandKinds, CommandNames, ControlCommands
<1>2. /\ IInv(c) /\ Free(c, k, OpenKind(kind)) /\ Run(p, s, c) /\ c.state = s
      /\ p.nextWrite \in Nat /\ k \notin p.bound /\ <<k, "Backpressure">> \in p.told
      /\ p.permit = (OpenKind(kind) # "Control") /\ DOMAIN c.out = {}
  BY <1>1, RunOpens
<1>3. OnCommand(c0, k, kind, primary) =
        IF c.state = "None" THEN CompleteError(c, k, "NotConnected")
        ELSE IF c.closing THEN CompleteError(c, k, "ConnectionLost")
        ELSE IF c.drain # None /\ kind \in {"Select", "Deselect", "Linktest"}
        THEN CompleteError(c, k, "ControlBusy")
        ELSE CASE kind = "Select"   -> StartSelect(c, k)
               [] kind = "Deselect" -> StartDeselect(c, k)
               [] kind = "Linktest" -> StartLinktest(c, k)
               [] kind = "Separate" -> StartSeparate(c, k, "LocalSeparate")
               [] kind = "Send"     -> StartData(c, k, primary, FALSE)
               [] kind = "Request"  -> StartData(c, k, primary, TRUE)
  BY DEF OnCommand, Opening
<1> HIDE DEF c, p, s
<1>4. /\ Run(p, s, CompleteError(c, k, "NotConnected"))
      /\ Run(p, s, CompleteError(c, k, "ConnectionLost"))
      /\ Run(p, s, CompleteError(c, k, "ControlBusy"))
  <2>1. k \in DOMAIN c.open /\ ~Claimed(c, k) /\ Shape(c) /\ Justified(p, k, "ConnectionLost")
    BY <1>2 DEF Free, Owned, Claimed, IInv, Weak, Justified, Fair
  <2> QED
    BY <1>2, <2>1, RunCompletesError DEF Plain
<1>5. ASSUME ~c.closing, kind \in {"Select", "Linktest"}
      PROVE  Run(p, s, StartSelect(c, k)) /\ Run(p, s, StartLinktest(c, k))
  BY <1>2, <1>5, RunStartsSelect DEF OpenKind, ControlCommands
<1>6. ASSUME ~c.closing, kind = "Deselect" PROVE Run(p, s, StartDeselect(c, k))
  BY <1>2, <1>6, RunStartsDeselect DEF OpenKind, ControlCommands
<1>7. ASSUME ~c.closing, kind = "Separate" PROVE Run(p, s, StartSeparate(c, k, "LocalSeparate"))
  BY <1>2, <1>7, RunStartsSeparate DEF OpenKind, ControlCommands, CoreReasons
<1>8. ASSUME ~c.closing, kind = "Send" PROVE Run(p, s, StartData(c, k, primary, FALSE))
  BY <1>2, <1>8, RunStartsData DEF OpenKind, ControlCommands
<1>9. ASSUME ~c.closing, kind = "Request" PROVE Run(p, s, StartData(c, k, primary, TRUE))
  BY <1>2, <1>9, RunStartsData DEF OpenKind, ControlCommands
<1>10. Run(p, s, OnCommand(c0, k, kind, primary))
  <2>1. CASE c.state = "None" \/ c.closing
              \/ (c.drain # None /\ kind \in {"Select", "Deselect", "Linktest"})
    BY <1>3, <1>4, <2>1
  <2>2. CASE ~(c.state = "None" \/ c.closing
                \/ (c.drain # None /\ kind \in {"Select", "Deselect", "Linktest"}))
    BY <1>3, <1>5, <1>6, <1>7, <1>8, <1>9, <2>2 DEF CommandNames, ControlCommands
  <2> QED BY <2>1, <2>2
<1> QED
  BY <1>10 DEF p, s

\* on_reply of a new command continues a run for every intent.
LEMMA RunOnReply ==
  ASSUME NEW c0, IInv(c0), Traced(c0), NEW k \in Commands \ DOMAIN c0.open,
         NEW capability, NEW intent, NEW body, NEW due
  PROVE  LET kind == IF intent = "Abandon" THEN "Control" ELSE "Send"
         IN  Run(Accepting(c0, k, kind), c0.state, OnReply(c0, k, capability, intent, body, due))
<1> DEFINE kind == IF intent = "Abandon" THEN "Control" ELSE "Send"
           c    == Opening(c0, k, kind)
           used == [c EXCEPT !.replies = Drop(@, {capability})]
           primary == c.replies[capability]
           function == IF intent = "Abort" THEN 0 ELSE primary.function + 1
           header  == DataHeader(primary.sid, primary.stream, function, FALSE, primary.sys)
           x == PendingWrite("DataSend", k, primary.sid, primary.sys)
           q == Put(used.pending, used.nextWrite, x)
           d == [used EXCEPT !.nextWrite = @ + 1, !.pending = q]
           m == DataMsg(header, intent = "Secondary" /\ body)
           p == Accepting(c0, k, kind)
           s == c0.state
           result == OnReply(c0, k, capability, intent, body, due)
<1>1. /\ IInv(c) /\ Free(c, k, kind) /\ Run(p, s, c) /\ c.state = s
      /\ p.nextWrite \in Nat /\ k \notin p.bound
      /\ p.permit = (kind # "Control") /\ DOMAIN c.out = {}
  BY RunOpens DEF CommandKinds
<1>2. \/ \E e \in {"ReplyCapabilityUnavailable", "Draining"} : result = CompleteError(c, k, e)
      \/ kind = "Control" /\ result = ProgressDeselect(CompleteControl(used, k, "Ok"), due)
      \/ result = CompleteError(used, k, "ReplyRequiresAbort")
      \/ used.nextWrite = WriteSpace /\ result = FailRuntimeInvariant(used)
      \/ /\ ~c.closing /\ used.nextWrite # WriteSpace /\ kind # "Control"
         /\ result = Emit(d, SendFrame(c.nextWrite, m))
  <2> HIDE DEF c
  <2>1. c.nextWrite = used.nextWrite /\ c.pending = used.pending
    BY <1>1 DEF IInv, Weak, Shape, Fields
  <2> QED
    BY <2>1 DEF OnReply, c, Opening
<1> HIDE DEF c, p, s
<1>3. IInv(used) /\ \A f \in Fields \ {"replies"} : used[f] = c[f]
  BY <1>1, DropReply
<1>a. DOMAIN used.replies \subseteq DOMAIN c.replies
  BY <1>1 DEF IInv, Weak, Shape, Fields, Drop
<1> HIDE DEF used
<1>4. Free(used, k, kind)
  BY <1>1, <1>3 DEF Free, Owned, UnresolvedCommands, Fields
<1>5. Run(p, s, used) /\ used.nextWrite = c.nextWrite
  BY <1>1, <1>3, <1>a, RunSame DEF Fields
<1>6. /\ k \in DOMAIN c.open /\ ~Claimed(c, k) /\ Shape(c)
      /\ k \in DOMAIN used.open /\ ~Claimed(used, k) /\ Shape(used) /\ used.open[k] = kind
  BY <1>1, <1>3, <1>4 DEF Free, Owned, Claimed, IInv, Weak
<1>7. \A e \in {"ReplyCapabilityUnavailable", "Draining"} : Run(p, s, CompleteError(c, k, e))
  BY <1>1, <1>6, RunCompletesError DEF Plain
<1>8. Run(p, s, CompleteError(used, k, "ReplyRequiresAbort"))
  BY <1>5, <1>6, RunCompletesError DEF Plain
<1>9. ASSUME kind = "Control"
      PROVE  Run(p, s, ProgressDeselect(CompleteControl(used, k, "Ok"), due))
  <2>0. p.open[k] = "Control"
    BY <1>5, <1>6, <1>9 DEF Run, Log, Opened
  <2>1. Justified(p, k, "Ok")
    BY <1>1, <2>0 DEF Justified, Fair
  <2>2. Run(p, s, CompleteControl(used, k, "Ok"))
    BY <1>5, <1>6, <1>9, <2>1, RunCompletesAs DEF CompleteControl
  <2>3. IInv(CompleteControl(used, k, "Ok"))
    BY <1>3, <1>4, CompleteAsIInv DEF CompleteControl, Free
  <2> QED
    BY <1>1, <2>2, <2>3, RunProgresses
<1>10. ASSUME used.nextWrite = WriteSpace PROVE Run(p, s, FailRuntimeInvariant(used))
  BY <1>3, <1>5, <1>10, RunFails DEF IInv, Exhausted
<1>11. ASSUME ~c.closing, used.nextWrite # WriteSpace, kind # "Control"
       PROVE  Run(p, s, Emit(d, SendFrame(c.nextWrite, m)))
  <2>0. /\ used.nextWrite \in Nat
        /\ \A v \in DOMAIN used.pending : v # used.nextWrite
    BY <1>3, <1>11, FreshWrite DEF IInv, Weak
  <2>a. \A v \in DOMAIN used.pending : v < used.nextWrite
    BY <1>3, <1>11, FreshWrite DEF IInv
  <2>b. ~used.closeIssued /\ DOMAIN used.out = {}
    BY <1>1, <1>3, <1>11 DEF IInv, Closed, Fields
  <2>1. /\ DOMAIN q = DOMAIN used.pending \cup {used.nextWrite}
        /\ q[used.nextWrite] = x
        /\ \A v \in DOMAIN used.pending : q[v] = used.pending[v]
    BY <2>0 DEF Put
  <2>2. x.command = k
    BY DEF PendingWrite
  <2>3. m.type \in MessageTypes \ {"Select.rsp", "Deselect.rsp"}
    BY DEF DataMsg, MessageTypes
  <2> HIDE DEF x, q, m
  <2>4. /\ DOMAIN d = Fields
        /\ \A f \in Fields \ {"nextWrite", "pending"} : d[f] = used[f]
        /\ d.nextWrite = used.nextWrite + 1 /\ d.pending = q
    BY <1>6 DEF Shape, Fields
  <2> HIDE DEF d
  <2>5. /\ d.open = used.open /\ d.deferred = used.deferred /\ d.active = used.active
        /\ d.data = used.data /\ d.out = used.out /\ d.state = used.state
        /\ d.nextReply = used.nextReply /\ d.replies = used.replies
        /\ d.closing = used.closing /\ d.closeIssued = used.closeIssued
    BY <2>4 DEF Fields
  <2>6. Traced(d)
    BY <1>3, <1>5, <1>6, <1>11, <2>1, <2>2, <2>4, <2>5, TracedWrites DEF IInv, Run
  <2>7. p.nextWrite <= used.nextWrite
    BY <1>5 DEF Run, Log, Written
  <2>8. used.nextWrite + 1 \in Nat /\ used.nextWrite <= used.nextWrite + 1
    BY <2>0
  <2>9. ~p.closing
    BY <1>1, <1>11 DEF Run, Log, Quieted
  <2> QED
    BY <1>1, <1>5, <1>11, <2>0, <2>1, <2>3, <2>4, <2>5, <2>6, <2>7, <2>8, <2>9, <2>a, <2>b,
       RunWrites
<1> HIDE DEF used, d, m, result, kind
<1>12. Run(p, s, result)
  BY <1>2, <1>7, <1>8, <1>9, <1>10, <1>11
<1> QED
  BY <1>12 DEF p, s, kind, result

-----------------------------------------------------------------------------
(* Connection, deadlines and shutdown.                                     *)

\* on_connected continues a run of an unconnected Core.
LEMMA RunOnConnected ==
  ASSUME NEW c0, NEW told, NEW bound, IInv(c0), Traced(c0), bound = UnresolvedCommands(c0),
         c0.state = "None", ~c0.closing
  PROVE  Run(Snapshot(c0, told, bound), c0.state, OnConnected(c0))
<1> DEFINE p == Snapshot(c0, told, bound)
           c == Begin(c0)
           s == c0.state
           d == RecordActivity(ArmSelectionTimeout([c EXCEPT !.state = "NotSelected"]))
<1>1. /\ IInv(c) /\ Run(p, s, c) /\ c.state = s /\ p.nextWrite \in Nat
      /\ \A f \in Fields \ {"out"} : c[f] = c0[f]
  BY RunBegins
<1>2. c.state = "None" /\ ~c.closing
  BY <1>1 DEF Fields
<1>3. OnConnected(c0) = Emit(d, StateChanged("NotSelected"))
  BY <1>2 DEF OnConnected
<1> HIDE DEF c, p, s
<1>4. /\ DOMAIN d = Fields
      /\ \A f \in Fields \ {"state", "t7", "idle"} : d[f] = c[f]
      /\ d.state = "NotSelected"
  BY <1>1 DEF IInv, Weak, Shape, Fields, ArmSelectionTimeout, RecordActivity
<1> HIDE DEF d
<1>5. ~p.closing /\ c.nextWrite \in Nat /\ c.nextWrite <= c.nextWrite
  BY <1>1, <1>2, SpaceAssumption DEF Run, Log, Quieted, IInv, Weak, Shape
<1>6. Run(p, "NotSelected", d)
  BY <1>1, <1>4, <1>5, RunMoves DEF Fields
<1>7. Run(p, s, Emit(d, StateChanged("NotSelected")))
  BY <1>4, <1>5, <1>6, RunEmit DEF StateChanged, Fits
<1> QED
  BY <1>3, <1>7 DEF p, s

\* advance_time continues a run.
LEMMA RunAdvancesTime ==
  ASSUME NEW c0, NEW told, NEW bound, NEW due, IInv(c0), Traced(c0),
         bound = UnresolvedCommands(c0)
  PROVE  Run(Snapshot(c0, told, bound), c0.state, AdvanceTime(c0, due))
<1> DEFINE p == Snapshot(c0, told, bound)
           c == Begin(c0)
<1>1. IInv(c) /\ Run(p, c0.state, c) /\ p.nextWrite \in Nat
  BY RunBegins
<1> HIDE DEF c, p
<1>2. Run(p, c0.state, ExpireDeadlines(c, due))
  BY <1>1, RunExpires
<1> QED
  BY <1>2 DEF AdvanceTime, c, p

\* on_shutdown and finish_shutdown_drain continue a run.
LEMMA RunOnShutdown ==
  ASSUME NEW c0, NEW told, NEW bound, NEW reason, IInv(c0), Traced(c0),
         bound = UnresolvedCommands(c0)
  PROVE  LET p == Caused(Snapshot(c0, told, bound), reason)
         IN  /\ Run(p, c0.state, OnShutdown(c0, reason))
             /\ Run(p, c0.state, FinishShutdownDrain(c0, reason))
<1> DEFINE b == Snapshot(c0, told, bound)
           p == Caused(b, reason)
           c == Begin(c0)
<1>a. /\ IInv(c) /\ Run(b, c0.state, c) /\ b.nextWrite \in Nat
      /\ \A f \in Fields \ {"out"} : c[f] = c0[f]
  BY RunBegins
<1>b. p.nextWrite = b.nextWrite /\ p.cause = reason
  BY DEF Snapshot, Caused
<1>1. /\ IInv(c) /\ Run(p, c0.state, c) /\ p.nextWrite \in Nat
      /\ \A f \in Fields \ {"out"} : c[f] = c0[f]
  <2>1. /\ p.open = b.open /\ p.nextWrite = b.nextWrite /\ p.nextReply = b.nextReply
        /\ p.pending = b.pending /\ p.kinds = b.kinds /\ p.replies = b.replies /\ p.closing = b.closing
        /\ p.told = b.told /\ p.bound = b.bound /\ ~b.permit
        /\ b.cause \in CoreReasons
        /\ b.heard = p.heard /\ b.live = p.live /\ b.said = p.said
    BY DEF Snapshot, Caused, CoreReasons
  <2> HIDE DEF c, p, b
  <2> QED
    BY <1>a, <2>1, RunAllows
<1> HIDE DEF c, p, b
<1>2. c.closing = c0.closing
  BY <1>1 DEF Fields
<1>3. Run(p, c0.state, CloseAll(c, reason))
  BY <1>1, <1>b, RunClosesAll DEF IInv, Excusable, CoreReasons
<1>4. ~c0.closing => Run(p, c0.state, StartSeparate(c, None, reason))
  BY <1>1, <1>2, <1>b, RunStartsSeparate
<1> QED
  BY <1>3, <1>4 DEF OnShutdown, FinishShutdownDrain, c, p, b

-----------------------------------------------------------------------------
(* Outcomes of writes (session.rs on_write_outcome_at, on_shutdown and     *)
(* finalize_writer).  The command of the write is answered before anything *)
(* else may speak of it.                                                   *)

\* A handler that has only dropped retained writes has an empty log, whatever the
\* writes dictate, and keeps the traces.
LEMMA LogDrops ==
  ASSUME NEW c, NEW told, NEW bound, NEW d, Shape(c), Traced(c),
         d.out = <<>>, d.open = c.open, d.deferred = c.deferred, d.active = c.active,
         d.data = c.data, d.nextWrite = c.nextWrite, d.state = c.state, d.closing = c.closing,
         d.closeIssued => d.closing, d.nextReply = c.nextReply, d.replies = c.replies,
         DOMAIN d.pending \subseteq DOMAIN c.pending,
         \A v \in DOMAIN d.pending : d.pending[v] = c.pending[v]
  PROVE  Log(Snapshot(d, told, bound), c.state, d) /\ Traced(d)
<1> DEFINE p == Snapshot(d, told, bound)
<1>1. /\ p.open = c.open /\ p.nextWrite = c.nextWrite /\ p.pending = DOMAIN d.pending
      /\ \A w \in DOMAIN d.pending : p.kinds[w] = d.pending[w].kind
      /\ p.closing = c.closing /\ p.nextReply = c.nextReply /\ p.replies = DOMAIN c.replies
  BY DEF Snapshot
<1> HIDE DEF p
<1>2. IsBatch(d.out) /\ DOMAIN d.out = {}
  <2>1. <<>> \in Seq({}) /\ DOMAIN <<>> = {}
    OBVIOUS
  <2> QED
    BY <2>1 DEF IsBatch
<1>3. Opened(p, d) /\ Answered(p, d)
  BY <1>1, <1>2 DEF Opened, Answered
<1>4. c.nextWrite <= c.nextWrite
  BY SpaceAssumption DEF Shape
<1>5. Written(p, d)
  BY <1>1, <1>2, <1>4 DEF Written
<1>6. Excused(p, d) /\ Announced(c.state, d) /\ Quieted(p, c.state, d)
  BY <1>1, <1>2 DEF Excused, Announced, Quieted
<1>8. Posted(p, d)
  <2>1. c.nextReply <= c.nextReply
    BY SpaceAssumption DEF Shape
  <2> QED
    BY <1>1, <1>2, <2>1 DEF Posted, Framed, Barred, Granted
<1>7. Traced(d)
  BY DEF Traced, UnresolvedCommands
<1>9. Spoken(p, d)
  BY DEF Spoken, Snapshot, p
<1> QED
  BY <1>2, <1>3, <1>5, <1>6, <1>7, <1>8, <1>9 DEF Log, p

\* The removal of a retained write starts a log and keeps the traces; it settles
\* the write's own command and no other.
LEMMA LogRemoves ==
  ASSUME NEW c, NEW w \in DOMAIN c.pending, NEW told, NEW bound, IInv(c), Traced(c)
  PROVE  LET r == Removed(c, w)
         IN  /\ Log(Snapshot(r, told, bound), c.state, r) /\ Traced(r)
             /\ UnresolvedCommands(r) = UnresolvedCommands(c) \ {c.pending[w].command}
<1> DEFINE r == Removed(c, w)
           k == c.pending[w].command
<1>1. /\ DOMAIN r = Fields
      /\ \A f \in Fields \ {"pending", "out"} : r[f] = c[f]
      /\ DOMAIN r.pending = DOMAIN c.pending \ {w}
      /\ \A v \in DOMAIN r.pending : r.pending[v] = c.pending[v]
  BY RemovedEffect
<1>2. r.out = <<>>
  BY DEF Removed, Begin, IInv, Weak, Shape, Fields
<1> HIDE DEF r
<1>3. /\ r.open = c.open /\ r.deferred = c.deferred /\ r.active = c.active
      /\ r.data = c.data /\ r.nextWrite = c.nextWrite /\ r.state = c.state
      /\ r.closing = c.closing /\ r.nextReply = c.nextReply /\ r.replies = c.replies
      /\ r.closeIssued = c.closeIssued
  BY <1>1 DEF Fields
<1>4. Log(Snapshot(r, told, bound), c.state, r) /\ Traced(r)
  BY <1>1, <1>2, <1>3, LogDrops DEF IInv, Weak, Closed
<1>5. ASSUME NEW j PROVE j \in UnresolvedCommands(r) <=> j \in UnresolvedCommands(c) \ {k}
  BY <1>1 DEF UnresolvedCommands, IInv, Weak, Linked
<1> QED
  BY <1>4, <1>5 DEF r

\* The restart of the idle timer leaves a log, the bounds and the traces alone.
LEMMA LogIdles ==
  ASSUME NEW p, NEW s, NEW c, NEW d, Log(p, s, c), Traced(c),
         \A f \in Fields \ {"idle"} : d[f] = c[f]
  PROVE  Log(p, s, d) /\ Traced(d) /\ UnresolvedCommands(d) = UnresolvedCommands(c)
<1>1. Opened(p, d) /\ Answered(p, d) /\ Written(p, d) /\ IsBatch(d.out)
  BY DEF Log, Opened, Answered, Written, Fields
<1>2. Excused(p, d) /\ Announced(s, d) /\ Quieted(p, s, d)
  BY DEF Log, Excused, Excusable, Exhausted, Announced, Quieted, Fields
<1>4. Posted(p, d) /\ Spoken(p, d)
  BY PostedSame, SpokenSame DEF Log, Fields
<1>3. Traced(d) /\ UnresolvedCommands(d) = UnresolvedCommands(c)
  BY DEF Traced, UnresolvedCommands, Fields
<1> QED
  BY <1>1, <1>2, <1>3, <1>4 DEF Log

\* The command whose write has come to its end is answered first, as told; the run
\* goes on from there.
LEMMA RunSettles ==
  ASSUME NEW p, NEW s, NEW c, NEW k, NEW result, Shape(c), Log(p, s, c), Traced(c),
         k \in DOMAIN c.open, ~Claimed(c, k), <<k, result>> \in p.told,
         result \notin {"open", "unused"},
         p.bound \ {k} \subseteq UnresolvedCommands(c)
  PROVE  Run(p, s, EmitCompletion(c, {k}, result))
<1> DEFINE r == EmitCompletion(c, {k}, result)
<1>1. Log(p, s, r)
  BY LogCompletes DEF Justified
<1>2. Traced(r)
  BY TracedCompletes
<1>3. DOMAIN r.open = DOMAIN c.open \ {k}
  BY EmitCompletionEffect
<1>4. UnresolvedCommands(r) = UnresolvedCommands(c) \ {k}
  BY EmitCompletionResolves DEF Shape
<1> HIDE DEF r
<1>5. Bounded(p, r)
  BY <1>3, <1>4 DEF Bounded
<1> QED
  BY <1>1, <1>2, <1>5 DEF Run, r

\* The snapshot once write w has come to its end, which dictates result.
Ending(c, w, result) ==
  Snapshot(Removed(c, w), {<<c.pending[w].command, result>>}, UnresolvedCommands(c))

\* complete_write_error, of a write that failed, begins a run: its transaction is
\* gone, and its command is told what became of the write.
LEMMA RunWriteFails ==
  ASSUME NEW c, NEW w \in DOMAIN c.pending, NEW error, IInv(c), Traced(c),
         error \notin {"open", "unused"}
  PROVE  Run(Ending(c, w, error), c.state,
             CompleteWriteError(RemoveTransactionForWrite(Removed(c, w), w, c.pending[w]),
                                c.pending[w], error))
<1> DEFINE write == c.pending[w]
           k == write.command
           r == Removed(c, w)
           x == RemoveTransactionForWrite(r, w, write)
           p == Ending(c, w, error)
           s == c.state
<1>1. /\ DOMAIN r = Fields /\ Shape(r)
      /\ \A f \in Fields \ {"pending", "out"} : r[f] = c[f]
      /\ k # None => k \in DOMAIN r.open
  BY RemovedEffect
<1>2. /\ Log(p, s, r) /\ Traced(r)
      /\ UnresolvedCommands(r) = UnresolvedCommands(c) \ {k}
  BY LogRemoves DEF Ending
<1>3. p.bound = UnresolvedCommands(c) /\ <<k, error>> \in p.told
  BY DEF Ending, Snapshot
<1> HIDE DEF r, p
<1>4. /\ DOMAIN x = Fields
      /\ \A f \in Fields \ {"active", "data"} : x[f] = r[f]
      /\ x.active \in {r.active, None}
      /\ DOMAIN x.data \subseteq DOMAIN r.data
      /\ \A t \in DOMAIN x.data : x.data[t] = r.data[t]
  BY <1>1 DEF RemoveTransactionForWrite, Drop, Fields
<1>5. /\ write.kind = "TransactionRequest" /\ r.active # None /\ r.active.write = w =>
           x.active = None
      /\ write.kind = "DataRequest" /\ write.sys \in DOMAIN r.data
         /\ r.data[write.sys].write = w => write.sys \notin DOMAIN x.data
  BY <1>1 DEF RemoveTransactionForWrite, Drop, Fields
<1> HIDE DEF x
<1>6. r.active = c.active /\ r.data = c.data
  BY <1>1 DEF Fields
<1>7. Shape(x)
  BY <1>1, <1>4 DEF Shape, Fields
<1>8. Log(p, s, x) /\ Traced(x) /\ UnresolvedCommands(x) = UnresolvedCommands(r)
  <2>1. Opened(p, x) /\ Answered(p, x) /\ Written(p, x) /\ IsBatch(x.out)
    BY <1>2, <1>4 DEF Log, Opened, Answered, Written, Fields
  <2>2. Excused(p, x) /\ Announced(s, x) /\ Quieted(p, s, x)
    BY <1>2, <1>4 DEF Log, Excused, Excusable, Exhausted, Announced, Quieted, Fields
  <2>6. Posted(p, x) /\ Spoken(p, x)
    BY <1>2, <1>4, PostedSame, SpokenSame DEF Log, Fields
  <2>3. UnresolvedCommands(x) = UnresolvedCommands(r)
    BY <1>4 DEF UnresolvedCommands, Fields
  <2>4. x.pending = r.pending /\ x.open = r.open /\ x.deferred = r.deferred
    BY <1>4 DEF Fields
  <2>5. Traced(x)
    BY <1>2, <1>4, <2>3, <2>4 DEF Traced
  <2> QED
    BY <2>1, <2>2, <2>3, <2>5, <2>6 DEF Log
<1>9. CASE k = None
  <2>1. Bounded(p, x)
    BY <1>2, <1>3, <1>8, <1>9 DEF Bounded, UnresolvedCommands
  <2> QED
    BY <1>8, <1>9, <2>1 DEF Run, CompleteWriteError, x, r, p
<1>10. CASE k # None
  <2>1. k \in UnresolvedCommands(c)
    BY <1>10 DEF UnresolvedCommands
  <2>2. ASSUME x.active # None, x.active.command = k PROVE FALSE
    <3>1. c.active # None /\ c.active.command = k /\ ~c.active.armed
      BY <1>4, <1>6, <2>1, <2>2 DEF Traced
    <3>2. /\ c.active.write \in DOMAIN c.pending
          /\ c.pending[c.active.write].kind = "TransactionRequest"
          /\ c.pending[c.active.write].command = k
      BY <3>1 DEF IInv, Timed, Traced
    <3>3. c.active.write = w
      BY <1>10, <3>2 DEF IInv, Weak, Linked
    <3> QED
      BY <1>5, <1>6, <2>2, <3>1, <3>2, <3>3
  <2>3. ASSUME NEW t \in DOMAIN x.data, x.data[t].command = k PROVE FALSE
    <3>1. t \in DOMAIN c.data /\ c.data[t].command = k /\ ~c.data[t].armed
      BY <1>4, <1>6, <2>1, <2>3 DEF Traced
    <3>2. /\ c.data[t].write \in DOMAIN c.pending
          /\ c.pending[c.data[t].write].kind = "DataRequest"
          /\ c.pending[c.data[t].write].sys = t
          /\ c.pending[c.data[t].write].command = k
      BY <3>1 DEF IInv, Timed, Traced
    <3>3. c.data[t].write = w
      BY <1>10, <3>2 DEF IInv, Weak, Linked
    <3> QED
      BY <1>5, <1>6, <2>3, <3>1, <3>2, <3>3
  <2>4. ~Claimed(x, k)
    BY <2>2, <2>3 DEF Claimed
  <2>5. k \in DOMAIN x.open /\ x.open[k] \in CommandKinds
    BY <1>1, <1>4, <1>7, <1>10 DEF Shape, Fields
  <2>6. Run(p, s, EmitCompletion(x, {k}, error))
    BY <1>2, <1>3, <1>7, <1>8, <2>4, <2>5, RunSettles
  <2>7. CompleteWriteError(x, write, error) = EmitCompletion(x, {k}, error)
    BY <1>10, <2>5 DEF CompleteWriteError, CompleteError, CompleteAs
  <2> QED
    BY <2>6, <2>7 DEF x, r, p
<1> QED BY <1>9, <1>10

\* finish_failed_write continues the run of a failed write.
LEMMA RunFinishesFailedWrite ==
  ASSUME NEW c, NEW w \in DOMAIN c.pending, NEW error, IInv(c), Traced(c),
         error \notin {"open", "unused"}
  PROVE  Run(Ending(c, w, error), c.state,
             FinishFailedWrite(Removed(c, w), w, c.pending[w], error))
<1> DEFINE x == CompleteWriteError(RemoveTransactionForWrite(Removed(c, w), w, c.pending[w]),
                                   c.pending[w], error)
           y == CompleteAll(x, "ConnectionLost")
           p == Ending(c, w, error)
<1>1. Weak(x) /\ Run(p, c.state, x)
  BY FailedWriteWeak, RunWriteFails
<1>2. FinishFailedWrite(Removed(c, w), w, c.pending[w], error)
        = RequestClose(y, "TransportLost", Immediate)
  BY DEF FinishFailedWrite
<1> HIDE DEF x, p
<1>3. Weak(y) /\ Run(p, c.state, y)
  BY <1>1, CompleteAllWeak, RunCompletesAll DEF Weak
<1> HIDE DEF y
<1>4. Run(p, c.state, RequestClose(y, "TransportLost", Immediate))
  BY <1>3, RunCloses DEF Weak, Shape, Excusable, CoreReasons
<1> QED
  BY <1>2, <1>4 DEF p

\* What on_shutdown tells the command of a frame the Writer refused.
RefusalError(reason) == IF reason = "ControlBackpressure" THEN "Backpressure" ELSE "ConnectionLost"

\* on_shutdown with a refused frame continues a run, closing again if need be.
LEMMA RunOnAdmissionFailure ==
  ASSUME NEW c, NEW w \in DOMAIN c.pending, NEW reason, IInv(c), Traced(c)
  PROVE  Run(Caused(Ending(c, w, RefusalError(reason)), reason), c.state,
             OnAdmissionFailure(c, reason, w))
<1> DEFINE error == RefusalError(reason)
           x == CompleteWriteError(RemoveTransactionForWrite(Removed(c, w), w, c.pending[w]),
                                   c.pending[w], error)
           y == CompleteAll(x, "ConnectionLost")
           z == [y EXCEPT !.closing = TRUE, !.closeIssued = TRUE]
           b == Ending(c, w, error)
           p == Caused(b, reason)
           a == CloseGeneration(reason, Immediate)
<1>1. OnAdmissionFailure(c, reason, w) = Emit(z, a)
  BY DEF OnAdmissionFailure, Removed, RefusalError
<1>2. error \notin {"open", "unused"}
  BY DEF RefusalError
<1> HIDE DEF error
<1>a. p.cause = reason
  BY DEF Ending, Snapshot, Caused
<1>3. Weak(x) /\ Run(p, c.state, x)
  <2>1. Weak(x) /\ Run(b, c.state, x)
    BY <1>2, FailedWriteWeak, RunWriteFails
  <2>2. /\ p.open = b.open /\ p.nextWrite = b.nextWrite /\ p.nextReply = b.nextReply
        /\ p.pending = b.pending /\ p.kinds = b.kinds /\ p.replies = b.replies /\ p.closing = b.closing
        /\ p.told = b.told /\ p.bound = b.bound /\ ~b.permit
        /\ b.cause \in CoreReasons
        /\ b.heard = p.heard /\ b.live = p.live /\ b.said = p.said
    BY DEF Ending, Snapshot, Caused, CoreReasons
  <2> HIDE DEF x, p, b
  <2> QED
    BY <2>1, <2>2, RunAllows
<1> HIDE DEF x, p, b
<1>4. Weak(y) /\ Run(p, c.state, y)
  BY <1>3, CompleteAllWeak, RunCompletesAll DEF Weak
<1> HIDE DEF y
<1>5. /\ DOMAIN z = Fields /\ z.closing /\ z.closeIssued
      /\ \A f \in Fields \ {"closing", "closeIssued"} : z[f] = y[f]
  BY <1>4 DEF Weak, Shape, Fields
<1> HIDE DEF z
<1>7. a.act = "CloseGeneration" /\ a.reason = reason /\ a.barrier = None
  BY DEF CloseGeneration, Immediate
<1> HIDE DEF a
<1>8. Run(p, c.state, Emit(z, a))
  BY <1>4, <1>5, <1>7, <1>a, RunEmitsClose DEF Fits, Excusable, Fields
<1> QED
  BY <1>1, <1>8 DEF p, b, error

\* The snapshot of an outcome: a failure, and the commit of a Send or Separate,
\* say what the command is told; the commit of a request only ends its write.
Reported(c, w, outcome) ==
  CASE outcome = "NotWritten"    -> Ending(c, w, "ConnectionLost")
    [] outcome = "Indeterminate" -> Ending(c, w, "DeliveryIndeterminate")
    [] outcome = "Committed"     ->
         IF c.pending[w].kind \in {"DataSend", "Separate"} THEN Ending(c, w, "Ok")
         ELSE Snapshot(Removed(c, w), {}, UnresolvedCommands(c) \ {c.pending[w].command})

\* The Committed arm continues a run; r is the state without the write.
LEMMA RunCommitsWrite ==
  ASSUME NEW c, NEW w \in DOMAIN c.pending, IInv(c), Traced(c),
         NEW r, DOMAIN r = Fields, r.idle \in BOOLEAN,
         \A f \in Fields \ {"idle"} : r[f] = Removed(c, w)[f]
  PROVE  Run(Reported(c, w, "Committed"), c.state, CommitWrite(r, w, c.pending[w]))
<1> DEFINE write == c.pending[w]
           k == write.command
           b == Removed(c, w)
           p == Reported(c, w, "Committed")
           s == c.state
<1>1. /\ Shape(b) /\ DOMAIN b = Fields
      /\ \A f \in Fields \ {"pending", "out"} : b[f] = c[f]
      /\ k # None => /\ k \in DOMAIN b.open
                     /\ b.open[k] = KindFor(write.kind)
  BY RemovedEffect
<1>2. Log(p, s, b) /\ Traced(b) /\ UnresolvedCommands(b) = UnresolvedCommands(c) \ {k}
  BY LogRemoves DEF Reported, Ending
<1>3. IF write.kind \in {"DataSend", "Separate"}
      THEN p.bound = UnresolvedCommands(c) /\ <<k, "Ok">> \in p.told
      ELSE p.bound = UnresolvedCommands(c) \ {k}
  BY DEF Reported, Ending, Snapshot
<1> HIDE DEF b, p
<1>4. \A f \in Fields \ {"idle"} : r[f] = b[f]
  BY DEF b
<1>5. Shape(r)
  BY <1>1, <1>4 DEF Shape, Fields
<1>6. Log(p, s, r) /\ Traced(r) /\ UnresolvedCommands(r) = UnresolvedCommands(c) \ {k}
  BY <1>2, <1>4, LogIdles
<1>7. /\ r.active = c.active /\ r.data = c.data
      /\ k # None => k \in DOMAIN r.open /\ r.open[k] = KindFor(write.kind)
  BY <1>1, <1>4 DEF Fields
<1>8. write.kind \notin {"DataSend", "Separate"} \/ k = None => Run(p, s, r)
  BY <1>3, <1>6 DEF Run, Bounded, UnresolvedCommands
<1>9. CASE write.kind = "TransactionRequest" /\ r.active # None /\ r.active.write = w
  <2> DEFINE x == [r EXCEPT !.active.armed = TRUE]
  <2>1. CommitWrite(r, w, write) = x
    BY <1>9 DEF CommitWrite
  <2>2. DOMAIN r.active = {"kind", "command", "sys", "write", "armed"}
    BY <1>5, <1>9 DEF Shape
  <2>3. /\ DOMAIN x = Fields
        /\ \A f \in Fields \ {"active"} : x[f] = r[f]
        /\ x.active = [r.active EXCEPT !.armed = TRUE]
    BY DEF Fields
  <2> HIDE DEF x
  <2>4. x.active.command = r.active.command /\ x.active.armed
    BY <2>2, <2>3
  <2>5. x.active.command \notin UnresolvedCommands(x)
    <3>1. x.active.command = k \/ x.active.command \notin UnresolvedCommands(c)
      BY <1>7, <1>9, <2>4 DEF Traced
    <3>2. UnresolvedCommands(x) = UnresolvedCommands(c) \ {k}
      BY <1>6, <2>3 DEF UnresolvedCommands, Fields
    <3> QED
      BY <3>1, <3>2
  <2>6. Opened(p, x) /\ Answered(p, x) /\ Written(p, x) /\ IsBatch(x.out)
    BY <1>6, <2>3 DEF Log, Opened, Answered, Written, Fields
  <2>7. Excused(p, x) /\ Announced(s, x) /\ Quieted(p, s, x)
    BY <1>6, <2>3 DEF Log, Excused, Excusable, Exhausted, Announced, Quieted, Fields
  <2>10. Posted(p, x) /\ Spoken(p, x)
    <3>1. x.active.kind = r.active.kind /\ x.active.sys = r.active.sys
      BY <2>2, <2>3
    <3>2. Posted(p, x)
      BY <1>6, <2>3, PostedSame DEF Log, Fields
    <3>3. x.out = r.out /\ Spoken(p, r)
      BY <1>6, <2>3 DEF Log, Fields
    <3> QED
      BY <1>9, <3>1, <3>2, <3>3, SpokenSame
  <2>8. Bounded(p, x)
    BY <1>8, <1>9, <2>3 DEF Run, Bounded, UnresolvedCommands, Fields
  <2>9. Traced(x)
    BY <1>6, <2>3, <2>4, <2>5 DEF Traced, UnresolvedCommands, Fields
  <2> QED
    BY <2>1, <2>6, <2>7, <2>8, <2>9, <2>10 DEF Run, Log, p
<1>10. CASE write.kind = "DataRequest" /\ write.sys \in DOMAIN r.data
            /\ r.data[write.sys].write = w
  <2> DEFINE t == write.sys
             x == [r EXCEPT !.data = Put(@, t, [r.data[t] EXCEPT !.armed = TRUE])]
  <2>1. CommitWrite(r, w, write) = x
    BY <1>10 DEF CommitWrite
  <2>2. /\ DOMAIN x = Fields
        /\ \A f \in Fields \ {"data"} : x[f] = r[f]
        /\ DOMAIN x.data = DOMAIN r.data
        /\ x.data[t] = [r.data[t] EXCEPT !.armed = TRUE]
        /\ \A u \in DOMAIN r.data \ {t} : x.data[u] = r.data[u]
    BY <1>10 DEF Fields, Put
  <2> HIDE DEF x
  <2>3. x.data[t].armed /\ x.data[t].command = r.data[t].command
    BY <1>5, <1>10, <2>2 DEF Shape
  <2>4. UnresolvedCommands(x) = UnresolvedCommands(c) \ {k}
    BY <1>6, <2>2 DEF UnresolvedCommands, Fields
  <2>5. x.data[t].command \notin UnresolvedCommands(x)
    <3>1. x.data[t].command = k \/ x.data[t].command \notin UnresolvedCommands(c)
      BY <1>7, <1>10, <2>3 DEF Traced
    <3> QED
      BY <2>4, <3>1
  <2>6. Opened(p, x) /\ Answered(p, x) /\ Written(p, x) /\ IsBatch(x.out)
    BY <1>6, <2>2 DEF Log, Opened, Answered, Written, Fields
  <2>7. Excused(p, x) /\ Announced(s, x) /\ Quieted(p, s, x)
    BY <1>6, <2>2 DEF Log, Excused, Excusable, Exhausted, Announced, Quieted, Fields
  <2>10. Posted(p, x) /\ Spoken(p, x)
    BY <1>6, <2>2, PostedSame, SpokenSame DEF Log, Fields
  <2>8. Bounded(p, x)
    BY <1>8, <1>10, <2>2 DEF Run, Bounded, UnresolvedCommands, Fields
  <2>9. Traced(x)
    <3>1. \A u \in DOMAIN x.data : u = t \/ (u \in DOMAIN r.data /\ x.data[u] = r.data[u])
      BY <2>2
    <3>2. /\ x.active = r.active /\ x.pending = r.pending /\ x.deferred = r.deferred
          /\ x.open = r.open
      BY <2>2 DEF Fields
    <3>3. UnresolvedCommands(x) = UnresolvedCommands(r)
      BY <1>6, <2>4
    <3> DEFINE U == UnresolvedCommands(x)
    <3>4. /\ r.active # None =>
               IF r.active.armed THEN r.active.command \notin U
               ELSE r.active.write \in DOMAIN r.pending =>
                      r.pending[r.active.write].command = r.active.command
          /\ \A u \in DOMAIN r.data :
               IF r.data[u].armed THEN r.data[u].command \notin U
               ELSE r.data[u].write \in DOMAIN r.pending =>
                      r.pending[r.data[u].write].command = r.data[u].command
          /\ \A j \in DOMAIN r.deferred :
               \/ r.deferred[j] = "ConnectionLost"
               \/ /\ r.deferred[j] = "SessionDeselected" /\ j \in DOMAIN r.open
                  /\ r.open[j] \in {"Send", "Request"}
      BY <1>6, <3>3 DEF Traced
    <3>5. x.data[t].armed /\ x.data[t].command \notin U
      BY <2>3, <2>5
    <3> HIDE DEF U
    <3>6. \A u \in DOMAIN x.data :
            IF x.data[u].armed THEN x.data[u].command \notin U
            ELSE x.data[u].write \in DOMAIN x.pending =>
                   x.pending[x.data[u].write].command = x.data[u].command
      BY ONLY <3>1, <3>2, <3>4, <3>5
    <3> QED
      BY <3>2, <3>4, <3>6 DEF Traced, U
  <2> QED
    BY <2>1, <2>6, <2>7, <2>8, <2>9, <2>10 DEF Run, Log, p
<1>11. CASE write.kind \in {"DataSend", "Separate"} /\ k # None
  <2>1. CommitWrite(r, w, write) = EmitCompletion(r, {k}, "Ok")
    BY <1>7, <1>11 DEF CommitWrite, CompleteSend, CompleteControl, CompleteAs, KindFor
  <2>2. ~Claimed(r, k)
    <3>1. c.open = r.open
      BY <1>1, <1>4 DEF Fields
    <3> QED
      BY <1>7, <1>11, <3>1 DEF IInv, Owners, Closed, Claimed, KindFor
  <2>3. Run(p, s, EmitCompletion(r, {k}, "Ok"))
    BY <1>3, <1>5, <1>6, <1>7, <1>11, <2>2, RunSettles
  <2> QED
    BY <2>1, <2>3 DEF p
<1>12. CASE /\ ~(write.kind = "TransactionRequest" /\ r.active # None /\ r.active.write = w)
            /\ ~(write.kind = "DataRequest" /\ write.sys \in DOMAIN r.data
                   /\ r.data[write.sys].write = w)
            /\ ~(write.kind \in {"DataSend", "Separate"} /\ k # None)
  <2>1. CommitWrite(r, w, write) = r
    BY <1>12 DEF CommitWrite
  <2> QED
    BY <1>8, <1>12, <2>1 DEF p
<1> QED
  BY <1>9, <1>10, <1>11, <1>12

\* The commit of a write whose command's error was deferred answers the command with
\* that error, and continues a run.
LEMMA RunOvertakes ==
  ASSUME NEW c, NEW w \in DOMAIN c.pending, IInv(c), Traced(c),
         NEW r, DOMAIN r = Fields, r.idle \in BOOLEAN,
         \A f \in Fields \ {"idle"} : r[f] = Removed(c, w)[f],
         c.pending[w].kind \in {"TransactionRequest", "DataRequest"},
         NEW k, k = c.pending[w].command, k # None, k \in DOMAIN c.deferred
  PROVE  Run(Reported(c, w, "Committed"), c.state,
             CompleteError([r EXCEPT !.deferred = Drop(@, {k})], k, r.deferred[k]))
<1> DEFINE x == [r EXCEPT !.deferred = Drop(@, {k})]
           p == Reported(c, w, "Committed")
           s == c.state
           b == Removed(c, w)
<1>1. /\ Shape(b) /\ k \in DOMAIN b.open
      /\ \A f \in Fields \ {"pending", "out"} : b[f] = c[f]
  BY RemovedEffect
<1>2. Log(p, s, b) /\ Traced(b) /\ UnresolvedCommands(b) = UnresolvedCommands(c) \ {k}
  BY LogRemoves DEF Reported
<1>3. p.bound = UnresolvedCommands(c) \ {k} /\ p.open = c.open
  BY <1>1 DEF Reported, Snapshot, Fields
<1> HIDE DEF b, p
<1>4. Shape(r) /\ \A f \in Fields \ {"idle"} : r[f] = b[f]
  BY <1>1 DEF Shape, Fields, b
<1>5. Log(p, s, r) /\ Traced(r) /\ UnresolvedCommands(r) = p.bound
  BY <1>2, <1>3, <1>4, LogIdles
<1>6. /\ DOMAIN x = Fields
      /\ \A f \in Fields \ {"deferred"} : x[f] = r[f]
      /\ DOMAIN x.deferred = DOMAIN r.deferred \ {k}
      /\ \A j \in DOMAIN x.deferred : x.deferred[j] = r.deferred[j]
  BY DEF Fields, Drop
<1> HIDE DEF x
<1>7. Opened(p, x) /\ Answered(p, x) /\ Written(p, x) /\ IsBatch(x.out)
  BY <1>5, <1>6 DEF Log, Opened, Answered, Written, Fields
<1>8. Excused(p, x) /\ Announced(s, x) /\ Quieted(p, s, x)
  BY <1>5, <1>6 DEF Log, Excused, Excusable, Exhausted, Announced, Quieted, Fields
<1>15. Posted(p, x) /\ Spoken(p, x)
  BY <1>5, <1>6, PostedSame, SpokenSame DEF Log, Fields
<1>9. Bounded(p, x)
  BY <1>5, <1>6 DEF Bounded, UnresolvedCommands, Fields
<1>10. Traced(x)
  BY <1>5, <1>6 DEF Traced, UnresolvedCommands, Fields
<1>11. Shape(x)
  BY <1>4, <1>6 DEF Shape, Fields
<1>12. /\ x.active = None /\ DOMAIN x.data = {}
       /\ k \in DOMAIN x.open /\ r.deferred = c.deferred
  <2>1. c.active = None /\ DOMAIN c.data = {}
    BY DEF IInv, Closed
  <2> QED
    BY <1>1, <1>4, <1>6, <2>1 DEF Fields
<1>13. Justified(p, k, r.deferred[k]) /\ r.deferred[k] \notin {"open", "unused"}
  BY <1>3, <1>12 DEF Traced, Justified, Fair
<1>14. Run(p, s, CompleteError(x, k, r.deferred[k]))
  BY <1>7, <1>8, <1>9, <1>10, <1>11, <1>12, <1>13, <1>15, RunCompletesError
  DEF Run, Log, Claimed
<1> QED
  BY <1>14 DEF x, p

\* on_write_outcome_at continues a run for every outcome.
LEMMA RunOnWriteOutcome ==
  ASSUME NEW c0, NEW w \in DOMAIN c0.pending, IInv(c0), Traced(c0),
         NEW outcome \in Outcomes, NEW due
  PROVE  Run(Reported(c0, w, outcome), c0.state, OnWriteOutcome(c0, w, outcome, due))
<1> DEFINE write == c0.pending[w]
           k == write.command
           b == Removed(c0, w)
           c == IF outcome = "Committed" /\ ~c0.closing THEN RecordActivity(b) ELSE b
           overtaken == /\ outcome = "Committed"
                        /\ write.kind \in {"TransactionRequest", "DataRequest"}
                        /\ k # None
                        /\ k \in DOMAIN c.deferred
           applied == CASE outcome = "Committed"     -> CommitWrite(c, w, write)
                        [] outcome = "NotWritten"    ->
                             FinishFailedWrite(c, w, write, "ConnectionLost")
                        [] outcome = "Indeterminate" ->
                             FinishFailedWrite(c, w, write, "DeliveryIndeterminate")
           p == Reported(c0, w, outcome)
           s == c0.state
<1>1. OnWriteOutcome(c0, w, outcome, due) =
        IF overtaken THEN CompleteError([c EXCEPT !.deferred = Drop(@, {k})], k, c.deferred[k])
        ELSE ExpireDeadlines(applied, due)
  BY DEF OnWriteOutcome, Removed
<1>2. /\ DOMAIN b = Fields /\ b.idle \in BOOLEAN
      /\ \A f \in Fields \ {"pending", "out"} : b[f] = c0[f]
  BY RemovedEffect DEF Shape
<1>3. DOMAIN c = Fields /\ c.idle \in BOOLEAN /\ \A f \in Fields \ {"idle"} : c[f] = b[f]
  <2> HIDE DEF b
  <2> QED BY <1>2, IdleAssumption DEF RecordActivity, Fields
<1>4. c.deferred = c0.deferred
  BY <1>2, <1>3 DEF Fields
<1>5. outcome # "Committed" => c = b
  OBVIOUS
<1> HIDE DEF c
<1>6. p.nextWrite \in Nat
  <2>1. p.nextWrite = c0.nextWrite
    BY <1>2 DEF Reported, Ending, Snapshot, Outcomes, Fields
  <2> QED
    BY <2>1, SpaceAssumption DEF IInv, Weak, Shape
<1>7. ASSUME ~overtaken PROVE IInv(applied) /\ Run(p, s, applied)
  <2>1. CASE outcome = "Committed"
    <3>1. None \notin DOMAIN c0.deferred
      BY DEF IInv, Weak, Deferral, UnresolvedCommands
    <3>2. write.kind \in {"TransactionRequest", "DataRequest"} => k \notin DOMAIN c0.deferred
      BY <1>4, <1>7, <2>1, <3>1
    <3> QED
      BY <1>3, <2>1, <3>2, CommitWriteIInv, RunCommitsWrite
  <2>2. CASE outcome = "NotWritten"
    <3>1. p = Ending(c0, w, "ConnectionLost")
      BY <2>2 DEF Reported
    <3>2. applied = FinishFailedWrite(b, w, write, "ConnectionLost")
      BY <1>5, <2>2
    <3> HIDE DEF p, applied, b
    <3>3. IInv(applied) /\ Run(p, s, applied)
      BY <3>1, <3>2, FinishFailedWriteIInv, RunFinishesFailedWrite DEF b
    <3> QED BY <3>3 DEF p, applied, b
  <2>3. CASE outcome = "Indeterminate"
    <3>1. p = Ending(c0, w, "DeliveryIndeterminate")
      BY <2>3 DEF Reported
    <3>2. applied = FinishFailedWrite(b, w, write, "DeliveryIndeterminate")
      BY <1>5, <2>3
    <3> HIDE DEF p, applied, b
    <3>3. IInv(applied) /\ Run(p, s, applied)
      BY <3>1, <3>2, FinishFailedWriteIInv, RunFinishesFailedWrite DEF b
    <3> QED BY <3>3 DEF p, applied, b
  <2> QED BY <2>1, <2>2, <2>3 DEF Outcomes
<1>8. ASSUME overtaken
      PROVE  Run(p, s, CompleteError([c EXCEPT !.deferred = Drop(@, {k})], k, c.deferred[k]))
  BY <1>3, <1>4, <1>8, RunOvertakes
<1> HIDE DEF overtaken, applied, p
<1>9. Run(p, s, OnWriteOutcome(c0, w, outcome, due))
  BY <1>1, <1>6, <1>7, <1>8, RunExpires
<1> QED
  BY <1>9 DEF p

\* What finalize_writer tells the command of every write whose outcome never came.
Drained(c) ==
  Snapshot([Begin(c) EXCEPT !.pending = EmptyFunction],
           UnresolvedCommands(c) \X {"DeliveryIndeterminate"}, UnresolvedCommands(c))

\* finalize_writer continues a run of a Core that is closing.
LEMMA RunFinalizes ==
  ASSUME NEW c0, IInv(c0), Traced(c0), c0.closing
  PROVE  Run(Drained(c0), c0.state, FinalizeWriter(c0))
<1> DEFINE c == Begin(c0)
           d == [c EXCEPT !.pending = EmptyFunction]
           ks == UnresolvedCommands(c0)
           e == EmitCompletion(d, ks, "DeliveryIndeterminate")
           p == Drained(c0)
           s == c0.state
<1>1. IInv(c) /\ \A f \in Fields \ {"out"} : c[f] = c0[f]
  BY BeginIInv
<1>2. c.out = <<>>
  BY DEF Begin, IInv, Weak, Shape, Fields
<1>3. FinalizeWriter(c0) = IF ~c.closing THEN FailRuntimeInvariant(c)
                           ELSE CompleteAll(EmitCompletion(d, UnresolvedCommands(c),
                                                           "DeliveryIndeterminate"),
                                            "ConnectionLost")
  BY DEF FinalizeWriter
<1> HIDE DEF c
<1>4. UnresolvedCommands(c) = ks /\ c.closing
  BY <1>1 DEF UnresolvedCommands, Fields
<1>5. FinalizeWriter(c0) = CompleteAll(e, "ConnectionLost")
  BY <1>3, <1>4
<1>6. /\ DOMAIN d = Fields /\ DOMAIN d.pending = {}
      /\ \A f \in Fields \ {"pending"} : d[f] = c[f]
  BY <1>1 DEF IInv, Weak, Shape, Fields, EmptyFunction
<1> HIDE DEF d
<1>7. Shape(d)
  BY <1>1, <1>6 DEF IInv, Weak, Shape, Fields
<1>8. /\ d.out = <<>> /\ d.open = c0.open /\ d.deferred = c0.deferred /\ d.active = c0.active
      /\ d.data = c0.data /\ d.nextWrite = c0.nextWrite /\ d.state = c0.state
      /\ d.closing = c0.closing /\ d.nextReply = c0.nextReply /\ d.replies = c0.replies
  BY <1>1, <1>2, <1>6 DEF Fields
<1>9. Log(p, s, d) /\ Traced(d)
  <2>1. Log(Snapshot(d, ks \X {"DeliveryIndeterminate"}, ks), s, d) /\ Traced(d)
    BY <1>6, <1>8, LogDrops DEF IInv, Weak
  <2> QED
    BY <2>1 DEF Drained, c, d
<1>10. p.bound = ks /\ \A k \in ks : <<k, "DeliveryIndeterminate">> \in p.told
  BY DEF Drained, Snapshot
<1> HIDE DEF p
<1>11. ks \subseteq DOMAIN d.open /\ \A k \in ks : ~Claimed(d, k)
  BY <1>8 DEF IInv, Weak, Linked, UnresolvedCommands, Claimed, Closed
<1>12. Log(p, s, e)
  BY <1>7, <1>9, <1>10, <1>11, LogCompletes DEF Justified
<1>13. Traced(e)
  BY <1>7, <1>9, <1>11, TracedCompletes
<1>14. DOMAIN e.open = DOMAIN d.open \ ks /\ Shape(e)
  <2>1. Linked(d) /\ DOMAIN d.deferred \ ks \subseteq UnresolvedCommands(d)
    BY <1>6, <1>8 DEF IInv, Weak, Linked, Deferral
  <2> QED
    BY <1>7, <2>1, EmitCompletionEffect, EmitCompletionSettles DEF Weak
<1> HIDE DEF e, ks
<1>15. Run(p, s, e)
  BY <1>10, <1>12, <1>13, <1>14 DEF Run, Bounded
<1>16. Run(p, s, CompleteAll(e, "ConnectionLost"))
  BY <1>14, <1>15, RunCompletesAll
<1> QED
  BY <1>5, <1>16 DEF p

-----------------------------------------------------------------------------
(* What every open command waits for.                                      *)
(*                                                                         *)
(* X are the commands a handler has in hand: it has taken them from what   *)
(* they waited for and is about to answer them.  Between two handlers X is *)
(* empty.                                                                  *)

\* The live transaction, the drain or a live request will complete k.
Attended(c, k) ==
  \/ c.active # None /\ c.active.command = k
  \/ c.drain = k
  \/ \E s \in DOMAIN c.data : c.data[s].command = k

\* The write w of a transaction or a request is the one its live entry waits for.
Backed(c, w) ==
  /\ c.pending[w].kind = "TransactionRequest" =>
       /\ c.active # None
       /\ c.active.write = w
       /\ c.active.command = c.pending[w].command
  /\ c.pending[w].kind = "DataRequest" =>
       /\ c.pending[w].sys \in DOMAIN c.data
       /\ c.data[c.pending[w].sys].write = w
       /\ c.data[c.pending[w].sys].command = c.pending[w].command

\* While Core is open: every command is waited for, and no write outlives its entry.
LiveCare(c, X) ==
  /\ \A k \in DOMAIN c.open : k \in X \/ k \in UnresolvedCommands(c) \/ Attended(c, k)
  /\ \A w \in DOMAIN c.pending : c.pending[w].command \in X \cup {None} \/ Backed(c, w)

\* While it is closing: only writes are waited for, and the commit of a request
\* settles the error deferred for it.
ClosingCare(c, X) ==
  /\ \A k \in DOMAIN c.open :
       \/ k \in X \/ k \in UnresolvedCommands(c)
       \/ c.open[k] = "Control" /\ c.state = "NotSelected"
  /\ \A w \in DOMAIN c.pending :
       \/ c.pending[w].command \in X \cup {None} \cup DOMAIN c.deferred
       \/ c.pending[w].kind \notin {"TransactionRequest", "DataRequest"}

Cared(c, X) == IF c.closing THEN ClosingCare(c, X) ELSE LiveCare(c, X)

\* A drain keeps the session Selected.
Pausing(c) == c.drain # None /\ ~c.closing => c.state = "Selected"

\* The System Bytes of requests and of tombstones were handed out, each once.
Retirement(c) ==
  /\ IsBatch(c.tomb) /\ Len(c.tomb) <= TombstoneCapacity
  /\ \A s \in DOMAIN c.data : c.data[s].contract.sys = s /\ s < c.nextSys
  /\ \A i \in DOMAIN c.tomb :
       /\ c.tomb[i].sys \in SystemBytes \ DOMAIN c.data
       /\ c.tomb[i].sys < c.nextSys
       /\ \A j \in DOMAIN c.tomb : c.tomb[i].sys = c.tomb[j].sys => i = j

\* Every capability stands for the header of a Primary.
Promised(c) == \A r \in DOMAIN c.replies : c.replies[r].function \in FunctionCodes

Awaits(c, X) == Cared(c, X) /\ Pausing(c) /\ Retirement(c) /\ Promised(c)

\* With more commands in hand, and without None, which is no command.
LEMMA AwaitsMore ==
  ASSUME NEW c, NEW X, NEW Y, Awaits(c, X), Shape(c), X \subseteq Y \cup {None}
  PROVE  Awaits(c, Y)
<1>1. None \notin DOMAIN c.open
  BY NoneAssumption DEF Shape
<1>2. LiveCare(c, X) => LiveCare(c, Y)
  BY <1>1 DEF LiveCare
<1>3. ClosingCare(c, X) => ClosingCare(c, Y)
  BY <1>1 DEF ClosingCare
<1> QED
  BY <1>2, <1>3 DEF Awaits, Cared

\* A handler may change what nobody waits for, and the state while nothing drains.
LEMMA AwaitsSame ==
  ASSUME NEW c, NEW d, NEW X, Awaits(c, X),
         d.open = c.open, d.pending = c.pending, d.deferred = c.deferred,
         d.active = c.active, d.drain = c.drain, d.data = c.data, d.closing = c.closing,
         d.tomb = c.tomb, d.nextSys = c.nextSys,
         \A r \in DOMAIN d.replies : r \in DOMAIN c.replies /\ d.replies[r] = c.replies[r],
         \/ d.state = c.state
         \/ ~c.closing /\ (c.drain = None \/ d.state = "Selected")
  PROVE  Awaits(d, X)
<1>1. LiveCare(c, X) => LiveCare(d, X)
  BY DEF LiveCare, Backed, Attended, UnresolvedCommands
<1>2. c.closing /\ ClosingCare(c, X) => ClosingCare(d, X)
  BY DEF ClosingCare, UnresolvedCommands
<1>3. Pausing(d) /\ Retirement(d) /\ Promised(d)
  BY DEF Awaits, Pausing, Retirement, Promised
<1> QED
  BY <1>1, <1>2, <1>3 DEF Awaits, Cared

\* CoreActions::push.
LEMMA AwaitsEmit ==
  ASSUME NEW c, NEW a, NEW X, Awaits(c, X), DOMAIN c = Fields
  PROVE  Awaits(Emit(c, a), X)
<1> DEFINE r == Emit(c, a)
<1>1. \A f \in Fields \ {"out"} : r[f] = c[f]
  BY EmitFields
<1> HIDE DEF r
<1> QED
  BY <1>1, AwaitsSame DEF Fields, r

\* emit_completion takes its commands off the handler's hands.
LEMMA AwaitsCompletes ==
  ASSUME NEW c, NEW ks, NEW result, NEW X, Awaits(c, X), Shape(c)
  PROVE  Awaits(EmitCompletion(c, ks, result), X \ ks)
<1> DEFINE r == EmitCompletion(c, ks, result)
<1>1. /\ \A f \in Fields \ {"open", "deferred", "pending", "out"} : r[f] = c[f]
      /\ DOMAIN r.open = DOMAIN c.open \ ks
      /\ \A k \in DOMAIN r.open : r.open[k] = c.open[k]
      /\ DOMAIN r.deferred = DOMAIN c.deferred \ ks
      /\ DOMAIN r.pending = DOMAIN c.pending
      /\ \A w \in DOMAIN c.pending :
           /\ r.pending[w].kind = c.pending[w].kind
           /\ r.pending[w].sys = c.pending[w].sys
           /\ r.pending[w].command = IF c.pending[w].command \in ks THEN None
                                     ELSE c.pending[w].command
  BY EmitCompletionEffect
<1> HIDE DEF r
<1>2. /\ r.active = c.active /\ r.drain = c.drain /\ r.data = c.data /\ r.closing = c.closing
      /\ r.state = c.state /\ r.tomb = c.tomb /\ r.nextSys = c.nextSys /\ r.replies = c.replies
  BY <1>1 DEF Fields
<1>3. UnresolvedCommands(c) \ ks \subseteq UnresolvedCommands(r)
  BY <1>1 DEF UnresolvedCommands
<1>4. LiveCare(c, X) => LiveCare(r, X \ ks)
  <2> SUFFICES ASSUME LiveCare(c, X) PROVE LiveCare(r, X \ ks)
    OBVIOUS
  <2>1. \A k : Attended(c, k) => Attended(r, k)
    BY <1>2 DEF Attended
  <2>2. ASSUME NEW w \in DOMAIN r.pending
        PROVE  r.pending[w].command \in (X \ ks) \cup {None} \/ Backed(r, w)
    <3>1. CASE c.pending[w].command \in ks
      BY <1>1, <3>1
    <3>2. CASE c.pending[w].command \notin ks
      <4>1. r.pending[w].command = c.pending[w].command
        BY <1>1, <3>2
      <4>2. Backed(c, w) => Backed(r, w)
        BY <1>1, <1>2, <4>1 DEF Backed
      <4> QED
        BY <1>1, <3>2, <4>1, <4>2 DEF LiveCare
    <3> QED BY <3>1, <3>2
  <2> QED
    BY <1>1, <1>3, <2>1, <2>2 DEF LiveCare
<1>5. ClosingCare(c, X) => ClosingCare(r, X \ ks)
  BY <1>1, <1>2, <1>3 DEF ClosingCare
<1>6. Pausing(r) /\ Retirement(r) /\ Promised(r)
  BY <1>2 DEF Awaits, Pausing, Retirement, Promised
<1> QED
  BY <1>2, <1>4, <1>5, <1>6 DEF Awaits, Cared, r

\* What an immediate close leaves.
LEMMA GivenUpAwaits ==
  ASSUME NEW c, Weak(c), GivenUp(c), c.closing, Retirement(c), Promised(c)
  PROVE  Awaits(c, {})
BY DEF Awaits, Cared, ClosingCare, Pausing, Weak, Linked, Deferral, GivenUp

\* complete_all followed by a close, however the close is announced.
LEMMA CloseAwaits ==
  ASSUME NEW c, NEW error, NEW d, Weak(c), Retirement(c), Weak(d), d.closing,
         d.open = CompleteAll(c, error).open, d.deferred = CompleteAll(c, error).deferred,
         DOMAIN d.data = {}, d.tomb = c.tomb, d.nextSys = c.nextSys,
         d.replies = EmptyFunction \/ (d.replies = c.replies /\ Promised(c))
  PROVE  Awaits(d, {})
<1>1. GivenUp(d)
  BY CompleteAllGivesUp DEF GivenUp
<1>2. Retirement(d)
  BY DEF Retirement
<1>3. Promised(d)
  BY DEF Promised, EmptyFunction
<1> QED
  BY <1>1, <1>2, <1>3, GivenUpAwaits

\* request_close changes the close flags, the drain and the capabilities.
LEMMA RequestCloseFields ==
  ASSUME NEW c, NEW reason, NEW barrier, DOMAIN c = Fields
  PROVE  LET r == RequestClose(c, reason, barrier)
         IN  /\ DOMAIN r = Fields /\ r.closing /\ r.replies = EmptyFunction
             /\ \A f \in Fields \ {"closing", "drain", "replies", "closeIssued", "out"} :
                  r[f] = c[f]
<1> DEFINE d == [c EXCEPT !.closing = TRUE, !.drain = None,
                          !.replies = EmptyFunction, !.closeIssued = TRUE]
<1>1. /\ DOMAIN d = Fields /\ d.closing /\ d.replies = EmptyFunction
      /\ \A f \in Fields \ {"closing", "drain", "replies", "closeIssued"} : d[f] = c[f]
  BY DEF Fields
<1>2. RequestClose(c, reason, barrier)
        = IF c.closeIssued THEN d ELSE Emit(d, CloseGeneration(reason, barrier))
  BY DEF RequestClose
<1> HIDE DEF d
<1>3. \A a : /\ DOMAIN Emit(d, a) = Fields
             /\ \A f \in Fields \ {"out"} : Emit(d, a)[f] = d[f]
  BY <1>1, EmitFields
<1>4. \A a : Emit(d, a).closing /\ Emit(d, a).replies = EmptyFunction
  BY <1>1, <1>3 DEF Fields
<1> QED
  BY <1>1, <1>2, <1>3, <1>4

\* complete_all and an immediate request_close.
LEMMA CloseAllAwaits ==
  ASSUME NEW c, NEW reason, Weak(c), Retirement(c)
  PROVE  Awaits(CloseAll(c, reason), {})
<1> DEFINE e == CompleteAll(c, "ConnectionLost")
           d == RequestClose(e, reason, Immediate)
<1>1. /\ Weak(e) /\ DOMAIN e.data = {}
      /\ \A f \in Fields \ {"active", "data", "open", "deferred", "pending", "out"} : e[f] = c[f]
  BY CompleteAllWeak
<1>2. e.tomb = c.tomb /\ e.nextSys = c.nextSys
  BY <1>1 DEF Fields
<1> HIDE DEF e
<1>3. DOMAIN e = Fields
  BY <1>1 DEF Weak, Shape
<1>4. Weak(d) /\ d.closing
  BY <1>1, RequestCloseEffect
<1>5. /\ d.open = e.open /\ d.deferred = e.deferred /\ d.data = e.data
      /\ d.tomb = e.tomb /\ d.nextSys = e.nextSys /\ d.replies = EmptyFunction
  BY <1>3, RequestCloseFields DEF Fields
<1> HIDE DEF d
<1>6. /\ d.open = CompleteAll(c, "ConnectionLost").open
      /\ d.deferred = CompleteAll(c, "ConnectionLost").deferred
  BY <1>5 DEF e
<1>7. DOMAIN d.data = {} /\ d.tomb = c.tomb /\ d.nextSys = c.nextSys
  BY <1>1, <1>2, <1>5
<1>8. d.replies = EmptyFunction \/ (d.replies = c.replies /\ Promised(c))
  BY <1>5
<1>9. Awaits(d, {})
  BY ONLY Weak(c), Retirement(c), <1>4, <1>6, <1>7, <1>8, CloseAwaits
<1> QED
  BY <1>9 DEF CloseAll, d, e

\* fail_runtime_invariant.
LEMMA FailureAwaits ==
  ASSUME NEW c, Weak(c), Retirement(c) PROVE Awaits(FailRuntimeInvariant(c), {})
BY CloseAllAwaits DEF FailRuntimeInvariant

\* allocate_request_identifiers without an identifier left.
LEMMA RefusalAwaits ==
  ASSUME NEW c, Weak(c), Retirement(c) PROVE Awaits(RefuseIdentifiers(c), {})
BY CloseAllAwaits, FailureAwaits DEF RefuseIdentifiers

\* complete_error and its kin: the command is no longer in hand.
LEMMA AwaitsCompletesAs ==
  ASSUME NEW c, NEW k, NEW kinds, NEW result, NEW X, Awaits(c, X), Weak(c)
  PROVE  /\ Awaits(CompleteAs(c, k, kinds, result), X \ {k})
         /\ Shape(CompleteAs(c, k, kinds, result))
<1>1. Weak(CompleteAs(c, k, kinds, result))
  BY CompleteAsWeak
<1>2. CASE k \in DOMAIN c.open /\ c.open[k] \in kinds
  BY <1>1, <1>2, AwaitsCompletes DEF CompleteAs, Weak
<1>3. CASE ~(k \in DOMAIN c.open /\ c.open[k] \in kinds)
  <2>1. CompleteAs(c, k, kinds, result) = FailRuntimeInvariant(c)
    BY <1>3 DEF CompleteAs
  <2>2. Awaits(FailRuntimeInvariant(c), {})
    BY FailureAwaits DEF Awaits
  <2> QED
    BY <1>1, <2>1, <2>2, AwaitsMore DEF Weak
<1> QED
  BY <1>2, <1>3

\* complete_error.
LEMMA AwaitsCompletesError ==
  ASSUME NEW c, NEW k, NEW result, NEW X, Awaits(c, X), Weak(c)
  PROVE  Awaits(CompleteError(c, k, result), X \ {k})
BY AwaitsCompletesAs DEF CompleteError

\* complete_control_transaction of the transaction whose command is in hand.
LEMMA AwaitsCompletesTransaction ==
  ASSUME NEW c, NEW t, NEW result, Awaits(c, {t.command}), Weak(c)
  PROVE  Awaits(CompleteControlTransaction(c, t, result), {})
<1>1. CASE t.command = None
  BY <1>1, AwaitsMore DEF CompleteControlTransaction, Weak
<1>2. CASE t.command # None
  <2>1. Awaits(CompleteControl(c, t.command, result), {t.command} \ {t.command})
    BY AwaitsCompletesAs DEF CompleteControl
  <2> QED
    BY <1>2, <2>1 DEF CompleteControlTransaction
<1> QED
  BY <1>1, <1>2

\* A handler takes the command of the live transaction in hand.
LEMMA AwaitsDropActive ==
  ASSUME NEW c, NEW X, Awaits(c, X), c.active # None, DOMAIN c = Fields
  PROVE  Awaits([c EXCEPT !.active = None], X \cup {c.active.command})
<1> DEFINE d == [c EXCEPT !.active = None]
           Y == X \cup {c.active.command}
<1>1. d.active = None /\ \A f \in Fields \ {"active"} : d[f] = c[f]
  BY DEF Fields
<1> HIDE DEF d
<1>2. /\ d.open = c.open /\ d.pending = c.pending /\ d.deferred = c.deferred
      /\ d.drain = c.drain /\ d.data = c.data /\ d.closing = c.closing /\ d.state = c.state
      /\ d.tomb = c.tomb /\ d.nextSys = c.nextSys /\ d.replies = c.replies
  BY <1>1 DEF Fields
<1>3. UnresolvedCommands(d) = UnresolvedCommands(c)
  BY <1>2 DEF UnresolvedCommands
<1>4. \A k : Attended(c, k) => k \in Y \/ Attended(d, k)
  BY <1>2 DEF Attended
<1>5. \A w \in DOMAIN c.pending : Backed(c, w) => c.pending[w].command \in Y \/ Backed(d, w)
  BY <1>2 DEF Backed
<1>6. LiveCare(c, X) => LiveCare(d, Y)
  BY <1>2, <1>3, <1>4, <1>5 DEF LiveCare
<1>7. ClosingCare(c, X) => ClosingCare(d, Y)
  BY <1>2, <1>3 DEF ClosingCare
<1>8. Pausing(d) /\ Retirement(d) /\ Promised(d)
  BY <1>2 DEF Awaits, Pausing, Retirement, Promised
<1> QED
  BY <1>2, <1>6, <1>7, <1>8 DEF Awaits, Cared, d

\* It takes the command of the drain in hand.
LEMMA AwaitsDropDrain ==
  ASSUME NEW c, NEW X, Awaits(c, X), DOMAIN c = Fields
  PROVE  Awaits([c EXCEPT !.drain = None], X \cup {c.drain})
<1> DEFINE d == [c EXCEPT !.drain = None]
           Y == X \cup {c.drain}
<1>1. d.drain = None /\ \A f \in Fields \ {"drain"} : d[f] = c[f]
  BY DEF Fields
<1> HIDE DEF d
<1>2. /\ d.open = c.open /\ d.pending = c.pending /\ d.deferred = c.deferred
      /\ d.active = c.active /\ d.data = c.data /\ d.closing = c.closing /\ d.state = c.state
      /\ d.tomb = c.tomb /\ d.nextSys = c.nextSys /\ d.replies = c.replies
  BY <1>1 DEF Fields
<1>3. UnresolvedCommands(d) = UnresolvedCommands(c)
  BY <1>2 DEF UnresolvedCommands
<1>4. \A k : Attended(c, k) => k \in Y \/ Attended(d, k)
  BY <1>2 DEF Attended
<1>5. \A w \in DOMAIN c.pending : Backed(c, w) => Backed(d, w)
  BY <1>2 DEF Backed
<1>6. LiveCare(c, X) => LiveCare(d, Y)
  BY <1>2, <1>3, <1>4, <1>5 DEF LiveCare
<1>7. ClosingCare(c, X) => ClosingCare(d, Y)
  BY <1>2, <1>3 DEF ClosingCare
<1>8. Pausing(d) /\ Retirement(d) /\ Promised(d)
  BY <1>1, <1>2 DEF Awaits, Pausing, Retirement, Promised
<1> QED
  BY <1>2, <1>6, <1>7, <1>8 DEF Awaits, Cared, d

\* It takes the commands of the requests S in hand.
LEMMA AwaitsDropData ==
  ASSUME NEW c, NEW d, NEW X, NEW S, Awaits(c, X), DOMAIN c = Fields,
         \A f \in Fields \ {"data", "tomb"} : d[f] = c[f],
         d.data = Drop(c.data, S), Retirement(d)
  PROVE  Awaits(d, X \cup {c.data[s].command : s \in S \cap DOMAIN c.data})
<1> DEFINE Y == X \cup {c.data[s].command : s \in S \cap DOMAIN c.data}
<1>1. /\ d.open = c.open /\ d.pending = c.pending /\ d.deferred = c.deferred
      /\ d.active = c.active /\ d.drain = c.drain /\ d.closing = c.closing
      /\ d.state = c.state /\ d.replies = c.replies
  BY DEF Fields
<1>2. /\ DOMAIN d.data = DOMAIN c.data \ S
      /\ \A s \in DOMAIN c.data \ S : d.data[s] = c.data[s]
  BY DEF Drop
<1>3. UnresolvedCommands(d) = UnresolvedCommands(c)
  BY <1>1 DEF UnresolvedCommands
<1>4. ASSUME NEW s \in DOMAIN c.data PROVE s \in DOMAIN d.data \/ c.data[s].command \in Y
  BY <1>2
<1>5. \A k : Attended(c, k) => k \in Y \/ Attended(d, k)
  BY <1>1, <1>2, <1>4 DEF Attended
<1>6. \A w \in DOMAIN c.pending : Backed(c, w) => c.pending[w].command \in Y \/ Backed(d, w)
  BY <1>1, <1>2, <1>4 DEF Backed
<1>7. X \subseteq Y
  OBVIOUS
<1> HIDE DEF Y
<1>8. LiveCare(c, X) => LiveCare(d, Y)
  BY <1>1, <1>3, <1>5, <1>6, <1>7 DEF LiveCare
<1>9. ClosingCare(c, X) => ClosingCare(d, Y)
  BY <1>1, <1>3, <1>7 DEF ClosingCare
<1>10. Pausing(d) /\ Promised(d)
  BY <1>1 DEF Awaits, Pausing, Promised
<1> QED
  BY <1>1, <1>8, <1>9, <1>10 DEF Awaits, Cared, Y

\* A new write carries the command k, which is no longer in hand.
LEMMA AwaitsWrites ==
  ASSUME NEW c, NEW d, NEW w, NEW write, NEW X, Awaits(c, X), Shape(c), w \notin DOMAIN c.pending,
         d.pending = Put(c.pending, w, write),
         write.command = None \/ write.command \notin UnresolvedCommands(c),
         d.open = c.open, d.deferred = c.deferred, d.closing = c.closing,
         d.drain = c.drain, d.state = c.state, Retirement(d),
         \A r \in DOMAIN d.replies : r \in DOMAIN c.replies /\ d.replies[r] = c.replies[r],
         \A j : Attended(c, j) => Attended(d, j),
         \A v \in DOMAIN c.pending : Backed(c, v) => Backed(d, v),
         write.command = None \/ Backed(d, w),
         c.closing => write.kind \notin {"TransactionRequest", "DataRequest"}
  PROVE  Awaits(d, X \ {write.command})
<1> DEFINE k == write.command
           Y == X \ {k}
<1>1. /\ DOMAIN d.pending = DOMAIN c.pending \cup {w}
      /\ \A v \in DOMAIN c.pending : d.pending[v] = c.pending[v]
      /\ d.pending[w] = write
  BY DEF Put
<1>2. UnresolvedCommands(c) \cup ({k} \ {None}) \subseteq UnresolvedCommands(d)
  BY <1>1 DEF UnresolvedCommands
<1>3. \A v \in DOMAIN c.pending : c.pending[v].command \in X \cup {None} =>
        c.pending[v].command \in Y \cup {None}
  BY DEF UnresolvedCommands
<1>4. \A j \in DOMAIN c.open : j # None /\ (j \in X => j \in Y \/ j = k)
  BY NoneAssumption DEF Shape
<1>5. k # None => k \in UnresolvedCommands(d)
  BY <1>2
<1> HIDE DEF Y
<1>6. LiveCare(c, X) => LiveCare(d, Y)
  <2> SUFFICES ASSUME LiveCare(c, X) PROVE LiveCare(d, Y)
    OBVIOUS
  <2>1. ASSUME NEW j \in DOMAIN d.open
        PROVE  j \in Y \/ j \in UnresolvedCommands(d) \/ Attended(d, j)
    BY <1>2, <1>4, <1>5 DEF LiveCare
  <2>2. ASSUME NEW v \in DOMAIN d.pending
        PROVE  d.pending[v].command \in Y \cup {None} \/ Backed(d, v)
    BY <1>1, <1>3 DEF LiveCare
  <2> QED
    BY <2>1, <2>2 DEF LiveCare
<1>7. ClosingCare(c, X) /\ c.closing => ClosingCare(d, Y)
  BY <1>1, <1>2, <1>3, <1>4, <1>5 DEF ClosingCare
<1>8. Pausing(d) /\ Promised(d)
  BY DEF Awaits, Pausing, Promised
<1>9. Awaits(d, Y)
  BY <1>6, <1>7, <1>8 DEF Awaits, Cared
<1> QED
  BY <1>9 DEF Y

\* A request has been numbered.
LEMMA RetirementNumbers ==
  ASSUME NEW c, NEW d, Retirement(c), Weak(c), c.nextSys # SystemBytesSpace,
         d.tomb = c.tomb, d.data = c.data, d.nextSys = c.nextSys + 1
  PROVE  Retirement(d)
<1>1. c.nextSys \in Nat /\ \A s \in SystemBytes : s \in Nat /\ (s < c.nextSys => s < c.nextSys + 1)
  BY SpaceAssumption DEF Weak, Shape, SystemBytes
<1>2. DOMAIN c.data \subseteq SystemBytes
  BY DEF Weak, Shape
<1> QED
  BY <1>1, <1>2 DEF Retirement

\* send_response.
LEMMA ResponseAwaits ==
  ASSUME NEW c, NEW m, NEW X, IInv(c), Awaits(c, X)
  PROVE  Awaits(SendResponse(c, m), X)
<1>1. IInv(SendResponse(c, m))
  BY SendResponseEffect
<1>2. CASE c.nextWrite = WriteSpace
  <2>1. Awaits(FailRuntimeInvariant(c), {})
    BY FailureAwaits DEF IInv, Awaits
  <2>2. SendResponse(c, m) = FailRuntimeInvariant(c)
    BY <1>2 DEF SendResponse
  <2> QED
    BY <1>1, <2>1, <2>2, AwaitsMore DEF IInv, Weak
<1>3. CASE c.nextWrite # WriteSpace
  <2> DEFINE write == PendingWrite("Response", None, None, None)
             d == [c EXCEPT !.nextWrite = @ + 1, !.pending = Put(@, c.nextWrite, write)]
  <2>1. SendResponse(c, m) = Emit(d, SendFrame(c.nextWrite, m))
    BY <1>3 DEF SendResponse
  <2>2. /\ DOMAIN d = Fields /\ d.pending = Put(c.pending, c.nextWrite, write)
        /\ \A f \in Fields \ {"nextWrite", "pending"} : d[f] = c[f]
    BY DEF IInv, Weak, Shape, Fields
  <2>3. write.command = None /\ write.kind = "Response"
    BY DEF PendingWrite
  <2> HIDE DEF d, write
  <2>4. /\ d.open = c.open /\ d.deferred = c.deferred /\ d.closing = c.closing
        /\ d.drain = c.drain /\ d.state = c.state /\ d.replies = c.replies
        /\ d.active = c.active /\ d.data = c.data /\ d.tomb = c.tomb /\ d.nextSys = c.nextSys
    BY <2>2 DEF Fields
  <2>5. c.nextWrite \notin DOMAIN c.pending
    BY <1>3, FreshWrite DEF IInv
  <2>6. \A j : Attended(c, j) => Attended(d, j)
    BY <2>4 DEF Attended
  <2>7. \A v \in DOMAIN c.pending : d.pending[v] = c.pending[v]
    BY <2>2, <2>5 DEF Put
  <2>8. \A v \in DOMAIN c.pending : Backed(c, v) => Backed(d, v)
    BY <2>4, <2>7 DEF Backed
  <2>9. Retirement(d)
    BY <2>4 DEF Awaits, Retirement
  <2>10. Awaits(d, X \ {write.command})
    BY <2>2, <2>3, <2>4, <2>5, <2>6, <2>8, <2>9, AwaitsWrites DEF IInv, Weak
  <2>11. Awaits(SendResponse(c, m), X \ {write.command})
    BY <2>1, <2>2, <2>10, AwaitsEmit
  <2> QED
    BY <1>1, <2>3, <2>11, AwaitsMore DEF IInv, Weak
<1> QED
  BY <1>2, <1>3

\* start_transaction, with its command in hand.
LEMMA TransactionAwaits ==
  ASSUME NEW c, NEW kind \in TransactionKinds, NEW k, IInv(c), ~c.closing, c.active = None,
         k = None \/ k \in DOMAIN c.open \ UnresolvedCommands(c), Awaits(c, {k})
  PROVE  Awaits(StartTransaction(c, kind, k), {})
<1>1. CASE IdentifiersExhausted(c)
  BY <1>1, RefusalAwaits DEF StartTransaction, IInv, Awaits
<1>2. CASE ~IdentifiersExhausted(c)
  <2> DEFINE write == PendingWrite("TransactionRequest", k, None, None)
             active == [kind |-> kind, command |-> k, sys |-> c.nextSys,
                        write |-> c.nextWrite, armed |-> FALSE]
             d == [AllocateRequestIdentifiers(c) EXCEPT
                     !.active = active, !.pending = Put(@, c.nextWrite, write)]
             a == SendFrame(c.nextWrite, TransactionMessage(kind, c.nextSys))
  <2>1. StartTransaction(c, kind, k) = Emit(d, a)
    BY <1>2 DEF StartTransaction
  <2>2. /\ DOMAIN d = Fields /\ d.pending = Put(c.pending, c.nextWrite, write)
        /\ d.active = active /\ d.nextSys = c.nextSys + 1
        /\ \A f \in Fields \ {"nextWrite", "nextSys", "active", "pending"} : d[f] = c[f]
    BY DEF AllocateRequestIdentifiers, IInv, Weak, Shape, Fields
  <2>3. write.command = k /\ write.kind = "TransactionRequest"
    BY DEF PendingWrite
  <2>4. active # None /\ active.write = c.nextWrite /\ active.command = k
    <3>1. c.nextSys \in Nat /\ c.nextWrite \in Nat
      BY SpaceAssumption DEF IInv, Weak, Shape
    <3>2. k \in Commands \cup {None}
      BY DEF IInv, Weak, Shape
    <3>3. active \in [kind : {"Select", "Deselect", "Linktest"}, command : Commands \cup {None},
                     sys : Nat, write : Nat, armed : BOOLEAN]
      BY <3>1, <3>2 DEF TransactionKinds
    <3>4. active # None
      BY ONLY <3>3, TransactionAssumption
    <3> QED
      BY <3>4
  <2> HIDE DEF d, write, active, a
  <2>5. /\ d.open = c.open /\ d.deferred = c.deferred /\ d.closing = c.closing
        /\ d.drain = c.drain /\ d.state = c.state /\ d.replies = c.replies
        /\ d.data = c.data /\ d.tomb = c.tomb
    BY <2>2 DEF Fields
  <2>6. c.nextWrite \notin DOMAIN c.pending /\ c.nextSys # SystemBytesSpace
    BY <1>2, FreshWrite DEF IInv, IdentifiersExhausted
  <2>7. \A j : Attended(c, j) => Attended(d, j)
    BY <2>5 DEF Attended
  <2>8. /\ \A v \in DOMAIN c.pending : d.pending[v] = c.pending[v]
        /\ d.pending[c.nextWrite] = write
    BY <2>2, <2>6 DEF Put
  <2>9. \A v \in DOMAIN c.pending : Backed(c, v) => Backed(d, v)
    BY <2>5, <2>8 DEF Backed
  <2>10. Backed(d, c.nextWrite)
    BY <2>2, <2>3, <2>4, <2>8 DEF Backed
  <2>11. Retirement(d)
    BY <2>2, <2>5, <2>6, RetirementNumbers DEF Awaits, IInv
  <2>12. Awaits(d, {k} \ {write.command})
    BY <2>2, <2>3, <2>5, <2>6, <2>7, <2>9, <2>10, <2>11, AwaitsWrites DEF IInv, Weak
  <2>13. {k} \ {write.command} = {}
    BY <2>3
  <2> QED
    BY <2>1, <2>2, <2>12, <2>13, AwaitsEmit
<1> QED
  BY <1>1, <1>2

\* A drain waits for Data work.
DrainWaits(c) == c.drain # None /\ ~c.closing => DataInUse(c)

\* r neither starts a drain nor ends Data work, unless it closes.
KeepsWork(c, r) == r.closing \/ (r.drain \in {c.drain, None} /\ (DataInUse(c) => DataInUse(r)))

\* A drain still waits then.
LEMMA WorkKeepsDrain ==
  ASSUME NEW c, NEW r, DrainWaits(c), KeepsWork(c, r), c.closing => r.closing
  PROVE  DrainWaits(r)
BY DEF DrainWaits, KeepsWork

\* emit_completion, and complete_error and its kin.
LEMMA CompletionKeepsWork ==
  ASSUME NEW c, NEW k, NEW kinds, NEW result, Weak(c)
  PROVE  /\ KeepsWork(c, CompleteAs(c, k, kinds, result))
         /\ c.closing => CompleteAs(c, k, kinds, result).closing
<1>1. CASE k \in DOMAIN c.open /\ c.open[k] \in kinds
  <2> DEFINE r == EmitCompletion(c, {k}, result)
  <2>1. CompleteAs(c, k, kinds, result) = r
    BY <1>1 DEF CompleteAs
  <2>2. /\ \A f \in Fields \ {"open", "deferred", "pending", "out"} : r[f] = c[f]
        /\ DOMAIN r.pending = DOMAIN c.pending
        /\ \A w \in DOMAIN c.pending : r.pending[w].kind = c.pending[w].kind
    BY EmitCompletionEffect DEF Weak
  <2> HIDE DEF r
  <2>3. /\ r.drain = c.drain /\ r.closing = c.closing
        /\ r.data = c.data /\ r.replies = c.replies
    BY <2>2 DEF Fields
  <2> QED
    BY <2>1, <2>2, <2>3 DEF KeepsWork, DataInUse
<1>2. CASE ~(k \in DOMAIN c.open /\ c.open[k] \in kinds)
  <2>1. CompleteAs(c, k, kinds, result) = FailRuntimeInvariant(c)
    BY <1>2 DEF CompleteAs
  <2> QED
    BY <2>1, FailRuntimeInvariantIInv DEF KeepsWork
<1> QED
  BY <1>1, <1>2

\* start_transaction.
LEMMA TransactionKeepsWork ==
  ASSUME NEW c, NEW kind, NEW k, IInv(c)
  PROVE  KeepsWork(c, StartTransaction(c, kind, k))
<1>1. CASE IdentifiersExhausted(c)
  <2>1. RefuseIdentifiers(c).closing
    BY CloseAllIInv, FailRuntimeInvariantIInv DEF RefuseIdentifiers, IInv
  <2> QED
    BY <1>1, <2>1 DEF StartTransaction, KeepsWork
<1>2. CASE ~IdentifiersExhausted(c)
  <2> DEFINE write == PendingWrite("TransactionRequest", k, None, None)
             active == [kind |-> kind, command |-> k, sys |-> c.nextSys,
                        write |-> c.nextWrite, armed |-> FALSE]
             d == [AllocateRequestIdentifiers(c) EXCEPT
                     !.active = active, !.pending = Put(@, c.nextWrite, write)]
             a == SendFrame(c.nextWrite, TransactionMessage(kind, c.nextSys))
             r == Emit(d, a)
  <2>1. StartTransaction(c, kind, k) = r
    BY <1>2 DEF StartTransaction
  <2>2. /\ DOMAIN d = Fields /\ d.pending = Put(c.pending, c.nextWrite, write)
        /\ d.drain = c.drain /\ d.data = c.data /\ d.replies = c.replies
    BY DEF AllocateRequestIdentifiers, IInv, Weak, Shape, Fields
  <2> HIDE DEF d, write, active, a
  <2>3. c.nextWrite \notin DOMAIN c.pending
    BY <1>2, FreshWrite DEF IInv, IdentifiersExhausted
  <2>4. \A v \in DOMAIN c.pending : v \in DOMAIN d.pending /\ d.pending[v] = c.pending[v]
    BY <2>2, <2>3 DEF Put
  <2>5. r.pending = d.pending /\ r.drain = d.drain /\ r.data = d.data /\ r.replies = d.replies
    BY <2>2, EmitFields DEF Fields
  <2> HIDE DEF r
  <2> QED
    BY <2>1, <2>2, <2>4, <2>5 DEF KeepsWork, DataInUse
<1> QED
  BY <1>1, <1>2

\* progress_deselect, which leaves a drain only while Data work remains.
LEMMA ProgressAwaits ==
  ASSUME NEW c, NEW due, IInv(c), Awaits(c, {})
  PROVE  Awaits(ProgressDeselect(c, due), {}) /\ DrainWaits(ProgressDeselect(c, due))
<1> DEFINE ended == [c EXCEPT !.drain = None]
           r == ProgressDeselect(c, due)
<1>1. CASE c.closing \/ c.drain = None \/ (~due /\ c.state # "NotSelected" /\ DataInUse(c))
  BY <1>1 DEF ProgressDeselect, DrainWaits
<1>2. CASE ~c.closing /\ c.drain # None /\ (due \/ c.state = "NotSelected" \/ ~DataInUse(c))
  <2>1. /\ IInv(ended) /\ ended.drain = None
        /\ \A f \in Fields \ {"drain"} : ended[f] = c[f]
    BY DropDrain
  <2>2. DOMAIN c = Fields
    BY DEF IInv, Weak, Shape
  <2>3. Awaits(ended, {} \cup {c.drain})
    BY <2>2, AwaitsDropDrain
  <2> HIDE DEF ended
  <2>4. Awaits(ended, {c.drain}) /\ Weak(ended)
    BY <2>1, <2>3 DEF IInv
  <2>5. ASSUME NEW x, KeepsWork(ended, x) PROVE DrainWaits(x)
    BY <2>1, <2>5 DEF KeepsWork, DrainWaits
  <2>6. ASSUME NEW kinds, NEW result
        PROVE  /\ Awaits(CompleteAs(ended, c.drain, kinds, result), {})
               /\ DrainWaits(CompleteAs(ended, c.drain, kinds, result))
    <3>1. Awaits(CompleteAs(ended, c.drain, kinds, result), {c.drain} \ {c.drain})
      BY <2>4, AwaitsCompletesAs
    <3>2. KeepsWork(ended, CompleteAs(ended, c.drain, kinds, result))
      BY <2>4, CompletionKeepsWork
    <3>3. DrainWaits(CompleteAs(ended, c.drain, kinds, result))
      BY <2>5, <3>2
    <3>4. {c.drain} \ {c.drain} = {}
      OBVIOUS
    <3> QED
      BY <3>1, <3>3, <3>4
  <2>7. CASE due
    <3>1. r = CompleteAs(ended, c.drain, CommandKinds, "TimeoutDrain")
      BY <1>2, <2>7 DEF ProgressDeselect, CompleteError, ended
    <3> QED
      BY <2>6, <3>1
  <2>8. CASE ~due /\ c.state = "NotSelected"
    <3>1. r = CompleteAs(ended, c.drain, {"Control"}, "Ok")
      BY <1>2, <2>8 DEF ProgressDeselect, CompleteControl, ended
    <3> QED
      BY <2>6, <3>1
  <2>9. CASE ~due /\ c.state # "NotSelected"
    <3>1. r = StartTransaction(ended, "Deselect", c.drain)
      BY <1>2, <2>9 DEF ProgressDeselect, ended
    <3>2. /\ ended.active = None /\ ~ended.closing
          /\ c.drain \in DOMAIN ended.open \ UnresolvedCommands(ended)
      <4>1. ended.open = c.open /\ ended.pending = c.pending /\ ended.active = c.active
            /\ ended.closing = c.closing
        BY <2>1 DEF Fields
      <4> QED
        BY <1>2, <4>1 DEF IInv, Owners, UnresolvedCommands
    <3>3. Awaits(StartTransaction(ended, "Deselect", c.drain), {})
      BY <2>1, <2>4, <3>2, TransactionAwaits DEF TransactionKinds
    <3>4. KeepsWork(ended, StartTransaction(ended, "Deselect", c.drain))
      BY <2>1, TransactionKeepsWork
    <3>5. DrainWaits(StartTransaction(ended, "Deselect", c.drain))
      BY <2>5, <3>4
    <3> QED
      BY <3>1, <3>3, <3>5
  <2> QED
    BY <2>7, <2>8, <2>9
<1> QED
  BY <1>1, <1>2

-----------------------------------------------------------------------------
(* The handlers, one by one.                                               *)

\* complete_error of the command in hand.
LEMMA ErrorAwaits ==
  ASSUME NEW c, NEW k, NEW result, Awaits(c, {k}), Weak(c)
  PROVE  LET r == CompleteError(c, k, result)
         IN  Awaits(r, {}) /\ KeepsWork(c, r) /\ (c.closing => r.closing)
<1>1. Awaits(CompleteError(c, k, result), {k} \ {k})
  BY AwaitsCompletesError
<1>2. {k} \ {k} = {}
  OBVIOUS
<1> QED
  BY <1>1, <1>2, CompletionKeepsWork DEF CompleteError

\* start_select and start_linktest.
LEMMA StartSelectAwaits ==
  ASSUME NEW c, NEW k, IInv(c), ~c.closing, Free(c, k, "Control"), Awaits(c, {k})
  PROVE  /\ Awaits(StartSelect(c, k), {}) /\ KeepsWork(c, StartSelect(c, k))
         /\ Awaits(StartLinktest(c, k), {}) /\ KeepsWork(c, StartLinktest(c, k))
<1>1. \A result : /\ Awaits(CompleteError(c, k, result), {})
                  /\ KeepsWork(c, CompleteError(c, k, result))
  BY ErrorAwaits DEF IInv
<1>2. ASSUME c.active = None, NEW kind \in TransactionKinds
      PROVE  /\ Awaits(StartTransaction(c, kind, k), {})
             /\ KeepsWork(c, StartTransaction(c, kind, k))
  BY <1>2, TransactionAwaits, TransactionKeepsWork DEF Free
<1> QED
  BY <1>1, <1>2 DEF StartSelect, StartLinktest, TransactionKinds

\* start_deselect.
LEMMA StartDeselectAwaits ==
  ASSUME NEW c, NEW k, IInv(c), ~c.closing, Free(c, k, "Control"), Awaits(c, {k}),
         DrainWaits(c)
  PROVE  Awaits(StartDeselect(c, k), {}) /\ DrainWaits(StartDeselect(c, k))
<1>1. CASE c.state # "Selected" \/ c.active # None \/ c.drain # None
  <2>1. PICK result : StartDeselect(c, k) = CompleteError(c, k, result)
    BY <1>1 DEF StartDeselect
  <2> QED
    BY <2>1, ErrorAwaits, WorkKeepsDrain DEF IInv
<1>2. CASE c.state = "Selected" /\ c.active = None /\ c.drain = None
  <2> DEFINE d == [c EXCEPT !.drain = k]
  <2>1. StartDeselect(c, k) = ProgressDeselect(d, FALSE)
    BY <1>2 DEF StartDeselect
  <2>2. IInv(d) /\ d.drain = k /\ \A f \in Fields \ {"drain"} : d[f] = c[f]
    BY <1>2, AddDrain
  <2> HIDE DEF d
  <2>3. /\ d.open = c.open /\ d.pending = c.pending /\ d.deferred = c.deferred
        /\ d.active = c.active /\ d.data = c.data /\ d.closing = c.closing /\ d.state = c.state
        /\ d.tomb = c.tomb /\ d.nextSys = c.nextSys /\ d.replies = c.replies
    BY <2>2 DEF Fields
  <2>4. UnresolvedCommands(d) = UnresolvedCommands(c) /\ k \in DOMAIN c.open
    BY <2>3 DEF UnresolvedCommands, Free
  <2>5. \A j \in DOMAIN c.open : Attended(c, j) \/ j = k => Attended(d, j)
    BY <1>2, <2>2, <2>3, NoneAssumption DEF Attended, IInv, Weak, Shape
  <2>6. \A w \in DOMAIN c.pending : Backed(c, w) => Backed(d, w)
    BY <2>3 DEF Backed
  <2>7. \A w \in DOMAIN c.pending : c.pending[w].command # k \/ k = None
    BY DEF Free, UnresolvedCommands
  <2>8. LiveCare(c, {k})
    BY DEF Awaits, Cared
  <2>9. LiveCare(d, {})
    BY <2>3, <2>4, <2>5, <2>6, <2>7, <2>8 DEF LiveCare
  <2>10. Pausing(d) /\ Retirement(d) /\ Promised(d)
    BY <1>2, <2>3 DEF Awaits, Pausing, Retirement, Promised
  <2>11. Awaits(d, {})
    BY <2>3, <2>9, <2>10 DEF Awaits, Cared
  <2> QED
    BY <2>1, <2>2, <2>11, ProgressAwaits
<1> QED
  BY <1>1, <1>2

\* commit_deselection, while nothing drains.
LEMMA CommitAwaits ==
  ASSUME NEW c, NEW X, Awaits(c, X), DOMAIN c = Fields, ~c.closing, c.drain = None
  PROVE  Awaits(CommitDeselection(c), X)
<1>1. CASE c.state = "NotSelected"
  BY <1>1 DEF CommitDeselection
<1>2. CASE c.state # "NotSelected"
  <2> DEFINE d == ArmSelectionTimeout([c EXCEPT !.state = "NotSelected",
                                                !.replies = EmptyFunction])
  <2>1. CommitDeselection(c) = Emit(d, StateChanged("NotSelected"))
    BY <1>2 DEF CommitDeselection
  <2>2. /\ DOMAIN d = Fields /\ DOMAIN d.replies = {}
        /\ \A f \in Fields \ {"state", "t7", "replies"} : d[f] = c[f]
    BY DEF ArmSelectionTimeout, Fields, EmptyFunction
  <2> HIDE DEF d
  <2>3. Awaits(d, X)
    BY <2>2, AwaitsSame DEF Fields
  <2> QED
    BY <2>1, <2>2, <2>3, AwaitsEmit
<1> QED
  BY <1>1, <1>2

\* receive_deselect_request: while a drain waits for Data work the peer is told BUSY.
LEMMA DeselectRequestAwaits ==
  ASSUME NEW c, NEW m, IInv(c), ~c.closing, Awaits(c, {}), DrainWaits(c)
  PROVE  Awaits(ReceiveDeselectRequest(c, m), {})
<1> DEFINE st == IF m.sid # ControlSession \/ c.state # "Selected" THEN "NOT_SELECTED"
                 ELSE IF DataInUse(c) THEN "BUSY" ELSE "SUCCESS"
           sent == SendResponse(c, DeselectRsp(m.sid, st, m.sys))
<1>1. ReceiveDeselectRequest(c, m)
        = IF st = "SUCCESS" /\ ~sent.closing THEN CommitDeselection(sent) ELSE sent
  BY DEF ReceiveDeselectRequest
<1>2. Awaits(sent, {})
  BY ResponseAwaits
<1>3. IInv(sent) /\ (~sent.closing => sent.drain = c.drain)
  BY SendResponseEffect DEF Fields
<1>4. st = "SUCCESS" => c.drain = None
  BY DEF DrainWaits
<1> HIDE DEF st, sent
<1>5. DOMAIN sent = Fields
  BY <1>3 DEF IInv, Weak, Shape
<1>6. st = "SUCCESS" /\ ~sent.closing => Awaits(CommitDeselection(sent), {})
  BY <1>2, <1>3, <1>4, <1>5, CommitAwaits
<1> QED
  BY <1>1, <1>2, <1>6

\* A response takes the live transaction, whose command is then in hand.
LEMMA AnsweredAwaits ==
  ASSUME NEW c, NEW kind, NEW sid, NEW sys, IInv(c), ~c.closing, Awaits(c, {}),
         Answers(c, kind, sid, sys)
  PROVE  LET d == [c EXCEPT !.active = None]
         IN  /\ Awaits(d, {c.active.command}) /\ IInv(d) /\ DOMAIN d = Fields
             /\ d.active = None /\ d.drain = None /\ ~d.closing /\ d.data = c.data
<1> DEFINE d == [c EXCEPT !.active = None]
<1>1. IInv(d) /\ d.active = None /\ \A f \in Fields \ {"active"} : d[f] = c[f]
  BY DropActive
<1>2. DOMAIN c = Fields /\ c.active # None
  BY DEF IInv, Weak, Shape, Answers
<1>3. Awaits(d, {} \cup {c.active.command})
  BY <1>2, AwaitsDropActive
<1> HIDE DEF d
<1>4. d.drain = c.drain /\ d.closing = c.closing /\ d.data = c.data /\ DOMAIN d = Fields
  BY <1>1 DEF Fields, IInv, Weak, Shape
<1>5. c.drain = None
  BY <1>2 DEF IInv, Owners
<1>6. {} \cup {c.active.command} = {c.active.command}
  OBVIOUS
<1>7. Awaits(d, {c.active.command})
  BY <1>3, <1>6
<1> QED
  BY <1>1, <1>4, <1>5, <1>7 DEF d

\* receive_deselect_response.
LEMMA DeselectResponseAwaits ==
  ASSUME NEW c, NEW m, IInv(c), ~c.closing, Awaits(c, {})
  PROVE  Awaits(ReceiveDeselectResponse(c, m), {})
<1>1. CASE ~Answers(c, "Deselect", m.sid, m.sys)
  BY <1>1, ResponseAwaits DEF ReceiveDeselectResponse, SendTransactionNotOpenReject
<1>2. CASE Answers(c, "Deselect", m.sid, m.sys)
  <2> DEFINE d == [c EXCEPT !.active = None]
             t == c.active
  <2>1. ReceiveDeselectResponse(c, m)
          = IF m.status = "SUCCESS" THEN CompleteControlTransaction(CommitDeselection(d), t, "Ok")
            ELSE CompleteControlTransaction(d, t, "DeselectRejected")
    BY <1>2 DEF ReceiveDeselectResponse
  <2>2. /\ Awaits(d, {t.command}) /\ IInv(d) /\ DOMAIN d = Fields
        /\ d.active = None /\ d.drain = None /\ ~d.closing /\ d.data = c.data
    BY <1>2, AnsweredAwaits
  <2>3. DOMAIN c.data = {}
    BY <1>2 DEF IInv, Selection, RepliesBlocked, Answers
  <2> HIDE DEF d, t
  <2>4. Awaits(CommitDeselection(d), {t.command}) /\ Weak(CommitDeselection(d))
    BY <2>2, <2>3, CommitAwaits, CommitDeselectionIInv DEF IInv
  <2> QED
    BY <2>1, <2>2, <2>4, AwaitsCompletesTransaction DEF IInv
<1> QED
  BY <1>1, <1>2

\* A session that becomes Selected.
LEMMA SelectedAwaits ==
  ASSUME NEW c, NEW X, Awaits(c, X), IInv(c), ~c.closing
  PROVE  LET d == [c EXCEPT !.state = "Selected", !.t7 = FALSE]
         IN  /\ Awaits(d, X) /\ IInv(d) /\ DOMAIN d = Fields /\ d.active = c.active
<1> DEFINE d == [c EXCEPT !.state = "Selected", !.t7 = FALSE]
<1>1. IInv(d) /\ \A f \in Fields \ {"state", "t7"} : d[f] = c[f]
  BY SelectedIInv
<1>2. d.state = "Selected"
  BY DEF IInv, Weak, Shape, Fields
<1> HIDE DEF d
<1>3. Awaits(d, X)
  BY <1>1, <1>2, AwaitsSame DEF Fields
<1> QED
  BY <1>1, <1>3 DEF d, Fields, IInv, Weak, Shape

\* receive_select_request.
LEMMA SelectRequestAwaits ==
  ASSUME NEW c, NEW m, IInv(c), ~c.closing, Awaits(c, {})
  PROVE  Awaits(ReceiveSelectRequest(c, m), {})
<1> DEFINE st == IF m.sid # ControlSession THEN "NOT_READY"
                 ELSE IF c.state = "Selected" THEN "ALREADY_ACTIVE" ELSE "SUCCESS"
           chosen == IF st = "SUCCESS" THEN [c EXCEPT !.state = "Selected", !.t7 = FALSE] ELSE c
           sent == SendResponse(chosen, SelectRsp(m.sid, st, m.sys))
<1>1. ReceiveSelectRequest(c, m)
        = IF st = "SUCCESS" /\ ~sent.closing THEN Emit(sent, StateChanged("Selected")) ELSE sent
  BY DEF ReceiveSelectRequest
<1>2. Awaits(chosen, {}) /\ IInv(chosen)
  BY SelectedAwaits
<1> HIDE DEF st, chosen
<1>3. Awaits(sent, {}) /\ IInv(sent)
  BY <1>2, ResponseAwaits, SendResponseEffect
<1> HIDE DEF sent
<1>4. Awaits(Emit(sent, StateChanged("Selected")), {})
  BY <1>3, AwaitsEmit DEF IInv, Weak, Shape
<1> QED
  BY <1>1, <1>3, <1>4

\* receive_select_response.
LEMMA SelectResponseAwaits ==
  ASSUME NEW c, NEW m, IInv(c), ~c.closing, Awaits(c, {})
  PROVE  Awaits(ReceiveSelectResponse(c, m), {})
<1>1. CASE ~Answers(c, "Select", m.sid, m.sys)
  BY <1>1, ResponseAwaits DEF ReceiveSelectResponse, SendTransactionNotOpenReject
<1>2. CASE Answers(c, "Select", m.sid, m.sys)
  <2> DEFINE d == [c EXCEPT !.active = None]
             t == c.active
             e == [d EXCEPT !.state = "Selected", !.t7 = FALSE]
             selected == IF c.state = "Selected" THEN d ELSE Emit(e, StateChanged("Selected"))
  <2>1. ReceiveSelectResponse(c, m)
          = IF m.status = "SUCCESS" THEN CompleteControlTransaction(selected, t, "Ok")
            ELSE CompleteControlTransaction(d, t, "SelectRejected")
    BY <1>2 DEF ReceiveSelectResponse
  <2>2. /\ Awaits(d, {t.command}) /\ IInv(d) /\ DOMAIN d = Fields
        /\ d.active = None /\ d.drain = None /\ ~d.closing /\ d.data = c.data
    BY <1>2, AnsweredAwaits
  <2> HIDE DEF d, t
  <2>3. Awaits(e, {t.command}) /\ IInv(e) /\ DOMAIN e = Fields
    BY <2>2, SelectedAwaits
  <2> HIDE DEF e
  <2>4. Awaits(selected, {t.command}) /\ Weak(selected)
    BY <2>2, <2>3, AwaitsEmit, EmitWeak DEF IInv
  <2> HIDE DEF selected
  <2> QED
    BY <2>1, <2>2, <2>4, AwaitsCompletesTransaction DEF IInv
<1> QED
  BY <1>1, <1>2

\* receive_linktest_response.
LEMMA LinktestResponseAwaits ==
  ASSUME NEW c, NEW m, IInv(c), ~c.closing, Awaits(c, {})
  PROVE  Awaits(ReceiveLinktestResponse(c, m), {})
<1>1. CASE ~Answers(c, "Linktest", ControlSession, m.sys)
  BY <1>1, ResponseAwaits DEF ReceiveLinktestResponse, SendTransactionNotOpenReject
<1>2. CASE Answers(c, "Linktest", ControlSession, m.sys)
  <2> DEFINE d == [c EXCEPT !.active = None]
             t == c.active
  <2>1. ReceiveLinktestResponse(c, m) = CompleteControlTransaction(d, t, "Ok")
    BY <1>2 DEF ReceiveLinktestResponse
  <2>2. Awaits(d, {t.command}) /\ Weak(d)
    BY <1>2, AnsweredAwaits DEF IInv
  <2> HIDE DEF d, t
  <2> QED
    BY <2>1, <2>2, AwaitsCompletesTransaction
<1> QED
  BY <1>1, <1>2

-----------------------------------------------------------------------------
(* Tombstones.                                                             *)

\* TransactionTombstones::insert of a new contract: the FIFO keeps its bound, and its
\* System Bytes stay distinct.
LEMMA InsertTombstoneKeeps ==
  ASSUME NEW q, NEW x, IsBatch(q), Len(q) <= TombstoneCapacity,
         \A i \in DOMAIN q : q[i].sys # x.sys,
         \A i, j \in DOMAIN q : q[i].sys = q[j].sys => i = j
  PROVE  LET r == InsertTombstone(q, x, TombstoneCapacity)
         IN  /\ IsBatch(r) /\ Len(r) <= TombstoneCapacity
             /\ \A i \in DOMAIN r : r[i] = x \/ \E j \in DOMAIN q : r[i] = q[j]
             /\ \A i, j \in DOMAIN r : r[i].sys = r[j].sys => i = j
<1>1. PICK S : q \in Seq(S)
  BY DEF IsBatch
<1> DEFINE T == S \cup {x}
           n == TombstoneCapacity
<1>2. q \in Seq(T) /\ x \in T /\ n \in Nat
  BY <1>1, CapacityAssumption
<1> HIDE DEF T
<1>3. CASE n = 0
  BY <1>2, <1>3 DEF InsertTombstone
<1>4. CASE n > 0 /\ Len(q) = n
  <2> DEFINE u == Tail(q)
             r == Append(u, x)
  <2>1. InsertTombstone(q, x, n) = r
    BY <1>4 DEF InsertTombstone
  <2>2. q # <<>>
    BY <1>2, <1>4
  <2>3. u \in Seq(T) /\ Len(u) = n - 1 /\ \A i \in 1..(n - 1) : i + 1 \in 1..n /\ u[i] = q[i + 1]
    BY <1>2, <1>4, <2>2
  <2> HIDE DEF u
  <2>4. r \in Seq(T) /\ Len(r) = n /\ r[n] = x /\ \A i \in 1..(n - 1) : r[i] = u[i]
    BY <1>2, <1>4, <2>3
  <2> HIDE DEF r
  <2>5. DOMAIN r = 1..n /\ DOMAIN q = 1..n
    BY <1>2, <1>4, <2>4
  <2>6. \A i \in 1..n : \/ i = n /\ r[i] = x
                        \/ i \in 1..(n - 1) /\ i + 1 \in 1..n /\ r[i] = q[i + 1]
    <3>1. \A i \in 1..n : i = n \/ i \in 1..(n - 1)
      BY <1>2
    <3> QED
      BY <2>3, <2>4, <3>1
  <2>7. \A i \in DOMAIN r : r[i] = x \/ \E j \in DOMAIN q : r[i] = q[j]
    BY <2>5, <2>6
  <2>8. ASSUME NEW i \in DOMAIN r, NEW j \in DOMAIN r, r[i].sys = r[j].sys PROVE i = j
    <3>1. CASE i = n
      BY <2>5, <2>6, <2>8, <3>1
    <3>2. CASE j = n
      BY <2>5, <2>6, <2>8, <3>2
    <3>3. CASE i # n /\ j # n
      <4>1. i + 1 = j + 1
        BY <2>5, <2>6, <2>8, <3>3
      <4> QED
        BY <1>2, <2>5, <4>1
    <3> QED
      BY <3>1, <3>2, <3>3
  <2> QED
    BY <1>2, <2>1, <2>4, <2>7, <2>8 DEF IsBatch
<1>5. CASE n > 0 /\ Len(q) # n
  <2> DEFINE r == Append(q, x)
             m == Len(q)
  <2>1. InsertTombstone(q, x, n) = r
    BY <1>5 DEF InsertTombstone
  <2>2. m \in Nat /\ m < n /\ DOMAIN q = 1..m
    BY <1>2, <1>5
  <2>3. r \in Seq(T) /\ Len(r) = m + 1 /\ r[m + 1] = x /\ \A i \in 1..m : r[i] = q[i]
    BY <1>2
  <2> HIDE DEF r, m
  <2>4. DOMAIN r = 1..(m + 1)
    BY <2>3
  <2>5. \A i \in 1..(m + 1) : \/ i = m + 1 /\ r[i] = x
                              \/ i \in DOMAIN q /\ r[i] = q[i]
    BY <2>2, <2>3
  <2>6. \A i \in DOMAIN r : r[i] = x \/ \E j \in DOMAIN q : r[i] = q[j]
    BY <2>4, <2>5
  <2>7. \A i, j \in DOMAIN r : r[i].sys = r[j].sys => i = j
    BY <2>4, <2>5
  <2>8. m + 1 <= n
    BY <1>2, <2>2
  <2> QED
    BY <2>1, <2>3, <2>6, <2>7, <2>8 DEF IsBatch
<1> QED
  BY <1>2, <1>3, <1>4, <1>5

\* A set of System Bytes has an ascending order (the T3 loop's sort).
LEMMA AscendingOrders ==
  ASSUME NEW S, S \subseteq SystemBytes
  PROVE  /\ IsFiniteSet(S) /\ Cardinality(S) \in Nat
         /\ Ascending(S) \in [1..Cardinality(S) -> S]
         /\ \A i, j \in 1..Cardinality(S) : i < j => Ascending(S)[i] < Ascending(S)[j]
  BY AscendingOrder, SpaceAssumption DEF SystemBytes

\* What a suffix of a sequence holds.
LEMMA SuffixKeeps ==
  ASSUME NEW T, NEW s \in Seq(T), NEW n \in Nat, Len(s) = n, NEW first \in 1..(n + 1)
  PROVE  /\ SubSeq(s, first, n) \in Seq(T) /\ Len(SubSeq(s, first, n)) = n - first + 1
         /\ \A i \in 1..(n - first + 1) : SubSeq(s, first, n)[i] = s[first + i - 1]
OBVIOUS

\* Several inserts: the newest contracts survive, and the System Bytes of old and new
\* ones stay distinct.
LEMMA InsertTombstonesKeeps ==
  ASSUME NEW q, NEW n \in Nat, NEW x, DOMAIN x = 1..n, IsBatch(q), x = [i \in 1..n |-> x[i]],
         \A i \in DOMAIN q, j \in 1..n : q[i].sys # x[j].sys,
         \A i, j \in DOMAIN q : q[i].sys = q[j].sys => i = j,
         \A i, j \in 1..n : x[i].sys = x[j].sys => i = j
  PROVE  LET r == InsertTombstones(q, x, TombstoneCapacity)
         IN  /\ IsBatch(r) /\ Len(r) <= TombstoneCapacity
             /\ \A i \in DOMAIN r : \/ \E j \in DOMAIN q : r[i] = q[j]
                                    \/ \E j \in 1..n : r[i] = x[j]
             /\ \A i, j \in DOMAIN r : r[i].sys = r[j].sys => i = j
<1>1. PICK S : q \in Seq(S)
  BY DEF IsBatch
<1> DEFINE T == S \cup {x[i] : i \in 1..n}
           cap == TombstoneCapacity
           m == Len(q)
           all == q \o x
           first == IF Len(all) > cap THEN Len(all) - cap + 1 ELSE 1
           r == SubSeq(all, first, Len(all))
<1>2. q \in Seq(T) /\ x \in Seq(T) /\ Len(x) = n /\ cap \in Nat
  <2>1. x \in [1..n -> T]
    OBVIOUS
  <2>2. x \in Seq(T) /\ Len(x) = n
    BY <2>1
  <2> QED
    BY <1>1, <2>2, CapacityAssumption
<1> HIDE DEF T
<1>3. m \in Nat /\ DOMAIN q = 1..m
  BY <1>2
<1>4. /\ all \in Seq(T) /\ Len(all) = m + n
      /\ \A i \in 1..(m + n) : all[i] = IF i <= m THEN q[i] ELSE x[i - m]
  BY <1>2
<1> HIDE DEF all, m
<1>5. \A i \in 1..(m + n) : \/ i \in 1..m /\ all[i] = q[i]
                            \/ i - m \in 1..n /\ all[i] = x[i - m]
  <2>1. \A i \in 1..(m + n) : (i <= m => i \in 1..m) /\ (~(i <= m) => i - m \in 1..n)
    BY ONLY <1>3, n \in Nat
  <2> QED
    BY <1>4, <2>1
<1>6. \A i, j \in 1..(m + n) : all[i].sys = all[j].sys => i = j
  <2> SUFFICES ASSUME NEW i \in 1..(m + n), NEW j \in 1..(m + n), all[i].sys = all[j].sys
               PROVE  i = j
    OBVIOUS
  <2>1. CASE i \in 1..m /\ all[i] = q[i]
    BY <1>3, <1>5, <2>1
  <2>2. CASE i - m \in 1..n /\ all[i] = x[i - m]
    <3>1. CASE j \in 1..m /\ all[j] = q[j]
      BY <1>3, <2>2, <3>1
    <3>2. CASE j - m \in 1..n /\ all[j] = x[j - m]
      <4>1. i - m = j - m
        BY <2>2, <3>2
      <4> QED
        BY <1>3, <4>1
    <3> QED
      BY <1>5, <3>1, <3>2
  <2> QED
    BY <1>5, <2>1, <2>2
<1>7. /\ first \in 1..(m + n + 1) /\ (m + n) - first + 1 <= cap /\ (m + n) - first + 1 \in Nat
  <2>1. m + n \in Nat
    BY <1>3
  <2>2. first = IF m + n > cap THEN (m + n) - cap + 1 ELSE 1
    BY <1>4
  <2>3. cap \in Nat
    BY <1>2
  <2> HIDE DEF first, cap
  <2>4. CASE m + n > cap
    BY ONLY <2>1, <2>2, <2>3, <2>4
  <2>5. CASE ~(m + n > cap)
    BY ONLY <2>1, <2>2, <2>3, <2>5
  <2> QED
    BY <2>4, <2>5
<1> HIDE DEF first
<1>8. /\ r \in Seq(T) /\ Len(r) = (m + n) - first + 1
      /\ \A i \in 1..((m + n) - first + 1) : r[i] = all[first + i - 1]
  <2>1. m + n \in Nat
    BY <1>3
  <2> QED
    BY ONLY <1>4, <1>7, <2>1, SuffixKeeps DEF r
<1> HIDE DEF r
<1>9. \A i \in DOMAIN r : first + i - 1 \in 1..(m + n) /\ r[i] = all[first + i - 1] /\ i \in Nat
  BY <1>3, <1>7, <1>8
<1>10. InsertTombstones(q, x, cap) = r
  BY DEF InsertTombstones, r, first, all
<1>11. ASSUME NEW i \in DOMAIN r
       PROVE  (\E j \in DOMAIN q : r[i] = q[j]) \/ (\E j \in 1..n : r[i] = x[j])
  <2>1. PICK j \in 1..(m + n) : r[i] = all[j]
    BY <1>9
  <2>2. (j \in DOMAIN q /\ r[i] = q[j]) \/ (j - m \in 1..n /\ r[i] = x[j - m])
    BY <1>3, <1>5, <2>1
  <2> QED
    BY <2>2
<1>12. ASSUME NEW i \in DOMAIN r, NEW j \in DOMAIN r, r[i].sys = r[j].sys PROVE i = j
  <2>1. first + i - 1 = first + j - 1
    BY <1>6, <1>9, <1>12
  <2> QED
    BY <1>7, <1>9, <2>1
<1> QED
  BY <1>7, <1>8, <1>10, <1>11, <1>12 DEF IsBatch

\* Requests that leave with their contracts in the FIFO stay distinct from live ones.
LEMMA RetirementTurns ==
  ASSUME NEW c, NEW d, NEW S, S \subseteq DOMAIN c.data, DOMAIN c.data \subseteq SystemBytes,
         Retirement(c), d.nextSys = c.nextSys, d.data = Drop(c.data, S),
         IsBatch(d.tomb), Len(d.tomb) <= TombstoneCapacity,
         \A i \in DOMAIN d.tomb : \/ \E j \in DOMAIN c.tomb : d.tomb[i] = c.tomb[j]
                                  \/ \E s \in S : d.tomb[i] = c.data[s].contract,
         \A i, j \in DOMAIN d.tomb : d.tomb[i].sys = d.tomb[j].sys => i = j
  PROVE  Retirement(d)
<1>1. DOMAIN d.data = DOMAIN c.data \ S /\ \A s \in DOMAIN d.data : d.data[s] = c.data[s]
  BY DEF Drop
<1>2. \A s \in DOMAIN d.data : d.data[s].contract.sys = s /\ s < d.nextSys
  BY <1>1 DEF Retirement
<1>3. ASSUME NEW i \in DOMAIN d.tomb
      PROVE  d.tomb[i].sys \in SystemBytes \ DOMAIN d.data /\ d.tomb[i].sys < d.nextSys
  <2>1. CASE \E j \in DOMAIN c.tomb : d.tomb[i] = c.tomb[j]
    BY <1>1, <2>1 DEF Retirement
  <2>2. CASE \E s \in S : d.tomb[i] = c.data[s].contract
    BY <1>1, <2>2 DEF Retirement
  <2> QED
    BY <2>1, <2>2
<1> QED
  BY <1>2, <1>3 DEF Retirement

\* A request leaves data_transactions, its command in the handler's hands.
LEMMA RetireRequestAwaits ==
  ASSUME NEW c, NEW s \in DOMAIN c.data, IInv(c), Awaits(c, {})
  PROVE  Awaits(RetireRequest(c, s), {c.data[s].command})
<1> DEFINE x == c.data[s].contract
           q == c.tomb
           t == InsertTombstone(q, x, TombstoneCapacity)
           d == RetireRequest(c, s)
<1>1. /\ \A f \in Fields \ {"data", "tomb"} : d[f] = c[f]
      /\ d.data = Drop(c.data, {s}) /\ d.tomb = t
  BY DEF RetireRequest, IInv, Weak, Shape, Fields
<1>2. d.nextSys = c.nextSys
  BY <1>1 DEF Fields
<1> HIDE DEF d
<1>3. Retirement(c) /\ DOMAIN c.data \subseteq SystemBytes /\ DOMAIN c = Fields
  BY DEF Awaits, IInv, Weak, Shape
<1>4. /\ IsBatch(q) /\ Len(q) <= TombstoneCapacity
      /\ \A i \in DOMAIN q : q[i].sys # x.sys
      /\ \A i, j \in DOMAIN q : q[i].sys = q[j].sys => i = j
  BY <1>3 DEF Retirement
<1>5. /\ IsBatch(t) /\ Len(t) <= TombstoneCapacity
      /\ \A i \in DOMAIN t : t[i] = x \/ \E j \in DOMAIN q : t[i] = q[j]
      /\ \A i, j \in DOMAIN t : t[i].sys = t[j].sys => i = j
  BY ONLY <1>4, InsertTombstoneKeeps
<1> HIDE DEF t
<1>6. Retirement(d)
  <2>1. \A i \in DOMAIN d.tomb : \/ \E j \in DOMAIN c.tomb : d.tomb[i] = c.tomb[j]
                                 \/ \E r \in {s} : d.tomb[i] = c.data[r].contract
    BY <1>1, <1>5
  <2>2. /\ IsBatch(d.tomb) /\ Len(d.tomb) <= TombstoneCapacity
        /\ \A i, j \in DOMAIN d.tomb : d.tomb[i].sys = d.tomb[j].sys => i = j
    BY <1>1, <1>5
  <2>3. {s} \subseteq DOMAIN c.data /\ d.data = Drop(c.data, {s})
    BY <1>1
  <2> QED
    BY ONLY <1>2, <1>3, <2>1, <2>2, <2>3, RetirementTurns
<1>7. Awaits(d, {} \cup {c.data[r].command : r \in {s} \cap DOMAIN c.data})
  BY <1>1, <1>3, <1>6, AwaitsDropData
<1>8. {} \cup {c.data[r].command : r \in {s} \cap DOMAIN c.data} = {c.data[s].command}
  OBVIOUS
<1> QED
  BY <1>7, <1>8 DEF d

\* The T3 loop.
LEMMA RetireRequestsAwaits ==
  ASSUME NEW c, NEW S, S \subseteq DOMAIN c.data, IInv(c), Awaits(c, {})
  PROVE  Awaits(RetireRequests(c, S), {})
<1> DEFINE n == Cardinality(S)
           order == Ascending(S)
           x == Contracts(c, S)
           q == c.tomb
           t == InsertTombstones(q, x, TombstoneCapacity)
           d == [c EXCEPT !.data = Drop(@, S), !.tomb = t]
           ks == {c.data[s].command : s \in S}
<1>1. RetireRequests(c, S) = EmitCompletion(d, ks, "RequestTimedOut")
  BY DEF RetireRequests
<1>2. /\ \A f \in Fields \ {"data", "tomb"} : d[f] = c[f]
      /\ d.data = Drop(c.data, S) /\ d.tomb = t
  BY DEF IInv, Weak, Shape, Fields
<1>3. IInv(d)
  BY DropData
<1>4. d.nextSys = c.nextSys
  BY <1>2 DEF Fields
<1> HIDE DEF d
<1>5. Retirement(c) /\ DOMAIN c.data \subseteq SystemBytes /\ DOMAIN c = Fields
  BY DEF Awaits, IInv, Weak, Shape
<1>6. /\ n \in Nat /\ order \in [1..n -> S]
      /\ \A i, j \in 1..n : i < j => order[i] < order[j]
  BY <1>5, AscendingOrders
<1>7. x = [i \in 1..n |-> c.data[order[i]].contract]
  BY DEF Contracts
<1> HIDE DEF n, order, x
<1>8. /\ DOMAIN x = 1..n /\ x = [i \in 1..n |-> x[i]]
      /\ \A i \in 1..n : order[i] \in S /\ x[i] = c.data[order[i]].contract /\ x[i].sys = order[i]
  BY <1>5, <1>6, <1>7 DEF Retirement
<1>9. \A i, j \in 1..n : x[i].sys = x[j].sys => i = j
  <2> SUFFICES ASSUME NEW i \in 1..n, NEW j \in 1..n, order[i] = order[j] PROVE i = j
    BY <1>8
  <2>1. order[i] \in Nat /\ order[j] \in Nat
    BY <1>5, <1>8 DEF SystemBytes
  <2>2. ~(order[i] < order[j]) /\ ~(order[j] < order[i])
    BY <2>1
  <2> QED
    BY <1>6, <2>2
<1>10. /\ IsBatch(q) /\ Len(q) <= TombstoneCapacity
       /\ \A i \in DOMAIN q, j \in 1..n : q[i].sys # x[j].sys
       /\ \A i, j \in DOMAIN q : q[i].sys = q[j].sys => i = j
  BY <1>5, <1>8 DEF Retirement
<1>11. /\ IsBatch(t) /\ Len(t) <= TombstoneCapacity
       /\ \A i \in DOMAIN t : \/ \E j \in DOMAIN q : t[i] = q[j]
                              \/ \E j \in 1..n : t[i] = x[j]
       /\ \A i, j \in DOMAIN t : t[i].sys = t[j].sys => i = j
  BY ONLY <1>6, <1>8, <1>9, <1>10, InsertTombstonesKeeps
<1> HIDE DEF t
<1>12. Retirement(d)
  <2>1. \A i \in DOMAIN d.tomb : \/ \E j \in DOMAIN c.tomb : d.tomb[i] = c.tomb[j]
                                 \/ \E r \in S : d.tomb[i] = c.data[r].contract
    BY <1>2, <1>8, <1>11
  <2>2. /\ IsBatch(d.tomb) /\ Len(d.tomb) <= TombstoneCapacity
        /\ \A i, j \in DOMAIN d.tomb : d.tomb[i].sys = d.tomb[j].sys => i = j
    BY <1>2, <1>11
  <2>3. S \subseteq DOMAIN c.data /\ d.data = Drop(c.data, S)
    BY <1>2
  <2> QED
    BY ONLY <1>4, <1>5, <2>1, <2>2, <2>3, RetirementTurns
<1>13. Awaits(d, {} \cup {c.data[r].command : r \in S \cap DOMAIN c.data})
  BY <1>2, <1>5, <1>12, AwaitsDropData
<1>14. {} \cup {c.data[r].command : r \in S \cap DOMAIN c.data} = ks
  OBVIOUS
<1>15. Awaits(EmitCompletion(d, ks, "RequestTimedOut"), ks \ ks)
  BY <1>3, <1>13, <1>14, AwaitsCompletes DEF IInv, Weak
<1>16. ks \ ks = {}
  OBVIOUS
<1> QED
  BY <1>1, <1>15, <1>16

-----------------------------------------------------------------------------
(* Timers and peer messages.                                               *)

\* complete_control_transaction keeps the bookkeeping.
LEMMA TransactionCompletesWeak ==
  ASSUME NEW c, NEW t, NEW result, Weak(c)
  PROVE  Weak(CompleteControlTransaction(c, t, result))
BY CompleteAsWeak DEF CompleteControlTransaction, CompleteControl

\* The idle probe starts while nothing drains.
LEMMA ProbeAwaits ==
  ASSUME NEW c, NEW due, IInv(c), Awaits(c, {}), DrainWaits(c)
  PROVE  Awaits(StartIdleProbe(c, due), {}) /\ DrainWaits(StartIdleProbe(c, due))
<1> DEFINE d == [c EXCEPT !.idle = FALSE]
           r == StartTransaction(d, "Linktest", None)
<1>1. \/ StartIdleProbe(c, due) = c
      \/ ~c.closing /\ c.active = None /\ c.drain = None /\ StartIdleProbe(c, due) = r
  BY DEF StartIdleProbe
<1>2. /\ DOMAIN d = Fields /\ d.idle \in BOOLEAN
      /\ \A f \in Fields \ {"idle"} : d[f] = c[f]
  BY DEF IInv, Weak, Shape, Fields
<1> HIDE DEF d
<1>3. IInv(d)
  <2>1. Weak(d)
    BY <1>2 DEF IInv, Weak, Shape, Linked, Deferral, UnresolvedCommands, Fields
  <2>2. Owners(d) /\ Closed(d) /\ Timed(d) /\ Selection(d)
    BY <1>2 DEF IInv, Owners, Closed, Timed, Selection, RepliesBlocked, Fields
  <2> QED
    BY <2>1, <2>2 DEF IInv
<1>4. Awaits(d, {None})
  <2>1. Awaits(d, {})
    BY <1>2, AwaitsSame DEF Fields
  <2> QED
    BY <1>3, <2>1, AwaitsMore DEF IInv, Weak
<1>5. d.active = c.active /\ d.drain = c.drain /\ d.closing = c.closing
  BY <1>2 DEF Fields
<1>6. CASE ~c.closing /\ c.active = None /\ c.drain = None /\ StartIdleProbe(c, due) = r
  <2>1. Awaits(r, {})
    BY <1>3, <1>4, <1>5, <1>6, TransactionAwaits DEF TransactionKinds
  <2>2. KeepsWork(d, r)
    BY <1>3, TransactionKeepsWork
  <2>3. DrainWaits(r)
    BY <1>5, <1>6, <2>2 DEF KeepsWork, DrainWaits
  <2> QED
    BY <1>6, <2>1, <2>3
<1> QED
  BY <1>1, <1>6

\* expire_deadlines, which ends with progress_deselect unless it closes.
LEMMA ExpireAwaits ==
  ASSUME NEW c, NEW due, IInv(c), Awaits(c, {})
  PROVE  Awaits(ExpireDeadlines(c, due), {}) /\ DrainWaits(ExpireDeadlines(c, due))
<1> DEFINE r == ExpireDeadlines(c, due)
<1>1. CASE c.closing \/ c.state = "None"
  BY <1>1 DEF ExpireDeadlines, DrainWaits, Awaits, Pausing
<1>2. CASE ~(c.closing \/ c.state = "None") /\ c.t7 /\ due.t7
  <2>1. r = CloseAll(c, "CommunicationsTimeoutT7")
    BY <1>2 DEF ExpireDeadlines
  <2>2. Awaits(CloseAll(c, "CommunicationsTimeoutT7"), {})
    BY CloseAllAwaits DEF IInv, Awaits
  <2>3. CloseAll(c, "CommunicationsTimeoutT7").closing
    BY CloseAllIInv DEF IInv
  <2> QED
    BY <2>1, <2>2, <2>3 DEF DrainWaits
<1>3. CASE /\ ~(c.closing \/ c.state = "None") /\ ~(c.t7 /\ due.t7)
           /\ c.active # None /\ c.active.armed /\ due.t6
  <2> DEFINE d == [c EXCEPT !.active = None]
             t == c.active
             e == CompleteControlTransaction(d, t, "TimeoutT6")
             x == CloseAll(e, "CommunicationsTimeoutT6")
  <2>1. r = x
    BY <1>3 DEF ExpireDeadlines
  <2>2. Awaits(d, {} \cup {t.command})
    BY <1>3, AwaitsDropActive DEF IInv, Weak, Shape
  <2>3. IInv(d)
    BY DropActive
  <2>4. {} \cup {t.command} = {t.command}
    OBVIOUS
  <2> HIDE DEF d, t
  <2>5. Awaits(e, {}) /\ Weak(e)
    BY <2>2, <2>3, <2>4, AwaitsCompletesTransaction, TransactionCompletesWeak DEF IInv
  <2> HIDE DEF e
  <2>6. Awaits(x, {}) /\ x.closing
    BY <2>5, CloseAllAwaits, CloseAllIInv DEF Awaits
  <2> QED
    BY <2>1, <2>6 DEF DrainWaits
<1>4. CASE /\ ~(c.closing \/ c.state = "None") /\ ~(c.t7 /\ due.t7)
           /\ ~(c.active # None /\ c.active.armed /\ due.t6)
  <2> DEFINE S == ExpiredRequests(c, due)
             d == RetireRequests(c, S)
             e == ProgressDeselect(d, due.drain)
  <2>1. r = StartIdleProbe(e, due.idle)
    BY <1>4 DEF ExpireDeadlines
  <2>2. S \subseteq DOMAIN c.data
    BY DEF ExpiredRequests
  <2> HIDE DEF S
  <2>3. Awaits(d, {}) /\ IInv(d)
    BY <2>2, RetireRequestsAwaits, RetireRequestsIInv
  <2> HIDE DEF d
  <2>4. Awaits(e, {}) /\ DrainWaits(e) /\ IInv(e)
    BY <2>3, ProgressAwaits, ProgressDeselectIInv
  <2> HIDE DEF e
  <2> QED
    BY <2>1, <2>4, ProbeAwaits
<1> QED
  BY <1>1, <1>2, <1>3, <1>4

\* receive_data: a response takes its request, whose command is then in hand.
LEMMA DataAwaits ==
  ASSUME NEW c, NEW m, IInv(c), Awaits(c, {})
  PROVE  Awaits(ReceiveData(c, m), {})
<1> DEFINE sys == m.header.sys
           k == c.data[sys].command
<1>1. \A what : Awaits(Emit(c, Notice(what)), {})
  BY AwaitsEmit DEF IInv, Weak, Shape
<1>2. ASSUME sys \in DOMAIN c.data, NEW result
      PROVE  Awaits(CompleteRequest(RetireRequest(c, sys), k, result), {})
  <2>1. Awaits(RetireRequest(c, sys), {k}) /\ Weak(RetireRequest(c, sys))
    BY <1>2, RetireRequestAwaits, RetireRequestIInv DEF IInv
  <2> HIDE DEF k
  <2>2. Awaits(CompleteAs(RetireRequest(c, sys), k, {"Request"}, result), {k} \ {k})
    BY <2>1, AwaitsCompletesAs
  <2>3. {k} \ {k} = {}
    OBVIOUS
  <2> QED
    BY <2>2, <2>3 DEF CompleteRequest
<1> HIDE DEF k
<1> QED
  BY <1>1, <1>2 DEF ReceiveData, k

\* receive_reject: the one live operation it names is answered.
LEMMA RejectAwaits ==
  ASSUME NEW c, NEW m, IInv(c), ~c.closing, Awaits(c, {})
  PROVE  Awaits(ReceiveReject(c, m), {})
<1> DEFINE control == c.active # None /\ RejectsControl(c, m)
           requests == RejectedRequests(c, m)
           sends == RejectedSends(c, m)
           request == CHOOSE s \in requests : TRUE
           send == CHOOSE w \in sends : TRUE
           r == ReceiveReject(c, m)
           d == [c EXCEPT !.active = None]
           t == c.active
           answer == CompleteControlTransaction(d, t, "PeerRejected")
           retired == CompleteError(RetireRequest(c, request), c.data[request].command,
                                    "PeerRejected")
           sent == CompleteError(c, c.pending[send].command, "PeerRejected")
<1>1. \/ \E what : r = Emit(c, Notice(what))
      \/ control /\ \E what : r = Emit(answer, Notice(what))
      \/ requests # {} /\ \E what : r = Emit(retired, Notice(what))
      \/ \E what : r = Emit(sent, Notice(what))
  BY DEF ReceiveReject
<1>2. ASSUME NEW e, Awaits(e, {}), Weak(e), NEW what PROVE Awaits(Emit(e, Notice(what)), {})
  BY <1>2, AwaitsEmit DEF Weak, Shape
<1>3. control => Awaits(answer, {}) /\ Weak(answer)
  <2> SUFFICES ASSUME control PROVE Awaits(answer, {}) /\ Weak(answer)
    OBVIOUS
  <2>1. Awaits(d, {} \cup {t.command})
    BY AwaitsDropActive DEF IInv, Weak, Shape
  <2>2. IInv(d)
    BY DropActive
  <2>3. {} \cup {t.command} = {t.command}
    OBVIOUS
  <2> HIDE DEF d, t
  <2> QED
    BY <2>1, <2>2, <2>3, AwaitsCompletesTransaction, TransactionCompletesWeak DEF IInv
<1>4. requests # {} => Awaits(retired, {}) /\ Weak(retired)
  <2> SUFFICES ASSUME requests # {} PROVE Awaits(retired, {}) /\ Weak(retired)
    OBVIOUS
  <2>1. request \in DOMAIN c.data
    BY DEF RejectedRequests
  <2> HIDE DEF request, requests
  <2>2. Awaits(RetireRequest(c, request), {c.data[request].command})
        /\ Weak(RetireRequest(c, request))
    BY <2>1, RetireRequestAwaits, RetireRequestIInv DEF IInv
  <2> QED
    BY <2>2, ErrorAwaits, CompleteAsWeak DEF CompleteError
<1>5. Awaits(sent, {}) /\ Weak(sent)
  <2> DEFINE k == c.pending[send].command
  <2>1. Awaits(c, {k})
    BY AwaitsMore DEF IInv, Weak
  <2> HIDE DEF k
  <2> QED
    BY <2>1, ErrorAwaits, CompleteAsWeak DEF CompleteError, IInv, k
<1> HIDE DEF r, answer, retired, sent
<1>6. Weak(c)
  BY DEF IInv
<1> QED
  BY <1>1, <1>2, <1>3, <1>4, <1>5, <1>6 DEF r

\* record_activity.
LEMMA ActivityAwaits ==
  ASSUME NEW c, IInv(c), Awaits(c, {}), DrainWaits(c)
  PROVE  LET r == RecordActivity(c)
         IN  IInv(r) /\ Awaits(r, {}) /\ DrainWaits(r) /\ r.closing = c.closing
<1> DEFINE r == RecordActivity(c)
<1>1. IInv(r) /\ \A f \in Fields \ {"idle"} : r[f] = c[f]
  BY RecordActivityIInv
<1> HIDE DEF r
<1>2. Awaits(r, {})
  BY <1>1, AwaitsSame DEF Fields
<1>3. DrainWaits(r) /\ r.closing = c.closing
  BY <1>1 DEF DrainWaits, DataInUse, Fields
<1> QED
  BY <1>1, <1>2, <1>3 DEF r

\* receive_inbound_data: a W=1 Primary is granted a capability for its header.
LEMMA InboundDataAwaits ==
  ASSUME NEW c, NEW m, IInv(c), ~c.closing, Awaits(c, {}), m.header.function \in FunctionCodes
  PROVE  Awaits(ReceiveInboundData(c, m), {})
<1> DEFINE granted == [c EXCEPT !.nextReply = @ + 1, !.replies = Put(@, c.nextReply, m.header)]
           r == ReceiveInboundData(c, m)
<1>1. \/ \E x : r = SendResponse(c, x)
      \/ r = ReceiveData(c, m)
      \/ \E reason : r = CloseAll(c, reason)
      \/ \E a : r = Emit(c, a)
      \/ r = FailRuntimeInvariant(c)
      \/ \E a : r = Emit(granted, a)
  BY DEF ReceiveInboundData
<1>2. /\ DOMAIN granted = Fields /\ granted.replies = Put(c.replies, c.nextReply, m.header)
      /\ \A f \in Fields \ {"nextReply", "replies"} : granted[f] = c[f]
  BY DEF IInv, Weak, Shape, Fields
<1> HIDE DEF r, granted
<1>3. Awaits(granted, {})
  <2>1. /\ granted.open = c.open /\ granted.pending = c.pending /\ granted.deferred = c.deferred
        /\ granted.active = c.active /\ granted.drain = c.drain /\ granted.data = c.data
        /\ granted.closing = c.closing /\ granted.state = c.state
        /\ granted.tomb = c.tomb /\ granted.nextSys = c.nextSys
    BY <1>2 DEF Fields
  <2>2. LiveCare(c, {}) => LiveCare(granted, {})
    BY <2>1 DEF LiveCare, Backed, Attended, UnresolvedCommands
  <2>3. Promised(granted)
    BY <1>2 DEF Promised, Awaits, Put
  <2>4. Pausing(granted) /\ Retirement(granted)
    BY <2>1 DEF Awaits, Pausing, Retirement
  <2> QED
    BY <2>1, <2>2, <2>3, <2>4 DEF Awaits, Cared
<1>4. /\ \A x : Awaits(SendResponse(c, x), {})
      /\ Awaits(ReceiveData(c, m), {})
      /\ \A reason : Awaits(CloseAll(c, reason), {})
      /\ Awaits(FailRuntimeInvariant(c), {})
  BY ResponseAwaits, DataAwaits, CloseAllAwaits, FailureAwaits DEF IInv, Awaits
<1>5. \A a : Awaits(Emit(c, a), {}) /\ Awaits(Emit(granted, a), {})
  BY <1>2, <1>3, AwaitsEmit DEF IInv, Weak, Shape
<1> QED
  BY <1>1, <1>4, <1>5 DEF r

-----------------------------------------------------------------------------
(* Leaving Selected for good.                                              *)

\* The command of the live transaction, if any.
Bound(c) == {k \in Commands : c.active # None /\ c.active.command = k}

\* The commands of Send and Request.
DataCommands(c) == {k \in DOMAIN c.open : c.open[k] \in {"Send", "Request"}}

\* A handler that leaves Selected for good takes in hand what a close does not excuse.
LEMMA LeavingCare ==
  ASSUME NEW c, NEW d, NEW X, IInv(c), ~c.closing, Awaits(c, X), d.state = "NotSelected",
         d.open = c.open, d.pending = c.pending, d.deferred = c.deferred
  PROVE  ClosingCare(d, X \cup Bound(c) \cup DataCommands(c))
<1> DEFINE Y == X \cup Bound(c) \cup DataCommands(c)
<1>1. LiveCare(c, X)
  BY DEF Awaits, Cared
<1>2. \A k \in DOMAIN c.open : c.open[k] = "Control" \/ k \in DataCommands(c)
  BY DEF IInv, Weak, Shape, CommandKinds, DataCommands
<1>3. ASSUME NEW w \in DOMAIN c.pending
      PROVE  \/ c.pending[w].command \in Y \cup {None} \cup DOMAIN c.deferred
             \/ c.pending[w].kind \notin {"TransactionRequest", "DataRequest"}
  <2>1. CASE c.pending[w].command \in X \cup {None}
    BY <2>1
  <2>2. CASE c.pending[w].command \notin X \cup {None} /\ c.pending[w].kind = "TransactionRequest"
    <3>1. c.active # None /\ c.active.command = c.pending[w].command
      BY <1>1, <2>2 DEF LiveCare, Backed
    <3>2. c.pending[w].command \in Commands
      BY <2>2 DEF IInv, Weak, Shape
    <3> QED
      BY <3>1, <3>2 DEF Bound
  <2>3. CASE c.pending[w].command \notin X \cup {None} /\ c.pending[w].kind = "DataRequest"
    <3>1. /\ c.pending[w].command \in DOMAIN c.open
          /\ c.open[c.pending[w].command] = KindFor("DataRequest")
      BY <2>3 DEF IInv, Weak, Linked
    <3> QED
      BY <3>1 DEF KindFor, DataCommands
  <2> QED
    BY <2>1, <2>2, <2>3
<1> HIDE DEF Y
<1>4. ClosingCare(d, Y)
  BY <1>2, <1>3 DEF ClosingCare, Y
<1> QED
  BY <1>4 DEF Y

\* emit_completion takes its commands off the handler's hands there, too.
LEMMA ClosingCompletes ==
  ASSUME NEW c, NEW ks, NEW result, NEW X, ClosingCare(c, X), Shape(c)
  PROVE  ClosingCare(EmitCompletion(c, ks, result), X \ ks)
<1> DEFINE r == EmitCompletion(c, ks, result)
<1>1. /\ \A f \in Fields \ {"open", "deferred", "pending", "out"} : r[f] = c[f]
      /\ DOMAIN r.open = DOMAIN c.open \ ks
      /\ \A k \in DOMAIN r.open : r.open[k] = c.open[k]
      /\ DOMAIN r.deferred = DOMAIN c.deferred \ ks
      /\ DOMAIN r.pending = DOMAIN c.pending
      /\ \A w \in DOMAIN c.pending :
           /\ r.pending[w].kind = c.pending[w].kind
           /\ r.pending[w].command = IF c.pending[w].command \in ks THEN None
                                     ELSE c.pending[w].command
  BY EmitCompletionEffect
<1> HIDE DEF r
<1>2. UnresolvedCommands(c) \ ks \subseteq UnresolvedCommands(r)
  BY <1>1 DEF UnresolvedCommands
<1>3. r.state = c.state
  BY <1>1 DEF Fields
<1> QED
  BY <1>1, <1>2, <1>3 DEF ClosingCare, r

\* complete_or_defer: the commands it defers wait for their writes.
LEMMA ClosingDefers ==
  ASSUME NEW c, NEW ks, NEW error, NEW X, ClosingCare(c, X), Shape(c)
  PROVE  ClosingCare(CompleteOrDefer(c, ks, error), X \ ks)
<1> DEFINE held == ks \cap UnresolvedCommands(c)
           kept == [c EXCEPT !.deferred =
                     [k \in DOMAIN c.deferred \cup held |->
                        IF k \in DOMAIN c.deferred THEN c.deferred[k] ELSE error]]
           r == EmitCompletion(kept, ks \ held, error)
<1>1. /\ DOMAIN kept = Fields
      /\ \A f \in Fields \ {"deferred"} : kept[f] = c[f]
      /\ DOMAIN kept.deferred = DOMAIN c.deferred \cup held
  BY DEF Shape, Fields
<1>2. CompleteOrDefer(c, ks, error) = r
  BY DEF CompleteOrDefer
<1>3. held \subseteq UnresolvedCommands(c) /\ held \subseteq ks
  OBVIOUS
<1> HIDE DEF kept
<1>4. held \subseteq Commands
  BY DEF UnresolvedCommands, Shape
<1> HIDE DEF held
<1>5. Shape(kept)
  BY <1>1, <1>4 DEF Shape, Fields
<1>6. ClosingCare(kept, X \ held)
  <2>1. kept.open = c.open /\ kept.pending = c.pending /\ kept.state = c.state
    BY <1>1 DEF Fields
  <2>2. UnresolvedCommands(kept) = UnresolvedCommands(c)
    BY <2>1 DEF UnresolvedCommands
  <2> QED
    BY <1>1, <1>3, <2>1, <2>2 DEF ClosingCare
<1>7. ClosingCare(r, (X \ held) \ (ks \ held))
  BY <1>5, <1>6, ClosingCompletes
<1>8. (X \ held) \ (ks \ held) = X \ ks
  BY <1>3
<1> QED
  BY <1>2, <1>7, <1>8

\* On the way out of Selected, from b, with the commands X in hand.
Leaves(b, d, X) ==
  /\ Weak(d) /\ d.state = "NotSelected" /\ ClosingCare(d, X)
  /\ d.tomb = b.tomb /\ d.nextSys = b.nextSys /\ d.closing = b.closing
  /\ \A k \in DOMAIN d.open : k \in DOMAIN b.open /\ d.open[k] = b.open[k]
  /\ DOMAIN d.pending = DOMAIN b.pending
  /\ UnresolvedCommands(d) \subseteq UnresolvedCommands(b)

\* complete_error and its kin of a command of the kind they insist on.
LEMMA LeavesCompletes ==
  ASSUME NEW b, NEW d, NEW X, NEW j, NEW kinds, NEW result, Leaves(b, d, X),
         j \in DOMAIN d.open, d.open[j] \in kinds
  PROVE  LET r == CompleteAs(d, j, kinds, result)
         IN  Leaves(b, r, X \ {j}) /\ r.active = d.active /\ r.data = d.data
<1> DEFINE r == EmitCompletion(d, {j}, result)
<1>1. CompleteAs(d, j, kinds, result) = r
  BY DEF CompleteAs
<1>2. /\ \A f \in Fields \ {"open", "deferred", "pending", "out"} : r[f] = d[f]
      /\ DOMAIN r.open = DOMAIN d.open \ {j}
      /\ \A k \in DOMAIN r.open : r.open[k] = d.open[k]
      /\ DOMAIN r.pending = DOMAIN d.pending
      /\ \A w \in DOMAIN d.pending :
           r.pending[w].command = IF d.pending[w].command \in {j} THEN None
                                  ELSE d.pending[w].command
  BY EmitCompletionEffect DEF Leaves, Weak
<1>3. Weak(r) /\ ClosingCare(r, X \ {j})
  BY EmitCompletionWeak, ClosingCompletes DEF Leaves, Weak
<1> HIDE DEF r
<1>4. UnresolvedCommands(r) \subseteq UnresolvedCommands(d)
  BY <1>2 DEF UnresolvedCommands
<1>5. /\ r.state = d.state /\ r.tomb = d.tomb /\ r.nextSys = d.nextSys
      /\ r.closing = d.closing /\ r.active = d.active /\ r.data = d.data
  BY <1>2 DEF Fields
<1>6. Leaves(b, r, X \ {j})
  BY <1>2, <1>3, <1>4, <1>5 DEF Leaves
<1> QED
  BY <1>1, <1>5, <1>6

\* complete_control_transaction of the live transaction.
LEMMA LeavesTransaction ==
  ASSUME NEW b, NEW d, NEW X, NEW c, NEW result, IInv(c), c.active # None,
         Leaves(b, d, X \cup Bound(c)), d.open = c.open
  PROVE  LET r == CompleteControlTransaction(d, c.active, result)
         IN  Leaves(b, r, X) /\ r.active = d.active /\ r.data = d.data
<1> DEFINE k == c.active.command
           r == CompleteControlTransaction(d, c.active, result)
<1>1. \A Y, Z : Leaves(b, r, Y) /\ Y \subseteq Z => Leaves(b, r, Z)
  BY DEF Leaves, ClosingCare
<1>2. CASE k = None
  <2>1. X \cup Bound(c) = X
    BY <1>2, NoneAssumption DEF Bound
  <2> QED
    BY <1>2, <2>1 DEF CompleteControlTransaction
<1>3. CASE k # None
  <2>1. k \in DOMAIN d.open /\ d.open[k] \in {"Control"}
    BY <1>3 DEF IInv, Owners
  <2>2. r = CompleteAs(d, k, {"Control"}, result)
    BY <1>3 DEF CompleteControlTransaction, CompleteControl
  <2>3. Bound(c) \subseteq {k}
    BY DEF Bound
  <2> DEFINE Y == X \cup Bound(c)
             kinds == {"Control"}
  <2>a. Leaves(b, d, Y) /\ Y \ {k} \subseteq X
    BY <2>3
  <2> HIDE DEF r, k, Y, kinds
  <2>4. Leaves(b, r, Y \ {k}) /\ r.active = d.active /\ r.data = d.data
    <3>1. k \in DOMAIN d.open /\ d.open[k] \in kinds /\ r = CompleteAs(d, k, kinds, result)
      BY <2>1, <2>2 DEF kinds
    <3> QED
      BY ONLY <2>a, <3>1, LeavesCompletes
  <2>5. Y \ {k} \subseteq X
    BY <2>a
  <2> QED
    BY <1>1, <2>4, <2>5 DEF r
<1> QED
  BY <1>2, <1>3

\* complete_data_for_deselection.
LEMMA LeavesData ==
  ASSUME NEW b, NEW d, NEW X, Leaves(b, d, X \cup DataCommands(b))
  PROVE  LET r == CompleteDataForDeselection(d)
         IN  Leaves(b, r, X) /\ DOMAIN r.data = {}
<1> DEFINE e == [d EXCEPT !.data = EmptyFunction]
           ks == DataCommands(d)
           r == CompleteOrDefer(e, ks, "SessionDeselected")
<1>1. CompleteDataForDeselection(d) = r
  BY DEF CompleteDataForDeselection, DataCommands
<1>2. /\ DOMAIN e = Fields /\ DOMAIN e.data = {}
      /\ \A f \in Fields \ {"data"} : e[f] = d[f]
  BY DEF Leaves, Weak, Shape, Fields, EmptyFunction
<1> HIDE DEF e, ks
<1>3. Weak(e)
  <2>1. Shape(e)
    BY <1>2 DEF Leaves, Weak, Shape, Fields
  <2>2. Linked(e) /\ Deferral(e)
    BY <1>2 DEF Leaves, Weak, Linked, Deferral, UnresolvedCommands, Fields
  <2> QED BY <2>1, <2>2 DEF Weak
<1>4. UnresolvedCommands(e) = UnresolvedCommands(d)
  BY <1>2 DEF UnresolvedCommands, Fields
<1>5. ClosingCare(e, X \cup ks)
  <2>1. \A k \in DOMAIN d.open : k \in DataCommands(b) => k \in ks
    BY DEF Leaves, DataCommands, ks
  <2>2. \A w \in DOMAIN d.pending : d.pending[w].command # None =>
          d.pending[w].command \in DOMAIN d.open
    BY DEF Leaves, Weak, Linked
  <2>3. ClosingCare(d, X \cup DataCommands(b))
    BY DEF Leaves
  <2>4. ClosingCare(d, X \cup ks)
    BY <2>1, <2>2, <2>3 DEF ClosingCare
  <2>5. e.open = d.open /\ e.pending = d.pending /\ e.deferred = d.deferred /\ e.state = d.state
    BY <1>2 DEF Fields
  <2> QED
    BY <1>4, <2>4, <2>5 DEF ClosingCare
<1>6. ClosingCare(r, (X \cup ks) \ ks)
  BY <1>3, <1>5, ClosingDefers DEF Weak
<1>7. /\ Weak(r)
      /\ \A f \in Fields \ {"open", "deferred", "pending", "out"} : r[f] = e[f]
      /\ DOMAIN r.pending = DOMAIN e.pending
      /\ UnresolvedCommands(r) \subseteq UnresolvedCommands(e)
  BY <1>3, CompleteOrDeferWeak
<1>8. \A k \in DOMAIN r.open : k \in DOMAIN e.open /\ r.open[k] = e.open[k]
  <2> DEFINE held == ks \cap UnresolvedCommands(e)
             kept == [e EXCEPT !.deferred =
                       [k \in DOMAIN e.deferred \cup held |->
                          IF k \in DOMAIN e.deferred THEN e.deferred[k] ELSE "SessionDeselected"]]
  <2>1. r = EmitCompletion(kept, ks \ held, "SessionDeselected")
    BY DEF CompleteOrDefer
  <2>2. kept.open = e.open /\ DOMAIN kept = Fields
    BY <1>2 DEF Fields
  <2> HIDE DEF kept, held, r
  <2>3. \/ r = kept
        \/ r.open = Drop(kept.open, ks \ held)
    BY <2>1, <2>2 DEF EmitCompletion, Emit, Fields
  <2> QED
    BY <2>2, <2>3 DEF Drop
<1> HIDE DEF r
<1>9. /\ r.state = d.state /\ r.tomb = d.tomb /\ r.nextSys = d.nextSys
      /\ r.closing = d.closing /\ DOMAIN r.data = {} /\ e.open = d.open /\ e.pending = d.pending
  BY <1>2, <1>7 DEF Fields
<1>10. ClosingCare(r, X)
  BY <1>6 DEF ClosingCare
<1>11. Leaves(b, r, X)
  BY <1>4, <1>7, <1>8, <1>9, <1>10 DEF Leaves
<1> QED
  BY <1>1, <1>9, <1>11

\* The request_close that ends it.
LEMMA LeavesCloses ==
  ASSUME NEW d, NEW reason, NEW barrier, DOMAIN d = Fields, ClosingCare(d, {}), Retirement(d)
  PROVE  Awaits(RequestClose(d, reason, barrier), {})
<1> DEFINE r == RequestClose(d, reason, barrier)
<1>1. /\ DOMAIN r = Fields /\ r.closing /\ r.replies = EmptyFunction
      /\ \A f \in Fields \ {"closing", "drain", "replies", "closeIssued", "out"} : r[f] = d[f]
  BY RequestCloseFields
<1> HIDE DEF r
<1>2. /\ r.open = d.open /\ r.pending = d.pending /\ r.deferred = d.deferred
      /\ r.state = d.state /\ r.data = d.data /\ r.tomb = d.tomb /\ r.nextSys = d.nextSys
  BY <1>1 DEF Fields
<1>3. ClosingCare(r, {})
  BY <1>2 DEF ClosingCare, UnresolvedCommands
<1>4. Pausing(r) /\ Retirement(r) /\ Promised(r)
  BY <1>1, <1>2 DEF Pausing, Retirement, Promised, EmptyFunction
<1> QED
  BY <1>1, <1>3, <1>4 DEF Awaits, Cared, r

\* receive_separate.
LEMMA SeparateReceivedAwaits ==
  ASSUME NEW c, IInv(c), ~c.closing, Awaits(c, {})
  PROVE  Awaits(ReceiveSeparate(c), {})
<1>1. CASE c.state # "Selected"
  BY <1>1 DEF ReceiveSeparate
<1>2. CASE c.state = "Selected"
  <2> DEFINE left == [c EXCEPT !.state = "NotSelected", !.active = None]
             nocontrol == IF c.active = None THEN left
                          ELSE CompleteControlTransaction(left, c.active, "TransactionAborted")
             nodata == CompleteDataForDeselection(nocontrol)
             told == Emit(nodata, StateChanged("NotSelected"))
  <2>1. ReceiveSeparate(c) = RequestClose(told, "SeparateReceived", Immediate)
    BY <1>2 DEF ReceiveSeparate
  <2>2. /\ DOMAIN left = Fields /\ left.state = "NotSelected" /\ left.active = None
        /\ \A f \in Fields \ {"state", "active"} : left[f] = c[f]
    BY DEF IInv, Weak, Shape, Fields
  <2> HIDE DEF left
  <2>3. Weak(left)
    <3>1. Shape(left)
      BY <2>2 DEF IInv, Weak, Shape, Fields
    <3>2. Linked(left) /\ Deferral(left)
      BY <2>2 DEF IInv, Weak, Linked, Deferral, UnresolvedCommands, Fields
    <3> QED BY <3>1, <3>2 DEF Weak
  <2>4. /\ left.open = c.open /\ left.pending = c.pending /\ left.deferred = c.deferred
        /\ left.tomb = c.tomb /\ left.nextSys = c.nextSys /\ left.data = c.data
    BY <2>2 DEF Fields
  <2> DEFINE X == {} \cup DataCommands(left)
  <2>5. Leaves(left, left, X \cup Bound(c))
    <3>1. ClosingCare(left, {} \cup Bound(c) \cup DataCommands(c))
      BY <2>2, <2>4, LeavingCare
    <3>2. {} \cup Bound(c) \cup DataCommands(c) = X \cup Bound(c)
      BY <2>4 DEF DataCommands
    <3> QED
      BY <2>2, <2>3, <3>1, <3>2 DEF Leaves
  <2> HIDE DEF X
  <2>6. Leaves(left, nocontrol, X)
    <3>1. CASE c.active = None
      <4>1. X \cup Bound(c) = X
        BY <3>1 DEF Bound
      <4> QED
        BY <2>5, <3>1, <4>1
    <3>2. CASE c.active # None
      BY <2>4, <2>5, <3>2, LeavesTransaction
    <3> QED BY <3>1, <3>2
  <2> HIDE DEF nocontrol
  <2>7. Leaves(left, nodata, {}) /\ DOMAIN nodata.data = {}
    BY <2>6, LeavesData DEF X
  <2> HIDE DEF nodata
  <2>8. DOMAIN nodata = Fields
    BY <2>7 DEF Leaves, Weak, Shape
  <2>9. DOMAIN told = Fields /\ \A f \in Fields \ {"out"} : told[f] = nodata[f]
    BY <2>8, EmitFields
  <2> HIDE DEF told
  <2>10. /\ told.open = nodata.open /\ told.pending = nodata.pending
         /\ told.deferred = nodata.deferred /\ told.state = nodata.state
         /\ told.data = nodata.data /\ told.tomb = nodata.tomb /\ told.nextSys = nodata.nextSys
    BY <2>9 DEF Fields
  <2>11. ClosingCare(told, {})
    BY <2>7, <2>10 DEF Leaves, ClosingCare, UnresolvedCommands
  <2>12. Retirement(told)
    BY <2>4, <2>7, <2>10 DEF Leaves, Awaits, Retirement
  <2> QED
    BY <2>1, <2>9, <2>11, <2>12, LeavesCloses
<1> QED BY <1>1, <1>2

\* Leaves depends on neither the live transaction nor the drain.
LEMMA LeavesSame ==
  ASSUME NEW b, NEW d, NEW e, NEW X, Leaves(b, d, X), DOMAIN e = Fields,
         \A f \in Fields \ {"active", "drain"} : e[f] = d[f],
         e.active \in {d.active, None}, e.drain \in {d.drain, None}
  PROVE  Leaves(b, e, X)
<1>1. /\ e.open = d.open /\ e.pending = d.pending /\ e.deferred = d.deferred /\ e.state = d.state
      /\ e.tomb = d.tomb /\ e.nextSys = d.nextSys /\ e.closing = d.closing
  BY DEF Fields
<1>2. Shape(e)
  BY DEF Leaves, Weak, Shape, Fields
<1>3. Linked(e) /\ Deferral(e) /\ UnresolvedCommands(e) = UnresolvedCommands(d)
  BY <1>1, DOMAIN e = Fields, e.nextWrite = d.nextWrite
  DEF Leaves, Weak, Linked, Deferral, UnresolvedCommands, Fields
<1>4. ClosingCare(e, X)
  BY <1>1 DEF Leaves, ClosingCare, UnresolvedCommands
<1> QED
  BY <1>1, <1>2, <1>3, <1>4 DEF Leaves, Weak

\* start_separate: k, if any, waits for the Separate.
LEMMA StartSeparateAwaits ==
  ASSUME NEW c, NEW k, NEW reason, IInv(c), ~c.closing, Awaits(c, {k}),
         k = None \/ Free(c, k, "Control")
  PROVE  Awaits(StartSeparate(c, k, reason), {}) /\ KeepsWork(c, StartSeparate(c, k, reason))
<1> DEFINE res == StartSeparate(c, k, reason)
<1>1. CASE c.state # "Selected"
  <2>1. CASE k = None
    <3>1. res = c
      BY <1>1, <2>1 DEF StartSeparate
    <3>2. Awaits(c, {})
      BY <2>1, AwaitsMore DEF IInv, Weak
    <3> QED
      BY <3>1, <3>2 DEF KeepsWork
  <2>2. CASE k # None
    <3>1. res = CompleteError(c, k, "NotSelected")
      BY <1>1, <2>2 DEF StartSeparate
    <3> QED
      BY <3>1, ErrorAwaits DEF IInv
  <2> QED BY <2>1, <2>2
<1>2. CASE c.state = "Selected" /\ IdentifiersExhausted(c)
  <2>1. res = RefuseIdentifiers(c)
    BY <1>2 DEF StartSeparate
  <2>2. RefuseIdentifiers(c).closing
    BY CloseAllIInv, FailRuntimeInvariantIInv DEF RefuseIdentifiers, IInv
  <2> QED
    BY <2>1, <2>2, RefusalAwaits DEF IInv, Awaits, KeepsWork
<1>3. CASE c.state = "Selected" /\ ~IdentifiersExhausted(c)
  <2> DEFINE left == [AllocateRequestIdentifiers(c) EXCEPT !.state = "NotSelected",
                                                           !.closing = TRUE]
             parted == [left EXCEPT !.drain = None]
             nodrain == IF left.drain = None THEN left
                        ELSE CompleteError(parted, left.drain, "TransactionAborted")
             freed == [nodrain EXCEPT !.active = None]
             nocontrol == IF nodrain.active = None THEN nodrain
                          ELSE CompleteControlTransaction(freed, nodrain.active,
                                                          "TransactionAborted")
             nodata == CompleteDataForDeselection(nocontrol)
             write == PendingWrite("Separate", k, None, None)
             written == [nodata EXCEPT !.pending = Put(@, c.nextWrite, write)]
             sent == Emit(written, SendFrame(c.nextWrite, SeparateReq(ControlSession, c.nextSys)))
             told == Emit(sent, StateChanged("NotSelected"))
  <2>0. res = RequestClose(told, reason, c.nextWrite)
    BY <1>3 DEF StartSeparate
  <2>1. /\ Shape(c) /\ c.nextWrite \in WriteIds /\ c.nextWrite + 1 \in 0..WriteSpace
        /\ \A v \in DOMAIN c.pending : v # c.nextWrite /\ v < c.nextWrite + 1
        /\ c.nextSys + 1 \in 0..SystemBytesSpace /\ c.nextSys # SystemBytesSpace
    BY <1>3, FreshWrite, FreshSystemBytes DEF IInv, Weak, IdentifiersExhausted
  <2>2. /\ DOMAIN left = Fields
        /\ \A f \in Fields \ {"nextWrite", "nextSys", "state", "closing"} : left[f] = c[f]
        /\ left.nextWrite = c.nextWrite + 1 /\ left.nextSys = c.nextSys + 1
        /\ left.state = "NotSelected" /\ left.closing /\ left.closing \in BOOLEAN
    BY <2>1 DEF Shape, Fields, AllocateRequestIdentifiers
  <2> HIDE DEF left, res
  <2>3. /\ left.open = c.open /\ left.pending = c.pending /\ left.deferred = c.deferred
        /\ left.tomb = c.tomb /\ left.data = c.data /\ left.active = c.active
        /\ left.drain = c.drain
    BY <2>2 DEF Fields
  <2>4. Weak(left) /\ Retirement(left)
    <3>1. Shape(left)
      BY <2>1, <2>2 DEF Shape, Fields
    <3>2. Linked(left) /\ Deferral(left)
      BY <2>1, <2>2 DEF IInv, Weak, Linked, Deferral, UnresolvedCommands, Fields
    <3>3. Retirement(left)
      BY <2>1, <2>2, <2>3, RetirementNumbers DEF IInv, Awaits
    <3> QED BY <3>1, <3>2, <3>3 DEF Weak
  <2> DEFINE X == {k} \cup DataCommands(left)
             XB == X \cup Bound(c)
  <2>5. Leaves(left, left, XB)
    <3>1. ClosingCare(left, {k} \cup Bound(c) \cup DataCommands(c))
      BY <2>2, <2>3, LeavingCare
    <3>2. {k} \cup Bound(c) \cup DataCommands(c) = XB
      BY <2>3 DEF DataCommands
    <3> QED
      BY <2>2, <2>4, <3>1, <3>2 DEF Leaves
  <2> HIDE DEF X
  <2>6. /\ Leaves(left, nodrain, XB)
        /\ nodrain.active = c.active /\ (c.active # None => nodrain.open = c.open)
    <3>1. CASE c.drain = None
      BY <2>3, <2>5, <3>1
    <3>2. CASE c.drain # None
      <4>1. /\ DOMAIN parted = Fields /\ parted.drain = None
            /\ \A f \in Fields \ {"drain"} : parted[f] = left[f]
        BY <2>2 DEF Fields
      <4>2. nodrain = CompleteAs(parted, c.drain, CommandKinds, "TransactionAborted")
        BY <2>3, <3>2 DEF CompleteError
      <4>3. c.drain \in DOMAIN c.open /\ c.open[c.drain] = "Control" /\ c.active = None
        BY <3>2 DEF IInv, Owners
      <4> HIDE DEF parted, nodrain, XB
      <4>4. Leaves(left, parted, XB) /\ parted.active = c.active /\ parted.open = c.open
        BY <2>3, <2>5, <4>1, LeavesSame DEF Fields
      <4>5. c.drain \in DOMAIN parted.open /\ parted.open[c.drain] \in CommandKinds
        BY <4>3, <4>4 DEF CommandKinds
      <4>6. Leaves(left, nodrain, XB \ {c.drain}) /\ nodrain.active = parted.active
        BY <4>2, <4>4, <4>5, LeavesCompletes
      <4>7. Leaves(left, nodrain, XB)
        BY <4>6 DEF Leaves, ClosingCare
      <4> QED
        BY <4>3, <4>4, <4>6, <4>7
    <3> QED BY <3>1, <3>2
  <2> HIDE DEF nodrain
  <2>7. Leaves(left, nocontrol, X)
    <3>1. CASE c.active = None
      <4>1. XB = X
        BY <3>1 DEF Bound
      <4>2. nocontrol = nodrain
        BY <2>6, <3>1
      <4> QED
        BY <2>6, <4>1, <4>2
    <3>2. CASE c.active # None
      <4>1. /\ DOMAIN freed = Fields /\ freed.active = None
            /\ \A f \in Fields \ {"active"} : freed[f] = nodrain[f]
        BY <2>6 DEF Leaves, Weak, Shape, Fields
      <4>2. nocontrol = CompleteControlTransaction(freed, c.active, "TransactionAborted")
        BY <2>6, <3>2
      <4> HIDE DEF freed, nocontrol, XB
      <4>3. Leaves(left, freed, XB) /\ freed.open = c.open
        BY <2>6, <3>2, <4>1, LeavesSame DEF Fields
      <4>4. Leaves(left, freed, X \cup Bound(c)) /\ freed.open = c.open
        BY <4>3 DEF XB
      <4> QED
        BY ONLY IInv(c), <3>2, <4>2, <4>4, LeavesTransaction
    <3> QED BY <3>1, <3>2
  <2> HIDE DEF nocontrol
  <2> DEFINE K == {k}
  <2>8. Leaves(left, nodata, K) /\ DOMAIN nodata.data = {}
    <3>1. Leaves(left, nocontrol, K \cup DataCommands(left))
      BY <2>7 DEF X
    <3> HIDE DEF K
    <3> QED
      BY <3>1, LeavesData
  <2> HIDE DEF nodata
  <2>9. /\ DOMAIN written = Fields /\ written.pending = Put(nodata.pending, c.nextWrite, write)
        /\ \A f \in Fields \ {"pending"} : written[f] = nodata[f]
    BY <2>8 DEF Leaves, Weak, Shape, Fields
  <2>10. write.command = k /\ write.kind = "Separate"
    BY DEF PendingWrite
  <2> HIDE DEF written, write
  <2>11. /\ written.open = nodata.open /\ written.deferred = nodata.deferred
         /\ written.state = nodata.state /\ written.data = nodata.data
         /\ written.tomb = nodata.tomb /\ written.nextSys = nodata.nextSys
    BY <2>9 DEF Fields
  <2>12. /\ DOMAIN written.pending = DOMAIN nodata.pending \cup {c.nextWrite}
         /\ written.pending[c.nextWrite] = write
         /\ \A v \in DOMAIN nodata.pending : written.pending[v] = nodata.pending[v]
    <3>1. c.nextWrite \notin DOMAIN nodata.pending
      BY <2>1, <2>3, <2>8 DEF Leaves
    <3> QED
      BY <2>9, <3>1 DEF Put
  <2>13. ClosingCare(written, {})
    <3>1. UnresolvedCommands(nodata) \cup ({k} \ {None}) \subseteq UnresolvedCommands(written)
      BY <2>10, <2>12 DEF UnresolvedCommands
    <3>2. \A v \in DOMAIN nodata.pending : nodata.pending[v].command = k => k = None
      BY <2>3, <2>8 DEF Leaves, UnresolvedCommands, Free
    <3>3. None \notin DOMAIN nodata.open
      BY <2>8, NoneAssumption DEF Leaves, Weak, Shape
    <3>4. ClosingCare(nodata, {k})
      BY <2>8 DEF Leaves
    <3>5. ASSUME NEW j \in DOMAIN written.open
          PROVE  \/ j \in UnresolvedCommands(written)
                 \/ written.open[j] = "Control" /\ written.state = "NotSelected"
      BY <2>11, <3>1, <3>3, <3>4 DEF ClosingCare
    <3>6. ASSUME NEW v \in DOMAIN written.pending
          PROVE  \/ written.pending[v].command \in {None} \cup DOMAIN written.deferred
                 \/ written.pending[v].kind \notin {"TransactionRequest", "DataRequest"}
      BY <2>10, <2>11, <2>12, <3>2, <3>4 DEF ClosingCare
    <3> QED
      BY <3>5, <3>6 DEF ClosingCare
  <2>14. Retirement(written)
    BY <2>4, <2>8, <2>11 DEF Leaves, Retirement
  <2>15. DOMAIN sent = Fields /\ \A f \in Fields \ {"out"} : sent[f] = written[f]
    BY <2>9, EmitFields
  <2> HIDE DEF sent
  <2>16. DOMAIN told = Fields /\ \A f \in Fields \ {"out"} : told[f] = sent[f]
    BY <2>15, EmitFields
  <2> HIDE DEF told
  <2>17. /\ told.open = written.open /\ told.pending = written.pending
         /\ told.deferred = written.deferred /\ told.state = written.state
         /\ told.data = written.data /\ told.tomb = written.tomb
         /\ told.nextSys = written.nextSys
    BY <2>15, <2>16 DEF Fields
  <2>18. ClosingCare(told, {}) /\ Retirement(told)
    BY <2>13, <2>14, <2>17 DEF ClosingCare, UnresolvedCommands, Retirement
  <2>19. Awaits(res, {}) /\ res.closing
    BY <2>0, <2>16, <2>18, LeavesCloses, RequestCloseFields
  <2> QED
    BY <2>19 DEF KeepsWork, res
<1> QED BY <1>1, <1>2, <1>3

-----------------------------------------------------------------------------
(* Commands and replies.                                                   *)

\* start_data: k waits for its write, a request for its entry too.
LEMMA StartDataAwaits ==
  ASSUME NEW c, NEW k, NEW primary, NEW w \in BOOLEAN, IInv(c), ~c.closing, Awaits(c, {k}),
         Free(c, k, IF w THEN "Request" ELSE "Send")
  PROVE  Awaits(StartData(c, k, primary, w), {}) /\ KeepsWork(c, StartData(c, k, primary, w))
<1> DEFINE header == DataHeader(DataSession, primary.stream, primary.function, w, c.nextSys)
           contract == ForRequest(DataSession, c.nextSys, primary.stream, primary.function)
           request == [command |-> k, write |-> c.nextWrite, armed |-> FALSE,
                       contract |-> contract]
           kind == IF w THEN "DataRequest" ELSE "DataSend"
           p == PendingWrite(kind, k, DataSession, c.nextSys)
           d == [AllocateRequestIdentifiers(c) EXCEPT
                   !.data = IF w THEN Put(@, c.nextSys, request) ELSE @,
                   !.pending = Put(@, c.nextWrite, p)]
           a == SendFrame(c.nextWrite, DataMsg(header, primary.body))
           r == Emit(d, a)
           res == StartData(c, k, primary, w)
<1>1. \/ \E e : res = CompleteError(c, k, e)
      \/ IdentifiersExhausted(c) /\ res = RefuseIdentifiers(c)
      \/ ~IdentifiersExhausted(c) /\ res = r
  BY DEF StartData
<1>2. \A e : Awaits(CompleteError(c, k, e), {}) /\ KeepsWork(c, CompleteError(c, k, e))
  BY ErrorAwaits DEF IInv
<1>3. Awaits(RefuseIdentifiers(c), {}) /\ KeepsWork(c, RefuseIdentifiers(c))
  <2>1. RefuseIdentifiers(c).closing
    BY CloseAllIInv, FailRuntimeInvariantIInv DEF RefuseIdentifiers, IInv
  <2> QED
    BY <2>1, RefusalAwaits DEF IInv, Awaits, KeepsWork
<1> HIDE DEF res
<1>4. ASSUME ~IdentifiersExhausted(c) PROVE Awaits(r, {}) /\ KeepsWork(c, r)
  <2>1. /\ c.nextWrite \notin DOMAIN c.pending /\ c.nextSys # SystemBytesSpace
    BY <1>4, FreshWrite DEF IInv, IdentifiersExhausted
  <2>2. p.command = k /\ p.kind = kind /\ p.sys = c.nextSys
    BY DEF PendingWrite
  <2>3. contract.sys = c.nextSys
    BY DEF ForRequest
  <2>4. request.command = k /\ request.write = c.nextWrite /\ request.contract = contract
    OBVIOUS
  <2> HIDE DEF contract, request, p, a
  <2>5. /\ DOMAIN d = Fields /\ d.pending = Put(c.pending, c.nextWrite, p)
        /\ d.data = IF w THEN Put(c.data, c.nextSys, request) ELSE c.data
        /\ d.nextSys = c.nextSys + 1
        /\ \A f \in Fields \ {"nextWrite", "nextSys", "data", "pending"} : d[f] = c[f]
    BY DEF AllocateRequestIdentifiers, IInv, Weak, Shape, Fields
  <2> HIDE DEF d
  <2>6. /\ d.open = c.open /\ d.deferred = c.deferred /\ d.closing = c.closing
        /\ d.drain = c.drain /\ d.state = c.state /\ d.replies = c.replies
        /\ d.active = c.active /\ d.tomb = c.tomb
    BY <2>5 DEF Fields
  <2>7. /\ c.nextSys \in Nat /\ c.nextSys < c.nextSys + 1 /\ DOMAIN c.data \subseteq SystemBytes
        /\ \A s \in SystemBytes : s < c.nextSys => s # c.nextSys /\ s < c.nextSys + 1
    BY SpaceAssumption DEF IInv, Weak, Shape, SystemBytes
  <2>8. c.nextSys \notin DOMAIN c.data
    BY <2>7 DEF Awaits, Retirement
  <2>9. /\ \A s \in DOMAIN c.data : s \in DOMAIN d.data /\ d.data[s] = c.data[s]
        /\ \A s \in DOMAIN d.data : s \in DOMAIN c.data \/ (s = c.nextSys /\ d.data[s] = request)
        /\ w => c.nextSys \in DOMAIN d.data /\ d.data[c.nextSys] = request
    BY <2>5, <2>8 DEF Put
  <2>10. Retirement(d)
    <3>1. Retirement(c)
      BY DEF Awaits
    <3>2. \A s \in DOMAIN d.data : d.data[s].contract.sys = s /\ s < d.nextSys
      BY <2>3, <2>4, <2>5, <2>7, <2>9, <3>1 DEF Retirement
    <3>3. \A i \in DOMAIN d.tomb : d.tomb[i].sys \in SystemBytes \ DOMAIN d.data
                                   /\ d.tomb[i].sys < d.nextSys
      BY <2>5, <2>6, <2>7, <2>9, <3>1 DEF Retirement
    <3> QED
      BY <2>6, <3>1, <3>2, <3>3 DEF Retirement
  <2>11. /\ \A v \in DOMAIN c.pending : v \in DOMAIN d.pending /\ d.pending[v] = c.pending[v]
         /\ c.nextWrite \in DOMAIN d.pending /\ d.pending[c.nextWrite] = p
    BY <2>1, <2>5 DEF Put
  <2>12. \A j : Attended(c, j) => Attended(d, j)
    BY <2>6, <2>9 DEF Attended
  <2>13. \A v \in DOMAIN c.pending : Backed(c, v) => Backed(d, v)
    BY <2>6, <2>9, <2>11 DEF Backed
  <2>14. Backed(d, c.nextWrite)
    BY <2>2, <2>4, <2>9, <2>11 DEF Backed
  <2>15. Awaits(d, {k} \ {p.command})
    BY <2>1, <2>2, <2>5, <2>6, <2>10, <2>12, <2>13, <2>14, AwaitsWrites DEF IInv, Weak, Free
  <2>16. {k} \ {p.command} = {}
    BY <2>2
  <2>17. Awaits(r, {})
    BY <2>5, <2>15, <2>16, AwaitsEmit
  <2>18. r.pending = d.pending /\ r.drain = d.drain
    BY <2>5, EmitFields DEF Fields
  <2> HIDE DEF r
  <2>19. DataInUse(r)
    BY <2>2, <2>11, <2>18 DEF DataInUse, DataWriteKinds
  <2> QED
    BY <2>6, <2>17, <2>18, <2>19 DEF KeepsWork
<1> QED
  BY <1>1, <1>2, <1>3, <1>4 DEF res

\* A handler starts with an empty batch.
LEMMA BeginAwaits ==
  ASSUME NEW c0, IInv(c0), Awaits(c0, {}), DrainWaits(c0)
  PROVE  LET c == Begin(c0)
         IN  /\ IInv(c) /\ Awaits(c, {}) /\ DrainWaits(c)
             /\ \A f \in Fields \ {"out"} : c[f] = c0[f]
<1> DEFINE c == Begin(c0)
<1>1. IInv(c) /\ \A f \in Fields \ {"out"} : c[f] = c0[f]
  BY BeginIInv
<1> HIDE DEF c
<1>2. Awaits(c, {})
  BY <1>1, AwaitsSame DEF Fields
<1>3. DrainWaits(c)
  BY <1>1 DEF DrainWaits, DataInUse, Fields
<1> QED
  BY <1>1, <1>2, <1>3 DEF c

\* A handler that opens a command has it in hand.
LEMMA OpenAwaits ==
  ASSUME NEW c0, IInv(c0), Awaits(c0, {}), DrainWaits(c0),
         NEW k \in Commands \ DOMAIN c0.open, NEW kind \in CommandKinds
  PROVE  LET c == [Begin(c0) EXCEPT !.open = Put(@, k, kind)]
         IN  /\ IInv(c) /\ Free(c, k, kind) /\ Awaits(c, {k}) /\ DrainWaits(c)
             /\ \A f \in Fields \ {"open", "out"} : c[f] = c0[f]
<1> DEFINE c == [Begin(c0) EXCEPT !.open = Put(@, k, kind)]
<1>1. /\ IInv(c) /\ Free(c, k, kind)
      /\ \A f \in Fields \ {"open", "out"} : c[f] = c0[f]
  BY OpenCommandIInv
<1>2. c.open = Put(c0.open, k, kind)
  BY DEF Begin, IInv, Weak, Shape, Fields
<1> HIDE DEF c
<1>3. DOMAIN c.open = DOMAIN c0.open \cup {k} /\ \A j \in DOMAIN c0.open : c.open[j] = c0.open[j]
  BY <1>2 DEF Put
<1>4. /\ c.pending = c0.pending /\ c.deferred = c0.deferred /\ c.active = c0.active
      /\ c.drain = c0.drain /\ c.data = c0.data /\ c.closing = c0.closing /\ c.state = c0.state
      /\ c.tomb = c0.tomb /\ c.nextSys = c0.nextSys /\ c.replies = c0.replies
  BY <1>1 DEF Fields
<1>5. LiveCare(c0, {}) => LiveCare(c, {k})
  BY <1>3, <1>4 DEF LiveCare, Attended, Backed, UnresolvedCommands
<1>6. ClosingCare(c0, {}) => ClosingCare(c, {k})
  BY <1>3, <1>4 DEF ClosingCare, UnresolvedCommands
<1>7. Awaits(c, {k})
  BY <1>4, <1>5, <1>6 DEF Awaits, Cared, Pausing, Retirement, Promised
<1>8. DrainWaits(c)
  BY <1>4 DEF DrainWaits, DataInUse
<1> QED
  BY <1>1, <1>7, <1>8 DEF c

\* fail_runtime_invariant closes.
LEMMA FailureEnds ==
  ASSUME NEW c, IInv(c), Awaits(c, {})
  PROVE  Awaits(FailRuntimeInvariant(c), {}) /\ DrainWaits(FailRuntimeInvariant(c))
BY FailureAwaits, FailRuntimeInvariantIInv DEF IInv, Awaits, DrainWaits

\* on_command.
LEMMA OnCommandAwaits ==
  ASSUME NEW c0, IInv(c0), Awaits(c0, {}), DrainWaits(c0), NEW k \in Commands,
         NEW kind \in CommandNames, NEW primary
  PROVE  LET r == OnCommand(c0, k, kind, primary) IN Awaits(r, {}) /\ DrainWaits(r)
<1>1. CASE k \in DOMAIN c0.open
  BY <1>1, BeginAwaits, FailureEnds DEF OnCommand
<1>2. CASE k \notin DOMAIN c0.open
  <2> DEFINE c == [Begin(c0) EXCEPT !.open = Put(@, k, OpenKind(kind))]
             r == OnCommand(c0, k, kind, primary)
  <2>1. OpenKind(kind) \in CommandKinds
    BY DEF OpenKind, CommandKinds, CommandNames, ControlCommands
  <2>2. IInv(c) /\ Free(c, k, OpenKind(kind)) /\ Awaits(c, {k}) /\ DrainWaits(c)
    BY <1>2, <2>1, OpenAwaits
  <2>3. r = IF c.state = "None" THEN CompleteError(c, k, "NotConnected")
            ELSE IF c.closing THEN CompleteError(c, k, "ConnectionLost")
            ELSE IF c.drain # None /\ kind \in {"Select", "Deselect", "Linktest"}
            THEN CompleteError(c, k, "ControlBusy")
            ELSE CASE kind = "Select"   -> StartSelect(c, k)
                   [] kind = "Deselect" -> StartDeselect(c, k)
                   [] kind = "Linktest" -> StartLinktest(c, k)
                   [] kind = "Separate" -> StartSeparate(c, k, "LocalSeparate")
                   [] kind = "Send"     -> StartData(c, k, primary, FALSE)
                   [] kind = "Request"  -> StartData(c, k, primary, TRUE)
    BY <1>2 DEF OnCommand
  <2> HIDE DEF c, r
  <2>4. ASSUME NEW x, Awaits(x, {}), KeepsWork(c, x), c.closing => x.closing
        PROVE  Awaits(x, {}) /\ DrainWaits(x)
    BY <2>2, <2>4, WorkKeepsDrain
  <2>5. \A e : Awaits(CompleteError(c, k, e), {}) /\ DrainWaits(CompleteError(c, k, e))
    BY <2>2, <2>4, ErrorAwaits DEF IInv
  <2>6. ASSUME ~c.closing, kind = "Select"
        PROVE  Awaits(StartSelect(c, k), {}) /\ DrainWaits(StartSelect(c, k))
    BY <2>2, <2>4, <2>6, StartSelectAwaits DEF OpenKind, ControlCommands
  <2>7. ASSUME ~c.closing, kind = "Linktest"
        PROVE  Awaits(StartLinktest(c, k), {}) /\ DrainWaits(StartLinktest(c, k))
    BY <2>2, <2>4, <2>7, StartSelectAwaits DEF OpenKind, ControlCommands
  <2>8. ASSUME ~c.closing, kind = "Deselect"
        PROVE  Awaits(StartDeselect(c, k), {}) /\ DrainWaits(StartDeselect(c, k))
    BY <2>2, <2>8, StartDeselectAwaits DEF OpenKind, ControlCommands
  <2>9. ASSUME ~c.closing, kind = "Separate"
        PROVE  /\ Awaits(StartSeparate(c, k, "LocalSeparate"), {})
               /\ DrainWaits(StartSeparate(c, k, "LocalSeparate"))
    BY <2>2, <2>4, <2>9, StartSeparateAwaits DEF OpenKind, ControlCommands
  <2>10. ASSUME ~c.closing, kind = "Send"
         PROVE  /\ Awaits(StartData(c, k, primary, FALSE), {})
                /\ DrainWaits(StartData(c, k, primary, FALSE))
    BY <2>2, <2>4, <2>10, StartDataAwaits DEF OpenKind, ControlCommands
  <2>11. ASSUME ~c.closing, kind = "Request"
         PROVE  /\ Awaits(StartData(c, k, primary, TRUE), {})
                /\ DrainWaits(StartData(c, k, primary, TRUE))
    BY <2>2, <2>4, <2>11, StartDataAwaits DEF OpenKind, ControlCommands
  <2>12. Awaits(r, {}) /\ DrainWaits(r)
    BY <2>3, <2>5, <2>6, <2>7, <2>8, <2>9, <2>10, <2>11 DEF CommandNames, ControlCommands
  <2> QED
    BY <2>12 DEF r
<1> QED
  BY <1>1, <1>2

\* What the application may do with a reply capability (DataReply).
ReplyIntents == {"Secondary", "Abort", "Abandon"}

\* on_reply.  Driver refuses a Secondary without a function to carry it, so every
\* reply is written, refused without taking its capability, or lets the drain go on.
LEMMA OnReplyAwaits ==
  ASSUME NEW c0, IInv(c0), Awaits(c0, {}), DrainWaits(c0), NEW k \in Commands, NEW capability,
         NEW intent \in ReplyIntents, NEW body, NEW due,
         intent = "Secondary" /\ capability \in DOMAIN c0.replies =>
           c0.replies[capability].function < 255
  PROVE  LET r == OnReply(c0, k, capability, intent, body, due) IN Awaits(r, {}) /\ DrainWaits(r)
<1>1. CASE k \in DOMAIN c0.open
  BY <1>1, BeginAwaits, FailureEnds DEF OnReply
<1>2. CASE k \notin DOMAIN c0.open
  <2> DEFINE kind == IF intent = "Abandon" THEN "Control" ELSE "Send"
             c    == [Begin(c0) EXCEPT !.open = Put(@, k, kind)]
             used == [c EXCEPT !.replies = Drop(@, {capability})]
             primary == c.replies[capability]
             function == IF intent = "Abort" THEN 0 ELSE primary.function + 1
             header  == DataHeader(primary.sid, primary.stream, function, FALSE, primary.sys)
             p == PendingWrite("DataSend", k, primary.sid, primary.sys)
             d == [used EXCEPT !.nextWrite = @ + 1, !.pending = Put(@, c.nextWrite, p)]
             a == SendFrame(c.nextWrite, DataMsg(header, intent = "Secondary" /\ body))
             r == OnReply(c0, k, capability, intent, body, due)
  <2>0. kind \in CommandKinds
    BY DEF CommandKinds
  <2>1. /\ IInv(c) /\ Free(c, k, kind) /\ Awaits(c, {k}) /\ DrainWaits(c)
        /\ \A f \in Fields \ {"open", "out"} : c[f] = c0[f]
    <3> HIDE DEF kind
    <3> QED
      BY <1>2, <2>0, OpenAwaits
  <2>2. \/ \E e : r = CompleteError(c, k, e)
        \/ /\ intent = "Abandon" /\ ~c.closing
           /\ r = ProgressDeselect(CompleteControl(used, k, "Ok"), due)
        \/ /\ capability \in DOMAIN c.replies /\ intent # "Abandon"
           /\ function \notin FunctionCodes
        \/ used.nextWrite = WriteSpace /\ r = FailRuntimeInvariant(used)
        \/ used.nextWrite # WriteSpace /\ ~c.closing /\ r = Emit(d, a)
    BY <1>2 DEF OnReply
  <2>3. ~(capability \in DOMAIN c.replies /\ intent # "Abandon" /\ function \notin FunctionCodes)
    <3>1. c.replies = c0.replies
      BY <2>1 DEF Fields
    <3>2. CASE intent = "Abort"
      BY <3>2 DEF FunctionCodes
    <3>3. CASE intent = "Secondary" /\ capability \in DOMAIN c.replies
      <4>1. primary.function \in 0..255 /\ primary.function < 255
        BY <2>1, <3>1, <3>3 DEF Awaits, Promised, FunctionCodes
      <4>2. primary.function + 1 \in 0..255
        BY <4>1
      <4> QED
        BY <3>3, <4>2 DEF FunctionCodes
    <3> QED
      BY <3>2, <3>3 DEF ReplyIntents
  <2> HIDE DEF c, a, r, function
  <2>4. IInv(used) /\ \A f \in Fields \ {"replies"} : used[f] = c[f]
    BY <2>1, DropReply
  <2>5. /\ DOMAIN used.replies \subseteq DOMAIN c.replies
        /\ \A x \in DOMAIN used.replies : used.replies[x] = c.replies[x]
    BY <2>1 DEF IInv, Weak, Shape, Fields, Drop
  <2> HIDE DEF used, kind
  <2>6. Awaits(used, {k})
    BY <2>1, <2>4, <2>5, AwaitsSame DEF Fields
  <2>7. Free(used, k, kind)
    BY <2>1, <2>4 DEF Free, Owned, UnresolvedCommands, Fields
  <2>8. \A e : Awaits(CompleteError(c, k, e), {}) /\ DrainWaits(CompleteError(c, k, e))
    BY <2>1, ErrorAwaits, WorkKeepsDrain DEF IInv
  <2>9. LET x == ProgressDeselect(CompleteControl(used, k, "Ok"), due)
        IN  Awaits(x, {}) /\ DrainWaits(x)
    <3> DEFINE e == CompleteControl(used, k, "Ok")
    <3>1. IInv(e)
      BY <2>4, <2>7, CompleteAsIInv DEF CompleteControl, Free
    <3>2. Awaits(e, {k} \ {k})
      BY <2>4, <2>6, AwaitsCompletesAs DEF CompleteControl, IInv
    <3>3. {k} \ {k} = {}
      OBVIOUS
    <3> HIDE DEF e
    <3> QED
      BY <3>1, <3>2, <3>3, ProgressAwaits DEF e
  <2>10. Awaits(FailRuntimeInvariant(used), {}) /\ DrainWaits(FailRuntimeInvariant(used))
    BY <2>4, <2>6, FailureAwaits, FailRuntimeInvariantIInv DEF IInv, Awaits, DrainWaits
  <2>11. ASSUME used.nextWrite # WriteSpace, ~c.closing
         PROVE  Awaits(Emit(d, a), {}) /\ DrainWaits(Emit(d, a))
    <3>1. used.nextWrite \notin DOMAIN used.pending
      BY <2>4, <2>11, FreshWrite DEF IInv
    <3>2. p.command = k /\ p.kind = "DataSend"
      BY DEF PendingWrite
    <3> HIDE DEF p
    <3>3. /\ DOMAIN d = Fields /\ d.pending = Put(used.pending, used.nextWrite, p)
          /\ \A f \in Fields \ {"nextWrite", "pending"} : d[f] = used[f]
      BY <2>4 DEF IInv, Weak, Shape, Fields
    <3> HIDE DEF d
    <3>4. /\ d.open = used.open /\ d.deferred = used.deferred /\ d.closing = used.closing
          /\ d.drain = used.drain /\ d.state = used.state /\ d.replies = used.replies
          /\ d.active = used.active /\ d.data = used.data /\ d.tomb = used.tomb
          /\ d.nextSys = used.nextSys /\ used.closing = c.closing
      BY <2>4, <3>3 DEF Fields
    <3>5. /\ \A v \in DOMAIN used.pending : d.pending[v] = used.pending[v]
          /\ used.nextWrite \in DOMAIN d.pending /\ d.pending[used.nextWrite] = p
      BY <3>1, <3>3 DEF Put
    <3>6. \A j : Attended(used, j) => Attended(d, j)
      BY <3>4 DEF Attended
    <3>7. \A v \in DOMAIN used.pending : Backed(used, v) => Backed(d, v)
      BY <3>4, <3>5 DEF Backed
    <3>8. Backed(d, used.nextWrite)
      BY <3>2, <3>5 DEF Backed
    <3>9. Retirement(d)
      BY <2>6, <3>4 DEF Awaits, Retirement
    <3>10. Awaits(d, {k} \ {p.command})
      BY <2>4, <2>6, <2>7, <3>1, <3>2, <3>3, <3>4, <3>6, <3>7, <3>8, <3>9, AwaitsWrites
      DEF IInv, Weak, Free
    <3>11. {k} \ {p.command} = {}
      BY <3>2
    <3>12. Awaits(Emit(d, a), {})
      BY <3>3, <3>10, <3>11, AwaitsEmit
    <3>13. Emit(d, a).pending = d.pending
      BY <3>3, EmitFields DEF Fields
    <3>14. DrainWaits(Emit(d, a))
      BY <3>2, <3>5, <3>13 DEF DrainWaits, DataInUse, DataWriteKinds
    <3> QED
      BY <3>12, <3>14
  <2>12. Awaits(r, {}) /\ DrainWaits(r)
    BY <2>2, <2>3, <2>8, <2>9, <2>10, <2>11
  <2> QED
    BY <2>12 DEF r
<1> QED
  BY <1>1, <1>2

\* on_message: whatever the peer says, the drain is advanced after it.
LEMMA OnMessageAwaits ==
  ASSUME NEW c0, IInv(c0), Awaits(c0, {}), DrainWaits(c0), NEW m, m.type \in MessageTypes,
         m.type = "Data" => m.header.function \in FunctionCodes, NEW due
  PROVE  LET r == OnMessage(c0, m, due) IN Awaits(r, {}) /\ DrainWaits(r)
<1> DEFINE c == Begin(c0)
           d == RecordActivity(c)
           x == DispatchMessage(d, m)
           r == OnMessage(c0, m, due)
<1>1. IInv(c) /\ Awaits(c, {}) /\ DrainWaits(c)
  BY BeginAwaits
<1>2. IF c.state = "None" \/ c.closing THEN r = c ELSE r = ProgressDeselect(x, due)
  <2> DEFINE e == ProgressDeselect(x, due)
  <2>1. r = IF c.state = "None" \/ c.closing THEN c ELSE e
    BY DEF OnMessage
  <2> HIDE DEF c, d, e, r
  <2> QED BY <2>1 DEF e
<1> HIDE DEF c, r
<1>3. IInv(d) /\ Awaits(d, {}) /\ d.closing = c.closing
  BY <1>1, ActivityAwaits
<1> HIDE DEF d
<1>4. ASSUME ~c.closing PROVE IInv(x) /\ Awaits(x, {})
  <2>1. ~d.closing
    BY <1>3, <1>4
  <2>2. m.type = "Select.req" => IInv(x) /\ Awaits(x, {})
    BY <1>3, <2>1, ReceiveSelectRequestIInv, SelectRequestAwaits DEF DispatchMessage
  <2>3. m.type = "Select.rsp" => IInv(x) /\ Awaits(x, {})
    BY <1>3, <2>1, ReceiveSelectResponseIInv, SelectResponseAwaits DEF DispatchMessage
  <2>4. m.type = "Deselect.req" => IInv(x) /\ Awaits(x, {})
    <3>1. DrainWaits(d)
      BY <1>1, ActivityAwaits DEF d
    <3> QED
      BY <1>3, <2>1, <3>1, ReceiveDeselectRequestIInv, DeselectRequestAwaits DEF DispatchMessage
  <2>5. m.type = "Deselect.rsp" => IInv(x) /\ Awaits(x, {})
    BY <1>3, <2>1, ReceiveDeselectResponseIInv, DeselectResponseAwaits DEF DispatchMessage
  <2>6. m.type = "Linktest.req" => IInv(x) /\ Awaits(x, {})
    BY <1>3, SendResponseEffect, ResponseAwaits DEF DispatchMessage
  <2>7. m.type = "Linktest.rsp" => IInv(x) /\ Awaits(x, {})
    BY <1>3, <2>1, ReceiveLinktestResponseIInv, LinktestResponseAwaits DEF DispatchMessage
  <2>8. m.type = "Reject.req" => IInv(x) /\ Awaits(x, {})
    BY <1>3, <2>1, ReceiveRejectIInv, RejectAwaits DEF DispatchMessage
  <2>9. m.type = "Separate.req" => IInv(x) /\ Awaits(x, {})
    BY <1>3, <2>1, ReceiveSeparateIInv, SeparateReceivedAwaits DEF DispatchMessage
  <2>10. m.type = "Data" => IInv(x) /\ Awaits(x, {})
    BY <1>3, <2>1, ReceiveInboundDataIInv, InboundDataAwaits DEF DispatchMessage
  <2> QED
    BY <2>2, <2>3, <2>4, <2>5, <2>6, <2>7, <2>8, <2>9, <2>10 DEF MessageTypes
<1> HIDE DEF x
<1>5. Awaits(r, {}) /\ DrainWaits(r)
  BY <1>1, <1>2, <1>4, ProgressAwaits
<1> QED
  BY <1>5 DEF r

\* Advancing time.
LEMMA AdvanceTimeAwaits ==
  ASSUME NEW c0, IInv(c0), Awaits(c0, {}), DrainWaits(c0), NEW due
  PROVE  LET r == AdvanceTime(c0, due) IN Awaits(r, {}) /\ DrainWaits(r)
<1> DEFINE c == Begin(c0)
<1>1. IInv(c) /\ Awaits(c, {})
  BY BeginAwaits
<1>2. AdvanceTime(c0, due) = ExpireDeadlines(c, due)
  BY DEF AdvanceTime
<1> HIDE DEF c
<1> QED
  BY <1>1, <1>2, ExpireAwaits

\* on_shutdown.
LEMMA OnShutdownAwaits ==
  ASSUME NEW c0, IInv(c0), Awaits(c0, {}), DrainWaits(c0), NEW reason
  PROVE  LET r == OnShutdown(c0, reason) IN Awaits(r, {}) /\ DrainWaits(r)
<1> DEFINE c == Begin(c0)
<1>1. IInv(c) /\ Awaits(c, {})
  BY BeginAwaits
<1>2. OnShutdown(c0, reason) = CloseAll(c, reason)
  BY DEF OnShutdown
<1> HIDE DEF c
<1>3. Awaits(CloseAll(c, reason), {}) /\ CloseAll(c, reason).closing
  BY <1>1, CloseAllAwaits, CloseAllIInv DEF IInv, Awaits
<1> QED
  BY <1>2, <1>3 DEF DrainWaits

\* finalize_writer settles what the Writer's end leaves open.
LEMMA FinalizeWriterSettles ==
  ASSUME NEW c, IInv(c), c.closing
  PROVE  DOMAIN FinalizeWriter(c).open = {} /\ DOMAIN Begin(FinalizeWriter(c)).open = {}
<1> DEFINE b == Begin(c)
           d == [b EXCEPT !.pending = EmptyFunction]
           ks == UnresolvedCommands(b)
           e == EmitCompletion(d, ks, "DeliveryIndeterminate")
           f == CompleteAll(e, "ConnectionLost")
<1>1. IInv(b) /\ b.closing
  BY BeginIInv DEF Fields
<1>2. FinalizeWriter(c) = f
  BY <1>1 DEF FinalizeWriter
<1> HIDE DEF b
<1>3. /\ DOMAIN d = Fields /\ DOMAIN d.pending = {}
      /\ \A g \in Fields \ {"pending"} : d[g] = b[g]
  BY <1>1 DEF IInv, Weak, Shape, Fields, EmptyFunction
<1> HIDE DEF d
<1>4. Shape(d)
  BY <1>1, <1>3 DEF IInv, Weak, Shape, Fields
<1>5. Linked(d) /\ DOMAIN d.deferred \ ks \subseteq UnresolvedCommands(d)
  BY <1>1, <1>3 DEF IInv, Weak, Linked, Deferral, Fields
<1>6. Weak(e) /\ DOMAIN e.pending = {}
  BY <1>3, <1>4, <1>5, EmitCompletionSettles, EmitCompletionEffect
<1> HIDE DEF e
<1>7. GivenUp(f) /\ Weak(f)
  BY <1>6, CompleteAllWeak, CompleteAllGivesUp
<1>8. DOMAIN f.pending = {}
  <2> DEFINE g == [e EXCEPT !.active = None, !.data = EmptyFunction]
  <2>1. /\ DOMAIN g = Fields /\ \A x \in Fields \ {"active", "data"} : g[x] = e[x]
        /\ g.active = None /\ DOMAIN g.data = {}
    BY <1>6 DEF Weak, Shape, Fields, EmptyFunction
  <2>2. f = CompleteOrDefer(g, DOMAIN e.open, "ConnectionLost")
    BY DEF CompleteAll
  <2> HIDE DEF g
  <2>3. Shape(g)
    BY <1>6, <2>1 DEF Weak, Shape, Fields
  <2>4. Linked(g) /\ Deferral(g)
    BY <1>6, <2>1 DEF Weak, Linked, Deferral, UnresolvedCommands, Fields
  <2>5. DOMAIN CompleteOrDefer(g, DOMAIN e.open, "ConnectionLost").pending = DOMAIN g.pending
    BY <2>3, <2>4, CompleteOrDeferWeak DEF Weak
  <2>6. DOMAIN g.pending = {}
    BY <1>6, <2>1 DEF Fields
  <2> QED
    BY <2>2, <2>5, <2>6
<1> HIDE DEF f
<1>9. DOMAIN f.open = {}
  BY <1>7, <1>8 DEF GivenUp, Weak, Deferral, UnresolvedCommands
<1>10. Begin(f).open = f.open
  BY <1>7 DEF Begin, Weak, Shape, Fields
<1> QED
  BY <1>2, <1>9, <1>10

\* finalize_writer: no write is left to wait for.
LEMMA FinalizeWriterAwaits ==
  ASSUME NEW c0, IInv(c0), Awaits(c0, {}), DrainWaits(c0)
  PROVE  LET r == FinalizeWriter(c0) IN Awaits(r, {}) /\ DrainWaits(r)
<1> DEFINE c == Begin(c0)
           d == [c EXCEPT !.pending = EmptyFunction]
           ks == UnresolvedCommands(c)
           e == EmitCompletion(d, ks, "DeliveryIndeterminate")
           f == CompleteAll(e, "ConnectionLost")
<1>1. IInv(c) /\ Awaits(c, {})
  BY BeginAwaits
<1>2. FinalizeWriter(c0) = IF ~c.closing THEN FailRuntimeInvariant(c) ELSE f
  BY DEF FinalizeWriter
<1> HIDE DEF c
<1>3. /\ DOMAIN d = Fields /\ DOMAIN d.pending = {}
      /\ \A x \in Fields \ {"pending"} : d[x] = c[x]
  BY <1>1 DEF IInv, Weak, Shape, Fields, EmptyFunction
<1> HIDE DEF d
<1>4. Shape(d)
  BY <1>1, <1>3 DEF IInv, Weak, Shape, Fields
<1>5. Linked(d) /\ DOMAIN d.deferred \ ks \subseteq UnresolvedCommands(d)
  BY <1>1, <1>3 DEF IInv, Weak, Linked, Deferral, Fields
<1> HIDE DEF ks
<1>6. /\ Weak(e)
      /\ \A x \in Fields \ {"open", "deferred", "pending", "out"} : e[x] = d[x]
  BY <1>4, <1>5, EmitCompletionSettles, EmitCompletionEffect
<1>7. /\ e.closing = c.closing /\ e.tomb = c.tomb /\ e.nextSys = c.nextSys
      /\ e.replies = c.replies /\ e.data = c.data
  BY <1>3, <1>6 DEF Fields
<1> HIDE DEF e
<1>8. /\ Weak(f) /\ GivenUp(f) /\ DOMAIN f.data = {}
      /\ \A x \in Fields \ {"active", "data", "open", "deferred", "pending", "out"} : f[x] = e[x]
  BY <1>6, CompleteAllWeak, CompleteAllGivesUp
<1>9. /\ f.closing = c.closing /\ f.tomb = c.tomb /\ f.nextSys = c.nextSys
      /\ f.replies = c.replies
  BY <1>7, <1>8 DEF Fields
<1> HIDE DEF f
<1>10. Retirement(f) /\ Promised(f)
  BY <1>1, <1>8, <1>9 DEF Awaits, Retirement, Promised
<1>11. c.closing => Awaits(f, {}) /\ DrainWaits(f)
  BY <1>8, <1>9, <1>10, GivenUpAwaits DEF DrainWaits
<1>12. Awaits(FailRuntimeInvariant(c), {}) /\ DrainWaits(FailRuntimeInvariant(c))
  BY <1>1, FailureEnds
<1> QED
  BY <1>2, <1>11, <1>12

\* A write that failed keeps the tombstones and the capabilities.
LEMMA FailedWriteKeeps ==
  ASSUME NEW c, NEW w \in DOMAIN c.pending, IInv(c), NEW error, Awaits(c, {})
  PROVE  LET write == c.pending[w]
             x == CompleteWriteError(RemoveTransactionForWrite(Removed(c, w), w, write),
                                     write, error)
         IN  Weak(x) /\ Retirement(x) /\ Promised(x)
<1> DEFINE write == c.pending[w]
           r == Removed(c, w)
           d == RemoveTransactionForWrite(r, w, write)
           k == write.command
           x == CompleteWriteError(d, write, error)
<1>1. /\ DOMAIN r = Fields /\ Shape(r) /\ Linked(r)
      /\ \A f \in Fields \ {"pending", "out"} : r[f] = c[f]
      /\ k # None => k \in DOMAIN r.open
  BY RemovedEffect
<1> HIDE DEF r
<1>2. /\ DOMAIN d = Fields
      /\ \A f \in Fields \ {"active", "data"} : d[f] = r[f]
      /\ d.active \in {r.active, None}
      /\ DOMAIN d.data \subseteq DOMAIN r.data
      /\ \A s \in DOMAIN d.data : d.data[s] = r.data[s]
  BY <1>1 DEF RemoveTransactionForWrite, Drop, Fields
<1> HIDE DEF d
<1>3. Shape(d)
  BY <1>1, <1>2 DEF Shape, Fields
<1>4. /\ d.tomb = c.tomb /\ d.nextSys = c.nextSys /\ d.replies = c.replies
      /\ DOMAIN d.data \subseteq DOMAIN c.data
      /\ \A s \in DOMAIN d.data : d.data[s] = c.data[s]
      /\ d.open = r.open
  BY <1>1, <1>2 DEF Fields
<1>5. Retirement(d) /\ Promised(d)
  BY <1>4 DEF Awaits, Retirement, Promised
<1>6. x = d \/ x = EmitCompletion(d, {k}, error)
  <2>1. k # None => k \in DOMAIN d.open /\ d.open[k] \in CommandKinds
    BY <1>1, <1>3, <1>4 DEF Shape
  <2> QED
    BY <2>1 DEF CompleteWriteError, CompleteError, CompleteAs
<1>7. Weak(x)
  BY FailedWriteWeak DEF d, r
<1> HIDE DEF x
<1>8. Retirement(x) /\ Promised(x)
  <2> DEFINE e == EmitCompletion(d, {k}, error)
  <2>1. \A f \in Fields \ {"open", "deferred", "pending", "out"} : e[f] = d[f]
    BY <1>3, EmitCompletionEffect
  <2>2. e.tomb = d.tomb /\ e.nextSys = d.nextSys /\ e.replies = d.replies /\ e.data = d.data
    BY <2>1 DEF Fields
  <2> HIDE DEF e
  <2>3. Retirement(e) /\ Promised(e)
    BY <1>5, <2>2 DEF Retirement, Promised
  <2> QED
    BY <1>5, <1>6, <2>3 DEF e
<1> QED
  BY <1>7, <1>8 DEF x, d, r

\* finish_failed_write.
LEMMA FinishFailedWriteAwaits ==
  ASSUME NEW c, NEW w \in DOMAIN c.pending, IInv(c), NEW error, Awaits(c, {})
  PROVE  Awaits(FinishFailedWrite(Removed(c, w), w, c.pending[w], error), {})
<1> DEFINE x == CompleteWriteError(RemoveTransactionForWrite(Removed(c, w), w, c.pending[w]),
                                   c.pending[w], error)
<1>1. Weak(x) /\ Retirement(x)
  BY FailedWriteKeeps
<1>2. FinishFailedWrite(Removed(c, w), w, c.pending[w], error) = CloseAll(x, "TransportLost")
  BY DEF FinishFailedWrite, CloseAll
<1> HIDE DEF x
<1> QED
  BY <1>1, <1>2, CloseAllAwaits

\* A write that is taken out leaves its command in hand; r is the state without
\* it, its idle timer restarted or not.
LEMMA RemovedAwaits ==
  ASSUME NEW c, NEW w \in DOMAIN c.pending, IInv(c), Awaits(c, {}),
         NEW r, DOMAIN r = Fields, \A f \in Fields \ {"idle"} : r[f] = Removed(c, w)[f],
         NEW X, X = {c.pending[w].command}
  PROVE  /\ Awaits(r, X)
         /\ \A f \in Fields \ {"pending", "out", "idle"} : r[f] = c[f]
         /\ DOMAIN r.pending = DOMAIN c.pending \ {w}
         /\ \A v \in DOMAIN r.pending : r.pending[v] = c.pending[v]
<1> DEFINE k == c.pending[w].command
           b == Removed(c, w)
<1>1. /\ \A f \in Fields \ {"pending", "out"} : b[f] = c[f]
      /\ DOMAIN b.pending = DOMAIN c.pending \ {w}
      /\ \A v \in DOMAIN b.pending : b.pending[v] = c.pending[v]
  BY RemovedEffect
<1> HIDE DEF b
<1>2. \A f \in Fields \ {"idle"} : r[f] = b[f]
  BY DEF b
<1>3. /\ \A f \in Fields \ {"pending", "out", "idle"} : r[f] = c[f]
      /\ DOMAIN r.pending = DOMAIN c.pending \ {w}
      /\ \A v \in DOMAIN r.pending : r.pending[v] = c.pending[v]
  BY <1>1, <1>2 DEF Fields
<1>4. /\ r.open = c.open /\ r.deferred = c.deferred /\ r.closing = c.closing
      /\ r.drain = c.drain /\ r.state = c.state /\ r.replies = c.replies
      /\ r.active = c.active /\ r.data = c.data /\ r.tomb = c.tomb /\ r.nextSys = c.nextSys
  BY <1>3 DEF Fields
<1>5. \A j \in UnresolvedCommands(c) : j \in UnresolvedCommands(r) \/ j = k
  BY <1>3 DEF UnresolvedCommands
<1> HIDE DEF k
<1>6. LiveCare(c, {}) => LiveCare(r, {k})
  BY <1>3, <1>4, <1>5 DEF LiveCare, Attended, Backed
<1>7. ClosingCare(c, {}) => ClosingCare(r, {k})
  BY <1>3, <1>4, <1>5 DEF ClosingCare
<1>8. Awaits(r, {k})
  BY <1>4, <1>6, <1>7 DEF Awaits, Cared, Pausing, Retirement, Promised
<1> QED
  BY <1>3, <1>8 DEF k

\* A commit starts the timer its request waits on, or answers its command.
LEMMA CommitWriteAwaits ==
  ASSUME NEW c, NEW w \in DOMAIN c.pending, IInv(c), Awaits(c, {}),
         NEW r, DOMAIN r = Fields, r.idle \in BOOLEAN,
         \A f \in Fields \ {"idle"} : r[f] = Removed(c, w)[f],
         c.pending[w].kind \in {"TransactionRequest", "DataRequest"} =>
           c.pending[w].command \notin DOMAIN c.deferred
  PROVE  Awaits(CommitWrite(r, w, c.pending[w]), {})
<1> DEFINE write == c.pending[w]
           k == write.command
           x == CommitWrite(r, w, write)
<1>1. /\ Awaits(r, {k})
      /\ \A f \in Fields \ {"pending", "out", "idle"} : r[f] = c[f]
      /\ DOMAIN r.pending = DOMAIN c.pending \ {w}
      /\ \A v \in DOMAIN r.pending : r.pending[v] = c.pending[v]
  <2> DEFINE X == {c.pending[w].command}
  <2>1. X = {c.pending[w].command}
    OBVIOUS
  <2> HIDE DEF X
  <2>2. /\ Awaits(r, X)
        /\ \A f \in Fields \ {"pending", "out", "idle"} : r[f] = c[f]
        /\ DOMAIN r.pending = DOMAIN c.pending \ {w}
        /\ \A v \in DOMAIN r.pending : r.pending[v] = c.pending[v]
    BY <2>1, RemovedAwaits
  <2> QED
    BY <2>1, <2>2
<1>2. /\ r.open = c.open /\ r.deferred = c.deferred /\ r.closing = c.closing
      /\ r.drain = c.drain /\ r.state = c.state /\ r.replies = c.replies
      /\ r.active = c.active /\ r.data = c.data /\ r.tomb = c.tomb /\ r.nextSys = c.nextSys
  BY <1>1 DEF Fields
<1>3. Shape(r)
  <2>1. Shape(Removed(c, w))
    BY RemovedEffect
  <2> QED
    BY <2>1 DEF Shape, Fields
<1>4. None \notin DOMAIN c.open /\ None \notin DOMAIN c.deferred
  BY NoneAssumption DEF IInv, Weak, Shape, Deferral, UnresolvedCommands
<1>5. write.kind \in WriteKinds /\ (write.kind = "Response" => k = None)
  BY DEF IInv, Weak, Shape, Linked
<1>6. k # None =>
        /\ ~c.closing => Backed(c, w)
        /\ c.closing => write.kind \notin {"TransactionRequest", "DataRequest"}
  BY DEF Awaits, Cared, LiveCare, ClosingCare
<1>7. CASE write.kind = "TransactionRequest" /\ r.active # None /\ r.active.write = w
  <2>1. x = [r EXCEPT !.active.armed = TRUE]
    BY <1>7 DEF CommitWrite
  <2>2. DOMAIN r.active = {"kind", "command", "sys", "write", "armed"}
    BY <1>3, <1>7 DEF Shape
  <2>3. /\ DOMAIN x = Fields
        /\ \A f \in Fields \ {"active"} : x[f] = r[f]
        /\ x.active = [r.active EXCEPT !.armed = TRUE]
    BY <2>1 DEF Fields
  <2> HIDE DEF x
  <2>4. x.active # None /\ x.active.command = r.active.command /\ x.active.write = r.active.write
    <3>1. x.active.command = r.active.command /\ x.active.write = r.active.write
      BY <2>2, <2>3
    <3>2. r.active.command \in Commands \cup {None}
      BY <1>3, <1>7 DEF Shape
    <3>4. x.active \in [kind : {"Select", "Deselect", "Linktest"},
                         command : Commands \cup {None},
                         sys : Nat, write : Nat, armed : BOOLEAN]
      <4>1. /\ r.active.kind \in {"Select", "Deselect", "Linktest"}
            /\ r.active.sys \in Nat /\ r.active.write \in Nat
        BY <1>3, <1>7, SpaceAssumption DEF Shape, TransactionKinds, SystemBytes, WriteIds
      <4>2. x.active = [kind |-> r.active.kind, command |-> r.active.command,
                        sys |-> r.active.sys, write |-> r.active.write, armed |-> TRUE]
        BY <2>2, <2>3
      <4> QED
        BY <3>2, <4>1, <4>2
    <3>5. x.active # None
      BY ONLY <3>4, TransactionAssumption
    <3> QED BY <3>1, <3>5
  <2>5. /\ x.open = r.open /\ x.deferred = r.deferred /\ x.closing = r.closing
        /\ x.drain = r.drain /\ x.state = r.state /\ x.replies = r.replies
        /\ x.data = r.data /\ x.tomb = r.tomb /\ x.nextSys = r.nextSys /\ x.pending = r.pending
    BY <2>3 DEF Fields
  <2>6. ~c.closing
    BY <1>2, <1>7 DEF IInv, Closed
  <2>7. LiveCare(r, {k})
    BY <1>1, <1>2, <2>6 DEF Awaits, Cared
  <2>8. \A j : Attended(r, j) => Attended(x, j)
    BY <2>4, <2>5 DEF Attended
  <2>9. k # None => Attended(x, k)
    BY <1>2, <1>6, <1>7, <2>4, <2>6 DEF Attended, Backed
  <2>10. \A v \in DOMAIN r.pending : Backed(r, v) => Backed(x, v)
    BY <2>4, <2>5 DEF Backed
  <2>11. UnresolvedCommands(x) = UnresolvedCommands(r)
    BY <2>5 DEF UnresolvedCommands
  <2>12. /\ \A j \in DOMAIN x.open : j \in UnresolvedCommands(x) \/ Attended(x, j)
    BY <1>2, <1>4, <2>5, <2>7, <2>8, <2>9, <2>11 DEF LiveCare
  <2>13. ASSUME NEW v \in DOMAIN x.pending PROVE x.pending[v].command = None \/ Backed(x, v)
    <3>1. x.pending[v] = r.pending[v] /\ v \in DOMAIN r.pending
      BY <2>5
    <3>2. CASE r.pending[v].command \in {None} \/ Backed(r, v)
      BY <2>10, <3>1, <3>2
    <3>3. CASE r.pending[v].command = k /\ k # None
      <4>1. v \in DOMAIN c.pending /\ v # w /\ c.pending[v].command = c.pending[w].command
        BY <1>1, <3>1, <3>3
      <4> QED
        BY <3>3, <4>1 DEF IInv, Weak, Linked
    <3> QED
      BY <2>7, <3>1, <3>2, <3>3 DEF LiveCare
  <2>14. LiveCare(x, {})
    BY <2>12, <2>13 DEF LiveCare
  <2>15. Pausing(x) /\ Retirement(x) /\ Promised(x)
    BY <1>1, <2>5 DEF Awaits, Pausing, Retirement, Promised
  <2> QED
    BY <1>2, <2>5, <2>6, <2>14, <2>15 DEF Awaits, Cared, x
<1>8. CASE write.kind = "DataRequest" /\ write.sys \in DOMAIN r.data
            /\ r.data[write.sys].write = w
  <2> DEFINE s == write.sys
  <2>1. x = [r EXCEPT !.data = Put(@, s, [r.data[s] EXCEPT !.armed = TRUE])]
    BY <1>8 DEF CommitWrite
  <2>2. /\ DOMAIN x = Fields
        /\ \A f \in Fields \ {"data"} : x[f] = r[f]
        /\ DOMAIN x.data = DOMAIN r.data
        /\ x.data[s] = [r.data[s] EXCEPT !.armed = TRUE]
        /\ \A t \in DOMAIN r.data \ {s} : x.data[t] = r.data[t]
    BY <1>8, <2>1 DEF Fields, Put
  <2> HIDE DEF x
  <2>3. DOMAIN r.data[s] = {"command", "write", "armed", "contract"}
    BY <1>3, <1>8 DEF Shape
  <2>4. \A t \in DOMAIN x.data : /\ x.data[t].command = r.data[t].command
                                 /\ x.data[t].write = r.data[t].write
                                 /\ x.data[t].contract = r.data[t].contract
    BY <2>2, <2>3
  <2>5. /\ x.open = r.open /\ x.deferred = r.deferred /\ x.closing = r.closing
        /\ x.drain = r.drain /\ x.state = r.state /\ x.replies = r.replies
        /\ x.active = r.active /\ x.tomb = r.tomb /\ x.nextSys = r.nextSys
        /\ x.pending = r.pending
    BY <2>2 DEF Fields
  <2>6. ~c.closing
    BY <1>2, <1>8 DEF IInv, Closed
  <2>7. LiveCare(r, {k})
    BY <1>1, <1>2, <2>6 DEF Awaits, Cared
  <2>8. \A j : Attended(r, j) => Attended(x, j)
    BY <2>2, <2>4, <2>5 DEF Attended
  <2>9. k # None => Attended(x, k)
    BY <1>2, <1>6, <1>8, <2>2, <2>4, <2>6 DEF Attended, Backed
  <2>10. \A v \in DOMAIN r.pending : Backed(r, v) => Backed(x, v)
    BY <2>2, <2>4, <2>5 DEF Backed
  <2>11. UnresolvedCommands(x) = UnresolvedCommands(r)
    BY <2>5 DEF UnresolvedCommands
  <2>12. /\ \A j \in DOMAIN x.open : j \in UnresolvedCommands(x) \/ Attended(x, j)
    BY <1>2, <1>4, <2>5, <2>7, <2>8, <2>9, <2>11 DEF LiveCare
  <2>13. ASSUME NEW v \in DOMAIN x.pending PROVE x.pending[v].command = None \/ Backed(x, v)
    <3>1. x.pending[v] = r.pending[v] /\ v \in DOMAIN r.pending
      BY <2>5
    <3>2. CASE r.pending[v].command \in {None} \/ Backed(r, v)
      BY <2>10, <3>1, <3>2
    <3>3. CASE r.pending[v].command = k /\ k # None
      <4>1. v \in DOMAIN c.pending /\ v # w /\ c.pending[v].command = c.pending[w].command
        BY <1>1, <3>1, <3>3
      <4> QED
        BY <3>3, <4>1 DEF IInv, Weak, Linked
    <3> QED
      BY <2>7, <3>1, <3>2, <3>3 DEF LiveCare
  <2>14. LiveCare(x, {})
    BY <2>12, <2>13 DEF LiveCare
  <2>15. Retirement(x)
    BY <1>1, <2>2, <2>4, <2>5 DEF Awaits, Retirement
  <2>16. Pausing(x) /\ Promised(x)
    BY <1>1, <2>5 DEF Awaits, Pausing, Promised
  <2> QED
    BY <1>2, <2>5, <2>6, <2>14, <2>15, <2>16 DEF Awaits, Cared, x
<1>9. CASE /\ ~(write.kind = "TransactionRequest" /\ r.active # None /\ r.active.write = w)
           /\ ~(write.kind = "DataRequest" /\ write.sys \in DOMAIN r.data
                  /\ r.data[write.sys].write = w)
  <2>1. CASE write.kind \in {"DataSend", "Separate"} /\ k # None
    <3>1. k \in DOMAIN r.open /\ r.open[k] = KindFor(write.kind)
      BY <1>2, <2>1, RemovedEffect DEF IInv, Weak, Linked
    <3>2. x = EmitCompletion(r, {k}, "Ok")
      BY <2>1, <3>1 DEF CommitWrite, CompleteSend, CompleteControl, CompleteAs, KindFor
    <3> HIDE DEF x, k
    <3>3. Awaits(x, {k} \ {k})
      BY <1>1, <1>3, <3>2, AwaitsCompletes DEF k
    <3>4. {k} \ {k} = {}
      OBVIOUS
    <3>5. Awaits(x, {})
      BY <3>3, <3>4
    <3> QED
      BY <3>5 DEF x
  <2>2. CASE ~(write.kind \in {"DataSend", "Separate"} /\ k # None)
    <3>1. x = r
      BY <1>9, <2>2 DEF CommitWrite
    <3>2. k = None
      BY <1>2, <1>5, <1>6, <1>9, <2>2 DEF WriteKinds, Backed
    <3>3. Awaits(r, {})
      BY <1>1, <1>3, <3>2, AwaitsMore
    <3> QED
      BY <3>1, <3>3
  <2> QED BY <2>1, <2>2
<1> QED
  BY <1>7, <1>8, <1>9

\* on_write_outcome_at: a commit lets its command wait for the answer or answers it,
\* the commit that was overtaken by a close answers it with the deferred error, and
\* any other outcome closes.
LEMMA OnWriteOutcomeAwaits ==
  ASSUME NEW c0, NEW w \in DOMAIN c0.pending, IInv(c0), Awaits(c0, {}), DrainWaits(c0),
         NEW outcome \in Outcomes, NEW due
  PROVE  LET r == OnWriteOutcome(c0, w, outcome, due) IN Awaits(r, {}) /\ DrainWaits(r)
<1> DEFINE write == c0.pending[w]
           k == write.command
           b == Removed(c0, w)
           c == IF outcome = "Committed" /\ ~c0.closing THEN RecordActivity(b) ELSE b
           overtaken == /\ outcome = "Committed"
                        /\ write.kind \in {"TransactionRequest", "DataRequest"}
                        /\ k # None
                        /\ k \in DOMAIN c.deferred
           applied == CASE outcome = "Committed"     -> CommitWrite(c, w, write)
                        [] outcome = "NotWritten"    ->
                             FinishFailedWrite(c, w, write, "ConnectionLost")
                        [] outcome = "Indeterminate" ->
                             FinishFailedWrite(c, w, write, "DeliveryIndeterminate")
           x == [c EXCEPT !.deferred = Drop(@, {k})]
           y == CompleteError(x, k, c.deferred[k])
           r == OnWriteOutcome(c0, w, outcome, due)
<1>1. r = IF overtaken THEN y ELSE ExpireDeadlines(applied, due)
  BY DEF OnWriteOutcome, Removed
<1>2. /\ DOMAIN b = Fields
      /\ \A f \in Fields \ {"pending", "out"} : b[f] = c0[f]
      /\ Shape(b) /\ Linked(b) /\ Closed(b)
      /\ DOMAIN b.deferred \ {k} \subseteq UnresolvedCommands(b)
      /\ k # None => k \in DOMAIN b.open
  BY RemovedEffect
<1>3. DOMAIN c = Fields /\ c.idle \in BOOLEAN /\ \A f \in Fields \ {"idle"} : c[f] = b[f]
  <2> HIDE DEF b
  <2> QED BY <1>2, IdleAssumption DEF RecordActivity, Shape, Fields
<1>4. b.deferred = c0.deferred /\ c.deferred = c0.deferred
  BY <1>2, <1>3 DEF Fields
<1>5. outcome # "Committed" => c = b
  OBVIOUS
<1> HIDE DEF c, r
<1>6. ASSUME ~overtaken PROVE IInv(applied) /\ Awaits(applied, {})
  <2>1. CASE outcome = "Committed"
    <3>1. None \notin DOMAIN c0.deferred
      BY DEF IInv, Weak, Deferral, UnresolvedCommands
    <3>2. write.kind \in {"TransactionRequest", "DataRequest"} => k \notin DOMAIN c0.deferred
      BY <1>4, <1>6, <2>1, <3>1
    <3> QED
      BY <1>3, <2>1, <3>2, CommitWriteIInv, CommitWriteAwaits
  <2>2. CASE outcome # "Committed"
    BY <1>5, <2>2, FinishFailedWriteIInv, FinishFailedWriteAwaits DEF Outcomes
  <2> QED BY <2>1, <2>2
<1>7. ASSUME overtaken PROVE Awaits(y, {}) /\ DrainWaits(y)
  <2>1. c0.closing
    BY <1>4, <1>7 DEF IInv, Closed
  <2> DEFINE X == {k}
  <2>2. X = {c0.pending[w].command}
    OBVIOUS
  <2> HIDE DEF b, X
  <2>3. Awaits(c, X)
    BY <1>3, <2>2, RemovedAwaits DEF b
  <2>4. /\ DOMAIN x = Fields
        /\ \A f \in Fields \ {"deferred"} : x[f] = c[f]
        /\ DOMAIN x.deferred = DOMAIN c.deferred \ {k}
    BY <1>3 DEF Fields, Drop
  <2> HIDE DEF x
  <2>5. x.closing /\ c.closing
    BY <1>2, <1>3, <2>1, <2>4 DEF Fields
  <2>6. Shape(x)
    BY <1>2, <1>3, <2>4 DEF Shape, Fields
  <2>7. Linked(x) /\ Deferral(x)
    BY <1>2, <1>3, <2>4 DEF Linked, Deferral, UnresolvedCommands, Fields
  <2>8. /\ x.open = c.open /\ x.pending = c.pending /\ x.state = c.state /\ x.drain = c.drain
        /\ x.tomb = c.tomb /\ x.nextSys = c.nextSys /\ x.data = c.data /\ x.replies = c.replies
    BY <2>4 DEF Fields
  <2>9. ClosingCare(c, X)
    BY <2>3, <2>5 DEF Awaits, Cared
  <2>10. ClosingCare(x, X)
    BY <2>2, <2>4, <2>8, <2>9 DEF ClosingCare, UnresolvedCommands
  <2>11. Awaits(x, X)
    BY <2>3, <2>5, <2>8, <2>10 DEF Awaits, Cared, Pausing, Retirement, Promised
  <2>12. Awaits(x, {k})
    BY <2>11 DEF X
  <2> QED
    BY <2>5, <2>6, <2>7, <2>12, ErrorAwaits DEF Weak, DrainWaits
<1> HIDE DEF overtaken, applied, y
<1>8. Awaits(r, {}) /\ DrainWaits(r)
  BY <1>1, <1>6, <1>7, ExpireAwaits
<1> QED
  BY <1>8 DEF r

=============================================================================
