--------------------------- MODULE GenerationLemmas ---------------------------
(***************************************************************************)
(* What a round of SessionDriver does with the actions of one handler of   *)
(* Core, on every batch, cut or not: lemmas on the operators of            *)
(* SessionDriver for the theorems about GenerationRuntime.                 *)
(***************************************************************************)
EXTENDS GenerationRuntime, SessionCoreLemmas, FiniteSetTheorems, TLAPS

-----------------------------------------------------------------------------
(* The recursive functions of SessionDriver.                               *)

\* The states apply_action_batch goes through, one per action.
LEMMA BatchTrace ==
  ASSUME NEW d, NEW core, NEW permit, NEW written, Len(core.out) \in Nat
  PROVE  \E f :
           /\ f[0] = BatchStart(d, core, permit)
           /\ \A i \in 1..Len(core.out) : f[i] = ApplyAction(f[i - 1], core.out[i], written)
           /\ ApplyActionBatch(d, core, permit, written) = f[Len(core.out)]
<1> DEFINE n == Len(core.out)
           Trace(m, g) == g = [i \in 0..m |->
                                 IF i = 0 THEN BatchStart(d, core, permit)
                                 ELSE ApplyAction(g[i - 1], core.out[i], written)]
           S == {m \in Nat : \E g : Trace(m, g)}
<1>1. 0 \in S
  <2>1. Trace(0, [i \in 0..0 |-> BatchStart(d, core, permit)])
    OBVIOUS
  <2> QED
    BY <2>1
<1>2. ASSUME NEW m \in Nat, m \in S PROVE m + 1 \in S
  <2>1. PICK g : Trace(m, g)
    BY <1>2
  <2> DEFINE h == [i \in 0..(m + 1) |->
                     IF i = m + 1 THEN ApplyAction(g[m], core.out[m + 1], written) ELSE g[i]]
  <2>2. ASSUME NEW i \in 0..(m + 1)
        PROVE  h[i] = IF i = 0 THEN BatchStart(d, core, permit)
                      ELSE ApplyAction(h[i - 1], core.out[i], written)
    <3>1. CASE i = m + 1
      <4>1. i # 0 /\ i - 1 = m /\ m \in 0..(m + 1) /\ m # m + 1
        BY <3>1
      <4>2. h[m] = g[m] /\ h[i] = ApplyAction(g[m], core.out[m + 1], written)
        BY <3>1, <4>1
      <4> QED
        BY <3>1, <4>1, <4>2
    <3>2. CASE i # m + 1
      <4>1. i \in 0..m /\ h[i] = g[i]
        BY <3>2
      <4>2. g[i] = IF i = 0 THEN BatchStart(d, core, permit)
                   ELSE ApplyAction(g[i - 1], core.out[i], written)
        BY <2>1, <4>1
      <4>3. i # 0 => i - 1 \in 0..(m + 1) /\ i - 1 # m + 1
        BY <4>1
      <4>4. i # 0 => h[i - 1] = g[i - 1]
        BY <4>3
      <4> QED
        BY <4>1, <4>2, <4>4
    <3> QED
      BY <3>1, <3>2
  <2>3. h = [i \in 0..(m + 1) |-> h[i]]
    OBVIOUS
  <2> HIDE DEF h
  <2>4. h = [i \in 0..(m + 1) |-> IF i = 0 THEN BatchStart(d, core, permit)
                                  ELSE ApplyAction(h[i - 1], core.out[i], written)]
    BY <2>2, <2>3
  <2> QED
    BY <2>4
<1> HIDE DEF S
<1>3. n \in S
  BY <1>1, <1>2, SetInduction
<1>4. PICK f : f = [i \in 0..n |-> IF i = 0 THEN BatchStart(d, core, permit)
                                   ELSE ApplyAction(f[i - 1], core.out[i], written)]
  BY <1>3 DEF S
<1> DEFINE applied == CHOOSE g : g = [i \in 0..n |->
                                        IF i = 0 THEN BatchStart(d, core, permit)
                                        ELSE ApplyAction(g[i - 1], core.out[i], written)]
<1>5. applied = [i \in 0..n |-> IF i = 0 THEN BatchStart(d, core, permit)
                                ELSE ApplyAction(applied[i - 1], core.out[i], written)]
  BY <1>4
<1>6. ApplyActionBatch(d, core, permit, written) = applied[n]
  BY DEF ApplyActionBatch
<1> HIDE DEF applied
<1>7. /\ applied[0] = BatchStart(d, core, permit)
      /\ \A i \in 1..n : applied[i] = ApplyAction(applied[i - 1], core.out[i], written)
  <2>1. 0 \in 0..n /\ \A i \in 1..n : i \in 0..n /\ i # 0
    OBVIOUS
  <2> QED
    BY <1>5, <2>1
<1> QED
  BY <1>6, <1>7

-----------------------------------------------------------------------------
(* Sequences.                                                              *)

\* A batch is a sequence: its positions count from 1.
LEMMA BatchShape ==
  ASSUME NEW q, IsBatch(q)
  PROVE  Len(q) \in Nat /\ DOMAIN q = 1..Len(q)
  BY DEF IsBatch

\* The empty batch.
LEMMA EmptyBatch == IsBatch(<<>>) /\ DOMAIN <<>> = {} /\ Len(<<>>) = 0
<1>1. <<>> \in Seq({})
  OBVIOUS
<1> QED
  BY <1>1 DEF IsBatch

\* An element more, at the end.
LEMMA AppendedBatch ==
  ASSUME NEW q, NEW x, IsBatch(q)
  PROVE  /\ IsBatch(Append(q, x))
         /\ Len(Append(q, x)) = Len(q) + 1
         /\ DOMAIN Append(q, x) = DOMAIN q \cup {Len(q) + 1} /\ Len(q) + 1 \notin DOMAIN q
         /\ Append(q, x)[Len(q) + 1] = x
         /\ \A i \in DOMAIN q : Append(q, x)[i] = q[i]
<1>1. PICK S : q \in Seq(S)
  BY DEF IsBatch
<1> DEFINE T == S \cup {x}
<1>2. q \in Seq(T) /\ x \in T
  BY <1>1
<1> HIDE DEF T
<1>3. /\ Append(q, x) \in Seq(T) /\ Len(q) \in Nat /\ Len(Append(q, x)) = Len(q) + 1
      /\ DOMAIN q = 1..Len(q) /\ DOMAIN Append(q, x) = 1..(Len(q) + 1)
      /\ Append(q, x)[Len(q) + 1] = x
      /\ \A i \in 1..Len(q) : Append(q, x)[i] = q[i]
  BY <1>2
<1>4. 1..(Len(q) + 1) = (1..Len(q)) \cup {Len(q) + 1} /\ Len(q) + 1 \notin 1..Len(q)
  BY <1>3
<1> QED
  BY <1>3, <1>4 DEF IsBatch

\* The batch without its first element.
LEMMA RestOfBatch ==
  ASSUME NEW q, IsBatch(q), q # <<>>
  PROVE  /\ IsBatch(Tail(q)) /\ 1 \in DOMAIN q /\ Head(q) = q[1]
         /\ Len(Tail(q)) = Len(q) - 1
         /\ \A i \in DOMAIN Tail(q) : i \in Nat /\ i + 1 \in DOMAIN q /\ Tail(q)[i] = q[i + 1]
         /\ \A i \in DOMAIN q : i # 1 => i - 1 \in DOMAIN Tail(q)
<1>1. PICK S : q \in Seq(S)
  BY DEF IsBatch
<1>2. /\ Tail(q) \in Seq(S) /\ Len(q) \in Nat /\ Len(q) # 0 /\ Len(Tail(q)) = Len(q) - 1
      /\ DOMAIN q = 1..Len(q) /\ DOMAIN Tail(q) = 1..(Len(q) - 1)
      /\ Head(q) = q[1]
  BY <1>1
<1>3. \A i \in 1..(Len(q) - 1) : Tail(q)[i] = q[i + 1]
  BY <1>1, <1>2
<1> QED
  BY <1>2, <1>3 DEF IsBatch

-----------------------------------------------------------------------------
(* The Driver's books.                                                     *)

DriverFields ==
  {"core", "inbound", "queue", "bytes", "draining", "completions", "admitted",
   "nextCommand", "closing", "closed", "writer", "answers", "held"}

WriterFields == {"queue", "reports", "begun", "open", "fault", "cancelled", "live"}

BatchFields == {"d", "permit", "failure"}

Formed(d) == DOMAIN d = DriverFields /\ DOMAIN d.writer = WriterFields

\* The frames of A wait in the queue q or in the reports R, each of them once; while
\* the task lives none is anywhere else.
Line(q, R, A, live) ==
  /\ IsBatch(q) /\ IsBatch(R)
  /\ \A i \in DOMAIN q : q[i].write \in A
  /\ \A i \in DOMAIN R : R[i].write \in A
  /\ \A i, j \in DOMAIN q : q[i].write = q[j].write => i = j
  /\ \A i, j \in DOMAIN R : R[i].write = R[j].write => i = j
  /\ \A i \in DOMAIN q, j \in DOMAIN R : q[i].write # R[j].write
  /\ live => \A w \in A : \/ \E i \in DOMAIN q : q[i].write = w
                          \/ \E i \in DOMAIN R : R[i].write = w

\* A faulted Writer admits nothing; a dead one is faulted and holds no frame.
Worker(w) ==
  /\ w.fault => ~w.open
  /\ ~w.live => w.fault /\ w.queue = <<>>
  /\ \A i \in DOMAIN w.reports : w.reports[i].outcome \in Outcomes

\* The places an operation of the application can be: the entries of the queue and
\* of the completion table, and the results it was answered with.
QueuePlaces(d, op) == {i \in DOMAIN d.queue : d.queue[i].op = op}
TablePlaces(d, op) == {k \in DOMAIN d.completions : d.completions[k].op = op}

\* Each operation that was accepted (acc.seen) is in one of them, once, and those that
\* had been answered (acc.done) still are.
Owner(d, acc) ==
  /\ DOMAIN d.answers = Operations
  /\ \A op \in Operations :
       \/ /\ op \notin acc.seen /\ op \notin acc.done /\ d.answers[op] = <<>>
          /\ QueuePlaces(d, op) = {} /\ TablePlaces(d, op) = {}
       \/ /\ op \in acc.seen /\ op \notin acc.done /\ d.answers[op] = <<>>
          /\ \E i : QueuePlaces(d, op) = {i} /\ TablePlaces(d, op) = {}
       \/ /\ op \in acc.seen /\ op \notin acc.done /\ d.answers[op] = <<>>
          /\ \E k : QueuePlaces(d, op) = {} /\ TablePlaces(d, op) = {k}
       \/ /\ op \in acc.seen /\ \E r : d.answers[op] = <<r>>
          /\ QueuePlaces(d, op) = {} /\ TablePlaces(d, op) = {}

\* A Driver that may take over Core c, the end of the run of a handler from p, and
\* apply its actions: its table knows the commands that were open, its permit allows
\* what the handler was allowed, and its Writer holds older frames.
Ready(d, c, p, permit, written, R, acc) ==
  /\ Formed(d) /\ IInv(c) /\ IsBatch(c.out)
  /\ \A k \in DOMAIN p.open : k \in DOMAIN d.completions /\ d.completions[k].kind = p.open[k]
  /\ \A k : <<k, "Ok">> \in p.told => written \in d.admitted
  /\ p.permit => permit
  /\ p.nextWrite \in Nat /\ \A w \in d.admitted : w \in Nat /\ w < p.nextWrite
  /\ Line(d.writer.queue, R, d.admitted, d.writer.live) /\ Worker(d.writer)
  /\ d.closing \in {None} \cup Closings
  /\ d.closing # None => p.closing
  /\ p.cause \in AllReasons
  /\ IsBatch(d.inbound) /\ Len(d.inbound) <= InboundCapacity
  /\ Owner(d, acc)

-----------------------------------------------------------------------------
(* A batch under way: what the first i actions have done to the books.     *)

\* The completion table lost the commands that were completed, and no other.
TableAt(d, c, s, i) ==
  /\ \A k \in DOMAIN s.d.completions :
       k \in DOMAIN d.completions /\ s.d.completions[k] = d.completions[k]
  /\ \A k \in DOMAIN d.completions :
       k \in DOMAIN s.d.completions \/ \E j \in 1..i : Completes(c.out[j], k)
  /\ s.failure = None =>
       \A j \in 1..i : c.out[j].act = "CompleteCommand" =>
         \A k \in c.out[j].commands : k \notin DOMAIN s.d.completions

\* The Writer got the frames, in one piece.
FramesAt(d, c, p, s, i, R) ==
  /\ d.admitted \subseteq s.d.admitted
  /\ \A w \in s.d.admitted :
       \/ w \in d.admitted
       \/ \E j \in 1..i : c.out[j].act = "SendFrame" /\ c.out[j].write = w
  /\ s.failure = None =>
       \A j \in 1..i : c.out[j].act = "SendFrame" => c.out[j].write \in s.d.admitted
  /\ Line(s.d.writer.queue, R, s.d.admitted, d.writer.live)
  /\ ~d.writer.live => s.d.writer.queue = <<>>
  /\ /\ s.failure = None /\ p.permit
     /\ \A j \in 1..i : c.out[j].act = "SendFrame" => c.out[j].message.type # "Data"
     => s.permit

\* The first close gave the reason; its barrier is an admitted frame.
ClosingAt(d, c, s, i) ==
  /\ s.d.closing \in {None} \cup Closings
  /\ d.closing # None =>
       /\ s.d.closing # None /\ s.d.closing.reason = d.closing.reason
       /\ s.d.closing.barrier \in {None, d.closing.barrier}
  /\ d.closing = None /\ s.d.closing # None =>
       \E j \in 1..i :
         /\ c.out[j].act = "CloseGeneration" /\ s.d.closing.reason = c.out[j].reason
         /\ s.d.closing.barrier # None =>
              s.d.closing.barrier = c.out[j].barrier /\ c.out[j].barrier \in s.d.admitted
  /\ s.failure = None =>
       \A j \in 1..i : c.out[j].act = "CloseGeneration" => s.d.closing # None

\* A batch is cut for lack of room or because the Writer is gone, and the write of a
\* refused frame is retained but not admitted.
FailureAt(p, c, s) ==
  s.failure # None =>
    /\ s.failure.reason \in {"ApplicationBackpressure", "TransportLost", "ControlBackpressure"}
    /\ s.failure.write # None =>
         s.failure.write \in DOMAIN c.pending /\ s.failure.write \notin s.d.admitted
    /\ ~p.closing
    /\ \E j \in DOMAIN c.out : c.out[j].act \in {"DeliverPrimary", "SendFrame"}

Applied(d, c, p, R, acc, s, i) ==
  /\ DOMAIN s = BatchFields /\ Formed(s.d)
  /\ \A f \in {"queue", "bytes", "draining", "nextCommand", "closed", "held"} : s.d[f] = d[f]
  /\ s.d.core = Begin(c)
  /\ \A f \in WriterFields \ {"queue"} : s.d.writer[f] = d.writer[f]
  /\ IsBatch(s.d.inbound) /\ Len(s.d.inbound) <= InboundCapacity
  /\ TableAt(d, c, s, i) /\ FramesAt(d, c, p, s, i, R) /\ ClosingAt(d, c, s, i)
  /\ FailureAt(p, c, s)
  /\ Owner(s.d, acc)

\* A step that leaves the three places alone moves no operation.
LEMMA OwnerSame ==
  ASSUME NEW d, NEW e, NEW acc, Owner(d, acc),
         e.answers = d.answers, e.queue = d.queue, e.completions = d.completions
  PROVE  Owner(e, acc)
<1>1. \A op : QueuePlaces(e, op) = QueuePlaces(d, op) /\ TablePlaces(e, op) = TablePlaces(d, op)
  BY DEF QueuePlaces, TablePlaces
<1> QED
  BY <1>1 DEF Owner

\* An action that changes nothing, or comes after the cut, keeps what was applied.
LEMMA AppliesNothing ==
  ASSUME NEW d, NEW c, NEW p, NEW R, NEW acc, NEW s, NEW i \in Nat,
         Applied(d, c, p, R, acc, s, i),
         \/ s.failure # None
         \/ c.out[i + 1].act \notin {"SendFrame", "CompleteCommand", "CloseGeneration"}
  PROVE  Applied(d, c, p, R, acc, s, i + 1)
<1>1. 1..(i + 1) = (1..i) \cup {i + 1}
  OBVIOUS
<1>2. TableAt(d, c, s, i + 1)
  BY <1>1 DEF Applied, TableAt
<1>3. FramesAt(d, c, p, s, i + 1, R)
  BY <1>1 DEF Applied, FramesAt
<1>4. ClosingAt(d, c, s, i + 1)
  BY <1>1 DEF Applied, ClosingAt
<1> QED
  BY <1>2, <1>3, <1>4 DEF Applied

\* A refusal cuts the batch.
LEMMA AppliesFailure ==
  ASSUME NEW d, NEW c, NEW p, NEW R, NEW acc, NEW s, NEW i \in Nat, NEW reason, NEW write,
         Applied(d, c, p, R, acc, s, i), s.failure = None,
         reason \in {"ApplicationBackpressure", "TransportLost", "ControlBackpressure"},
         IInv(c), write # None => write \in DOMAIN c.pending /\ write \notin s.d.admitted,
         ~p.closing, \E j \in DOMAIN c.out : c.out[j].act \in {"DeliverPrimary", "SendFrame"}
  PROVE  /\ Applied(d, c, p, R, acc, Failed(s, reason, write), i + 1)
         /\ Failed(s, reason, write).failure # None
<1> DEFINE t == Failed(s, reason, write)
<1>1. /\ DOMAIN t = BatchFields /\ t.d = s.d /\ t.permit = s.permit
      /\ t.failure = [reason |-> reason, write |-> write]
  BY DEF Applied, BatchFields, Failed
<1>2. t.failure \in Failures /\ t.failure # None
  <2>1. reason \in AllReasons
    BY DEF AllReasons, GenerationReasons
  <2>2. write \in WriteIds \cup {None}
    BY DEF IInv, Weak, Shape
  <2>3. t.failure \in Failures
    BY <1>1, <2>1, <2>2 DEF Failures
  <2> QED
    BY <2>3, RuntimeAssumption
<1> HIDE DEF t
<1>3. Applied(d, c, p, R, acc, t, i)
  <2>1. TableAt(d, c, t, i)
    BY <1>1, <1>2 DEF Applied, TableAt
  <2>2. FramesAt(d, c, p, t, i, R)
    BY <1>1, <1>2 DEF Applied, FramesAt
  <2>3. ClosingAt(d, c, t, i)
    BY <1>1, <1>2 DEF Applied, ClosingAt
  <2>4. FailureAt(p, c, t)
    BY <1>1 DEF FailureAt
  <2> QED
    BY <1>1, <2>1, <2>2, <2>3, <2>4 DEF Applied
<1>4. Applied(d, c, p, R, acc, t, i + 1)
  BY <1>2, <1>3, AppliesNothing
<1> QED
  BY <1>2, <1>4 DEF t

\* DeliverPrimary.
LEMMA AppliesDelivery ==
  ASSUME NEW d, NEW c, NEW p, NEW R, NEW acc, NEW s, NEW i \in Nat, NEW written, NEW n,
         Applied(d, c, p, R, acc, s, i), s.failure = None, n = i + 1, IInv(c),
         c.out[n].act = "DeliverPrimary", n \in DOMAIN c.out, ~p.closing
  PROVE  Applied(d, c, p, R, acc, ApplyAction(s, c.out[n], written), n)
<1> DEFINE a == c.out[n]
           t == [s EXCEPT !.d.inbound = Append(@, Token(a))]
<1>1. ApplyAction(s, a, written) =
        IF InboundFull(s.d) THEN Failed(s, "ApplicationBackpressure", None) ELSE t
  BY DEF ApplyAction
<1>2. CASE InboundFull(s.d)
  BY <1>1, <1>2, AppliesFailure
<1>3. CASE ~InboundFull(s.d)
  <2>1. /\ DOMAIN t = BatchFields /\ t.permit = s.permit /\ t.failure = None
        /\ DOMAIN t.d = DriverFields /\ t.d.inbound = Append(s.d.inbound, Token(a))
        /\ \A f \in DriverFields \ {"inbound"} : t.d[f] = s.d[f]
    BY DEF Applied, Formed, BatchFields, DriverFields
  <2> HIDE DEF t
  <2>2. IsBatch(t.d.inbound) /\ Len(t.d.inbound) <= InboundCapacity
    <3>1. Len(s.d.inbound) \in Nat /\ Len(s.d.inbound) < InboundCapacity /\ InboundCapacity \in Nat
      BY <1>3, BatchShape, DriverAssumption DEF InboundFull, Applied
    <3>2. IsBatch(t.d.inbound) /\ Len(t.d.inbound) = Len(s.d.inbound) + 1
      BY <2>1, AppendedBatch DEF Applied
    <3> QED
      BY <3>1, <3>2
  <2>3. /\ t.d.core = s.d.core /\ t.d.completions = s.d.completions /\ t.d.closing = s.d.closing
        /\ t.d.admitted = s.d.admitted /\ t.d.writer = s.d.writer /\ t.d.answers = s.d.answers
        /\ t.d.queue = s.d.queue
    BY <2>1 DEF DriverFields
  <2>4. TableAt(d, c, t, i) /\ ClosingAt(d, c, t, i)
    BY <2>1, <2>3 DEF Applied, TableAt, ClosingAt
  <2>5. FramesAt(d, c, p, t, i, R)
    BY <2>1, <2>3 DEF Applied, FramesAt
  <2>6. Owner(t.d, acc)
    BY <2>3, OwnerSame DEF Applied
  <2>7. FailureAt(p, c, t)
    BY <2>1 DEF FailureAt
  <2>8. Applied(d, c, p, R, acc, t, i)
    <3>1. \A f \in {"queue", "bytes", "draining", "nextCommand", "closed", "held"} : t.d[f] = d[f]
      BY <2>1 DEF Applied, DriverFields
    <3>2. \A f \in WriterFields \ {"queue"} : t.d.writer[f] = d.writer[f]
      BY <2>3 DEF Applied
    <3> QED
      BY <2>1, <2>2, <2>3, <2>4, <2>5, <2>6, <2>7, <3>1, <3>2 DEF Applied, Formed
  <2>9. Applied(d, c, p, R, acc, t, i + 1)
    BY <2>8, AppliesNothing
  <2> QED
    BY <1>1, <1>3, <2>9
<1> QED
  BY <1>2, <1>3

\* CloseGeneration.
LEMMA AppliesClose ==
  ASSUME NEW d, NEW c, NEW p, NEW R, NEW acc, NEW s, NEW i \in Nat, NEW written, NEW n,
         Applied(d, c, p, R, acc, s, i), s.failure = None, n = i + 1,
         c.out[n].act = "CloseGeneration", c.out[n].reason \in AllReasons,
         c.out[n].barrier # None =>
           /\ c.out[n].barrier \in WriteIds
           /\ \E j \in 1..i : c.out[j].act = "SendFrame" /\ c.out[j].write = c.out[n].barrier
  PROVE  Applied(d, c, p, R, acc, ApplyAction(s, c.out[n], written), n)
<1> DEFINE a == c.out[n]
           x == s.d.closing
           y == IF x = None THEN [reason |-> a.reason, barrier |-> a.barrier]
                ELSE IF a.barrier = None THEN [x EXCEPT !.barrier = None] ELSE x
           t == [s EXCEPT !.d = BeginClosing(@, a.reason, a.barrier)]
<1>1. ApplyAction(s, a, written) = t
  BY DEF ApplyAction
<1>2. /\ DOMAIN t = BatchFields /\ t.permit = s.permit /\ t.failure = None
      /\ DOMAIN t.d = DriverFields /\ t.d.closing = y
      /\ \A f \in DriverFields \ {"closing"} : t.d[f] = s.d[f]
  BY DEF Applied, Formed, BatchFields, DriverFields, BeginClosing, Immediate
<1>3. /\ y \in Closings
      /\ x = None => y.reason = a.reason /\ y.barrier = a.barrier
      /\ x # None => y.reason = x.reason /\ y.barrier \in {None, x.barrier}
  <2>1. CASE x = None
    <3>1. a.reason \in AllReasons /\ a.barrier \in WriteIds \cup {None}
      OBVIOUS
    <3> QED
      BY <2>1, <3>1 DEF Closings
  <2>2. CASE x # None
    <3>1. x \in Closings
      BY <2>2 DEF Applied, ClosingAt
    <3> QED
      BY <2>2, <3>1 DEF Closings
  <2> QED
    BY <2>1, <2>2
<1>4. y # None
  BY <1>3, RuntimeAssumption
<1> HIDE DEF t, y
<1>5. /\ t.d.core = s.d.core /\ t.d.completions = s.d.completions
      /\ t.d.admitted = s.d.admitted /\ t.d.writer = s.d.writer /\ t.d.answers = s.d.answers
      /\ t.d.queue = s.d.queue /\ t.d.inbound = s.d.inbound
  BY <1>2 DEF DriverFields
<1>6. 1..n = (1..i) \cup {n}
  OBVIOUS
<1>7. TableAt(d, c, t, n)
  BY <1>2, <1>5, <1>6 DEF Applied, TableAt
<1>8. FramesAt(d, c, p, t, n, R)
  BY <1>2, <1>5, <1>6 DEF Applied, FramesAt
<1>9. a.barrier # None => a.barrier \in s.d.admitted
  BY DEF Applied, FramesAt
<1>10. ClosingAt(d, c, t, n)
  <2>1. d.closing # None =>
          /\ y # None /\ y.reason = d.closing.reason
          /\ y.barrier \in {None, d.closing.barrier}
    BY <1>3, <1>4 DEF Applied, ClosingAt
  <2>2. ASSUME d.closing = None
        PROVE  \E j \in 1..n :
                 /\ c.out[j].act = "CloseGeneration" /\ y.reason = c.out[j].reason
                 /\ y.barrier # None =>
                      y.barrier = c.out[j].barrier /\ c.out[j].barrier \in s.d.admitted
    <3>1. CASE x = None
      BY <1>3, <1>6, <1>9, <3>1
    <3>2. CASE x # None
      <4>1. PICK j \in 1..i :
              /\ c.out[j].act = "CloseGeneration" /\ x.reason = c.out[j].reason
              /\ x.barrier # None =>
                   x.barrier = c.out[j].barrier /\ c.out[j].barrier \in s.d.admitted
        BY <2>2, <3>2 DEF Applied, ClosingAt
      <4> QED
        BY <1>3, <1>6, <3>2, <4>1
    <3> QED
      BY <3>1, <3>2
  <2> QED
    BY <1>2, <1>3, <1>4, <1>5, <2>1, <2>2 DEF ClosingAt
<1>11. FailureAt(p, c, t)
  BY <1>2 DEF FailureAt
<1>12. Owner(t.d, acc)
  BY <1>5, OwnerSame DEF Applied
<1>13. \A f \in {"queue", "bytes", "draining", "nextCommand", "closed", "held"} : t.d[f] = d[f]
  BY <1>2 DEF Applied, DriverFields
<1>14. \A f \in WriterFields \ {"queue"} : t.d.writer[f] = d.writer[f]
  BY <1>5 DEF Applied
<1> QED
  BY <1>1, <1>2, <1>5, <1>7, <1>8, <1>10, <1>11, <1>12, <1>13, <1>14 DEF Applied, Formed

\* A new frame at the end of the line.
LEMMA LineGrows ==
  ASSUME NEW q, NEW R, NEW A, NEW live, NEW x, Line(q, R, A, live), x.write \notin A
  PROVE  Line(Append(q, x), R, A \cup {x.write}, live)
<1> DEFINE n == Len(q) + 1
           r == Append(q, x)
<1>1. /\ IsBatch(r) /\ DOMAIN r = DOMAIN q \cup {n} /\ n \notin DOMAIN q /\ r[n] = x
      /\ \A i \in DOMAIN q : r[i] = q[i]
  BY AppendedBatch DEF Line
<1> HIDE DEF r, n
<1>2. \A i \in DOMAIN q : q[i].write # x.write
  BY DEF Line
<1>3. \A i \in DOMAIN R : R[i].write # x.write
  BY DEF Line
<1>4. \A i, j \in DOMAIN r : r[i].write = r[j].write => i = j
  BY <1>1, <1>2 DEF Line
<1>5. \A i \in DOMAIN r, j \in DOMAIN R : r[i].write # R[j].write
  BY <1>1, <1>3 DEF Line
<1>6. ASSUME live, NEW w \in A \cup {x.write}
      PROVE  \/ \E i \in DOMAIN r : r[i].write = w
             \/ \E i \in DOMAIN R : R[i].write = w
  <2>1. CASE w = x.write
    BY <1>1, <2>1
  <2>2. CASE w # x.write
    BY <1>1, <1>6, <2>2 DEF Line
  <2> QED
    BY <2>1, <2>2
<1> QED
  BY <1>1, <1>4, <1>5, <1>6 DEF Line, r

\* SendFrame.
LEMMA AppliesFrame ==
  ASSUME NEW d, NEW c, NEW p, NEW R, NEW acc, NEW s, NEW i \in Nat, NEW written, NEW n,
         Applied(d, c, p, R, acc, s, i), s.failure = None, n = i + 1, IInv(c),
         c.out[n].act = "SendFrame", n \in DOMAIN c.out, c.out[n].write \in DOMAIN c.pending,
         ~p.closing,
         p.nextWrite \in Nat, \A w \in d.admitted : w \in Nat /\ w < p.nextWrite,
         p.nextWrite <= c.out[n].write,
         \A j \in 1..i : c.out[j].act = "SendFrame" => c.out[j].write # c.out[n].write,
         c.out[n].message.type = "Data" =>
           /\ p.permit
           /\ \A j \in 1..i : c.out[j].act = "SendFrame" => c.out[j].message.type # "Data",
         Worker(d.writer)
  PROVE  Applied(d, c, p, R, acc, ApplyAction(s, c.out[n], written), n)
<1> DEFINE a == c.out[n]
           w == a.write
           lane == IF a.message.type = "Data" THEN "Data" ELSE "Control"
           x == [write |-> w, lane |-> lane]
           t == [s EXCEPT
                   !.permit = IF lane = "Data" THEN FALSE ELSE @,
                   !.d.admitted = @ \cup {w},
                   !.d.writer.queue = Append(@, x)]
<1>1. w \in Nat /\ w \notin s.d.admitted
  <2>1. w \in Nat
    BY DEF IInv, Weak, Shape, WriteIds
  <2>2. w \notin d.admitted
    BY <2>1
  <2> QED
    BY <2>1, <2>2 DEF Applied, FramesAt
<1>2. lane = "Data" => s.permit
  BY DEF Applied, FramesAt
<1>3. ApplyAction(s, a, written) = AdmitFrame(s, a)
  BY DEF ApplyAction
<1>4. \/ ~s.d.writer.open /\ AdmitFrame(s, a) = Failed(s, "TransportLost", w)
      \/ AdmitFrame(s, a) = Failed(s, "ControlBackpressure", w)
      \/ s.d.writer.open /\ AdmitFrame(s, a) = t
  BY <1>2 DEF AdmitFrame
<1>5. ASSUME NEW reason \in {"TransportLost", "ControlBackpressure"},
             AdmitFrame(s, a) = Failed(s, reason, w)
      PROVE  Applied(d, c, p, R, acc, ApplyAction(s, a, written), n)
  BY <1>1, <1>3, <1>5, AppliesFailure
<1>6. ASSUME s.d.writer.open, AdmitFrame(s, a) = t
      PROVE  Applied(d, c, p, R, acc, ApplyAction(s, a, written), n)
  <2>1. /\ DOMAIN t = BatchFields /\ t.permit = (IF lane = "Data" THEN FALSE ELSE s.permit)
        /\ t.failure = None
        /\ DOMAIN t.d = DriverFields /\ DOMAIN t.d.writer = WriterFields
        /\ \A f \in DriverFields \ {"admitted", "writer"} : t.d[f] = s.d[f]
        /\ t.d.admitted = s.d.admitted \cup {w}
        /\ t.d.writer.queue = Append(s.d.writer.queue, x)
        /\ \A f \in WriterFields \ {"queue"} : t.d.writer[f] = s.d.writer[f]
    BY DEF Applied, Formed, BatchFields, DriverFields, WriterFields
  <2> HIDE DEF t
  <2>2. /\ t.d.core = s.d.core /\ t.d.completions = s.d.completions /\ t.d.closing = s.d.closing
        /\ t.d.answers = s.d.answers /\ t.d.queue = s.d.queue /\ t.d.inbound = s.d.inbound
    BY <2>1 DEF DriverFields
  <2>3. d.writer.live
    <3>1. s.d.writer.open = d.writer.open
      BY DEF Applied, WriterFields
    <3> QED
      BY <1>6, <3>1 DEF Worker
  <2>4. 1..n = (1..i) \cup {n}
    OBVIOUS
  <2>5. TableAt(d, c, t, n)
    <3>1. TableAt(d, c, s, i)
      BY DEF Applied
    <3>2. c.out[n].act # "CompleteCommand"
      OBVIOUS
    <3> QED
      BY <2>1, <2>2, <2>4, <3>1, <3>2 DEF TableAt
  <2>6. ClosingAt(d, c, t, n)
    <3>1. t.d.closing \in {None} \cup Closings
      BY <2>2 DEF Applied, ClosingAt
    <3>2. d.closing # None =>
            /\ t.d.closing # None /\ t.d.closing.reason = d.closing.reason
            /\ t.d.closing.barrier \in {None, d.closing.barrier}
      BY <2>2 DEF Applied, ClosingAt
    <3>3. d.closing = None /\ t.d.closing # None =>
            \E j \in 1..n :
              /\ c.out[j].act = "CloseGeneration" /\ t.d.closing.reason = c.out[j].reason
              /\ t.d.closing.barrier # None =>
                   t.d.closing.barrier = c.out[j].barrier /\ c.out[j].barrier \in t.d.admitted
      BY <2>1, <2>2, <2>4 DEF Applied, ClosingAt
    <3>4. \A j \in 1..n : c.out[j].act = "CloseGeneration" => t.d.closing # None
      BY <2>2, <2>4 DEF Applied, ClosingAt
    <3> QED
      BY <3>1, <3>2, <3>3, <3>4 DEF ClosingAt
  <2>7. FramesAt(d, c, p, t, n, R)
    <3>1. d.admitted \subseteq t.d.admitted
      BY <2>1 DEF Applied, FramesAt
    <3>2. \A v \in t.d.admitted :
            \/ v \in d.admitted
            \/ \E j \in 1..n : c.out[j].act = "SendFrame" /\ c.out[j].write = v
      BY <2>1, <2>4 DEF Applied, FramesAt
    <3>3. \A j \in 1..n : c.out[j].act = "SendFrame" => c.out[j].write \in t.d.admitted
      BY <2>1, <2>4 DEF Applied, FramesAt
    <3>4. Line(t.d.writer.queue, R, t.d.admitted, d.writer.live)
      <4>1. x.write = w /\ Line(s.d.writer.queue, R, s.d.admitted, d.writer.live)
        BY DEF Applied, FramesAt
      <4> QED
        BY <1>1, <2>1, <4>1, LineGrows
    <3>5. ASSUME p.permit, \A j \in 1..n : c.out[j].act = "SendFrame" => c.out[j].message.type # "Data"
          PROVE  t.permit
      BY <2>1, <2>4, <3>5 DEF Applied, FramesAt
    <3> QED
      BY <2>3, <3>1, <3>2, <3>3, <3>4, <3>5 DEF FramesAt
  <2>8. FailureAt(p, c, t)
    BY <2>1 DEF FailureAt
  <2>9. Owner(t.d, acc)
    BY <2>2, OwnerSame DEF Applied
  <2>10. \A f \in {"queue", "bytes", "draining", "nextCommand", "closed", "held"} : t.d[f] = d[f]
    BY <2>1 DEF Applied, DriverFields
  <2>11. \A f \in WriterFields \ {"queue"} : t.d.writer[f] = d.writer[f]
    BY <2>1 DEF Applied
  <2>12. Applied(d, c, p, R, acc, t, n)
    BY <2>1, <2>2, <2>5, <2>6, <2>7, <2>8, <2>9, <2>10, <2>11 DEF Applied, Formed
  <2> QED
    BY <1>3, <1>6, <2>12
<1> QED
  BY <1>4, <1>5, <1>6

\* Completing commands of the table moves their operations to their answers.
LEMMA OwnerSettles ==
  ASSUME NEW d, NEW acc, NEW ks, NEW result, Formed(d), Owner(d, acc), ks \subseteq DOMAIN d.completions
  PROVE  LET e == [Answer(d, {d.completions[k].op : k \in ks}, result)
                     EXCEPT !.completions = Drop(@, ks)]
         IN  /\ DOMAIN e = DriverFields
             /\ \A f \in DriverFields \ {"answers", "completions"} : e[f] = d[f]
             /\ e.completions = Drop(d.completions, ks)
             /\ Owner(e, acc)
<1> DEFINE ops == {d.completions[k].op : k \in ks}
           e == [Answer(d, ops, result) EXCEPT !.completions = Drop(@, ks)]
<1>1. /\ DOMAIN e = DriverFields
      /\ \A f \in DriverFields \ {"answers", "completions"} : e[f] = d[f]
      /\ e.completions = Drop(d.completions, ks)
      /\ e.answers = [op \in Operations |->
                        IF op \in ops THEN Append(d.answers[op], result) ELSE d.answers[op]]
  BY DEF Formed, Answer, DriverFields
<1> HIDE DEF e
<1>2. \A op : QueuePlaces(e, op) = QueuePlaces(d, op)
  BY <1>1 DEF QueuePlaces, DriverFields
<1>3. \A op : TablePlaces(e, op) = TablePlaces(d, op) \ ks
  BY <1>1 DEF TablePlaces, Drop
<1>4. ASSUME NEW op \in Operations
      PROVE  \/ /\ op \notin acc.seen /\ op \notin acc.done /\ e.answers[op] = <<>>
                /\ QueuePlaces(e, op) = {} /\ TablePlaces(e, op) = {}
             \/ /\ op \in acc.seen /\ op \notin acc.done /\ e.answers[op] = <<>>
                /\ \E i : QueuePlaces(e, op) = {i} /\ TablePlaces(e, op) = {}
             \/ /\ op \in acc.seen /\ op \notin acc.done /\ e.answers[op] = <<>>
                /\ \E k : QueuePlaces(e, op) = {} /\ TablePlaces(e, op) = {k}
             \/ /\ op \in acc.seen /\ \E r : e.answers[op] = <<r>>
                /\ QueuePlaces(e, op) = {} /\ TablePlaces(e, op) = {}
  <2>1. CASE op \in ops
    <3>1. PICK k \in ks : k \in TablePlaces(d, op)
      BY <2>1 DEF TablePlaces
    <3>2. /\ op \in acc.seen /\ d.answers[op] = <<>> /\ QueuePlaces(d, op) = {}
          /\ TablePlaces(d, op) = {k}
      BY <3>1 DEF Owner
    <3>3. e.answers[op] = <<result>>
      <4>1. e.answers[op] = Append(<<>>, result)
        BY <1>1, <2>1, <3>2
      <4>2. Append(<<>>, result) = <<result>>
        OBVIOUS
      <4> QED
        BY <4>1, <4>2
    <3>4. TablePlaces(e, op) = {}
      BY <1>3, <3>1, <3>2
    <3> QED
      BY <1>2, <3>2, <3>3, <3>4
  <2>2. CASE op \notin ops
    <3>1. TablePlaces(d, op) \cap ks = {}
      BY <2>2 DEF TablePlaces
    <3>2. TablePlaces(e, op) = TablePlaces(d, op) /\ e.answers[op] = d.answers[op]
      BY <1>1, <1>3, <2>2, <3>1
    <3> QED
      BY <1>2, <3>2 DEF Owner
  <2> QED
    BY <2>1, <2>2
<1>5. DOMAIN e.answers = Operations
  BY <1>1
<1>6. Owner(e, acc)
  BY <1>4, <1>5 DEF Owner
<1> QED
  BY <1>1, <1>6 DEF e

\* CompleteCommand.
LEMMA AppliesCompletion ==
  ASSUME NEW d, NEW c, NEW p, NEW R, NEW acc, NEW s, NEW i \in Nat, NEW written, NEW n,
         Applied(d, c, p, R, acc, s, i), s.failure = None, n = i + 1,
         c.out[n].act = "CompleteCommand",
         \A k \in c.out[n].commands :
           /\ k \in DOMAIN d.completions
           /\ \A j \in 1..i : ~Completes(c.out[j], k)
           /\ d.completions[k].kind = "Send" /\ c.out[n].result = "Ok" => written \in d.admitted
  PROVE  Applied(d, c, p, R, acc, ApplyAction(s, c.out[n], written), n)
<1> DEFINE a == c.out[n]
           ks == a.commands
           e == [Answer(s.d, {s.d.completions[k].op : k \in ks}, a.result)
                   EXCEPT !.completions = Drop(@, ks)]
           t == [s EXCEPT !.d = e]
<1>1. ApplyAction(s, a, written) = Complete(s, a, written)
  BY DEF ApplyAction
<1>2. ks \subseteq DOMAIN s.d.completions
  BY DEF Applied, TableAt
<1>3. \A k \in ks : s.d.completions[k].kind = "Send" /\ a.result = "Ok" => written \in s.d.admitted
  BY <1>2 DEF Applied, TableAt, FramesAt
<1>4. Complete(s, a, written) = t
  <2> DEFINE known == ks \cap DOMAIN s.d.completions
             valid == {k \in known : s.d.completions[k].kind = "Send" /\ a.result = "Ok"
                                       => written \in s.d.admitted}
  <2>1. valid = ks
    BY <1>2, <1>3
  <2>2. Complete(s, a, written) =
          LET done == [Answer(s.d, {s.d.completions[k].op : k \in valid}, a.result)
                         EXCEPT !.completions = Drop(@, valid)]
          IN  IF valid = ks THEN [s EXCEPT !.d = done]
              ELSE Failed([s EXCEPT !.d = done], "RuntimeInvariant", None)
    BY DEF Complete
  <2> HIDE DEF valid
  <2> QED
    BY <2>1, <2>2
<1>5. /\ DOMAIN e = DriverFields
      /\ \A f \in DriverFields \ {"answers", "completions"} : e[f] = s.d[f]
      /\ e.completions = Drop(s.d.completions, ks)
      /\ Owner(e, acc)
  <2>1. Formed(s.d) /\ Owner(s.d, acc)
    BY DEF Applied
  <2> QED
    BY <1>2, <2>1, OwnerSettles
<1> HIDE DEF e
<1>6. /\ DOMAIN t = BatchFields /\ t.permit = s.permit /\ t.failure = None /\ t.d = e
  BY DEF Applied, BatchFields
<1> HIDE DEF t
<1>7. /\ e.core = s.d.core /\ e.closing = s.d.closing /\ e.admitted = s.d.admitted
      /\ e.writer = s.d.writer /\ e.queue = s.d.queue /\ e.inbound = s.d.inbound
  BY <1>5 DEF DriverFields
<1>8. 1..n = (1..i) \cup {n}
  OBVIOUS
<1>9. TableAt(d, c, t, n)
  <2>1. /\ DOMAIN e.completions = DOMAIN s.d.completions \ ks
        /\ \A k \in DOMAIN e.completions : e.completions[k] = s.d.completions[k]
    BY <1>5 DEF Drop
  <2>2. \A k \in DOMAIN e.completions : k \in DOMAIN d.completions /\ e.completions[k] = d.completions[k]
    BY <2>1 DEF Applied, TableAt
  <2>3. \A k \in DOMAIN d.completions :
          k \in DOMAIN e.completions \/ \E j \in 1..n : Completes(c.out[j], k)
    BY <1>8, <2>1 DEF Applied, TableAt, Completes
  <2>4. \A j \in 1..n : c.out[j].act = "CompleteCommand" =>
          \A k \in c.out[j].commands : k \notin DOMAIN e.completions
    BY <1>8, <2>1 DEF Applied, TableAt
  <2> QED
    BY <1>6, <2>2, <2>3, <2>4 DEF TableAt
<1>10. FramesAt(d, c, p, t, n, R)
  BY <1>6, <1>7, <1>8 DEF Applied, FramesAt
<1>11. ClosingAt(d, c, t, n)
  BY <1>6, <1>7, <1>8 DEF Applied, ClosingAt
<1>12. FailureAt(p, c, t)
  BY <1>6 DEF FailureAt
<1>13. \A f \in {"queue", "bytes", "draining", "nextCommand", "closed", "held"} : t.d[f] = d[f]
  BY <1>5, <1>6 DEF Applied, DriverFields
<1>14. \A f \in WriterFields \ {"queue"} : t.d.writer[f] = d.writer[f]
  BY <1>6, <1>7 DEF Applied
<1>15. Applied(d, c, p, R, acc, t, n)
  BY <1>5, <1>6, <1>7, <1>9, <1>10, <1>11, <1>12, <1>13, <1>14 DEF Applied, Formed
<1> QED
  BY <1>1, <1>4, <1>15

\* The batch before its first action.
LEMMA AppliesStart ==
  ASSUME NEW d, NEW c, NEW p, NEW permit, NEW written, NEW R, NEW acc,
         Ready(d, c, p, permit, written, R, acc)
  PROVE  Applied(d, c, p, R, acc, BatchStart(d, c, permit), 0)
<1> DEFINE s == BatchStart(d, c, permit)
<1>1. /\ DOMAIN s = BatchFields /\ s.permit = permit /\ s.failure = None
      /\ DOMAIN s.d = DriverFields /\ s.d.core = Begin(c)
      /\ \A f \in DriverFields \ {"core"} : s.d[f] = d[f]
  BY DEF Ready, Formed, BatchStart, DriverFields, BatchFields
<1> HIDE DEF s
<1>2. /\ s.d.completions = d.completions /\ s.d.admitted = d.admitted /\ s.d.closing = d.closing
      /\ s.d.writer = d.writer /\ s.d.queue = d.queue /\ s.d.inbound = d.inbound
      /\ s.d.answers = d.answers
  BY <1>1 DEF DriverFields
<1>3. 1..0 = {}
  OBVIOUS
<1>4. TableAt(d, c, s, 0)
  BY <1>1, <1>2, <1>3 DEF TableAt
<1>5. FramesAt(d, c, p, s, 0, R)
  BY <1>1, <1>2, <1>3 DEF Ready, FramesAt, Worker
<1>6. ClosingAt(d, c, s, 0)
  BY <1>1, <1>2, <1>3 DEF Ready, ClosingAt
<1>7. FailureAt(p, c, s)
  BY <1>1 DEF FailureAt
<1>8. Owner(s.d, acc)
  BY <1>2, OwnerSame DEF Ready
<1>9. \A f \in {"queue", "bytes", "draining", "nextCommand", "closed", "held"} : s.d[f] = d[f]
  BY <1>1 DEF DriverFields
<1> QED
  BY <1>1, <1>2, <1>4, <1>5, <1>6, <1>7, <1>8, <1>9 DEF Applied, Ready, Formed, s

\* The next action of a run's batch.
LEMMA AppliesNext ==
  ASSUME NEW d, NEW c, NEW p, NEW permit, NEW written, NEW R, NEW acc, NEW s, NEW i \in Nat,
         NEW state, Ready(d, c, p, permit, written, R, acc), Run(p, state, c),
         i < Len(c.out), Applied(d, c, p, R, acc, s, i)
  PROVE  Applied(d, c, p, R, acc, ApplyAction(s, c.out[i + 1], written), i + 1)
<1> DEFINE n == i + 1
           a == c.out[n]
<1>1. n \in DOMAIN c.out /\ n \in Nat /\ \A j \in 1..i : j \in DOMAIN c.out /\ j < n /\ j # n
  BY BatchShape DEF Ready
<1>2. p.closing => a.act \in {"CompleteCommand", "CloseGeneration"}
  BY <1>1 DEF Run, Log, Quieted
<1> HIDE DEF n
<1>3. CASE s.failure # None
  BY <1>3, AppliesNothing DEF ApplyAction, n
<1>4. CASE s.failure = None /\ a.act \notin {"DeliverPrimary", "SendFrame", "CompleteCommand",
                                             "CloseGeneration"}
  <2>1. ApplyAction(s, a, written) = s
    BY <1>4 DEF ApplyAction
  <2> QED
    BY <1>4, <2>1, AppliesNothing DEF n
<1>5. CASE s.failure = None /\ a.act = "DeliverPrimary"
  BY <1>1, <1>2, <1>5, AppliesDelivery DEF Ready, n
<1>6. CASE s.failure = None /\ a.act = "SendFrame"
  <2>1. /\ a.write \in DOMAIN c.pending /\ p.nextWrite <= a.write
        /\ a.message.type = "Data" => p.permit
    BY <1>1, <1>6 DEF Run, Log, Posted, Framed, Written
  <2>2. \A j \in 1..i : c.out[j].act = "SendFrame" =>
          c.out[j].write < a.write /\ c.out[j].write \in DOMAIN c.pending
    BY <1>1, <1>6 DEF Run, Log, Posted, Framed
  <2>3. \A j \in 1..i : c.out[j].act = "SendFrame" => c.out[j].write # a.write
    <3>1. \A w \in DOMAIN c.pending : ~(w < w)
      BY DEF Ready, IInv, Weak, Shape, WriteIds
    <3> QED
      BY <2>2, <3>1
  <2>4. a.message.type = "Data" =>
          \A j \in 1..i : c.out[j].act = "SendFrame" => c.out[j].message.type # "Data"
    BY <1>1, <1>6 DEF Run, Log, Posted, Framed
  <2>5. p.nextWrite \in Nat /\ (\A w \in d.admitted : w \in Nat /\ w < p.nextWrite)
        /\ IInv(c) /\ Worker(d.writer)
    BY DEF Ready
  <2> QED
    BY <1>1, <1>2, <1>6, <2>1, <2>3, <2>4, <2>5, AppliesFrame DEF n
<1>7. CASE s.failure = None /\ a.act = "CompleteCommand"
  <2>1. ASSUME NEW k \in a.commands
        PROVE  /\ k \in DOMAIN d.completions
               /\ \A j \in 1..i : ~Completes(c.out[j], k)
               /\ d.completions[k].kind = "Send" /\ a.result = "Ok" => written \in d.admitted
    <3>1. /\ k \in DOMAIN p.open /\ Justified(p, k, a.result)
          /\ \A j \in DOMAIN c.out : Completes(c.out[j], k) => j = n
      BY <1>1, <1>7 DEF Run, Log, Answered
    <3>2. k \in DOMAIN d.completions /\ d.completions[k].kind = p.open[k]
      BY <3>1 DEF Ready
    <3>3. a.result = "Ok" => written \in d.admitted \/ p.open[k] = "Control"
      BY <3>1 DEF Justified, Fair, Ready
    <3> QED
      BY <1>1, <3>1, <3>2, <3>3
  <2> QED
    BY <1>7, <2>1, AppliesCompletion DEF n
<1>8. CASE s.failure = None /\ a.act = "CloseGeneration"
  <2>1. a.reason \in AllReasons
    BY <1>1, <1>8 DEF Run, Log, Excused, Excusable, Ready, AllReasons, GenerationReasons, CoreReasons
  <2>2. a.barrier # None =>
          /\ a.barrier \in DOMAIN c.pending
          /\ \E j \in DOMAIN c.out : j < n /\ c.out[j].act = "SendFrame" /\ c.out[j].write = a.barrier
    BY <1>1, <1>8 DEF Run, Log, Posted, Barred
  <2>3. \A j \in DOMAIN c.out : j < n => j \in 1..i
    BY BatchShape DEF Ready, n
  <2>4. DOMAIN c.pending \subseteq WriteIds
    BY DEF Ready, IInv, Weak, Shape
  <2> QED
    BY <1>8, <2>1, <2>2, <2>3, <2>4, AppliesClose DEF n
<1> QED
  BY <1>3, <1>4, <1>5, <1>6, <1>7, <1>8 DEF n

\* apply_action_batch: the whole batch, or what precedes the cut, is applied.
LEMMA AppliesBatch ==
  ASSUME NEW d, NEW c, NEW p, NEW permit, NEW written, NEW R, NEW acc, NEW state,
         Ready(d, c, p, permit, written, R, acc), Run(p, state, c)
  PROVE  Applied(d, c, p, R, acc, ApplyActionBatch(d, c, permit, written), Len(c.out))
<1> DEFINE n == Len(c.out)
<1>1. n \in Nat
  BY BatchShape DEF Ready
<1>2. PICK f : /\ f[0] = BatchStart(d, c, permit)
               /\ \A i \in 1..n : f[i] = ApplyAction(f[i - 1], c.out[i], written)
               /\ ApplyActionBatch(d, c, permit, written) = f[n]
  BY <1>1, BatchTrace
<1> DEFINE S == {i \in 0..n : Applied(d, c, p, R, acc, f[i], i)}
<1>3. 0 \in S
  BY <1>1, <1>2, AppliesStart
<1>4. ASSUME NEW i \in 0..(n - 1), i \in S PROVE i + 1 \in S
  <2>1. i \in Nat /\ i < n /\ i + 1 \in 1..n /\ (i + 1) - 1 = i
    BY <1>1
  <2>2. Applied(d, c, p, R, acc, ApplyAction(f[i], c.out[i + 1], written), i + 1)
    BY <1>4, <2>1, AppliesNext
  <2>3. f[i + 1] = ApplyAction(f[i], c.out[i + 1], written)
    BY <1>2, <2>1
  <2> QED
    BY <2>1, <2>2, <2>3
<1>5. n \in S
  <2> HIDE DEF S, n
  <2>1. \A i \in 0..(n - 1) : i \in S => i + 1 \in S
    BY <1>4
  <2>2. \A i \in 0..n : i \in S
    BY <1>1, <1>3, <2>1, BoundedInduction
  <2> QED
    BY <1>1, <2>2
<1> QED
  BY <1>2, <1>5

-----------------------------------------------------------------------------
(* What closing pushes.                                                    *)

\* Only completions and immediate closes for one reason: nothing Driver may refuse.
Settling(out, reason) ==
  /\ IsBatch(out)
  /\ \A i \in DOMAIN out :
       /\ out[i].act \in {"CompleteCommand", "CloseGeneration"}
       /\ out[i].act = "CloseGeneration" => out[i].reason = reason /\ out[i].barrier = None

\* An action of closing added to a batch of closing.
LEMMA EmitSettles ==
  ASSUME NEW c, NEW a, NEW reason, DOMAIN c = Fields, Settling(c.out, reason),
         a.act \in {"CompleteCommand", "CloseGeneration"},
         a.act = "CloseGeneration" => a.reason = reason /\ a.barrier = None
  PROVE  Settling(Emit(c, a).out, reason)
<1>1. PICK n \in Nat :
        /\ DOMAIN Emit(c, a).out = DOMAIN c.out \cup {n}
        /\ Emit(c, a).out[n] = a
        /\ \A i \in DOMAIN c.out : Emit(c, a).out[i] = c.out[i]
  BY EmitAppends DEF Settling
<1>2. IsBatch(Emit(c, a).out)
  BY EmitAppends DEF Settling
<1> QED
  BY <1>1, <1>2 DEF Settling

\* emit_completion adds at most a completion.
LEMMA CompletionSettles ==
  ASSUME NEW c, NEW ks, NEW result, NEW reason, Shape(c), Settling(c.out, reason)
  PROVE  Settling(EmitCompletion(c, ks, result).out, reason)
<1> DEFINE q == [w \in DOMAIN c.pending |->
                   IF c.pending[w].command \in ks
                   THEN [c.pending[w] EXCEPT !.command = None] ELSE c.pending[w]]
           d == [c EXCEPT !.open = Drop(@, ks), !.deferred = Drop(@, ks), !.pending = q]
<1>1. EmitCompletion(c, ks, result) = IF ks = {} THEN c ELSE Emit(d, CompleteCommands(ks, result))
  BY DEF EmitCompletion
<1>2. DOMAIN d = Fields /\ d.out = c.out
  BY DEF Shape, Fields
<1> HIDE DEF d
<1>3. CompleteCommands(ks, result).act = "CompleteCommand"
  BY DEF CompleteCommands
<1> QED
  BY <1>1, <1>2, <1>3, EmitSettles

\* complete_all only answers.
LEMMA CompleteAllSettles ==
  ASSUME NEW c, NEW error, NEW reason, Shape(c), Settling(c.out, reason)
  PROVE  Settling(CompleteAll(c, error).out, reason)
<1> DEFINE d == [c EXCEPT !.active = None, !.data = EmptyFunction]
           ks == DOMAIN c.open
           held == ks \cap UnresolvedCommands(d)
           later == [k \in DOMAIN d.deferred \cup held |->
                       IF k \in DOMAIN d.deferred THEN d.deferred[k] ELSE error]
           kept == [d EXCEPT !.deferred = later]
<1>1. CompleteAll(c, error) = EmitCompletion(kept, ks \ held, error)
  BY DEF CompleteAll, CompleteOrDefer
<1>2. /\ DOMAIN d = Fields /\ d.active = None /\ DOMAIN d.data = {}
      /\ \A f \in Fields \ {"active", "data"} : d[f] = c[f]
  BY DEF Shape, Fields, EmptyFunction
<1> HIDE DEF d, later
<1>3. DOMAIN kept = Fields /\ \A f \in Fields \ {"deferred"} : kept[f] = d[f]
  BY <1>2 DEF Fields
<1> HIDE DEF kept
<1>4. Shape(kept) /\ kept.out = c.out
  BY <1>2, <1>3 DEF Shape, Fields
<1> QED
  BY <1>1, <1>4, CompletionSettles

\* on_shutdown.
LEMMA OnShutdownSettles ==
  ASSUME NEW c, NEW reason, IInv(c)
  PROVE  Settling(OnShutdown(c, reason).out, reason)
<1> DEFINE b == Begin(c)
           y == CompleteAll(b, "ConnectionLost")
           z == [y EXCEPT !.closing = TRUE, !.drain = None, !.replies = EmptyFunction,
                          !.closeIssued = TRUE]
           a == CloseGeneration(reason, Immediate)
<1>1. OnShutdown(c, reason) = IF y.closeIssued THEN z ELSE Emit(z, a)
  BY DEF OnShutdown, CloseAll, RequestClose
<1>2. Weak(b)
  BY BeginIInv DEF IInv
<1>3. b.out = <<>>
  BY DEF Begin, IInv, Weak, Shape, Fields
<1> HIDE DEF b
<1>4. Settling(b.out, reason)
  BY <1>3, EmptyBatch DEF Settling
<1>5. Settling(y.out, reason) /\ Weak(y)
  BY <1>2, <1>4, CompleteAllSettles, CompleteAllWeak DEF Weak
<1> HIDE DEF y
<1>6. DOMAIN z = Fields /\ z.out = y.out
  BY <1>5 DEF Weak, Shape, Fields
<1> HIDE DEF z
<1>7. a.act = "CloseGeneration" /\ a.reason = reason /\ a.barrier = None
  BY DEF CloseGeneration, Immediate
<1> HIDE DEF a
<1> QED
  BY <1>1, <1>5, <1>6, <1>7, EmitSettles

\* on_shutdown with a refused frame.
LEMMA OnAdmissionFailureSettles ==
  ASSUME NEW c, NEW w \in DOMAIN c.pending, NEW reason, IInv(c)
  PROVE  Settling(OnAdmissionFailure(c, reason, w).out, reason)
<1> DEFINE error == RefusalError(reason)
           write == c.pending[w]
           k == write.command
           r == Removed(c, w)
           t == RemoveTransactionForWrite(r, w, write)
           x == CompleteWriteError(t, write, error)
           y == CompleteAll(x, "ConnectionLost")
           z == [y EXCEPT !.closing = TRUE, !.closeIssued = TRUE]
           a == CloseGeneration(reason, Immediate)
<1>1. OnAdmissionFailure(c, reason, w) = Emit(z, a)
  BY DEF OnAdmissionFailure, Removed, RefusalError
<1> HIDE DEF error
<1>2. Weak(x)
  BY FailedWriteWeak
<1>3. /\ DOMAIN r = Fields /\ Shape(r)
      /\ k # None => k \in DOMAIN r.open
  BY RemovedEffect
<1>4. r.out = <<>>
  BY <1>3 DEF Removed, Begin, IInv, Weak, Shape, Fields
<1> HIDE DEF r
<1>5. /\ DOMAIN t = Fields
      /\ \A f \in Fields \ {"active", "data"} : t[f] = r[f]
      /\ t.active \in {r.active, None}
      /\ DOMAIN t.data \subseteq DOMAIN r.data
      /\ \A s \in DOMAIN t.data : t.data[s] = r.data[s]
  BY <1>3 DEF RemoveTransactionForWrite, Drop, Fields
<1> HIDE DEF t
<1>6. Shape(t) /\ t.out = <<>> /\ t.open = r.open
  BY <1>3, <1>4, <1>5 DEF Shape, Fields
<1>7. x = IF k = None THEN t ELSE EmitCompletion(t, {k}, error)
  BY <1>3, <1>6 DEF CompleteWriteError, CompleteError, CompleteAs, Shape
<1>8. Settling(x.out, reason)
  <2>1. Settling(t.out, reason)
    BY <1>6, EmptyBatch DEF Settling
  <2> HIDE DEF x
  <2>2. CASE k = None
    BY <1>7, <2>1, <2>2
  <2>3. CASE k # None
    BY <1>6, <1>7, <2>1, <2>3, CompletionSettles
  <2> QED
    BY <2>2, <2>3
<1> HIDE DEF x
<1>9. Settling(y.out, reason) /\ Weak(y)
  BY <1>2, <1>8, CompleteAllSettles, CompleteAllWeak DEF Weak
<1> HIDE DEF y
<1>10. DOMAIN z = Fields /\ z.out = y.out
  BY <1>9 DEF Weak, Shape, Fields
<1> HIDE DEF z
<1>11. a.act = "CloseGeneration" /\ a.reason = reason /\ a.barrier = None
  BY DEF CloseGeneration, Immediate
<1> HIDE DEF a
<1> QED
  BY <1>1, <1>9, <1>10, <1>11, EmitSettles

-----------------------------------------------------------------------------
(* A Driver between a batch and finish_close_if_ready.                     *)

\* The handler that began with p was given the Core of d; X are the writes whose
\* outcome it was told.
Loose(d, p, X) ==
  /\ IInv(d.core) /\ p.nextWrite = d.core.nextWrite /\ p.nextReply = d.core.nextReply
  /\ d.closing # None => p.closing
  /\ d.closed => d.closing # None /\ d.closing.barrier = None
  /\ \A k \in DOMAIN d.completions :
       k \in Commands /\ k < d.nextCommand /\ d.completions[k].kind \in CommandKinds
  /\ X \subseteq d.admitted /\ d.admitted \ X \subseteq p.pending /\ X \cap p.pending = {}

\* It was given a Core that agreed with the books.
Level(d, p, X) ==
  /\ Loose(d, p, X)
  /\ p.closing <=> d.closing # None
  /\ d.closing = None \/ d.closing.barrier # None \/ d.closed =>
       DOMAIN d.completions \subseteq DOMAIN p.open
  /\ d.closing = None => p.pending \subseteq d.admitted
  /\ d.closing # None /\ d.closing.barrier # None =>
       \/ d.closing.barrier \in X
       \/ /\ d.closing.barrier \in d.admitted /\ p.kinds[d.closing.barrier] = "Separate"
          /\ \A w \in d.admitted : w <= d.closing.barrier

\* Core and the books agree.  The completion table may hold more than Core only
\* while an immediate close is being applied.
Coherent(d, R, X, acc) ==
  /\ Formed(d) /\ IInv(d.core) /\ Traced(d.core)
  /\ d.closing \in {None} \cup Closings
  /\ d.core.closing <=> d.closing # None
  /\ d.closed => d.closing # None /\ d.closing.barrier = None
  /\ \A k \in DOMAIN d.completions :
       k \in Commands /\ k < d.nextCommand /\ d.completions[k].kind \in CommandKinds
  /\ \A k \in DOMAIN d.core.open :
       k \in DOMAIN d.completions /\ d.completions[k].kind = d.core.open[k]
  /\ d.closing = None \/ d.closing.barrier # None \/ d.closed =>
       DOMAIN d.completions \subseteq DOMAIN d.core.open
  /\ Line(d.writer.queue, R, d.admitted, d.writer.live) /\ Worker(d.writer)
  /\ \A w \in d.admitted : w \in Nat /\ w < d.core.nextWrite
  /\ X \subseteq d.admitted /\ d.admitted \ X \subseteq DOMAIN d.core.pending
  /\ X \cap DOMAIN d.core.pending = {}
  /\ d.closing = None => DOMAIN d.core.pending \subseteq d.admitted
  /\ d.closing # None /\ d.closing.barrier # None =>
       \/ d.closing.barrier \in X
       \/ /\ d.closing.barrier \in d.admitted
          /\ d.core.pending[d.closing.barrier].kind = "Separate"
          /\ \A w \in d.admitted : w <= d.closing.barrier
  /\ IsBatch(d.inbound) /\ Len(d.inbound) <= InboundCapacity
  /\ Owner(d, acc)

\* A close is kept with its reason, and a new one is for a reason of W or for want of
\* an identifier.
Keeps(d, e, W) ==
  /\ d.closing # None => e.closing # None /\ e.closing.reason = d.closing.reason
  /\ d.closed => e.closed
  /\ d.closing = None /\ e.closing # None =>
       \/ e.closing.reason \in W
       \/ e.closing.reason = "RuntimeInvariant" /\ Exhausted(e.core)
  /\ Exhausted(d.core) => Exhausted(e.core)

\* Every close of a batch is for a reason of W or for want of an identifier.
Reasoned(c, W) ==
  \A i \in DOMAIN c.out : c.out[i].act = "CloseGeneration" =>
    c.out[i].reason \in W \/ (c.out[i].reason = "RuntimeInvariant" /\ Exhausted(c))

\* Applying a batch leaves the queue and the Writer's state alone.
Untouched(d, e) ==
  /\ e.queue = d.queue /\ e.bytes = d.bytes /\ e.draining = d.draining
  /\ e.nextCommand = d.nextCommand /\ e.closed = d.closed /\ e.held = d.held
  /\ \A f \in WriterFields \ {"queue"} : e.writer[f] = d.writer[f]

\* An identifier space that has run out stays so.
LEMMA StaysExhausted ==
  ASSUME NEW b, NEW c, IInv(b), IInv(c), b.nextWrite <= c.nextWrite, b.nextReply <= c.nextReply,
         Exhausted(b)
  PROVE  Exhausted(c)
<1>1. /\ b.nextWrite \in Nat /\ c.nextWrite \in Nat /\ c.nextWrite <= WriteSpace
      /\ b.nextReply \in Nat /\ c.nextReply \in Nat /\ c.nextReply <= ReplySpace
      /\ WriteSpace \in Nat /\ ReplySpace \in Nat
  BY SpaceAssumption DEF IInv, Weak, Shape
<1> QED
  BY <1>1 DEF Exhausted

\* Applying a batch, cut or not, keeps the first close.
LEMMA BatchKeeps ==
  ASSUME NEW d, NEW c, NEW p, NEW permit, NEW written, NEW R, NEW acc, NEW state, NEW X, NEW W,
         Ready(d, c, p, permit, written, R, acc), Run(p, state, c), Reasoned(c, W),
         IInv(d.core), p.nextWrite = d.core.nextWrite, p.nextReply = d.core.nextReply
  PROVE  LET s == ApplyActionBatch(d, c, permit, written)
         IN  Keeps(d, s.d, W) /\ Untouched(d, s.d)
<1> DEFINE s == ApplyActionBatch(d, c, permit, written)
           n == Len(c.out)
<1>1. Applied(d, c, p, R, acc, s, n)
  BY AppliesBatch
<1> HIDE DEF s
<1>2. n \in Nat /\ DOMAIN c.out = 1..n
  BY BatchShape DEF Ready
<1>3. /\ s.d.core.nextWrite = c.nextWrite /\ s.d.core.nextReply = c.nextReply
      /\ IInv(s.d.core)
  <2>1. s.d.core = Begin(c) /\ IInv(c)
    BY <1>1 DEF Applied, Ready
  <2> QED
    BY <2>1, BeginIInv DEF Fields
<1>4. Exhausted(d.core) => Exhausted(s.d.core)
  <2>1. d.core.nextWrite <= s.d.core.nextWrite /\ d.core.nextReply <= s.d.core.nextReply
    BY <1>3 DEF Run, Log, Written, Posted, Granted
  <2> QED
    BY <1>3, <2>1, StaysExhausted
<1>5. Exhausted(c) => Exhausted(s.d.core)
  BY <1>3 DEF Exhausted
<1>6. s.d.closed = d.closed
  BY <1>1 DEF Applied
<1>7. d.closing # None => s.d.closing # None /\ s.d.closing.reason = d.closing.reason
  BY <1>1 DEF Applied, ClosingAt
<1>8. d.closing = None /\ s.d.closing # None =>
        s.d.closing.reason \in W \/ (s.d.closing.reason = "RuntimeInvariant" /\ Exhausted(c))
  BY <1>1, <1>2 DEF Applied, ClosingAt, Reasoned
<1>9. Untouched(d, s.d)
  BY <1>1 DEF Applied, Untouched
<1> QED
  BY <1>4, <1>5, <1>6, <1>7, <1>8, <1>9 DEF Keeps, s

\* The parts of a batch that hold whether it was cut or not.
Broken(d, R, X, acc) ==
  /\ Formed(d) /\ IInv(d.core) /\ Traced(d.core)
  /\ d.closing \in {None} \cup Closings
  /\ d.closing # None => d.core.closing
  /\ d.closed => d.closing # None /\ d.closing.barrier = None
  /\ \A k \in DOMAIN d.completions :
       k \in Commands /\ k < d.nextCommand /\ d.completions[k].kind \in CommandKinds
  /\ \A k \in DOMAIN d.core.open :
       k \in DOMAIN d.completions /\ d.completions[k].kind = d.core.open[k]
  /\ Line(d.writer.queue, R, d.admitted, d.writer.live) /\ Worker(d.writer)
  /\ \A w \in d.admitted : w \in Nat /\ w < d.core.nextWrite
  /\ X \subseteq d.admitted /\ d.admitted \ X \subseteq DOMAIN d.core.pending
  /\ X \cap DOMAIN d.core.pending = {}
  /\ IsBatch(d.inbound) /\ Len(d.inbound) <= InboundCapacity
  /\ Owner(d, acc)

\* A batch, cut or not, leaves these parts.
LEMMA BatchBreaks ==
  ASSUME NEW d, NEW c, NEW p, NEW permit, NEW written, NEW R, NEW acc, NEW state, NEW X,
         Ready(d, c, p, permit, written, R, acc), Run(p, state, c), Loose(d, p, X)
  PROVE  Broken(ApplyActionBatch(d, c, permit, written).d, R, X, acc)
<1> DEFINE s == ApplyActionBatch(d, c, permit, written)
           n == Len(c.out)
           b == Begin(c)
<1>1. Applied(d, c, p, R, acc, s, n)
  BY AppliesBatch
<1> HIDE DEF s
<1>2. n \in Nat /\ DOMAIN c.out = 1..n
  BY BatchShape DEF Ready
<1>3. /\ s.d.core = b /\ IInv(b) /\ \A f \in Fields \ {"out"} : b[f] = c[f]
  BY <1>1, BeginIInv DEF Applied, Ready
<1>4. /\ b.open = c.open /\ b.pending = c.pending /\ b.closing = c.closing
      /\ b.nextWrite = c.nextWrite /\ b.active = c.active /\ b.data = c.data
      /\ b.deferred = c.deferred
  BY <1>3 DEF Fields
<1> HIDE DEF b
<1>5. Traced(b)
  BY <1>4 DEF Run, Traced, UnresolvedCommands
<1>6. s.d.closing \in {None} \cup Closings
  BY <1>1 DEF Applied, ClosingAt
<1>7. s.d.closing # None => c.closing
  <2>1. CASE d.closing # None
    BY <2>1 DEF Loose, Run, Log, Quieted
  <2>2. CASE d.closing = None
    BY <1>1, <1>2, <2>2 DEF Applied, ClosingAt, Run, Log, Posted, Barred
  <2> QED
    BY <2>1, <2>2
<1>8. s.d.closed => s.d.closing # None /\ s.d.closing.barrier = None
  BY <1>1 DEF Applied, ClosingAt, Loose
<1>9. \A k \in DOMAIN s.d.completions :
        k \in Commands /\ k < s.d.nextCommand /\ s.d.completions[k].kind \in CommandKinds
  BY <1>1 DEF Applied, TableAt, Loose
<1>10. \A k \in DOMAIN c.open :
         k \in DOMAIN s.d.completions /\ s.d.completions[k].kind = c.open[k]
  <2> SUFFICES ASSUME NEW k \in DOMAIN c.open
               PROVE  k \in DOMAIN s.d.completions /\ s.d.completions[k].kind = c.open[k]
    OBVIOUS
  <2>1. k \in DOMAIN p.open /\ c.open[k] = p.open[k]
    BY DEF Run, Log, Opened
  <2>2. k \in DOMAIN d.completions /\ d.completions[k].kind = p.open[k]
    BY <2>1 DEF Ready
  <2>3. \A j \in 1..n : ~Completes(c.out[j], k)
    BY <1>2 DEF Run, Log, Answered, Completes
  <2> QED
    BY <1>1, <2>1, <2>2, <2>3 DEF Applied, TableAt
<1>11. Worker(s.d.writer) /\ Line(s.d.writer.queue, R, s.d.admitted, s.d.writer.live)
  <2>1. \A f \in WriterFields \ {"queue"} : s.d.writer[f] = d.writer[f]
    BY <1>1 DEF Applied
  <2>2. /\ s.d.writer.fault = d.writer.fault /\ s.d.writer.open = d.writer.open
        /\ s.d.writer.live = d.writer.live /\ s.d.writer.reports = d.writer.reports
    BY <2>1 DEF WriterFields
  <2>3. Line(s.d.writer.queue, R, s.d.admitted, d.writer.live)
        /\ (~d.writer.live => s.d.writer.queue = <<>>)
    BY <1>1 DEF Applied, FramesAt
  <2> QED
    BY <2>2, <2>3 DEF Ready, Worker
<1>12. \A j \in 1..n : c.out[j].act = "SendFrame" =>
         c.out[j].write \in DOMAIN c.pending /\ p.nextWrite <= c.out[j].write
  BY <1>2 DEF Run, Log, Posted, Framed, Written
<1>13. c.nextWrite \in Nat /\ p.nextWrite \in Nat /\ p.nextWrite <= c.nextWrite
       /\ \A w \in DOMAIN c.pending : w \in Nat /\ w < c.nextWrite
  BY SpaceAssumption DEF Ready, IInv, Weak, Shape, Linked, WriteIds, Run, Log, Written
<1>14. \A w \in s.d.admitted : w \in Nat /\ w < c.nextWrite
  <2> SUFFICES ASSUME NEW w \in s.d.admitted PROVE w \in Nat /\ w < c.nextWrite
    OBVIOUS
  <2>1. CASE w \in d.admitted
    BY <1>13, <2>1 DEF Ready
  <2>2. CASE w \notin d.admitted
    BY <1>1, <1>12, <1>13, <2>2 DEF Applied, FramesAt
  <2> QED
    BY <2>1, <2>2
<1>15. X \subseteq s.d.admitted /\ s.d.admitted \ X \subseteq DOMAIN c.pending
  <2>1. X \subseteq s.d.admitted
    BY <1>1 DEF Applied, FramesAt, Loose
  <2>2. p.pending \subseteq DOMAIN c.pending
    BY DEF Run, Log, Posted, Framed
  <2> QED
    BY <1>1, <1>12, <2>1, <2>2 DEF Applied, FramesAt, Loose
<1>16. X \cap DOMAIN c.pending = {}
  <2> SUFFICES ASSUME NEW w \in X, w \in DOMAIN c.pending PROVE FALSE
    OBVIOUS
  <2>1. w \in Nat /\ w < p.nextWrite /\ w \notin p.pending
    BY DEF Loose, Ready
  <2>2. PICK j \in DOMAIN c.out : c.out[j].act = "SendFrame" /\ c.out[j].write = w
    BY <2>1 DEF Run, Log, Written
  <2>3. p.nextWrite <= w
    BY <1>2, <1>12, <2>2
  <2> QED
    BY <1>13, <2>1, <2>3
<1>17. /\ Formed(s.d) /\ IsBatch(s.d.inbound) /\ Len(s.d.inbound) <= InboundCapacity
       /\ Owner(s.d, acc)
  BY <1>1 DEF Applied
<1> QED
  BY <1>3, <1>4, <1>5, <1>6, <1>7, <1>8, <1>9, <1>10, <1>11, <1>14, <1>15, <1>16, <1>17
  DEF Broken, s

\* A batch that was applied to its end leaves Core and the books in agreement.
LEMMA BatchCoheres ==
  ASSUME NEW d, NEW c, NEW p, NEW permit, NEW written, NEW R, NEW acc, NEW state, NEW X,
         Ready(d, c, p, permit, written, R, acc), Run(p, state, c), Level(d, p, X),
         ApplyActionBatch(d, c, permit, written).failure = None
  PROVE  Coherent(ApplyActionBatch(d, c, permit, written).d, R, X, acc)
<1> DEFINE s == ApplyActionBatch(d, c, permit, written)
           n == Len(c.out)
<1>1. Applied(d, c, p, R, acc, s, n)
  BY AppliesBatch
<1>a. Broken(s.d, R, X, acc)
  BY BatchBreaks DEF Level
<1> HIDE DEF s
<1>2. n \in Nat /\ DOMAIN c.out = 1..n
  BY BatchShape DEF Ready
<1>3. s.d.core.closing = c.closing /\ s.d.core.open = c.open /\ s.d.core.pending = c.pending
  BY <1>1, BeginIInv DEF Applied, Ready, Fields
<1>4. s.d.core.closing => s.d.closing # None
  <2>1. CASE d.closing # None
    BY <1>1, <2>1 DEF Applied, ClosingAt
  <2>2. CASE d.closing = None
    <3>1. c.closing => \E i \in DOMAIN c.out : c.out[i].act = "CloseGeneration"
      BY <2>2 DEF Level, Run, Log, Excused, Ready, IInv, Closed
    <3> QED
      BY <1>1, <1>2, <1>3, <3>1 DEF s, Applied, ClosingAt
  <2> QED
    BY <2>1, <2>2
<1>5. ASSUME s.d.closing = None \/ s.d.closing.barrier # None \/ s.d.closed
      PROVE  DOMAIN s.d.completions \subseteq DOMAIN c.open
  <2>1. d.closing = None \/ d.closing.barrier # None \/ d.closed
    BY <1>1, <1>5 DEF Applied, ClosingAt
  <2>2. DOMAIN d.completions \subseteq DOMAIN p.open
    BY <2>1 DEF Level
  <2> SUFFICES ASSUME NEW k \in DOMAIN s.d.completions, k \notin DOMAIN c.open PROVE FALSE
    OBVIOUS
  <2>3. k \in DOMAIN p.open
    BY <1>1, <2>2 DEF Applied, TableAt
  <2>4. PICK j \in DOMAIN c.out : Completes(c.out[j], k)
    BY <2>3 DEF Run, Log, Answered
  <2> QED
    BY <1>1, <1>2, <2>4 DEF s, Applied, TableAt, Completes
<1>6. s.d.closing = None => DOMAIN c.pending \subseteq s.d.admitted
  <2> SUFFICES ASSUME s.d.closing = None, NEW w \in DOMAIN c.pending PROVE w \in s.d.admitted
    OBVIOUS
  <2>1. d.closing = None
    BY <1>1 DEF Applied, ClosingAt
  <2>2. CASE w \in p.pending
    BY <1>1, <2>1, <2>2 DEF Level, Applied, FramesAt
  <2>3. CASE w \notin p.pending
    <3>1. PICK j \in DOMAIN c.out : c.out[j].act = "SendFrame" /\ c.out[j].write = w
      BY <2>3 DEF Run, Log, Written
    <3> QED
      BY <1>1, <1>2, <3>1 DEF s, Applied, FramesAt
  <2> QED
    BY <2>2, <2>3
<1>7. ASSUME s.d.closing # None, s.d.closing.barrier # None
      PROVE  \/ s.d.closing.barrier \in X
             \/ /\ s.d.closing.barrier \in s.d.admitted
                /\ c.pending[s.d.closing.barrier].kind = "Separate"
                /\ \A w \in s.d.admitted : w <= s.d.closing.barrier
  <2> DEFINE v == s.d.closing.barrier
  <2>1. CASE d.closing # None
    <3>1. v = d.closing.barrier /\ d.closing.barrier # None
      BY <1>1, <1>7, <2>1 DEF Applied, ClosingAt
    <3>2. s.d.admitted \subseteq d.admitted
      <4>1. \A j \in 1..n : c.out[j].act # "SendFrame"
        BY <1>2, <2>1 DEF Level, Run, Log, Quieted
      <4> QED
        BY <1>1, <4>1 DEF Applied, FramesAt
    <3>3. \/ v \in X
          \/ v \in d.admitted /\ p.kinds[v] = "Separate" /\ \A w \in d.admitted : w <= v
      BY <2>1, <3>1 DEF Level
    <3>4. v \in X \/ v \in p.pending
      BY <3>3 DEF Level, Loose
    <3>5. v \in p.pending => c.pending[v].kind = p.kinds[v]
      BY DEF Run, Log, Posted, Framed
    <3>6. d.admitted \subseteq s.d.admitted
      BY <1>1 DEF Applied, FramesAt
    <3> QED
      BY <3>2, <3>3, <3>4, <3>5, <3>6
  <2>2. CASE d.closing = None
    <3>1. PICK i \in DOMAIN c.out :
            c.out[i].act = "CloseGeneration" /\ v = c.out[i].barrier /\ v \in s.d.admitted
      BY <1>1, <1>2, <1>7, <2>2 DEF Applied, ClosingAt
    <3>2. /\ v \in DOMAIN c.pending /\ c.pending[v].kind = "Separate"
          /\ \A w \in DOMAIN c.pending : w <= v
          /\ \E j \in DOMAIN c.out : c.out[j].act = "SendFrame" /\ c.out[j].write = v
      BY <1>7, <3>1 DEF Run, Log, Posted, Barred
    <3>3. p.nextWrite <= v /\ v \in Nat /\ p.nextWrite \in Nat
      BY <3>2 DEF Run, Log, Written, Ready, IInv, Weak, Shape, WriteIds
    <3>4. ASSUME NEW w \in s.d.admitted PROVE w <= v
      <4>1. CASE w \in X
        <5>1. w \in Nat /\ w < p.nextWrite
          BY <4>1 DEF Level, Loose, Ready
        <5> QED
          BY <3>3, <5>1
      <4>2. CASE w \notin X
        BY <1>a, <1>3, <3>2, <4>2 DEF Broken
      <4> QED
        BY <4>1, <4>2
    <3> QED
      BY <3>1, <3>2, <3>4
  <2> QED
    BY <2>1, <2>2
<1> QED
  BY <1>a, <1>3, <1>4, <1>5, <1>6, <1>7 DEF Broken, Coherent, s

\* begin_closing without a barrier changes nothing but the close, and leaves none.
LEMMA ImmediateEffect ==
  ASSUME NEW d, NEW reason \in AllReasons, Formed(d), d.closing \in {None} \cup Closings
  PROVE  LET e == BeginClosing(d, reason, Immediate)
         IN  /\ DOMAIN e = DriverFields
             /\ \A f \in DriverFields \ {"closing"} : e[f] = d[f]
             /\ e.closing \in Closings /\ e.closing # None /\ e.closing.barrier = None
             /\ e.closing.reason = IF d.closing = None THEN reason ELSE d.closing.reason
<1> DEFINE x == d.closing
           y == IF x = None THEN [reason |-> reason, barrier |-> None] ELSE [x EXCEPT !.barrier = None]
           e == BeginClosing(d, reason, Immediate)
<1>1. /\ DOMAIN e = DriverFields /\ e.closing = y
      /\ \A f \in DriverFields \ {"closing"} : e[f] = d[f]
  BY DEF Formed, BeginClosing, Immediate, DriverFields
<1>2. y \in Closings /\ y.barrier = None /\ y.reason = IF x = None THEN reason ELSE x.reason
  BY DEF Closings
<1>3. y # None
  BY <1>2, RuntimeAssumption
<1> HIDE DEF e, y
<1> QED
  BY <1>1, <1>2, <1>3 DEF e

\* The parts of the books that closing does not touch.
LEMMA ImmediateOthers ==
  ASSUME NEW d, NEW e, DOMAIN e = DriverFields, \A f \in DriverFields \ {"closing"} : e[f] = d[f]
  PROVE  /\ e.core = d.core /\ e.completions = d.completions /\ e.nextCommand = d.nextCommand
         /\ e.admitted = d.admitted /\ e.writer = d.writer /\ e.closed = d.closed
         /\ e.inbound = d.inbound /\ e.queue = d.queue /\ e.answers = d.answers
         /\ e.bytes = d.bytes /\ e.held = d.held /\ e.draining = d.draining
  BY DEF DriverFields

\* An immediate close of a closing Core restores the agreement.
LEMMA ImmediateCoheres ==
  ASSUME NEW d, NEW R, NEW X, NEW acc, NEW reason \in AllReasons, Broken(d, R, X, acc),
         d.core.closing, d.closed => DOMAIN d.completions \subseteq DOMAIN d.core.open
  PROVE  Coherent(BeginClosing(d, reason, Immediate), R, X, acc)
<1> DEFINE e == BeginClosing(d, reason, Immediate)
<1>1. /\ DOMAIN e = DriverFields
      /\ \A f \in DriverFields \ {"closing"} : e[f] = d[f]
      /\ e.closing \in Closings /\ e.closing # None /\ e.closing.barrier = None
  BY ImmediateEffect DEF Broken
<1> HIDE DEF e
<1>2. /\ e.core = d.core /\ e.completions = d.completions /\ e.nextCommand = d.nextCommand
      /\ e.admitted = d.admitted /\ e.writer = d.writer /\ e.closed = d.closed
      /\ e.inbound = d.inbound /\ e.queue = d.queue /\ e.answers = d.answers
  BY <1>1, ImmediateOthers
<1>3. Owner(e, acc)
  BY <1>2, OwnerSame DEF Broken
<1> QED
  BY <1>1, <1>2, <1>3 DEF Broken, Coherent, Formed, e

\* Keeping the first close carries over two steps.
LEMMA KeepsTrans ==
  ASSUME NEW d, NEW e, NEW f, NEW W, Keeps(d, e, W), Keeps(e, f, W)
  PROVE  Keeps(d, f, W)
  BY DEF Keeps

\* So does leaving the queue and the Writer's state alone.
LEMMA UntouchedTrans ==
  ASSUME NEW d, NEW e, NEW f, Untouched(d, e), Untouched(e, f)
  PROVE  Untouched(d, f)
  BY DEF Untouched

\* What a batch of closing leaves: nothing is refused, and its closes are for reason.
LEMMA SettlingBatch ==
  ASSUME NEW d, NEW c, NEW p, NEW permit, NEW written, NEW R, NEW acc, NEW state, NEW X,
         NEW reason, Settling(c.out, reason),
         Ready(d, c, p, permit, written, R, acc), Run(p, state, c), Loose(d, p, X)
  PROVE  LET s == ApplyActionBatch(d, c, permit, written)
         IN  /\ s.failure = None /\ Broken(s.d, R, X, acc)
             /\ Keeps(d, s.d, {reason}) /\ Untouched(d, s.d) /\ s.d.core.closing = c.closing
<1> DEFINE s == ApplyActionBatch(d, c, permit, written)
<1>1. Applied(d, c, p, R, acc, s, Len(c.out))
  BY AppliesBatch
<1>2. s.failure = None
  BY <1>1 DEF Applied, FailureAt, Settling
<1>3. Broken(s.d, R, X, acc)
  BY BatchBreaks
<1>4. Reasoned(c, {reason})
  BY DEF Settling, Reasoned
<1>5. Keeps(d, s.d, {reason}) /\ Untouched(d, s.d)
  BY <1>4, BatchKeeps DEF Loose
<1>6. s.d.core.closing = c.closing
  BY <1>1, BeginIInv DEF Applied, Ready, Fields
<1> QED
  BY <1>2, <1>3, <1>5, <1>6

\* on_shutdown of Core may be applied.
LEMMA OnShutdownReady ==
  ASSUME NEW d, NEW R, NEW X, NEW acc, NEW reason \in AllReasons, NEW permit, NEW written,
         Broken(d, R, X, acc)
  PROVE  LET c == OnShutdown(d.core, reason)
             p == Caused(Snapshot(d.core, {}, UnresolvedCommands(d.core)), reason)
         IN  /\ Ready(d, c, p, permit, written, R, acc) /\ Run(p, d.core.state, c)
             /\ Loose(d, p, X) /\ Settling(c.out, reason) /\ c.closing
             /\ p.open = d.core.open /\ p.pending = DOMAIN d.core.pending
             /\ p.closing = d.core.closing
             /\ \A w \in DOMAIN d.core.pending : p.kinds[w] = d.core.pending[w].kind
<1> DEFINE c == OnShutdown(d.core, reason)
           p == Caused(Snapshot(d.core, {}, UnresolvedCommands(d.core)), reason)
<1>1. Run(p, d.core.state, c)
  BY RunOnShutdown DEF Broken
<1>2. IInv(c) /\ c.closing /\ Settling(c.out, reason)
  BY OnShutdownIInv, OnShutdownSettles, CloseAllIInv, BeginIInv DEF Broken, OnShutdown, IInv
<1>3. /\ p.open = d.core.open /\ p.nextWrite = d.core.nextWrite /\ p.nextReply = d.core.nextReply
      /\ p.pending = DOMAIN d.core.pending /\ p.closing = d.core.closing /\ p.told = {}
      /\ ~p.permit /\ p.cause = reason
      /\ p.kinds = [w \in DOMAIN d.core.pending |-> d.core.pending[w].kind]
  BY DEF Snapshot, Caused
<1> HIDE DEF p, c
<1>4. d.core.nextWrite \in Nat
  BY SpaceAssumption DEF Broken, IInv, Weak, Shape
<1>5. IsBatch(c.out)
  BY <1>1 DEF Run, Log
<1>6. Ready(d, c, p, permit, written, R, acc)
  BY <1>2, <1>3, <1>4, <1>5 DEF Ready, Broken
<1>7. Loose(d, p, X)
  BY <1>3 DEF Loose, Broken
<1> QED
  BY <1>1, <1>2, <1>3, <1>6, <1>7 DEF c, p

\* on_shutdown for a refused frame may be applied.
LEMMA OnAdmissionFailureReady ==
  ASSUME NEW d, NEW R, NEW X, NEW acc, NEW reason \in AllReasons, NEW permit, NEW written,
         Broken(d, R, X, acc), NEW w \in DOMAIN d.core.pending, w \notin d.admitted
  PROVE  LET c == OnAdmissionFailure(d.core, reason, w)
             p == Caused(Ending(d.core, w, RefusalError(reason)), reason)
         IN  /\ Ready(d, c, p, permit, written, R, acc) /\ Run(p, d.core.state, c)
             /\ Loose(d, p, X) /\ Settling(c.out, reason) /\ c.closing
<1> DEFINE b == d.core
           c == OnAdmissionFailure(b, reason, w)
           error == RefusalError(reason)
           r == Removed(b, w)
           p == Caused(Ending(b, w, error), reason)
<1>1. Run(p, b.state, c)
  BY RunOnAdmissionFailure DEF Broken
<1>2. IInv(c) /\ Settling(c.out, reason)
  BY OnAdmissionFailureIInv, OnAdmissionFailureSettles DEF Broken
<1>3. c.closing
  <2> DEFINE x == CompleteWriteError(RemoveTransactionForWrite(r, w, b.pending[w]), b.pending[w], error)
             y == CompleteAll(x, "ConnectionLost")
             z == [y EXCEPT !.closing = TRUE, !.closeIssued = TRUE]
  <2>1. c = Emit(z, CloseGeneration(reason, Immediate))
    BY DEF OnAdmissionFailure, Removed, RefusalError
  <2>2. Weak(x)
    BY FailedWriteWeak DEF Broken
  <2> HIDE DEF x
  <2>3. Weak(y)
    BY <2>2, CompleteAllWeak
  <2> HIDE DEF y
  <2>4. DOMAIN z = Fields /\ z.closing
    BY <2>3 DEF Weak, Shape, Fields
  <2> HIDE DEF z
  <2> QED
    BY <2>1, <2>4, EmitFields DEF Fields
<1>4. /\ r.open = b.open /\ r.nextWrite = b.nextWrite /\ r.nextReply = b.nextReply
      /\ r.closing = b.closing /\ DOMAIN r.pending = DOMAIN b.pending \ {w}
  BY RemovedEffect DEF Broken, Fields
<1> HIDE DEF r
<1>5. /\ p.open = r.open /\ p.nextWrite = r.nextWrite /\ p.nextReply = r.nextReply
      /\ p.pending = DOMAIN r.pending /\ p.closing = r.closing
      /\ p.told = {<<b.pending[w].command, error>>}
      /\ ~p.permit /\ p.cause = reason
  BY DEF Snapshot, Caused, Ending, r
<1>6. error # "Ok"
  BY DEF RefusalError
<1>7. d.core.nextWrite \in Nat
  BY SpaceAssumption DEF Broken, IInv, Weak, Shape
<1>8. IsBatch(c.out)
  BY <1>1 DEF Run, Log
<1> HIDE DEF p, c, error
<1>9. \A k : <<k, "Ok">> \notin p.told
  BY <1>5, <1>6
<1>10. Ready(d, c, p, permit, written, R, acc)
  BY <1>2, <1>4, <1>5, <1>7, <1>8, <1>9 DEF Ready, Broken
<1>11. Loose(d, p, X)
  BY <1>4, <1>5 DEF Loose, Broken
<1> QED
  BY <1>1, <1>2, <1>3, <1>10, <1>11 DEF c, p, error

\* The batch of on_shutdown.
LEMMA ShutdownBatch ==
  ASSUME NEW d, NEW R, NEW X, NEW acc, NEW reason \in AllReasons, NEW permit, NEW written,
         Broken(d, R, X, acc)
  PROVE  LET s == ApplyActionBatch(d, OnShutdown(d.core, reason), permit, written)
         IN  /\ s.failure = None /\ Broken(s.d, R, X, acc)
             /\ Keeps(d, s.d, {reason}) /\ Untouched(d, s.d) /\ s.d.core.closing
<1> DEFINE c == OnShutdown(d.core, reason)
           p == Caused(Snapshot(d.core, {}, UnresolvedCommands(d.core)), reason)
<1>1. /\ Ready(d, c, p, permit, written, R, acc) /\ Run(p, d.core.state, c)
      /\ Loose(d, p, X) /\ Settling(c.out, reason) /\ c.closing
  BY OnShutdownReady
<1>2. ApplyActionBatch(d, OnShutdown(d.core, reason), permit, written)
        = ApplyActionBatch(d, c, permit, written)
  OBVIOUS
<1> HIDE DEF c, p
<1> DEFINE s == ApplyActionBatch(d, c, permit, written)
<1>3. /\ s.failure = None /\ Broken(s.d, R, X, acc)
      /\ Keeps(d, s.d, {reason}) /\ Untouched(d, s.d) /\ s.d.core.closing = c.closing
  BY <1>1, SettlingBatch
<1> HIDE DEF s
<1> QED
  BY <1>1, <1>2, <1>3 DEF s

\* The batch of on_shutdown for a refused frame.
LEMMA RefusalBatch ==
  ASSUME NEW d, NEW R, NEW X, NEW acc, NEW reason \in AllReasons, NEW permit, NEW written,
         Broken(d, R, X, acc), NEW w \in DOMAIN d.core.pending, w \notin d.admitted
  PROVE  LET s == ApplyActionBatch(d, OnAdmissionFailure(d.core, reason, w), permit, written)
         IN  /\ s.failure = None /\ Broken(s.d, R, X, acc)
             /\ Keeps(d, s.d, {reason}) /\ Untouched(d, s.d) /\ s.d.core.closing
<1> DEFINE c == OnAdmissionFailure(d.core, reason, w)
           p == Caused(Ending(d.core, w, RefusalError(reason)), reason)
<1>1. /\ Ready(d, c, p, permit, written, R, acc) /\ Run(p, d.core.state, c)
      /\ Loose(d, p, X) /\ Settling(c.out, reason) /\ c.closing
  BY OnAdmissionFailureReady
<1>2. ApplyActionBatch(d, OnAdmissionFailure(d.core, reason, w), permit, written)
        = ApplyActionBatch(d, c, permit, written)
  OBVIOUS
<1> HIDE DEF c, p
<1> DEFINE s == ApplyActionBatch(d, c, permit, written)
<1>3. /\ s.failure = None /\ Broken(s.d, R, X, acc)
      /\ Keeps(d, s.d, {reason}) /\ Untouched(d, s.d) /\ s.d.core.closing = c.closing
  BY <1>1, SettlingBatch
<1> HIDE DEF s
<1> QED
  BY <1>1, <1>2, <1>3 DEF s

\* shutdown_after_driver_failure closes for the reason of the failure, unless the cut
\* batch had begun to close.
LEMMA FailureCoheres ==
  ASSUME NEW d, NEW R, NEW X, NEW acc, NEW reason \in AllReasons, NEW write,
         Broken(d, R, X, acc), ~d.closed,
         write # None => write \in DOMAIN d.core.pending /\ write \notin d.admitted
  PROVE  LET e == ShutdownAfterDriverFailure(d, reason, write)
         IN  /\ Coherent(e, R, X, acc) /\ Keeps(d, e, {reason}) /\ Untouched(d, e)
             /\ e.closing # None /\ e.closing.barrier = None
<1> DEFINE c == IF write = None THEN OnShutdown(d.core, reason)
                ELSE OnAdmissionFailure(d.core, reason, write)
           s == ApplyActionBatch(d, c, FALSE, None)
           e == ShutdownAfterDriverFailure(d, reason, write)
<1>1. /\ s.failure = None /\ Broken(s.d, R, X, acc)
      /\ Keeps(d, s.d, {reason}) /\ Untouched(d, s.d) /\ s.d.core.closing
  <2> DEFINE t == ApplyActionBatch(d, OnShutdown(d.core, reason), FALSE, None)
             u == ApplyActionBatch(d, OnAdmissionFailure(d.core, reason, write), FALSE, None)
  <2>1. CASE write = None
    <3>1. s = t
      BY <2>1
    <3>2. /\ t.failure = None /\ Broken(t.d, R, X, acc)
          /\ Keeps(d, t.d, {reason}) /\ Untouched(d, t.d) /\ t.d.core.closing
      BY ShutdownBatch
    <3> HIDE DEF s, t
    <3> QED
      BY <3>1, <3>2
  <2>2. CASE write # None
    <3>1. s = u
      BY <2>2
    <3>2. /\ u.failure = None /\ Broken(u.d, R, X, acc)
          /\ Keeps(d, u.d, {reason}) /\ Untouched(d, u.d) /\ u.d.core.closing
      BY <2>2, RefusalBatch
    <3> HIDE DEF s, u
    <3> QED
      BY <3>1, <3>2
  <2> QED
    BY <2>1, <2>2
<1>2. e = BeginClosing(s.d, reason, Immediate)
  BY <1>1 DEF ShutdownAfterDriverFailure, AfterShutdownBatch
<1> HIDE DEF e, s
<1>3. ~s.d.closed
  BY <1>1 DEF Untouched
<1>4. Coherent(e, R, X, acc)
  BY <1>1, <1>2, <1>3, ImmediateCoheres
<1>5. /\ DOMAIN e = DriverFields
      /\ \A f \in DriverFields \ {"closing"} : e[f] = s.d[f]
      /\ e.closing # None /\ e.closing.barrier = None
      /\ e.closing.reason = IF s.d.closing = None THEN reason ELSE s.d.closing.reason
  BY <1>1, <1>2, ImmediateEffect DEF Broken
<1>6. /\ e.core = s.d.core /\ e.closed = s.d.closed /\ e.queue = s.d.queue /\ e.bytes = s.d.bytes
      /\ e.draining = s.d.draining /\ e.nextCommand = s.d.nextCommand /\ e.held = s.d.held
      /\ e.writer = s.d.writer
  BY <1>5, ImmediateOthers
<1>7. Keeps(s.d, e, {reason})
  BY <1>5, <1>6 DEF Keeps
<1>8. Untouched(s.d, e)
  BY <1>6 DEF Untouched
<1> QED
  BY <1>1, <1>4, <1>5, <1>7, <1>8, KeepsTrans, UntouchedTrans DEF e

\* Reasons may be allowed for more.
LEMMA KeepsMore ==
  ASSUME NEW d, NEW e, NEW V, NEW W, Keeps(d, e, V), V \subseteq W
  PROVE  Keeps(d, e, W)
BY DEF Keeps

\* What a refused action closes a generation for.
RefusalReasons == {"ApplicationBackpressure", "TransportLost", "ControlBackpressure"}

\* W allows what a cut batch closes for: the cause that is insisted on, or the refusal.
Allows(first, W) == IF first = None THEN RefusalReasons \subseteq W ELSE first \in W

\* A cut batch is a failure that shutdown_after_driver_failure is ready for.
LEMMA CutBatch ==
  ASSUME NEW d, NEW c, NEW p, NEW permit, NEW written, NEW R, NEW acc, NEW state, NEW X,
         Ready(d, c, p, permit, written, R, acc), Run(p, state, c), Level(d, p, X),
         ApplyActionBatch(d, c, permit, written).failure # None
  PROVE  LET s == ApplyActionBatch(d, c, permit, written)
         IN  /\ s.failure.reason \in RefusalReasons /\ ~s.d.closed
             /\ s.failure.write # None =>
                  s.failure.write \in DOMAIN s.d.core.pending /\ s.failure.write \notin s.d.admitted
<1> DEFINE s == ApplyActionBatch(d, c, permit, written)
<1>1. Applied(d, c, p, R, acc, s, Len(c.out))
  BY AppliesBatch
<1>2. s.failure # None
  OBVIOUS
<1> HIDE DEF s
<1>3. /\ FailureAt(p, c, s) /\ s.d.closed = d.closed /\ s.d.core = Begin(c)
  BY <1>1 DEF Applied
<1>4. Begin(c).pending = c.pending
  BY DEF Ready, IInv, Weak, Shape, Fields, Begin
<1>5. /\ s.failure.reason \in RefusalReasons /\ ~p.closing
      /\ s.failure.write # None => s.failure.write \in DOMAIN c.pending /\ s.failure.write \notin s.d.admitted
  BY <1>2, <1>3 DEF FailureAt, RefusalReasons
<1>6. ~d.closed
  BY <1>5 DEF Level, Loose
<1> QED
  BY <1>3, <1>4, <1>5, <1>6 DEF s

\* apply_action_batch_with_failure: whatever becomes of the batch, Core and the books
\* agree afterwards, the first close is kept and a new one has a reason of W.
LEMMA BatchApplied ==
  ASSUME NEW d, NEW c, NEW p, NEW permit, NEW written, NEW R, NEW acc, NEW state, NEW X, NEW W,
         NEW first \in AllReasons \cup {None},
         Ready(d, c, p, permit, written, R, acc), Run(p, state, c), Level(d, p, X),
         Reasoned(c, W), Allows(first, W)
  PROVE  LET e == ApplyBatch(d, c, permit, written, first)
         IN  Coherent(e, R, X, acc) /\ Keeps(d, e, W) /\ Untouched(d, e)
<1> DEFINE s == ApplyActionBatch(d, c, permit, written)
           e == ApplyBatch(d, c, permit, written, first)
<1>1. e = HandleActionFailure(s, first)
  BY DEF ApplyBatch
<1>2. Keeps(d, s.d, W) /\ Untouched(d, s.d)
  BY BatchKeeps DEF Level, Loose
<1>3. CASE s.failure = None
  <2>1. Coherent(s.d, R, X, acc)
    BY <1>3, BatchCoheres
  <2>2. e = s.d
    BY <1>1, <1>3 DEF HandleActionFailure
  <2> HIDE DEF s, e
  <2> QED
    BY <1>2, <2>1, <2>2 DEF e
<1>4. CASE s.failure # None
  <2>1. Broken(s.d, R, X, acc)
    BY BatchBreaks DEF Level
  <2>2. /\ s.failure.reason \in RefusalReasons /\ ~s.d.closed
        /\ s.failure.write # None =>
             s.failure.write \in DOMAIN s.d.core.pending /\ s.failure.write \notin s.d.admitted
    BY <1>4, CutBatch
  <2> DEFINE reason == IF first = None THEN s.failure.reason ELSE first
             x == s.d
             write == s.failure.write
             f == ShutdownAfterDriverFailure(x, reason, write)
  <2>3. e = f
    BY <1>1, <1>4 DEF HandleActionFailure
  <2> HIDE DEF s, e
  <2>4. reason \in AllReasons /\ reason \in W
    BY <2>2 DEF AllReasons, GenerationReasons, RefusalReasons, Allows
  <2> HIDE DEF reason
  <2>5. /\ Coherent(f, R, X, acc) /\ Keeps(x, f, {reason}) /\ Untouched(x, f)
    BY <2>1, <2>2, <2>4, FailureCoheres
  <2> HIDE DEF f
  <2>6. Keeps(x, f, W)
    BY <2>4, <2>5, KeepsMore
  <2> QED
    BY <1>2, <2>3, <2>5, <2>6, KeepsTrans, UntouchedTrans DEF e
<1> QED
  BY <1>3, <1>4

-----------------------------------------------------------------------------
(* The queue of accepted commands and its byte budget.                     *)

\* A queue whose charges are counted.
Chargeable(q) == IsBatch(q) /\ \A i \in DOMAIN q : q[i].charge \in Nat

\* The partial sums of the charges.
LEMMA ChargesTrace ==
  ASSUME NEW q, Len(q) \in Nat
  PROVE  \E f : /\ f[0] = 0
                /\ \A i \in 1..Len(q) : f[i] = f[i - 1] + q[i].charge
                /\ Charges(q) = f[Len(q)]
<1> DEFINE n == Len(q)
           Trace(m, g) == g = [i \in 0..m |-> IF i = 0 THEN 0 ELSE g[i - 1] + q[i].charge]
           S == {m \in Nat : \E g : Trace(m, g)}
<1>1. 0 \in S
  <2>1. Trace(0, [i \in 0..0 |-> 0])
    OBVIOUS
  <2> QED
    BY <2>1
<1>2. ASSUME NEW m \in Nat, m \in S PROVE m + 1 \in S
  <2>1. PICK g : Trace(m, g)
    BY <1>2
  <2> DEFINE h == [i \in 0..(m + 1) |-> IF i = m + 1 THEN g[m] + q[m + 1].charge ELSE g[i]]
  <2>2. ASSUME NEW i \in 0..(m + 1)
        PROVE  h[i] = IF i = 0 THEN 0 ELSE h[i - 1] + q[i].charge
    <3>1. CASE i = m + 1
      <4>1. i # 0 /\ i - 1 = m /\ m \in 0..(m + 1) /\ m # m + 1
        BY <3>1
      <4>2. h[m] = g[m] /\ h[i] = g[m] + q[m + 1].charge
        BY <3>1, <4>1
      <4> QED
        BY <3>1, <4>1, <4>2
    <3>2. CASE i # m + 1
      <4>1. i \in 0..m /\ h[i] = g[i]
        BY <3>2
      <4>2. g[i] = IF i = 0 THEN 0 ELSE g[i - 1] + q[i].charge
        BY <2>1, <4>1
      <4>3. i # 0 => i - 1 \in 0..(m + 1) /\ i - 1 # m + 1
        BY <4>1
      <4>4. i # 0 => h[i - 1] = g[i - 1]
        BY <4>3
      <4> QED
        BY <4>1, <4>2, <4>4
    <3> QED
      BY <3>1, <3>2
  <2>3. h = [i \in 0..(m + 1) |-> h[i]]
    OBVIOUS
  <2> HIDE DEF h
  <2>4. h = [i \in 0..(m + 1) |-> IF i = 0 THEN 0 ELSE h[i - 1] + q[i].charge]
    BY <2>2, <2>3
  <2> QED
    BY <2>4
<1> HIDE DEF S
<1>3. n \in S
  BY <1>1, <1>2, SetInduction
<1>4. PICK f : f = [i \in 0..n |-> IF i = 0 THEN 0 ELSE f[i - 1] + q[i].charge]
  BY <1>3 DEF S
<1> DEFINE sum == CHOOSE g : g = [i \in 0..n |-> IF i = 0 THEN 0 ELSE g[i - 1] + q[i].charge]
<1>5. sum = [i \in 0..n |-> IF i = 0 THEN 0 ELSE sum[i - 1] + q[i].charge]
  BY <1>4
<1>6. Charges(q) = sum[n]
  BY DEF Charges
<1> HIDE DEF sum
<1>7. sum[0] = 0 /\ \A i \in 1..n : sum[i] = sum[i - 1] + q[i].charge
  <2>1. 0 \in 0..n /\ \A i \in 1..n : i \in 0..n /\ i # 0
    OBVIOUS
  <2> QED
    BY <1>5, <2>1
<1> QED
  BY <1>6, <1>7

\* They are natural numbers.
LEMMA ChargesCount ==
  ASSUME NEW q, Chargeable(q)
  PROVE  \E f : /\ f[0] = 0
                /\ \A i \in 1..Len(q) : f[i] = f[i - 1] + q[i].charge
                /\ Charges(q) = f[Len(q)]
                /\ \A i \in 0..Len(q) : f[i] \in Nat
<1>1. Len(q) \in Nat /\ DOMAIN q = 1..Len(q)
  BY BatchShape DEF Chargeable
<1>2. PICK f : /\ f[0] = 0
               /\ \A i \in 1..Len(q) : f[i] = f[i - 1] + q[i].charge
               /\ Charges(q) = f[Len(q)]
  BY <1>1, ChargesTrace
<1> DEFINE n == Len(q)
           S == {i \in 0..n : f[i] \in Nat}
<1>3. 0 \in S
  BY <1>1, <1>2
<1>4. ASSUME NEW i \in 0..(n - 1), i \in S PROVE i + 1 \in S
  <2>1. i + 1 \in 1..n /\ (i + 1) - 1 = i /\ i + 1 \in 0..n
    BY <1>1
  <2>2. f[i + 1] = f[i] + q[i + 1].charge
    BY <1>2, <2>1
  <2>3. q[i + 1].charge \in Nat /\ f[i] \in Nat
    BY <1>1, <1>4, <2>1 DEF Chargeable
  <2> QED
    BY <2>1, <2>2, <2>3
<1>5. \A i \in 0..(n - 1) : i \in S => i + 1 \in S
  BY <1>4
<1>6. n \in Nat
  BY <1>1
<1> HIDE DEF S, n
<1>7. \A i \in 0..n : i \in S
  BY <1>3, <1>5, <1>6, BoundedInduction
<1> QED
  BY <1>2, <1>7 DEF S, n

\* An empty queue is charged nothing.
LEMMA ChargesEmpty == Charges(<<>>) = 0
<1>1. Chargeable(<<>>)
  BY EmptyBatch DEF Chargeable
<1>2. PICK f : f[0] = 0 /\ Charges(<<>>) = f[Len(<<>>)]
  BY <1>1, ChargesCount
<1> QED
  BY <1>2, EmptyBatch

\* An accepted command adds its charge.
LEMMA ChargesAppended ==
  ASSUME NEW q, NEW e, Chargeable(q), e.charge \in Nat
  PROVE  /\ Chargeable(Append(q, e))
         /\ Charges(q) \in Nat /\ Charges(Append(q, e)) = Charges(q) + e.charge
<1> DEFINE n == Len(q)
           r == Append(q, e)
<1>1. n \in Nat /\ DOMAIN q = 1..n
  BY BatchShape DEF Chargeable
<1>2. /\ IsBatch(r) /\ Len(r) = n + 1 /\ r[n + 1] = e
      /\ DOMAIN r = DOMAIN q \cup {n + 1} /\ \A i \in DOMAIN q : r[i] = q[i]
  BY AppendedBatch DEF Chargeable
<1>3. Chargeable(r)
  <2>1. ASSUME NEW i \in DOMAIN r PROVE r[i].charge \in Nat
    BY <1>2 DEF Chargeable
  <2> QED
    BY <1>2, <2>1 DEF Chargeable
<1>4. PICK f : /\ f[0] = 0 /\ \A i \in 1..Len(q) : f[i] = f[i - 1] + q[i].charge
               /\ Charges(q) = f[Len(q)] /\ \A i \in 0..Len(q) : f[i] \in Nat
  BY ChargesCount
<1>5. PICK g : /\ g[0] = 0 /\ \A i \in 1..Len(r) : g[i] = g[i - 1] + r[i].charge
               /\ Charges(r) = g[Len(r)] /\ \A i \in 0..Len(r) : g[i] \in Nat
  BY <1>3, ChargesCount
<1> HIDE DEF r
<1> DEFINE S == {i \in 0..n : f[i] = g[i]}
<1>6. 0 \in S
  BY <1>1, <1>4, <1>5
<1>7. ASSUME NEW i \in 0..(n - 1), i \in S PROVE i + 1 \in S
  <2>1. /\ i + 1 \in 1..n /\ (i + 1) - 1 = i /\ i + 1 \in 0..n /\ i + 1 \in 1..(n + 1)
    BY <1>1
  <2>2. f[i + 1] = f[i] + q[i + 1].charge /\ g[i + 1] = g[i] + r[i + 1].charge
    BY <1>2, <1>4, <1>5, <2>1
  <2>3. r[i + 1] = q[i + 1] /\ f[i] = g[i]
    BY <1>1, <1>2, <1>7, <2>1
  <2> QED
    BY <2>1, <2>2, <2>3
<1>8. \A i \in 0..(n - 1) : i \in S => i + 1 \in S
  BY <1>7
<1> HIDE DEF S
<1>9. \A i \in 0..n : i \in S
  BY <1>1, <1>6, <1>8, BoundedInduction
<1>10. f[n] = g[n] /\ f[n] \in Nat
  BY <1>1, <1>4, <1>9 DEF S
<1>11. g[n + 1] = g[n] + e.charge
  <2>1. n + 1 \in 1..(n + 1) /\ (n + 1) - 1 = n
    BY <1>1
  <2> QED
    BY <1>2, <1>5, <2>1
<1> QED
  BY <1>2, <1>3, <1>4, <1>5, <1>10, <1>11 DEF r

\* A command that leaves the head of the queue returns its charge.
LEMMA ChargesRest ==
  ASSUME NEW q, Chargeable(q), q # <<>>
  PROVE  /\ Chargeable(Tail(q)) /\ Head(q).charge \in Nat
         /\ Charges(q) \in Nat /\ Charges(Tail(q)) \in Nat
         /\ Charges(Tail(q)) = Charges(q) - Head(q).charge
<1> DEFINE n == Len(q)
           r == Tail(q)
<1>1. n \in Nat /\ DOMAIN q = 1..n
  BY BatchShape DEF Chargeable
<1>2. /\ IsBatch(r) /\ 1 \in DOMAIN q /\ Head(q) = q[1] /\ Len(r) = n - 1
      /\ \A i \in DOMAIN r : i \in Nat /\ i + 1 \in DOMAIN q /\ r[i] = q[i + 1]
  BY RestOfBatch DEF Chargeable
<1> HIDE DEF r
<1>3. Chargeable(r)
  BY <1>2 DEF Chargeable
<1>4. PICK f : /\ f[0] = 0 /\ \A i \in 1..Len(q) : f[i] = f[i - 1] + q[i].charge
               /\ Charges(q) = f[Len(q)] /\ \A i \in 0..Len(q) : f[i] \in Nat
  BY ChargesCount
<1>5. PICK g : /\ g[0] = 0 /\ \A i \in 1..Len(r) : g[i] = g[i - 1] + r[i].charge
               /\ Charges(r) = g[Len(r)] /\ \A i \in 0..Len(r) : g[i] \in Nat
  BY <1>3, ChargesCount
<1> DEFINE x == q[1].charge
<1>6. x \in Nat /\ n >= 1
  BY <1>1, <1>2 DEF Chargeable
<1>7. f[1] = x
  <2>1. 1 \in 1..n /\ 1 - 1 = 0
    BY <1>1, <1>6
  <2>2. f[1] = f[0] + x
    BY <1>4, <2>1
  <2> QED
    BY <1>4, <1>6, <2>2
<1> HIDE DEF x
<1> DEFINE S == {i \in 0..(n - 1) : f[i + 1] = g[i] + x}
<1>8. 0 \in S
  <2>1. f[0 + 1] = g[0] + x
    BY <1>5, <1>6, <1>7
  <2> QED
    BY <1>1, <1>6, <2>1
<1>9. ASSUME NEW i \in 0..((n - 1) - 1), i \in S PROVE i + 1 \in S
  <2>1. /\ i + 1 \in 1..Len(r) /\ (i + 1) - 1 = i /\ i + 1 \in 0..(n - 1) /\ i \in 0..Len(r)
        /\ i + 2 \in 1..n /\ (i + 2) - 1 = i + 1 /\ (i + 1) + 1 = i + 2
    BY <1>1, <1>2
  <2>2. f[i + 2] = f[i + 1] + q[i + 2].charge /\ g[i + 1] = g[i] + r[i + 1].charge
    BY <1>4, <1>5, <2>1
  <2>3. i + 1 \in DOMAIN r
    BY <1>2, <2>1, BatchShape
  <2>4. r[i + 1] = q[i + 2] /\ r[i + 1].charge \in Nat
    BY <1>2, <1>3, <2>1, <2>3 DEF Chargeable
  <2>5. g[i] \in Nat /\ f[i + 1] = g[i] + x
    BY <1>5, <1>9, <2>1
  <2>6. f[i + 2] = g[i + 1] + x
    BY <1>6, <2>2, <2>4, <2>5
  <2> QED
    BY <2>1, <2>6
<1>10. \A i \in 0..((n - 1) - 1) : i \in S => i + 1 \in S
  BY <1>9
<1>11. n - 1 \in Nat
  BY <1>1, <1>6
<1> HIDE DEF S
<1>12. \A i \in 0..(n - 1) : i \in S
  BY <1>8, <1>10, <1>11, BoundedInduction
<1>13. f[(n - 1) + 1] = g[n - 1] + x
  BY <1>11, <1>12 DEF S
<1>14. (n - 1) + 1 = n
  BY <1>1
<1>15. f[n] \in Nat /\ g[n - 1] \in Nat
  BY <1>1, <1>2, <1>4, <1>5, <1>11
<1> QED
  BY <1>2, <1>3, <1>4, <1>5, <1>6, <1>13, <1>14, <1>15 DEF x, r

\* The places in the queue without its head.
LEMMA TailPlaces ==
  ASSUME NEW d, NEW e, NEW op, IsBatch(d.queue), d.queue # <<>>, e.queue = Tail(d.queue)
  PROVE  /\ Head(d.queue).op = op => 1 \in QueuePlaces(d, op)
         /\ QueuePlaces(d, op) = {} => QueuePlaces(e, op) = {}
         /\ \A i : QueuePlaces(d, op) = {i} =>
              QueuePlaces(e, op) = IF Head(d.queue).op = op THEN {} ELSE {i - 1}
<1> DEFINE q == d.queue
           r == e.queue
<1>1. /\ IsBatch(r) /\ 1 \in DOMAIN q /\ Head(q) = q[1]
      /\ \A i \in DOMAIN r : i \in Nat /\ i + 1 \in DOMAIN q /\ r[i] = q[i + 1]
      /\ \A i \in DOMAIN q : i # 1 => i - 1 \in DOMAIN r
  BY RestOfBatch
<1>2. DOMAIN q \subseteq Nat /\ DOMAIN r \subseteq Nat /\ 0 \notin DOMAIN r
  BY <1>1, BatchShape
<1>3. QueuePlaces(d, op) = {i \in DOMAIN q : q[i].op = op}
      /\ QueuePlaces(e, op) = {i \in DOMAIN r : r[i].op = op}
  BY DEF QueuePlaces
<1> HIDE DEF q, r
<1>4. Head(q).op = op => 1 \in QueuePlaces(d, op)
  BY <1>1, <1>3
<1>5. \A j \in QueuePlaces(e, op) : j + 1 \in QueuePlaces(d, op) /\ j + 1 # 1 /\ j \in Nat
  BY <1>1, <1>2, <1>3
<1>6. \A i \in QueuePlaces(d, op) : i # 1 => i - 1 \in QueuePlaces(e, op)
  <2> SUFFICES ASSUME NEW i \in QueuePlaces(d, op), i # 1 PROVE i - 1 \in QueuePlaces(e, op)
    OBVIOUS
  <2>1. i - 1 \in DOMAIN r /\ i \in Nat
    BY <1>1, <1>2, <1>3
  <2>2. (i - 1) + 1 = i
    BY <2>1
  <2>3. r[i - 1] = q[i]
    BY <1>1, <2>1, <2>2
  <2> QED
    BY <1>3, <2>1, <2>3
<1>7. ASSUME NEW i, QueuePlaces(d, op) = {i}
      PROVE  QueuePlaces(e, op) = IF Head(q).op = op THEN {} ELSE {i - 1}
  <2>1. i \in Nat
    BY <1>2, <1>3, <1>7
  <2>2. \A j \in QueuePlaces(e, op) : j + 1 = i /\ j \in Nat
    BY <1>5, <1>7
  <2>3. CASE Head(q).op = op
    <3>1. i = 1
      BY <1>4, <1>7, <2>3
    <3> QED
      BY <1>5, <1>7, <2>3, <3>1
  <2>4. CASE Head(q).op # op
    <3>1. i # 1
      BY <1>1, <1>3, <1>7, <2>4
    <3>2. i - 1 \in QueuePlaces(e, op)
      BY <1>6, <1>7, <3>1
    <3>3. \A j \in QueuePlaces(e, op) : j = i - 1
      BY <2>1, <2>2
    <3> QED
      BY <2>4, <3>2, <3>3
  <2> QED
    BY <2>3, <2>4
<1> QED
  BY <1>4, <1>5, <1>7 DEF q

\* The head of the queue is answered.
LEMMA OwnerAnswersHead ==
  ASSUME NEW d, NEW e, NEW acc, NEW error, Owner(d, acc), IsBatch(d.queue), d.queue # <<>>,
         e.queue = Tail(d.queue), e.completions = d.completions,
         DOMAIN e.answers = Operations,
         \A op \in Operations : e.answers[op] = IF op = Head(d.queue).op
                                                THEN Append(d.answers[op], error) ELSE d.answers[op]
  PROVE  Owner(e, acc)
<1>1. \A op : TablePlaces(e, op) = TablePlaces(d, op)
  BY DEF TablePlaces
<1>2. ASSUME NEW op \in Operations
      PROVE  \/ /\ op \notin acc.seen /\ op \notin acc.done /\ e.answers[op] = <<>>
                /\ QueuePlaces(e, op) = {} /\ TablePlaces(e, op) = {}
             \/ /\ op \in acc.seen /\ op \notin acc.done /\ e.answers[op] = <<>>
                /\ \E i : QueuePlaces(e, op) = {i} /\ TablePlaces(e, op) = {}
             \/ /\ op \in acc.seen /\ op \notin acc.done /\ e.answers[op] = <<>>
                /\ \E k : QueuePlaces(e, op) = {} /\ TablePlaces(e, op) = {k}
             \/ /\ op \in acc.seen /\ \E r : e.answers[op] = <<r>>
                /\ QueuePlaces(e, op) = {} /\ TablePlaces(e, op) = {}
  <2>0. /\ Head(d.queue).op = op => 1 \in QueuePlaces(d, op)
        /\ QueuePlaces(d, op) = {} => QueuePlaces(e, op) = {}
        /\ \A i : QueuePlaces(d, op) = {i} =>
             QueuePlaces(e, op) = IF Head(d.queue).op = op THEN {} ELSE {i - 1}
    BY TailPlaces
  <2>1. CASE op = Head(d.queue).op
    <3>1. /\ op \in acc.seen /\ d.answers[op] = <<>>
          /\ \E i : QueuePlaces(d, op) = {i} /\ TablePlaces(d, op) = {}
      BY <2>0, <2>1 DEF Owner
    <3>2. e.answers[op] = Append(d.answers[op], error)
      BY <2>1
    <3>3. e.answers[op] = <<error>>
      BY <3>1, <3>2
    <3>4. QueuePlaces(e, op) = {} /\ TablePlaces(e, op) = {}
      BY <1>1, <2>0, <2>1, <3>1
    <3> QED
      BY <3>1, <3>3, <3>4
  <2>2. CASE op # Head(d.queue).op
    <3>1. e.answers[op] = d.answers[op]
      BY <2>2
    <3>2. /\ QueuePlaces(d, op) = {} => QueuePlaces(e, op) = {}
          /\ \A i : QueuePlaces(d, op) = {i} => QueuePlaces(e, op) = {i - 1}
      BY <2>0, <2>2
    <3>3. \/ /\ op \notin acc.seen /\ op \notin acc.done /\ d.answers[op] = <<>>
             /\ QueuePlaces(d, op) = {} /\ TablePlaces(d, op) = {}
          \/ /\ op \in acc.seen /\ op \notin acc.done /\ d.answers[op] = <<>>
             /\ \E i : QueuePlaces(d, op) = {i} /\ TablePlaces(d, op) = {}
          \/ /\ op \in acc.seen /\ op \notin acc.done /\ d.answers[op] = <<>>
             /\ \E k : QueuePlaces(d, op) = {} /\ TablePlaces(d, op) = {k}
          \/ /\ op \in acc.seen /\ \E z : d.answers[op] = <<z>>
             /\ QueuePlaces(d, op) = {} /\ TablePlaces(d, op) = {}
      BY DEF Owner
    <3>4. TablePlaces(e, op) = TablePlaces(d, op)
      BY <1>1
    <3> QED
      BY ONLY <3>1, <3>2, <3>3, <3>4
  <2> QED
    BY <2>1, <2>2
<1>3. DOMAIN e.answers = Operations
  OBVIOUS
<1> QED
  BY <1>2, <1>3 DEF Owner

\* The head of the queue becomes an entry of the completion table.
LEMMA OwnerPresentsHead ==
  ASSUME NEW d, NEW e, NEW acc, NEW k, NEW kind, Owner(d, acc), IsBatch(d.queue), d.queue # <<>>,
         k \notin DOMAIN d.completions,
         e.queue = Tail(d.queue), e.answers = d.answers,
         e.completions = Put(d.completions, k, [op |-> Head(d.queue).op, kind |-> kind])
  PROVE  Owner(e, acc)
<1>1. \A op : TablePlaces(e, op) =
                IF op = Head(d.queue).op THEN TablePlaces(d, op) \cup {k} ELSE TablePlaces(d, op)
  BY DEF TablePlaces, Put
<1>2. ASSUME NEW op \in Operations
      PROVE  \/ /\ op \notin acc.seen /\ op \notin acc.done /\ e.answers[op] = <<>>
                /\ QueuePlaces(e, op) = {} /\ TablePlaces(e, op) = {}
             \/ /\ op \in acc.seen /\ op \notin acc.done /\ e.answers[op] = <<>>
                /\ \E i : QueuePlaces(e, op) = {i} /\ TablePlaces(e, op) = {}
             \/ /\ op \in acc.seen /\ op \notin acc.done /\ e.answers[op] = <<>>
                /\ \E j : QueuePlaces(e, op) = {} /\ TablePlaces(e, op) = {j}
             \/ /\ op \in acc.seen /\ \E r : e.answers[op] = <<r>>
                /\ QueuePlaces(e, op) = {} /\ TablePlaces(e, op) = {}
  <2>0. /\ Head(d.queue).op = op => 1 \in QueuePlaces(d, op)
        /\ QueuePlaces(d, op) = {} => QueuePlaces(e, op) = {}
        /\ \A i : QueuePlaces(d, op) = {i} =>
             QueuePlaces(e, op) = IF Head(d.queue).op = op THEN {} ELSE {i - 1}
    BY TailPlaces
  <2>1. CASE op = Head(d.queue).op
    <3>1. /\ op \in acc.seen /\ op \notin acc.done /\ d.answers[op] = <<>>
          /\ \E i : QueuePlaces(d, op) = {i} /\ TablePlaces(d, op) = {}
      BY <2>0, <2>1 DEF Owner
    <3>2. QueuePlaces(e, op) = {} /\ TablePlaces(e, op) = {k}
      BY <1>1, <2>0, <2>1, <3>1
    <3> QED
      BY <3>1, <3>2
  <2>2. CASE op # Head(d.queue).op
    <3>2. /\ QueuePlaces(d, op) = {} => QueuePlaces(e, op) = {}
          /\ \A i : QueuePlaces(d, op) = {i} => QueuePlaces(e, op) = {i - 1}
          /\ TablePlaces(e, op) = TablePlaces(d, op)
      BY <1>1, <2>0, <2>2
    <3> QED
      BY <3>2 DEF Owner
  <2> QED
    BY <2>1, <2>2
<1>3. DOMAIN e.answers = Operations
  BY DEF Owner
<1> QED
  BY <1>2, <1>3 DEF Owner

\* An accepted command waits at the end of the queue.
LEMMA OwnerEnqueues ==
  ASSUME NEW d, NEW e, NEW acc, NEW next, NEW x, Owner(d, acc), IsBatch(d.queue),
         e.queue = Append(d.queue, x), e.answers = d.answers, e.completions = d.completions,
         next.done = acc.done, next.seen \cap Operations = (acc.seen \cup {x.op}) \cap Operations,
         x.op \notin acc.seen
  PROVE  Owner(e, next)
<1>1. \A op : TablePlaces(e, op) = TablePlaces(d, op)
  BY DEF TablePlaces
<1>2. \A op : QueuePlaces(e, op) = IF op = x.op THEN QueuePlaces(d, op) \cup {Len(d.queue) + 1}
                                   ELSE QueuePlaces(d, op)
  BY AppendedBatch DEF QueuePlaces
<1>3. ASSUME NEW op \in Operations
      PROVE  \/ /\ op \notin next.seen /\ op \notin next.done /\ e.answers[op] = <<>>
                /\ QueuePlaces(e, op) = {} /\ TablePlaces(e, op) = {}
             \/ /\ op \in next.seen /\ op \notin next.done /\ e.answers[op] = <<>>
                /\ \E i : QueuePlaces(e, op) = {i} /\ TablePlaces(e, op) = {}
             \/ /\ op \in next.seen /\ op \notin next.done /\ e.answers[op] = <<>>
                /\ \E j : QueuePlaces(e, op) = {} /\ TablePlaces(e, op) = {j}
             \/ /\ op \in next.seen /\ \E r : e.answers[op] = <<r>>
                /\ QueuePlaces(e, op) = {} /\ TablePlaces(e, op) = {}
  <2>1. CASE op = x.op
    <3>1. op \in next.seen /\ op \notin acc.seen
      BY <2>1
    <3>2. QueuePlaces(e, op) = {Len(d.queue) + 1} /\ TablePlaces(e, op) = {}
          /\ e.answers[op] = <<>> /\ op \notin next.done
      BY <1>1, <1>2, <2>1, <3>1 DEF Owner
    <3> QED
      BY <3>1, <3>2
  <2>2. CASE op # x.op
    <3>1. /\ op \in next.seen <=> op \in acc.seen
          /\ QueuePlaces(e, op) = QueuePlaces(d, op) /\ TablePlaces(e, op) = TablePlaces(d, op)
      BY <1>1, <1>2, <2>2
    <3> QED
      BY <3>1 DEF Owner
  <2> QED
    BY <2>1, <2>2
<1>4. DOMAIN e.answers = Operations
  BY DEF Owner
<1> QED
  BY <1>3, <1>4 DEF Owner

\* What a round knows of the queue: its capacity, its budget, and that it is empty
\* once the transport is closed.
Books(d) ==
  /\ Chargeable(d.queue) /\ Len(d.queue) <= CommandCapacity
  /\ \A i \in DOMAIN d.queue : d.queue[i].kind \in CommandNames \cup {"Reply"}
  /\ d.bytes = Charges(d.queue) /\ d.bytes <= CommandBytes
  /\ d.nextCommand \in 0..CommandSpace
  /\ d.closed => d.queue = <<>>
  /\ d.closed \in BOOLEAN /\ d.draining \in BOOLEAN

\* rejected answers one operation, and returns the token of a reply.
LEMMA RejectedEffect ==
  ASSUME NEW d, NEW x, NEW error, DOMAIN d = DriverFields
  PROVE  LET e == Rejected(d, x, error)
         IN  /\ DOMAIN e = DriverFields
             /\ \A f \in DriverFields \ {"answers", "held"} : e[f] = d[f]
             /\ DOMAIN e.answers = Operations
             /\ \A op \in Operations :
                  e.answers[op] = IF op = x.op THEN Append(d.answers[op], error) ELSE d.answers[op]
             /\ e.held = IF IsReply(x) THEN d.held \cup {x.token} ELSE d.held
BY DEF Rejected, Answer, DriverFields

\* The head of the queue is taken and answered.
LEMMA RejectHeadEffect ==
  ASSUME NEW d, DOMAIN d = DriverFields
  PROVE  LET e == RejectHead(d)
         IN  /\ DOMAIN e = DriverFields
             /\ \A f \in DriverFields \ {"answers", "held", "queue", "bytes"} : e[f] = d[f]
             /\ e.queue = Tail(d.queue) /\ e.bytes = d.bytes - Head(d.queue).charge
             /\ DOMAIN e.answers = Operations
             /\ \A op \in Operations :
                  e.answers[op] = IF op = Head(d.queue).op
                                  THEN Append(d.answers[op], "ConnectionLost") ELSE d.answers[op]
<1> DEFINE h == Head(d.queue)
           x == [d EXCEPT !.queue = Tail(@), !.bytes = @ - h.charge]
           e == Rejected(x, h, "ConnectionLost")
<1>1. RejectHead(d) = e
  BY DEF RejectHead
<1> HIDE DEF h
<1>2. /\ DOMAIN x = DriverFields
      /\ \A g \in DriverFields \ {"queue", "bytes"} : x[g] = d[g]
      /\ x.queue = Tail(d.queue) /\ x.bytes = d.bytes - h.charge
  BY DEF DriverFields
<1> HIDE DEF x
<1>3. /\ DOMAIN e = DriverFields
      /\ \A g \in DriverFields \ {"answers", "held"} : e[g] = x[g]
      /\ DOMAIN e.answers = Operations
      /\ \A op \in Operations :
           e.answers[op] = IF op = h.op THEN Append(x.answers[op], "ConnectionLost")
                           ELSE x.answers[op]
  BY <1>2 DEF Rejected, Answer, DriverFields
<1> HIDE DEF e
<1>4. x.answers = d.answers /\ e.queue = x.queue /\ e.bytes = x.bytes
  BY <1>2, <1>3 DEF DriverFields
<1> QED
  BY <1>1, <1>2, <1>3, <1>4 DEF h

\* Taking the head of the queue.
LEMMA DequeuedEffect ==
  ASSUME NEW d, DOMAIN d = DriverFields
  PROVE  LET e == DequeueCommand(d)
         IN  /\ DOMAIN e = DriverFields
             /\ \A f \in DriverFields \ {"queue", "bytes"} : e[f] = d[f]
             /\ e.queue = Tail(d.queue) /\ e.bytes = d.bytes - Head(d.queue).charge
BY DEF DequeueCommand, DriverFields

\* The books of the queue without its head.
LEMMA DequeuedBooks ==
  ASSUME NEW d, NEW e, Books(d), d.queue # <<>>, e.queue = Tail(d.queue),
         e.bytes = d.bytes - Head(d.queue).charge, e.nextCommand \in 0..CommandSpace,
         e.closed = d.closed, e.draining = d.draining
  PROVE  Books(e) /\ Len(e.queue) = Len(d.queue) - 1
         /\ Head(d.queue).kind \in CommandNames \cup {"Reply"}
<1> DEFINE q == d.queue
           r == e.queue
<1>1. IsBatch(q) /\ Chargeable(q) /\ q # <<>>
  BY DEF Books, Chargeable
<1>2. /\ IsBatch(r) /\ 1 \in DOMAIN q /\ Head(q) = q[1]
      /\ Len(r) = Len(q) - 1
      /\ \A i \in DOMAIN r : i \in Nat /\ i + 1 \in DOMAIN q /\ r[i] = q[i + 1]
  BY <1>1, RestOfBatch
<1>3. /\ Chargeable(r) /\ Head(q).charge \in Nat
      /\ Charges(q) \in Nat /\ Charges(r) \in Nat
      /\ Charges(r) = Charges(q) - Head(q).charge
  BY <1>1, ChargesRest
<1>4. Len(q) \in Nat /\ Len(q) <= CommandCapacity /\ CommandCapacity \in Nat
  BY <1>1, BatchShape, DriverAssumption DEF Books
<1>5. d.bytes = Charges(q) /\ d.bytes <= CommandBytes /\ CommandBytes \in Nat
  BY DriverAssumption DEF Books
<1>6. ~d.closed /\ e.closed \in BOOLEAN /\ e.draining \in BOOLEAN
  BY DEF Books
<1>7. e.bytes = Charges(r) /\ e.bytes <= CommandBytes
  BY <1>3, <1>5
<1>8. Len(r) <= CommandCapacity
  BY <1>2, <1>4
<1>9. \A i \in DOMAIN q : q[i].kind \in CommandNames \cup {"Reply"}
  BY DEF Books
<1>10. \A i \in DOMAIN r : r[i].kind \in CommandNames \cup {"Reply"}
  BY <1>2, <1>9
<1>11. e.nextCommand \in 0..CommandSpace /\ (e.closed => e.queue = <<>>)
  BY <1>6
<1> QED
  BY <1>2, <1>3, <1>6, <1>7, <1>8, <1>9, <1>10, <1>11 DEF Books

\* The queue drain_accepted_commands leaves after i commands.
LEMMA DrainTrace ==
  ASSUME NEW d, Len(d.queue) \in Nat
  PROVE  \E f : /\ f[0] = SettleOrphans(d)
                /\ \A i \in 1..Len(d.queue) : f[i] = RejectHead(f[i - 1])
                /\ DrainAcceptedCommands(d) = f[Len(d.queue)]
<1> DEFINE n == Len(d.queue)
           Trace(m, g) == g = [i \in 0..m |-> IF i = 0 THEN SettleOrphans(d) ELSE RejectHead(g[i - 1])]
           S == {m \in Nat : \E g : Trace(m, g)}
<1>1. 0 \in S
  <2>1. Trace(0, [i \in 0..0 |-> SettleOrphans(d)])
    OBVIOUS
  <2> QED
    BY <2>1
<1>2. ASSUME NEW m \in Nat, m \in S PROVE m + 1 \in S
  <2>1. PICK g : Trace(m, g)
    BY <1>2
  <2> DEFINE h == [i \in 0..(m + 1) |-> IF i = m + 1 THEN RejectHead(g[m]) ELSE g[i]]
  <2>2. ASSUME NEW i \in 0..(m + 1)
        PROVE  h[i] = IF i = 0 THEN SettleOrphans(d) ELSE RejectHead(h[i - 1])
    <3>1. CASE i = m + 1
      <4>1. i # 0 /\ i - 1 = m /\ m \in 0..(m + 1) /\ m # m + 1
        BY <3>1
      <4>2. h[m] = g[m] /\ h[i] = RejectHead(g[m])
        BY <3>1, <4>1
      <4> QED
        BY <3>1, <4>1, <4>2
    <3>2. CASE i # m + 1
      <4>1. i \in 0..m /\ h[i] = g[i]
        BY <3>2
      <4>2. g[i] = IF i = 0 THEN SettleOrphans(d) ELSE RejectHead(g[i - 1])
        BY <2>1, <4>1
      <4>3. i # 0 => i - 1 \in 0..(m + 1) /\ i - 1 # m + 1
        BY <4>1
      <4>4. i # 0 => h[i - 1] = g[i - 1]
        BY <4>3
      <4> QED
        BY <4>1, <4>2, <4>4
    <3> QED
      BY <3>1, <3>2
  <2>3. h = [i \in 0..(m + 1) |-> h[i]]
    OBVIOUS
  <2> HIDE DEF h
  <2>4. h = [i \in 0..(m + 1) |-> IF i = 0 THEN SettleOrphans(d) ELSE RejectHead(h[i - 1])]
    BY <2>2, <2>3
  <2> QED
    BY <2>4
<1> HIDE DEF S
<1>3. n \in S
  BY <1>1, <1>2, SetInduction
<1>4. PICK f : f = [i \in 0..n |-> IF i = 0 THEN SettleOrphans(d) ELSE RejectHead(f[i - 1])]
  BY <1>3 DEF S
<1> DEFINE left == CHOOSE g : g = [i \in 0..n |-> IF i = 0 THEN SettleOrphans(d) ELSE RejectHead(g[i - 1])]
<1>5. left = [i \in 0..n |-> IF i = 0 THEN SettleOrphans(d) ELSE RejectHead(left[i - 1])]
  BY <1>4
<1>6. DrainAcceptedCommands(d) = left[n]
  BY DEF DrainAcceptedCommands
<1> HIDE DEF left
<1>7. left[0] = SettleOrphans(d) /\ \A i \in 1..n : left[i] = RejectHead(left[i - 1])
  <2>1. 0 \in 0..n /\ \A i \in 1..n : i \in 0..n /\ i # 0
    OBVIOUS
  <2> QED
    BY <1>5, <2>1
<1> QED
  BY <1>6, <1>7

\* Its parts.
DrainedTo(d, s, n, acc) ==
  /\ DOMAIN s = DriverFields
  /\ \A f \in DriverFields \ {"answers", "queue", "bytes", "held", "completions"} : s[f] = d[f]
  /\ s.completions = Drop(d.completions, DOMAIN d.completions \ DOMAIN d.core.open)
  /\ Chargeable(s.queue) /\ Len(s.queue) = n /\ s.bytes = Charges(s.queue)
  /\ Owner(s, acc)

\* drain_accepted_commands answers what is queued and what Core has given up.
LEMMA DrainEffect ==
  ASSUME NEW d, NEW acc, Formed(d), Owner(d, acc), Chargeable(d.queue), d.bytes = Charges(d.queue)
  PROVE  DrainedTo(d, DrainAcceptedCommands(d), 0, acc)
<1> DEFINE n == Len(d.queue)
<1>1. n \in Nat
  BY BatchShape DEF Chargeable
<1>2. PICK f : /\ f[0] = SettleOrphans(d)
               /\ \A i \in 1..n : f[i] = RejectHead(f[i - 1])
               /\ DrainAcceptedCommands(d) = f[n]
  BY <1>1, DrainTrace
<1> DEFINE S == {i \in 0..n : DrainedTo(d, f[i], n - i, acc)}
<1>3. 0 \in S
  <2> DEFINE ks == DOMAIN d.completions \ DOMAIN d.core.open
             e == SettleOrphans(d)
  <2>1. /\ DOMAIN e = DriverFields
        /\ \A g \in DriverFields \ {"answers", "completions"} : e[g] = d[g]
        /\ e.completions = Drop(d.completions, ks)
        /\ Owner(e, acc)
    <3> DEFINE y == [Answer(d, {d.completions[k].op : k \in ks}, "ConnectionLost")
                       EXCEPT !.completions = Drop(@, ks)]
    <3>1. e = y
      BY DEF SettleOrphans
    <3>2. ks \subseteq DOMAIN d.completions
      OBVIOUS
    <3> HIDE DEF ks, e
    <3>3. /\ DOMAIN y = DriverFields
          /\ \A g \in DriverFields \ {"answers", "completions"} : y[g] = d[g]
          /\ y.completions = Drop(d.completions, ks)
          /\ Owner(y, acc)
      BY <3>2, OwnerSettles
    <3> HIDE DEF y
    <3> QED
      BY <3>1, <3>3
  <2> HIDE DEF e
  <2>2. e.queue = d.queue /\ e.bytes = d.bytes
    BY <2>1 DEF DriverFields
  <2>3. DrainedTo(d, e, n, acc)
    BY <2>1, <2>2 DEF DrainedTo
  <2>4. f[0] = e /\ n - 0 = n
    BY <1>1, <1>2 DEF e
  <2> QED
    BY <1>1, <2>3, <2>4
<1>4. ASSUME NEW i \in 0..(n - 1), i \in S PROVE i + 1 \in S
  <2> DEFINE s == f[i]
             e == RejectHead(s)
             h == Head(s.queue)
  <2>1. /\ i + 1 \in 1..n /\ (i + 1) - 1 = i /\ i + 1 \in 0..n /\ n - i # 0 /\ i \in Nat
        /\ (n - i) - 1 = n - (i + 1)
    BY <1>1
  <2>2. f[i + 1] = e
    BY <1>2, <2>1
  <2>3. DrainedTo(d, s, n - i, acc)
    BY <1>4
  <2> HIDE DEF s
  <2>6. /\ DOMAIN e = DriverFields
        /\ \A g \in DriverFields \ {"answers", "held", "queue", "bytes"} : e[g] = s[g]
        /\ e.queue = Tail(s.queue) /\ e.bytes = s.bytes - h.charge
        /\ DOMAIN e.answers = Operations
        /\ \A op \in Operations :
             e.answers[op] = IF op = h.op THEN Append(s.answers[op], "ConnectionLost")
                             ELSE s.answers[op]
    BY <2>3, RejectHeadEffect DEF DrainedTo
  <2>7. e.queue = Tail(s.queue) /\ e.bytes = s.bytes - h.charge /\ e.completions = s.completions
    BY <2>6 DEF DriverFields
  <2> HIDE DEF e
  <2>8. s.queue # <<>>
    BY <2>1, <2>3, EmptyBatch DEF DrainedTo
  <2>9. /\ Chargeable(e.queue) /\ e.bytes = Charges(e.queue)
    BY <2>3, <2>7, <2>8, ChargesRest DEF DrainedTo
  <2>10. Len(e.queue) = n - (i + 1)
    <3>1. IsBatch(s.queue) /\ Len(s.queue) = n - i
      BY <2>3 DEF DrainedTo, Chargeable
    <3>2. Len(Tail(s.queue)) = Len(s.queue) - 1
      BY <2>8, <3>1, RestOfBatch
    <3> QED
      BY <2>1, <2>7, <3>1, <3>2
  <2>11. Owner(e, acc)
    <3>1. IsBatch(s.queue) /\ Owner(s, acc)
      BY <2>3 DEF DrainedTo, Chargeable
    <3>2. /\ DOMAIN e.answers = Operations
          /\ \A op \in Operations :
               e.answers[op] = IF op = Head(s.queue).op THEN Append(s.answers[op], "ConnectionLost")
                               ELSE s.answers[op]
      BY <2>6, <2>7
    <3>3. e.queue = Tail(s.queue) /\ e.completions = s.completions
      BY <2>7
    <3> QED
      BY ONLY <2>8, <3>1, <3>2, <3>3, OwnerAnswersHead
  <2>12. \A g \in DriverFields \ {"answers", "queue", "bytes", "held", "completions"} : e[g] = d[g]
    BY <2>3, <2>6 DEF DrainedTo
  <2>13. DrainedTo(d, e, n - (i + 1), acc)
    BY <2>3, <2>6, <2>7, <2>9, <2>10, <2>11, <2>12 DEF DrainedTo
  <2> QED
    BY <2>1, <2>2, <2>13
<1>5. \A i \in 0..(n - 1) : i \in S => i + 1 \in S
  BY <1>4
<1>6. n - n = 0 /\ n \in 0..n
  BY <1>1
<1> HIDE DEF S
<1>7. \A i \in 0..n : i \in S
  BY <1>1, <1>3, <1>5, BoundedInduction
<1>8. DrainedTo(d, f[n], n - n, acc)
  BY <1>6, <1>7 DEF S
<1> QED
  BY <1>2, <1>6, <1>8

-----------------------------------------------------------------------------
(* A Driver between two rounds.                                            *)

\* Core, the books, the queue and the transport agree.
Sound(d, R, acc) ==
  /\ Coherent(d, R, {}, acc) /\ Books(d)
  /\ d.closing # None /\ d.closing.barrier = None => d.closed

\* What no round of Driver changes of the Writer's task.
SameTask(d, e) ==
  \A f \in {"reports", "begun", "live"} : e.writer[f] = d.writer[f]

\* drain_accepted_commands of a closed transport.
LEMMA DrainSound ==
  ASSUME NEW d, NEW R, NEW acc, Broken(d, R, {}, acc), d.closed = TRUE, d.core.closing,
         Chargeable(d.queue), d.bytes = Charges(d.queue), d.nextCommand \in 0..CommandSpace,
         d.draining \in BOOLEAN
  PROVE  LET e == DrainAcceptedCommands(d)
         IN  /\ Sound(e, R, acc)
             /\ e.core = d.core /\ e.closing = d.closing /\ e.closed = d.closed
             /\ e.admitted = d.admitted /\ e.writer = d.writer /\ e.nextCommand = d.nextCommand
             /\ e.queue = <<>> /\ e.inbound = d.inbound /\ e.draining = d.draining
<1> DEFINE e == DrainAcceptedCommands(d)
<1>1. DrainedTo(d, e, 0, acc)
  BY DrainEffect DEF Broken
<1> HIDE DEF e
<1>2. /\ e.core = d.core /\ e.closing = d.closing /\ e.closed = d.closed
      /\ e.admitted = d.admitted /\ e.writer = d.writer /\ e.nextCommand = d.nextCommand
      /\ e.inbound = d.inbound /\ e.draining = d.draining
  BY <1>1 DEF DrainedTo, DriverFields
<1>3. /\ DOMAIN e = DriverFields
      /\ e.completions = Drop(d.completions, DOMAIN d.completions \ DOMAIN d.core.open)
      /\ Chargeable(e.queue) /\ Len(e.queue) = 0 /\ e.bytes = Charges(e.queue)
      /\ Owner(e, acc)
  BY <1>1 DEF DrainedTo
<1>4. e.queue = <<>>
  <2>1. \E S : e.queue \in Seq(S)
    BY <1>3 DEF Chargeable, IsBatch
  <2> QED
    BY <1>3, <2>1
<1>5. /\ \A k \in DOMAIN e.completions :
           k \in DOMAIN d.core.open /\ k \in DOMAIN d.completions /\ e.completions[k] = d.completions[k]
      /\ \A k \in DOMAIN d.core.open : k \in DOMAIN d.completions => k \in DOMAIN e.completions
  BY <1>3 DEF Drop
<1>6. Coherent(e, R, {}, acc)
  <2>1. Formed(e) /\ IInv(e.core) /\ Traced(e.core) /\ e.closing \in {None} \cup Closings
    BY <1>2, <1>3 DEF Formed, Broken
  <2>2. (e.core.closing <=> e.closing # None) /\ (e.closed => e.closing # None /\ e.closing.barrier = None)
    BY <1>2 DEF Broken
  <2>3. \A k \in DOMAIN e.completions :
          k \in Commands /\ k < e.nextCommand /\ e.completions[k].kind \in CommandKinds
    BY <1>2, <1>5 DEF Broken
  <2>4. \A k \in DOMAIN e.core.open :
          k \in DOMAIN e.completions /\ e.completions[k].kind = e.core.open[k]
    BY <1>2, <1>5 DEF Broken
  <2>5. DOMAIN e.completions \subseteq DOMAIN e.core.open
    BY <1>2, <1>5
  <2>6. /\ Line(e.writer.queue, R, e.admitted, e.writer.live) /\ Worker(e.writer)
        /\ \A w \in e.admitted : w \in Nat /\ w < e.core.nextWrite
        /\ e.admitted \ {} \subseteq DOMAIN e.core.pending
        /\ IsBatch(e.inbound) /\ Len(e.inbound) <= InboundCapacity
    BY <1>2 DEF Broken
  <2>7. e.closing # None /\ e.closing.barrier = None
    BY <1>2 DEF Broken
  <2> QED
    BY <1>3, <2>1, <2>2, <2>3, <2>4, <2>5, <2>6, <2>7 DEF Coherent
<1>7. Books(e)
  <2>1. Len(e.queue) <= CommandCapacity
    BY <1>3, DriverAssumption
  <2>2. e.bytes <= CommandBytes
    BY <1>3, <1>4, ChargesEmpty, DriverAssumption
  <2>3. DOMAIN e.queue = {}
    BY <1>4, EmptyBatch
  <2> QED
    BY <1>2, <1>3, <1>4, <2>1, <2>2, <2>3 DEF Books
<1>8. Sound(e, R, acc)
  BY <1>2, <1>6, <1>7 DEF Sound
<1> QED
  BY <1>2, <1>4, <1>8 DEF e

\* Agreement is more than a batch that was cut leaves.
LEMMA CoherentIsBroken ==
  ASSUME NEW d, NEW R, NEW X, NEW acc, Coherent(d, R, X, acc)
  PROVE  Broken(d, R, X, acc)
BY DEF Coherent, Broken

\* finish_close_if_ready closes the transport as soon as no barrier is left.
LEMMA FinishSound ==
  ASSUME NEW d, NEW R, NEW acc, Coherent(d, R, {}, acc), Books(d)
  PROVE  LET e == FinishCloseIfReady(d)
         IN  /\ Sound(e, R, acc) /\ Keeps(d, e, {}) /\ SameTask(d, e)
             /\ e.core = d.core /\ e.closing = d.closing /\ e.admitted = d.admitted
             /\ e.nextCommand = d.nextCommand /\ e.inbound = d.inbound /\ e.draining = d.draining
<1>1. CASE d.closing = None \/ d.closed \/ d.closing.barrier # None
  <2>1. FinishCloseIfReady(d) = d
    BY <1>1 DEF FinishCloseIfReady
  <2>2. d.closing # None /\ d.closing.barrier = None => d.closed
    BY <1>1
  <2>3. Sound(d, R, acc)
    BY <2>2 DEF Sound
  <2> QED
    BY <2>1, <2>3 DEF Keeps, SameTask
<1>2. CASE ~(d.closing = None \/ d.closed \/ d.closing.barrier # None)
  <2> DEFINE x == [d EXCEPT !.closed = TRUE, !.writer.cancelled = TRUE]
             e == DrainAcceptedCommands(x)
  <2>1. FinishCloseIfReady(d) = e
    BY <1>2 DEF FinishCloseIfReady
  <2>2. DOMAIN d = DriverFields /\ DOMAIN d.writer = WriterFields
    BY DEF Coherent, Formed
  <2>3. /\ DOMAIN x = DriverFields
        /\ \A f \in DriverFields \ {"closed", "writer"} : x[f] = d[f]
        /\ x.closed = TRUE /\ DOMAIN x.writer = WriterFields
        /\ \A f \in WriterFields \ {"cancelled"} : x.writer[f] = d.writer[f]
    BY <2>2 DEF DriverFields, WriterFields
  <2> HIDE DEF x
  <2>4. /\ x.core = d.core /\ x.completions = d.completions /\ x.nextCommand = d.nextCommand
        /\ x.admitted = d.admitted /\ x.closing = d.closing /\ x.inbound = d.inbound
        /\ x.queue = d.queue /\ x.answers = d.answers /\ x.bytes = d.bytes
        /\ x.draining = d.draining
        /\ x.writer.queue = d.writer.queue /\ x.writer.live = d.writer.live
        /\ x.writer.fault = d.writer.fault /\ x.writer.open = d.writer.open
        /\ x.writer.reports = d.writer.reports /\ x.writer.begun = d.writer.begun
    BY <2>3 DEF DriverFields, WriterFields
  <2>5. Owner(x, acc)
    BY <2>4, OwnerSame DEF Coherent
  <2>6. Worker(x.writer)
    BY <2>4 DEF Coherent, Worker
  <2>7. Broken(x, R, {}, acc)
    BY <1>2, <2>3, <2>4, <2>5, <2>6 DEF Coherent, Broken, Formed
  <2>8. x.core.closing /\ Chargeable(x.queue) /\ x.bytes = Charges(x.queue)
        /\ x.nextCommand \in 0..CommandSpace /\ x.draining \in BOOLEAN
    BY <1>2, <2>4 DEF Coherent, Books
  <2>9. /\ Sound(e, R, acc)
        /\ e.core = x.core /\ e.closing = x.closing /\ e.closed = x.closed
        /\ e.admitted = x.admitted /\ e.writer = x.writer /\ e.nextCommand = x.nextCommand
        /\ e.queue = <<>> /\ e.inbound = x.inbound /\ e.draining = x.draining
    BY <2>3, <2>7, <2>8, DrainSound
  <2> HIDE DEF e
  <2>10. Keeps(d, e, {})
    BY <1>2, <2>3, <2>4, <2>9 DEF Keeps
  <2>11. SameTask(d, e)
    BY <2>4, <2>9 DEF SameTask
  <2> QED
    BY <2>1, <2>4, <2>9, <2>10, <2>11
<1> QED
  BY <1>1, <1>2

\* Nor of the commands it has numbered, and whether it drains.
Steady(d, e) == e.nextCommand = d.nextCommand /\ e.draining = d.draining

\* The queue waits as long as the generation is open.
Waiting(d, e) == e.closing = None => e.queue = d.queue

\* A step that changes the queue, the Writer, the Primaries or the answers, but neither
\* Core nor what the completion table and the admitted writes say of it.
LEMMA SoundTransfer ==
  ASSUME NEW d, NEW e, NEW R, NEW S, NEW acc, NEW next, Sound(d, R, acc), Formed(e),
         e.core = d.core, e.completions = d.completions, e.admitted = d.admitted,
         e.closing = d.closing, e.closed = d.closed, e.nextCommand = d.nextCommand,
         Line(e.writer.queue, S, e.admitted, e.writer.live), Worker(e.writer),
         IsBatch(e.inbound), Len(e.inbound) <= InboundCapacity, Owner(e, next), Books(e)
  PROVE  Sound(e, S, next)
BY DEF Sound, Coherent

\* The queue and the Writer's task as a batch leaves them.
LEMMA UntouchedBooks ==
  ASSUME NEW d, NEW e, Books(d), Untouched(d, e)
  PROVE  Books(e) /\ SameTask(d, e) /\ Steady(d, e)
<1>1. /\ e.queue = d.queue /\ e.bytes = d.bytes /\ e.nextCommand = d.nextCommand
      /\ e.closed = d.closed /\ e.draining = d.draining
      /\ \A f \in WriterFields \ {"queue"} : e.writer[f] = d.writer[f]
  BY DEF Untouched
<1>2. SameTask(d, e)
  BY <1>1 DEF SameTask, WriterFields
<1>3. Books(e)
  BY <1>1 DEF Books
<1>4. Steady(d, e)
  BY <1>1 DEF Steady
<1> QED
  BY <1>2, <1>3, <1>4

\* The rest of a round after the batch.
LEMMA RoundEnds ==
  ASSUME NEW d, NEW x, NEW R, NEW acc, NEW W, Coherent(x, R, {}, acc), Books(d),
         Keeps(d, x, W), Untouched(d, x)
  PROVE  LET e == FinishCloseIfReady(x)
         IN  /\ Sound(e, R, acc) /\ Keeps(d, e, W) /\ SameTask(d, e) /\ Steady(d, e) /\ Waiting(d, e)
             /\ e.core = x.core /\ e.closing = x.closing
<1> DEFINE e == FinishCloseIfReady(x)
<1>1. Books(x) /\ SameTask(d, x) /\ Steady(d, x)
  BY UntouchedBooks
<1>2. /\ Sound(e, R, acc) /\ Keeps(x, e, {}) /\ SameTask(x, e)
      /\ e.core = x.core /\ e.closing = x.closing
      /\ e.nextCommand = x.nextCommand /\ e.draining = x.draining
  BY <1>1, FinishSound
<1>7. x.closing = None => e = x
  BY DEF FinishCloseIfReady
<1> HIDE DEF e
<1>8. Waiting(d, e)
  BY <1>2, <1>7 DEF Waiting, Untouched
<1>3. Keeps(x, e, W)
  BY <1>2, KeepsMore
<1>4. Keeps(d, e, W)
  BY <1>3, KeepsTrans
<1>5. SameTask(d, e)
  BY <1>1, <1>2 DEF SameTask
<1>6. Steady(d, e)
  BY <1>1, <1>2 DEF Steady
<1> QED
  BY <1>2, <1>4, <1>5, <1>6, <1>8 DEF e

\* A handler that started from Core as the Driver holds it, with no permit.
Matches(d, p) ==
  /\ p.open = d.core.open /\ p.nextWrite = d.core.nextWrite /\ p.nextReply = d.core.nextReply
  /\ p.pending = DOMAIN d.core.pending /\ p.closing = d.core.closing /\ p.told = {} /\ ~p.permit
  /\ p.cause \in AllReasons
  /\ \A w \in DOMAIN d.core.pending : p.kinds[w] = d.core.pending[w].kind

\* Its batch can be applied by a sound Driver.
LEMMA MatchReady ==
  ASSUME NEW d, NEW c, NEW p, NEW permit, NEW written, NEW R, NEW acc,
         Coherent(d, R, {}, acc), Matches(d, p), IInv(c), IsBatch(c.out)
  PROVE  Ready(d, c, p, permit, written, R, acc) /\ Level(d, p, {})
<1>1. d.core.nextWrite \in Nat
  BY SpaceAssumption DEF Coherent, IInv, Weak, Shape
<1>2. Ready(d, c, p, permit, written, R, acc)
  BY <1>1 DEF Ready, Coherent, Matches
<1>3. Loose(d, p, {})
  BY DEF Loose, Coherent, Matches
<1>4. Level(d, p, {})
  BY <1>3 DEF Level, Coherent, Matches
<1> QED
  BY <1>2, <1>4

\* Any such handler: the round keeps Driver sound and the first close.
LEMMA MatchedRound ==
  ASSUME NEW d, NEW c, NEW p, NEW R, NEW acc, NEW W, NEW state, NEW written,
         NEW first \in AllReasons \cup {None},
         Sound(d, R, acc), Matches(d, p), IInv(c), Run(p, state, c), Reasoned(c, W),
         Allows(first, W)
  PROVE  LET e == FinishCloseIfReady(ApplyBatch(d, c, FALSE, written, first))
         IN  /\ Sound(e, R, acc) /\ Keeps(d, e, W) /\ SameTask(d, e) /\ Steady(d, e)
             /\ Waiting(d, e)
<1> DEFINE x == ApplyBatch(d, c, FALSE, written, first)
<1>1. Ready(d, c, p, FALSE, written, R, acc) /\ Level(d, p, {})
  BY MatchReady DEF Sound, Run, Log
<1>2. Coherent(x, R, {}, acc) /\ Keeps(d, x, W) /\ Untouched(d, x)
  BY <1>1, BatchApplied
<1>3. Books(d)
  BY DEF Sound
<1> HIDE DEF x
<1> QED
  BY <1>2, <1>3, RoundEnds DEF x

\* What ordinary input may close a generation for.
OrdinaryReasons == CoreReasons \cup RefusalReasons

\* Core closes for a reason of its own, or for the cause it was given.
LEMMA RunReasons ==
  ASSUME NEW p, NEW state, NEW c, Run(p, state, c)
  PROVE  Reasoned(c, CoreReasons \cup {p.cause}) /\
         (p.cause \in OrdinaryReasons => Reasoned(c, OrdinaryReasons))
BY DEF Run, Log, Excused, Excusable, Reasoned, OrdinaryReasons

\* The reasons of ordinary input are reasons of a generation.
LEMMA OrdinaryReasonsAre ==
  /\ OrdinaryReasons \subseteq AllReasons /\ "RuntimeInvariant" \notin OrdinaryReasons
  /\ "LocalSeparate" \in OrdinaryReasons /\ RefusalReasons \subseteq OrdinaryReasons
BY DEF OrdinaryReasons, CoreReasons, RefusalReasons, AllReasons, GenerationReasons

\* An ordinary handler: on_connected, on_message, on_inbound_violation and advance_time
\* start from a snapshot of Core.
LEMMA OrdinaryRound ==
  ASSUME NEW d, NEW c, NEW R, NEW acc, Sound(d, R, acc), IInv(c), NEW H,
         Run(Hearing(Snapshot(d.core, {}, UnresolvedCommands(d.core)), H), d.core.state, c)
  PROVE  LET e == Apply(d, c)
         IN  /\ Sound(e, R, acc) /\ Keeps(d, e, OrdinaryReasons) /\ SameTask(d, e) /\ Steady(d, e)
             /\ Waiting(d, e)
<1> DEFINE p == Hearing(Snapshot(d.core, {}, UnresolvedCommands(d.core)), H)
<1>1. Matches(d, p) /\ p.cause \in OrdinaryReasons
  BY OrdinaryReasonsAre DEF Matches, Snapshot, Hearing
<1> HIDE DEF p
<1>2. PICK state : Run(p, state, c)
  BY DEF p
<1>3. Reasoned(c, OrdinaryReasons)
  BY <1>1, <1>2, RunReasons
<1>4. Apply(d, c) = FinishCloseIfReady(ApplyBatch(d, c, FALSE, None, None))
  BY DEF Apply
<1>5. PICK first \in AllReasons \cup {None} : first = None
  OBVIOUS
<1>6. Allows(first, OrdinaryReasons)
  BY <1>5, OrdinaryReasonsAre DEF Allows
<1>8. PICK written : written = None
  OBVIOUS
<1> DEFINE e == FinishCloseIfReady(ApplyBatch(d, c, FALSE, written, first))
<1>7. /\ Sound(e, R, acc) /\ Keeps(d, e, OrdinaryReasons) /\ SameTask(d, e) /\ Steady(d, e)
      /\ Waiting(d, e)
  <2>1. Sound(d, R, acc) /\ IInv(c) /\ Matches(d, p)
    BY <1>1
  <2> QED
    BY ONLY <1>2, <1>3, <1>6, <2>1, MatchedRound
<1> HIDE DEF e
<1> QED
  BY <1>4, <1>5, <1>7, <1>8 DEF e

-----------------------------------------------------------------------------
(* The rounds of Driver.                                                   *)

\* A round keeps Driver sound and the first close, leaves the Writer's task alone, and
\* closes for a reason of W.
Goes(d, e, R, acc, W) ==
  /\ Sound(e, R, acc) /\ Keeps(d, e, W) /\ SameTask(d, e)
  /\ d.nextCommand <= e.nextCommand /\ (d.draining => e.draining)

\* Nothing happens.
LEMMA GoesNowhere ==
  ASSUME NEW d, NEW R, NEW acc, NEW W, Sound(d, R, acc)
  PROVE  Goes(d, d, R, acc, W)
<1>1. d.nextCommand \in Nat
  BY DriverAssumption DEF Sound, Books
<1> QED
  BY <1>1 DEF Goes, Keeps, SameTask

\* A round without a new CommandId.
LEMMA SteadyGoes ==
  ASSUME NEW d, NEW e, NEW R, NEW acc, NEW W,
         Sound(e, R, acc), Keeps(d, e, W), SameTask(d, e), Steady(d, e)
  PROVE  Goes(d, e, R, acc, W)
<1>1. e.nextCommand \in Nat
  BY DriverAssumption DEF Sound, Books
<1> QED
  BY <1>1 DEF Goes, Steady

\* One thing after another.
LEMMA GoesOn ==
  ASSUME NEW d, NEW e, NEW f, NEW R, NEW acc, NEW V, NEW W, NEW U, Sound(d, R, acc),
         Goes(d, e, R, acc, V), Goes(e, f, R, acc, W), V \subseteq U, W \subseteq U
  PROVE  Goes(d, f, R, acc, U)
<1>1. /\ d.nextCommand \in Nat /\ e.nextCommand \in Nat /\ f.nextCommand \in Nat
      /\ d.nextCommand <= e.nextCommand /\ e.nextCommand <= f.nextCommand
  BY DriverAssumption DEF Goes, Sound, Books
<1>2. d.nextCommand <= f.nextCommand
  BY ONLY <1>1
<1>3. Keeps(d, e, U) /\ Keeps(e, f, U)
  BY KeepsMore DEF Goes
<1>4. Keeps(d, f, U)
  BY <1>3, KeepsTrans
<1>5. SameTask(d, f)
  BY DEF Goes, SameTask
<1> QED
  BY <1>2, <1>4, <1>5 DEF Goes

\* advance_time, when a deadline has passed.
LEMMA TimelyGoes ==
  ASSUME NEW d, NEW due, NEW R, NEW acc, Sound(d, R, acc)
  PROVE  /\ Goes(d, ProcessDueDeadlines(d, due), R, acc, OrdinaryReasons)
         /\ Steady(d, ProcessDueDeadlines(d, due)) /\ Waiting(d, ProcessDueDeadlines(d, due))
<1>1. CASE d.closing # None \/ due = NothingDue
  <2>1. ProcessDueDeadlines(d, due) = d
    BY <1>1 DEF ProcessDueDeadlines
  <2> QED
    BY <2>1, GoesNowhere DEF Steady, Waiting
<1>2. CASE ~(d.closing # None \/ due = NothingDue)
  <2> DEFINE c == AdvanceTime(d.core, due)
             e == Apply(d, c)
  <2>1. ProcessDueDeadlines(d, due) = e
    BY <1>2 DEF ProcessDueDeadlines
  <2>2. IInv(d.core) /\ Traced(d.core)
    BY DEF Sound, Coherent
  <2>3. IInv(c)
    BY <2>2, BeginIInv, ExpireDeadlinesIInv DEF AdvanceTime
  <2>4. Run(Hearing(Snapshot(d.core, {}, UnresolvedCommands(d.core)), {}), d.core.state, c)
    BY <2>2, RunAdvancesTime, RunHears
  <2> HIDE DEF c
  <2>5. /\ Sound(e, R, acc) /\ Keeps(d, e, OrdinaryReasons) /\ SameTask(d, e) /\ Steady(d, e)
        /\ Waiting(d, e)
    BY <2>3, <2>4, OrdinaryRound
  <2> HIDE DEF e
  <2> QED
    BY <2>1, <2>5, SteadyGoes
<1> QED
  BY <1>1, <1>2

\* on_message.
LEMMA MessageGoes ==
  ASSUME NEW d, NEW m, NEW due, NEW R, NEW acc, Sound(d, R, acc), m.type \in MessageTypes
  PROVE  Goes(d, ReceiveMessage(d, m, due), R, acc, OrdinaryReasons)
<1> DEFINE x == ProcessDueDeadlines(d, due)
<1>1. Goes(d, x, R, acc, OrdinaryReasons)
  BY TimelyGoes
<1> HIDE DEF x
<1>2. Sound(x, R, acc)
  BY <1>1 DEF Goes
<1>3. Goes(x, MessageTimely(x, m), R, acc, OrdinaryReasons)
  <2>1. CASE x.closing # None
    BY <1>2, <2>1, GoesNowhere DEF MessageTimely
  <2>2. CASE x.closing = None
    <3> DEFINE c == OnMessage(x.core, m, FALSE)
               e == Apply(x, c)
    <3>1. MessageTimely(x, m) = e
      BY <2>2 DEF MessageTimely
    <3>2. IInv(x.core) /\ Traced(x.core)
      BY <1>2 DEF Sound, Coherent
    <3>3. IInv(c)
      BY <3>2, OnMessageIInv
    <3>4. Run(Hearing(Snapshot(x.core, {}, UnresolvedCommands(x.core)), Heard(x.core, m)), x.core.state, c)
      BY <3>2, RunOnMessage
    <3> HIDE DEF c
    <3>5. /\ Sound(e, R, acc) /\ Keeps(x, e, OrdinaryReasons) /\ SameTask(x, e) /\ Steady(x, e)
      BY <1>2, <3>3, <3>4, OrdinaryRound
    <3> HIDE DEF e
    <3> QED
      BY <3>1, <3>5, SteadyGoes
  <2> QED
    BY <2>1, <2>2
<1>4. ReceiveMessage(d, m, due) = MessageTimely(x, m)
  BY DEF ReceiveMessage, x
<1> QED
  BY <1>1, <1>3, <1>4, GoesOn

\* on_shutdown: the close is immediate, for the given reason if it is the first.
LEMMA ShutDownGoes ==
  ASSUME NEW d, NEW reason \in AllReasons, NEW R, NEW acc, Sound(d, R, acc)
  PROVE  LET e == ShutDown(d, reason)
         IN  /\ Goes(d, e, R, acc, {reason}) /\ Steady(d, e)
             /\ e.closed /\ e.core = Begin(OnShutdown(d.core, reason))
<1> DEFINE c == OnShutdown(d.core, reason)
           p == Caused(Snapshot(d.core, {}, UnresolvedCommands(d.core)), reason)
           s == ApplyActionBatch(d, c, FALSE, None)
           x == BeginClosing(s.d, reason, Immediate)
           e == FinishCloseIfReady(x)
<1>0. Coherent(d, R, {}, acc) /\ Broken(d, R, {}, acc)
  BY CoherentIsBroken DEF Sound
<1>1. /\ Ready(d, c, p, FALSE, None, R, acc) /\ Run(p, d.core.state, c)
      /\ Loose(d, p, {}) /\ Settling(c.out, reason) /\ c.closing
  BY <1>0, OnShutdownReady
<1>2. IInv(c)
  BY <1>0, OnShutdownIInv DEF Coherent
<1>3. Matches(d, p)
  BY DEF Matches, Snapshot, Caused
<1>4. ApplyBatch(d, c, FALSE, None, None) = HandleActionFailure(s, None)
  BY DEF ApplyBatch
<1>5. ShutDown(d, reason) = FinishCloseIfReady(BeginClosing(ApplyBatch(d, c, FALSE, None, None),
                                                            reason, Immediate))
  BY DEF ShutDown
<1> HIDE DEF c, p
<1>6. Level(d, p, {})
  BY <1>0, <1>1, <1>2, <1>3, MatchReady DEF Run, Log
<1>7. /\ s.failure = None /\ Broken(s.d, R, {}, acc)
      /\ Keeps(d, s.d, {reason}) /\ Untouched(d, s.d) /\ s.d.core.closing = c.closing
  BY <1>1, SettlingBatch
<1>8. Coherent(s.d, R, {}, acc)
  BY <1>1, <1>6, <1>7, BatchCoheres
<1>9. s.d.core = Begin(c)
  <2>1. Applied(d, c, p, R, acc, s, Len(c.out))
    BY <1>1, AppliesBatch
  <2> HIDE DEF s
  <2> QED
    BY <2>1 DEF Applied
<1>10. ApplyBatch(d, c, FALSE, None, None) = s.d
  BY <1>4, <1>7 DEF HandleActionFailure
<1> HIDE DEF s
<1>11. Coherent(x, R, {}, acc)
  <2>1. s.d.closed => DOMAIN s.d.completions \subseteq DOMAIN s.d.core.open
    BY <1>8 DEF Coherent
  <2> QED
    BY <1>1, <1>7, <2>1, ImmediateCoheres
<1>12. /\ DOMAIN x = DriverFields
       /\ \A f \in DriverFields \ {"closing"} : x[f] = s.d[f]
       /\ x.closing # None /\ x.closing.barrier = None
       /\ x.closing.reason = IF s.d.closing = None THEN reason ELSE s.d.closing.reason
  BY <1>7, ImmediateEffect DEF Broken
<1> HIDE DEF x
<1>13. /\ x.core = s.d.core /\ x.closed = s.d.closed /\ x.queue = s.d.queue /\ x.bytes = s.d.bytes
       /\ x.draining = s.d.draining /\ x.nextCommand = s.d.nextCommand /\ x.held = s.d.held
       /\ x.writer = s.d.writer
  BY <1>12, ImmediateOthers
<1>14. Keeps(s.d, x, {reason}) /\ Untouched(s.d, x)
  BY <1>12, <1>13 DEF Keeps, Untouched
<1>15. Keeps(d, x, {reason}) /\ Untouched(d, x)
  BY <1>7, <1>14, KeepsTrans, UntouchedTrans
<1>16. Books(d)
  BY DEF Sound
<1>17. /\ Sound(e, R, acc) /\ Keeps(d, e, {reason}) /\ SameTask(d, e) /\ Steady(d, e)
       /\ e.core = x.core /\ e.closing = x.closing
  BY <1>11, <1>15, <1>16, RoundEnds
<1> HIDE DEF e
<1>18. Goes(d, e, R, acc, {reason})
  BY <1>17, SteadyGoes
<1>19. e.closed
  BY <1>12, <1>17 DEF Sound
<1>20. e.core = Begin(c)
  BY <1>9, <1>13, <1>17
<1> QED
  BY <1>5, <1>10, <1>17, <1>18, <1>19, <1>20 DEF c, e, x

\* on_decode_step_with_header.
LEMMA ViolationGoes ==
  ASSUME NEW d, NEW v, NEW due, NEW room, NEW R, NEW acc, Sound(d, R, acc)
  PROVE  Goes(d, ReceiveViolation(d, v, due, room), R, acc, OrdinaryReasons)
<1> DEFINE x == ProcessDueDeadlines(d, due)
<1>1. Goes(d, x, R, acc, OrdinaryReasons)
  BY TimelyGoes
<1> HIDE DEF x
<1>2. Sound(x, R, acc)
  BY <1>1 DEF Goes
<1>3. Goes(x, ViolationTimely(x, v, room), R, acc, OrdinaryReasons)
  <2>1. CASE x.closing # None \/ (room /\ v = None)
    <3>1. ViolationTimely(x, v, room) = x
      BY <2>1 DEF ViolationTimely
    <3> QED
      BY <1>2, <3>1, GoesNowhere
  <2>2. CASE x.closing = None /\ ~room
    <3> DEFINE reason == "ApplicationBackpressure"
               e == ShutDown(x, reason)
    <3>1. ViolationTimely(x, v, room) = e
      BY <2>2 DEF ViolationTimely
    <3>2. reason \in OrdinaryReasons
      BY DEF OrdinaryReasons, RefusalReasons
    <3>3. reason \in AllReasons
      BY <3>2, OrdinaryReasonsAre
    <3> HIDE DEF reason
    <3>4. Goes(x, e, R, acc, {reason})
      BY <1>2, <3>3, ShutDownGoes
    <3> HIDE DEF e
    <3>5. {reason} \subseteq OrdinaryReasons
      BY <3>2
    <3>6. Keeps(x, e, OrdinaryReasons)
      BY <3>4, <3>5, KeepsMore DEF Goes
    <3> QED
      BY <3>1, <3>4, <3>6 DEF Goes
  <2>3. CASE x.closing = None /\ room /\ v # None
    <3> DEFINE c == OnInboundViolation(x.core, v)
               e == Apply(x, c)
    <3>1. ViolationTimely(x, v, room) = e
      BY <2>3 DEF ViolationTimely
    <3>2. IInv(x.core) /\ Traced(x.core)
      BY <1>2 DEF Sound, Coherent
    <3>3. IInv(c)
      BY <3>2, OnInboundViolationIInv
    <3>4. Run(Hearing(Snapshot(x.core, {}, UnresolvedCommands(x.core)), {}), x.core.state, c)
      BY <3>2, RunOnInboundViolation, RunHears
    <3> HIDE DEF c
    <3>5. /\ Sound(e, R, acc) /\ Keeps(x, e, OrdinaryReasons) /\ SameTask(x, e) /\ Steady(x, e)
      BY <1>2, <3>3, <3>4, OrdinaryRound
    <3> HIDE DEF e
    <3> QED
      BY <3>1, <3>5, SteadyGoes
  <2> QED
    BY <2>1, <2>2, <2>3
<1>4. ReceiveViolation(d, v, due, room) = ViolationTimely(x, v, room)
  BY DEF ReceiveViolation, x
<1> QED
  BY <1>1, <1>3, <1>4, GoesOn

\* Neither Core nor what Driver holds for it has changed.
SameCore(d, e) ==
  /\ e.core = d.core /\ e.completions = d.completions /\ e.admitted = d.admitted
  /\ e.closing = d.closing

\* A dequeued command that is refused: its operation is answered.
LEMMA RejectedSound ==
  ASSUME NEW d, NEW R, NEW acc, NEW error, Sound(d, R, acc), d.queue # <<>>
  PROVE  LET e == Rejected(DequeueCommand(d), Head(d.queue), error)
         IN  Goes(d, e, R, acc, {}) /\ Steady(d, e) /\ SameCore(d, e)
<1> DEFINE x == DequeueCommand(d)
           h == Head(d.queue)
           e == Rejected(x, h, error)
<1>0. Formed(d) /\ Books(d) /\ Owner(d, acc) /\ IsBatch(d.queue)
  BY DEF Sound, Coherent, Books, Chargeable
<1>1. /\ DOMAIN x = DriverFields
      /\ \A f \in DriverFields \ {"queue", "bytes"} : x[f] = d[f]
      /\ x.queue = Tail(d.queue) /\ x.bytes = d.bytes - h.charge
  BY <1>0, DequeuedEffect DEF Formed
<1> HIDE DEF x, h
<1>2. /\ DOMAIN e = DriverFields
      /\ \A f \in DriverFields \ {"answers", "held"} : e[f] = x[f]
      /\ DOMAIN e.answers = Operations
      /\ \A op \in Operations :
           e.answers[op] = IF op = h.op THEN Append(x.answers[op], error) ELSE x.answers[op]
  BY <1>1 DEF Rejected, Answer, DriverFields
<1> HIDE DEF e
<1>3. /\ e.core = d.core /\ e.completions = d.completions /\ e.admitted = d.admitted
      /\ e.closing = d.closing /\ e.closed = d.closed /\ e.nextCommand = d.nextCommand
      /\ e.writer = d.writer /\ e.inbound = d.inbound /\ e.draining = d.draining
      /\ e.queue = Tail(d.queue) /\ e.bytes = d.bytes - h.charge /\ x.answers = d.answers
  BY <1>1, <1>2 DEF DriverFields
<1>4. Owner(e, acc)
  <2>1. \A op \in Operations : e.answers[op] = IF op = Head(d.queue).op
                                               THEN Append(d.answers[op], error) ELSE d.answers[op]
    BY <1>2, <1>3 DEF h
  <2> QED
    BY <1>0, <1>2, <1>3, <2>1, OwnerAnswersHead
<1>5. e.nextCommand \in 0..CommandSpace
  BY <1>0, <1>3 DEF Books
<1>6. Books(e)
  BY <1>0, <1>3, <1>5, DequeuedBooks DEF h
<1>7. Formed(e)
  BY <1>0, <1>2, <1>3 DEF Formed
<1>8. /\ Line(e.writer.queue, R, e.admitted, e.writer.live) /\ Worker(e.writer)
      /\ IsBatch(e.inbound) /\ Len(e.inbound) <= InboundCapacity
  BY <1>3 DEF Sound, Coherent
<1>9. Sound(e, R, acc)
  BY <1>3, <1>4, <1>6, <1>7, <1>8, SoundTransfer
<1>10. Keeps(d, e, {}) /\ SameTask(d, e) /\ Steady(d, e) /\ SameCore(d, e)
  BY <1>3 DEF Keeps, SameTask, Steady, SameCore
<1> QED
  BY <1>9, <1>10, SteadyGoes DEF e, x, h

\* What the handler of a new command starts from.
LEMMA AcceptingParts ==
  ASSUME NEW c, NEW k, NEW kind, IInv(c)
  PROVE  LET p == Accepting(c, k, kind)
         IN  /\ p.open = Put(c.open, k, kind)
             /\ p.nextWrite = c.nextWrite /\ p.nextReply = c.nextReply /\ p.closing = c.closing
             /\ p.pending = DOMAIN c.pending
             /\ \A w \in DOMAIN c.pending : p.kinds[w] = c.pending[w].kind
             /\ p.told = {<<k, "Backpressure">>} /\ p.permit = (kind # "Control")
             /\ p.cause = "LocalSeparate"
<1> DEFINE b == Begin(c)
           o == [b EXCEPT !.open = Put(@, k, kind)]
<1>1. DOMAIN b = Fields /\ \A f \in Fields \ {"out"} : b[f] = c[f]
  BY BeginIInv DEF IInv, Weak, Shape
<1> HIDE DEF b
<1>2. /\ o.open = Put(c.open, k, kind) /\ o.nextWrite = c.nextWrite /\ o.nextReply = c.nextReply
      /\ o.closing = c.closing /\ o.pending = c.pending
  BY <1>1 DEF Fields
<1>3. o = Opening(c, k, kind)
  BY DEF Opening, b
<1> HIDE DEF o
<1> QED
  BY <1>2, <1>3 DEF Accepting, Permitted, Snapshot

\* The Writer that a batch meets admits frames only if the one that reserved did.
LEMMA MetWriter ==
  ASSUME NEW w, NEW fails, DOMAIN w = WriterFields, Worker(w)
  PROVE  LET m == MetAtAdmission(w, fails)
         IN  /\ DOMAIN m = WriterFields /\ Worker(m)
             /\ \A f \in WriterFields \ {"fault", "open"} : m[f] = w[f]
<1>1. CASE fails /\ w.live /\ ~w.fault /\ w.queue # <<>>
  <2> DEFINE m == FaultedWriter(w)
  <2>1. MetAtAdmission(w, fails) = m
    BY <1>1 DEF MetAtAdmission
  <2>2. /\ DOMAIN m = WriterFields /\ \A f \in WriterFields \ {"fault", "open"} : m[f] = w[f]
        /\ m.fault /\ ~m.open
    BY DEF FaultedWriter, WriterFields
  <2> HIDE DEF m
  <2>3. m.live = w.live /\ m.reports = w.reports
    BY <2>2 DEF WriterFields
  <2>4. Worker(m)
    BY <1>1, <2>2, <2>3 DEF Worker
  <2> QED
    BY <2>1, <2>2, <2>4
<1>2. CASE ~(fails /\ w.live /\ ~w.fault /\ w.queue # <<>>)
  BY <1>2 DEF MetAtAdmission
<1> QED
  BY <1>1, <1>2

\* The kinds of the commands Driver presents.
LEMMA PresentedKind ==
  ASSUME NEW h, h.kind \in CommandNames \cup {"Reply"}
  PROVE  /\ CompletionKind(h) \in CommandKinds
         /\ CompletionKind(h) # "Control" => RequiresDataPermit(h)
         /\ ~IsReply(h) => h.kind \in CommandNames /\ CompletionKind(h) = OpenKind(h.kind)
         /\ IsReply(h) => CompletionKind(h) = IF h.intent = "Abandon" THEN "Control" ELSE "Send"
BY DEF CompletionKind, CommandKinds, RequiresDataPermit, IsReply, OpenKind, CommandNames,
       ControlCommands

\* The head of the queue moved to the completion table, as drive_next_command has it
\* when Core's batch comes.
Presented(d, n, kind) ==
  /\ DOMAIN n = DriverFields
  /\ \A f \in DriverFields \ {"queue", "bytes", "nextCommand", "writer", "completions"} :
       n[f] = d[f]
  /\ n.queue = Tail(d.queue) /\ n.bytes = d.bytes - Head(d.queue).charge
  /\ n.nextCommand = d.nextCommand + 1
  /\ n.completions = Put(d.completions, d.nextCommand, [op |-> Head(d.queue).op, kind |-> kind])
  /\ DOMAIN n.writer = WriterFields /\ Worker(n.writer)
  /\ \A f \in WriterFields \ {"fault", "open"} : n.writer[f] = d.writer[f]

\* Its handler may be applied.
LEMMA PresentedReady ==
  ASSUME NEW d, NEW n, NEW c, NEW kind \in CommandKinds, NEW permit, NEW written, NEW R, NEW acc,
         Sound(d, R, acc), d.queue # <<>>, d.closing = None, d.nextCommand < CommandSpace,
         Presented(d, n, kind), kind # "Control" => permit, IInv(c), IsBatch(c.out)
  PROVE  LET p == Accepting(d.core, d.nextCommand, kind)
         IN  /\ Ready(n, c, p, permit, written, R, acc) /\ Level(n, p, {}) /\ Books(n)
             /\ d.nextCommand \in Commands \ DOMAIN d.core.open
<1> DEFINE k == d.nextCommand
           p == Accepting(d.core, k, kind)
           h == Head(d.queue)
<1>0. /\ Formed(d) /\ Books(d) /\ Owner(d, acc) /\ IsBatch(d.queue) /\ IInv(d.core)
      /\ k \in 0..CommandSpace
  BY DEF Sound, Coherent, Books, Chargeable
<1>1. /\ p.open = Put(d.core.open, k, kind)
      /\ p.nextWrite = d.core.nextWrite /\ p.nextReply = d.core.nextReply
      /\ p.closing = d.core.closing /\ p.pending = DOMAIN d.core.pending
      /\ p.told = {<<k, "Backpressure">>} /\ p.permit = (kind # "Control")
      /\ p.cause = "LocalSeparate"
  BY <1>0, AcceptingParts
<1> HIDE DEF p
<1>2. k \in Nat /\ CommandSpace \in Nat /\ k \in Commands
  BY <1>0, DriverAssumption
<1>3. /\ n.core = d.core /\ n.inbound = d.inbound /\ n.admitted = d.admitted
      /\ n.closing = d.closing /\ n.closed = d.closed /\ n.answers = d.answers
      /\ n.queue = Tail(d.queue) /\ n.bytes = d.bytes - h.charge /\ n.nextCommand = k + 1
      /\ n.completions = Put(d.completions, k, [op |-> h.op, kind |-> kind])
      /\ n.draining = d.draining
      /\ n.writer.queue = d.writer.queue /\ n.writer.live = d.writer.live
  BY DEF Presented, DriverFields, WriterFields
<1>4. \A j \in DOMAIN d.completions : j \in Commands /\ j < k /\ d.completions[j].kind \in CommandKinds
  BY DEF Sound, Coherent
<1>5. k \notin DOMAIN d.completions /\ k \notin DOMAIN d.core.open
  <2>1. k \notin DOMAIN d.completions
    BY <1>2, <1>4
  <2> QED
    BY <2>1 DEF Sound, Coherent
<1>6. /\ DOMAIN n.completions = DOMAIN d.completions \cup {k}
      /\ n.completions[k].kind = kind
      /\ \A j \in DOMAIN d.completions : n.completions[j] = d.completions[j]
  BY <1>3, <1>5 DEF Put
<1>7. /\ DOMAIN p.open = DOMAIN d.core.open \cup {k} /\ p.open[k] = kind
      /\ \A j \in DOMAIN d.core.open : p.open[j] = d.core.open[j]
  BY <1>1, <1>5 DEF Put
<1>8. Owner(n, acc)
  BY <1>0, <1>3, <1>5, OwnerPresentsHead
<1>9. Books(n)
  <2>1. k + 1 \in 0..CommandSpace
    BY <1>2
  <2> QED
    BY <1>0, <1>3, <2>1, DequeuedBooks
<1>10. Formed(n)
  BY DEF Presented, Formed
<1>11. p.cause \in AllReasons
  BY <1>1, OrdinaryReasonsAre
<1>12. \A j \in DOMAIN p.open : j \in DOMAIN n.completions /\ n.completions[j].kind = p.open[j]
  <2>1. \A j \in DOMAIN d.core.open : j \in DOMAIN d.completions /\ d.completions[j].kind = d.core.open[j]
    BY DEF Sound, Coherent
  <2> QED
    BY <1>6, <1>7, <2>1
<1>13. \A j : <<j, "Ok">> \notin p.told
  BY <1>1
<1>14. Ready(n, c, p, permit, written, R, acc)
  <2>1. /\ p.nextWrite \in Nat /\ \A w \in n.admitted : w \in Nat /\ w < p.nextWrite
    BY <1>0, <1>1, <1>3, SpaceAssumption DEF Sound, Coherent, IInv, Weak, Shape
  <2>2. Line(n.writer.queue, R, n.admitted, n.writer.live) /\ Worker(n.writer)
    BY <1>3 DEF Sound, Coherent, Presented
  <2>3. n.closing = None /\ IsBatch(n.inbound) /\ Len(n.inbound) <= InboundCapacity
    BY <1>3 DEF Sound, Coherent
  <2>4. p.permit => permit
    BY <1>1
  <2> QED
    BY <1>8, <1>10, <1>11, <1>12, <1>13, <2>1, <2>2, <2>3, <2>4 DEF Ready
<1>15. Loose(n, p, {})
  <2>1. \A j \in DOMAIN n.completions :
          j \in Commands /\ j < n.nextCommand /\ n.completions[j].kind \in CommandKinds
    <3>1. \A j \in DOMAIN d.completions : j \in Commands /\ j < k + 1 /\ n.completions[j].kind \in CommandKinds
      BY <1>2, <1>4, <1>6, DriverAssumption
    <3>2. k \in Commands /\ k < k + 1 /\ n.completions[k].kind \in CommandKinds
      BY <1>2, <1>6
    <3> QED
      BY <1>3, <1>6, <3>1, <3>2
  <2>2. n.closing = None /\ ~n.closed
    BY <1>3 DEF Sound, Coherent
  <2>3. n.admitted \ {} \subseteq p.pending /\ {} \cap p.pending = {}
    BY <1>1, <1>3 DEF Sound, Coherent
  <2> QED
    BY <1>0, <1>1, <1>3, <2>1, <2>2, <2>3 DEF Loose
<1>16. Level(n, p, {})
  <2>1. ~p.closing /\ n.closing = None /\ p.pending \subseteq n.admitted
    BY <1>1, <1>3 DEF Sound, Coherent
  <2>2. DOMAIN n.completions \subseteq DOMAIN p.open
    <3>1. DOMAIN d.completions \subseteq DOMAIN d.core.open
      BY DEF Sound, Coherent
    <3> QED
      BY <1>6, <1>7, <3>1
  <2> QED
    BY <1>15, <2>1, <2>2 DEF Level
<1> QED
  BY <1>2, <1>5, <1>9, <1>14, <1>16 DEF p

\* What a command may close for: running out of CommandIds is a runtime invariant.
CommandReasons(e) ==
  OrdinaryReasons \cup (IF e.nextCommand = CommandSpace THEN {"RuntimeInvariant"} ELSE {})

\* The Driver that the batch of a new command meets.
LEMMA PresentedEffect ==
  ASSUME NEW d, NEW h, NEW fails, NEW R, NEW acc, Sound(d, R, acc), h = Head(d.queue),
         d.nextCommand < CommandSpace
  PROVE  LET x == DequeueCommand(d)
             n == [x EXCEPT !.nextCommand = @ + 1, !.writer = MetAtAdmission(@, fails),
                            !.completions = Put(@, x.nextCommand,
                                                [op |-> h.op, kind |-> CompletionKind(h)])]
         IN  /\ Presented(d, n, CompletionKind(h))
             /\ x.nextCommand = d.nextCommand /\ x.core = d.core
<1> DEFINE x == DequeueCommand(d)
           kind == CompletionKind(h)
<1>1. /\ DOMAIN x = DriverFields
      /\ \A f \in DriverFields \ {"queue", "bytes"} : x[f] = d[f]
      /\ x.queue = Tail(d.queue) /\ x.bytes = d.bytes - h.charge
  BY DequeuedEffect DEF Sound, Coherent, Formed
<1> HIDE DEF x, kind
<1>2. /\ x.nextCommand = d.nextCommand /\ x.writer = d.writer /\ x.completions = d.completions
      /\ x.core = d.core
  BY <1>1 DEF DriverFields
<1> DEFINE m == MetAtAdmission(d.writer, fails)
           t == Put(d.completions, d.nextCommand, [op |-> h.op, kind |-> kind])
           n == [x EXCEPT !.nextCommand = d.nextCommand + 1, !.writer = m, !.completions = t]
<1>3. /\ DOMAIN m = WriterFields /\ Worker(m)
      /\ \A f \in WriterFields \ {"fault", "open"} : m[f] = d.writer[f]
  BY MetWriter DEF Sound, Coherent, Formed
<1> HIDE DEF m, t
<1>4. /\ DOMAIN n = DriverFields
      /\ \A f \in DriverFields \ {"queue", "bytes", "nextCommand", "writer", "completions"} :
           n[f] = d[f]
      /\ n.queue = Tail(d.queue) /\ n.bytes = d.bytes - h.charge
      /\ n.nextCommand = d.nextCommand + 1 /\ n.completions = t /\ n.writer = m
  BY <1>1 DEF DriverFields
<1>5. n = [x EXCEPT !.nextCommand = @ + 1, !.writer = MetAtAdmission(@, fails),
                    !.completions = Put(@, x.nextCommand, [op |-> h.op, kind |-> kind])]
  BY <1>1, <1>2 DEF m, t, DriverFields
<1> HIDE DEF n
<1>6. Presented(d, n, kind)
  BY <1>3, <1>4 DEF Presented, t
<1> QED
  BY <1>2, <1>5, <1>6 DEF kind, x

\* drive_next_command with a reserved slot.
LEMMA PresentGoes ==
  ASSUME NEW d, NEW fails, NEW R, NEW acc, Sound(d, R, acc), d.queue # <<>>, d.closing = None
  PROVE  LET e == PresentCommand(DequeueCommand(d), Head(d.queue), fails)
         IN  Goes(d, e, R, acc, CommandReasons(e))
<1> DEFINE h == Head(d.queue)
           x == DequeueCommand(d)
           k == d.nextCommand
           e == PresentCommand(x, h, fails)
           kind == CompletionKind(h)
<1>1. /\ k \in 0..CommandSpace /\ CommandSpace \in Nat
      /\ h.kind \in CommandNames \cup {"Reply"}
  <2>1. 1 \in DOMAIN d.queue /\ h = d.queue[1]
    BY RestOfBatch DEF Sound, Books, Chargeable
  <2> QED
    BY <2>1, DriverAssumption DEF Sound, Books
<1>2. x.nextCommand = k
  BY DequeuedEffect DEF Sound, Coherent, Formed, DriverFields
<1> HIDE DEF h
<1>3. CASE k = CommandSpace
  <2> DEFINE y == Rejected(x, h, "ConnectionLost")
             reason == "RuntimeInvariant"
             z == ShutDown(y, reason)
  <2>1. e = z
    BY <1>2, <1>3 DEF PresentCommand
  <2>2. Goes(d, y, R, acc, {}) /\ y.nextCommand = k
    BY RejectedSound DEF Steady, h
  <2>3. Sound(y, R, acc)
    BY <2>2 DEF Goes
  <2>4. reason \in AllReasons
    BY DEF AllReasons, GenerationReasons
  <2> HIDE DEF x, y, reason, e
  <2>5. Goes(y, z, R, acc, {reason}) /\ Steady(y, z)
    BY <2>3, <2>4, ShutDownGoes
  <2> HIDE DEF z
  <2>6. Goes(d, z, R, acc, {reason})
    BY <2>2, <2>5, GoesOn
  <2>7. z.nextCommand = CommandSpace
    BY <1>3, <2>2, <2>5 DEF Steady
  <2>8. {reason} \subseteq CommandReasons(z)
    BY <2>7 DEF CommandReasons, reason
  <2>9. Keeps(d, z, CommandReasons(z))
    BY <2>6, <2>8, KeepsMore DEF Goes
  <2>10. Goes(d, z, R, acc, CommandReasons(z))
    BY <2>6, <2>9 DEF Goes
  <2> QED
    BY <2>1, <2>10 DEF e, x, h
<1>4. CASE k # CommandSpace
  <2>0. k < CommandSpace /\ k \in Nat
    BY <1>1, <1>4
  <2> DEFINE n == [x EXCEPT !.nextCommand = @ + 1, !.writer = MetAtAdmission(@, fails),
                            !.completions = Put(@, x.nextCommand, [op |-> h.op, kind |-> kind])]
             c == IF IsReply(h)
                  THEN OnReply(x.core, x.nextCommand, h.token.capability, h.intent, h.body, FALSE)
                  ELSE OnCommand(x.core, x.nextCommand, h.kind, h.primary)
             permit == RequiresDataPermit(h)
             y == ApplyBatch(n, c, permit, None, None)
  <2>1. e = FinishCloseIfReady(y)
    BY <1>2, <1>4 DEF PresentCommand
  <2>2. Presented(d, n, kind) /\ x.core = d.core
    BY <2>0, PresentedEffect DEF h
  <2>3. /\ kind \in CommandKinds /\ (kind # "Control" => permit)
        /\ ~IsReply(h) => h.kind \in CommandNames /\ kind = OpenKind(h.kind)
        /\ IsReply(h) => kind = IF h.intent = "Abandon" THEN "Control" ELSE "Send"
    BY <1>1, PresentedKind
  <2>4. k \in Commands \ DOMAIN d.core.open
    <3>1. k \in Commands
      BY <1>1, <2>0, DriverAssumption
    <3>2. k \notin DOMAIN d.completions
      BY <2>0, DriverAssumption DEF Sound, Coherent
    <3> QED
      BY <3>1, <3>2 DEF Sound, Coherent
  <2>5. IInv(d.core) /\ Traced(d.core)
    BY DEF Sound, Coherent
  <2> HIDE DEF kind, permit, n, x
  <2> DEFINE p == Accepting(d.core, k, kind)
  <2>6. IInv(c) /\ Run(p, d.core.state, c)
    <3>1. CASE IsReply(h)
      <4>1. c = OnReply(d.core, k, h.token.capability, h.intent, h.body, FALSE)
        BY <1>2, <2>2, <3>1
      <4>2. kind = IF h.intent = "Abandon" THEN "Control" ELSE "Send"
        BY <2>3, <3>1
      <4>3. IInv(OnReply(d.core, k, h.token.capability, h.intent, h.body, FALSE))
        BY <2>4, <2>5, OnReplyIInv
      <4>4. Run(p, d.core.state, OnReply(d.core, k, h.token.capability, h.intent, h.body, FALSE))
        BY <2>4, <2>5, <4>2, RunOnReply
      <4> QED
        BY <4>1, <4>3, <4>4
    <3>2. CASE ~IsReply(h)
      <4>1. c = OnCommand(d.core, k, h.kind, h.primary)
        BY <1>2, <2>2, <3>2
      <4>2. kind = OpenKind(h.kind) /\ h.kind \in CommandNames
        BY <2>3, <3>2
      <4>3. IInv(OnCommand(d.core, k, h.kind, h.primary))
        BY <2>4, <2>5, <4>2, OnCommandIInv
      <4>4. Run(p, d.core.state, OnCommand(d.core, k, h.kind, h.primary))
        BY <2>4, <2>5, <4>2, RunOnCommand
      <4> QED
        BY <4>1, <4>3, <4>4
    <3> QED
      BY <3>1, <3>2
  <2> HIDE DEF c
  <2>7. IsBatch(c.out)
    BY <2>6 DEF Run, Log
  <2>8. PICK none : none = None
    OBVIOUS
  <2>9. PICK first \in AllReasons \cup {None} : first = None
    OBVIOUS
  <2>10. /\ Ready(n, c, p, permit, none, R, acc) /\ Level(n, p, {}) /\ Books(n)
    BY <2>0, <2>2, <2>3, <2>6, <2>7, PresentedReady
  <2>11. p.cause \in OrdinaryReasons
    BY <2>5, AcceptingParts, OrdinaryReasonsAre
  <2> HIDE DEF p
  <2>12. Reasoned(c, OrdinaryReasons)
    BY <2>6, <2>11, RunReasons
  <2>13. Allows(first, OrdinaryReasons)
    BY <2>9, OrdinaryReasonsAre DEF Allows
  <2> DEFINE q == ApplyBatch(n, c, permit, none, first)
             g == FinishCloseIfReady(q)
  <2>14. Coherent(q, R, {}, acc) /\ Keeps(n, q, OrdinaryReasons) /\ Untouched(n, q)
    BY <2>6, <2>10, <2>12, <2>13, BatchApplied
  <2>15. e = g
    BY <2>1, <2>8, <2>9
  <2> HIDE DEF q, e, y
  <2>16. Sound(g, R, acc) /\ Keeps(n, g, OrdinaryReasons) /\ SameTask(n, g) /\ Steady(n, g)
    BY <2>10, <2>14, RoundEnds
  <2> HIDE DEF g
  <2>17. /\ n.closing = d.closing /\ n.closed = d.closed /\ n.core = d.core /\ n.nextCommand = k + 1
         /\ n.writer.reports = d.writer.reports /\ n.writer.begun = d.writer.begun
         /\ n.writer.live = d.writer.live /\ n.draining = d.draining
    BY <2>2 DEF Presented, DriverFields, WriterFields
  <2>18. Keeps(d, g, OrdinaryReasons) /\ SameTask(d, g)
    BY <2>16, <2>17 DEF Keeps, SameTask
  <2>19. d.nextCommand <= g.nextCommand
    BY <2>0, <2>16, <2>17 DEF Steady
  <2>20. OrdinaryReasons \subseteq CommandReasons(g)
    BY DEF CommandReasons
  <2>21. Keeps(d, g, CommandReasons(g))
    BY <2>18, <2>20, KeepsMore
  <2>22. g.draining = d.draining
    BY <2>16, <2>17 DEF Steady
  <2> QED
    BY <2>15, <2>16, <2>18, <2>19, <2>21, <2>22 DEF Goes, e, x, h
<1> QED
  BY <1>3, <1>4

\* The Writer's ingress is found closed.
LEMMA LostSlotGoes ==
  ASSUME NEW d, NEW R, NEW acc, Sound(d, R, acc), d.closing = None
  PROVE  LET e == FinishCloseIfReady(ShutdownAfterDriverFailure(d, "TransportLost", None))
         IN  Goes(d, e, R, acc, OrdinaryReasons) /\ Steady(d, e)
<1>1. "TransportLost" \in AllReasons /\ "TransportLost" \in OrdinaryReasons
  BY DEF AllReasons, GenerationReasons, OrdinaryReasons, RefusalReasons
<1>2. PICK reason \in AllReasons : reason = "TransportLost"
  BY <1>1
<1>3. PICK write : write = None
  OBVIOUS
<1> DEFINE f == ShutdownAfterDriverFailure(d, reason, write)
           e == FinishCloseIfReady(f)
<1>4. Coherent(d, R, {}, acc) /\ Broken(d, R, {}, acc) /\ Books(d) /\ ~d.closed
  BY CoherentIsBroken DEF Sound, Coherent
<1>5. Coherent(f, R, {}, acc) /\ Keeps(d, f, {reason}) /\ Untouched(d, f)
  BY <1>3, <1>4, FailureCoheres
<1> HIDE DEF f
<1>6. {reason} \subseteq OrdinaryReasons
  BY <1>1, <1>2
<1>7. Keeps(d, f, OrdinaryReasons)
  BY <1>5, <1>6, KeepsMore
<1>8. Sound(e, R, acc) /\ Keeps(d, e, OrdinaryReasons) /\ SameTask(d, e) /\ Steady(d, e)
  BY <1>4, <1>5, <1>7, RoundEnds
<1> HIDE DEF e
<1>9. Goes(d, e, R, acc, OrdinaryReasons)
  BY <1>8, SteadyGoes
<1> QED
  BY <1>2, <1>3, <1>8, <1>9 DEF e, f

\* drive_next_command of the head of the queue.
LEMMA HeadGoes ==
  ASSUME NEW d, NEW fails, NEW slot, NEW R, NEW acc, Sound(d, R, acc), d.queue # <<>>,
         d.closing = None
  PROVE  LET e == DriveHead(DequeueCommand(d), Head(d.queue), slot, fails)
         IN  Goes(d, e, R, acc, CommandReasons(e))
<1> DEFINE h == Head(d.queue)
           x == DequeueCommand(d)
           e == DriveHead(x, h, slot, fails)
<1> SUFFICES Goes(d, e, R, acc, CommandReasons(e))
  OBVIOUS
<1>1. ASSUME NEW error
      PROVE  /\ Goes(d, Rejected(x, h, error), R, acc, {})
             /\ Goes(d, Rejected(x, h, error), R, acc, CommandReasons(Rejected(x, h, error)))
             /\ Rejected(x, h, error).closing = None
  <2> DEFINE y == Rejected(x, h, error)
  <2>1. Goes(d, y, R, acc, {}) /\ SameCore(d, y)
    BY RejectedSound
  <2> HIDE DEF y
  <2>3. y.closing = None
    BY <2>1 DEF SameCore
  <2>2. Goes(d, y, R, acc, CommandReasons(y))
    BY <2>1, KeepsMore DEF Goes
  <2> QED
    BY <2>1, <2>2, <2>3 DEF y
<1>2. Goes(d, PresentCommand(x, h, fails), R, acc, CommandReasons(PresentCommand(x, h, fails)))
  BY PresentGoes
<1> HIDE DEF h, x
<1>3. CASE ReplyOvertaken(x, h)
  <2>1. e = Rejected(x, h, "Draining")
    BY <1>3 DEF DriveHead
  <2> HIDE DEF e
  <2> QED
    BY <1>1, <2>1
<1>4. CASE ~ReplyOvertaken(x, h) /\ slot = "ConnectionLost"
  <2> DEFINE y == Rejected(x, h, slot)
             z == FinishCloseIfReady(ShutdownAfterDriverFailure(y, "TransportLost", None))
  <2>1. e = z
    BY <1>4 DEF DriveHead
  <2>2. Goes(d, y, R, acc, {}) /\ y.closing = None
    BY <1>1
  <2> HIDE DEF y, e
  <2>3. Goes(y, z, R, acc, OrdinaryReasons)
    BY <2>2, LostSlotGoes DEF Goes
  <2> HIDE DEF z
  <2>4. Goes(d, z, R, acc, OrdinaryReasons)
    BY <2>2, <2>3, GoesOn
  <2>5. OrdinaryReasons \subseteq CommandReasons(z)
    BY DEF CommandReasons
  <2>6. Goes(d, z, R, acc, CommandReasons(z))
    BY <2>4, <2>5, KeepsMore DEF Goes
  <2> QED
    BY <2>1, <2>6
<1>5. CASE ~ReplyOvertaken(x, h) /\ slot \notin {"ConnectionLost", "Reserved"}
  <2>1. e = Rejected(x, h, slot)
    BY <1>5 DEF DriveHead
  <2> HIDE DEF e
  <2> QED
    BY <1>1, <2>1
<1>6. CASE ~ReplyOvertaken(x, h) /\ slot = "Reserved"
  <2>1. e = PresentCommand(x, h, fails)
    BY <1>6 DEF DriveHead
  <2> HIDE DEF e
  <2> QED
    BY <1>2, <2>1
<1> HIDE DEF e
<1> QED
  BY <1>3, <1>4, <1>5, <1>6

\* drive_next_command.  The queue survives the deadlines unless they close.
LEMMA CommandGoes ==
  ASSUME NEW d, NEW due, NEW fails, NEW R, NEW acc, Sound(d, R, acc), d.queue # <<>>
  PROVE  LET e == DriveNextCommand(d, due, fails)
         IN  Goes(d, e, R, acc, CommandReasons(e))
<1> DEFINE x == ProcessDueDeadlines(d, due)
           e == DriveTimely(x, fails)
<1>1. Goes(d, x, R, acc, OrdinaryReasons) /\ Waiting(d, x)
  BY TimelyGoes
<1>2. DriveNextCommand(d, due, fails) = e
  BY DEF DriveNextCommand
<1> HIDE DEF x
<1>3. Sound(x, R, acc)
  BY <1>1 DEF Goes
<1>4. Goes(x, e, R, acc, CommandReasons(e))
  <2>1. CASE x.closing # None
    <3>1. e = x
      BY <2>1 DEF DriveTimely
    <3> QED
      BY <1>3, <3>1, GoesNowhere
  <2>2. CASE x.closing = None
    <3> DEFINE slot == Slot(x, Head(x.queue))
               f == DriveHead(DequeueCommand(x), Head(x.queue), slot, fails)
    <3>1. e = f
      BY <2>2 DEF DriveTimely
    <3>2. x.queue # <<>>
      BY <1>1, <2>2 DEF Waiting
    <3> HIDE DEF slot
    <3>3. Goes(x, f, R, acc, CommandReasons(f))
      BY <1>3, <2>2, <3>2, HeadGoes
    <3> HIDE DEF e, f
    <3> QED
      BY <3>1, <3>3
  <2> QED
    BY <2>1, <2>2
<1> HIDE DEF e
<1>5. OrdinaryReasons \subseteq CommandReasons(e)
  BY DEF CommandReasons
<1>6. Goes(d, e, R, acc, CommandReasons(e))
  BY <1>1, <1>4, <1>5, GoesOn
<1> QED
  BY <1>2, <1>6

\* finish_shutdown_drain: a refused tail Separate closes for the cause of the drain.
LEMMA DrainGoes ==
  ASSUME NEW d, NEW reason \in AllReasons, NEW R, NEW acc, Sound(d, R, acc)
  PROVE  Goes(d, FinishDriverDrain(d, reason), R, acc, OrdinaryReasons \cup {reason})
<1> DEFINE x == [d EXCEPT !.draining = TRUE]
           W == OrdinaryReasons \cup {reason}
<1>1. /\ DOMAIN x = DriverFields /\ \A f \in DriverFields \ {"draining"} : x[f] = d[f]
      /\ x.draining = TRUE
  BY DEF Sound, Coherent, Formed, DriverFields
<1>2. FinishDriverDrain(d, reason) =
        FinishCloseIfReady(ApplyBatch(x, FinishShutdownDrain(d.core, reason), FALSE, None, reason))
  BY DEF FinishDriverDrain
<1> HIDE DEF x
<1>3. /\ x.core = d.core /\ x.completions = d.completions /\ x.admitted = d.admitted
      /\ x.closing = d.closing /\ x.closed = d.closed /\ x.nextCommand = d.nextCommand
      /\ x.writer = d.writer /\ x.inbound = d.inbound /\ x.queue = d.queue /\ x.bytes = d.bytes
      /\ x.answers = d.answers /\ x.draining = TRUE
  BY <1>1 DEF DriverFields
<1>4. Owner(x, acc)
  BY <1>3, OwnerSame DEF Sound, Coherent
<1>5. Sound(x, R, acc)
  <2>1. Books(x)
    BY <1>3 DEF Sound, Books
  <2>2. Formed(x)
    BY <1>1, <1>3 DEF Sound, Coherent, Formed
  <2>3. /\ Line(x.writer.queue, R, x.admitted, x.writer.live) /\ Worker(x.writer)
        /\ IsBatch(x.inbound) /\ Len(x.inbound) <= InboundCapacity
    BY <1>3 DEF Sound, Coherent
  <2> QED
    BY <1>3, <1>4, <2>1, <2>2, <2>3, SoundTransfer
<1>6. Keeps(d, x, W) /\ SameTask(d, x)
  BY <1>3 DEF Keeps, SameTask
<1> DEFINE c == FinishShutdownDrain(x.core, reason)
           p == Caused(Snapshot(x.core, {}, UnresolvedCommands(x.core)), reason)
<1>7. IInv(x.core) /\ Traced(x.core)
  BY <1>5 DEF Sound, Coherent
<1>8. IInv(c) /\ Run(p, x.core.state, c)
  BY <1>7, FinishShutdownDrainIInv, RunOnShutdown
<1>9. Matches(x, p) /\ p.cause = reason
  BY DEF Matches, Snapshot, Caused
<1> HIDE DEF c, p
<1>10. Reasoned(c, W)
  <2>1. Reasoned(c, CoreReasons \cup {reason})
    BY <1>8, <1>9, RunReasons
  <2> QED
    BY <2>1 DEF Reasoned, OrdinaryReasons
<1>11. Allows(reason, W)
  BY OrdinaryReasonsAre DEF Allows
<1>12. PICK none : none = None
  OBVIOUS
<1> DEFINE e == FinishCloseIfReady(ApplyBatch(x, c, FALSE, none, reason))
<1>13. FinishDriverDrain(d, reason) = e
  BY <1>2, <1>3, <1>12 DEF c
<1>14. /\ Sound(e, R, acc) /\ Keeps(x, e, W) /\ SameTask(x, e) /\ Steady(x, e)
       /\ Waiting(x, e)
  BY <1>5, <1>8, <1>9, <1>10, <1>11, MatchedRound
<1> HIDE DEF e, W
<1>15. Keeps(d, e, W) /\ SameTask(d, e)
  BY <1>6, <1>14, KeepsTrans DEF SameTask
<1>16. e.nextCommand = d.nextCommand /\ d.nextCommand \in Nat
  BY <1>3, <1>14, DriverAssumption DEF Steady, Sound, Books
<1>17. d.nextCommand <= e.nextCommand
  BY <1>16
<1>18. e.draining
  BY <1>3, <1>14 DEF Steady
<1> QED
  BY <1>13, <1>14, <1>15, <1>17, <1>18 DEF Goes, W

-----------------------------------------------------------------------------
(* Core after an immediate close.                                          *)

\* on_shutdown.
LEMMA OnShutdownGivesUp ==
  ASSUME NEW c, NEW reason, IInv(c)
  PROVE  GivenUp(OnShutdown(c, reason)) /\ GivenUp(Begin(OnShutdown(c, reason)))
<1> DEFINE b == Begin(c)
           d == CompleteAll(b, "ConnectionLost")
           e == RequestClose(d, reason, Immediate)
<1>1. OnShutdown(c, reason) = e
  BY DEF OnShutdown, CloseAll
<1>2. Weak(b)
  BY BeginIInv DEF IInv
<1> HIDE DEF b
<1>3. Weak(d) /\ GivenUp(d)
  BY <1>2, CompleteAllWeak, CompleteAllGivesUp
<1>4. DOMAIN d = Fields
  BY <1>3 DEF Weak, Shape
<1> HIDE DEF d
<1>5. GivenUp(e)
  BY <1>3, <1>4, RequestCloseGivesUp
<1>6. DOMAIN e = Fields
  BY <1>3, RequestCloseEffect DEF Weak, Shape
<1> HIDE DEF e
<1>7. GivenUp(Begin(e))
  BY <1>5, <1>6 DEF GivenUp, Begin, Fields
<1> QED
  BY <1>1, <1>5, <1>7

\* on_write_outcome_at while closing leaves no command that waits for anything else.
LEMMA OutcomeGivesUp ==
  ASSUME NEW c0, NEW w \in DOMAIN c0.pending, IInv(c0), c0.closing, GivenUp(c0),
         NEW outcome \in Outcomes, NEW due
  PROVE  GivenUp(OnWriteOutcome(c0, w, outcome, due))
<1> DEFINE write == c0.pending[w]
           k == write.command
           b == Removed(c0, w)
           overtaken == /\ outcome = "Committed"
                        /\ write.kind \in {"TransactionRequest", "DataRequest"}
                        /\ k # None
                        /\ k \in DOMAIN b.deferred
           applied == CASE outcome = "Committed"     -> CommitWrite(b, w, write)
                        [] outcome = "NotWritten"    ->
                             FinishFailedWrite(b, w, write, "ConnectionLost")
                        [] outcome = "Indeterminate" ->
                             FinishFailedWrite(b, w, write, "DeliveryIndeterminate")
<1>1. OnWriteOutcome(c0, w, outcome, due) =
        IF overtaken THEN CompleteError([b EXCEPT !.deferred = Drop(@, {k})], k, b.deferred[k])
        ELSE ExpireDeadlines(applied, due)
  <2> DEFINE c == IF outcome = "Committed" /\ ~c0.closing THEN RecordActivity(b) ELSE b
             late == /\ outcome = "Committed"
                     /\ write.kind \in {"TransactionRequest", "DataRequest"}
                     /\ k # None
                     /\ k \in DOMAIN c.deferred
             done == CASE outcome = "Committed"     -> CommitWrite(c, w, write)
                       [] outcome = "NotWritten"    ->
                            FinishFailedWrite(c, w, write, "ConnectionLost")
                       [] outcome = "Indeterminate" ->
                            FinishFailedWrite(c, w, write, "DeliveryIndeterminate")
  <2>1. OnWriteOutcome(c0, w, outcome, due) =
          IF late THEN CompleteError([c EXCEPT !.deferred = Drop(@, {k})], k, c.deferred[k])
          ELSE ExpireDeadlines(done, due)
    BY DEF OnWriteOutcome, Removed
  <2>2. c = b
    OBVIOUS
  <2> HIDE DEF c
  <2> QED
    BY <2>1, <2>2
<1>2. /\ DOMAIN b = Fields
      /\ \A f \in Fields \ {"pending", "out"} : b[f] = c0[f]
      /\ Shape(b)
      /\ k # None => k \in DOMAIN b.open /\ b.open[k] = KindFor(write.kind)
  BY RemovedEffect
<1>3. /\ b.open = c0.open /\ b.deferred = c0.deferred /\ b.closing
      /\ b.active = None /\ DOMAIN b.data = {}
  BY <1>2 DEF Fields, IInv, Closed
<1>4. GivenUp(b)
  BY <1>3 DEF GivenUp
<1>5. ASSUME overtaken
      PROVE  GivenUp(CompleteError([b EXCEPT !.deferred = Drop(@, {k})], k, b.deferred[k]))
  <2> DEFINE x == [b EXCEPT !.deferred = Drop(@, {k})]
             error == b.deferred[k]
             r == EmitCompletion(x, {k}, error)
  <2>1. /\ DOMAIN x = Fields
        /\ \A f \in Fields \ {"deferred"} : x[f] = b[f]
        /\ DOMAIN x.deferred = DOMAIN b.deferred \ {k}
    BY <1>2 DEF Fields, Drop
  <2> HIDE DEF x, b, error
  <2>2. Shape(x)
    BY <1>2, <2>1 DEF Shape, Fields
  <2>3. x.open = b.open
    BY <2>1 DEF Fields
  <2>4. k \in DOMAIN x.open /\ x.open[k] \in CommandKinds
    BY <1>2, <1>5, <2>2, <2>3 DEF Shape
  <2>5. CompleteError(x, k, error) = r
    BY <2>4 DEF CompleteError, CompleteAs
  <2>6. DOMAIN r.open = DOMAIN x.open \ {k} /\ DOMAIN r.deferred = DOMAIN x.deferred \ {k}
    BY <2>2, EmitCompletionEffect
  <2> HIDE DEF r
  <2>7. GivenUp(r)
    BY <1>4, <2>1, <2>3, <2>6 DEF GivenUp
  <2> QED
    BY <2>5, <2>7 DEF x, error
<1>6. GivenUp(applied) /\ applied.closing
  <2>1. CASE outcome = "Committed"
    <3>1. applied = CommitWrite(b, w, write)
      BY <2>1
    <3> HIDE DEF b, applied
    <3>2. CASE write.kind \in {"DataSend", "Separate"} /\ k # None
      <4> DEFINE r == EmitCompletion(b, {k}, "Ok")
      <4>1. CommitWrite(b, w, write) = r
        BY <1>2, <1>3, <3>2 DEF CommitWrite, CompleteSend, CompleteControl, CompleteAs, KindFor
      <4>2. /\ DOMAIN r.open = DOMAIN b.open \ {k} /\ DOMAIN r.deferred = DOMAIN b.deferred \ {k}
            /\ \A f \in Fields \ {"open", "deferred", "pending", "out"} : r[f] = b[f]
        BY <1>2, EmitCompletionEffect
      <4> HIDE DEF r
      <4>3. GivenUp(r) /\ r.closing
        BY <1>3, <1>4, <4>2 DEF GivenUp, Fields
      <4> QED
        BY <3>1, <4>1, <4>3
    <3>3. CASE ~(write.kind \in {"DataSend", "Separate"} /\ k # None)
      <4>1. CommitWrite(b, w, write) = b
        BY <1>3, <3>3 DEF CommitWrite
      <4> QED
        BY <1>3, <1>4, <3>1, <4>1
    <3> QED
      BY <3>2, <3>3
  <2>2. CASE outcome # "Committed"
    <3>1. PICK error : applied = FinishFailedWrite(b, w, write, error)
      BY <2>2 DEF Outcomes
    <3> DEFINE x == CompleteWriteError(RemoveTransactionForWrite(b, w, write), write, error)
               y == CompleteAll(x, "ConnectionLost")
               z == RequestClose(y, "TransportLost", Immediate)
    <3>2. applied = z
      BY <3>1 DEF FinishFailedWrite
    <3>3. Weak(x)
      BY FailedWriteWeak
    <3> HIDE DEF x, applied
    <3>4. Weak(y) /\ GivenUp(y)
      BY <3>3, CompleteAllWeak, CompleteAllGivesUp
    <3> HIDE DEF y
    <3>5. DOMAIN y = Fields
      BY <3>4 DEF Weak, Shape
    <3>6. GivenUp(z) /\ z.closing
      BY <3>4, <3>5, RequestCloseGivesUp, RequestCloseEffect
    <3> QED
      BY <3>2, <3>6
  <2> QED
    BY <2>1, <2>2
<1> HIDE DEF applied, overtaken
<1>7. ExpireDeadlines(applied, due) = applied
  BY <1>6 DEF ExpireDeadlines
<1> QED
  BY <1>1, <1>5, <1>6, <1>7

-----------------------------------------------------------------------------
(* Reports of the Writer.                                                  *)

\* What the handler of a write's outcome starts from.
LEMMA ReportedParts ==
  ASSUME NEW c, NEW w \in DOMAIN c.pending, NEW outcome \in Outcomes, IInv(c)
  PROVE  LET p == Reported(c, w, outcome)
         IN  /\ p.open = c.open /\ p.nextWrite = c.nextWrite /\ p.nextReply = c.nextReply
             /\ p.closing = c.closing /\ ~p.permit /\ p.cause = "LocalSeparate"
             /\ p.pending = DOMAIN c.pending \ {w}
             /\ \A b \in DOMAIN c.pending \ {w} : p.kinds[b] = c.pending[b].kind
<1> DEFINE b == Removed(c, w)
<1>1. /\ b.open = c.open /\ b.nextWrite = c.nextWrite /\ b.nextReply = c.nextReply
      /\ b.closing = c.closing
      /\ DOMAIN b.pending = DOMAIN c.pending \ {w}
      /\ \A x \in DOMAIN c.pending \ {w} : b.pending[x] = c.pending[x]
  BY RemovedEffect DEF IInv, Weak, Shape, Fields
<1> HIDE DEF b
<1>2. \A told, bound :
        LET q == Snapshot(b, told, bound)
        IN  /\ q.open = c.open /\ q.nextWrite = c.nextWrite /\ q.nextReply = c.nextReply
            /\ q.closing = c.closing /\ ~q.permit /\ q.cause = "LocalSeparate"
            /\ q.pending = DOMAIN c.pending \ {w}
            /\ \A x \in DOMAIN c.pending \ {w} : q.kinds[x] = c.pending[x].kind
  BY <1>1 DEF Snapshot
<1>3. \E told, bound : Reported(c, w, outcome) = Snapshot(b, told, bound)
  BY DEF Reported, Ending, Outcomes, b
<1> QED
  BY <1>2, <1>3

\* While closing, a step of Driver leaves given up what Core has given up.
StaysGivenUp(d, e) == d.closing # None /\ GivenUp(d.core) => GivenUp(e.core)

\* on_write_outcome of an admitted write, up to its removal from the books.
LEMMA OutcomeApplied ==
  ASSUME NEW d, NEW w \in d.admitted, NEW outcome \in Outcomes, NEW late, NEW R, NEW acc,
         Sound(d, R, acc)
  PROVE  LET e == OutcomeTimely(d, w, outcome, late)
         IN  /\ Coherent(e, R, {w}, acc) /\ Keeps(d, e, OrdinaryReasons) /\ Untouched(d, e)
             /\ StaysGivenUp(d, e)
<1> DEFINE c == OnWriteOutcome(d.core, w, outcome, late)
           p == Reported(d.core, w, outcome)
<1>1. w \in DOMAIN d.core.pending /\ IInv(d.core) /\ Traced(d.core) /\ d.core.nextWrite \in Nat
  BY SpaceAssumption DEF Sound, Coherent, IInv, Weak, Shape
<1>2. IInv(c) /\ Run(p, d.core.state, c)
  BY <1>1, OnWriteOutcomeIInv, RunOnWriteOutcome
<1>3. /\ p.open = d.core.open /\ p.nextWrite = d.core.nextWrite /\ p.nextReply = d.core.nextReply
      /\ p.closing = d.core.closing /\ ~p.permit /\ p.cause = "LocalSeparate"
      /\ p.pending = DOMAIN d.core.pending \ {w}
      /\ \A b \in DOMAIN d.core.pending \ {w} : p.kinds[b] = d.core.pending[b].kind
  BY <1>1, ReportedParts
<1> HIDE DEF c, p
<1>4. IsBatch(c.out) /\ p.cause \in AllReasons /\ p.cause \in OrdinaryReasons
  BY <1>2, <1>3, OrdinaryReasonsAre DEF Run, Log
<1>5. Ready(d, c, p, FALSE, w, R, acc)
  BY <1>1, <1>2, <1>3, <1>4 DEF Ready, Sound, Coherent
<1>6. Loose(d, p, {w})
  BY <1>1, <1>3 DEF Loose, Sound, Coherent
<1>7. Level(d, p, {w})
  <2>1. d.closing # None /\ d.closing.barrier # None /\ d.closing.barrier # w =>
          /\ d.closing.barrier \in d.admitted /\ p.kinds[d.closing.barrier] = "Separate"
          /\ \A b \in d.admitted : b <= d.closing.barrier
    BY <1>3 DEF Sound, Coherent
  <2>2. p.closing <=> d.closing # None
    BY <1>3 DEF Sound, Coherent
  <2>3. d.closing = None \/ d.closing.barrier # None \/ d.closed =>
          DOMAIN d.completions \subseteq DOMAIN p.open
    BY <1>3 DEF Sound, Coherent
  <2>4. d.closing = None => p.pending \subseteq d.admitted
    BY <1>3 DEF Sound, Coherent
  <2> QED
    BY <1>6, <2>1, <2>2, <2>3, <2>4 DEF Level
<1>8. Reasoned(c, OrdinaryReasons)
  BY <1>2, <1>4, RunReasons
<1>9. PICK first \in AllReasons \cup {None} : first = None
  OBVIOUS
<1>10. Allows(first, OrdinaryReasons)
  BY <1>9, OrdinaryReasonsAre DEF Allows
<1> DEFINE e == ApplyBatch(d, c, FALSE, w, first)
<1>11. Coherent(e, R, {w}, acc) /\ Keeps(d, e, OrdinaryReasons) /\ Untouched(d, e)
  BY <1>2, <1>5, <1>7, <1>8, <1>10, BatchApplied
<1>12. OutcomeTimely(d, w, outcome, late) = e
  BY <1>9 DEF OutcomeTimely, c
<1> DEFINE t == ApplyActionBatch(d, c, FALSE, w)
<1>13. e = HandleActionFailure(t, first)
  BY DEF ApplyBatch
<1>14. Applied(d, c, p, R, acc, t, Len(c.out))
  BY <1>2, <1>5, AppliesBatch
<1> HIDE DEF e, t
<1>15. ASSUME d.closing # None, GivenUp(d.core) PROVE GivenUp(e.core)
  <2>1. p.closing /\ d.core.closing
    BY <1>3, <1>15 DEF Sound, Coherent
  <2>2. t.failure = None
    BY <1>14, <2>1 DEF Applied, FailureAt
  <2>3. e.core = Begin(c)
    BY <1>13, <1>14, <2>2 DEF HandleActionFailure, Applied
  <2>4. GivenUp(c)
    BY <1>1, <1>15, <2>1, OutcomeGivesUp DEF c
  <2>5. Begin(c).open = c.open /\ Begin(c).deferred = c.deferred
    BY <1>2, BeginIInv DEF Fields
  <2> QED
    BY <2>3, <2>4, <2>5 DEF GivenUp
<1> QED
  BY <1>11, <1>12, <1>15 DEF StaysGivenUp

\* A consumed report frees its place in the line of frames.
LEMMA LineMoves ==
  ASSUME NEW q, NEW R, NEW A, NEW live, Line(q, R, A, live), R # <<>>
  PROVE  /\ Head(R).write \in A /\ IsBatch(Tail(R))
         /\ Line(q, Tail(R), A \ {Head(R).write}, live)
<1> DEFINE w == Head(R).write
           S == Tail(R)
<1>1. /\ IsBatch(S) /\ 1 \in DOMAIN R /\ Head(R) = R[1]
      /\ \A i \in DOMAIN S : i \in Nat /\ i + 1 \in DOMAIN R /\ S[i] = R[i + 1]
      /\ \A i \in DOMAIN R : i # 1 => i - 1 \in DOMAIN S
  BY RestOfBatch DEF Line
<1> HIDE DEF S
<1>2. w \in A /\ w = R[1].write
  BY <1>1 DEF Line
<1> HIDE DEF w
<1>3. \A i \in DOMAIN S : S[i].write \in A \ {w}
  <2> TAKE i \in DOMAIN S
  <2>1. i + 1 \in DOMAIN R /\ S[i] = R[i + 1]
    BY <1>1
  <2>4. i \in 1..Len(S) /\ Len(S) \in Nat
    BY <1>1, BatchShape
  <2>2. i + 1 # 1
    BY ONLY <2>4
  <2>3. R[i + 1].write # R[1].write
    BY <1>1, <2>1, <2>2 DEF Line
  <2> QED
    BY <1>2, <2>1, <2>3 DEF Line
<1>4. \A i \in DOMAIN q : q[i].write \in A \ {w}
  BY <1>1, <1>2 DEF Line
<1>5. \A i, j \in DOMAIN S : S[i].write = S[j].write => i = j
  <2> TAKE i, j \in DOMAIN S
  <2> HAVE S[i].write = S[j].write
  <2>1. i \in Nat /\ j \in Nat /\ i + 1 = j + 1
    BY <1>1 DEF Line
  <2> QED
    BY ONLY <2>1
<1>6. \A i \in DOMAIN q, j \in DOMAIN S : q[i].write # S[j].write
  BY <1>1 DEF Line
<1>7. live => \A v \in A \ {w} : \/ \E i \in DOMAIN q : q[i].write = v
                                 \/ \E i \in DOMAIN S : S[i].write = v
  <2> SUFFICES ASSUME live, NEW v \in A, v # w, NEW i \in DOMAIN R, R[i].write = v
               PROVE  \E j \in DOMAIN S : S[j].write = v
    BY DEF Line
  <2>1. i # 1
    BY <1>2
  <2>2. i - 1 \in DOMAIN S
    BY <1>1, <2>1
  <2>3. i - 1 \in Nat /\ (i - 1) + 1 = i
    <3>1. i \in Nat
      BY BatchShape DEF Line
    <3>2. i - 1 \in Nat
      BY <1>1, <2>2
    <3> QED
      BY ONLY <3>1, <3>2
  <2>4. S[i - 1] = R[i]
    BY <1>1, <2>2, <2>3
  <2> QED
    BY <2>2, <2>4
<1>8. IsBatch(q) /\ \A i, j \in DOMAIN q : q[i].write = q[j].write => i = j
  BY DEF Line
<1> QED
  BY <1>1, <1>2, <1>3, <1>4, <1>5, <1>6, <1>7, <1>8 DEF Line, S, w

\* The write whose outcome was told leaves the books, and the barrier if it was one.
LEMMA SettledWrite ==
  ASSUME NEW d, NEW w, NEW R, NEW acc, Coherent(d, R, {w}, acc), Books(d), R # <<>>,
         w = Head(R).write
  PROVE  LET e == WriteSettled(d, w)
         IN  /\ Coherent(e, Tail(R), {}, acc) /\ Books(e) /\ Keeps(d, e, {})
             /\ SameTask(d, e) /\ Steady(d, e) /\ e.core = d.core
<1> DEFINE e == WriteSettled(d, w)
           was == d.closing
           now == IF was # None /\ was.barrier = w THEN [was EXCEPT !.barrier = None] ELSE was
           S == Tail(R)
<1>1. Formed(d) /\ d.closing \in {None} \cup Closings
  BY DEF Coherent
<1>2. /\ DOMAIN e = DriverFields
      /\ \A f \in DriverFields \ {"admitted", "closing"} : e[f] = d[f]
      /\ e.admitted = d.admitted \ {w} /\ e.closing = now
  BY <1>1 DEF WriteSettled, Formed, DriverFields
<1>3. /\ now \in {None} \cup Closings /\ (now = None <=> was = None)
      /\ was # None => /\ now.reason = was.reason
                       /\ now.barrier = IF was.barrier = w THEN None ELSE was.barrier
  <2>1. CASE was # None /\ was.barrier = w
    <3>1. was \in Closings
      BY <1>1, <2>1
    <3>2. now = [was EXCEPT !.barrier = None]
      BY <2>1
    <3>3. now \in Closings /\ now.reason = was.reason /\ now.barrier = None
      BY <3>1, <3>2 DEF Closings
    <3> QED
      BY <2>1, <3>3, RuntimeAssumption
  <2>2. CASE ~(was # None /\ was.barrier = w)
    BY <1>1, <2>2
  <2> QED
    BY <2>1, <2>2
<1> HIDE DEF e, now, S
<1>4. /\ e.core = d.core /\ e.completions = d.completions /\ e.closed = d.closed
      /\ e.nextCommand = d.nextCommand /\ e.writer = d.writer /\ e.inbound = d.inbound
      /\ e.queue = d.queue /\ e.bytes = d.bytes /\ e.answers = d.answers /\ e.draining = d.draining
  BY <1>2 DEF DriverFields
<1>5. Line(e.writer.queue, S, e.admitted, e.writer.live)
  <2>1. Line(d.writer.queue, R, d.admitted, d.writer.live)
    BY DEF Coherent
  <2> QED
    BY <1>2, <1>4, <2>1, LineMoves DEF S
<1>6. Owner(e, acc)
  BY <1>4, OwnerSame DEF Coherent
<1>7. Formed(e)
  BY <1>1, <1>2, <1>4 DEF Formed
<1>8. /\ e.closing \in {None} \cup Closings
      /\ e.core.closing <=> e.closing # None
      /\ e.closed => e.closing # None /\ e.closing.barrier = None
  BY <1>2, <1>3, <1>4 DEF Coherent
<1>9. e.closing = None \/ e.closing.barrier # None \/ e.closed =>
        DOMAIN e.completions \subseteq DOMAIN e.core.open
  BY <1>2, <1>3, <1>4 DEF Coherent
<1>10. /\ e.admitted \ {} \subseteq DOMAIN e.core.pending
       /\ e.closing = None => DOMAIN e.core.pending \subseteq e.admitted
       /\ \A v \in e.admitted : v \in Nat /\ v < e.core.nextWrite
  BY <1>2, <1>3, <1>4 DEF Coherent
<1>11. e.closing # None /\ e.closing.barrier # None =>
         /\ e.closing.barrier \in e.admitted
         /\ e.core.pending[e.closing.barrier].kind = "Separate"
         /\ \A v \in e.admitted : v <= e.closing.barrier
  <2> SUFFICES ASSUME e.closing # None, e.closing.barrier # None
               PROVE  /\ e.closing.barrier \in e.admitted
                      /\ e.core.pending[e.closing.barrier].kind = "Separate"
                      /\ \A v \in e.admitted : v <= e.closing.barrier
    OBVIOUS
  <2>1. was # None /\ was.barrier # w /\ e.closing.barrier = was.barrier /\ was.barrier # None
    BY <1>2, <1>3
  <2>2. /\ was.barrier \in d.admitted /\ d.core.pending[was.barrier].kind = "Separate"
        /\ \A v \in d.admitted : v <= was.barrier
    BY <2>1 DEF Coherent
  <2> QED
    BY <1>2, <1>4, <2>1, <2>2
<1>12. Coherent(e, S, {}, acc)
  <2>1. /\ IInv(e.core) /\ Traced(e.core) /\ Worker(e.writer)
        /\ IsBatch(e.inbound) /\ Len(e.inbound) <= InboundCapacity
        /\ \A k \in DOMAIN e.completions :
             k \in Commands /\ k < e.nextCommand /\ e.completions[k].kind \in CommandKinds
        /\ \A k \in DOMAIN e.core.open :
             k \in DOMAIN e.completions /\ e.completions[k].kind = e.core.open[k]
    BY <1>4 DEF Coherent
  <2> QED
    BY <1>5, <1>6, <1>7, <1>8, <1>9, <1>10, <1>11, <2>1 DEF Coherent
<1>13. Books(e)
  BY <1>4 DEF Books
<1>14. Keeps(d, e, {}) /\ SameTask(d, e) /\ Steady(d, e)
  BY <1>2, <1>3, <1>4 DEF Keeps, SameTask, Steady
<1> QED
  BY <1>4, <1>12, <1>13, <1>14 DEF e, S

\* on_write_outcome_at for the first report: it is no longer one of the Writer's.
LEMMA OutcomeGoes ==
  ASSUME NEW d, NEW due, NEW late, NEW R, NEW acc, Sound(d, R, acc), R # <<>>,
         NEW outcome \in Outcomes
  PROVE  LET e == ReceiveWriteOutcome(d, Head(R).write, outcome, due, late)
         IN  /\ Sound(e, Tail(R), acc) /\ Keeps(d, e, OrdinaryReasons)
             /\ SameTask(d, e) /\ Steady(d, e) /\ StaysGivenUp(d, e)
<1> DEFINE w == Head(R).write
           x == IF outcome = "Committed" THEN ProcessDueDeadlines(d, due) ELSE d
           y == OutcomeTimely(x, w, outcome, late)
           z == WriteSettled(y, w)
           e == FinishCloseIfReady(z)
<1>1. Sound(x, R, acc) /\ Keeps(d, x, OrdinaryReasons) /\ SameTask(d, x) /\ Steady(d, x)
  <2>1. CASE outcome = "Committed"
    <3> DEFINE f == ProcessDueDeadlines(d, due)
    <3>1. Goes(d, f, R, acc, OrdinaryReasons) /\ Steady(d, f)
      BY TimelyGoes
    <3>2. x = f
      BY <2>1
    <3> HIDE DEF f, x
    <3> QED
      BY <3>1, <3>2 DEF Goes
  <2>2. CASE outcome # "Committed"
    <3>1. x = d
      BY <2>2
    <3>2. Keeps(d, d, OrdinaryReasons) /\ SameTask(d, d) /\ Steady(d, d)
      BY DEF Keeps, SameTask, Steady
    <3> QED
      BY <3>1, <3>2
  <2> QED
    BY <2>1, <2>2
<1>2. ReceiveWriteOutcome(d, w, outcome, due, late) = e
  BY DEF ReceiveWriteOutcome
<1>0. d.closing # None => x = d
  BY DEF ProcessDueDeadlines
<1> HIDE DEF x
<1>3. w \in x.admitted
  BY <1>1, LineMoves DEF Sound, Coherent
<1> HIDE DEF w
<1>4. /\ Coherent(y, R, {w}, acc) /\ Keeps(x, y, OrdinaryReasons) /\ Untouched(x, y)
      /\ StaysGivenUp(x, y)
  BY <1>1, <1>3, OutcomeApplied
<1> HIDE DEF y
<1>5. Books(x)
  BY <1>1 DEF Sound
<1>6. Books(y) /\ SameTask(x, y) /\ Steady(x, y)
  BY <1>4, <1>5, UntouchedBooks
<1>7. /\ Coherent(z, Tail(R), {}, acc) /\ Books(z) /\ Keeps(y, z, {})
      /\ SameTask(y, z) /\ Steady(y, z) /\ z.core = y.core
  BY <1>4, <1>6, SettledWrite DEF w
<1> HIDE DEF z
<1> DEFINE S == Tail(R)
<1> HIDE DEF S
<1>8. /\ Sound(e, S, acc) /\ Keeps(z, e, {}) /\ SameTask(z, e)
      /\ e.nextCommand = z.nextCommand /\ e.draining = z.draining /\ e.core = z.core
  BY <1>7, FinishSound DEF S
<1> HIDE DEF e
<1>9. Keeps(y, z, OrdinaryReasons) /\ Keeps(z, e, OrdinaryReasons)
  BY <1>7, <1>8, KeepsMore
<1>10. Keeps(x, z, OrdinaryReasons)
  BY <1>4, <1>9, KeepsTrans
<1>11. Keeps(d, e, OrdinaryReasons)
  BY <1>1, <1>9, <1>10, KeepsTrans
<1>12. SameTask(d, e) /\ Steady(d, e)
  BY <1>1, <1>6, <1>7, <1>8 DEF SameTask, Steady
<1>13. StaysGivenUp(d, e)
  BY <1>0, <1>4, <1>7, <1>8 DEF StaysGivenUp
<1> QED
  BY <1>2, <1>8, <1>11, <1>12, <1>13 DEF w, S

\* A round that consumes the Writer's first report.
Consumes(d, e, acc, W) ==
  /\ Sound(e, e.writer.reports, acc) /\ Keeps(d, e, W)
  /\ e.writer.reports = Tail(d.writer.reports) /\ e.writer.live = d.writer.live
  /\ e.writer.begun = d.writer.begun
  /\ d.nextCommand <= e.nextCommand /\ (d.draining => e.draining)

\* apply_write_report: a report is always of a write that Driver knows.
LEMMA ReportGoes ==
  ASSUME NEW d, NEW due, NEW late, NEW acc, Sound(d, d.writer.reports, acc),
         d.writer.reports # <<>>
  PROVE  /\ Consumes(d, ApplyWriteReport(d, due, late), acc, OrdinaryReasons)
         /\ StaysGivenUp(d, ApplyWriteReport(d, due, late))
<1> DEFINE R == d.writer.reports
           r == Head(R)
           f == ReceiveWriteOutcome(d, r.write, r.outcome, due, late)
           e == [f EXCEPT !.writer.reports = Tail(@)]
<1>1. r.write \in d.admitted /\ IsBatch(R) /\ IsBatch(Tail(R))
  <2>1. Line(d.writer.queue, R, d.admitted, d.writer.live)
    BY DEF Sound, Coherent
  <2>2. IsBatch(R)
    BY <2>1 DEF Line
  <2> QED
    BY <2>1, <2>2, LineMoves
<1>2. ApplyWriteReport(d, due, late) = e
  BY <1>1 DEF ApplyWriteReport
<1>3. r.outcome \in Outcomes
  BY <1>1, RestOfBatch DEF Sound, Coherent, Worker
<1> DEFINE outcome == r.outcome
<1> HIDE DEF outcome
<1> DEFINE g == ReceiveWriteOutcome(d, Head(R).write, outcome, due, late)
           S == Tail(R)
<1>4. /\ Sound(g, Tail(R), acc) /\ Keeps(d, g, OrdinaryReasons)
      /\ SameTask(d, g) /\ Steady(d, g) /\ StaysGivenUp(d, g)
  BY <1>3, OutcomeGoes DEF outcome
<1>5. f = g
  BY DEF outcome
<1> HIDE DEF f, g, S
<1>6. /\ Sound(f, S, acc) /\ Keeps(d, f, OrdinaryReasons) /\ SameTask(d, f) /\ Steady(d, f)
      /\ StaysGivenUp(d, f)
  BY <1>4, <1>5 DEF S
<1>7. DOMAIN f = DriverFields /\ DOMAIN f.writer = WriterFields /\ f.writer.reports = R
  BY <1>6 DEF Sound, Coherent, Formed, SameTask
<1>8. /\ DOMAIN e = DriverFields /\ \A x \in DriverFields \ {"writer"} : e[x] = f[x]
      /\ DOMAIN e.writer = WriterFields /\ e.writer.reports = S
      /\ \A x \in WriterFields \ {"reports"} : e.writer[x] = f.writer[x]
  BY <1>7 DEF DriverFields, WriterFields, S
<1> HIDE DEF e
<1>9. /\ e.core = f.core /\ e.completions = f.completions /\ e.admitted = f.admitted
      /\ e.closing = f.closing /\ e.closed = f.closed /\ e.nextCommand = f.nextCommand
      /\ e.inbound = f.inbound /\ e.queue = f.queue /\ e.bytes = f.bytes
      /\ e.answers = f.answers /\ e.draining = f.draining /\ e.writer.queue = f.writer.queue
      /\ e.writer.live = f.writer.live /\ e.writer.begun = f.writer.begun
      /\ e.writer.fault = f.writer.fault /\ e.writer.open = f.writer.open
  BY <1>8 DEF DriverFields, WriterFields
<1>10. Owner(e, acc)
  BY <1>6, <1>9, OwnerSame DEF Sound, Coherent
<1>11. Books(e)
  BY <1>6, <1>9 DEF Sound, Books
<1>12. Formed(e)
  BY <1>8 DEF Formed
<1>13. Worker(e.writer)
  <2>1. \A i \in DOMAIN S : S[i].outcome \in Outcomes
    <3>1. \A i \in DOMAIN R : R[i].outcome \in Outcomes
      BY DEF Sound, Coherent, Worker
    <3>2. \A i \in DOMAIN S : i + 1 \in DOMAIN R /\ S[i] = R[i + 1]
      BY <1>1, RestOfBatch DEF S
    <3> QED
      BY <3>1, <3>2
  <2>2. Worker(f.writer)
    BY <1>6 DEF Sound, Coherent
  <2> QED
    BY <1>8, <1>9, <2>1, <2>2 DEF Worker
<1>14. Sound(e, S, acc)
  <2>1. /\ Line(e.writer.queue, S, e.admitted, e.writer.live)
        /\ IsBatch(e.inbound) /\ Len(e.inbound) <= InboundCapacity
    BY <1>6, <1>9 DEF Sound, Coherent
  <2> QED
    BY <1>6, <1>9, <1>10, <1>11, <1>12, <1>13, <2>1, SoundTransfer
<1>15. Keeps(d, e, OrdinaryReasons)
  BY <1>6, <1>9 DEF Keeps
<1>16. e.nextCommand = d.nextCommand /\ d.nextCommand \in Nat
  BY <1>6, <1>9, DriverAssumption DEF Steady, Sound, Books
<1>17. d.nextCommand <= e.nextCommand
  BY <1>16
<1>18. StaysGivenUp(d, e)
  BY <1>6, <1>9 DEF StaysGivenUp
<1>19. e.draining = d.draining
  BY <1>6, <1>9 DEF Steady
<1> QED
  BY <1>2, <1>6, <1>8, <1>9, <1>14, <1>15, <1>17, <1>18, <1>19 DEF Consumes, SameTask, S

-----------------------------------------------------------------------------
(* The Writer's end.                                                       *)

\* Core's end of the Writer, applied by a closed Driver whose Writer is gone.
LEMMA WritesSettled ==
  ASSUME NEW d, NEW R, NEW acc, Sound(d, R, acc), d.closed
  PROVE  LET e == SettleWrites(d)
         IN  /\ Coherent(e, R, d.admitted, acc) /\ Keeps(d, e, OrdinaryReasons) /\ Untouched(d, e)
             /\ DOMAIN e.core.open = {}
<1> DEFINE c == FinalizeWriter(d.core)
           p == Drained(d.core)
           X == d.admitted
           s == ApplyActionBatch(d, c, FALSE, None)
<1>1. IInv(d.core) /\ Traced(d.core) /\ d.core.closing /\ d.core.nextWrite \in Nat
  BY SpaceAssumption DEF Sound, Coherent, IInv, Weak, Shape
<1>2. IInv(c) /\ Run(p, d.core.state, c) /\ DOMAIN Begin(c).open = {}
  BY <1>1, FinalizeWriterIInv, RunFinalizes, FinalizeWriterSettles
<1>3. /\ p.open = d.core.open /\ p.nextWrite = d.core.nextWrite /\ p.nextReply = d.core.nextReply
      /\ p.closing /\ ~p.permit /\ p.cause = "LocalSeparate" /\ p.pending = {}
      /\ \A k : <<k, "Ok">> \notin p.told
  <2> DEFINE b == [Begin(d.core) EXCEPT !.pending = EmptyFunction]
  <2>1. DOMAIN Begin(d.core) = Fields /\ \A f \in Fields \ {"out"} : Begin(d.core)[f] = d.core[f]
    <3>1. IInv(Begin(d.core)) /\ \A f \in Fields \ {"out"} : Begin(d.core)[f] = d.core[f]
      BY <1>1, BeginIInv
    <3>2. DOMAIN Begin(d.core) = Fields
      BY <3>1 DEF IInv, Weak, Shape
    <3> QED
      BY <3>1, <3>2
  <2>2. /\ b.open = d.core.open /\ b.nextWrite = d.core.nextWrite
        /\ b.nextReply = d.core.nextReply /\ b.closing /\ DOMAIN b.pending = {}
    BY <1>1, <2>1 DEF Fields, EmptyFunction
  <2> HIDE DEF b
  <2>3. p = Snapshot(b, UnresolvedCommands(d.core) \X {"DeliveryIndeterminate"},
                     UnresolvedCommands(d.core))
    BY DEF Drained, b
  <2> QED
    BY <2>2, <2>3 DEF Snapshot
<1> HIDE DEF c, p
<1>4. IsBatch(c.out) /\ p.cause \in AllReasons /\ p.cause \in OrdinaryReasons
  BY <1>2, <1>3, OrdinaryReasonsAre DEF Run, Log
<1>5. PICK none : none = None
  OBVIOUS
<1>6. Ready(d, c, p, FALSE, none, R, acc)
  BY <1>1, <1>2, <1>3, <1>4 DEF Ready, Sound, Coherent
<1>7. Loose(d, p, X)
  BY <1>1, <1>3 DEF Loose, Sound, Coherent
<1>8. Level(d, p, X)
  BY <1>1, <1>3, <1>7 DEF Level, Sound, Coherent
<1>9. Reasoned(c, OrdinaryReasons)
  BY <1>2, <1>4, RunReasons
<1>10. PICK first \in AllReasons \cup {None} : first = None
  OBVIOUS
<1>11. Allows(first, OrdinaryReasons)
  BY <1>10, OrdinaryReasonsAre DEF Allows
<1> DEFINE e == ApplyBatch(d, c, FALSE, none, first)
           t == ApplyActionBatch(d, c, FALSE, none)
<1> HIDE DEF X
<1>12. Coherent(e, R, X, acc) /\ Keeps(d, e, OrdinaryReasons) /\ Untouched(d, e)
  BY <1>2, <1>6, <1>8, <1>9, <1>11, BatchApplied
<1>13. SettleWrites(d) = e
  BY <1>5, <1>10 DEF SettleWrites, c
<1>14. e = HandleActionFailure(t, first)
  BY DEF ApplyBatch
<1>15. Applied(d, c, p, R, acc, t, Len(c.out))
  BY <1>2, <1>6, AppliesBatch
<1> HIDE DEF e, t
<1>16. t.failure = None
  BY <1>3, <1>15 DEF Applied, FailureAt
<1>17. e = t.d /\ t.d.core = Begin(c)
  BY <1>14, <1>15, <1>16 DEF HandleActionFailure, Applied
<1> QED
  BY <1>2, <1>12, <1>13, <1>17 DEF X

\* Nothing is owned any more: no write is awaited and every operation is answered.
Emptied(e) ==
  e.admitted = {} /\ DOMAIN e.completions = {} /\ e.queue = <<>> /\ DOMAIN e.core.open = {}

\* on_writer_stopped of a closed Driver.
LEMMA WriterGoneGoes ==
  ASSUME NEW d, NEW acc, Sound(d, <<>>, acc), d.closed, ~d.writer.live
  PROVE  LET e == WriterGone(d)
         IN  /\ Goes(d, e, <<>>, acc, OrdinaryReasons) /\ Steady(d, e) /\ e.closed /\ Emptied(e)
<1> DEFINE y == SettleWrites(d)
           z == WritesForgotten(y)
           e == DrainAcceptedCommands(z)
           X == d.admitted
           R == <<>>
<1>1. IsBatch(R) /\ DOMAIN R = {}
  BY EmptyBatch
<1>2. Sound(d, R, acc)
  OBVIOUS
<1> HIDE DEF R
<1>3. /\ Coherent(y, R, X, acc) /\ Keeps(d, y, OrdinaryReasons) /\ Untouched(d, y)
      /\ DOMAIN y.core.open = {}
  BY <1>2, WritesSettled
<1>4. d.closing # None /\ EndedForWriter(d) = d
  BY <1>2 DEF Sound, Coherent, EndedForWriter
<1> HIDE DEF y, X
<1>5. Books(y) /\ SameTask(d, y) /\ Steady(d, y)
  BY <1>2, <1>3, UntouchedBooks DEF Sound
<1>6. /\ y.closed /\ y.closing \in Closings /\ y.closing # None /\ Formed(y)
      /\ ~y.writer.live /\ y.core.closing
  BY <1>3, <1>4 DEF Coherent, Untouched, Keeps, WriterFields
<1> DEFINE now == [y.closing EXCEPT !.barrier = None]
<1>7. now \in Closings /\ now # None /\ now.reason = y.closing.reason /\ now.barrier = None
  <2>1. now \in Closings /\ now.reason = y.closing.reason /\ now.barrier = None
    BY <1>6 DEF Closings
  <2> QED
    BY <2>1, RuntimeAssumption
<1>8. /\ DOMAIN z = DriverFields
      /\ \A f \in DriverFields \ {"admitted", "closing"} : z[f] = y[f]
      /\ z.admitted = {} /\ z.closing = now
  BY <1>6 DEF WritesForgotten, Formed, DriverFields
<1> HIDE DEF z, now
<1>9. /\ z.core = y.core /\ z.completions = y.completions /\ z.closed = y.closed
      /\ z.nextCommand = y.nextCommand /\ z.writer = y.writer /\ z.inbound = y.inbound
      /\ z.queue = y.queue /\ z.bytes = y.bytes /\ z.answers = y.answers /\ z.draining = y.draining
  BY <1>8 DEF DriverFields
<1>10. y.writer.queue = <<>>
  BY <1>3, <1>6 DEF Coherent, Worker
<1>11. Line(z.writer.queue, R, {}, z.writer.live)
  BY <1>1, <1>6, <1>9, <1>10, EmptyBatch DEF Line
<1>12. Owner(z, acc)
  BY <1>3, <1>9, OwnerSame DEF Coherent
<1>13. Formed(z)
  BY <1>6, <1>8, <1>9 DEF Formed
<1>14. Coherent(z, R, {}, acc)
  <2>1. /\ IInv(z.core) /\ Traced(z.core) /\ Worker(z.writer)
        /\ IsBatch(z.inbound) /\ Len(z.inbound) <= InboundCapacity
        /\ \A k \in DOMAIN z.completions :
             k \in Commands /\ k < z.nextCommand /\ z.completions[k].kind \in CommandKinds
        /\ \A k \in DOMAIN z.core.open :
             k \in DOMAIN z.completions /\ z.completions[k].kind = z.core.open[k]
        /\ DOMAIN z.completions \subseteq DOMAIN z.core.open
        /\ z.core.closing
    BY <1>3, <1>6, <1>9 DEF Coherent
  <2>2. z.closing \in {None} \cup Closings /\ z.closing # None /\ z.closing.barrier = None
    BY <1>7, <1>8
  <2>3. z.admitted = {}
    BY <1>8
  <2> QED
    BY <1>11, <1>12, <1>13, <2>1, <2>2, <2>3 DEF Coherent
<1>15. Broken(z, R, {}, acc)
  BY <1>14, CoherentIsBroken
<1>16. /\ Chargeable(z.queue) /\ z.bytes = Charges(z.queue) /\ z.nextCommand \in 0..CommandSpace
       /\ z.closed = TRUE /\ z.core.closing /\ z.draining \in BOOLEAN
  BY <1>5, <1>6, <1>9 DEF Books
<1>17. FinishCloseIfReady(z) = z
  BY <1>16 DEF FinishCloseIfReady
<1>18. WriterGone(d) = e
  BY <1>4, <1>17 DEF WriterGone, y, z
<1>19. /\ Sound(e, R, acc)
       /\ e.core = z.core /\ e.closing = z.closing /\ e.closed = z.closed
       /\ e.admitted = z.admitted /\ e.writer = z.writer /\ e.nextCommand = z.nextCommand
       /\ e.queue = <<>> /\ e.inbound = z.inbound /\ e.draining = z.draining
  BY <1>15, <1>16, DrainSound
<1> HIDE DEF e
<1>20. Emptied(e)
  <2>1. DOMAIN e.completions \subseteq DOMAIN e.core.open
    BY <1>16, <1>19 DEF Sound, Coherent
  <2> QED
    BY <1>3, <1>8, <1>9, <1>19, <2>1 DEF Emptied
<1>21. Keeps(d, e, OrdinaryReasons)
  BY <1>3, <1>4, <1>7, <1>8, <1>9, <1>19 DEF Keeps
<1>22. SameTask(d, e) /\ Steady(d, e)
  BY <1>5, <1>9, <1>19 DEF SameTask, Steady
<1>23. e.closed /\ e.nextCommand = d.nextCommand /\ d.nextCommand \in Nat
  BY <1>2, <1>16, <1>19, <1>22, DriverAssumption DEF Steady, Sound, Books
<1>24. d.nextCommand <= e.nextCommand
  BY <1>23
<1>25. e.draining = d.draining
  BY <1>22 DEF Steady
<1> QED
  BY <1>18, <1>19, <1>20, <1>21, <1>22, <1>23, <1>24, <1>25 DEF Goes, R

-----------------------------------------------------------------------------
(* Building the Driver, and filling its queue.                             *)

\* The operations accepted so far, and those of them that have been answered.
Ledger(seen, done) == [seen |-> seen, done |-> done]

\* SessionDriver::new.
LEMMA NewDriverSound ==
  Sound(NewDriver, <<>>, Ledger({}, {}))
<1> DEFINE d == NewDriver
           q == <<>>
           acc == Ledger({}, {})
<1>1. IsBatch(q) /\ DOMAIN q = {} /\ Len(q) = 0
  BY EmptyBatch
<1>2. /\ DOMAIN d = DriverFields /\ d.core = NewCore /\ d.queue = q /\ d.bytes = 0
      /\ d.completions = EmptyFunction /\ d.admitted = {} /\ d.nextCommand = 0
      /\ d.closing = None /\ d.closed = FALSE /\ d.draining = FALSE
      /\ d.writer = NewWriter /\ d.inbound = q
      /\ d.answers = [op \in Operations |-> q]
  BY DEF NewDriver, DriverFields
<1>3. Charges(q) = 0
  BY ChargesEmpty
<1>4. /\ DOMAIN NewWriter = WriterFields /\ NewWriter.queue = q /\ NewWriter.reports = q
      /\ NewWriter.live /\ ~NewWriter.fault
  BY DEF NewWriter, WriterFields
<1>5. q = <<>>
  OBVIOUS
<1> HIDE DEF d, q
<1>6. IInv(NewCore) /\ ~NewCore.closing /\ NewCore.active = None /\ DOMAIN NewCore.data = {}
      /\ DOMAIN NewCore.open = {} /\ DOMAIN NewCore.pending = {} /\ DOMAIN NewCore.deferred = {}
  BY NewCoreIInv DEF NewCore, EmptyFunction
<1>7. DOMAIN d.completions = {}
  BY <1>2 DEF EmptyFunction
<1>8. Owner(d, acc)
  BY <1>1, <1>2, <1>5, <1>7 DEF Owner, QueuePlaces, TablePlaces, Ledger
<1>9. Line(d.writer.queue, q, d.admitted, d.writer.live) /\ Worker(d.writer)
  BY <1>1, <1>2, <1>4 DEF Line, Worker
<1>10. Traced(d.core)
  BY <1>2, <1>6 DEF Traced
<1>11. Len(d.inbound) <= InboundCapacity /\ Len(d.queue) <= CommandCapacity
       /\ d.bytes <= CommandBytes /\ d.nextCommand \in 0..CommandSpace
  BY <1>1, <1>2, DriverAssumption
<1>12. Books(d)
  BY <1>1, <1>2, <1>3, <1>11 DEF Books, Chargeable
<1>13. Coherent(d, q, {}, acc)
  BY <1>1, <1>2, <1>4, <1>6, <1>7, <1>8, <1>9, <1>10, <1>11 DEF Coherent, Formed
<1> QED
  BY <1>2, <1>5, <1>12, <1>13 DEF Sound, d

\* on_connected of a new Core only changes its state.
LEMMA ConnectedGoes ==
  LET e == Connected(NewDriver)
  IN  /\ Sound(e, <<>>, Ledger({}, {})) /\ SameTask(NewDriver, e) /\ Steady(NewDriver, e)
      /\ e.closing = None /\ e.queue = <<>>
<1> DEFINE d == NewDriver
           c == OnConnected(d.core)
           p == Snapshot(d.core, {}, UnresolvedCommands(d.core))
           acc == Ledger({}, {})
           R == <<>>
           s == ApplyActionBatch(d, c, FALSE, None)
           e == Connected(d)
<1>1. Sound(d, R, acc) /\ d.core = NewCore /\ d.closing = None /\ d.queue = <<>>
  BY NewDriverSound DEF NewDriver
<1>2. e = Apply(d, c)
  BY DEF Connected
<1>3. e = FinishCloseIfReady(HandleActionFailure(s, None))
  BY <1>2 DEF Apply, ApplyBatch
<1>4. c.out = <<StateChanged("NotSelected")>>
  <2> DEFINE b == Begin(NewCore)
             x == RecordActivity(ArmSelectionTimeout([b EXCEPT !.state = "NotSelected"]))
  <2>1. b.state = "None" /\ ~b.closing /\ b.out = <<>>
        /\ DOMAIN b = {"state", "t7", "idle", "nextWrite", "nextSys", "nextReply", "active",
                       "drain", "data", "tomb", "pending", "replies", "open", "deferred",
                       "closing", "closeIssued", "out"}
    BY DEF NewCore, Begin
  <2> HIDE DEF b
  <2>2. "out" \in DOMAIN x /\ x.out = <<>>
    BY <2>1 DEF RecordActivity, ArmSelectionTimeout
  <2>3. c = Emit(x, StateChanged("NotSelected"))
    BY <1>1, <2>1 DEF OnConnected, b
  <2> HIDE DEF x
  <2> QED
    BY <2>2, <2>3 DEF Emit
<1>5. IInv(d.core) /\ Traced(d.core) /\ d.core.state = "None" /\ ~d.core.closing
  BY <1>1 DEF Sound, Coherent, NewCore
<1>6. IInv(c) /\ Run(p, d.core.state, c) /\ Run(Hearing(p, {}), d.core.state, c)
  BY <1>5, OnConnectedIInv, RunOnConnected, RunHears
<1> HIDE DEF d, R
<1>7. /\ Sound(e, R, acc) /\ SameTask(d, e) /\ Steady(d, e) /\ Waiting(d, e)
  BY <1>1, <1>2, <1>6, OrdinaryRound DEF p
<1>8. Matches(d, p)
  BY DEF Matches, Snapshot, AllReasons, GenerationReasons
<1> HIDE DEF c, p
<1>9. Ready(d, c, p, FALSE, None, R, acc)
  BY <1>1, <1>6, <1>8, MatchReady DEF Sound, Run, Log
<1>10. Applied(d, c, p, R, acc, s, Len(c.out))
  BY <1>6, <1>9, AppliesBatch
<1> HIDE DEF s, e
<1>11. Len(c.out) = 1 /\ DOMAIN c.out = 1..1 /\ c.out[1].act = "SessionStateChanged"
  BY <1>4 DEF StateChanged
<1>12. s.failure = None
  BY <1>10, <1>11 DEF Applied, FailureAt
<1>13. s.d.closing = None
  BY <1>1, <1>10, <1>11 DEF Applied, ClosingAt
<1>14. e = s.d
  BY <1>3, <1>12, <1>13 DEF HandleActionFailure, FinishCloseIfReady
<1> QED
  BY <1>1, <1>7, <1>13, <1>14 DEF Waiting, R, d, e

\* An accepted command joins the queue; its reply token leaves the application.
LEMMA EnqueueSound ==
  ASSUME NEW d, NEW e, NEW x, NEW R, NEW seen, NEW now, NEW done,
         Sound(d, R, Ledger(seen, done)), ~d.closed, Len(d.queue) < CommandCapacity,
         x.op \notin seen, now \cap Operations = (seen \cup {x.op}) \cap Operations,
         x.kind \in CommandNames \cup {"Reply"}, x.charge \in Nat, Affordable(d, x.charge),
         DOMAIN e = DriverFields,
         \A f \in DriverFields \ {"queue", "bytes", "held"} : e[f] = d[f],
         e.queue = Append(d.queue, x), e.bytes = d.bytes + x.charge
  PROVE  Sound(e, R, Ledger(now, done))
<1> DEFINE q == d.queue
           r == e.queue
<1>1. /\ e.core = d.core /\ e.completions = d.completions /\ e.admitted = d.admitted
      /\ e.closing = d.closing /\ e.closed = d.closed /\ e.nextCommand = d.nextCommand
      /\ e.writer = d.writer /\ e.inbound = d.inbound /\ e.answers = d.answers
      /\ e.draining = d.draining
  BY DEF DriverFields
<1>2. Chargeable(q) /\ IsBatch(q) /\ Len(q) \in Nat
  BY BatchShape DEF Sound, Books, Chargeable
<1>3. /\ Chargeable(r) /\ Charges(q) \in Nat /\ Charges(r) = Charges(q) + x.charge
  BY <1>2, ChargesAppended
<1>4. /\ Len(r) = Len(q) + 1 /\ DOMAIN r = DOMAIN q \cup {Len(q) + 1}
      /\ r[Len(q) + 1] = x /\ \A i \in DOMAIN q : r[i] = q[i]
  BY <1>2, AppendedBatch
<1>5. Len(r) <= CommandCapacity
  BY <1>2, <1>4, DriverAssumption
<1>6. e.bytes = Charges(r) /\ e.bytes <= CommandBytes
  <2>1. d.bytes = Charges(q) /\ x.charge <= CommandBytes - d.bytes /\ CommandBytes \in Nat
    BY DriverAssumption DEF Sound, Books, Affordable
  <2> QED
    BY <1>3, <2>1
<1>7. \A i \in DOMAIN r : r[i].kind \in CommandNames \cup {"Reply"}
  BY <1>4 DEF Sound, Books
<1>8. Books(e)
  BY <1>1, <1>3, <1>5, <1>6, <1>7 DEF Sound, Books
<1>9. Owner(e, Ledger(now, done))
  <2> DEFINE acc == Ledger(seen, done)
             next == Ledger(now, done)
  <2>1. Owner(d, acc)
    BY DEF Sound, Coherent
  <2>2. acc.seen = seen /\ next.seen = now /\ next.done = acc.done
    BY DEF Ledger
  <2> HIDE DEF acc, next
  <2>3. Owner(e, next)
    BY <1>1, <1>2, <2>1, <2>2, OwnerEnqueues
  <2> QED
    BY <2>3 DEF next
<1>10. /\ Formed(e) /\ Line(e.writer.queue, R, e.admitted, e.writer.live) /\ Worker(e.writer)
       /\ IsBatch(e.inbound) /\ Len(e.inbound) <= InboundCapacity
  BY <1>1 DEF Sound, Coherent, Formed
<1> QED
  BY <1>1, <1>8, <1>9, <1>10, SoundTransfer

\* from_transport.
LEMMA LaunchedSound ==
  /\ Sound(LaunchedDriver, <<>>, Ledger({}, {})) /\ LaunchedDriver.closing = None
  /\ LaunchedDriver.writer.live /\ LaunchedDriver.writer.reports = <<>>
<1> DEFINE d == Connected(NewDriver)
           x == Accepted(None, "Select", None, None, None, FALSE, 0)
           e == Enqueue(d, x)
<1>1. /\ Sound(d, <<>>, Ledger({}, {})) /\ SameTask(NewDriver, d)
      /\ d.closing = None /\ d.queue = <<>>
  BY ConnectedGoes
<1>2. d.writer.live /\ d.writer.reports = <<>>
  BY <1>1 DEF SameTask, NewDriver, NewWriter
<1>3. LaunchedDriver = IF AutoSelect THEN e ELSE d
  BY DEF LaunchedDriver
<1> HIDE DEF d
<1>4. /\ x.op = None /\ x.kind = "Select" /\ x.charge = 0
  BY DEF Accepted
<1> HIDE DEF x
<1>5. DOMAIN d = DriverFields /\ ~d.closed /\ d.bytes <= CommandBytes /\ d.bytes = 0
  BY <1>1, ChargesEmpty DEF Sound, Coherent, Formed, Books
<1>6. /\ DOMAIN e = DriverFields
      /\ \A f \in DriverFields \ {"queue", "bytes"} : e[f] = d[f]
      /\ e.queue = Append(d.queue, x) /\ e.bytes = d.bytes + x.charge
  BY <1>5 DEF Enqueue, DriverFields
<1> HIDE DEF e
<1>7. Affordable(d, x.charge)
  BY <1>4, <1>5, DriverAssumption DEF Affordable
<1>8. Len(d.queue) < CommandCapacity
  BY <1>1, EmptyBatch, DriverAssumption
<1>9. {} \cap Operations = ({} \cup {x.op}) \cap Operations
  BY <1>4, DriverAssumption
<1>10. x.kind \in CommandNames /\ x.charge \in Nat
  BY <1>4 DEF CommandNames, ControlCommands
<1>11. Sound(e, <<>>, Ledger({}, {}))
  BY <1>1, <1>5, <1>6, <1>7, <1>8, <1>9, <1>10, EnqueueSound
<1>12. e.closing = d.closing /\ e.writer = d.writer
  BY <1>6 DEF DriverFields
<1> QED
  BY <1>1, <1>2, <1>3, <1>11, <1>12

-----------------------------------------------------------------------------
(* The Writer's task and the application's inbox.                          *)

\* A step of the Writer's task: nothing else of Driver changes.
OnlyWriter(d, e) == DOMAIN e = DriverFields /\ \A f \in DriverFields \ {"writer"} : e[f] = d[f]

\* Any such step that leaves the frames in a line keeps Driver sound.
LEMMA WriterTaskSound ==
  ASSUME NEW d, NEW e, NEW acc, Sound(d, d.writer.reports, acc), OnlyWriter(d, e),
         DOMAIN e.writer = WriterFields, Worker(e.writer),
         Line(e.writer.queue, e.writer.reports, d.admitted, e.writer.live)
  PROVE  /\ Sound(e, e.writer.reports, acc) /\ SameCore(d, e) /\ Steady(d, e)
         /\ e.closed = d.closed /\ e.answers = d.answers /\ e.queue = d.queue
<1>1. /\ e.core = d.core /\ e.completions = d.completions /\ e.admitted = d.admitted
      /\ e.closing = d.closing /\ e.closed = d.closed /\ e.nextCommand = d.nextCommand
      /\ e.inbound = d.inbound /\ e.queue = d.queue /\ e.bytes = d.bytes
      /\ e.answers = d.answers /\ e.draining = d.draining
  BY DEF OnlyWriter, DriverFields
<1>2. Owner(e, acc)
  BY <1>1, OwnerSame DEF Sound, Coherent
<1>3. Books(e)
  BY <1>1 DEF Sound, Books
<1>4. Formed(e) /\ IsBatch(e.inbound) /\ Len(e.inbound) <= InboundCapacity
  BY <1>1 DEF OnlyWriter, Formed, Sound, Coherent
<1>5. Sound(e, e.writer.reports, acc)
  BY <1>1, <1>2, <1>3, <1>4, SoundTransfer
<1> QED
  BY <1>1, <1>5 DEF SameCore, Steady

\* The frame at the head of the line becomes its last report.
LEMMA LineReports ==
  ASSUME NEW q, NEW R, NEW A, NEW live, NEW r, Line(q, R, A, live), q # <<>>,
         r.write = Head(q).write
  PROVE  Line(Tail(q), Append(R, r), A, live)
<1> DEFINE t == Tail(q)
           S == Append(R, r)
           n == Len(R) + 1
<1>1. /\ IsBatch(t) /\ 1 \in DOMAIN q /\ Head(q) = q[1]
      /\ \A i \in DOMAIN t : i \in Nat /\ i + 1 \in DOMAIN q /\ t[i] = q[i + 1]
      /\ \A i \in DOMAIN q : i # 1 => i - 1 \in DOMAIN t
  BY RestOfBatch DEF Line
<1>2. /\ IsBatch(S) /\ DOMAIN S = DOMAIN R \cup {n} /\ n \notin DOMAIN R
      /\ S[n] = r /\ \A i \in DOMAIN R : S[i] = R[i]
  <2>1. IsBatch(R)
    BY DEF Line
  <2> QED
    BY <2>1, AppendedBatch
<1> HIDE DEF t, S, n
<1>3. \A i \in DOMAIN t : t[i].write # r.write /\ t[i].write \in A
  <2> TAKE i \in DOMAIN t
  <2>1. i + 1 \in DOMAIN q /\ t[i] = q[i + 1]
    BY <1>1
  <2>2. i \in 1..Len(t) /\ Len(t) \in Nat
    BY <1>1, BatchShape
  <2>3. i + 1 # 1
    BY ONLY <2>2
  <2>4. q[i + 1].write # q[1].write
    BY <1>1, <2>1, <2>3 DEF Line
  <2> QED
    BY <1>1, <2>1, <2>4 DEF Line
<1>4. \A i \in DOMAIN S : S[i].write \in A
  BY <1>1, <1>2 DEF Line
<1>5. \A i, j \in DOMAIN t : t[i].write = t[j].write => i = j
  <2> TAKE i, j \in DOMAIN t
  <2> HAVE t[i].write = t[j].write
  <2>1. i \in Nat /\ j \in Nat /\ i + 1 = j + 1
    BY <1>1 DEF Line
  <2> QED
    BY ONLY <2>1
<1>6. \A i \in DOMAIN R : R[i].write # r.write
  BY <1>1 DEF Line
<1>7. \A i, j \in DOMAIN S : S[i].write = S[j].write => i = j
  BY <1>2, <1>6 DEF Line
<1>8. \A i \in DOMAIN t, j \in DOMAIN S : t[i].write # S[j].write
  <2> TAKE i \in DOMAIN t, j \in DOMAIN S
  <2>1. CASE j = n
    BY <1>2, <1>3, <2>1
  <2>2. CASE j \in DOMAIN R
    BY <1>1, <1>2, <2>2 DEF Line
  <2> QED
    BY <1>2, <2>1, <2>2
<1>9. live => \A w \in A : \/ \E i \in DOMAIN t : t[i].write = w
                           \/ \E i \in DOMAIN S : S[i].write = w
  <2> SUFFICES ASSUME live, NEW w \in A
               PROVE  \/ \E i \in DOMAIN t : t[i].write = w
                      \/ \E i \in DOMAIN S : S[i].write = w
    OBVIOUS
  <2>1. CASE \E i \in DOMAIN R : R[i].write = w
    BY <1>2, <2>1
  <2>2. ASSUME NEW i \in DOMAIN q, q[i].write = w
        PROVE  \/ \E j \in DOMAIN t : t[j].write = w
               \/ \E j \in DOMAIN S : S[j].write = w
    <3>1. CASE i = 1
      BY <1>1, <1>2, <2>2, <3>1
    <3>2. CASE i # 1
      <4>1. i - 1 \in DOMAIN t
        BY <1>1, <3>2
      <4>2. i \in Nat /\ i - 1 \in Nat
        BY <1>1, <4>1, BatchShape DEF Line
      <4>3. (i - 1) + 1 = i
        BY ONLY <4>2
      <4> QED
        BY <1>1, <2>2, <4>1, <4>3
    <3> QED
      BY <3>1, <3>2
  <2> QED
    BY <2>1, <2>2 DEF Line
<1> QED
  BY <1>1, <1>2, <1>3, <1>4, <1>5, <1>7, <1>8, <1>9 DEF Line, t, S

\* A report of the first frame, whatever its outcome.
LEMMA ReportFirstSound ==
  ASSUME NEW d, NEW e, NEW outcome \in Outcomes, NEW acc, Sound(d, d.writer.reports, acc),
         d.writer.queue # <<>>, e = [d EXCEPT !.writer = ReportFirst(d.writer, outcome)]
  PROVE  /\ Sound(e, e.writer.reports, acc) /\ SameCore(d, e) /\ Steady(d, e)
         /\ e.closed = d.closed /\ e.answers = d.answers /\ e.queue = d.queue
<1> DEFINE w == d.writer
           r == [write |-> Head(w.queue).write, lane |-> Head(w.queue).lane, outcome |-> outcome]
           v == ReportFirst(w, outcome)
<1>1. DOMAIN d = DriverFields /\ DOMAIN w = WriterFields
  BY DEF Sound, Coherent, Formed
<1>2. /\ DOMAIN v = WriterFields /\ v.queue = Tail(w.queue) /\ v.reports = Append(w.reports, r)
      /\ v.live = w.live /\ v.fault = w.fault /\ v.open = w.open
  BY <1>1 DEF ReportFirst, WriterFields
<1>3. r.write = Head(w.queue).write /\ r.outcome = outcome
  OBVIOUS
<1>4. OnlyWriter(d, e) /\ e.writer = v
  BY <1>1 DEF OnlyWriter, DriverFields
<1> HIDE DEF v, r
<1>5. Line(w.queue, w.reports, d.admitted, w.live) /\ Worker(w)
  BY DEF Sound, Coherent
<1>6. Line(v.queue, v.reports, d.admitted, v.live)
  BY <1>2, <1>3, <1>5, LineReports
<1>7. Worker(v)
  <2>1. DOMAIN v.reports = DOMAIN w.reports \cup {Len(w.reports) + 1}
        /\ v.reports[Len(w.reports) + 1] = r
        /\ \A i \in DOMAIN w.reports : v.reports[i] = w.reports[i]
    BY <1>2, <1>5, AppendedBatch DEF Line
  <2>2. \A i \in DOMAIN v.reports : v.reports[i].outcome \in Outcomes
    BY <1>3, <1>5, <2>1 DEF Worker
  <2>3. w.live
    BY <1>5 DEF Worker
  <2> QED
    BY <1>2, <1>5, <2>2, <2>3 DEF Worker
<1>8. /\ DOMAIN e.writer = WriterFields /\ Worker(e.writer)
      /\ Line(e.writer.queue, e.writer.reports, d.admitted, e.writer.live)
  BY <1>2, <1>4, <1>6, <1>7
<1>9. Sound(d, d.writer.reports, acc)
  OBVIOUS
<1> QED
  BY ONLY <1>4, <1>8, <1>9, WriterTaskSound

=============================================================================
