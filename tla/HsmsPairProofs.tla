---------------------------- MODULE HsmsPairProofs ----------------------------
(***************************************************************************)
(* Proofs about HsmsPair, for every number of commands, every size of the  *)
(* identifier spaces and every capacity.                                   *)
(***************************************************************************)
EXTENDS HsmsPair, SessionCoreLemmas

-----------------------------------------------------------------------------
(* Sequences.                                                              *)

\* A batch has a length.
LEMMA BatchLength ==
  ASSUME NEW q, IsBatch(q)
  PROVE  Len(q) \in Nat /\ DOMAIN q = 1..Len(q)
BY DEF IsBatch

\* A batch behind another one.
LEMMA BatchJoins ==
  ASSUME NEW a, NEW b, IsBatch(a), IsBatch(b)
  PROVE  /\ IsBatch(a \o b)
         /\ DOMAIN (a \o b) = 1..(Len(a) + Len(b))
         /\ \A i \in DOMAIN a : i \in DOMAIN (a \o b) /\ (a \o b)[i] = a[i]
         /\ \A i \in DOMAIN b : Len(a) + i \in DOMAIN (a \o b) /\ (a \o b)[Len(a) + i] = b[i]
         /\ \A i \in DOMAIN (a \o b) :
              \/ i \in DOMAIN a
              \/ i - Len(a) \in DOMAIN b /\ i > Len(a) /\ (a \o b)[i] = b[i - Len(a)]
<1>1. PICK S : a \in Seq(S)
  BY DEF IsBatch
<1>2. PICK T : b \in Seq(T)
  BY DEF IsBatch
<1> DEFINE U == S \cup T
<1>3. a \in Seq(U) /\ b \in Seq(U)
  BY <1>1, <1>2
<1> HIDE DEF U
<1>4. a \o b \in Seq(U)
  BY <1>3
<1> QED
  BY <1>3, <1>4 DEF IsBatch

Listed(q, x) == \E i \in DOMAIN q : q[i] = x

\* It holds what they hold.
LEMMA BatchHolds ==
  ASSUME NEW a, NEW b, IsBatch(a), IsBatch(b), NEW c, c = a \o b
  PROVE  /\ \A i \in DOMAIN a : i \in DOMAIN c /\ c[i] = a[i]
         /\ \A i \in DOMAIN b : Listed(c, b[i])
         /\ \A i \in DOMAIN c :
              (i \in DOMAIN a /\ c[i] = a[i]) \/ \E j \in DOMAIN b : c[i] = b[j]
<1>1. \A i \in DOMAIN a : i \in DOMAIN c /\ c[i] = a[i]
  BY BatchJoins
<1>2. ASSUME NEW i \in DOMAIN b PROVE Listed(c, b[i])
  <2>1. Len(a) + i \in DOMAIN (a \o b) /\ (a \o b)[Len(a) + i] = b[i]
    BY BatchJoins
  <2> QED
    BY <2>1 DEF Listed
<1>3. \A i \in DOMAIN c : (i \in DOMAIN a /\ c[i] = a[i]) \/ \E j \in DOMAIN b : c[i] = b[j]
  BY BatchJoins
<1> QED
  BY <1>1, <1>2, <1>3

\* A batch without its first element.
LEMMA BatchAdvances ==
  ASSUME NEW a, IsBatch(a), a # <<>>
  PROVE  /\ IsBatch(Tail(a)) /\ 1 \in DOMAIN a /\ Head(a) = a[1]
         /\ DOMAIN Tail(a) = 1..(Len(a) - 1)
         /\ \A i \in DOMAIN Tail(a) : i + 1 \in DOMAIN a /\ Tail(a)[i] = a[i + 1]
         /\ \A i \in DOMAIN a : i # 1 => i - 1 \in DOMAIN Tail(a) /\ Tail(a)[i - 1] = a[i]
<1>1. PICK S : a \in Seq(S)
  BY DEF IsBatch
<1>2. Tail(a) \in Seq(S) /\ Len(a) \in Nat /\ Len(a) > 0
  BY <1>1
<1> QED
  BY <1>1, <1>2 DEF IsBatch

\* A batch with one more element.
LEMMA BatchGrows ==
  ASSUME NEW a, NEW x, IsBatch(a)
  PROVE  /\ IsBatch(Append(a, x))
         /\ DOMAIN Append(a, x) = 1..(Len(a) + 1)
         /\ Append(a, x)[Len(a) + 1] = x
         /\ \A i \in DOMAIN a : Append(a, x)[i] = a[i]
<1>1. PICK S : a \in Seq(S)
  BY DEF IsBatch
<1> DEFINE U == S \cup {x}
<1>2. a \in Seq(U) /\ x \in U
  BY <1>1
<1> HIDE DEF U
<1>3. Append(a, x) \in Seq(U)
  BY <1>2
<1> QED
  BY <1>2, <1>3 DEF IsBatch

\* The empty batch.
LEMMA NoBatch == IsBatch(<<>>) /\ DOMAIN <<>> = {}
<1>1. <<>> \in Seq({})
  OBVIOUS
<1> QED
  BY <1>1 DEF IsBatch

\* The frames of a batch are its SendFrame actions, in its order.
LEMMA FramesOfBatch ==
  ASSUME NEW out, IsBatch(out)
  PROVE  LET q == Frames(out)
         IN  /\ IsBatch(q)
             /\ \A i \in DOMAIN q : \E j \in DOMAIN out : out[j].act = "SendFrame" /\ q[i] = out[j]
             /\ \A j \in DOMAIN out : out[j].act = "SendFrame" => \E i \in DOMAIN q : q[i] = out[j]
             /\ \A i, k \in DOMAIN q : i < k =>
                  \E j, l \in DOMAIN out : /\ j < l /\ q[i] = out[j] /\ q[k] = out[l]
                                           /\ out[j].act = "SendFrame" /\ out[l].act = "SendFrame"
<1> DEFINE S == {i \in DOMAIN out : out[i].act = "SendFrame"}
           at == Ascending(S)
           n == Cardinality(S)
           q == [j \in DOMAIN at |-> out[at[j]]]
<1>1. PICK T : out \in Seq(T)
  BY DEF IsBatch
<1>2. Len(out) + 1 \in Nat /\ S \subseteq 0..((Len(out) + 1) - 1) /\ \A i \in S : out[i] \in T
  BY <1>1
<1>3. IsFiniteSet(S) /\ n \in Nat /\ at \in [1..n -> S] /\ \A i, j \in 1..n : i < j => at[i] < at[j]
  <2> HIDE DEF S
  <2> QED
    BY <1>2, AscendingOrder
<1>4. \A i \in S : i \in Nat /\ i \in DOMAIN out /\ out[i].act = "SendFrame"
  BY <1>2
<1>a. \A i \in DOMAIN out : out[i].act = "SendFrame" => i \in S
  OBVIOUS
<1> HIDE DEF S, n
<1>5. \A i \in S : \E j \in 1..n : at[j] = i
  <2> DEFINE I == 1..n
  <2>0. IsFiniteSet(I) /\ Cardinality(I) = n
    BY <1>3, FS_Interval
  <2>1. at \in [I -> S] /\ \A i, j \in I : at[i] = at[j] => i = j
    <3>1. ASSUME NEW i \in I, NEW j \in I, i # j PROVE at[i] # at[j]
      <4>1. i < j \/ j < i
        BY <3>1
      <4>2. at[i] \in Nat /\ at[j] \in Nat
        BY <1>3, <1>4
      <4> HIDE DEF at
      <4> QED
        BY <1>3, <4>1, <4>2
    <3> QED
      BY <1>3, <3>1
  <2> HIDE DEF at, I
  <2>2. at \in Injection(I, S)
    BY <2>1 DEF Injection, IsInjective
  <2>3. Cardinality(I) = Cardinality(S)
    BY <2>0 DEF n
  <2>4. at \in Surjection(I, S)
    BY <1>3, <2>2, <2>3, FS_Injection
  <2> QED
    BY <2>4 DEF Surjection, I
<1> HIDE DEF at
<1>6. DOMAIN q = 1..n /\ \A j \in 1..n : q[j] = out[at[j]] /\ at[j] \in S
  BY <1>3
<1>7. q \in Seq(T)
  <2>1. \A j \in 1..n : q[j] \in T
    BY <1>2, <1>6
  <2>2. q = [j \in 1..n |-> q[j]]
    BY <1>6
  <2> HIDE DEF q
  <2>3. q \in [1..n -> T]
    BY <2>1, <2>2
  <2> QED
    BY <1>3, <2>3
<1>8. Frames(out) = q
  BY DEF Frames, at, S
<1> HIDE DEF q
<1>9. \A i \in DOMAIN q : \E j \in DOMAIN out : out[j].act = "SendFrame" /\ q[i] = out[j]
  BY <1>4, <1>6
<1>10. \A j \in DOMAIN out : out[j].act = "SendFrame" => \E i \in DOMAIN q : q[i] = out[j]
  BY <1>a, <1>5, <1>6
<1>11. ASSUME NEW i \in DOMAIN q, NEW k \in DOMAIN q, i < k
       PROVE  \E j, l \in DOMAIN out : /\ j < l /\ q[i] = out[j] /\ q[k] = out[l]
                                       /\ out[j].act = "SendFrame" /\ out[l].act = "SendFrame"
  <2>1. at[i] < at[k]
    BY <1>3, <1>6, <1>11
  <2> QED
    BY <1>4, <1>6, <2>1
<1> QED
  BY <1>7, <1>8, <1>9, <1>10, <1>11 DEF IsBatch

-----------------------------------------------------------------------------
(* What a control procedure waits for.                                     *)

ResponseType(kind) == CASE kind = "Select"   -> "Select.rsp"
                        [] kind = "Deselect" -> "Deselect.rsp"
                        [] kind = "Linktest" -> "Linktest.rsp"

\* The responses the request of a control procedure can get from this code.
Responds(m, kind, sys) ==
  /\ m.type = ResponseType(kind) /\ m.sys = sys
  /\ kind # "Linktest" => m.sid = ControlSession

\* Frame f was pushed: it stays so when other actions are.
LEMMA PushesMore ==
  ASSUME NEW c, NEW a, NEW m, DOMAIN c = Fields, IsBatch(c.out), Pushes(c, m)
  PROVE  Pushes(Emit(c, a), m)
BY EmitAppends DEF Pushes

\* A response is pushed unless there is no WriteId left for it (send_response).
LEMMA ResponsePushed ==
  ASSUME NEW c, NEW m, IInv(c), IsBatch(c.out)
  PROVE  LET r == SendResponse(c, m) IN r.closing \/ (Pushes(r, m) /\ IsBatch(r.out))
<1>1. CASE c.nextWrite = WriteSpace
  BY <1>1, FailRuntimeInvariantIInv DEF SendResponse, IInv
<1>2. CASE c.nextWrite # WriteSpace
  <2> DEFINE d == [c EXCEPT !.nextWrite = @ + 1,
                            !.pending = Put(@, c.nextWrite,
                                            PendingWrite("Response", None, None, None))]
             a == SendFrame(c.nextWrite, m)
  <2>1. DOMAIN d = Fields /\ d.out = c.out
    BY DEF IInv, Weak, Shape, Fields
  <2>2. SendResponse(c, m) = Emit(d, a)
    BY <1>2 DEF SendResponse
  <2>3. a.act = "SendFrame" /\ a.message = m
    BY DEF SendFrame
  <2> HIDE DEF d, a
  <2>4. IsBatch(Emit(d, a).out) /\ \E n \in DOMAIN Emit(d, a).out : Emit(d, a).out[n] = a
    BY <2>1, EmitAppends
  <2> QED
    BY <2>2, <2>3, <2>4 DEF Pushes
<1> QED
  BY <1>1, <1>2

\* A run that is known to have pushed m says so from then on.
LEMMA RunTells ==
  ASSUME NEW p, NEW s, NEW c, NEW m, Run(p, s, c), Pushes(c, m)
  PROVE  Run([p EXCEPT !.said = {m}], s, c)
<1> DEFINE q == [p EXCEPT !.said = {m}]
<1>1. /\ q.open = p.open /\ q.nextWrite = p.nextWrite /\ q.nextReply = p.nextReply
      /\ q.pending = p.pending /\ q.kinds = p.kinds /\ q.replies = p.replies
      /\ q.closing = p.closing /\ q.told = p.told /\ q.bound = p.bound
      /\ q.heard = p.heard /\ q.live = p.live /\ q.permit = p.permit /\ q.cause = p.cause
      /\ q.said \subseteq {m}
  OBVIOUS
<1> HIDE DEF q
<1>2. Opened(q, c) /\ Written(q, c) /\ Announced(s, c) /\ Quieted(q, s, c) /\ Bounded(q, c)
  BY <1>1 DEF Run, Log, Opened, Written, Announced, Quieted, Bounded
<1>3. Answered(q, c)
  BY <1>1 DEF Run, Log, Answered, Justified, Fair
<1>4. Excused(q, c)
  BY <1>1 DEF Run, Log, Excused, Excusable
<1>5. Framed(q, c) /\ Barred(q, c) /\ Granted(q, c)
  BY <1>1 DEF Run, Log, Posted, Framed, Barred, Granted
<1>6. Spoken(q, c)
  BY <1>1 DEF Run, Log, Spoken
<1> QED
  BY <1>2, <1>3, <1>4, <1>5, <1>6 DEF Run, Log, Posted, q

\* The dispatch of a message to an open Core: what on_message does before the drain
\* advances.
LEMMA Dispatch ==
  ASSUME NEW c0, NEW m, IInv(c0), Traced(c0), c0.state # "None", ~c0.closing
  PROVE  LET o == Snapshot(c0, {}, UnresolvedCommands(c0))
             d == RecordActivity(Begin(c0))
         IN  /\ IInv(d) /\ Run(o, c0.state, d) /\ IsBatch(d.out) /\ o.nextWrite \in Nat
             /\ d.active = c0.active /\ d.state = c0.state /\ ~d.closing /\ d.drain = c0.drain
             /\ OnMessage(c0, m, FALSE) = ProgressDeselect(DispatchMessage(d, m), FALSE)
<1> DEFINE o == Snapshot(c0, {}, UnresolvedCommands(c0))
           c == Begin(c0)
           d == RecordActivity(c)
<1>1. /\ IInv(c) /\ Run(o, c0.state, c) /\ o.nextWrite \in Nat
      /\ \A f \in Fields \ {"out"} : c[f] = c0[f]
  BY RunBegins
<1>2. OnMessage(c0, m, FALSE) = IF c.state = "None" \/ c.closing THEN c
                                ELSE ProgressDeselect(DispatchMessage(d, m), FALSE)
  BY DEF OnMessage
<1> HIDE DEF c, o
<1>3. IInv(d) /\ \A f \in Fields \ {"idle"} : d[f] = c[f]
  BY <1>1, RecordActivityIInv
<1> HIDE DEF d
<1>4. /\ d.active = c0.active /\ d.state = c0.state /\ d.closing = c0.closing /\ d.drain = c0.drain
      /\ c.state = c0.state /\ c.closing = c0.closing
  BY <1>1, <1>3 DEF Fields
<1>5. Run(o, c0.state, d)
  BY <1>1, <1>3, RunSame DEF Fields
<1>6. IsBatch(d.out)
  BY <1>5 DEF Run, Log
<1> QED
  BY <1>1, <1>2, <1>3, <1>4, <1>5, <1>6 DEF c, d, o

\* The request of a control procedure is answered at once, whatever the state, unless
\* the Core closes (receive_select_request, receive_deselect_request).
LEMMA RequestIsAnswered ==
  ASSUME NEW c0, IInv(c0), Traced(c0), c0.state # "None", ~c0.closing,
         NEW kind \in TransactionKinds, NEW sys
  PROVE  LET r == OnMessage(c0, TransactionMessage(kind, sys), FALSE)
         IN  r.closing \/ \E m : Responds(m, kind, sys) /\ Pushes(r, m)
<1> DEFINE q == TransactionMessage(kind, sys)
           o == Snapshot(c0, {}, UnresolvedCommands(c0))
           d == RecordActivity(Begin(c0))
           x == DispatchMessage(d, q)
           r == OnMessage(c0, q, FALSE)
<1>1. /\ IInv(d) /\ Run(o, c0.state, d) /\ IsBatch(d.out) /\ o.nextWrite \in Nat
      /\ d.state = c0.state /\ ~d.closing /\ r = ProgressDeselect(x, FALSE)
  BY Dispatch
<1>2. ~o.closing /\ ~d.closeIssued
  BY <1>1 DEF Run, Log, Quieted, IInv, Closed
<1> HIDE DEF d, o
<1>3. ASSUME kind = "Select"
      PROVE  /\ IInv(x) /\ Run(o, c0.state, x)
             /\ x.closing \/ \E m : Responds(m, kind, sys) /\ Pushes(x, m)
  <2> DEFINE answer == IF d.state = "Selected" THEN "ALREADY_ACTIVE" ELSE "SUCCESS"
             chosen == [d EXCEPT !.state = "Selected", !.t7 = FALSE]
             m == SelectRsp(ControlSession, answer, sys)
             e == IF answer = "SUCCESS" THEN chosen ELSE d
             sent == SendResponse(e, m)
  <2>1. q.type = "Select.req" /\ q.sid = ControlSession /\ q.sys = sys
    BY <1>3 DEF TransactionMessage, SelectReq
  <2>2. x = ReceiveSelectRequest(d, q)
    BY <2>1 DEF DispatchMessage
  <2>3. x = IF answer = "SUCCESS" /\ ~sent.closing THEN Emit(sent, StateChanged("Selected")) ELSE sent
    BY <2>1, <2>2 DEF ReceiveSelectRequest
  <2>4. Responds(m, kind, sys)
    BY <1>3 DEF Responds, ResponseType, SelectRsp
  <2>5. IInv(e) /\ e.out = d.out
    BY <1>1, SelectedIInv DEF Fields
  <2>6. IInv(x) /\ Run(o, c0.state, x)
    BY <1>1, <2>2, ReceiveSelectRequestIInv, RunReceivesSelectRequest
  <2> HIDE DEF e, m, x, answer
  <2>7. /\ IInv(sent) /\ DOMAIN sent = Fields
        /\ sent.closing \/ (Pushes(sent, m) /\ IsBatch(sent.out))
    BY <1>1, <2>5, ResponsePushed, SendResponseEffect DEF IInv, Weak, Shape
  <2> HIDE DEF sent
  <2>8. ~sent.closing => Pushes(Emit(sent, StateChanged("Selected")), m)
    BY <2>7, PushesMore
  <2> QED
    BY <2>3, <2>4, <2>6, <2>7, <2>8
<1>4. ASSUME kind = "Deselect"
      PROVE  /\ IInv(x) /\ Run(o, c0.state, x)
             /\ x.closing \/ \E m : Responds(m, kind, sys) /\ Pushes(x, m)
  <2> DEFINE answer == IF d.state # "Selected" THEN "NOT_SELECTED"
                       ELSE IF DataInUse(d) THEN "BUSY" ELSE "SUCCESS"
             m == DeselectRsp(ControlSession, answer, sys)
             sent == SendResponse(d, m)
             b == ArmSelectionTimeout([sent EXCEPT !.state = "NotSelected",
                                                   !.replies = EmptyFunction])
  <2>1. q.type = "Deselect.req" /\ q.sid = ControlSession /\ q.sys = sys
    BY <1>4 DEF TransactionMessage, DeselectReq
  <2>2. x = ReceiveDeselectRequest(d, q)
    BY <2>1 DEF DispatchMessage
  <2>3. x \in {sent, CommitDeselection(sent)}
    BY <2>1, <2>2 DEF ReceiveDeselectRequest
  <2>4. Responds(m, kind, sys)
    BY <1>4 DEF Responds, ResponseType, DeselectRsp
  <2>6. IInv(x) /\ Run(o, c0.state, x)
    BY <1>1, <2>2, ReceiveDeselectRequestIInv, RunReceivesDeselectRequest
  <2> HIDE DEF m, x, answer
  <2>7. /\ IInv(sent) /\ DOMAIN sent = Fields
        /\ sent.closing \/ (Pushes(sent, m) /\ IsBatch(sent.out))
    BY <1>1, ResponsePushed, SendResponseEffect DEF IInv, Weak, Shape
  <2> HIDE DEF sent
  <2>8. DOMAIN b = Fields /\ b.out = sent.out /\ b.closing = sent.closing /\ b.active = sent.active
    BY <2>7 DEF ArmSelectionTimeout, Fields
  <2>9. CommitDeselection(sent) \in {sent, Emit(b, StateChanged("NotSelected"))}
    BY DEF CommitDeselection
  <2> HIDE DEF b
  <2>10. /\ Emit(b, StateChanged("NotSelected")).closing = sent.closing
         /\ ~sent.closing => Pushes(Emit(b, StateChanged("NotSelected")), m)
    <3>1. ~sent.closing => Pushes(b, m) /\ IsBatch(b.out)
      BY <2>7, <2>8 DEF Pushes
    <3>2. Emit(b, StateChanged("NotSelected")).closing = b.closing
      BY <2>8, EmitFields DEF Fields
    <3> QED
      BY <2>8, <3>1, <3>2, PushesMore
  <2> QED
    BY <2>3, <2>4, <2>6, <2>7, <2>9, <2>10
<1>5. ASSUME kind = "Linktest"
      PROVE  /\ IInv(x) /\ Run(o, c0.state, x)
             /\ x.closing \/ \E m : Responds(m, kind, sys) /\ Pushes(x, m)
  <2> DEFINE m == LinktestRsp(sys)
  <2>1. q.type = "Linktest.req" /\ q.sys = sys
    BY <1>5 DEF TransactionMessage, LinktestReq
  <2>2. x = SendResponse(d, m)
    BY <2>1 DEF DispatchMessage
  <2>3. Responds(m, kind, sys) /\ m.type \in MessageTypes \ {"Data"}
    BY <1>5 DEF Responds, ResponseType, LinktestRsp, MessageTypes
  <2> HIDE DEF m, x
  <2> QED
    BY <1>1, <1>2, <2>2, <2>3, SendResponseEffect, RunResponds, ResponsePushed
<1>6. /\ IInv(x) /\ Run(o, c0.state, x)
      /\ x.closing \/ \E m : Responds(m, kind, sys) /\ Pushes(x, m)
  BY <1>3, <1>4, <1>5 DEF TransactionKinds
<1> HIDE DEF x, r
<1>7. x.closing => r.closing
  BY <1>1 DEF ProgressDeselect
<1>8. ASSUME NEW m, Responds(m, kind, sys), Pushes(x, m)
      PROVE  Pushes(r, m)
  <2> DEFINE p == [o EXCEPT !.said = {m}]
  <2>1. Run(p, c0.state, x)
    BY <1>6, <1>8, RunTells
  <2>2. p.nextWrite = o.nextWrite /\ p.said = {m}
    BY DEF o, Snapshot
  <2> HIDE DEF p
  <2>3. Run(p, c0.state, ProgressDeselect(x, FALSE))
    BY <1>1, <1>6, <2>1, <2>2, RunProgresses
  <2> QED
    BY <1>1, <2>2, <2>3 DEF Run, Log, Spoken
<1> QED
  BY <1>6, <1>7, <1>8 DEF r, q

\* A response that answers the control transaction ends it (receive_select_response,
\* receive_deselect_response, receive_linktest_response).
LEMMA ResponseEnds ==
  ASSUME NEW c0, NEW m, IInv(c0), Traced(c0), c0.state # "None", ~c0.closing,
         c0.active # None, Responds(m, c0.active.kind, c0.active.sys)
  PROVE  LET r == OnMessage(c0, m, FALSE) IN r.closing \/ r.active = None
<1> DEFINE d == RecordActivity(Begin(c0))
           t == d.active
           done == [d EXCEPT !.active = None]
           x == DispatchMessage(d, m)
           r == OnMessage(c0, m, FALSE)
           Over(c) == c.closing \/ (c.active = None /\ c.drain = None)
<1>1. /\ IInv(d) /\ d.active = c0.active /\ ~d.closing /\ d.active # None
      /\ d.drain = c0.drain /\ r = ProgressDeselect(x, FALSE)
  BY Dispatch
<1>2. t.kind \in TransactionKinds /\ Responds(m, t.kind, t.sys) /\ d.drain = None
  BY <1>1 DEF IInv, Weak, Shape, Owners
<1> HIDE DEF d, r
<1>3. IInv(done) /\ done.active = None /\ \A f \in Fields \ {"active"} : done[f] = d[f]
  BY <1>1, DropActive
<1>4. Shape(done) /\ Weak(done) /\ done.drain = None /\ done.state = d.state
  BY <1>2, <1>3 DEF IInv, Weak, Fields
<1> HIDE DEF done
<1>5. ASSUME NEW c, Weak(c), c.active = None, c.drain = None, NEW result
      PROVE  Over(CompleteControlTransaction(c, t, result))
  <2>1. FailRuntimeInvariant(c).closing
    BY <1>5, FailureEffect
  <2>2. /\ EmitCompletion(c, {t.command}, result).active = None
        /\ EmitCompletion(c, {t.command}, result).drain = None
    BY <1>5, EmitCompletionEffect DEF Weak, Fields
  <2> QED
    BY <1>5, <2>1, <2>2 DEF CompleteControlTransaction, CompleteControl, CompleteAs
<1>6. ASSUME t.kind = "Select" PROVE Over(x)
  <2> DEFINE e == [done EXCEPT !.state = "Selected", !.t7 = FALSE]
             f == Emit(e, StateChanged("Selected"))
             g == IF d.state = "Selected" THEN done ELSE f
  <2>1. m.type = "Select.rsp" /\ Answers(d, "Select", m.sid, m.sys)
    BY <1>1, <1>2, <1>6 DEF Responds, ResponseType, Answers
  <2>2. x = ReceiveSelectResponse(d, m)
    BY <2>1 DEF DispatchMessage
  <2>3. x \in {CompleteControlTransaction(g, t, "Ok"),
               CompleteControlTransaction(done, t, "SelectRejected")}
    BY <2>1, <2>2 DEF ReceiveSelectResponse, done
  <2>4. IInv(e) /\ e.active = None /\ e.drain = None
    BY <1>3, <1>4, SelectedIInv DEF Fields
  <2> HIDE DEF e
  <2>5. Weak(f) /\ f.active = None /\ f.drain = None
    BY <2>4, EmitWeak DEF IInv, Fields
  <2> HIDE DEF f
  <2> QED
    BY <1>3, <1>4, <1>5, <2>3, <2>5
<1>7. ASSUME t.kind = "Deselect" PROVE Over(x)
  <2> DEFINE g == CommitDeselection(done)
  <2>1. m.type = "Deselect.rsp" /\ Answers(d, "Deselect", m.sid, m.sys)
    BY <1>1, <1>2, <1>7 DEF Responds, ResponseType, Answers
  <2>2. x = ReceiveDeselectResponse(d, m)
    BY <2>1 DEF DispatchMessage
  <2>3. x \in {CompleteControlTransaction(g, t, "Ok"),
               CompleteControlTransaction(done, t, "DeselectRejected")}
    BY <2>1, <2>2 DEF ReceiveDeselectResponse, done
  <2>4. DOMAIN done.data = {}
    BY <1>1, <1>3, <1>7 DEF IInv, Selection, RepliesBlocked, Fields
  <2>5. Weak(g) /\ g.active = None /\ g.drain = None
    BY <1>3, <1>4, <2>4, CommitDeselectionIInv DEF IInv, Fields
  <2> HIDE DEF g
  <2> QED
    BY <1>3, <1>4, <1>5, <2>3, <2>5
<1>8. ASSUME t.kind = "Linktest" PROVE Over(x)
  <2>1. m.type = "Linktest.rsp" /\ Answers(d, "Linktest", ControlSession, m.sys)
    BY <1>1, <1>2, <1>8 DEF Responds, ResponseType, Answers
  <2>2. x = ReceiveLinktestResponse(d, m)
    BY <2>1 DEF DispatchMessage
  <2>3. x = CompleteControlTransaction(done, t, "Ok")
    BY <2>1, <2>2 DEF ReceiveLinktestResponse, done
  <2> QED
    BY <1>3, <1>4, <1>5, <2>3
<1>9. Over(x)
  BY <1>2, <1>6, <1>7, <1>8 DEF TransactionKinds
<1> HIDE DEF x
<1>10. r.closing \/ r.active = None
  BY <1>1, <1>9 DEF ProgressDeselect
<1> QED
  BY <1>10 DEF r

-----------------------------------------------------------------------------
(* The Data frames of a side.                                              *)

\* A message a side of this code may write: its function has a code.
Codes(m) == m.type = "Data" => m.header.function \in FunctionCodes

Coded(c) == \A i \in DOMAIN c.out : c.out[i].act = "SendFrame" => Codes(c.out[i].message)

\* A handler without a permit writes no Data.
LEMMA UnpermittedCoded ==
  ASSUME NEW p, NEW s, NEW c, Run(p, s, c), ~p.permit
  PROVE  Coded(c)
BY DEF Run, Log, Posted, Framed, Coded, Codes

\* A run that has pushed nothing yet has used no permit.
LEMMA RunForbids ==
  ASSUME NEW p, NEW s, NEW c, Run(p, s, c), DOMAIN c.out = {}
  PROVE  LET q == Permitted(p, FALSE)
         IN  /\ Run(q, s, c) /\ ~q.permit /\ q.told = p.told /\ q.bound = p.bound
             /\ q.nextWrite = p.nextWrite
<1> DEFINE q == Permitted(p, FALSE)
<1>1. /\ q.open = p.open /\ q.nextWrite = p.nextWrite /\ q.nextReply = p.nextReply
      /\ q.pending = p.pending /\ q.kinds = p.kinds /\ q.replies = p.replies
      /\ q.closing = p.closing /\ q.told = p.told /\ q.bound = p.bound
      /\ q.heard = p.heard /\ q.live = p.live /\ q.said = p.said /\ q.cause = p.cause
  BY DEF Permitted
<1>p. ~q.permit
  BY DEF Permitted
<1> HIDE DEF q
<1>2. Opened(q, c) /\ Written(q, c) /\ Announced(s, c) /\ Quieted(q, s, c) /\ Bounded(q, c)
  BY <1>1 DEF Run, Log, Opened, Written, Announced, Quieted, Bounded
<1>3. Answered(q, c)
  BY <1>1 DEF Run, Log, Answered, Justified, Fair
<1>4. Excused(q, c)
  BY <1>1 DEF Run, Log, Excused, Excusable
<1>5. Framed(q, c) /\ Barred(q, c) /\ Granted(q, c)
  BY <1>1 DEF Run, Log, Posted, Framed, Barred, Granted
<1>6. Spoken(q, c)
  BY <1>1 DEF Run, Log, Spoken
<1> QED
  BY <1>1, <1>p, <1>2, <1>3, <1>4, <1>5, <1>6 DEF Run, Log, Posted, q

\* A Data frame as the only action of a batch.
LEMMA OneFrameCoded ==
  ASSUME NEW c, NEW w, NEW m, DOMAIN c = Fields, IsBatch(c.out), DOMAIN c.out = {}, Codes(m)
  PROVE  Coded(Emit(c, SendFrame(w, m)))
<1> DEFINE a == SendFrame(w, m)
<1>1. a.message = m
  BY DEF SendFrame
<1> HIDE DEF a
<1>2. \A i \in DOMAIN Emit(c, a).out : Emit(c, a).out[i] = a
  BY EmitAppends
<1> QED
  BY <1>1, <1>2 DEF Coded, a

\* The frames of on_command.
LEMMA CommandCoded ==
  ASSUME NEW c0, IInv(c0), Traced(c0), NEW k \in Commands \ DOMAIN c0.open,
         NEW kind \in CommandNames, NEW primary, primary.function \in FunctionCodes
  PROVE  Coded(OnCommand(c0, k, kind, primary))
<1> DEFINE open == OpenKind(kind)
           c == Opening(c0, k, open)
           p == Accepting(c0, k, open)
           q == Permitted(p, FALSE)
           r == OnCommand(c0, k, kind, primary)
           w == kind = "Request"
           header == DataHeader(DataSession, primary.stream, primary.function, w, c.nextSys)
           m == DataMsg(header, primary.body)
           request == [command |-> k, write |-> c.nextWrite, armed |-> FALSE,
                       contract |-> ForRequest(DataSession, c.nextSys, primary.stream,
                                               primary.function)]
           d == [AllocateRequestIdentifiers(c) EXCEPT
                   !.data = IF w THEN Put(@, c.nextSys, request) ELSE @,
                   !.pending = Put(@, c.nextWrite,
                     PendingWrite(IF w THEN "DataRequest" ELSE "DataSend", k,
                                  DataSession, c.nextSys))]
           errors == {"NotConnected", "ConnectionLost", "Draining", "NotSelected",
                      "InvalidPrimaryFunction", "Backpressure"}
<1>1. open \in CommandKinds
  BY DEF OpenKind, CommandKinds, CommandNames, ControlCommands
<1>2. /\ IInv(c) /\ Free(c, k, open) /\ Run(p, c0.state, c) /\ p.nextWrite \in Nat
      /\ <<k, "Backpressure">> \in p.told /\ k \notin p.bound
      /\ p.permit = (open # "Control") /\ DOMAIN c.out = {}
  BY <1>1, RunOpens
<1>3. CASE kind \notin {"Send", "Request"}
  <2>1. ~p.permit
    BY <1>2, <1>3 DEF OpenKind, CommandNames, ControlCommands
  <2>2. Run(p, c0.state, r)
    BY RunOnCommand
  <2> QED
    BY <2>1, <2>2, UnpermittedCoded
<1>4. CASE kind \in {"Send", "Request"}
  <2>1. r = IF c.state = "None" THEN CompleteError(c, k, "NotConnected")
            ELSE IF c.closing THEN CompleteError(c, k, "ConnectionLost")
            ELSE StartData(c, k, primary, w)
    BY <1>4 DEF OnCommand, Opening
  <2>2. \/ \E e \in errors : r = CompleteError(c, k, e)
        \/ r = RefuseIdentifiers(c)
        \/ r = Emit(d, SendFrame(c.nextWrite, m))
    BY <2>1 DEF StartData
  <2>3. /\ Run(q, c0.state, c) /\ ~q.permit /\ <<k, "Backpressure">> \in q.told
        /\ k \notin q.bound
    BY <1>2, RunForbids
  <2>4. Codes(m)
    BY DEF Codes, DataMsg, DataHeader
  <2>5. DOMAIN d = Fields /\ d.out = c.out
    BY <1>2 DEF IInv, Weak, Shape, Fields, AllocateRequestIdentifiers
  <2> HIDE DEF c, d, m, q, r, open
  <2>6. ASSUME NEW e \in errors, r = CompleteError(c, k, e) PROVE Coded(r)
    <3>1. k \in DOMAIN c.open /\ ~Claimed(c, k) /\ Shape(c)
      BY <1>2 DEF Free, Owned, Claimed, IInv, Weak
    <3>2. Plain(e) \/ (Justified(q, k, e) /\ e \notin {"open", "unused"})
      BY <2>3 DEF Plain, Justified, Fair
    <3>3. e \notin {"Secondary", "TransactionAborted"}
      OBVIOUS
    <3>4. Run(q, c0.state, r)
      BY <2>3, <2>6, <3>1, <3>2, <3>3, RunCompletesError
    <3> QED
      BY <2>3, <3>4, UnpermittedCoded
  <2>7. ASSUME r = RefuseIdentifiers(c) PROVE Coded(r)
    <3>1. (r = FailRuntimeInvariant(c) /\ Exhausted(c)) \/ r = CloseAll(c, "SystemBytesExhausted")
      BY <2>7 DEF RefuseIdentifiers, Exhausted
    <3>2. Run(q, c0.state, r)
      BY <1>2, <2>3, <3>1, RunFails, RunClosesAll DEF IInv, Excusable, CoreReasons
    <3> QED
      BY <2>3, <3>2, UnpermittedCoded
  <2>8. ASSUME r = Emit(d, SendFrame(c.nextWrite, m)) PROVE Coded(r)
    <3>1. IsBatch(d.out) /\ DOMAIN d.out = {}
      BY <1>2, <2>5 DEF Run, Log
    <3> QED
      BY <2>4, <2>5, <2>8, <3>1, OneFrameCoded
  <2> QED
    BY <2>2, <2>6, <2>7, <2>8 DEF r
<1> QED
  BY <1>3, <1>4

\* The frames of on_reply.
LEMMA ReplyCoded ==
  ASSUME NEW c0, IInv(c0), Traced(c0), NEW k \in Commands \ DOMAIN c0.open,
         NEW capability, NEW intent, NEW body, NEW due
  PROVE  Coded(OnReply(c0, k, capability, intent, body, due))
<1> DEFINE kind == IF intent = "Abandon" THEN "Control" ELSE "Send"
           c    == Opening(c0, k, kind)
           used == [c EXCEPT !.replies = Drop(@, {capability})]
           primary == c.replies[capability]
           function == IF intent = "Abort" THEN 0 ELSE primary.function + 1
           header  == DataHeader(primary.sid, primary.stream, function, FALSE, primary.sys)
           d == [used EXCEPT !.nextWrite = @ + 1,
                             !.pending = Put(@, c.nextWrite,
                                             PendingWrite("DataSend", k, primary.sid, primary.sys))]
           m == DataMsg(header, intent = "Secondary" /\ body)
           p == Accepting(c0, k, kind)
           q == Permitted(p, FALSE)
           r == OnReply(c0, k, capability, intent, body, due)
<1>1. /\ IInv(c) /\ Free(c, k, kind) /\ Run(p, c0.state, c)
      /\ p.permit = (kind # "Control") /\ DOMAIN c.out = {}
  BY RunOpens DEF CommandKinds
<1>2. CASE intent = "Abandon"
  <2>1. ~p.permit
    BY <1>1, <1>2
  <2>2. Run(p, c0.state, r)
    BY RunOnReply
  <2> QED
    BY <2>1, <2>2, UnpermittedCoded
<1>3. CASE intent # "Abandon"
  <2>1. \/ \E e \in {"ReplyCapabilityUnavailable", "Draining"} : r = CompleteError(c, k, e)
        \/ r = CompleteError(used, k, "ReplyRequiresAbort")
        \/ used.nextWrite = WriteSpace /\ r = FailRuntimeInvariant(used)
        \/ function \in FunctionCodes /\ r = Emit(d, SendFrame(c.nextWrite, m))
    BY <1>3 DEF OnReply, Opening
  <2>2. Run(q, c0.state, c) /\ ~q.permit
    BY <1>1, RunForbids
  <2>3. function \in FunctionCodes => Codes(m)
    BY DEF Codes, DataMsg, DataHeader
  <2> HIDE DEF c, m, q, r, kind, function
  <2>4. IInv(used) /\ \A f \in Fields \ {"replies"} : used[f] = c[f]
    BY <1>1, DropReply
  <2>5. DOMAIN used.replies \subseteq DOMAIN c.replies
    BY <1>1 DEF IInv, Weak, Shape, Fields, Drop
  <2>6. DOMAIN d = Fields /\ d.out = used.out
    BY <2>4 DEF IInv, Weak, Shape, Fields
  <2> HIDE DEF used, d
  <2>7. Run(q, c0.state, used) /\ IsBatch(d.out) /\ DOMAIN d.out = {}
    BY <1>1, <2>2, <2>4, <2>5, <2>6, RunSame DEF Fields, Run, Log
  <2>8. /\ k \in DOMAIN c.open /\ ~Claimed(c, k) /\ Shape(c)
        /\ k \in DOMAIN used.open /\ ~Claimed(used, k) /\ Shape(used)
    BY <1>1, <2>4 DEF Free, Owned, Claimed, IInv, Weak, Fields
  <2>9. \/ Run(q, c0.state, r)
        \/ function \in FunctionCodes /\ r = Emit(d, SendFrame(c.nextWrite, m))
    BY <2>1, <2>2, <2>4, <2>7, <2>8, RunCompletesError, RunFails DEF Plain, IInv, Exhausted
  <2> QED
    BY <2>2, <2>3, <2>6, <2>7, <2>9, UnpermittedCoded, OneFrameCoded DEF r
<1> QED
  BY <1>2, <1>3

\* The frames of the other handlers: none of them may write Data.
LEMMA OthersCoded ==
  ASSUME NEW c0, IInv(c0), Traced(c0)
  PROVE  /\ \A reason : Coded(OnShutdown(c0, reason))
         /\ \A m, due : m.type \in MessageTypes => Coded(OnMessage(c0, m, due))
         /\ \A due : Coded(AdvanceTime(c0, due))
         /\ \A w \in DOMAIN c0.pending : \A due : Coded(OnWriteOutcome(c0, w, "Committed", due))
<1> DEFINE bound == UnresolvedCommands(c0)
<1>1. \A c, told, b : ~Snapshot(c, told, b).permit
  BY DEF Snapshot
<1>2. ASSUME NEW reason PROVE Coded(OnShutdown(c0, reason))
  <2> DEFINE o == Snapshot(c0, {}, bound)
             p == Caused(o, reason)
             r == OnShutdown(c0, reason)
  <2>1. Run(p, c0.state, r)
    BY RunOnShutdown
  <2>2. p.permit = o.permit
    BY DEF Caused, Snapshot
  <2>3. ~p.permit
    BY <1>1, <2>2
  <2> HIDE DEF p, r
  <2>4. Coded(r)
    BY <2>1, <2>3, UnpermittedCoded
  <2> QED
    BY <2>4 DEF r
<1>3. ASSUME NEW m, NEW due, m.type \in MessageTypes PROVE Coded(OnMessage(c0, m, due))
  <2> DEFINE o == Snapshot(c0, {}, bound)
             p == Hearing(o, Heard(c0, m))
             r == OnMessage(c0, m, due)
  <2>1. Run(p, c0.state, r)
    BY <1>3, RunOnMessage
  <2>2. p.permit = o.permit
    BY DEF Hearing, Snapshot
  <2>3. ~p.permit
    BY <1>1, <2>2
  <2> HIDE DEF p, r
  <2>4. Coded(r)
    BY <2>1, <2>3, UnpermittedCoded
  <2> QED
    BY <2>4 DEF r
<1>4. ASSUME NEW due PROVE Coded(AdvanceTime(c0, due))
  <2> DEFINE o == Snapshot(c0, {}, bound)
             r == AdvanceTime(c0, due)
  <2>1. Run(o, c0.state, r)
    BY RunAdvancesTime
  <2>2. ~o.permit
    BY <1>1
  <2> HIDE DEF o, r
  <2>3. Coded(r)
    BY <2>1, <2>2, UnpermittedCoded
  <2> QED
    BY <2>3 DEF r
<1>5. ASSUME NEW w \in DOMAIN c0.pending, NEW due
      PROVE  Coded(OnWriteOutcome(c0, w, "Committed", due))
  <2> DEFINE p == Reported(c0, w, "Committed")
             r == OnWriteOutcome(c0, w, "Committed", due)
  <2>1. Run(p, c0.state, r)
    BY RunOnWriteOutcome DEF Outcomes
  <2>2. ~p.permit
    BY <1>1 DEF Reported, Ending
  <2> HIDE DEF p, r
  <2>3. Coded(r)
    BY <2>1, <2>2, UnpermittedCoded
  <2> QED
    BY <2>3 DEF r
<1> QED
  BY <1>2, <1>3, <1>4, <1>5

-----------------------------------------------------------------------------
(* The two sides.                                                          *)

\* A side has one peer.
LEMMA PeerIsOther ==
  ASSUME NEW s \in Sides
  PROVE  Peer(s) \in Sides /\ Peer(s) # s /\ \A t \in Sides : t = s \/ t = Peer(s)
<1>1. PICK a \in Sides, b \in Sides : a # b /\ Sides = {a, b}
  BY PairAssumption
<1>2. \E t \in Sides : t # s
  BY <1>1
<1>3. Peer(s) \in Sides /\ Peer(s) # s
  BY <1>2 DEF Peer
<1> QED
  BY <1>1, <1>3

\* Every variable is a function of the side, and what is on its way is in order.
Typed ==
  /\ DOMAIN cores = Sides /\ DOMAIN lane = Sides /\ DOMAIN net = Sides
  /\ DOMAIN unreported = Sides /\ DOMAIN link = Sides /\ DOMAIN status = Sides
  /\ DOMAIN asked = Sides /\ DOMAIN answered = Sides
  /\ \A s \in Sides :
       /\ IsBatch(lane[s]) /\ IsBatch(net[s]) /\ IsBatch(unreported[s])
       /\ DOMAIN link[s] = {"phase", "barrier"}
       /\ link[s].phase \in {"open", "closing", "ended"}

\* The result histories of the commands side s completed, left open or did not touch.
Settled(s, c, new) ==
  \A k \in AppCommands :
    \/ \E i \in DOMAIN c.out : Completes(c.out[i], k) /\ new[k] = c.out[i].result
    \/ /\ \A i \in DOMAIN c.out : ~Completes(c.out[i], k)
       /\ new[k] = IF k \in DOMAIN c.open THEN "open" ELSE status[s][k]

\* The request histories: a live request of side s is known by its System Bytes.
Noted(s, c, new) ==
  \A k \in AppCommands :
    \/ \E y \in DOMAIN c.data : c.data[y].command = k /\ new[k] = y
    \/ /\ \A y \in DOMAIN c.data : c.data[y].command # k
       /\ new[k] = asked[s][k]

\* The requests that ended as answered were answered by the peer of s.
Truthful(s, results, systems) ==
  \A k \in AppCommands :
    systems[k] # None /\ results[k] \in {"Secondary", "TransactionAborted"} =>
      systems[k] \in answered[Peer(s)]

\* Results reads the completions of a batch.
LEMMA ResultsSettle ==
  ASSUME NEW s, NEW c PROVE Settled(s, c, Results(s, c))
<1> SUFFICES ASSUME NEW k \in AppCommands
             PROVE  \/ \E i \in DOMAIN c.out : Completes(c.out[i], k) /\ Results(s, c)[k] = c.out[i].result
                    \/ /\ \A i \in DOMAIN c.out : ~Completes(c.out[i], k)
                       /\ Results(s, c)[k] = IF k \in DOMAIN c.open THEN "open" ELSE status[s][k]
  BY DEF Settled
<1> DEFINE B == InBatch(c.out, "CompleteCommand")
           a == CHOOSE x \in B : k \in x.commands
<1>1. Results(s, c)[k] = IF \E x \in B : k \in x.commands THEN a.result
                         ELSE IF k \in DOMAIN c.open THEN "open" ELSE status[s][k]
  BY DEF Results
<1>2. \A x \in B : \E i \in DOMAIN c.out : c.out[i].act = "CompleteCommand" /\ x = c.out[i]
  BY DEF InBatch
<1>3. \A i \in DOMAIN c.out : c.out[i].act = "CompleteCommand" => c.out[i] \in B
  BY DEF InBatch
<1>4. (\E x \in B : k \in x.commands) => a \in B /\ k \in a.commands
  OBVIOUS
<1> HIDE DEF B, a
<1> QED
  BY <1>1, <1>2, <1>3, <1>4 DEF Completes

\* What a batch changes at its side, read action by action (apply_action_batch).
Applies(s, c) ==
  /\ cores'[s] = Begin(c)
  /\ lane'[s] = lane[s] \o Frames(c.out)
  /\ link'[s].phase = (IF link[s].phase = "open"
                          /\ \E i \in DOMAIN c.out : c.out[i].act = "CloseGeneration"
                       THEN "closing" ELSE link[s].phase)
  /\ DOMAIN link'[s] = {"phase", "barrier"}
  /\ Settled(s, c, status'[s])
  /\ Noted(s, c, asked'[s])
  /\ answered[s] \subseteq answered'[s]
  /\ \A i \in DOMAIN c.out :
       c.out[i].act = "SendFrame" /\ c.out[i].message.type = "Data"
         /\ c.out[i].message.header.function % 2 = 0 =>
           c.out[i].message.header.sys \in answered'[s]

\* What side s does leaves the other side alone.
Apart(s) ==
  \A t \in Sides \ {s} :
    /\ cores'[t] = cores[t] /\ lane'[t] = lane[t] /\ unreported'[t] = unreported[t]
    /\ link'[t] = link[t] /\ status'[t] = status[t] /\ asked'[t] = asked[t]
    /\ answered'[t] = answered[t]

Shaped ==
  /\ DOMAIN cores' = Sides /\ DOMAIN lane' = Sides /\ DOMAIN link' = Sides
  /\ DOMAIN status' = Sides /\ DOMAIN asked' = Sides /\ DOMAIN answered' = Sides

\* Apply is what it reads.
LEMMA ApplyEffect ==
  ASSUME Typed, NEW s \in Sides, NEW c, Apply(s, c),
         \A t \in Sides \ {s} : unreported'[t] = unreported[t]
  PROVE  Applies(s, c) /\ Apart(s) /\ Shaped
<1> DEFINE closes == InBatch(c.out, "CloseGeneration")
           frames == InBatch(c.out, "SendFrame")
           news == [k \in AppCommands |->
                      IF \E y \in DOMAIN c.data : c.data[y].command = k
                      THEN CHOOSE y \in DOMAIN c.data : c.data[y].command = k ELSE asked[s][k]]
           next == IF link[s].phase = "open" /\ closes # {}
                   THEN [phase |-> "closing", barrier |-> (CHOOSE a \in closes : TRUE).barrier]
                   ELSE link[s]
           said == {a.message.header.sys : a \in
                      {f \in frames : f.message.type = "Data"
                                      /\ f.message.header.function % 2 = 0}}
<1>1. /\ cores' = [cores EXCEPT ![s] = Begin(c)]
      /\ lane' = [lane EXCEPT ![s] = lane[s] \o Frames(c.out)]
      /\ status' = [status EXCEPT ![s] = Results(s, c)]
  BY DEF Apply
<1>2. link' = [link EXCEPT ![s] = next]
  BY DEF Apply
<1>3. asked' = [asked EXCEPT ![s] = news]
  BY DEF Apply
<1>4. answered' = [answered EXCEPT ![s] = answered[s] \cup said]
  BY DEF Apply
<1>5. closes # {} <=> \E i \in DOMAIN c.out : c.out[i].act = "CloseGeneration"
  BY DEF InBatch
<1>6. \A i \in DOMAIN c.out : c.out[i].act = "SendFrame" => c.out[i] \in frames
  BY DEF InBatch
<1>7. Noted(s, c, news)
  BY DEF Noted
<1>8. /\ next.phase = IF link[s].phase = "open" /\ closes # {} THEN "closing" ELSE link[s].phase
      /\ DOMAIN next = {"phase", "barrier"}
  BY DEF Typed
<1>9. \A i \in DOMAIN c.out :
        c.out[i].act = "SendFrame" /\ c.out[i].message.type = "Data"
          /\ c.out[i].message.header.function % 2 = 0 => c.out[i].message.header.sys \in said
  BY <1>6
<1> HIDE DEF closes, frames, news, next, said
<1>10. /\ cores'[s] = Begin(c) /\ lane'[s] = lane[s] \o Frames(c.out)
       /\ status'[s] = Results(s, c) /\ link'[s] = next /\ asked'[s] = news
       /\ answered'[s] = answered[s] \cup said
  BY <1>1, <1>2, <1>3, <1>4 DEF Typed
<1>11. Shaped
  BY <1>1, <1>2, <1>3, <1>4 DEF Typed, Shaped
<1>12. Apart(s)
  BY <1>1, <1>2, <1>3, <1>4 DEF Typed, Apart
<1>13. Settled(s, c, status'[s])
  BY <1>10, ResultsSettle
<1>14. Applies(s, c)
  BY <1>5, <1>7, <1>8, <1>9, <1>10, <1>13 DEF Applies
<1> QED
  BY <1>11, <1>12, <1>14

-----------------------------------------------------------------------------
(* The histories.                                                          *)

\* What the histories of a side say of its Core: a command is open as long as Core
\* holds it, only a request was asked, and a live request under its own System Bytes.
Recalled(c, results, systems) ==
  \A k \in AppCommands :
    /\ results[k] = "open" <=> k \in DOMAIN c.open
    /\ results[k] = "unused" => systems[k] = None
    /\ systems[k] # None /\ k \in DOMAIN c.open => c.open[k] = "Request"
    /\ \A y \in DOMAIN c.data : c.data[y].command = k => systems[k] = y

\* A request that ended as answered was answered by the peer.
Replied(s) == Truthful(s, status[s], asked[s])

\* The control transaction under way.
Live(c) == IF c.active = None THEN {} ELSE {<<c.active.kind, c.active.sys>>}

\* A handler of side s ran from the snapshot p and left c: it dropped the writes X and
\* opened at most an unused command, was told of no reply, and heard only of requests
\* the peer answered.
Handled(s, p, X, c) ==
  /\ IInv(c) /\ Run(p, cores[s].state, c)
  /\ p.nextWrite = cores[s].nextWrite /\ p.closing = cores[s].closing
  /\ p.pending = DOMAIN cores[s].pending \ X /\ p.live = Live(cores[s])
  /\ DOMAIN cores[s].open \subseteq DOMAIN p.open
  /\ \A k \in DOMAIN cores[s].open : p.open[k] = cores[s].open[k]
  /\ \A k \in DOMAIN p.open \ DOMAIN cores[s].open : k \in AppCommands => status[s][k] = "unused"
  /\ \A k, r : <<k, r>> \in p.told => r \notin {"Secondary", "TransactionAborted"}
  /\ \A k \in p.heard : k \in AppCommands => asked[s][k] \in answered[Peer(s)]

\* The live requests are open ones, each with a command of its own.
LEMMA LiveRequests ==
  ASSUME NEW c, IInv(c)
  PROVE  /\ \A y \in DOMAIN c.data : /\ c.data[y].command \in DOMAIN c.open
                                     /\ c.open[c.data[y].command] = "Request"
         /\ \A y, z \in DOMAIN c.data : c.data[y].command = c.data[z].command => y = z
BY DEF IInv, Owners

\* A handler keeps the histories true.
LEMMA HandledRecalls ==
  ASSUME NEW s, NEW p, NEW X, NEW c, NEW results, NEW systems,
         Recalled(cores[s], status[s], asked[s]), Replied(s), Handled(s, p, X, c),
         Settled(s, c, results), Noted(s, c, systems)
  PROVE  Recalled(c, results, systems) /\ Truthful(s, results, systems)
<1>0. \A k \in AppCommands :
        \/ \E y \in DOMAIN c.data : c.data[y].command = k /\ systems[k] = y
        \/ /\ \A y \in DOMAIN c.data : c.data[y].command # k
           /\ systems[k] = asked[s][k]
  BY DEF Noted
<1>1. /\ \A k \in DOMAIN c.open : k \in DOMAIN p.open /\ c.open[k] = p.open[k]
      /\ \A i \in DOMAIN c.out : \A k : Completes(c.out[i], k) =>
           /\ c.out[i].result \notin {"open", "unused"}
           /\ k \in DOMAIN p.open /\ k \notin DOMAIN c.open
           /\ Justified(p, k, c.out[i].result)
      /\ \A k \in DOMAIN p.open : k \notin DOMAIN c.open =>
           \E i \in DOMAIN c.out : Completes(c.out[i], k)
  BY DEF Handled, Run, Log, Opened, Answered, Completes
<1>2. /\ \A y \in DOMAIN c.data : /\ c.data[y].command \in DOMAIN c.open
                                  /\ c.open[c.data[y].command] = "Request"
      /\ \A y, z \in DOMAIN c.data : c.data[y].command = c.data[z].command => y = z
  BY LiveRequests DEF Handled
<1>3. ASSUME NEW k \in AppCommands, k \in DOMAIN p.open, asked[s][k] # None
      PROVE  p.open[k] = "Request"
  <2>1. status[s][k] # "unused"
    BY <1>3 DEF Recalled
  <2>2. k \in DOMAIN cores[s].open /\ p.open[k] = cores[s].open[k]
    BY <1>3, <2>1 DEF Handled
  <2> QED
    BY <1>3, <2>2 DEF Recalled
<1>4. ASSUME NEW k \in AppCommands
      PROVE  /\ results[k] = "open" <=> k \in DOMAIN c.open
             /\ results[k] = "unused" => systems[k] = None
             /\ systems[k] # None /\ k \in DOMAIN c.open => c.open[k] = "Request"
             /\ \A y \in DOMAIN c.data : c.data[y].command = k => systems[k] = y
  <2>1. results[k] = "open" <=> k \in DOMAIN c.open
    <3>1. CASE \E i \in DOMAIN c.out : Completes(c.out[i], k) /\ results[k] = c.out[i].result
      BY <1>1, <3>1
    <3>2. CASE /\ \A i \in DOMAIN c.out : ~Completes(c.out[i], k)
               /\ results[k] = IF k \in DOMAIN c.open THEN "open" ELSE status[s][k]
      BY <1>1, <3>2 DEF Recalled, Handled
    <3> QED
      BY <3>1, <3>2 DEF Settled
  <2>2. ASSUME results[k] = "unused" PROVE systems[k] = None
    <3>1. /\ \A i \in DOMAIN c.out : ~Completes(c.out[i], k)
          /\ results[k] = IF k \in DOMAIN c.open THEN "open" ELSE status[s][k]
      <4>1. ~ \E i \in DOMAIN c.out : Completes(c.out[i], k) /\ results[k] = c.out[i].result
        BY <1>1, <2>2
      <4> QED
        BY <4>1 DEF Settled
    <3>3. status[s][k] = "unused" /\ k \notin DOMAIN c.open
      BY <2>2, <3>1
    <3> QED
      BY <1>0, <1>2, <3>3 DEF Recalled
  <2>3. ASSUME systems[k] # None, k \in DOMAIN c.open PROVE c.open[k] = "Request"
    <3>1. CASE \E y \in DOMAIN c.data : c.data[y].command = k /\ systems[k] = y
      BY <1>2, <3>1
    <3>2. CASE systems[k] = asked[s][k]
      BY <1>1, <1>3, <2>3, <3>2
    <3> QED
      BY <1>0, <3>1, <3>2
  <2>4. \A y \in DOMAIN c.data : c.data[y].command = k => systems[k] = y
    BY <1>0, <1>2
  <2> QED
    BY <2>1, <2>2, <2>3, <2>4
<1>5. ASSUME NEW k \in AppCommands, systems[k] # None,
             results[k] \in {"Secondary", "TransactionAborted"}
      PROVE  systems[k] \in answered[Peer(s)]
  <2>1. k \notin DOMAIN c.open
    BY <1>4, <1>5
  <2>2. systems[k] = asked[s][k]
    BY <1>0, <1>2, <2>1
  <2>3. CASE \E i \in DOMAIN c.out : Completes(c.out[i], k) /\ results[k] = c.out[i].result
    <3>1. k \in DOMAIN p.open /\ Justified(p, k, results[k])
      BY <1>1, <2>3
    <3>2. p.open[k] = "Request" /\ <<k, results[k]>> \notin p.told
      BY <1>3, <1>5, <2>2, <3>1 DEF Handled
    <3>3. k \in p.heard
      BY <1>5, <3>1, <3>2 DEF Justified, Fair
    <3> QED
      BY <2>2, <3>3 DEF Handled
  <2>4. CASE results[k] = IF k \in DOMAIN c.open THEN "open" ELSE status[s][k]
    BY <1>5, <2>1, <2>2, <2>4 DEF Replied, Truthful
  <2> QED
    BY <2>3, <2>4 DEF Settled
<1> QED
  BY <1>4, <1>5 DEF Recalled, Truthful

-----------------------------------------------------------------------------
(* The handlers of one side.                                               *)

\* A handler that opens nothing and is told nothing is handled.
LEMMA PlainHandled ==
  ASSUME NEW s, NEW c, IInv(c), NEW bound, NEW H,
         \A k \in H : k \in AppCommands => asked[s][k] \in answered[Peer(s)],
         Run(Hearing(Snapshot(cores[s], {}, bound), H), cores[s].state, c)
  PROVE  Handled(s, Hearing(Snapshot(cores[s], {}, bound), H), {}, c)
<1> DEFINE p == Hearing(Snapshot(cores[s], {}, bound), H)
<1>1. /\ p.open = cores[s].open /\ p.nextWrite = cores[s].nextWrite
      /\ p.closing = cores[s].closing /\ p.pending = DOMAIN cores[s].pending \ {}
      /\ p.live = Live(cores[s]) /\ p.told = {} /\ p.heard = H
  BY DEF Hearing, Snapshot, Live
<1>2. Run(p, cores[s].state, c)
  OBVIOUS
<1> HIDE DEF p
<1>3. Handled(s, p, {}, c)
  BY <1>1, <1>2 DEF Handled
<1> QED
  BY <1>3 DEF p

\* A handler that was told why to close is handled (on_shutdown).
LEMMA ShutdownHandled ==
  ASSUME NEW s, NEW reason, IInv(cores[s]), Traced(cores[s])
  PROVE  \E p : Handled(s, p, {}, OnShutdown(cores[s], reason))
<1> DEFINE p == Caused(Snapshot(cores[s], {}, UnresolvedCommands(cores[s])), reason)
           c == OnShutdown(cores[s], reason)
<1>1. /\ p.open = cores[s].open /\ p.nextWrite = cores[s].nextWrite
      /\ p.closing = cores[s].closing /\ p.pending = DOMAIN cores[s].pending \ {}
      /\ p.live = Live(cores[s]) /\ p.told = {} /\ p.heard = {}
  BY DEF Caused, Snapshot, Live
<1>2. Run(p, cores[s].state, c)
  BY RunOnShutdown
<1>3. IInv(c)
  BY OnShutdownIInv
<1> HIDE DEF p, c
<1>4. Handled(s, p, {}, c)
  BY <1>1, <1>2, <1>3 DEF Handled
<1> QED
  BY <1>4 DEF c

\* A handler that opens k, told nothing of it but backpressure, is handled.
LEMMA AcceptingHandled ==
  ASSUME NEW s, NEW k \in Commands \ DOMAIN cores[s].open, NEW kind \in CommandKinds, NEW c,
         IInv(cores[s]), IInv(c), k \in AppCommands => status[s][k] = "unused",
         Run(Accepting(cores[s], k, kind), cores[s].state, c)
  PROVE  Handled(s, Accepting(cores[s], k, kind), {}, c)
<1> DEFINE o == Opening(cores[s], k, kind)
           p == Accepting(cores[s], k, kind)
<1>1. \A f \in Fields \ {"open", "out"} : o[f] = cores[s][f]
  BY OpenCommandIInv DEF Opening
<1>2. o.open = Put(cores[s].open, k, kind)
  <2>1. Begin(cores[s]).open = cores[s].open /\ DOMAIN Begin(cores[s]) = Fields
    BY DEF Begin, IInv, Weak, Shape, Fields
  <2> QED
    BY <2>1 DEF Opening, Fields
<1> HIDE DEF o
<1>3. /\ p.open = o.open /\ p.nextWrite = cores[s].nextWrite /\ p.closing = cores[s].closing
      /\ p.pending = DOMAIN cores[s].pending \ {} /\ p.told = {<<k, "Backpressure">>}
      /\ p.live = Live(cores[s]) /\ p.heard = {}
  BY <1>1 DEF Accepting, Permitted, Snapshot, Live, Fields, o
<1>4. Run(p, cores[s].state, c)
  OBVIOUS
<1> HIDE DEF p
<1>5. /\ DOMAIN cores[s].open \subseteq DOMAIN p.open
      /\ \A j \in DOMAIN cores[s].open : p.open[j] = cores[s].open[j]
      /\ \A j \in DOMAIN p.open \ DOMAIN cores[s].open : j = k
  BY <1>2, <1>3 DEF Put
<1>6. Handled(s, p, {}, c)
  BY <1>3, <1>4, <1>5 DEF Handled
<1> QED
  BY <1>6 DEF p

\* A handler of a committed write is handled (on_write_outcome_at).
LEMMA OutcomeHandled ==
  ASSUME NEW s, NEW w \in DOMAIN cores[s].pending, IInv(cores[s]), Traced(cores[s]), NEW due
  PROVE  \E p : Handled(s, p, {w}, OnWriteOutcome(cores[s], w, "Committed", due))
<1> DEFINE r == Removed(cores[s], w)
           k == cores[s].pending[w].command
           p == Reported(cores[s], w, "Committed")
           c == OnWriteOutcome(cores[s], w, "Committed", due)
<1>1. \A f \in Fields \ {"pending", "out"} : r[f] = cores[s][f]
  BY RemovedEffect
<1>2. DOMAIN r.pending = DOMAIN cores[s].pending \ {w}
  <2>1. Begin(cores[s]).pending = cores[s].pending /\ DOMAIN Begin(cores[s]) = Fields
    BY DEF Begin, IInv, Weak, Shape, Fields
  <2> QED
    BY <2>1 DEF Removed, Drop, Fields
<1> HIDE DEF r
<1>3. /\ p.open = cores[s].open /\ p.nextWrite = cores[s].nextWrite
      /\ p.closing = cores[s].closing /\ p.pending = DOMAIN cores[s].pending \ {w}
      /\ p.live = Live(cores[s]) /\ p.told \subseteq {<<k, "Ok">>} /\ p.heard = {}
  <2>1. \/ p = Snapshot(r, {<<k, "Ok">>}, UnresolvedCommands(cores[s]))
        \/ p = Snapshot(r, {}, UnresolvedCommands(cores[s]) \ {k})
    BY DEF Reported, Ending, r
  <2>2. ASSUME NEW told, NEW bound
        PROVE  LET q == Snapshot(r, told, bound)
               IN  /\ q.open = cores[s].open /\ q.nextWrite = cores[s].nextWrite
                   /\ q.closing = cores[s].closing
                   /\ q.pending = DOMAIN cores[s].pending \ {w}
                   /\ q.live = Live(cores[s]) /\ q.told = told /\ q.heard = {}
    BY <1>1, <1>2 DEF Snapshot, Live, Fields
  <2> HIDE DEF p, k
  <2> QED
    BY <2>1, <2>2
<1>4. Run(p, cores[s].state, c) /\ IInv(c)
  BY RunOnWriteOutcome, OnWriteOutcomeIInv DEF Outcomes
<1> HIDE DEF p, c, k
<1>5. \A j, r0 : <<j, r0>> \in p.told => r0 = "Ok"
  BY <1>3
<1>6. Handled(s, p, {w}, c)
  BY <1>3, <1>4, <1>5 DEF Handled
<1> QED
  BY <1>6 DEF c

-----------------------------------------------------------------------------
(* The invariant.                                                          *)

\* A message a side wrote is one of the session's, and an answer is remembered.
Voiced(m, systems) ==
  /\ m.type \in MessageTypes
  /\ m.type = "Data" /\ m.header.function % 2 = 0 => m.header.sys \in systems

\* What holds of a side: its Core keeps its own invariant, the histories tell the
\* truth and so do the messages on their way.
Faithful(s) ==
  /\ IInv(cores[s]) /\ Traced(cores[s])
  /\ Recalled(cores[s], status[s], asked[s])
  /\ Replied(s)
  /\ \A i \in DOMAIN lane[s] : Voiced(lane[s][i].message, answered[s])
  /\ \A i \in DOMAIN net[s] : Voiced(net[s][i], answered[s])

\* The inductive invariant.
PairInvariant == Typed /\ \A s \in Sides : Faithful(s)

\* Starting the next batch keeps what a Core stands for.
LEMMA BeginKeeps ==
  ASSUME NEW c, IInv(c), Traced(c)
  PROVE  /\ IInv(Begin(c)) /\ Traced(Begin(c))
         /\ \A results, systems : Recalled(c, results, systems) =>
              Recalled(Begin(c), results, systems)
<1>1. IInv(Begin(c)) /\ \A f \in Fields \ {"out"} : Begin(c)[f] = c[f]
  BY BeginIInv
<1> DEFINE b == Begin(c)
<1>2. IInv(b) /\ \A f \in Fields \ {"out"} : b[f] = c[f]
  BY <1>1
<1> HIDE DEF b
<1>3. Traced(b)
  BY <1>2 DEF Traced, UnresolvedCommands, Fields
<1>4. \A results, systems : Recalled(c, results, systems) => Recalled(b, results, systems)
  BY <1>2 DEF Recalled, Fields
<1> QED
  BY <1>2, <1>3, <1>4 DEF b

\* What the connection may do meanwhile: messages are taken from it, none is added.
Drains ==
  /\ DOMAIN net' = Sides /\ DOMAIN unreported' = Sides
  /\ \A t \in Sides :
       /\ IsBatch(net'[t]) /\ IsBatch(unreported'[t])
       /\ \A i \in DOMAIN net'[t] : \E j \in DOMAIN net[t] : net'[t][i] = net[t][j]

\* The frames of a handler are voiced.
LEMMA FramesAreVoiced ==
  ASSUME NEW s, NEW p, NEW X, NEW c, Typed, Handled(s, p, X, c), Applies(s, c)
  PROVE  /\ IsBatch(Frames(c.out))
         /\ \A i \in DOMAIN Frames(c.out) : Voiced(Frames(c.out)[i].message, answered'[s])
<1>1. IsBatch(c.out) /\ Framed(p, c)
  BY DEF Handled, Run, Log, Posted
<1> DEFINE q == Frames(c.out)
<1>2. /\ IsBatch(q)
      /\ \A i \in DOMAIN q : \E j \in DOMAIN c.out : c.out[j].act = "SendFrame" /\ q[i] = c.out[j]
  BY <1>1, FramesOfBatch
<1> HIDE DEF q
<1>3. ASSUME NEW i \in DOMAIN q PROVE Voiced(q[i].message, answered'[s])
  <2>1. PICK j \in DOMAIN c.out : c.out[j].act = "SendFrame" /\ q[i] = c.out[j]
    BY <1>2
  <2> QED
    BY <1>1, <2>1 DEF Framed, Applies, Voiced
<1> QED
  BY <1>2, <1>3 DEF q

\* A handler of one side keeps the invariant of both.
LEMMA HandlerKeeps ==
  ASSUME PairInvariant, NEW s \in Sides, NEW p, NEW X, NEW c,
         Handled(s, p, X, c), Applies(s, c), Apart(s), Shaped, Drains
  PROVE  PairInvariant'
<1> DEFINE q == Frames(c.out)
<1>1. IInv(c) /\ Traced(c)
  BY DEF Handled, Run
<1>2. IsBatch(q) /\ \A i \in DOMAIN q : Voiced(q[i].message, answered'[s])
  BY FramesAreVoiced DEF PairInvariant
<1>3. cores'[s] = Begin(c) /\ lane'[s] = lane[s] \o q
  BY DEF Applies
<1> HIDE DEF q
<1>4. /\ IsBatch(lane'[s])
      /\ \A i \in DOMAIN lane'[s] :
           \/ i \in DOMAIN lane[s] /\ lane'[s][i] = lane[s][i]
           \/ \E j \in DOMAIN q : lane'[s][i] = q[j]
  <2>1. IsBatch(lane[s])
    BY DEF PairInvariant, Typed
  <2> QED
    BY <1>2, <1>3, <2>1, BatchJoins
<1>5. Typed'
  <2>1. \A t \in Sides : IsBatch(lane'[t])
    BY <1>4 DEF Apart, PairInvariant, Typed
  <2>2. \A t \in Sides : DOMAIN link'[t] = {"phase", "barrier"}
                         /\ link'[t].phase \in {"open", "closing", "ended"}
    BY DEF Apart, Applies, PairInvariant, Typed
  <2> QED
    BY <2>1, <2>2 DEF Typed, Shaped, Drains
<1>r. Recalled(c, status'[s], asked'[s]) /\ Truthful(s, status'[s], asked'[s])
  <2>1. Recalled(cores[s], status[s], asked[s]) /\ Replied(s)
    BY DEF PairInvariant, Faithful
  <2>2. Settled(s, c, status'[s]) /\ Noted(s, c, asked'[s])
    BY DEF Applies
  <2> QED
    BY <2>1, <2>2, HandledRecalls
<1>6. Recalled(cores'[s], status'[s], asked'[s]) /\ IInv(cores'[s]) /\ Traced(cores'[s])
  BY <1>1, <1>3, <1>r, BeginKeeps
<1>7. \A t \in Sides : answered[t] \subseteq answered'[t]
  BY DEF Apart, Applies
<1>8. \A t \in Sides : Peer(t) \in Sides
  BY PeerIsOther
<1>9. Replied(s)'
  BY <1>7, <1>8, <1>r DEF Replied, Truthful, Peer
<1>10. ASSUME NEW t \in Sides PROVE Faithful(t)'
  <2>1. /\ IInv(cores'[t]) /\ Traced(cores'[t])
        /\ Recalled(cores'[t], status'[t], asked'[t])
    BY <1>6 DEF Apart, PairInvariant, Faithful
  <2>2. Replied(t)'
    <3>1. CASE t = s
      BY <1>9, <3>1
    <3>2. CASE t # s
      <4>1. Replied(t) /\ status'[t] = status[t] /\ asked'[t] = asked[t]
        BY <3>2 DEF Apart, PairInvariant, Faithful
      <4>2. answered[Peer(t)] \subseteq answered'[Peer(t)]
        BY <1>7, <1>8
      <4> QED
        BY <4>1, <4>2 DEF Replied, Truthful, Peer
    <3> QED
      BY <3>1, <3>2
  <2>3. \A i \in DOMAIN lane'[t] : Voiced(lane'[t][i].message, answered'[t])
    BY <1>2, <1>4, <1>7 DEF Apart, PairInvariant, Faithful, Voiced
  <2>4. \A i \in DOMAIN net'[t] : Voiced(net'[t][i], answered'[t])
    BY <1>7 DEF Drains, PairInvariant, Faithful, Voiced
  <2> QED
    BY <2>1, <2>2, <2>3, <2>4 DEF Faithful, Voiced, Recalled
<1> QED
  BY <1>5, <1>10 DEF PairInvariant

-----------------------------------------------------------------------------
(* Nobody waits for nothing.                                               *)

\* What side s said and its peer has not read: admitted, or written.
SentBy(s) == {lane[s][i].message : i \in DOMAIN lane[s]} \cup {net[s][i] : i \in DOMAIN net[s]}

\* While the connection lasts, the request of a control transaction is on its way, or
\* its response is.
Awaited(s) ==
  Open(s) /\ Open(Peer(s)) /\ cores[s].active # None =>
    \/ TransactionMessage(cores[s].active.kind, cores[s].active.sys) \in SentBy(s)
    \/ \E m \in SentBy(Peer(s)) : Responds(m, cores[s].active.kind, cores[s].active.sys)

\* Every retained write will be reported: its frame, or its report, is on its way.
Queued(s) ==
  link[s].phase # "ended" =>
    \A w \in DOMAIN cores[s].pending :
      (\E i \in DOMAIN lane[s] : lane[s][i].write = w) \/ Listed(unreported[s], w)

\* What side s waits for will come: its Core has a procedure for every open command,
\* and what the procedures wait for is on its way.
Wakeful(s) ==
  /\ cores[s].state # "None" /\ Awaits(cores[s], {}) /\ DrainWaits(cores[s])
  /\ Open(s) <=> ~cores[s].closing
  /\ link[s].phase = "ended" => DOMAIN cores[s].open = {}
  /\ \A m \in SentBy(s) : Codes(m)
  /\ Queued(s) /\ Awaited(s)

PairWakes == \A s \in Sides : Wakeful(s)

\* A handler of side s ran from the snapshot p and left c, which was applied.
Acts(s, p, X, c) == Handled(s, p, X, c) /\ Applies(s, c) /\ Apart(s) /\ Shaped /\ Drains

\* A handler of side s that left c has taken message m of the peer: it answered the
\* request of a control procedure, and ended its own by the response to it.
Heeds(s, m, c) ==
  /\ \A kind \in TransactionKinds, sys \in SystemBytes : m = TransactionMessage(kind, sys) =>
       \E r : Responds(r, kind, sys) /\ Pushes(c, r)
  /\ cores[s].active # None /\ Responds(m, cores[s].active.kind, cores[s].active.sys) =>
       c.active = None

\* What a handler of side s minds: it leaves no command without a procedure, its reports
\* keep coming but those of the writes X, and it loses no message of the peer unheeded.
Minds(s, X, c) ==
  /\ link[s].phase # "ended" /\ net'[s] = net[s]
  /\ Awaits(c, {}) /\ DrainWaits(c) /\ Coded(c)
  /\ \A w \in DOMAIN cores[s].pending \ X : Listed(unreported[s], w) => Listed(unreported'[s], w)
  /\ \A m \in SentBy(Peer(s)) : m \in SentBy(Peer(s))' \/ c.closing \/ Heeds(s, m, c)

\* What a handler adds to the frames of its side.
LEMMA HandlerSends ==
  ASSUME PairInvariant, NEW s \in Sides, NEW p, NEW X, NEW c, Acts(s, p, X, c), Minds(s, X, c)
  PROVE  /\ \A m \in SentBy(s) : m \in SentBy(s)'
         /\ \A m : Pushes(c, m) => m \in SentBy(s)'
         /\ \A m \in SentBy(s)' : m \in SentBy(s) \/ Codes(m)
         /\ \A t \in Sides \ {s} : \A m \in SentBy(t)' : m \in SentBy(t)
         /\ \A w : (\E i \in DOMAIN lane[s] : lane[s][i].write = w)
                   \/ (\E i \in DOMAIN c.out : c.out[i].act = "SendFrame" /\ c.out[i].write = w) =>
                     \E i \in DOMAIN lane'[s] : lane'[s][i].write = w
<1> DEFINE q == Frames(c.out)
<1>1. IsBatch(c.out) /\ IsBatch(lane[s])
  BY DEF Acts, Handled, Run, Log, PairInvariant, Typed
<1>2. /\ IsBatch(q)
      /\ \A i \in DOMAIN q : \E j \in DOMAIN c.out : c.out[j].act = "SendFrame" /\ q[i] = c.out[j]
      /\ \A j \in DOMAIN c.out : c.out[j].act = "SendFrame" => \E i \in DOMAIN q : q[i] = c.out[j]
  BY <1>1, FramesOfBatch
<1>3. lane'[s] = lane[s] \o q /\ net'[s] = net[s]
  BY DEF Acts, Applies, Minds
<1> HIDE DEF q
<1>4. /\ \A i \in DOMAIN lane[s] : i \in DOMAIN lane'[s] /\ lane'[s][i] = lane[s][i]
      /\ \A i \in DOMAIN q : \E j \in DOMAIN lane'[s] : lane'[s][j] = q[i]
      /\ \A i \in DOMAIN lane'[s] :
           \/ i \in DOMAIN lane[s] /\ lane'[s][i] = lane[s][i]
           \/ \E j \in DOMAIN q : lane'[s][i] = q[j]
  <2>1. IsBatch(lane[s]) /\ IsBatch(q) /\ lane'[s] = lane[s] \o q
    BY <1>1, <1>2, <1>3
  <2>2. \A i \in DOMAIN lane[s] : i \in DOMAIN lane'[s] /\ lane'[s][i] = lane[s][i]
    BY <2>1, BatchHolds
  <2>3. \A i \in DOMAIN q : Listed(lane'[s], q[i])
    BY <2>1, BatchHolds
  <2>4. \A i \in DOMAIN lane'[s] :
          \/ i \in DOMAIN lane[s] /\ lane'[s][i] = lane[s][i]
          \/ \E j \in DOMAIN q : lane'[s][i] = q[j]
    BY <2>1, BatchHolds
  <2> QED
    BY <2>2, <2>3, <2>4 DEF Listed
<1>5. \A m \in SentBy(s) : m \in SentBy(s)'
  BY <1>3, <1>4 DEF SentBy
<1>6. ASSUME NEW m, Pushes(c, m) PROVE m \in SentBy(s)'
  <2>1. PICK j \in DOMAIN c.out : c.out[j].act = "SendFrame" /\ c.out[j].message = m
    BY <1>6 DEF Pushes
  <2>2. PICK i \in DOMAIN lane'[s] : lane'[s][i] = c.out[j]
    BY <1>2, <1>4, <2>1
  <2> QED
    BY <2>1, <2>2 DEF SentBy
<1>7. ASSUME NEW m \in SentBy(s)' PROVE m \in SentBy(s) \/ Codes(m)
  <2>1. CASE \E i \in DOMAIN net'[s] : m = net'[s][i]
    BY <1>3, <2>1 DEF SentBy
  <2>2. CASE \E i \in DOMAIN lane'[s] : m = lane'[s][i].message
    <3>1. PICK i \in DOMAIN lane'[s] : m = lane'[s][i].message
      BY <2>2
    <3>2. CASE i \in DOMAIN lane[s] /\ lane'[s][i] = lane[s][i]
      BY <3>1, <3>2 DEF SentBy
    <3>3. CASE \E j \in DOMAIN q : lane'[s][i] = q[j]
      BY <1>2, <3>1, <3>3 DEF Minds, Coded
    <3> QED
      BY <1>4, <3>2, <3>3
  <2> QED
    BY <1>7, <2>1, <2>2 DEF SentBy
<1>8. \A t \in Sides \ {s} : \A m \in SentBy(t)' : m \in SentBy(t)
  BY DEF Acts, Apart, Drains, SentBy
<1>9. ASSUME NEW w, \/ \E i \in DOMAIN lane[s] : lane[s][i].write = w
                    \/ \E i \in DOMAIN c.out : c.out[i].act = "SendFrame" /\ c.out[i].write = w
      PROVE  \E i \in DOMAIN lane'[s] : lane'[s][i].write = w
  <2>1. CASE \E i \in DOMAIN lane[s] : lane[s][i].write = w
    BY <1>4, <2>1
  <2>2. CASE \E i \in DOMAIN c.out : c.out[i].act = "SendFrame" /\ c.out[i].write = w
    BY <1>2, <1>4, <2>2
  <2> QED
    BY <1>9, <2>1, <2>2
<1> QED
  BY <1>5, <1>6, <1>7, <1>8, <1>9

\* A handler that minds keeps both sides awake.
LEMMA HandlerWakes ==
  ASSUME PairInvariant, PairWakes, NEW s \in Sides, NEW p, NEW X, NEW c,
         Acts(s, p, X, c), Minds(s, X, c)
  PROVE  PairWakes'
<1> DEFINE u == Peer(s)
<1>0. u \in Sides /\ u # s /\ (\A t \in Sides : t = s \/ t = u) /\ Peer(u) = s
  BY PeerIsOther
<1>1. /\ \A m \in SentBy(s) : m \in SentBy(s)'
      /\ \A m : Pushes(c, m) => m \in SentBy(s)'
      /\ \A m \in SentBy(s)' : m \in SentBy(s) \/ Codes(m)
      /\ \A t \in Sides \ {s} : \A m \in SentBy(t)' : m \in SentBy(t)
      /\ \A w : (\E i \in DOMAIN lane[s] : lane[s][i].write = w)
                \/ (\E i \in DOMAIN c.out : c.out[i].act = "SendFrame" /\ c.out[i].write = w) =>
                  \E i \in DOMAIN lane'[s] : lane'[s][i].write = w
  BY HandlerSends
<1>2. /\ IInv(c) /\ Run(p, cores[s].state, c)
      /\ p.closing = cores[s].closing /\ p.live = Live(cores[s])
      /\ p.pending = DOMAIN cores[s].pending \ X
  BY DEF Acts, Handled
<1>3. /\ cores'[s] = Begin(c)
      /\ link'[s].phase = (IF link[s].phase = "open"
                              /\ \E i \in DOMAIN c.out : c.out[i].act = "CloseGeneration"
                           THEN "closing" ELSE link[s].phase)
  BY DEF Acts, Applies
<1>4. Wakeful(s) /\ Wakeful(u) /\ link[s].phase \in {"open", "closing", "ended"}
  BY <1>0 DEF PairWakes, PairInvariant, Typed
<1>5. /\ cores'[u] = cores[u] /\ lane'[u] = lane[u] /\ unreported'[u] = unreported[u]
      /\ link'[u] = link[u]
  BY <1>0 DEF Acts, Apart
<1>6. Awaits(Begin(c), {}) /\ DrainWaits(Begin(c))
  BY <1>2, BeginAwaits DEF Minds
<1>7. \A f \in Fields \ {"out"} : Begin(c)[f] = c[f]
  BY <1>2, BeginIInv
<1>8. /\ Begin(c).state = c.state /\ Begin(c).closing = c.closing /\ Begin(c).active = c.active
      /\ Begin(c).pending = c.pending /\ Begin(c).open = c.open
  BY <1>7 DEF Fields
<1>9. cores'[s].state # "None"
  BY <1>2, <1>3, <1>4, <1>8 DEF Wakeful, Run, Log, Announced
<1>10. Open(s)' <=> ~cores'[s].closing
  <2>1. CASE link[s].phase = "open"
    <3>1. ~p.closing
      BY <1>2, <1>4, <2>1 DEF Wakeful, Open
    <3>2. c.closing => \E i \in DOMAIN c.out : c.out[i].act = "CloseGeneration"
      BY <1>2, <3>1 DEF Run, Log, Excused, IInv, Closed
    <3>3. (\E i \in DOMAIN c.out : c.out[i].act = "CloseGeneration") => c.closing
      BY <1>2 DEF Run, Log, Posted, Barred
    <3> QED
      BY <1>3, <1>8, <2>1, <3>2, <3>3 DEF Open
  <2>2. CASE link[s].phase = "closing"
    <3>1. c.closing
      BY <1>2, <1>4, <2>2 DEF Wakeful, Open, Run, Log, Quieted, IInv, Weak, Shape
    <3> QED
      BY <1>3, <1>8, <2>2, <3>1 DEF Open
  <2> QED
    BY <1>4, <2>1, <2>2 DEF Minds
<1>11. link'[s].phase # "ended"
  BY <1>3 DEF Minds
<1>12. Queued(s)'
  <2>1. ASSUME NEW w \in DOMAIN c.pending
        PROVE  (\E i \in DOMAIN lane'[s] : lane'[s][i].write = w) \/ Listed(unreported'[s], w)
    <3>1. \/ w \in DOMAIN cores[s].pending \ X
          \/ \E i \in DOMAIN c.out : c.out[i].act = "SendFrame" /\ c.out[i].write = w
      BY <1>2 DEF Run, Log, Written
    <3>2. CASE w \in DOMAIN cores[s].pending \ X
      BY <1>1, <1>4, <3>2 DEF Wakeful, Queued, Minds
    <3> QED
      BY <1>1, <3>1, <3>2
  <2> QED
    BY <1>3, <1>8, <2>1 DEF Queued, Listed
<1>13. \A m \in SentBy(s)' : Codes(m)
  BY <1>1, <1>4 DEF Wakeful
<1>14. ASSUME Open(s)', Open(u)'
       PROVE  Open(s) /\ Open(u) /\ ~c.closing
  BY <1>3, <1>5, <1>8, <1>10, <1>14 DEF Open
<1>15. Awaited(s)'
  <2>1. ASSUME Open(s)', Open(u)', c.active # None
        PROVE  \/ TransactionMessage(c.active.kind, c.active.sys) \in SentBy(s)'
               \/ \E m \in SentBy(u)' : Responds(m, c.active.kind, c.active.sys)
    <3>1. Open(s) /\ Open(u) /\ ~c.closing
      BY <1>14, <2>1
    <3>2. CASE Pushes(c, TransactionMessage(c.active.kind, c.active.sys))
      BY <1>1, <3>2
    <3>3. CASE <<c.active.kind, c.active.sys>> \in p.live
      <4>1. /\ cores[s].active # None
            /\ cores[s].active.kind = c.active.kind /\ cores[s].active.sys = c.active.sys
        BY <1>2, <3>3 DEF Live
      <4>2. CASE TransactionMessage(c.active.kind, c.active.sys) \in SentBy(s)
        BY <1>1, <4>2
      <4>3. CASE \E m \in SentBy(u) : Responds(m, c.active.kind, c.active.sys)
        <5>1. PICK m \in SentBy(u) : Responds(m, c.active.kind, c.active.sys)
          BY <4>3
        <5>2. m \in SentBy(u)'
          BY <2>1, <3>1, <4>1, <5>1 DEF Minds, Heeds
        <5> QED
          BY <5>1, <5>2
      <4> QED
        BY <1>4, <3>1, <4>1, <4>2, <4>3 DEF Wakeful, Awaited
    <3> QED
      BY <1>2, <2>1, <3>2, <3>3 DEF Run, Log, Spoken
  <2> QED
    BY <1>3, <1>8, <2>1 DEF Awaited, Responds, Peer
<1>16. Awaited(u)'
  <2>1. ASSUME Open(s)', Open(u)', cores[u].active # None
        PROVE  LET kind == cores[u].active.kind
                   sys == cores[u].active.sys
               IN  \/ TransactionMessage(kind, sys) \in SentBy(u)'
                   \/ \E m \in SentBy(s)' : Responds(m, kind, sys)
    <3> DEFINE kind == cores[u].active.kind
               sys == cores[u].active.sys
    <3>1. Open(s) /\ Open(u) /\ ~c.closing
      BY <1>14, <2>1
    <3>2. kind \in TransactionKinds /\ sys \in SystemBytes
      BY <1>0, <2>1 DEF PairInvariant, Faithful, IInv, Weak, Shape
    <3> HIDE DEF kind, sys
    <3>3. ASSUME TransactionMessage(kind, sys) \in SentBy(u)
          PROVE  \/ TransactionMessage(kind, sys) \in SentBy(u)'
                 \/ \E m \in SentBy(s)' : Responds(m, kind, sys)
      <4>1. \/ TransactionMessage(kind, sys) \in SentBy(u)'
            \/ \E r : Responds(r, kind, sys) /\ Pushes(c, r)
        BY <3>1, <3>2, <3>3 DEF Minds, Heeds
      <4> QED
        BY <1>1, <4>1
    <3>4. ASSUME \E m \in SentBy(s) : Responds(m, kind, sys)
          PROVE  \E m \in SentBy(s)' : Responds(m, kind, sys)
      BY <1>1, <3>4
    <3>5. \/ TransactionMessage(kind, sys) \in SentBy(u)
          \/ \E m \in SentBy(s) : Responds(m, kind, sys)
      BY <1>0, <1>4, <2>1, <3>1 DEF Wakeful, Awaited, kind, sys
    <3> QED
      BY <3>3, <3>4, <3>5 DEF kind, sys
  <2> QED
    BY <1>0, <1>5, <2>1 DEF Awaited, Responds, Peer
<1>17. Wakeful(s)'
  BY <1>3, <1>6, <1>9, <1>10, <1>11, <1>12, <1>13, <1>15 DEF Wakeful
<1>18. Wakeful(u)'
  <2>1. /\ cores'[u].state # "None" /\ Awaits(cores'[u], {}) /\ DrainWaits(cores'[u])
        /\ Open(u)' <=> ~cores'[u].closing
        /\ link'[u].phase = "ended" => DOMAIN cores'[u].open = {}
    BY <1>4, <1>5 DEF Wakeful, Open
  <2>2. Queued(u)'
    BY <1>4, <1>5 DEF Wakeful, Queued, Listed
  <2>3. \A m \in SentBy(u)' : Codes(m)
    BY <1>0, <1>1, <1>4 DEF Wakeful
  <2> QED
    BY <1>16, <2>1, <2>2, <2>3 DEF Wakeful
<1> QED
  BY <1>0, <1>17, <1>18 DEF PairWakes

\* Side s ran a handler, which minds when both sides are awake.
Handles(s) == \E p, X, c : Acts(s, p, X, c) /\ (PairWakes => Minds(s, X, c))

\* A handler that reads nothing from the connection minds.
LEMMA DeafMinds ==
  ASSUME NEW s \in Sides, NEW p, NEW X, NEW c, Acts(s, p, X, c),
         link[s].phase # "ended", net' = net, Awaits(c, {}), DrainWaits(c), Coded(c),
         \A w \in DOMAIN cores[s].pending \ X :
           Listed(unreported[s], w) => Listed(unreported'[s], w)
  PROVE  Minds(s, X, c)
<1>1. Peer(s) \in Sides /\ Peer(s) # s
  BY PeerIsOther
<1>2. lane'[Peer(s)] = lane[Peer(s)]
  BY <1>1 DEF Acts, Apart
<1>3. \A m \in SentBy(Peer(s)) : m \in SentBy(Peer(s))'
  BY <1>2 DEF SentBy, Peer
<1> QED
  BY <1>3 DEF Minds

\* What a handler does, seen from the invariants of both sides.
LEMMA HandlesKeeps ==
  ASSUME PairInvariant, NEW s \in Sides, Handles(s)
  PROVE  PairInvariant' /\ (PairWakes => PairWakes')
<1>1. PICK p, X, c : Acts(s, p, X, c) /\ (PairWakes => Minds(s, X, c))
  BY DEF Handles
<1>2. PairInvariant'
  BY <1>1, HandlerKeeps DEF Acts
<1>3. ASSUME PairWakes PROVE PairWakes'
  BY <1>1, <1>3, HandlerWakes DEF PairWakes
<1> QED
  BY <1>2, <1>3

-----------------------------------------------------------------------------
(* The start.                                                              *)

\* The cores a connection starts with: idle, open and without a history.
Idle(c) ==
  /\ DOMAIN c = Fields
  /\ c.state \in {"NotSelected", "Selected"} /\ c.t7 \in BOOLEAN
  /\ c.t7 <=> c.state = "NotSelected"
  /\ c.idle \in BOOLEAN
  /\ c.nextWrite \in 0..WriteSpace /\ c.nextSys \in 0..SystemBytesSpace /\ c.nextReply = 0
  /\ c.active = None /\ c.drain = None
  /\ DOMAIN c.data = {} /\ DOMAIN c.pending = {} /\ DOMAIN c.replies = {}
  /\ DOMAIN c.open = {} /\ DOMAIN c.deferred = {} /\ c.tomb = <<>>
  /\ c.closing = FALSE /\ c.closeIssued = FALSE

\* A connection starts with idle cores (SessionCore::new, on_connected).
LEMMA CoresStartIdle ==
  ASSUME Init, NEW s \in Sides PROVE Idle(cores[s])
<1> DEFINE n == NewCore
           b == Begin(n)
           x == ArmSelectionTimeout([b EXCEPT !.state = "NotSelected"])
           y == RecordActivity(x)
           e == Emit(y, StateChanged("NotSelected"))
           z == Connected
<1>1. /\ DOMAIN n = Fields
      /\ n.state = "None" /\ n.t7 = FALSE /\ n.idle = FALSE
      /\ n.nextWrite = 0 /\ n.nextSys = 0 /\ n.nextReply = 0
      /\ n.active = None /\ n.drain = None
      /\ DOMAIN n.data = {} /\ DOMAIN n.pending = {} /\ DOMAIN n.replies = {}
      /\ DOMAIN n.open = {} /\ DOMAIN n.deferred = {} /\ n.tomb = <<>>
      /\ n.closing = FALSE /\ n.closeIssued = FALSE
  BY DEF NewCore, Fields, EmptyFunction
<1>2. z = Begin(OnConnected(n))
  BY DEF Connected
<1> HIDE DEF n, z
<1>3. DOMAIN b = Fields /\ \A f \in Fields \ {"out"} : b[f] = n[f]
  BY <1>1 DEF Begin, Fields
<1>4. OnConnected(n) = IF b.state # "None" \/ b.closing THEN FailRuntimeInvariant(b) ELSE e
  BY DEF OnConnected
<1> HIDE DEF b
<1>5. OnConnected(n) = e
  BY <1>1, <1>3, <1>4 DEF Fields
<1>6. /\ DOMAIN x = Fields /\ x.state = "NotSelected" /\ x.t7 = TRUE
      /\ \A f \in Fields \ {"state", "t7", "out"} : x[f] = n[f]
  BY <1>3 DEF ArmSelectionTimeout, Fields
<1> HIDE DEF x
<1>7. /\ DOMAIN y = Fields /\ y.idle = IdleLinktest
      /\ \A f \in Fields \ {"idle"} : y[f] = x[f]
  BY <1>6 DEF RecordActivity, Fields
<1> HIDE DEF y
<1>8. DOMAIN e = Fields /\ \A f \in Fields \ {"out"} : e[f] = y[f]
  BY <1>7, EmitFields
<1> HIDE DEF e
<1>9. DOMAIN z = Fields /\ \A f \in Fields \ {"out"} : z[f] = e[f]
  BY <1>2, <1>5, <1>8 DEF Begin, Fields
<1>10. /\ z.state = "NotSelected" /\ z.t7 = TRUE /\ z.idle \in BOOLEAN
       /\ z.nextWrite = 0 /\ z.nextSys = 0 /\ z.nextReply = 0
       /\ z.active = None /\ z.drain = None
       /\ DOMAIN z.data = {} /\ DOMAIN z.pending = {} /\ DOMAIN z.replies = {}
       /\ DOMAIN z.open = {} /\ DOMAIN z.deferred = {} /\ z.tomb = <<>>
       /\ z.closing = FALSE /\ z.closeIssued = FALSE
  BY <1>1, <1>6, <1>7, <1>8, <1>9, IdleAssumption DEF Fields
<1>11. WriteSpace \in Nat /\ WriteSpace >= 2 /\ SystemBytesSpace \in Nat /\ SystemBytesSpace >= 1
  BY SpaceAssumption, PairAssumption
<1>12. Idle(z)
  <2>1. 0 \in 0..WriteSpace /\ 0 \in 0..SystemBytesSpace
    BY <1>11
  <2>2. z.t7 \in BOOLEAN /\ (z.t7 <=> z.state = "NotSelected")
    BY <1>10
  <2> QED
    BY <1>9, <1>10, <2>1, <2>2 DEF Idle
<1>13. ASSUME NEW i \in 0..1, NEW j \in 0..1 PROVE Idle(Selected(i, j))
  <2> DEFINE c == Selected(i, j)
  <2>1. /\ DOMAIN c = Fields /\ c.state = "Selected" /\ c.t7 = FALSE
        /\ c.nextSys = i /\ c.nextWrite = i + j
        /\ \A f \in Fields \ {"state", "t7", "nextSys", "nextWrite"} : c[f] = z[f]
    BY <1>9 DEF Selected, z, Fields
  <2> HIDE DEF c
  <2>2. c.nextSys \in 0..SystemBytesSpace /\ c.nextWrite \in 0..WriteSpace
    BY <1>11, <2>1
  <2>3. /\ c.idle \in BOOLEAN /\ c.nextReply = 0
        /\ c.active = None /\ c.drain = None
        /\ DOMAIN c.data = {} /\ DOMAIN c.pending = {} /\ DOMAIN c.replies = {}
        /\ DOMAIN c.open = {} /\ DOMAIN c.deferred = {} /\ c.tomb = <<>>
        /\ c.closing = FALSE /\ c.closeIssued = FALSE
    BY <1>10, <2>1 DEF Fields
  <2>4. c.t7 \in BOOLEAN /\ (c.t7 <=> c.state = "NotSelected")
    BY <2>1
  <2>5. Idle(c)
    BY <2>1, <2>2, <2>3, <2>4 DEF Idle
  <2> QED
    BY <2>5 DEF c
<1>14. cores[s] = z \/ \E i, j \in 0..1 : cores[s] = Selected(i, j)
  BY DEF Init, z
<1> QED
  BY <1>12, <1>13, <1>14

\* An idle Core is sound, and so are histories in which nothing happened.
LEMMA IdleIsSound ==
  ASSUME NEW c, Idle(c) PROVE IInv(c) /\ Traced(c)
<1>1. Shape(c)
  <2>1. c.closing \in BOOLEAN /\ c.closeIssued \in BOOLEAN
    BY DEF Idle
  <2>2. 0 \in 0..ReplySpace
    BY SpaceAssumption
  <2> QED
    BY <2>1, <2>2 DEF Idle, Shape
<1>2. Linked(c) /\ Deferral(c)
  BY DEF Idle, Linked, Deferral
<1>3. Owners(c) /\ Closed(c) /\ Timed(c) /\ Selection(c)
  BY DEF Idle, Owners, Closed, Timed, Selection, RepliesBlocked
<1>4. Traced(c)
  BY DEF Idle, Traced
<1> QED
  BY <1>1, <1>2, <1>3, <1>4 DEF IInv, Weak

\* The invariant holds when the connection starts.
LEMMA PairStarts == ASSUME Init PROVE PairInvariant
<1>1. ASSUME NEW s \in Sides
      PROVE  /\ lane[s] = <<>> /\ net[s] = <<>> /\ unreported[s] = <<>>
             /\ DOMAIN link[s] = {"phase", "barrier"} /\ link[s].phase = "open"
             /\ \A k \in AppCommands : status[s][k] = "unused" /\ asked[s][k] = None
  BY DEF Init
<1>2. Typed
  <2>1. DOMAIN cores = Sides
    BY DEF Init
  <2>2. /\ DOMAIN lane = Sides /\ DOMAIN net = Sides
        /\ DOMAIN unreported = Sides /\ DOMAIN link = Sides /\ DOMAIN status = Sides
        /\ DOMAIN asked = Sides /\ DOMAIN answered = Sides
    BY DEF Init
  <2> QED
    BY <1>1, <2>1, <2>2, NoBatch DEF Typed
<1>3. ASSUME NEW s \in Sides PROVE Faithful(s)
  <2>1. Idle(cores[s])
    BY CoresStartIdle
  <2>2. Recalled(cores[s], status[s], asked[s])
    BY <1>1, <2>1 DEF Recalled, Idle
  <2>3. Replied(s)
    BY <1>1 DEF Replied, Truthful
  <2> QED
    BY <1>1, <2>1, <2>2, <2>3, IdleIsSound, NoBatch DEF Faithful
<1> QED
  BY <1>2, <1>3 DEF PairInvariant

\* Nobody waits when the connection starts.
LEMMA PairStartsAwake == ASSUME Init PROVE PairWakes
<1> SUFFICES ASSUME NEW s \in Sides PROVE Wakeful(s)
  BY DEF PairWakes
<1> DEFINE c == cores[s]
<1>1. lane[s] = <<>> /\ net[s] = <<>> /\ link[s].phase = "open"
  BY DEF Init
<1>2. Idle(c)
  BY CoresStartIdle
<1> HIDE DEF c
<1>3. IsBatch(c.tomb) /\ Len(c.tomb) <= TombstoneCapacity /\ DOMAIN c.tomb = {}
  BY <1>2, CapacityAssumption, NoBatch DEF Idle
<1>4. Retirement(c)
  BY <1>2, <1>3 DEF Retirement, Idle
<1>5. c.state # "None" /\ ~c.closing /\ Awaits(c, {}) /\ DrainWaits(c)
  BY <1>2, <1>4 DEF Idle, Awaits, Cared, LiveCare, Pausing, Promised, DrainWaits
<1>6. SentBy(s) = {}
  BY <1>1, NoBatch DEF SentBy
<1>7. Queued(s) /\ Awaited(s)
  BY <1>2 DEF Queued, Awaited, Idle, c
<1> QED
  BY <1>1, <1>5, <1>6, <1>7 DEF Wakeful, Open, c

-----------------------------------------------------------------------------
(* The steps.                                                              *)

\* A command of the application (on_command).
LEMMA CommandHandles ==
  ASSUME PairInvariant, NEW s \in Sides, NEW kind \in Kinds, Command(s, kind)
  PROVE  Handles(s)
<1> DEFINE primary == [stream |-> 1, function |-> 1, body |-> FALSE]
<1>1. PICK k \in AppCommands : /\ status[s][k] = "unused"
                               /\ Apply(s, OnCommand(cores[s], k, kind, primary))
  BY DEF Command
<1>0. primary.function \in FunctionCodes
  BY DEF FunctionCodes
<1> HIDE DEF primary
<1> DEFINE c == OnCommand(cores[s], k, kind, primary)
           p == Accepting(cores[s], k, OpenKind(kind))
<1>2. IInv(cores[s]) /\ Traced(cores[s]) /\ k \notin DOMAIN cores[s].open
  BY <1>1 DEF PairInvariant, Faithful, Recalled
<1>3. k \in Commands \ DOMAIN cores[s].open /\ kind \in CommandNames
  BY <1>2, PairAssumption DEF AppCommands
<1>4. OpenKind(kind) \in CommandKinds
  BY <1>3 DEF OpenKind, CommandKinds, CommandNames, ControlCommands
<1>5. IInv(c) /\ Run(p, cores[s].state, c)
  BY <1>2, <1>3, OnCommandIInv, RunOnCommand
<1>6. Apply(s, c) /\ Drains /\ unreported' = unreported /\ net' = net /\ Open(s)
  BY <1>1 DEF Command, Drains, PairInvariant, Typed
<1>7. PairWakes => Awaits(c, {}) /\ DrainWaits(c) /\ Coded(c)
  BY <1>0, <1>2, <1>3, OnCommandAwaits, CommandCoded DEF PairWakes, Wakeful
<1> HIDE DEF c
<1>8. Handled(s, p, {}, c)
  BY <1>1, <1>2, <1>3, <1>4, <1>5, AcceptingHandled
<1>9. Applies(s, c) /\ Apart(s) /\ Shaped
  BY <1>6, ApplyEffect DEF PairInvariant
<1> HIDE DEF p
<1>10. Acts(s, p, {}, c)
  BY <1>6, <1>8, <1>9 DEF Acts
<1>11. PairWakes => Minds(s, {}, c)
  BY <1>6, <1>7, <1>10, DeafMinds DEF Open
<1> QED
  BY <1>10, <1>11 DEF Handles

\* A use of a reply capability (on_reply).
LEMMA ReplyHandles ==
  ASSUME PairInvariant, NEW s \in Sides, NEW intent \in ReplyIntents, Reply(s, intent)
  PROVE  Handles(s)
<1>1. PICK cap \in DOMAIN cores[s].replies :
        /\ intent = "Secondary" => cores[s].replies[cap].function < 255
        /\ Apply(s, OnReply(cores[s], ReplyCommand, cap, intent, FALSE, FALSE))
  BY DEF Reply
<1> DEFINE k == ReplyCommand
           kind == IF intent = "Abandon" THEN "Control" ELSE "Send"
           c == OnReply(cores[s], k, cap, intent, FALSE, FALSE)
           p == Accepting(cores[s], k, kind)
<1>2. IInv(cores[s]) /\ Traced(cores[s]) /\ k \notin DOMAIN cores[s].open
  BY DEF PairInvariant, Faithful, Reply
<1>3. k \in Commands \ DOMAIN cores[s].open /\ kind \in CommandKinds /\ k \notin AppCommands
  BY <1>2, PairAssumption DEF AppCommands, CommandKinds, ReplyCommand
<1>4. IInv(c) /\ Run(p, cores[s].state, c)
  BY <1>2, <1>3, OnReplyIInv, RunOnReply
<1>5. Apply(s, c) /\ Drains /\ unreported' = unreported /\ net' = net /\ Open(s)
  BY <1>1 DEF Reply, Drains, PairInvariant, Typed
<1>6. PairWakes => Awaits(c, {}) /\ DrainWaits(c) /\ Coded(c)
  BY <1>1, <1>2, <1>3, OnReplyAwaits, ReplyCoded DEF PairWakes, Wakeful
<1> HIDE DEF c, k, kind
<1>7. Handled(s, p, {}, c)
  BY <1>2, <1>3, <1>4, AcceptingHandled
<1>8. Applies(s, c) /\ Apart(s) /\ Shaped
  BY <1>5, ApplyEffect DEF PairInvariant
<1> HIDE DEF p
<1>9. Acts(s, p, {}, c)
  BY <1>5, <1>7, <1>8 DEF Acts
<1>10. PairWakes => Minds(s, {}, c)
  BY <1>5, <1>6, <1>9, DeafMinds DEF Open
<1> QED
  BY <1>9, <1>10 DEF Handles

\* The report of a write (on_write_outcome_at).
LEMMA ReportHandles ==
  ASSUME PairInvariant, NEW s \in Sides, Report(s)
  PROVE  Handles(s)
<1> DEFINE q == unreported[s]
           w == Head(q)
           c == OnWriteOutcome(cores[s], w, "Committed", NothingDue)
           X == {w} \cap DOMAIN cores[s].pending
<1>1. /\ Apply(s, c) /\ net' = net /\ q # <<>> /\ link[s].phase # "ended"
      /\ unreported' = [unreported EXCEPT ![s] = Tail(q)]
  BY DEF Report
<1>2. IInv(cores[s]) /\ Traced(cores[s]) /\ IsBatch(q) /\ s \in DOMAIN unreported
  BY DEF PairInvariant, Faithful, Typed
<1>3. /\ IsBatch(Tail(q)) /\ w = q[1]
      /\ \A i \in DOMAIN q : i # 1 => i - 1 \in DOMAIN Tail(q) /\ Tail(q)[i - 1] = q[i]
  BY <1>1, <1>2, BatchAdvances
<1>4. \A v : Listed(q, v) /\ v # w => Listed(Tail(q), v)
  BY <1>3 DEF Listed
<1> HIDE DEF w, q
<1>5. w \notin DOMAIN cores[s].pending => c = OnShutdown(cores[s], "RuntimeInvariant")
  BY DEF OnWriteOutcome, OnShutdown, FailRuntimeInvariant
<1>6. \E p : Handled(s, p, X, c)
  <2>1. CASE w \in DOMAIN cores[s].pending
    <3>1. X = {w}
      BY <2>1
    <3> QED
      BY <1>2, <2>1, <3>1, OutcomeHandled
  <2>2. CASE w \notin DOMAIN cores[s].pending
    <3>1. X = {}
      BY <2>2
    <3> HIDE DEF X
    <3> QED
      BY <1>2, <1>5, <2>2, <3>1, ShutdownHandled
  <2> QED
    BY <2>1, <2>2
<1>7. PairWakes => Awaits(c, {}) /\ DrainWaits(c) /\ Coded(c)
  <2>1. CASE w \in DOMAIN cores[s].pending
    BY <1>2, <2>1, OnWriteOutcomeAwaits, OthersCoded DEF PairWakes, Wakeful, Outcomes
  <2>2. CASE w \notin DOMAIN cores[s].pending
    BY <1>2, <1>5, <2>2, OnShutdownAwaits, OthersCoded DEF PairWakes, Wakeful
  <2> QED
    BY <2>1, <2>2
<1>8. /\ DOMAIN unreported' = Sides /\ (\A t \in Sides : IsBatch(unreported'[t]))
      /\ \A t \in Sides \ {s} : unreported'[t] = unreported[t]
      /\ unreported'[s] = Tail(q)
  BY <1>1, <1>2, <1>3 DEF PairInvariant, Typed
<1>9. Drains
  BY <1>1, <1>8 DEF Drains, PairInvariant, Typed
<1> HIDE DEF c
<1>10. Applies(s, c) /\ Apart(s) /\ Shaped
  BY <1>1, <1>8, ApplyEffect DEF PairInvariant
<1>11. \A v \in DOMAIN cores[s].pending \ X : Listed(unreported[s], v) => Listed(unreported'[s], v)
  BY <1>4, <1>8 DEF q
<1> HIDE DEF X
<1>12. PICK p : Handled(s, p, X, c)
  BY <1>6
<1>13. Acts(s, p, X, c)
  BY <1>9, <1>10, <1>12 DEF Acts
<1>14. PairWakes => Minds(s, X, c)
  BY <1>1, <1>7, <1>11, <1>13, DeafMinds
<1> QED
  BY <1>13, <1>14 DEF Handles

\* A message that arrives (on_message): what it answers, the peer answered, and it is
\* answered when it asks for a control procedure.
LEMMA ReceiveHandles ==
  ASSUME PairInvariant, NEW s \in Sides, Receive(s)
  PROVE  Handles(s)
<1> DEFINE u == Peer(s)
           q == net[u]
           m == Head(q)
           c == OnMessage(cores[s], m, FALSE)
           H == Heard(cores[s], m)
           p == Hearing(Snapshot(cores[s], {}, UnresolvedCommands(cores[s])), H)
<1>1. /\ Apply(s, c) /\ unreported' = unreported /\ q # <<>> /\ Open(s)
      /\ net' = [net EXCEPT ![u] = Tail(q)]
  BY DEF Receive
<1>2. /\ IInv(cores[s]) /\ Traced(cores[s]) /\ Recalled(cores[s], status[s], asked[s])
      /\ u \in Sides /\ u # s
  BY PeerIsOther DEF PairInvariant, Faithful
<1>3. /\ IsBatch(Tail(q)) /\ m = q[1] /\ 1 \in DOMAIN q
      /\ \A i \in DOMAIN Tail(q) : \E j \in DOMAIN q : Tail(q)[i] = q[j]
      /\ \A i \in DOMAIN q : i # 1 => i - 1 \in DOMAIN Tail(q) /\ Tail(q)[i - 1] = q[i]
  <2>1. IsBatch(q)
    BY <1>2 DEF PairInvariant, Typed
  <2> QED
    BY <1>1, <2>1, BatchAdvances
<1>4. Voiced(m, answered[u]) /\ m \in SentBy(u)
  BY <1>2, <1>3 DEF PairInvariant, Faithful, SentBy
<1>5. /\ net'[u] = Tail(q) /\ net'[s] = net[s] /\ DOMAIN net' = Sides
      /\ \A t \in Sides \ {u} : net'[t] = net[t]
  BY <1>1, <1>2 DEF PairInvariant, Typed
<1>6. Drains
  BY <1>1, <1>2, <1>3, <1>5 DEF Drains, PairInvariant, Typed
<1>7. \A k \in H : k \in AppCommands => asked[s][k] \in answered[u]
  <2> HIDE DEF m
  <2>1. ASSUME NEW k \in H, k \in AppCommands PROVE asked[s][k] \in answered[u]
    <3>1. /\ m.type = "Data" /\ m.header.function % 2 = 0
          /\ m.header.sys \in DOMAIN cores[s].data /\ k = cores[s].data[m.header.sys].command
      BY <2>1 DEF Heard, Addressed
    <3>2. asked[s][k] = m.header.sys
      BY <1>2, <2>1, <3>1 DEF Recalled
    <3> QED
      BY <1>4, <3>1, <3>2 DEF Voiced
  <2> QED
    BY <2>1
<1>8. IInv(c) /\ Run(p, cores[s].state, c)
  BY <1>2, <1>4, OnMessageIInv, RunOnMessage DEF Voiced
<1>9. ASSUME PairWakes
      PROVE  Awaits(c, {}) /\ DrainWaits(c) /\ Coded(c) /\ (c.closing \/ Heeds(s, m, c))
  <2>1. Codes(m) /\ m.type \in MessageTypes
    BY <1>2, <1>4, <1>9 DEF PairWakes, Wakeful, Voiced
  <2>2. Awaits(c, {}) /\ DrainWaits(c) /\ Coded(c)
    BY <1>2, <1>9, <2>1, OnMessageAwaits, OthersCoded DEF PairWakes, Wakeful, Codes
  <2>3. cores[s].state # "None" /\ ~cores[s].closing
    BY <1>1, <1>9 DEF PairWakes, Wakeful
  <2>4. ASSUME NEW kind \in TransactionKinds, NEW sys \in SystemBytes,
               m = TransactionMessage(kind, sys)
        PROVE  c.closing \/ \E r : Responds(r, kind, sys) /\ Pushes(c, r)
    <3>1. c = OnMessage(cores[s], TransactionMessage(kind, sys), FALSE)
      BY <2>4
    <3> HIDE DEF c
    <3> QED
      BY <1>2, <2>3, <3>1, RequestIsAnswered
  <2>5. ASSUME cores[s].active # None, Responds(m, cores[s].active.kind, cores[s].active.sys)
        PROVE  c.closing \/ c.active = None
    BY <1>2, <2>3, <2>5, ResponseEnds
  <2> HIDE DEF c
  <2> QED
    BY <2>2, <2>4, <2>5 DEF Heeds
<1> HIDE DEF c, H, m
<1>10. Handled(s, p, {}, c)
  BY <1>7, <1>8, PlainHandled
<1>11. Applies(s, c) /\ Apart(s) /\ Shaped
  BY <1>1, ApplyEffect DEF PairInvariant
<1> HIDE DEF p
<1>12. Acts(s, p, {}, c)
  BY <1>6, <1>10, <1>11 DEF Acts
<1>13. ASSUME NEW n \in SentBy(u), n # m PROVE n \in SentBy(u)'
  <2>1. lane'[u] = lane[u]
    BY <1>2, <1>11 DEF Apart
  <2>2. CASE \E i \in DOMAIN lane[u] : n = lane[u][i].message
    BY <2>1, <2>2 DEF SentBy
  <2>3. CASE \E i \in DOMAIN q : n = q[i]
    <3>1. \E i \in DOMAIN Tail(q) : n = Tail(q)[i]
      BY <1>3, <1>13, <2>3
    <3> QED
      BY <1>5, <3>1 DEF SentBy
  <2> QED
    BY <1>13, <2>2, <2>3 DEF SentBy
<1>14. PairWakes => Minds(s, {}, c)
  BY <1>1, <1>5, <1>9, <1>13 DEF Minds, Open
<1> QED
  BY <1>12, <1>14 DEF Handles

\* Deadlines that pass (advance_time).
LEMMA TickHandles ==
  ASSUME PairInvariant, NEW s \in Sides, Tick(s)
  PROVE  Handles(s)
<1>1. PICK due : Apply(s, AdvanceTime(cores[s], due))
  BY DEF Tick
<1> DEFINE c == AdvanceTime(cores[s], due)
           o == Snapshot(cores[s], {}, UnresolvedCommands(cores[s]))
           p == Hearing(o, {})
<1>2. IInv(cores[s]) /\ Traced(cores[s])
  BY DEF PairInvariant, Faithful
<1>3. IInv(c) /\ Run(p, cores[s].state, c)
  <2>1. IInv(c)
    BY <1>2, BeginIInv, ExpireDeadlinesIInv DEF AdvanceTime
  <2>2. Run(o, cores[s].state, c)
    BY <1>2, RunAdvancesTime
  <2> QED
    BY <2>1, <2>2, RunHears
<1>4. Apply(s, c) /\ Drains /\ unreported' = unreported /\ net' = net /\ Open(s)
  BY <1>1 DEF Tick, Drains, PairInvariant, Typed
<1>5. PairWakes => Awaits(c, {}) /\ DrainWaits(c) /\ Coded(c)
  BY <1>2, AdvanceTimeAwaits, OthersCoded DEF PairWakes, Wakeful
<1> HIDE DEF c
<1>6. Handled(s, p, {}, c)
  BY <1>3, PlainHandled
<1>7. Applies(s, c) /\ Apart(s) /\ Shaped
  BY <1>4, ApplyEffect DEF PairInvariant
<1> HIDE DEF p
<1>8. Acts(s, p, {}, c)
  BY <1>4, <1>6, <1>7 DEF Acts
<1>9. PairWakes => Minds(s, {}, c)
  BY <1>4, <1>5, <1>8, DeafMinds DEF Open
<1> QED
  BY <1>8, <1>9 DEF Handles

\* The loss of the connection (on_shutdown).
LEMMA LostHandles ==
  ASSUME PairInvariant, NEW s \in Sides, Lost(s)
  PROVE  Handles(s)
<1> DEFINE c == OnShutdown(cores[s], "TransportLost")
<1>1. Apply(s, c) /\ Drains /\ unreported' = unreported /\ net' = net /\ Open(s)
  BY DEF Lost, Drains, PairInvariant, Typed
<1>2. PICK p : Handled(s, p, {}, c)
  BY ShutdownHandled DEF PairInvariant, Faithful
<1>3. PairWakes => Awaits(c, {}) /\ DrainWaits(c) /\ Coded(c)
  BY OnShutdownAwaits, OthersCoded DEF PairWakes, Wakeful, PairInvariant, Faithful
<1> HIDE DEF c
<1>4. Applies(s, c) /\ Apart(s) /\ Shaped
  BY <1>1, ApplyEffect DEF PairInvariant
<1>5. Acts(s, p, {}, c)
  BY <1>1, <1>2, <1>4 DEF Acts
<1>6. PairWakes => Minds(s, {}, c)
  BY <1>1, <1>3, <1>5, DeafMinds DEF Open
<1> QED
  BY <1>5, <1>6 DEF Handles

\* A written frame keeps the invariant.
LEMMA WriteKeeps ==
  ASSUME PairInvariant, NEW s \in Sides, Write(s)
  PROVE  PairInvariant'
<1> DEFINE m == Head(lane[s]).message
           w == Head(lane[s]).write
<1>1. /\ lane' = [lane EXCEPT ![s] = Tail(lane[s])] /\ lane[s] # <<>>
      /\ net' = [net EXCEPT ![s] = IF link[Peer(s)].phase = "ended" THEN net[s]
                                   ELSE Append(net[s], m)]
      /\ unreported' = [unreported EXCEPT ![s] = Append(unreported[s], w)]
      /\ cores' = cores /\ link' = link /\ status' = status /\ asked' = asked
      /\ answered' = answered
  BY DEF Write
<1>2. /\ IsBatch(lane[s]) /\ IsBatch(net[s]) /\ IsBatch(unreported[s])
      /\ DOMAIN lane = Sides /\ DOMAIN net = Sides /\ DOMAIN unreported = Sides
  BY DEF PairInvariant, Typed
<1>3. /\ IsBatch(Tail(lane[s])) /\ 1 \in DOMAIN lane[s] /\ Head(lane[s]) = lane[s][1]
      /\ \A i \in DOMAIN Tail(lane[s]) : \E j \in DOMAIN lane[s] : Tail(lane[s])[i] = lane[s][j]
  BY <1>1, <1>2, BatchAdvances
<1>4. Voiced(m, answered[s])
  BY <1>3 DEF PairInvariant, Faithful
<1> HIDE DEF m, w
<1>5. /\ IsBatch(Append(net[s], m)) /\ IsBatch(Append(unreported[s], w))
      /\ \A i \in DOMAIN Append(net[s], m) :
           \/ i \in DOMAIN net[s] /\ Append(net[s], m)[i] = net[s][i]
           \/ Append(net[s], m)[i] = m
  <2>1. /\ IsBatch(Append(net[s], m)) /\ DOMAIN Append(net[s], m) = 1..(Len(net[s]) + 1)
        /\ Append(net[s], m)[Len(net[s]) + 1] = m
        /\ \A i \in DOMAIN net[s] : Append(net[s], m)[i] = net[s][i]
    BY <1>2, BatchGrows
  <2>2. Len(net[s]) \in Nat /\ DOMAIN net[s] = 1..Len(net[s])
    BY <1>2, BatchLength
  <2>3. IsBatch(Append(unreported[s], w))
    BY <1>2, BatchGrows
  <2> QED
    BY <2>1, <2>2, <2>3
<1>6. /\ lane'[s] = Tail(lane[s]) /\ net'[s] \in {net[s], Append(net[s], m)}
      /\ unreported'[s] = Append(unreported[s], w)
      /\ \A t \in Sides \ {s} : /\ lane'[t] = lane[t] /\ net'[t] = net[t]
                                /\ unreported'[t] = unreported[t]
      /\ DOMAIN lane' = Sides /\ DOMAIN net' = Sides /\ DOMAIN unreported' = Sides
  BY <1>1, <1>2
<1>7. Typed'
  <2>1. \A t \in Sides : IsBatch(lane'[t]) /\ IsBatch(net'[t]) /\ IsBatch(unreported'[t])
    BY <1>2, <1>3, <1>5, <1>6 DEF PairInvariant, Typed
  <2> QED
    BY <1>1, <1>6, <2>1 DEF PairInvariant, Typed
<1>8. ASSUME NEW t \in Sides PROVE Faithful(t)'
  <2>0. /\ \A i \in DOMAIN lane[t] : Voiced(lane[t][i].message, answered[t])
        /\ \A i \in DOMAIN net[t] : Voiced(net[t][i], answered[t])
    BY DEF PairInvariant, Faithful
  <2>1. \A i \in DOMAIN lane'[t] : Voiced(lane'[t][i].message, answered[t])
    <3>1. CASE t = s
      <4> DEFINE q == Tail(lane[s])
      <4>1. \A i \in DOMAIN q : \E j \in DOMAIN lane[s] : q[i] = lane[s][j]
        BY <1>3
      <4>2. lane'[t] = q
        BY <1>6, <3>1
      <4> HIDE DEF q
      <4>3. \A i \in DOMAIN q : Voiced(q[i].message, answered[t])
        BY <2>0, <3>1, <4>1
      <4> QED
        BY <4>2, <4>3
    <3>2. CASE t # s
      BY <1>6, <2>0, <3>2
    <3> QED
      BY <3>1, <3>2
  <2>2. \A i \in DOMAIN net'[t] : Voiced(net'[t][i], answered[t])
    <3>1. CASE t = s
      <4>1. net'[s] = net[s] \/ net'[s] = Append(net[s], m)
        BY <1>6
      <4> QED
        BY <1>4, <1>5, <2>0, <3>1, <4>1
    <3>2. CASE t # s
      BY <1>6, <2>0, <3>2
    <3> QED
      BY <3>1, <3>2
  <2> QED
    BY <1>1, <2>1, <2>2 DEF PairInvariant, Faithful, Recalled, Replied, Truthful, Peer, Voiced
<1> QED
  BY <1>7, <1>8 DEF PairInvariant

\* A written frame is still on its way, or its report is.
LEMMA WriteWakes ==
  ASSUME PairInvariant, PairWakes, NEW s \in Sides, Write(s)
  PROVE  PairWakes'
<1> DEFINE u == Peer(s)
           q == lane[s]
           m == Head(q).message
           w == Head(q).write
<1>0. u \in Sides /\ u # s /\ (\A t \in Sides : t = s \/ t = u) /\ Peer(u) = s
  BY PeerIsOther
<1>1. /\ lane' = [lane EXCEPT ![s] = Tail(q)] /\ q # <<>>
      /\ net' = [net EXCEPT ![s] = IF link[u].phase = "ended" THEN net[s] ELSE Append(net[s], m)]
      /\ unreported' = [unreported EXCEPT ![s] = Append(unreported[s], w)]
      /\ cores' = cores /\ link' = link
  BY DEF Write
<1>2. /\ IsBatch(q) /\ IsBatch(net[s]) /\ IsBatch(unreported[s])
      /\ DOMAIN lane = Sides /\ DOMAIN net = Sides /\ DOMAIN unreported = Sides
  BY DEF PairInvariant, Typed
<1>3. /\ 1 \in DOMAIN q /\ Head(q) = q[1]
      /\ \A i \in DOMAIN Tail(q) : Listed(q, Tail(q)[i])
      /\ \A i \in DOMAIN q : i # 1 => Listed(Tail(q), q[i])
  <2>1. /\ 1 \in DOMAIN q /\ Head(q) = q[1]
        /\ \A i \in DOMAIN Tail(q) : i + 1 \in DOMAIN q /\ Tail(q)[i] = q[i + 1]
        /\ \A i \in DOMAIN q : i # 1 => i - 1 \in DOMAIN Tail(q) /\ Tail(q)[i - 1] = q[i]
    BY <1>1, <1>2, BatchAdvances
  <2> QED
    BY <2>1 DEF Listed
<1>4. m = q[1].message /\ w = q[1].write
  BY <1>3
<1>5. /\ lane'[s] = Tail(q) /\ unreported'[s] = Append(unreported[s], w)
      /\ net'[s] = IF link[u].phase = "ended" THEN net[s] ELSE Append(net[s], m)
      /\ lane'[u] = lane[u] /\ net'[u] = net[u] /\ unreported'[u] = unreported[u]
  BY <1>0, <1>1, <1>2
<1> HIDE DEF m, w
<1>6. \A a, x : IsBatch(a) =>
        /\ Listed(Append(a, x), x)
        /\ \A y : Listed(a, y) => Listed(Append(a, x), y)
        /\ \A y : Listed(Append(a, x), y) => y = x \/ Listed(a, y)
  <2> SUFFICES ASSUME NEW a, NEW x, IsBatch(a)
               PROVE  /\ Listed(Append(a, x), x)
                      /\ \A y : Listed(a, y) => Listed(Append(a, x), y)
                      /\ \A y : Listed(Append(a, x), y) => y = x \/ Listed(a, y)
    OBVIOUS
  <2>1. /\ DOMAIN Append(a, x) = 1..(Len(a) + 1)
        /\ Append(a, x)[Len(a) + 1] = x
        /\ \A i \in DOMAIN a : Append(a, x)[i] = a[i]
    BY BatchGrows
  <2>2. Len(a) \in Nat /\ DOMAIN a = 1..Len(a)
    BY BatchLength
  <2> QED
    BY <2>1, <2>2 DEF Listed
<1>7. SentBy(u)' = SentBy(u)
  BY <1>5 DEF SentBy
<1>8. \A n \in SentBy(s)' : n \in SentBy(s)
  <2>1. \A i \in DOMAIN Tail(q) : Tail(q)[i].message \in SentBy(s)
    BY <1>3 DEF SentBy, Listed
  <2>2. m \in SentBy(s)
    BY <1>3, <1>4 DEF SentBy
  <2>3. \A n : Listed(net'[s], n) => n = m \/ Listed(net[s], n)
    BY <1>2, <1>5, <1>6
  <2>4. \A i \in DOMAIN net'[s] : net'[s][i] \in SentBy(s)
    BY <2>2, <2>3 DEF SentBy, Listed
  <2> QED
    BY <1>5, <2>1, <2>4 DEF SentBy
<1>9. ASSUME Open(u), NEW n \in SentBy(s) PROVE n \in SentBy(s)'
  <2>1. net'[s] = Append(net[s], m)
    BY <1>5, <1>9 DEF Open
  <2>2. Listed(net'[s], m) /\ \A y : Listed(net[s], y) => Listed(net'[s], y)
    BY <1>2, <1>6, <2>1
  <2>3. CASE \E i \in DOMAIN net[s] : n = net[s][i]
    BY <2>2, <2>3 DEF SentBy, Listed
  <2>4. CASE \E i \in DOMAIN q : n = q[i].message
    <3>1. PICK i \in DOMAIN q : n = q[i].message
      BY <2>4
    <3>2. CASE i = 1
      BY <1>4, <2>2, <3>1, <3>2 DEF SentBy, Listed
    <3>3. CASE i # 1
      <4>1. PICK j \in DOMAIN Tail(q) : Tail(q)[j] = q[i]
        BY <1>3, <3>3 DEF Listed
      <4> QED
        BY <1>5, <3>1, <4>1 DEF SentBy
    <3> QED
      BY <3>2, <3>3
  <2> QED
    BY <1>9, <2>3, <2>4 DEF SentBy
<1>10. Queued(s)'
  <2>1. ASSUME NEW x, (\E i \in DOMAIN q : q[i].write = x) \/ Listed(unreported[s], x)
        PROVE  (\E i \in DOMAIN lane'[s] : lane'[s][i].write = x) \/ Listed(unreported'[s], x)
    <3>1. Listed(unreported'[s], w) /\ \A y : Listed(unreported[s], y) => Listed(unreported'[s], y)
      BY <1>2, <1>5, <1>6
    <3>2. ASSUME NEW i \in DOMAIN q, q[i].write = x, i # 1
          PROVE  \E j \in DOMAIN lane'[s] : lane'[s][j].write = x
      BY <1>3, <1>5, <3>2 DEF Listed
    <3> QED
      BY <1>4, <2>1, <3>1, <3>2
  <2>2. Queued(s)
    BY DEF PairWakes, Wakeful
  <2> QED
    BY <1>1, <2>1, <2>2 DEF Queued, Listed
<1>11. Queued(u)'
  <2>1. Queued(u)
    BY <1>0 DEF PairWakes, Wakeful
  <2> QED
    BY <1>1, <1>5, <2>1 DEF Queued, Listed
<1>12. Awaited(s)' /\ Awaited(u)'
  <2>1. Awaited(s) /\ Awaited(u)
    BY <1>0 DEF PairWakes, Wakeful
  <2> QED
    BY <1>0, <1>1, <1>7, <1>9, <2>1 DEF Awaited, Open, Responds, Peer
<1>13. ASSUME NEW t \in Sides PROVE Wakeful(t)'
  <2>1. Queued(t)' /\ Awaited(t)' /\ \A n \in SentBy(t)' : n \in SentBy(t)
    BY <1>0, <1>7, <1>8, <1>10, <1>11, <1>12
  <2> QED
    BY <1>1, <2>1 DEF PairWakes, Wakeful, Open
<1> QED
  BY <1>13 DEF PairWakes

\* The end of the Writer is handled: every write whose outcome never came is gone, and
\* nothing stays open to a request (finalize_writer).
LEMMA EndHandled ==
  ASSUME NEW s, IInv(cores[s]), Traced(cores[s])
  PROVE  LET c == FinalizeWriter(cores[s])
         IN  c.closing /\ DOMAIN c.data = {} /\ \E p, X : Handled(s, p, X, c)
<1> DEFINE c == FinalizeWriter(cores[s])
<1>1. CASE ~cores[s].closing
  <2>1. c = OnShutdown(cores[s], "RuntimeInvariant")
    <3>1. Begin(cores[s]).closing = cores[s].closing
      BY BeginIInv DEF Fields
    <3> QED
      BY <1>1, <3>1 DEF FinalizeWriter, OnShutdown, FailRuntimeInvariant
  <2>2. \E p : Handled(s, p, {}, c)
    BY <2>1, ShutdownHandled
  <2>3. c.closing
    BY <2>1, BeginIInv, CloseAllIInv DEF OnShutdown, IInv
  <2> QED
    BY <2>2, <2>3 DEF Handled, IInv, Closed
<1>2. CASE cores[s].closing
  <2> DEFINE d == [Begin(cores[s]) EXCEPT !.pending = EmptyFunction]
             U == UnresolvedCommands(cores[s])
             p == Drained(cores[s])
             X == DOMAIN cores[s].pending
  <2>1. Run(p, cores[s].state, c) /\ IInv(c)
    BY <1>2, RunFinalizes, FinalizeWriterIInv
  <2>2. /\ d.open = cores[s].open /\ d.nextWrite = cores[s].nextWrite
        /\ d.closing = cores[s].closing /\ d.active = cores[s].active /\ DOMAIN d.pending = {}
    <3>1. /\ DOMAIN Begin(cores[s]) = Fields
          /\ \A f \in Fields \ {"out"} : Begin(cores[s])[f] = cores[s][f]
      BY BeginIInv DEF IInv, Weak, Shape
    <3> QED
      BY <3>1 DEF EmptyFunction, Fields
  <2> HIDE DEF d, c
  <2>3. /\ p.open = cores[s].open /\ p.nextWrite = cores[s].nextWrite
        /\ p.closing = cores[s].closing /\ p.pending = DOMAIN cores[s].pending \ X
        /\ p.live = Live(cores[s]) /\ p.heard = {} /\ p.told = U \X {"DeliveryIndeterminate"}
    BY <2>2 DEF Drained, Snapshot, Live, d
  <2> HIDE DEF p, U, X
  <2>4. \A k, r : <<k, r>> \in p.told => r = "DeliveryIndeterminate"
    BY <2>3
  <2>5. Handled(s, p, X, c)
    BY <2>1, <2>3, <2>4 DEF Handled
  <2>6. c.closing
    BY <1>2, <2>1, <2>3 DEF Run, Log, Quieted
  <2>7. DOMAIN c.data = {}
    BY <2>1, <2>6 DEF IInv, Closed
  <2> QED
    BY <2>5, <2>6, <2>7 DEF c
<1> QED
  BY <1>1, <1>2

\* The end of a side keeps the invariant.
LEMMA EndKeeps ==
  ASSUME PairInvariant, NEW s \in Sides, End(s)
  PROVE  PairInvariant'
<1> DEFINE c == FinalizeWriter(cores[s])
           next == [link[s] EXCEPT !.phase = "ended"]
<1>1. /\ cores' = [cores EXCEPT ![s] = Begin(c)] /\ status' = [status EXCEPT ![s] = Results(s, c)]
      /\ link' = [link EXCEPT ![s] = next]
      /\ lane' = [lane EXCEPT ![s] = <<>>] /\ unreported' = [unreported EXCEPT ![s] = <<>>]
      /\ net' = net /\ asked' = asked /\ answered' = answered
  BY DEF End
<1>2. IInv(cores[s]) /\ Traced(cores[s]) /\ Recalled(cores[s], status[s], asked[s]) /\ Replied(s)
  BY DEF PairInvariant, Faithful
<1>3. c.closing /\ DOMAIN c.data = {} /\ \E p, X : Handled(s, p, X, c)
  BY <1>2, EndHandled
<1> HIDE DEF c
<1>4. PICK p, X : Handled(s, p, X, c)
  BY <1>3
<1>5. IInv(c) /\ Traced(c) /\ Noted(s, c, asked[s]) /\ Settled(s, c, Results(s, c))
  BY <1>3, <1>4, ResultsSettle DEF Handled, Run, Noted
<1>6. Recalled(c, Results(s, c), asked[s]) /\ Truthful(s, Results(s, c), asked[s])
  BY <1>2, <1>4, <1>5, HandledRecalls
<1>7. /\ DOMAIN next = {"phase", "barrier"} /\ next.phase = "ended"
  BY DEF PairInvariant, Typed
<1> HIDE DEF next
<1>8. /\ cores'[s] = Begin(c) /\ status'[s] = Results(s, c) /\ link'[s] = next
      /\ lane'[s] = <<>> /\ unreported'[s] = <<>>
      /\ \A t \in Sides \ {s} : /\ cores'[t] = cores[t] /\ status'[t] = status[t]
                                /\ link'[t] = link[t] /\ lane'[t] = lane[t]
                                /\ unreported'[t] = unreported[t]
      /\ DOMAIN cores' = Sides /\ DOMAIN status' = Sides /\ DOMAIN link' = Sides
      /\ DOMAIN lane' = Sides /\ DOMAIN unreported' = Sides
  BY <1>1 DEF PairInvariant, Typed
<1>9. Typed'
  <2>1. \A t \in Sides : IsBatch(lane'[t]) /\ IsBatch(net'[t]) /\ IsBatch(unreported'[t])
    BY <1>1, <1>8, NoBatch DEF PairInvariant, Typed
  <2>2. \A t \in Sides : DOMAIN link'[t] = {"phase", "barrier"}
                         /\ link'[t].phase \in {"open", "closing", "ended"}
    BY <1>7, <1>8 DEF PairInvariant, Typed
  <2> QED
    BY <1>1, <1>8, <2>1, <2>2 DEF PairInvariant, Typed
<1>10. ASSUME NEW t \in Sides PROVE Faithful(t)'
  <2>1. /\ IInv(cores'[t]) /\ Traced(cores'[t])
        /\ Recalled(cores'[t], status'[t], asked[t]) /\ Truthful(t, status'[t], asked[t])
    <3>1. CASE t = s
      BY <1>5, <1>6, <1>8, <3>1, BeginKeeps
    <3>2. CASE t # s
      BY <1>8, <3>2 DEF PairInvariant, Faithful, Replied
    <3> QED
      BY <3>1, <3>2
  <2>2. \A i \in DOMAIN lane'[t] : Voiced(lane'[t][i].message, answered[t])
    <3>1. CASE t = s
      BY <1>8, <3>1, NoBatch
    <3>2. CASE t # s
      BY <1>8, <3>2 DEF PairInvariant, Faithful
    <3> QED
      BY <3>1, <3>2
  <2>3. \A i \in DOMAIN net[t] : Voiced(net[t][i], answered[t])
    BY DEF PairInvariant, Faithful
  <2> QED
    BY <1>1, <2>1, <2>2, <2>3 DEF Faithful, Recalled, Replied, Truthful, Peer, Voiced
<1> QED
  BY <1>9, <1>10 DEF PairInvariant

\* A side that ends waits for nothing more, and its peer hears of it.
LEMMA EndWakes ==
  ASSUME PairInvariant, PairWakes, NEW s \in Sides, End(s)
  PROVE  PairWakes'
<1> DEFINE u == Peer(s)
           c == FinalizeWriter(cores[s])
<1>0. u \in Sides /\ u # s /\ (\A t \in Sides : t = s \/ t = u) /\ Peer(u) = s
  BY PeerIsOther
<1>1. /\ cores' = [cores EXCEPT ![s] = Begin(c)]
      /\ link' = [link EXCEPT ![s] = [link[s] EXCEPT !.phase = "ended"]]
      /\ lane' = [lane EXCEPT ![s] = <<>>] /\ unreported' = [unreported EXCEPT ![s] = <<>>]
      /\ net' = net /\ link[s].phase = "closing"
  BY DEF End
<1>2. /\ IInv(cores[s]) /\ Traced(cores[s])
      /\ DOMAIN cores = Sides /\ DOMAIN link = Sides /\ DOMAIN lane = Sides
      /\ DOMAIN unreported = Sides /\ DOMAIN link[s] = {"phase", "barrier"}
  BY DEF PairInvariant, Faithful, Typed
<1>3. Wakeful(s) /\ Wakeful(u)
  BY <1>0 DEF PairWakes
<1>4. cores[s].closing
  BY <1>1, <1>2, <1>3 DEF Wakeful, Open
<1>5. DOMAIN Begin(c).open = {}
  BY <1>2, <1>4, FinalizeWriterSettles
<1>6. Awaits(c, {}) /\ DrainWaits(c)
  BY <1>2, <1>3, FinalizeWriterAwaits DEF Wakeful
<1>7. c.closing /\ \E p, X : Handled(s, p, X, c)
  BY <1>2, EndHandled
<1> HIDE DEF c
<1>8. IInv(c) /\ c.state # "None"
  BY <1>3, <1>7 DEF Handled, Run, Log, Announced, Wakeful
<1>9. /\ Awaits(Begin(c), {}) /\ DrainWaits(Begin(c))
      /\ \A f \in Fields \ {"out"} : Begin(c)[f] = c[f]
  BY <1>6, <1>8, BeginAwaits
<1>10. Begin(c).closing /\ Begin(c).state # "None"
  BY <1>7, <1>8, <1>9 DEF Fields
<1>11. /\ cores'[s] = Begin(c) /\ link'[s].phase = "ended"
       /\ lane'[s] = <<>> /\ unreported'[s] = <<>>
       /\ cores'[u] = cores[u] /\ link'[u] = link[u] /\ lane'[u] = lane[u]
       /\ unreported'[u] = unreported[u]
  BY <1>0, <1>1, <1>2
<1>12. Awaited(s)' /\ Awaited(u)' /\ Queued(s)' /\ ~Open(s)'
  BY <1>0, <1>11 DEF Awaited, Queued, Open, Peer
<1>13. \A m \in SentBy(s)' : m \in SentBy(s)
  BY <1>1, <1>11, NoBatch DEF SentBy
<1>14. Wakeful(s)'
  BY <1>3, <1>5, <1>9, <1>10, <1>11, <1>12, <1>13 DEF Wakeful
<1>15. Wakeful(u)'
  <2>1. Queued(u)' /\ SentBy(u)' = SentBy(u)
    BY <1>1, <1>3, <1>11 DEF Wakeful, Queued, Listed, SentBy
  <2> QED
    BY <1>3, <1>11, <1>12, <2>1 DEF Wakeful, Open
<1> QED
  BY <1>0, <1>14, <1>15 DEF PairWakes

\* Every step of the two sides keeps the invariant, and both sides awake.
LEMMA PairSteps ==
  ASSUME PairInvariant, [Next]_vars
  PROVE  PairInvariant' /\ (PairWakes => PairWakes')
<1> DEFINE Kept == PairInvariant' /\ (PairWakes => PairWakes')
<1>1. CASE UNCHANGED vars
  <2>1. PairInvariant'
    BY <1>1 DEF vars, PairInvariant, Typed, Faithful, Recalled, Replied, Truthful, Peer, Voiced
  <2>2. PairWakes => PairWakes'
    <3>0. /\ cores' = cores /\ lane' = lane /\ net' = net /\ unreported' = unreported
          /\ link' = link
      BY <1>1 DEF vars
    <3>1. ASSUME NEW s \in Sides PROVE SentBy(s)' = SentBy(s) /\ Open(s)' = Open(s)
      BY <3>0 DEF SentBy, Open
    <3>2. ASSUME NEW s \in Sides, Wakeful(s) PROVE Wakeful(s)'
      <4>1. Queued(s)'
        BY <3>0, <3>2 DEF Wakeful, Queued, Listed
      <4>2. Awaited(s)'
        BY <3>0, <3>1, <3>2, PeerIsOther DEF Wakeful, Awaited, Peer, Responds
      <4> QED
        BY <3>0, <3>1, <3>2, <4>1, <4>2 DEF Wakeful
    <3> QED
      BY <3>2 DEF PairWakes
  <2> QED
    BY <2>1, <2>2
<1>2. ASSUME NEW s \in Sides, NEW kind \in Kinds, Command(s, kind) PROVE Kept
  BY <1>2, CommandHandles, HandlesKeeps
<1>3. ASSUME NEW s \in Sides, NEW intent \in {"Secondary", "Abort", "Abandon"}, Reply(s, intent)
      PROVE  Kept
  BY <1>3, ReplyHandles, HandlesKeeps DEF ReplyIntents
<1>4. ASSUME NEW s \in Sides, Write(s) PROVE Kept
  BY <1>4, WriteKeeps, WriteWakes
<1>5. ASSUME NEW s \in Sides, End(s) PROVE Kept
  BY <1>5, EndKeeps, EndWakes
<1>6. ASSUME NEW s \in Sides, Report(s) \/ Receive(s) \/ Tick(s) \/ Lost(s) PROVE Kept
  <2>1. Handles(s)
    BY <1>6, ReportHandles, ReceiveHandles, TickHandles, LostHandles
  <2> QED
    BY <2>1, HandlesKeeps
<1> HIDE DEF Kept
<1>7. Kept
  BY <1>1, <1>2, <1>3, <1>4, <1>5, <1>6 DEF Next, Work, Kept
<1> QED
  BY <1>7 DEF Kept

\* The inductive invariants of the two sides.
THEOREM PairKeepsInvariant == Spec => [](PairInvariant /\ PairWakes)
<1>1. Init => PairInvariant /\ PairWakes
  BY PairStarts, PairStartsAwake
<1>2. PairInvariant /\ PairWakes /\ [Next]_vars => (PairInvariant /\ PairWakes)'
  BY PairSteps
<1> QED
  BY <1>1, <1>2, PTL DEF Spec

\* A request ends with a Secondary or an abort only if the peer's application answered
\* that very request, whatever the two directions do meanwhile (receive_data).
THEOREM AnswersComeFromThePeer == Spec => []RequestsMeanReplies
<1>1. PairInvariant => RequestsMeanReplies
  BY DEF PairInvariant, Faithful, Replied, Truthful, RequestsMeanReplies
<1> QED
  BY <1>1, PairKeepsInvariant, PTL

\* A side without work retains no write: it is open, or it has ended.
LEMMA IdleSide ==
  ASSUME NEW s \in Sides, PairInvariant, PairWakes, ~HasWork(s), link[s].phase # "ended"
  PROVE  Open(s) /\ DOMAIN cores[s].pending = {} /\ lane[s] = <<>>
<1>1. lane[s] = <<>> /\ unreported[s] = <<>>
  BY DEF HasWork
<1>2. DOMAIN cores[s].pending = {}
  BY <1>1, NoBatch DEF PairWakes, Wakeful, Queued, Listed
<1>3. link[s].phase # "closing"
  BY <1>2 DEF HasWork
<1> QED
  BY <1>1, <1>2, <1>3 DEF Open, PairInvariant, Typed

\* While the sides have no work, no command is open (progress_deselect).
LEMMA IdleSides ==
  ASSUME PairInvariant, PairWakes, {"t3", "drain"} \subseteq Timers
  PROVE  NobodyIsStuck
<1> SUFFICES ASSUME \A s \in Sides : ~HasWork(s), NEW s \in Sides, NEW k \in AppCommands,
                    status[s][k] = "open"
             PROVE  FALSE
  BY DEF NobodyIsStuck
<1> DEFINE c == cores[s]
           u == Peer(s)
<1>0. u \in Sides /\ u # s /\ Peer(u) = s
  BY PeerIsOther
<1>1. IInv(c) /\ Wakeful(s) /\ k \in DOMAIN c.open
  BY DEF PairInvariant, Faithful, Recalled, PairWakes
<1>2. link[s].phase # "ended"
  BY <1>1 DEF Wakeful
<1>3. Open(s) /\ DOMAIN c.pending = {} /\ lane[s] = <<>>
  BY <1>2, IdleSide
<1>4. net[u] = <<>> /\ link[u].phase # "ended" /\ \A due \in Dues(c) : due.t6 \/ due.t7
  BY <1>3 DEF HasWork
<1>5. Open(u) /\ lane[u] = <<>>
  BY <1>0, <1>4, IdleSide
<1>6. net[s] = <<>>
  BY <1>0, <1>5 DEF HasWork
<1>7. SentBy(s) = {} /\ SentBy(u) = {}
  BY <1>3, <1>4, <1>5, <1>6, NoBatch DEF SentBy
<1>8. c.active = None
  BY <1>1, <1>3, <1>5, <1>7 DEF Wakeful, Awaited
<1>9. c.drain = None
  <2> DEFINE due == [NothingDue EXCEPT !.drain = TRUE]
  <2>1. ASSUME c.drain # None PROVE due \in Dues(c)
    BY <2>1 DEF Dues
  <2>2. ~due.t6 /\ ~due.t7
    BY DEF NothingDue
  <2> QED
    BY <1>4, <2>1, <2>2
<1>10. ASSUME NEW y \in DOMAIN c.data PROVE FALSE
  <2> DEFINE due == [NothingDue EXCEPT !.t3 = {y}]
  <2>1. c.data[y].armed
    BY <1>1, <1>3, <1>10 DEF IInv, Timed
  <2>2. due \in Dues(c)
    BY <1>10, <2>1 DEF Dues
  <2>3. ~due.t6 /\ ~due.t7
    BY DEF NothingDue
  <2> QED
    BY <1>4, <2>2, <2>3
<1>11. k \in UnresolvedCommands(c) \/ Attended(c, k)
  BY <1>1, <1>3 DEF Wakeful, Awaits, Cared, LiveCare
<1>12. k # None
  BY <1>1, NoneAssumption DEF IInv, Weak, Shape
<1> QED
  BY <1>3, <1>8, <1>9, <1>10, <1>11, <1>12 DEF UnresolvedCommands, Attended

\* Where T3 and the drain deadline may pass, the two sides never wait for each other:
\* while a command of either is open, one of them has something to do, however
\* Deselects, requests and closes cross (progress_deselect).
THEOREM NobodyWaitsForever ==
  {"t3", "drain"} \subseteq Timers => (Spec => []NobodyIsStuck)
<1> SUFFICES ASSUME {"t3", "drain"} \subseteq Timers PROVE Spec => []NobodyIsStuck
  OBVIOUS
<1>1. PairInvariant /\ PairWakes => NobodyIsStuck
  BY IdleSides
<1> QED
  BY <1>1, PairKeepsInvariant, PTL

=============================================================================
