---------------------------- MODULE DeliveryProofs ----------------------------
(***************************************************************************)
(* Proofs about Delivery: for every capacity, byte budget and number of    *)
(* connections, no message is lost in silence, every byte permit has one   *)
(* owner, every lost diagnostic is counted, and the error stream does not  *)
(* depend on the Primary stream.                                           *)
(***************************************************************************)
EXTENDS Delivery, FiniteSetTheorems, TLAPS

\* The capacities and bounds are positive numbers.
LEMMA Bounds ==
  /\ PrimaryCapacity \in Nat \ {0} /\ PrimaryBytes \in Nat \ {0} /\ ErrorCapacity \in Nat \ {0}
  /\ DiagnosticCapacity \in Nat \ {0} /\ SequenceSpace \in Nat \ {0}
  /\ DroppedLimit \in Nat \ {0} /\ MaxGenerations \in Nat \ {0} /\ MaxInputs \in Nat \ {0}
  /\ MaxAttempts \in Nat \ {0}
  /\ \A l \in Lengths : l \in 1 .. PrimaryBytes
BY DeliveryAssumption

\* None is none of the values an Option holds.
LEMMA Nothing ==
  /\ \A n \in Nat : n # None
  /\ \A item \in Items : item # None
  /\ \A primary \in Primaries : primary # None
BY NoneAssumption

-----------------------------------------------------------------------------
(* The permits of a queue.                                                 *)

Permits(queue) ==
  {permit \in (1 .. Len(queue)) \X (1 .. PrimaryBytes) : permit[2] <= queue[permit[1]].length}

\* A queue holds finitely many permits.
LEMMA PermitsFinite ==
  ASSUME NEW queue \in Seq(Primaries)
  PROVE  /\ IsFiniteSet(Permits(queue)) /\ Charge(queue) = Cardinality(Permits(queue))
         /\ Charge(queue) \in Nat
<1>1. Len(queue) \in Nat
  OBVIOUS
<1>2. IsFiniteSet((1 .. Len(queue)) \X (1 .. PrimaryBytes))
  <2>1. IsFiniteSet(1 .. Len(queue)) /\ IsFiniteSet(1 .. PrimaryBytes)
    BY <1>1, Bounds, FS_Interval
  <2> QED
    BY <2>1, FS_Product
<1>3. Permits(queue) \subseteq (1 .. Len(queue)) \X (1 .. PrimaryBytes)
  BY DEF Permits
<1>4. IsFiniteSet(Permits(queue))
  BY <1>2, <1>3, FS_Subset
<1>5. Charge(queue) = Cardinality(Permits(queue))
  BY DEF Charge, Permits
<1> QED
  BY <1>4, <1>5, FS_CardinalityType

\* An empty queue holds none.
LEMMA ChargeEmpty == Charge(<<>>) = 0
<1>1. <<>> \in Seq(Primaries)
  OBVIOUS
<1>2. Permits(<<>>) = {}
  BY DEF Permits
<1> QED
  BY <1>1, <1>2, PermitsFinite, FS_EmptySet

\* The permits of one message at position i.
Column(i, length) == {<<i, b>> : b \in 1 .. length}

\* A message holds as many permits as it has bytes.
LEMMA ColumnSize ==
  ASSUME NEW i \in Nat, NEW length \in Nat
  PROVE  IsFiniteSet(Column(i, length)) /\ Cardinality(Column(i, length)) = length
<1> DEFINE f == [b \in 1 .. length |-> <<i, b>>]
<1>1. IsFiniteSet(1 .. length) /\ Cardinality(1 .. length) = length
  BY FS_Interval
<1>2. f \in Bijection(1 .. length, Column(i, length))
  BY DEF Column, Bijection, Injection, Surjection, IsInjective
<1>3. ExistsBijection(1 .. length, Column(i, length))
  BY <1>2 DEF ExistsBijection
<1> QED
  BY <1>1, <1>3, FS_Bijection

\* Delivery::primary adds the bytes of the message it queues.
LEMMA ChargeAppend ==
  ASSUME NEW queue \in Seq(Primaries), NEW item \in Primaries
  PROVE  Charge(Append(queue, item)) = Charge(queue) + item.length
<1> DEFINE more == Append(queue, item)
           column == Column(Len(queue) + 1, item.length)
<1>1. /\ more \in Seq(Primaries) /\ Len(queue) \in Nat /\ Len(more) = Len(queue) + 1
      /\ \A i \in 1 .. Len(queue) : more[i] = queue[i]
      /\ more[Len(queue) + 1] = item
  OBVIOUS
<1>2. item.length \in 1 .. PrimaryBytes /\ item.length \in Nat
  BY Bounds DEF Primaries
<1>3. IsFiniteSet(column) /\ Cardinality(column) = item.length
  BY <1>1, <1>2, ColumnSize
<1>4. Permits(more) = Permits(queue) \cup column
  <2>1. ASSUME NEW p \in Permits(more) PROVE p \in Permits(queue) \cup column
    <3>1. p \in (1 .. Len(queue) + 1) \X (1 .. PrimaryBytes) /\ p[2] <= more[p[1]].length
      BY <1>1, <2>1 DEF Permits
    <3>2. PICK i \in 1 .. Len(queue) + 1, b \in 1 .. PrimaryBytes : p = <<i, b>>
      BY <3>1
    <3> HIDE DEF more
    <3>3. CASE i = Len(queue) + 1
      BY <1>1, <1>2, <3>1, <3>2, <3>3, Bounds DEF Column
    <3>4. CASE i \in 1 .. Len(queue)
      BY <1>1, <3>1, <3>2, <3>4 DEF Permits
    <3> QED
      BY <1>1, <3>3, <3>4
  <2>2. ASSUME NEW p \in Permits(queue) PROVE p \in Permits(more)
    <3>1. PICK i \in 1 .. Len(queue), b \in 1 .. PrimaryBytes : p = <<i, b>> /\ b <= queue[i].length
      BY <2>2 DEF Permits
    <3> HIDE DEF more
    <3> QED
      BY <1>1, <3>1 DEF Permits
  <2>3. ASSUME NEW p \in column PROVE p \in Permits(more)
    <3>1. PICK b \in 1 .. item.length : p = <<Len(queue) + 1, b>>
      BY <2>3 DEF Column
    <3> HIDE DEF more
    <3> QED
      BY <1>1, <1>2, <3>1, Bounds DEF Permits
  <2> QED
    BY <2>1, <2>2, <2>3
<1>5. Permits(queue) \cap column = {}
  <2>1. ASSUME NEW p \in Permits(queue), p \in column PROVE FALSE
    <3>1. p[1] \in 1 .. Len(queue)
      BY <2>1 DEF Permits
    <3>2. p[1] = Len(queue) + 1
      BY <2>1 DEF Column
    <3> QED
      BY <1>1, <3>1, <3>2
  <2> QED
    BY <2>1
<1> HIDE DEF more, column
<1>6. Cardinality(Permits(queue) \cup column) = Cardinality(Permits(queue)) + Cardinality(column)
  <2>1. IsFiniteSet(Permits(queue))
    BY PermitsFinite
  <2>2. Cardinality(Permits(queue) \cup column)
          = Cardinality(Permits(queue)) + Cardinality(column) - Cardinality(Permits(queue) \cap column)
    BY <1>3, <2>1, FS_Union
  <2>3. Cardinality(Permits(queue) \cap column) = 0
    BY <1>5, FS_EmptySet
  <2>4. Cardinality(Permits(queue)) \in Nat /\ Cardinality(column) \in Nat
    BY <1>2, <1>3, <2>1, FS_CardinalityType
  <2> QED
    BY <2>2, <2>3, <2>4
<1>7. Charge(more) = Cardinality(Permits(more)) /\ Charge(queue) = Cardinality(Permits(queue))
  BY <1>1, PermitsFinite
<1> QED
  BY <1>3, <1>4, <1>6, <1>7 DEF more

\* recv takes the bytes of the oldest message out of the queue's charge.
LEMMA ChargeTail ==
  ASSUME NEW queue \in Seq(Primaries), queue # <<>>
  PROVE  Charge(queue) = Head(queue).length + Charge(Tail(queue))
<1> DEFINE rest == Tail(queue)
           column == Column(1, Head(queue).length)
           later == Permits(queue) \ column
           f == [p \in Permits(rest) |-> <<p[1] + 1, p[2]>>]
<1>1. /\ rest \in Seq(Primaries) /\ Len(queue) \in Nat \ {0} /\ Len(rest) = Len(queue) - 1
      /\ \A i \in 1 .. Len(rest) : rest[i] = queue[i + 1]
      /\ Head(queue) = queue[1] /\ Head(queue) \in Primaries
  OBVIOUS
<1>2. Head(queue).length \in 1 .. PrimaryBytes /\ Head(queue).length \in Nat
  BY <1>1, Bounds DEF Primaries
<1>3. IsFiniteSet(column) /\ Cardinality(column) = Head(queue).length
  BY <1>2, ColumnSize
<1>4. column \subseteq Permits(queue)
  <2>1. ASSUME NEW p \in column PROVE p \in Permits(queue)
    <3>1. PICK b \in 1 .. Head(queue).length : p = <<1, b>>
      BY <2>1 DEF Column
    <3> QED
      BY <1>1, <1>2, <3>1, Bounds DEF Permits
  <2> QED
    BY <2>1
<1>5. f \in Bijection(Permits(rest), later)
  <2> HIDE DEF rest
  <2>1. ASSUME NEW p \in Permits(rest)
        PROVE  f[p] \in later
    <3>1. PICK i \in 1 .. Len(rest), b \in 1 .. PrimaryBytes : p = <<i, b>> /\ b <= rest[i].length
      BY <2>1 DEF Permits
    <3>2. f[p] = <<i + 1, b>> /\ i + 1 \in 1 .. Len(queue) /\ b <= queue[i + 1].length
      BY <1>1, <3>1
    <3>3. f[p] \in Permits(queue)
      BY <3>2 DEF Permits
    <3>4. f[p] \notin column
      BY <3>1, <3>2, <1>1 DEF Column
    <3> QED
      BY <3>3, <3>4
  <2>2. ASSUME NEW p \in Permits(rest), NEW q \in Permits(rest), f[p] = f[q]
        PROVE  p = q
    <3>1. PICK i \in 1 .. Len(rest), b \in 1 .. PrimaryBytes : p = <<i, b>>
      BY <2>2 DEF Permits
    <3>2. PICK j \in 1 .. Len(rest), c \in 1 .. PrimaryBytes : q = <<j, c>>
      BY <2>2 DEF Permits
    <3>3. f[p] = <<i + 1, b>> /\ f[q] = <<j + 1, c>>
      BY <3>1, <3>2
    <3>4. i + 1 = j + 1 /\ b = c
      BY <3>3, <2>2
    <3> QED
      BY <3>1, <3>2, <3>4, <1>1
  <2>3. ASSUME NEW q \in later PROVE \E p \in Permits(rest) : f[p] = q
    <3>1. PICK i \in 1 .. Len(queue), b \in 1 .. PrimaryBytes : q = <<i, b>> /\ b <= queue[i].length
      BY <2>3 DEF Permits
    <3>2. i # 1
      BY <1>1, <1>2, <2>3, <3>1, Bounds DEF Column
    <3>3. i - 1 \in 1 .. Len(rest) /\ rest[i - 1] = queue[i]
      <4>1. i - 1 \in 1 .. Len(rest)
        BY <1>1, <3>2
      <4>2. rest[i - 1] = queue[(i - 1) + 1]
        BY <1>1, <4>1
      <4> QED
        BY <4>1, <4>2
    <3>4. <<i - 1, b>> \in Permits(rest)
      BY <3>1, <3>3 DEF Permits
    <3>5. f[<<i - 1, b>>] = <<i, b>>
      BY <3>4, <3>1
    <3> QED
      BY <3>1, <3>4, <3>5
  <2>4. f \in [Permits(rest) -> later]
    BY <2>1
  <2> HIDE DEF f, later
  <2> QED
    BY <2>2, <2>3, <2>4 DEF Bijection, Injection, Surjection, IsInjective
<1> HIDE DEF rest, column, f
<1>6. IsFiniteSet(later) /\ Cardinality(later) = Cardinality(Permits(rest))
  <2>1. IsFiniteSet(Permits(rest))
    BY <1>1, PermitsFinite
  <2>2. ExistsBijection(Permits(rest), later)
    BY <1>5 DEF ExistsBijection
  <2> QED
    BY <2>1, <2>2, FS_Bijection
<1>7. Cardinality(later) = Cardinality(Permits(queue)) - Cardinality(column)
  <2>1. IsFiniteSet(Permits(queue))
    BY PermitsFinite
  <2>2. Cardinality(later) = Cardinality(Permits(queue)) - Cardinality(Permits(queue) \cap column)
    BY <2>1, <1>3, FS_Difference
  <2>3. Permits(queue) \cap column = column
    BY <1>4
  <2> QED
    BY <2>2, <2>3
<1>8. /\ Charge(queue) = Cardinality(Permits(queue)) /\ Charge(queue) \in Nat
      /\ Charge(rest) = Cardinality(Permits(rest)) /\ Charge(rest) \in Nat
  BY <1>1, PermitsFinite
<1> QED
  BY <1>2, <1>3, <1>6, <1>7, <1>8 DEF rest

-----------------------------------------------------------------------------
(* Streams.                                                                *)

\* Receiving moves the oldest message of a queue to the end of what was received.
LEMMA MoveHead ==
  ASSUME NEW S, NEW got \in Seq(S), NEW queue \in Seq(S), queue # <<>>
  PROVE  /\ Head(queue) \in S /\ Tail(queue) \in Seq(S) /\ Len(Tail(queue)) = Len(queue) - 1
         /\ Append(got, Head(queue)) \in Seq(S)
         /\ Append(got, Head(queue)) \o Tail(queue) = got \o queue
<1>1. /\ Head(queue) \in S /\ Tail(queue) \in Seq(S) /\ Len(Tail(queue)) = Len(queue) - 1
      /\ Append(got, Head(queue)) \in Seq(S)
  OBVIOUS
<1> DEFINE a == Append(got, Head(queue)) \o Tail(queue)
           b == got \o queue
<1>2. a \in Seq(S) /\ b \in Seq(S) /\ Len(a) = Len(b)
  BY <1>1
<1>3. ASSUME NEW i \in 1 .. Len(a) PROVE a[i] = b[i]
  BY <1>1, <1>2
<1> QED
  BY <1>1, <1>2, <1>3

\* Queueing extends the stream at its end.
LEMMA MoveLast ==
  ASSUME NEW S, NEW got \in Seq(S), NEW queue \in Seq(S), NEW item \in S
  PROVE  got \o Append(queue, item) = Append(got \o queue, item)
OBVIOUS

\* What the streams carry of a Primary or an error.
Stamp(item) == [gen |-> item.gen, n |-> item.n]

\* The stamps of a queue change as the queue does.
LEMMA StampsOf ==
  ASSUME NEW S, NEW queue \in Seq(S), \A item \in S : Stamp(item) \in Items
  PROVE  /\ Stamps(queue) \in Seq(Items) /\ Len(Stamps(queue)) = Len(queue)
         /\ Stamps(queue) = <<>> <=> queue = <<>>
         /\ \A item \in S : Stamps(Append(queue, item)) = Append(Stamps(queue), Stamp(item))
         /\ queue # <<>> => /\ Head(Stamps(queue)) = Stamp(Head(queue))
                            /\ Stamps(Tail(queue)) = Tail(Stamps(queue))
<1>1. /\ Stamps(queue) \in Seq(Items) /\ Len(Stamps(queue)) = Len(queue)
      /\ \A i \in 1 .. Len(queue) : Stamps(queue)[i] = Stamp(queue[i])
  BY DEF Stamps, Stamp
<1>2. Stamps(queue) = <<>> <=> queue = <<>>
  BY <1>1
<1>3. ASSUME NEW item \in S
      PROVE  Stamps(Append(queue, item)) = Append(Stamps(queue), Stamp(item))
  BY DEF Stamps, Stamp
<1>4. ASSUME queue # <<>>
      PROVE  Head(Stamps(queue)) = Stamp(Head(queue)) /\ Stamps(Tail(queue)) = Tail(Stamps(queue))
  BY <1>4 DEF Stamps, Stamp
<1> QED
  BY <1>1, <1>2, <1>3, <1>4

\* Both kinds of message have a stamp.
LEMMA StampTypes ==
  /\ \A item \in Primaries : Stamp(item) \in Items
  /\ \A item \in Items : Stamp(item) = item /\ Stamp(item) \in Items
BY DEF Stamp, Primaries, Items

\* A stream without a gap: it starts with a first message, and every message may
\* follow the one before.
Whole(all) ==
  /\ all # <<>> => all[1].n = 1
  /\ \A i \in 2 .. Len(all) : MayFollow(all[i - 1], all[i])

\* The next message of the connection keeps a complete stream whole and complete.
LEMMA WholeAppend ==
  ASSUME NEW all \in Seq(Items), Whole(all), NEW g \in Nat, NEW n \in Nat, Complete(all, g, n),
         NEW item \in Items, item.gen = g, item.n = n + 1
  PROVE  Whole(Append(all, item)) /\ Complete(Append(all, item), g, n + 1)
<1> DEFINE more == Append(all, item)
<1>1. /\ more \in Seq(Items) /\ Len(more) = Len(all) + 1 /\ more[Len(all) + 1] = item
      /\ Len(all) \in Nat /\ more # <<>>
      /\ \A i \in 1 .. Len(all) : more[i] = all[i]
      /\ all = <<>> <=> Len(all) = 0
  OBVIOUS
<1>2. item = [gen |-> g, n |-> n + 1]
  BY DEF Items
<1> HIDE DEF more
<1>3. Complete(more, g, n + 1)
  BY <1>1, <1>2 DEF Complete
<1>4. more[1].n = 1
  <2>1. CASE all = <<>>
    BY <1>1, <2>1 DEF Complete
  <2>2. CASE all # <<>>
    BY <1>1, <2>2 DEF Whole
  <2> QED
    BY <2>1, <2>2
<1>5. ASSUME NEW i \in 2 .. Len(more) PROVE MayFollow(more[i - 1], more[i])
  <2>1. CASE i \in 2 .. Len(all)
    BY <1>1, <2>1 DEF Whole
  <2>2. CASE i = Len(all) + 1
    <3>1. all # <<>> /\ more[i - 1] = all[Len(all)] /\ more[i] = item /\ all[Len(all)] \in Items
      BY <1>1, <2>2
    <3>2. CASE n = 0
      BY <3>1, <3>2, <1>2 DEF Complete, MayFollow, Items
    <3>3. CASE n # 0
      BY <3>1, <3>3, <1>2 DEF Complete, MayFollow
    <3> QED
      BY <3>2, <3>3
  <2> QED
    BY <1>1, <2>1, <2>2
<1> QED
  BY <1>3, <1>4, <1>5 DEF Whole, more

-----------------------------------------------------------------------------
(* Types, phases of publish and the byte budget.                           *)

\* What each phase of the loop may find: nothing awaits publication outside publish,
\* a charged Primary exists exactly between its charge and its send, an open
\* connection is the only one that reads, an error accepted by a round still finds
\* the room the round saw, and connections to come have carried nothing.
Phased ==
  /\ held # None <=> pc = "send"
  /\ inbound # None => pc = "primaries"
  /\ report # None => pc \in {"primaries", "send", "errors"}
  /\ failed => pc = "errors"
  /\ pc = "round" => ~generation.closed
  /\ report # None /\ "errors" \in receivers => Len(errors) < ErrorCapacity
  /\ \A g \in 1 .. MaxGenerations :
       g > generation.id => inputs[g] = [primaries |-> 0, errors |-> 0]

Price(primary) == IF primary = None THEN 0 ELSE primary.length

Paid == bytes + Charge(primaries) + Price(held) + Price(taken) = PrimaryBytes

Base == TypeOK /\ Phased /\ Paid

\* A message costs no more than the budget.
LEMMA PriceType ==
  ASSUME NEW primary \in Primaries \cup {None}
  PROVE  Price(primary) \in 0 .. PrimaryBytes /\ (primary # None => Price(primary) = primary.length)
BY Bounds DEF Price, Primaries

\* Delivery::capacity is positive exactly while the receiver exists and has room.
LEMMA RoomMeans ==
  ASSUME TypeOK
  PROVE  /\ Room("primaries", primaries, PrimaryCapacity) = 0
              <=> ~("primaries" \in receivers /\ Len(primaries) < PrimaryCapacity)
         /\ Room("primaries", primaries, PrimaryCapacity) > 0
              <=> "primaries" \in receivers /\ Len(primaries) < PrimaryCapacity
         /\ Room("errors", errors, ErrorCapacity) = 0
              <=> ~("errors" \in receivers /\ Len(errors) < ErrorCapacity)
         /\ Room("errors", errors, ErrorCapacity) > 0
              <=> "errors" \in receivers /\ Len(errors) < ErrorCapacity
         /\ Room("diagnostics", records, DiagnosticCapacity) > 0
              <=> "diagnostics" \in receivers /\ Len(records) < DiagnosticCapacity
<1>1. /\ Len(primaries) \in 0 .. PrimaryCapacity /\ Len(errors) \in 0 .. ErrorCapacity
      /\ Len(records) \in 0 .. DiagnosticCapacity
  <2>1. primaries \in Seq(Primaries) /\ Len(primaries) <= PrimaryCapacity
    BY DEF TypeOK
  <2>2. errors \in Seq(Items) /\ Len(errors) <= ErrorCapacity
    BY DEF TypeOK
  <2>3. records \in Seq(0 .. (SequenceSpace - 1)) /\ Len(records) <= DiagnosticCapacity
    BY DEF TypeOK
  <2>4. Len(primaries) \in Nat /\ Len(errors) \in Nat /\ Len(records) \in Nat
    BY <2>1, <2>2, <2>3
  <2> QED
    BY <2>1, <2>2, <2>3, <2>4, Bounds
<1> QED
  BY <1>1, Bounds DEF Room

\* One more input of a stream of connection g.
LEMMA OneMoreInput ==
  ASSUME TypeOK, NEW g \in 1 .. MaxGenerations, NEW stream \in {"primaries", "errors"},
         inputs[g].primaries + inputs[g].errors < MaxInputs,
         inputs' = [inputs EXCEPT ![g] = [inputs[g] EXCEPT ![stream] = inputs[g][stream] + 1]]
  PROVE  /\ inputs[g][stream] + 1 \in 1 .. MaxInputs
         /\ inputs'[g][stream] = inputs[g][stream] + 1
         /\ \A other \in {"primaries", "errors"} \ {stream} : inputs'[g][other] = inputs[g][other]
         /\ inputs' \in [1 .. MaxGenerations -> [primaries : 0 .. MaxInputs, errors : 0 .. MaxInputs]]
         /\ \A h \in 1 .. MaxGenerations : h # g => inputs'[h] = inputs[h]
<1>1. /\ inputs \in [1 .. MaxGenerations -> [primaries : 0 .. MaxInputs, errors : 0 .. MaxInputs]]
      /\ inputs[g] \in [primaries : 0 .. MaxInputs, errors : 0 .. MaxInputs]
  BY DEF TypeOK
<1>2. inputs[g].primaries \in 0 .. MaxInputs /\ inputs[g].errors \in 0 .. MaxInputs
  BY <1>1
<1>3. inputs[g][stream] + 1 \in 1 .. MaxInputs
  BY <1>2, Bounds
<1> DEFINE new == [inputs[g] EXCEPT ![stream] = inputs[g][stream] + 1]
<1>4. /\ new \in [primaries : 0 .. MaxInputs, errors : 0 .. MaxInputs]
      /\ new[stream] = inputs[g][stream] + 1
      /\ \A other \in {"primaries", "errors"} \ {stream} : new[other] = inputs[g][other]
  BY <1>1, <1>2, <1>3, Bounds
<1>5. inputs' = [inputs EXCEPT ![g] = new]
  OBVIOUS
<1> HIDE DEF new
<1> QED
  BY <1>1, <1>3, <1>4, <1>5

\* Delivery::new establishes all of it.
LEMMA InitBase == Init => Base
<1> SUFFICES ASSUME Init PROVE Base
  OBVIOUS
<1>1. primaries = <<>> /\ errors = <<>> /\ records = <<>> /\ received = [s \in Streams |-> <<>>]
  BY DEF Init
<1>2. /\ primaries \in Seq(Primaries) /\ errors \in Seq(Items)
      /\ records \in Seq(0 .. (SequenceSpace - 1))
      /\ Len(primaries) = 0 /\ Len(errors) = 0 /\ Len(records) = 0
  BY <1>1
<1>3. /\ DOMAIN received = Streams /\ received["primaries"] = <<>>
      /\ received["errors"] = <<>> /\ received["diagnostics"] = <<>>
  BY <1>1 DEF Streams
<1>4. /\ received["primaries"] \in Seq(Items) /\ received["errors"] \in Seq(Items)
      /\ received["diagnostics"] \in Seq(0 .. (SequenceSpace - 1))
  BY <1>3
<1>5. /\ generation = [id |-> 1, closed |-> FALSE] /\ pc = "round" /\ inbound = None
      /\ report = None /\ failed = FALSE /\ held = None /\ bytes = PrimaryBytes
      /\ receivers = Streams /\ taken = None /\ sequence = 0 /\ dropped = 0 /\ attempts = 0
      /\ inputs = [g \in 1 .. MaxGenerations |-> [primaries |-> 0, errors |-> 0]]
  BY DEF Init
<1>6. inputs \in [1 .. MaxGenerations -> [primaries : 0 .. MaxInputs, errors : 0 .. MaxInputs]]
  BY <1>5, Bounds
<1>7. TypeOK
  <2>1. /\ sequence \in 0 .. (SequenceSpace - 1) /\ bytes \in 0 .. PrimaryBytes
        /\ dropped \in 0 .. DroppedLimit /\ attempts \in 0 .. MaxAttempts
        /\ generation \in [id : 1 .. MaxGenerations, closed : BOOLEAN]
    BY <1>5, Bounds
  <2>2. /\ Len(primaries) <= PrimaryCapacity /\ Len(errors) <= ErrorCapacity
        /\ Len(records) <= DiagnosticCapacity
    BY <1>2, Bounds
  <2>3. /\ pc \in {"round", "primaries", "send", "errors", "finish", "ended"}
        /\ inbound \in Primaries \cup {None} /\ held \in Primaries \cup {None}
        /\ taken \in Primaries \cup {None} /\ report \in Items \cup {None}
        /\ failed \in BOOLEAN /\ receivers \subseteq Streams
        /\ sequence \in 0 .. (SequenceSpace - 1) \cup {None}
    BY <1>5, <2>1
  <2> QED
    BY <1>2, <1>3, <1>4, <1>6, <2>1, <2>2, <2>3 DEF TypeOK
<1>8. Phased
  BY <1>5 DEF Phased
<1>9. Paid
  BY <1>1, <1>5, ChargeEmpty, Bounds DEF Paid, Price
<1> QED
  BY <1>7, <1>8, <1>9 DEF Base

\* The numbers the budget is made of.
LEMMA Prices ==
  ASSUME TypeOK
  PROVE  /\ bytes \in 0 .. PrimaryBytes /\ bytes \in Nat
         /\ primaries \in Seq(Primaries) /\ Charge(primaries) \in Nat
         /\ Price(held) \in Nat /\ Price(taken) \in Nat
         /\ \A x \in {inbound, held, taken} :
              x # None => x \in Primaries /\ x.length \in 1 .. PrimaryBytes /\ Price(x) = x.length
<1>1. bytes \in 0 .. PrimaryBytes /\ primaries \in Seq(Primaries)
  BY DEF TypeOK
<1>2. Charge(primaries) \in Nat
  BY <1>1, PermitsFinite
<1>3. /\ inbound \in Primaries \cup {None} /\ held \in Primaries \cup {None}
      /\ taken \in Primaries \cup {None}
  BY DEF TypeOK
<1>4. ASSUME NEW x \in {inbound, held, taken}, x # None
      PROVE  x \in Primaries /\ x.length \in 1 .. PrimaryBytes /\ Price(x) = x.length
  <2>1. x \in Primaries
    BY <1>3, <1>4
  <2> QED
    BY <1>4, <2>1, Bounds DEF Primaries, Price
<1>5. Price(held) \in 0 .. PrimaryBytes /\ Price(taken) \in 0 .. PrimaryBytes
  BY <1>3, PriceType
<1> QED
  BY <1>1, <1>2, <1>4, <1>5, Bounds

\* A round that carries a Primary.
LEMMA ReadPrimaryBase ==
  ASSUME Base, NEW length \in Lengths, ReadPrimary(length)
  PROVE  Base'
<1> DEFINE g == generation.id
           item == [gen |-> g, n |-> NextInput("primaries"), length |-> length]
<1>1. /\ pc = "round" /\ pc' = "primaries"
      /\ UNCHANGED <<failed, held, bytes, primaries, errors, taken, receivers, received, records,
                     sequence, dropped, attempts, report>>
      /\ inputs' = [inputs EXCEPT ![g].primaries = @ + 1]
      /\ inbound' = None \/ inbound' = item
      /\ \E full \in BOOLEAN : generation' = [generation EXCEPT !.closed = full]
      /\ inputs[g].primaries + inputs[g].errors < MaxInputs
  <2>1. (Room("primaries", primaries, PrimaryCapacity) = 0) \in BOOLEAN
    OBVIOUS
  <2> QED
    BY <2>1 DEF ReadPrimary, Round, Bounded, diagnostic
<1>2. g \in 1 .. MaxGenerations /\ generation'.id = g /\ generation' \in [id : 1 .. MaxGenerations, closed : BOOLEAN]
  BY <1>1 DEF Base, TypeOK
<1>3. /\ inputs[g].primaries + 1 \in 1 .. MaxInputs
      /\ inputs' \in [1 .. MaxGenerations -> [primaries : 0 .. MaxInputs, errors : 0 .. MaxInputs]]
      /\ \A h \in 1 .. MaxGenerations : h # g => inputs'[h] = inputs[h]
  <2>1. inputs' = [inputs EXCEPT ![g] = [inputs[g] EXCEPT !["primaries"] = inputs[g]["primaries"] + 1]]
    BY <1>1, <1>2 DEF Base, TypeOK
  <2> QED
    BY <1>1, <1>2, <2>1, OneMoreInput DEF Base
<1>4. item \in Primaries
  BY <1>2, <1>3 DEF Primaries, NextInput
<1> HIDE DEF item, g
<1>7. TypeOK'
  BY <1>1, <1>2, <1>3, <1>4 DEF Base, TypeOK
<1>8. Phased'
  BY <1>1, <1>2, <1>3 DEF Base, Phased, TypeOK, g
<1>9. Paid'
  BY <1>1 DEF Base, Paid, Price, Charge
<1> QED
  BY <1>7, <1>8, <1>9 DEF Base

\* A round that carries a violation.
LEMMA ReadViolationBase ==
  ASSUME Base, ReadViolation
  PROVE  Base'
<1> DEFINE g == generation.id
           item == [gen |-> g, n |-> NextInput("errors")]
           full == Room("errors", errors, ErrorCapacity) = 0
<1>1. /\ pc = "round" /\ pc' = "primaries"
      /\ UNCHANGED <<failed, held, bytes, primaries, errors, taken, receivers, received, records,
                     sequence, dropped, attempts, inbound>>
      /\ inputs' = [inputs EXCEPT ![g].errors = @ + 1]
      /\ report' = IF full THEN None ELSE item
      /\ \E close \in BOOLEAN : generation' = [generation EXCEPT !.closed = close]
      /\ inputs[g].primaries + inputs[g].errors < MaxInputs
  <2>1. PICK fatal \in BOOLEAN : generation' = [generation EXCEPT !.closed = full \/ fatal]
    BY DEF ReadViolation
  <2>2. (full \/ fatal) \in BOOLEAN
    OBVIOUS
  <2>3. \E close \in BOOLEAN : generation' = [generation EXCEPT !.closed = close]
    BY <2>1, <2>2
  <2> QED
    BY <2>3 DEF ReadViolation, Round, Bounded, diagnostic
<1>2. g \in 1 .. MaxGenerations /\ generation'.id = g /\ generation' \in [id : 1 .. MaxGenerations, closed : BOOLEAN]
  BY <1>1 DEF Base, TypeOK
<1>3. /\ inputs[g].errors + 1 \in 1 .. MaxInputs
      /\ inputs' \in [1 .. MaxGenerations -> [primaries : 0 .. MaxInputs, errors : 0 .. MaxInputs]]
      /\ \A h \in 1 .. MaxGenerations : h # g => inputs'[h] = inputs[h]
  <2>1. inputs' = [inputs EXCEPT ![g] = [inputs[g] EXCEPT !["errors"] = inputs[g]["errors"] + 1]]
    BY <1>1, <1>2 DEF Base, TypeOK
  <2> QED
    BY <1>1, <1>2, <2>1, OneMoreInput DEF Base
<1>4. item \in Items
  BY <1>2, <1>3 DEF Items, NextInput
<1>5. ~full => "errors" \in receivers /\ Len(errors) < ErrorCapacity
  BY RoomMeans DEF Base
<1> HIDE DEF item, g, full
<1>7. TypeOK'
  BY <1>1, <1>2, <1>3, <1>4 DEF Base, TypeOK
<1>8. Phased'
  BY <1>1, <1>2, <1>3, <1>5 DEF Base, Phased, TypeOK, g
<1>9. Paid'
  BY <1>1 DEF Base, Paid, Price, Charge
<1> QED
  BY <1>7, <1>8, <1>9 DEF Base

\* A round that closes the connection.
LEMMA OtherCloseBase ==
  ASSUME Base, OtherClose
  PROVE  Base'
<1>1. /\ pc = "round" /\ pc' = "primaries"
      /\ UNCHANGED <<failed, held, bytes, primaries, errors, taken, receivers, received, records,
                     sequence, dropped, attempts, inbound, report, inputs>>
      /\ generation' = [generation EXCEPT !.closed = TRUE]
  BY DEF OtherClose, Round, diagnostic
<1>2. generation'.id = generation.id /\ generation' \in [id : 1 .. MaxGenerations, closed : BOOLEAN]
  BY <1>1 DEF Base, TypeOK
<1>7. TypeOK'
  BY <1>1, <1>2 DEF Base, TypeOK
<1>8. Phased'
  BY <1>1, <1>2 DEF Base, Phased
<1>9. Paid'
  BY <1>1 DEF Base, Paid, Price, Charge
<1> QED
  BY <1>7, <1>8, <1>9 DEF Base

\* The charge of Delivery::primary.
LEMMA ChargePrimaryBase ==
  ASSUME Base, ChargePrimary
  PROVE  Base'
<1>1. /\ pc = "primaries" /\ inbound' = None
      /\ UNCHANGED <<generation, report, primaries, errors, receivers, taken, inputs, received,
                     records, sequence, dropped, attempts>>
  BY DEF ChargePrimary, PublishLeaves, diagnostic
<1>2. held = None /\ ~failed
  BY <1>1 DEF Base, Phased
<1>5. bytes \in Int /\ (inbound # None => inbound.length \in Int)
  BY Prices, Bounds DEF Base
<1>3. CASE inbound = None \/ bytes < inbound.length
  <2>1. pc' = "errors" /\ failed' \in BOOLEAN /\ UNCHANGED <<held, bytes>>
    <3>1. failed \in BOOLEAN
      BY DEF Base, TypeOK
    <3>2. ~(inbound # None /\ bytes >= inbound.length)
      BY <1>3, <1>5
    <3> QED
      BY <3>1, <3>2 DEF ChargePrimary
  <2>7. TypeOK'
    BY <1>1, <2>1 DEF Base, TypeOK
  <2>8. Phased'
    BY <1>1, <1>2, <2>1 DEF Base, Phased
  <2>9. Paid'
    BY <1>1, <2>1 DEF Base, Paid, Price, Charge
  <2> QED
    BY <2>7, <2>8, <2>9 DEF Base
<1>4. CASE inbound # None /\ bytes >= inbound.length
  <2>1. inbound \in Primaries /\ inbound.length \in 1 .. PrimaryBytes /\ bytes \in 0 .. PrimaryBytes
    BY <1>4, Bounds DEF Base, TypeOK, Primaries
  <2>2. pc' = "send" /\ held' = inbound /\ bytes' = bytes - inbound.length /\ UNCHANGED failed
    BY <1>4, <2>1, Bounds DEF ChargePrimary
  <2>3. bytes' \in 0 .. PrimaryBytes
    BY <1>4, <2>1, <2>2, Bounds
  <2>7. TypeOK'
    BY <1>1, <2>1, <2>2, <2>3 DEF Base, TypeOK
  <2>8. Phased'
    BY <1>1, <1>2, <1>4, <2>2 DEF Base, Phased
  <2>9. Paid'
    <3>1. Charge(primaries) \in Nat /\ Charge(primaries)' = Charge(primaries)
      BY <1>1, PermitsFinite DEF Base, TypeOK, Charge
    <3>2. Price(taken) \in Nat /\ Price(taken)' = Price(taken)
      BY <1>1, Prices DEF Base, Price
    <3>3. Price(held) = 0 /\ Price(held)' = inbound.length
      BY <1>2, <1>4, <2>2 DEF Price
    <3> QED
      BY <1>1, <2>1, <2>2, <3>1, <3>2, <3>3, Bounds DEF Base, Paid
  <2> QED
    BY <2>7, <2>8, <2>9 DEF Base
<1> QED
  BY <1>3, <1>4, <1>5

\* The try_send of Delivery::primary, with the permit of a refused envelope.
LEMMA SendPrimaryBase ==
  ASSUME Base, SendPrimary
  PROVE  Base'
<1>1. /\ pc = "send" /\ held' = None
      /\ UNCHANGED <<generation, inbound, report, errors, receivers, taken, inputs, received,
                     records, sequence, dropped, attempts>>
  BY DEF SendPrimary, PublishLeaves, diagnostic
<1>2. held \in Primaries /\ held # None /\ held.length \in 1 .. PrimaryBytes /\ inbound = None /\ ~failed
  BY <1>1, Bounds DEF Base, Phased, TypeOK, Primaries
<1>3. /\ Charge(primaries) \in Nat /\ Price(taken) \in Nat /\ Price(taken)' = Price(taken)
      /\ Price(held) = held.length /\ Price(held)' = 0 /\ bytes \in 0 .. PrimaryBytes
      /\ primaries \in Seq(Primaries)
  <2>1. Price(taken)' = Price(taken) /\ Price(held)' = 0
    BY <1>1 DEF Price
  <2> QED
    BY <1>2, <2>1, Prices DEF Base
<1>4. CASE /\ Room("primaries", primaries, PrimaryCapacity) > 0
           /\ primaries' = Append(primaries, held) /\ pc' = "primaries" /\ UNCHANGED <<bytes, failed>>
  <2>1. primaries' \in Seq(Primaries) /\ Len(primaries') <= PrimaryCapacity
    <3>1. Len(primaries) < PrimaryCapacity
      BY <1>4, RoomMeans DEF Base
    <3> QED
      BY <1>2, <1>3, <1>4, <3>1, Bounds
  <2>7. TypeOK'
    BY <1>1, <1>4, <2>1 DEF Base, TypeOK
  <2>8. Phased'
    BY <1>1, <1>2, <1>4 DEF Base, Phased
  <2>9. Paid'
    <3>1. Charge(primaries)' = Charge(primaries) + held.length
      BY <1>2, <1>3, <1>4, ChargeAppend DEF Charge
    <3> QED
      BY <1>1, <1>2, <1>3, <1>4, <3>1, Bounds DEF Base, Paid
  <2> QED
    BY <2>7, <2>8, <2>9 DEF Base
<1>5. CASE /\ Room("primaries", primaries, PrimaryCapacity) = 0 /\ bytes' = bytes + RefusedCharge
           /\ failed' = TRUE /\ pc' = "errors" /\ UNCHANGED primaries
  <2>1. Charge(primaries)' = Charge(primaries)
    BY <1>5 DEF Charge
  <2>2. bytes' = bytes + held.length
    BY <1>5 DEF RefusedCharge
  <2>9. Paid' /\ bytes' \in 0 .. PrimaryBytes
    BY <1>1, <1>2, <1>3, <2>1, <2>2, Bounds DEF Base, Paid
  <2>7. TypeOK'
    BY <1>1, <1>5, <2>9 DEF Base, TypeOK
  <2>8. Phased'
    BY <1>1, <1>2, <1>5 DEF Base, Phased
  <2> QED
    BY <2>7, <2>8, <2>9 DEF Base
<1> QED
  BY <1>4, <1>5 DEF SendPrimary

\* Delivery::error and the end of publish.
LEMMA DeliverErrorBase ==
  ASSUME Base, DeliverError
  PROVE  Base'
<1> DEFINE sent == report # None /\ Room("errors", errors, ErrorCapacity) > 0
<1>1. /\ pc = "errors" /\ report' = None /\ failed' = FALSE
      /\ pc' = IF generation'.closed THEN "finish" ELSE "round"
      /\ errors' = IF sent THEN Append(errors, report) ELSE errors
      /\ UNCHANGED <<inbound, held, bytes, primaries, receivers, taken, inputs, received,
                     records, sequence, dropped, attempts>>
  BY DEF DeliverError, PublishLeaves, diagnostic
<1>2. \E close \in BOOLEAN : generation' = [generation EXCEPT !.closed = close]
  <2>1. PICK failure : generation' = [generation EXCEPT !.closed = Settled(failure)]
    BY DEF DeliverError
  <2>2. Settled(failure) \in BOOLEAN
    BY DEF Settled
  <2> QED
    BY <2>1, <2>2
<1>3. generation'.id = generation.id /\ generation' \in [id : 1 .. MaxGenerations, closed : BOOLEAN]
  BY <1>2 DEF Base, TypeOK
<1>4. errors' \in Seq(Items) /\ Len(errors') <= ErrorCapacity
  <2>1. errors \in Seq(Items) /\ Len(errors) <= ErrorCapacity /\ report \in Items \cup {None}
    BY DEF Base, TypeOK
  <2>2. sent => Len(errors) < ErrorCapacity
    BY RoomMeans DEF Base
  <2> QED
    BY <1>1, <2>1, <2>2, Bounds
<1> HIDE DEF sent
<1>7. TypeOK'
  BY <1>1, <1>3, <1>4 DEF Base, TypeOK
<1>8. Phased'
  BY <1>1, <1>3 DEF Base, Phased, TypeOK
<1>9. Paid'
  BY <1>1 DEF Base, Paid, Price, Charge
<1> QED
  BY <1>7, <1>8, <1>9 DEF Base

\* DiagnosticPublisher::publish keeps the counters in their ranges.
LEMMA PublishType ==
  ASSUME TypeOK, PublishDiagnostic
  PROVE  /\ records' \in Seq(0 .. (SequenceSpace - 1)) /\ Len(records') <= DiagnosticCapacity
         /\ sequence' \in 0 .. (SequenceSpace - 1) \cup {None}
         /\ dropped' \in 0 .. DroppedLimit /\ attempts' \in 0 .. MaxAttempts
<1> DEFINE sent == sequence # None /\ Room("diagnostics", records, DiagnosticCapacity) > 0
<1>1. /\ attempts < MaxAttempts /\ attempts' = attempts + 1
      /\ records' = IF sent THEN Append(records, sequence) ELSE records
      /\ sequence' = IF sequence = None THEN None ELSE NextSequence(sent)
      /\ dropped' = IF sent THEN dropped ELSE OneMoreDropped
  BY DEF PublishDiagnostic
<1>2. /\ records \in Seq(0 .. (SequenceSpace - 1)) /\ Len(records) <= DiagnosticCapacity
      /\ sequence \in 0 .. (SequenceSpace - 1) \cup {None}
      /\ dropped \in 0 .. DroppedLimit /\ attempts \in 0 .. MaxAttempts
  BY DEF TypeOK
<1>3. sent => Len(records) < DiagnosticCapacity /\ sequence \in 0 .. (SequenceSpace - 1)
  BY <1>2, RoomMeans
<1> HIDE DEF sent
<1>4. records' \in Seq(0 .. (SequenceSpace - 1)) /\ Len(records') <= DiagnosticCapacity
  <2> DEFINE N == 0 .. (SequenceSpace - 1)
  <2> HIDE DEF N
  <2>1. records \in Seq(N) /\ Len(records) \in Nat
    BY <1>2 DEF N
  <2>2. CASE sent
    <3>1. records' = Append(records, sequence) /\ sequence \in N
      BY <1>1, <1>3, <2>2 DEF N
    <3>2. records' \in Seq(N) /\ Len(records') = Len(records) + 1
      BY <2>1, <3>1
    <3> QED
      BY <1>3, <2>1, <2>2, <3>2, Bounds DEF N
  <2>3. CASE ~sent
    BY <1>1, <1>2, <2>3
  <2> QED
    BY <2>2, <2>3
<1>5. sequence' \in 0 .. (SequenceSpace - 1) \cup {None}
  BY <1>1, <1>2, Bounds DEF NextSequence
<1>6. dropped' \in 0 .. DroppedLimit /\ attempts' \in 0 .. MaxAttempts
  BY <1>1, <1>2, Bounds DEF OneMoreDropped
<1> QED
  BY <1>4, <1>5, <1>6

\* A notice of the Observer.
LEMMA NoticeBase ==
  ASSUME Base, Notice
  PROVE  Base'
<1>1. UNCHANGED <<generation, pc, receivers, received, inbound, report, failed, held, bytes,
                  primaries, errors, taken, inputs>>
  BY DEF Notice, reliable
<1>7. TypeOK'
  BY <1>1, PublishType DEF Base, TypeOK, Notice
<1>8. Phased' /\ Paid'
  BY <1>1 DEF Base, Phased, Paid, Price, Charge
<1> QED
  BY <1>7, <1>8 DEF Base

\* The end of a connection, and the next one.
LEMMA FinishGenerationBase ==
  ASSUME Base, FinishGeneration
  PROVE  Base'
<1>1. /\ UNCHANGED <<receivers, received, inbound, report, failed, held, bytes, primaries, errors,
                     taken, inputs>>
      /\ pc = "finish" /\ PublishDiagnostic
  BY DEF FinishGeneration, reliable
<1>2. /\ pc' \in {"round", "ended"} /\ generation' \in [id : 1 .. MaxGenerations, closed : BOOLEAN]
      /\ generation'.id \in Nat /\ generation'.id >= generation.id
      /\ pc' = "round" => ~generation'.closed
  <2>1. /\ generation \in [id : 1 .. MaxGenerations, closed : BOOLEAN]
        /\ generation.id \in 1 .. MaxGenerations
    BY DEF Base, TypeOK
  <2>2. CASE generation.id < MaxGenerations
    <3>1. pc' = "round" /\ generation' = [id |-> generation.id + 1, closed |-> FALSE]
      BY <2>2 DEF FinishGeneration
    <3> QED
      BY <2>1, <2>2, <3>1, Bounds
  <2>3. CASE ~(generation.id < MaxGenerations)
    <3>1. pc' = "ended" /\ generation' = generation
      BY <2>3 DEF FinishGeneration
    <3> QED
      BY <2>1, <3>1, Bounds
  <2> QED
    BY <2>2, <2>3
<1>3. generation.id \in Nat
  BY Bounds DEF Base, TypeOK
<1>7. TypeOK'
  BY <1>1, <1>2, PublishType DEF Base, TypeOK
<1>8. Phased'
  BY <1>1, <1>2, <1>3 DEF Base, Phased
<1>9. Paid'
  BY <1>1 DEF Base, Paid, Price, Charge
<1> QED
  BY <1>7, <1>8, <1>9 DEF Base

\* recv of the Primary stream.
LEMMA RecvPrimaryBase ==
  ASSUME Base, RecvPrimary
  PROVE  Base'
<1>1. /\ UNCHANGED <<generation, pc, inbound, report, failed, held, inputs, attempts, sequence,
                     dropped, bytes, errors, records, receivers>>
      /\ primaries # <<>> /\ taken = None
      /\ taken' = Head(primaries) /\ primaries' = Tail(primaries)
      /\ received' = [received EXCEPT !["primaries"] = Append(@, Stamp(taken'))]
  BY DEF RecvPrimary, RuntimeLeaves, Got, Stamp
<1>2. /\ Head(primaries) \in Primaries /\ Tail(primaries) \in Seq(Primaries)
      /\ Len(Tail(primaries)) = Len(primaries) - 1 /\ Len(primaries) \in Nat
      /\ Len(primaries) <= PrimaryCapacity
  BY <1>1 DEF Base, TypeOK
<1>3. /\ DOMAIN received = Streams /\ "primaries" \in Streams
      /\ received["primaries"] \in Seq(Items) /\ Stamp(taken') \in Items
  BY <1>1, <1>2, StampTypes DEF Base, TypeOK, Streams
<1>4. /\ DOMAIN received' = Streams /\ received'["primaries"] \in Seq(Items)
      /\ received'["errors"] = received["errors"]
      /\ received'["diagnostics"] = received["diagnostics"]
  BY <1>1, <1>3
<1>5. Len(primaries') <= PrimaryCapacity /\ primaries' \in Seq(Primaries)
  BY <1>1, <1>2, Bounds
<1>6. taken' \in Primaries \cup {None}
  BY <1>1, <1>2
<1>7. TypeOK'
  BY <1>1, <1>4, <1>5, <1>6 DEF Base, TypeOK
<1>8. Phased'
  BY <1>1 DEF Base, Phased
<1>9. Paid'
  <2>1. Charge(primaries) = Head(primaries).length + Charge(primaries)'
    BY <1>1, ChargeTail, Prices DEF Base, Charge
  <2>2. Price(taken) = 0 /\ Price(taken)' = Head(primaries).length /\ Price(held)' = Price(held)
    BY <1>1, <1>2, Nothing DEF Price
  <2>3. Charge(primaries)' \in Nat /\ Head(primaries).length \in Nat
    <3>1. Charge(Tail(primaries)) \in Nat
      BY <1>2, PermitsFinite
    <3>2. Charge(primaries)' = Charge(Tail(primaries))
      BY <1>1 DEF Charge
    <3> QED
      BY <1>2, <3>1, <3>2, Bounds DEF Primaries
  <2> QED
    BY <1>1, <2>1, <2>2, <2>3, Prices, Bounds DEF Base, Paid
<1> QED
  BY <1>7, <1>8, <1>9 DEF Base

\* The envelope is dropped, its permit with it.
LEMMA ReturnChargeBase ==
  ASSUME Base, ReturnCharge
  PROVE  Base'
<1>1. /\ UNCHANGED <<generation, pc, inbound, report, failed, held, inputs, attempts, sequence,
                     dropped, primaries, errors, records, receivers, received>>
      /\ taken # None /\ taken' = None /\ bytes' = bytes + taken.length
  BY DEF ReturnCharge, RuntimeLeaves
<1>2. Price(taken) = taken.length /\ Price(taken)' = 0 /\ Price(held)' = Price(held)
      /\ taken.length \in Nat /\ Charge(primaries)' = Charge(primaries)
  BY <1>1, Prices DEF Base, Price, Charge
<1>9. Paid' /\ bytes' \in 0 .. PrimaryBytes
  BY <1>1, <1>2, Prices, Bounds DEF Base, Paid
<1>7. TypeOK'
  BY <1>1, <1>9 DEF Base, TypeOK
<1>8. Phased'
  BY <1>1 DEF Base, Phased
<1> QED
  BY <1>7, <1>8, <1>9 DEF Base

\* recv of the error stream.
LEMMA RecvErrorBase ==
  ASSUME Base, RecvError
  PROVE  Base'
<1>1. /\ UNCHANGED <<generation, pc, inbound, report, failed, held, inputs, attempts, sequence,
                     dropped, bytes, primaries, records, receivers, taken>>
      /\ errors # <<>> /\ errors' = Tail(errors)
      /\ received' = [received EXCEPT !["errors"] = Append(@, Head(errors))]
  BY DEF RecvError, RuntimeLeaves, Got
<1>2. /\ Head(errors) \in Items /\ Tail(errors) \in Seq(Items)
      /\ Len(Tail(errors)) = Len(errors) - 1 /\ Len(errors) \in Nat
      /\ Len(errors) <= ErrorCapacity
  BY <1>1 DEF Base, TypeOK
<1>3. DOMAIN received = Streams /\ "errors" \in Streams /\ received["errors"] \in Seq(Items)
  BY DEF Base, TypeOK, Streams
<1>4. /\ DOMAIN received' = Streams /\ received'["errors"] \in Seq(Items)
      /\ received'["primaries"] = received["primaries"]
      /\ received'["diagnostics"] = received["diagnostics"]
  BY <1>1, <1>2, <1>3
<1>5. Len(errors') <= ErrorCapacity /\ errors' \in Seq(Items) /\ Len(errors') < Len(errors)
  BY <1>1, <1>2, Bounds
<1>7. TypeOK'
  BY <1>1, <1>4, <1>5 DEF Base, TypeOK
<1>8. Phased'
  BY <1>1, <1>2, <1>5, Bounds DEF Base, Phased
<1>9. Paid'
  BY <1>1 DEF Base, Paid, Price, Charge
<1> QED
  BY <1>7, <1>8, <1>9 DEF Base

\* recv of the diagnostic stream.
LEMMA RecvDiagnosticBase ==
  ASSUME Base, RecvDiagnostic
  PROVE  Base'
<1> DEFINE N == 0 .. (SequenceSpace - 1)
<1> HIDE DEF N
<1>1. /\ UNCHANGED <<generation, pc, inbound, report, failed, held, inputs, attempts, sequence,
                     dropped, bytes, primaries, errors, receivers, taken>>
      /\ records # <<>> /\ records' = Tail(records)
      /\ received' = [received EXCEPT !["diagnostics"] = Append(@, Head(records))]
  BY DEF RecvDiagnostic, RuntimeLeaves, Got
<1>2. /\ Head(records) \in N /\ Tail(records) \in Seq(N)
      /\ Len(Tail(records)) = Len(records) - 1 /\ Len(records) \in Nat
      /\ Len(records) <= DiagnosticCapacity
  <2>1. records \in Seq(N) /\ Len(records) <= DiagnosticCapacity
    BY DEF Base, TypeOK, N
  <2> QED
    BY <1>1, <2>1
<1>3. DOMAIN received = Streams /\ "diagnostics" \in Streams /\ received["diagnostics"] \in Seq(N)
  BY DEF Base, TypeOK, Streams, N
<1>4. /\ DOMAIN received' = Streams /\ received'["diagnostics"] \in Seq(N)
      /\ received'["primaries"] = received["primaries"]
      /\ received'["errors"] = received["errors"]
  BY <1>1, <1>2, <1>3
<1>5. Len(records') <= DiagnosticCapacity /\ records' \in Seq(N)
  BY <1>1, <1>2, Bounds
<1>7. TypeOK'
  BY <1>1, <1>4, <1>5 DEF Base, TypeOK, N
<1>8. Phased' /\ Paid'
  BY <1>1 DEF Base, Phased, Paid, Price, Charge
<1> QED
  BY <1>7, <1>8 DEF Base

\* Dropping a receiver returns the permits of what was queued.
LEMMA DropReceiverBase ==
  ASSUME Base, NEW stream \in Streams, DropReceiver(stream)
  PROVE  Base'
<1>1. /\ UNCHANGED <<generation, pc, inbound, report, failed, held, inputs, attempts, sequence,
                     dropped, taken, received>>
      /\ receivers' = receivers \ {stream}
      /\ primaries' = IF stream = "primaries" THEN <<>> ELSE primaries
      /\ bytes' = IF stream = "primaries" THEN bytes + Charge(primaries) ELSE bytes
      /\ errors' = IF stream = "errors" THEN <<>> ELSE errors
      /\ records' = IF stream = "diagnostics" THEN <<>> ELSE records
  BY DEF DropReceiver, RuntimeLeaves
<1>2. Price(taken)' = Price(taken) /\ Price(held)' = Price(held)
  BY <1>1 DEF Price
<1>3. Charge(primaries)' = IF stream = "primaries" THEN 0 ELSE Charge(primaries)
  BY <1>1, ChargeEmpty DEF Charge
<1>9. Paid' /\ bytes' \in 0 .. PrimaryBytes
  BY <1>1, <1>2, <1>3, Prices, Bounds DEF Base, Paid
<1>4. /\ primaries' \in Seq(Primaries) /\ Len(primaries') <= PrimaryCapacity
      /\ errors' \in Seq(Items) /\ Len(errors') <= ErrorCapacity
  <2>1. /\ primaries \in Seq(Primaries) /\ Len(primaries) <= PrimaryCapacity
        /\ errors \in Seq(Items) /\ Len(errors) <= ErrorCapacity
    BY DEF Base, TypeOK
  <2>2. <<>> \in Seq(Primaries) /\ <<>> \in Seq(Items) /\ Len(<<>>) = 0
    OBVIOUS
  <2> QED
    BY <1>1, <2>1, <2>2, Bounds
<1>5. records' \in Seq(0 .. (SequenceSpace - 1)) /\ Len(records') <= DiagnosticCapacity
  <2> DEFINE N == 0 .. (SequenceSpace - 1)
  <2>1. records \in Seq(N) /\ Len(records) <= DiagnosticCapacity
    BY DEF Base, TypeOK
  <2> HIDE DEF N
  <2>2. <<>> \in Seq(N) /\ Len(<<>>) = 0
    OBVIOUS
  <2>3. records' \in Seq(N) /\ Len(records') <= DiagnosticCapacity
    BY <1>1, <2>1, <2>2, Bounds
  <2> QED
    BY <2>3 DEF N
<1>7. TypeOK'
  BY <1>1, <1>4, <1>5, <1>9 DEF Base, TypeOK
<1>8. Phased'
  BY <1>1 DEF Base, Phased
<1> QED
  BY <1>7, <1>8, <1>9 DEF Base

\* Every step keeps types, phases and budget.
LEMMA BaseKept ==
  ASSUME Base, [Next]_vars
  PROVE  Base'
<1>1. CASE UNCHANGED vars
  BY <1>1 DEF vars, Base, TypeOK, Phased, Paid, Price, Charge
<1> QED
  BY <1>1, ReadPrimaryBase, ReadViolationBase, OtherCloseBase, ChargePrimaryBase, SendPrimaryBase,
     DeliverErrorBase, NoticeBase, FinishGenerationBase, RecvPrimaryBase, ReturnChargeBase,
     RecvErrorBase, RecvDiagnosticBase, DropReceiverBase DEF Next

-----------------------------------------------------------------------------
(* No silent loss.                                                         *)

\* A stream that has carried all on behalf of a connection g with n inputs, of which
\* item still awaits publication: unless the connection is lost, nothing else is
\* missing.
Good(all, g, n, item, lost) ==
  /\ Whole(all)
  /\ all # <<>> => all[Len(all)].gen <= g
  /\ item # None => item.gen = g /\ item.n = n /\ Complete(all, g, n - 1)
  /\ item = None /\ ~lost => Complete(all, g, n)

\* The message of a stream that the runtime still has in hand.
Awaited(stream) ==
  IF stream = "primaries" THEN IF held # None THEN held ELSE inbound ELSE report

Kept(stream) ==
  stream \in receivers =>
    Good(Carried(stream), generation.id, inputs[generation.id][stream], Awaited(stream),
         generation.closed \/ failed)

Messages == {"primaries", "errors"}

DeliveryInv == Base /\ Kept("primaries") /\ Kept("errors")

\* A round reads one input more: it awaits publication, or the connection closes.
LEMMA GoodRead ==
  ASSUME NEW all, NEW g, NEW n \in Nat, Good(all, g, n, None, FALSE), NEW item, NEW lost \in BOOLEAN,
         item = None => lost, item # None => item.gen = g /\ item.n = n + 1
  PROVE  Good(all, g, n + 1, item, lost)
<1>1. (n + 1) - 1 = n
  OBVIOUS
<1> QED
  BY <1>1 DEF Good

\* A delivery that fails costs the connection.
LEMMA GoodLost ==
  ASSUME NEW all, NEW g, NEW n, NEW item, NEW lost, Good(all, g, n, item, lost)
  PROVE  Good(all, g, n, None, TRUE)
BY DEF Good

\* Losing the connection excuses nothing that was there before.
LEMMA GoodWeaker ==
  ASSUME NEW all, NEW g, NEW n, NEW item, NEW lost, Good(all, g, n, item, lost), NEW worse \in BOOLEAN,
         lost => worse
  PROVE  Good(all, g, n, item, worse)
BY DEF Good

\* Publication takes the message that was awaited.
LEMMA GoodSent ==
  ASSUME NEW all \in Seq(Items), NEW g \in Nat, NEW n \in Nat \ {0}, NEW item, item # None,
         NEW lost, Good(all, g, n, item, lost), Stamp(item) \in Items, NEW later \in BOOLEAN
  PROVE  Good(Append(all, Stamp(item)), g, n, None, later)
<1>1. Whole(all) /\ Complete(all, g, n - 1) /\ item.gen = g /\ item.n = n
  BY DEF Good
<1>2. Stamp(item).gen = g /\ Stamp(item).n = (n - 1) + 1 /\ n - 1 \in Nat /\ (n - 1) + 1 = n
  BY <1>1 DEF Stamp
<1> DEFINE more == Append(all, Stamp(item))
<1>3. Whole(more) /\ Complete(more, g, n)
  BY <1>1, <1>2, WholeAppend
<1>4. more[Len(more)].gen = g
  BY <1>3 DEF Complete
<1> HIDE DEF more
<1>5. Good(more, g, n, None, later)
  BY <1>3, <1>4 DEF Good
<1> QED
  BY <1>5 DEF more

\* The next connection starts with nothing to deliver.
LEMMA GoodNext ==
  ASSUME NEW all \in Seq(Items), NEW g \in Nat, NEW n, NEW lost, Good(all, g, n, None, lost)
  PROVE  Good(all, g + 1, 0, None, FALSE)
<1>1. all # <<>> => all[Len(all)].gen \in Nat
  <2>1. all # <<>> => all[Len(all)] \in Items
    OBVIOUS
  <2> QED
    BY <2>1, Bounds DEF Items
<1> QED
  BY <1>1 DEF Good, Complete

\* Both moves, for the items of the reliable streams.
LEMMA ItemsMove ==
  /\ \A got, queue \in Seq(Items) : \A item \in Items :
       got \o Append(queue, item) = Append(got \o queue, item)
  /\ \A got, queue \in Seq(Items) :
       queue # <<>> => Append(got, Head(queue)) \o Tail(queue) = got \o queue
<1>1. ASSUME NEW got \in Seq(Items), NEW queue \in Seq(Items), NEW item \in Items
      PROVE  got \o Append(queue, item) = Append(got \o queue, item)
  BY MoveLast
<1>2. ASSUME NEW got \in Seq(Items), NEW queue \in Seq(Items), queue # <<>>
      PROVE  Append(got, Head(queue)) \o Tail(queue) = got \o queue
  BY <1>2, MoveHead
<1> QED
  BY <1>1, <1>2

\* Errors are their own stamps.
LEMMA ErrorStamps ==
  ASSUME NEW queue \in Seq(Items)
  PROVE  Stamps(queue) = queue
<1>1. Stamps(queue) \in Seq(Items) /\ Len(Stamps(queue)) = Len(queue)
  BY StampsOf, StampTypes
<1>2. ASSUME NEW i \in 1 .. Len(queue) PROVE Stamps(queue)[i] = queue[i]
  <2>1. Stamps(queue)[i] = Stamp(queue[i]) /\ queue[i] \in Items
    BY DEF Stamps, Stamp
  <2> QED
    BY <2>1, StampTypes
<1> QED
  BY <1>1, <1>2

\* A reliable stream is a sequence of stamps.
LEMMA CarriedType ==
  ASSUME TypeOK
  PROVE  /\ Carried("primaries") \in Seq(Items) /\ Carried("errors") \in Seq(Items)
         /\ Carried("primaries") = received["primaries"] \o Stamps(primaries)
         /\ Carried("errors") = received["errors"] \o errors
         /\ Stamps(primaries) \in Seq(Items)
<1>1. /\ primaries \in Seq(Primaries) /\ errors \in Seq(Items)
      /\ received["primaries"] \in Seq(Items) /\ received["errors"] \in Seq(Items)
  BY DEF TypeOK
<1>2. Stamps(primaries) \in Seq(Items)
  BY <1>1, StampsOf, StampTypes
<1>3. Stamps(errors) = errors
  BY <1>1, ErrorStamps
<1>4. /\ Carried("primaries") = received["primaries"] \o Stamps(primaries)
      /\ Carried("errors") = received["errors"] \o Stamps(errors)
  BY DEF Carried
<1>5. /\ received["primaries"] \o Stamps(primaries) \in Seq(Items)
      /\ received["errors"] \o errors \in Seq(Items)
  BY <1>1, <1>2
<1> QED
  BY <1>2, <1>3, <1>4, <1>5

\* A stream nobody touches carries the same.
LEMMA CarriedSame ==
  /\ UNCHANGED <<primaries, received>> => Carried("primaries")' = Carried("primaries")
  /\ UNCHANGED <<errors, received>> => Carried("errors")' = Carried("errors")
BY DEF Carried, Stamps

\* What the current connection has carried so far is a number.
LEMMA InputsType ==
  ASSUME TypeOK
  PROVE  /\ generation.id \in 1 .. MaxGenerations /\ generation.id \in Nat
         /\ generation.closed \in BOOLEAN /\ failed \in BOOLEAN
         /\ inputs[generation.id]["primaries"] \in Nat /\ inputs[generation.id]["errors"] \in Nat
<1>1. generation.id \in 1 .. MaxGenerations /\ generation.closed \in BOOLEAN /\ failed \in BOOLEAN
  BY DEF TypeOK
<1>2. inputs[generation.id] \in [primaries : 0 .. MaxInputs, errors : 0 .. MaxInputs]
  BY <1>1 DEF TypeOK
<1>3. /\ inputs[generation.id]["primaries"] \in 0 .. MaxInputs
      /\ inputs[generation.id]["errors"] \in 0 .. MaxInputs
  BY <1>2
<1> QED
  BY <1>1, <1>3, Bounds

\* When a round starts nothing is in hand and nothing is lost.
LEMMA AtRound ==
  ASSUME Base, pc = "round"
  PROVE  /\ held = None /\ inbound = None /\ report = None /\ failed = FALSE
         /\ generation.closed = FALSE /\ Awaited("primaries") = None /\ Awaited("errors") = None
BY DEF Base, Phased, Awaited, TypeOK

\* A round that carries a Primary: it awaits publication or the connection closes.
LEMMA ReadPrimaryKept ==
  ASSUME DeliveryInv, NEW length \in Lengths, ReadPrimary(length)
  PROVE  Kept("primaries")' /\ Kept("errors")'
<1> DEFINE g == generation.id
           n == inputs[g]["primaries"]
           full == Room("primaries", primaries, PrimaryCapacity) = 0
           item == [gen |-> g, n |-> n + 1, length |-> length]
<1>1. /\ pc = "round" /\ UNCHANGED <<failed, held, primaries, errors, receivers, received, report>>
      /\ inputs' = [inputs EXCEPT ![g].primaries = @ + 1]
      /\ inbound' = IF full THEN None ELSE item
      /\ generation' = [generation EXCEPT !.closed = full]
  BY DEF ReadPrimary, Round, NextInput
<1>2. /\ generation'.id = g /\ generation'.closed = full /\ g \in 1 .. MaxGenerations /\ n \in Nat
      /\ inputs'[g]["primaries"] = n + 1 /\ inputs'[g]["errors"] = inputs[g]["errors"]
  BY <1>1, InputsType DEF DeliveryInv, Base, TypeOK
<1>3. item.gen = g /\ item.n = n + 1
  OBVIOUS
<1>4. full \in BOOLEAN
  OBVIOUS
<1>5. Carried("primaries")' = Carried("primaries") /\ Carried("errors")' = Carried("errors")
  BY <1>1, CarriedSame
<1>6. Awaited("primaries")' = inbound' /\ Awaited("errors")' = None
  BY <1>1, AtRound DEF DeliveryInv, Awaited
<1> HIDE DEF full, item, n
<1>7. ASSUME "primaries" \in receivers
      PROVE  Good(Carried("primaries"), g, n + 1, inbound', full)
  <2>1. Good(Carried("primaries"), g, n, None, FALSE)
    BY <1>1, <1>7, AtRound DEF DeliveryInv, Kept, n
  <2>2. (inbound' = None => full) /\ (inbound' # None => inbound'.gen = g /\ inbound'.n = n + 1)
    <3>1. CASE full
      BY <1>1, <3>1
    <3>2. CASE ~full
      <4>1. inputs'[g]["primaries"] \in 0 .. MaxInputs
        BY <1>2, ReadPrimaryBase DEF DeliveryInv, Base, TypeOK
      <4>2. n + 1 \in 1 .. MaxInputs
        BY <1>2, <4>1, Bounds
      <4>3. item \in Primaries
        BY <1>2, <4>2 DEF item, Primaries
      <4> QED
        BY <1>1, <1>3, <3>2, <4>3, Nothing
    <3> QED
      BY <3>1, <3>2
  <2> HIDE DEF g
  <2> QED
    BY <1>2, <1>4, <2>1, <2>2, GoodRead
<1>8. ASSUME "errors" \in receivers
      PROVE  Good(Carried("errors"), g, inputs[g]["errors"], None, full)
  <2>1. Good(Carried("errors"), g, inputs[g]["errors"], None, FALSE)
    BY <1>1, <1>8, AtRound DEF DeliveryInv, Kept
  <2> HIDE DEF g
  <2> QED
    BY <1>4, <2>1, GoodWeaker
<1>9. (generation.closed \/ failed)' = full
  BY <1>1, <1>2, <1>4, AtRound DEF DeliveryInv
<1> HIDE DEF g
<1> QED
  BY <1>1, <1>2, <1>5, <1>6, <1>7, <1>8, <1>9 DEF Kept

\* A round that carries a violation: it awaits publication or the connection closes.
LEMMA ReadViolationKept ==
  ASSUME DeliveryInv, ReadViolation
  PROVE  Kept("primaries")' /\ Kept("errors")'
<1> DEFINE g == generation.id
           n == inputs[g]["errors"]
           full == Room("errors", errors, ErrorCapacity) = 0
           item == [gen |-> g, n |-> n + 1]
<1>1. /\ pc = "round" /\ UNCHANGED <<failed, held, primaries, errors, receivers, received, inbound>>
      /\ inputs' = [inputs EXCEPT ![g].errors = @ + 1]
      /\ report' = IF full THEN None ELSE item
  BY DEF ReadViolation, Round, NextInput
<1>a. PICK fatal \in BOOLEAN : generation' = [generation EXCEPT !.closed = full \/ fatal]
  BY DEF ReadViolation
<1> DEFINE closed == full \/ fatal
<1>2. /\ generation'.id = g /\ generation'.closed = closed /\ g \in 1 .. MaxGenerations /\ n \in Nat
      /\ inputs'[g]["errors"] = n + 1 /\ inputs'[g]["primaries"] = inputs[g]["primaries"]
  BY <1>1, <1>a, InputsType DEF DeliveryInv, Base, TypeOK
<1>3. item.gen = g /\ item.n = n + 1
  OBVIOUS
<1>4. closed \in BOOLEAN /\ (full => closed)
  OBVIOUS
<1>5. Carried("primaries")' = Carried("primaries") /\ Carried("errors")' = Carried("errors")
  BY <1>1, CarriedSame
<1>6. Awaited("errors")' = report' /\ Awaited("primaries")' = None
  BY <1>1, AtRound DEF DeliveryInv, Awaited
<1> HIDE DEF full, item, n, closed
<1>7. ASSUME "errors" \in receivers
      PROVE  Good(Carried("errors"), g, n + 1, report', closed)
  <2>1. Good(Carried("errors"), g, n, None, FALSE)
    BY <1>1, <1>7, AtRound DEF DeliveryInv, Kept, n
  <2>2. (report' = None => closed) /\ (report' # None => report'.gen = g /\ report'.n = n + 1)
    <3>1. CASE full
      BY <1>1, <1>4, <3>1
    <3>2. CASE ~full
      <4>1. inputs'[g]["errors"] \in 0 .. MaxInputs
        BY <1>2, ReadViolationBase DEF DeliveryInv, Base, TypeOK
      <4>2. n + 1 \in 1 .. MaxInputs
        BY <1>2, <4>1, Bounds
      <4>3. item \in Items
        BY <1>2, <4>2 DEF item, Items
      <4> QED
        BY <1>1, <1>3, <3>2, <4>3, Nothing
    <3> QED
      BY <3>1, <3>2
  <2> HIDE DEF g
  <2> QED
    BY <1>2, <1>4, <2>1, <2>2, GoodRead
<1>8. ASSUME "primaries" \in receivers
      PROVE  Good(Carried("primaries"), g, inputs[g]["primaries"], None, closed)
  <2>1. Good(Carried("primaries"), g, inputs[g]["primaries"], None, FALSE)
    BY <1>1, <1>8, AtRound DEF DeliveryInv, Kept
  <2> HIDE DEF g
  <2> QED
    BY <1>4, <2>1, GoodWeaker
<1>9. (generation.closed \/ failed)' = closed
  BY <1>1, <1>2, <1>4, AtRound DEF DeliveryInv
<1> HIDE DEF g
<1> QED
  BY <1>1, <1>2, <1>5, <1>6, <1>7, <1>8, <1>9 DEF Kept

\* A stream keeps its place when nothing of it moves and no connection is reopened.
LEMMA StreamKept ==
  ASSUME NEW stream \in Messages, Kept(stream), Base,
         UNCHANGED <<receivers, inputs>>, generation'.id = generation.id,
         Carried(stream)' = Carried(stream), Awaited(stream)' = Awaited(stream),
         generation.closed \/ failed => (generation.closed \/ failed)',
         generation'.closed \in BOOLEAN, failed' \in BOOLEAN
  PROVE  Kept(stream)'
<1> DEFINE lost == generation.closed \/ failed
<1>1. lost' \in BOOLEAN
  OBVIOUS
<1> SUFFICES ASSUME stream \in receivers'
             PROVE  Good(Carried(stream)', generation'.id, inputs'[generation'.id][stream],
                         Awaited(stream)', lost')
  BY DEF Kept
<1>2. Good(Carried(stream), generation.id, inputs[generation.id][stream], Awaited(stream), lost)
  BY DEF Kept
<1>3. lost => lost'
  OBVIOUS
<1> HIDE DEF lost
<1> QED
  BY <1>1, <1>2, <1>3, GoodWeaker

\* A stream that gives up its message loses the connection.
LEMMA StreamLost ==
  ASSUME NEW stream \in Messages, Kept(stream), Base,
         UNCHANGED <<receivers, inputs>>, generation'.id = generation.id,
         Carried(stream)' = Carried(stream), Awaited(stream)' = None,
         (generation.closed \/ failed)' = TRUE
  PROVE  Kept(stream)'
<1> SUFFICES ASSUME stream \in receivers'
             PROVE  Good(Carried(stream)', generation'.id, inputs'[generation'.id][stream],
                         Awaited(stream)', TRUE)
  BY DEF Kept
<1>2. Good(Carried(stream), generation.id, inputs[generation.id][stream], Awaited(stream),
           generation.closed \/ failed)
  BY DEF Kept
<1> QED
  BY <1>2, GoodLost

\* A stream that publishes its message is complete up to it.
LEMMA StreamSent ==
  ASSUME NEW stream \in Messages, Kept(stream), Base,
         UNCHANGED <<receivers, inputs>>, generation'.id = generation.id,
         Awaited(stream) # None, Awaited(stream)' = None, Stamp(Awaited(stream)) \in Items,
         Carried(stream)' = Append(Carried(stream), Stamp(Awaited(stream))),
         generation'.closed \in BOOLEAN, failed' \in BOOLEAN
  PROVE  Kept(stream)'
<1> DEFINE lost == generation.closed \/ failed
<1>1. lost' \in BOOLEAN
  OBVIOUS
<1> SUFFICES ASSUME stream \in receivers'
             PROVE  Good(Carried(stream)', generation'.id, inputs'[generation'.id][stream],
                         Awaited(stream)', lost')
  BY DEF Kept
<1>2. Good(Carried(stream), generation.id, inputs[generation.id][stream], Awaited(stream), lost)
  BY DEF Kept
<1>3. Carried(stream) \in Seq(Items) /\ generation.id \in Nat
  BY CarriedType, InputsType DEF Messages, Base
<1>4. inputs[generation.id][stream] \in Nat \ {0}
  <2>1. inputs[generation.id][stream] \in Nat
    BY InputsType DEF Base, Messages
  <2>2. inputs[generation.id][stream] = Stamp(Awaited(stream)).n
    BY <1>2 DEF Good, Stamp
  <2> QED
    BY <2>1, <2>2, Bounds DEF Items
<1> HIDE DEF lost
<1> QED
  BY <1>1, <1>2, <1>3, <1>4, GoodSent

\* A round that closes the connection.
LEMMA OtherCloseKept ==
  ASSUME DeliveryInv, OtherClose
  PROVE  Kept("primaries")' /\ Kept("errors")'
<1>1. /\ UNCHANGED <<failed, held, primaries, errors, receivers, received, inbound, report, inputs>>
      /\ generation' = [generation EXCEPT !.closed = TRUE]
  BY DEF OtherClose, Round
<1>2. generation'.id = generation.id /\ generation'.closed = TRUE /\ failed' \in BOOLEAN
  BY <1>1 DEF DeliveryInv, Base, TypeOK
<1>3. UNCHANGED <<Awaited("primaries"), Awaited("errors"), Carried("primaries"), Carried("errors")>>
  BY <1>1, CarriedSame DEF Awaited
<1>4. Kept("primaries")'
  BY <1>1, <1>2, <1>3, StreamKept DEF DeliveryInv, Messages
<1>5. Kept("errors")'
  BY <1>1, <1>2, <1>3, StreamKept DEF DeliveryInv, Messages
<1> QED
  BY <1>4, <1>5

\* The charge of a Primary: it is held for its send, or lost with the connection.
LEMMA ChargePrimaryKept ==
  ASSUME DeliveryInv, ChargePrimary
  PROVE  Kept("primaries")' /\ Kept("errors")'
<1>1. /\ pc = "primaries" /\ inbound' = None
      /\ UNCHANGED <<generation, report, primaries, errors, receivers, inputs, received>>
  BY DEF ChargePrimary, PublishLeaves
<1>2. held = None /\ failed = FALSE /\ generation.closed \in BOOLEAN
  BY <1>1, InputsType DEF DeliveryInv, Base, Phased
<1>3. \/ inbound = None /\ UNCHANGED <<failed, held>>
      \/ inbound # None /\ failed' = TRUE /\ UNCHANGED held
      \/ inbound # None /\ held' = inbound /\ UNCHANGED failed
  BY DEF ChargePrimary
<1>4. UNCHANGED <<Awaited("errors"), Carried("primaries"), Carried("errors")>>
  BY <1>1, CarriedSame DEF Awaited
<1>5. Kept("errors")'
  BY <1>1, <1>2, <1>3, <1>4, StreamKept DEF DeliveryInv, Messages
<1>6. Kept("primaries")'
  <2>1. CASE inbound # None /\ failed' = TRUE /\ UNCHANGED held
    <3>1. Awaited("primaries")' = None
      BY <1>1, <1>2, <2>1 DEF Awaited
    <3> QED
      BY <1>1, <1>2, <1>4, <2>1, <3>1, StreamLost DEF DeliveryInv, Messages
  <2>2. CASE ~(inbound # None /\ failed' = TRUE /\ UNCHANGED held)
    <3>1. Awaited("primaries")' = Awaited("primaries") /\ UNCHANGED failed
      BY <1>1, <1>2, <1>3, <2>2 DEF Awaited
    <3> QED
      BY <1>1, <1>2, <1>4, <3>1, StreamKept DEF DeliveryInv, Messages
  <2> QED
    BY <2>1, <2>2
<1> QED
  BY <1>5, <1>6

\* The send of a Primary: it is published, or lost with the connection.
LEMMA SendPrimaryKept ==
  ASSUME DeliveryInv, SendPrimary
  PROVE  Kept("primaries")' /\ Kept("errors")'
<1>1. /\ pc = "send" /\ held' = None
      /\ UNCHANGED <<generation, inbound, report, errors, receivers, inputs, received>>
  BY DEF SendPrimary, PublishLeaves
<1>2. held \in Primaries /\ held # None /\ inbound = None /\ failed = FALSE /\ generation.closed \in BOOLEAN
  BY <1>1, InputsType, Prices DEF DeliveryInv, Base, Phased
<1>3. \/ primaries' = Append(primaries, held) /\ UNCHANGED failed
      \/ failed' = TRUE /\ UNCHANGED primaries
  BY DEF SendPrimary
<1>4. UNCHANGED <<Awaited("errors"), Carried("errors")>>
  BY <1>1, CarriedSame DEF Awaited
<1>5. Kept("errors")'
  BY <1>1, <1>2, <1>3, <1>4, StreamKept DEF DeliveryInv, Messages
<1>7. Awaited("primaries") = held /\ Awaited("primaries")' = None
  BY <1>1, <1>2 DEF Awaited
<1>6. Kept("primaries")'
  <2>1. CASE failed' = TRUE /\ UNCHANGED primaries
    <3>1. Carried("primaries")' = Carried("primaries")
      BY <1>1, <2>1, CarriedSame
    <3> QED
      BY <1>1, <1>7, <2>1, <3>1, StreamLost DEF DeliveryInv, Messages
  <2>2. CASE primaries' = Append(primaries, held) /\ UNCHANGED failed
    <3>1. Stamp(held) \in Items
      BY <1>2, StampTypes
    <3>2. Carried("primaries")' = Append(Carried("primaries"), Stamp(held))
      <4>1. received["primaries"] \in Seq(Items) /\ primaries \in Seq(Primaries)
        BY DEF DeliveryInv, Base, TypeOK
      <4>2. Stamps(primaries') = Append(Stamps(primaries), Stamp(held)) /\ Stamps(primaries) \in Seq(Items)
        BY <1>2, <2>2, <4>1, StampsOf, StampTypes
      <4>3. Carried("primaries")' = received["primaries"] \o Stamps(primaries')
        BY <1>1 DEF Carried, Stamps
      <4>4. Carried("primaries") = received["primaries"] \o Stamps(primaries)
        BY DEF Carried
      <4>5. received["primaries"] \o Append(Stamps(primaries), Stamp(held))
              = Append(received["primaries"] \o Stamps(primaries), Stamp(held))
        BY <3>1, <4>1, <4>2, ItemsMove
      <4> QED
        BY <4>2, <4>3, <4>4, <4>5
    <3> QED
      BY <1>1, <1>2, <1>7, <2>2, <3>1, <3>2, StreamSent DEF DeliveryInv, Messages
  <2> QED
    BY <1>3, <2>1, <2>2
<1> QED
  BY <1>5, <1>6

\* The end of publish: an error is published, or lost with the connection, and no
\* failed delivery leaves the connection open.
LEMMA DeliverErrorKept ==
  ASSUME DeliveryInv, DeliverError
  PROVE  Kept("primaries")' /\ Kept("errors")'
<1> DEFINE sent    == report # None /\ Room("errors", errors, ErrorCapacity) > 0
           failure == failed \/ (report # None /\ ~sent)
<1>1. /\ pc = "errors" /\ report' = None /\ failed' = FALSE
      /\ errors' = IF sent THEN Append(errors, report) ELSE errors
      /\ generation' = [generation EXCEPT !.closed = Settled(failure)]
      /\ UNCHANGED <<inbound, held, primaries, receivers, inputs, received>>
  BY DEF DeliverError, PublishLeaves
<1>2. /\ generation'.id = generation.id /\ generation'.closed = (generation.closed \/ failure)
      /\ generation'.closed \in BOOLEAN /\ failed' \in BOOLEAN
      /\ generation.closed \in BOOLEAN /\ failed \in BOOLEAN
  BY <1>1, InputsType DEF Settled, DeliveryInv, Base, TypeOK
<1>3. UNCHANGED <<Awaited("primaries"), Carried("primaries")>>
  BY <1>1, CarriedSame DEF Awaited
<1>4. generation.closed \/ failed => (generation.closed \/ failed)'
  BY <1>2
<1>5. Kept("primaries")'
  BY <1>1, <1>2, <1>3, <1>4, StreamKept DEF DeliveryInv, Messages
<1>6. Awaited("errors") = report /\ Awaited("errors")' = None
  BY <1>1 DEF Awaited
<1>7. Kept("errors")'
  <2>1. CASE report = None
    <3>1. Carried("errors")' = Carried("errors")
      BY <1>1, <2>1, CarriedSame
    <3> QED
      BY <1>1, <1>2, <1>4, <1>6, <2>1, <3>1, StreamKept DEF DeliveryInv, Messages
  <2>2. CASE report # None /\ ~sent
    <3>1. Carried("errors")' = Carried("errors")
      BY <1>1, <2>2, CarriedSame
    <3>2. (generation.closed \/ failed)' = TRUE
      BY <1>2, <2>2
    <3> QED
      BY <1>1, <1>2, <1>6, <3>1, <3>2, StreamLost DEF DeliveryInv, Messages
  <2>3. CASE sent
    <3>1. report \in Items /\ Stamp(report) = report
      BY <2>3, StampTypes DEF DeliveryInv, Base, TypeOK
    <3>2. errors' = Append(errors, report) /\ received' = received
      BY <1>1, <2>3
    <3>3. received["errors"] \in Seq(Items) /\ errors \in Seq(Items)
      BY DEF DeliveryInv, Base, TypeOK
    <3>4. Carried("errors") = received["errors"] \o errors
      BY CarriedType DEF DeliveryInv, Base
    <3>5. Carried("errors")' = received["errors"] \o Append(errors, report)
      <4>1. errors' \in Seq(Items)
        BY DeliverErrorBase DEF DeliveryInv, Base, TypeOK
      <4>2. Carried("errors")' = received'["errors"] \o errors'
        BY <4>1, ErrorStamps DEF Carried, Stamps
      <4> QED
        BY <3>2, <4>2
    <3>6. received["errors"] \o Append(errors, report) = Append(received["errors"] \o errors, report)
      BY <3>1, <3>3, ItemsMove
    <3>7. Carried("errors")' = Append(Carried("errors"), Stamp(report))
      BY <3>1, <3>4, <3>5, <3>6
    <3> HIDE DEF failure
    <3> QED
      BY <1>1, <1>2, <1>6, <2>3, <3>1, <3>7, StreamSent DEF DeliveryInv, Messages
  <2> QED
    BY <2>1, <2>2, <2>3
<1> QED
  BY <1>5, <1>7

\* The next connection starts with nothing to deliver.
LEMMA FinishGenerationKept ==
  ASSUME DeliveryInv, FinishGeneration
  PROVE  Kept("primaries")' /\ Kept("errors")'
<1>1. /\ UNCHANGED <<receivers, received, inbound, report, failed, held, primaries, errors, inputs>>
      /\ pc = "finish"
  BY DEF FinishGeneration, reliable
<1>2. /\ held = None /\ inbound = None /\ report = None /\ failed = FALSE
      /\ Awaited("primaries") = None /\ Awaited("errors") = None
  BY <1>1 DEF DeliveryInv, Base, Phased, Awaited, TypeOK
<1>3. UNCHANGED <<Awaited("primaries"), Awaited("errors"), Carried("primaries"), Carried("errors")>>
  BY <1>1, CarriedSame DEF Awaited
<1>4. CASE generation.id < MaxGenerations
  <2>1. generation' = [id |-> generation.id + 1, closed |-> FALSE]
    BY <1>4 DEF FinishGeneration
  <2>2. generation'.id = generation.id + 1 /\ generation'.closed = FALSE
    BY <2>1
  <2>3. inputs'[generation'.id] = [primaries |-> 0, errors |-> 0]
    <3>1. generation.id + 1 \in 1 .. MaxGenerations /\ generation.id + 1 > generation.id
      BY <1>4, InputsType, Bounds DEF DeliveryInv, Base
    <3> QED
      BY <1>1, <2>2, <3>1 DEF DeliveryInv, Base, Phased
  <2>4. ASSUME NEW stream \in Messages, Kept(stream), Awaited(stream) = None,
               UNCHANGED <<Awaited(stream), Carried(stream)>>
        PROVE  Kept(stream)'
    <3> SUFFICES ASSUME stream \in receivers'
                 PROVE  Good(Carried(stream)', generation'.id, inputs'[generation'.id][stream],
                             Awaited(stream)', (generation.closed \/ failed)')
      BY DEF Kept
    <3>1. Good(Carried(stream), generation.id, inputs[generation.id][stream], None,
               generation.closed \/ failed)
      BY <1>1, <2>4 DEF Kept
    <3>2. Carried(stream) \in Seq(Items) /\ generation.id \in Nat
      BY CarriedType, InputsType DEF Messages, DeliveryInv, Base
    <3>3. Good(Carried(stream), generation.id + 1, 0, None, FALSE)
      BY <3>1, <3>2, GoodNext
    <3>4. inputs'[generation'.id][stream] = 0
      BY <2>3 DEF Messages
    <3>5. (generation.closed \/ failed)' = FALSE
      BY <1>1, <1>2, <2>2
    <3> QED
      BY <2>2, <2>4, <3>3, <3>4, <3>5
  <2> QED
    BY <1>2, <1>3, <2>4 DEF DeliveryInv, Messages
<1>5. CASE ~(generation.id < MaxGenerations)
  <2>1. generation' = generation
    BY <1>5 DEF FinishGeneration
  <2>2. generation.closed \in BOOLEAN /\ failed \in BOOLEAN
    BY InputsType DEF DeliveryInv, Base
  <2>3. Kept("primaries")'
    BY <1>1, <1>3, <2>1, <2>2, StreamKept DEF DeliveryInv, Messages
  <2>4. Kept("errors")'
    BY <1>1, <1>3, <2>1, <2>2, StreamKept DEF DeliveryInv, Messages
  <2> QED
    BY <2>3, <2>4
<1> QED
  BY <1>4, <1>5

\* Receiving a Primary moves it within its stream.
LEMMA RecvPrimaryKept ==
  ASSUME DeliveryInv, RecvPrimary
  PROVE  Kept("primaries")' /\ Kept("errors")'
<1>1. /\ UNCHANGED <<generation, inbound, report, failed, held, inputs, errors, receivers>>
      /\ primaries # <<>> /\ primaries' = Tail(primaries)
      /\ received' = [received EXCEPT !["primaries"] = Append(@, Stamp(Head(primaries)))]
  BY DEF RecvPrimary, RuntimeLeaves, Got, Stamp
<1>2. /\ received'["primaries"] = Append(received["primaries"], Stamp(Head(primaries)))
      /\ received'["errors"] = received["errors"]
  BY <1>1 DEF DeliveryInv, Base, TypeOK, Streams
<1>3. Carried("primaries")' = Carried("primaries")
  <2>1. received["primaries"] \in Seq(Items) /\ primaries \in Seq(Primaries)
    BY DEF DeliveryInv, Base, TypeOK
  <2>2. /\ Stamps(primaries) \in Seq(Items) /\ Stamps(primaries) # <<>>
        /\ Head(Stamps(primaries)) = Stamp(Head(primaries))
        /\ Stamps(Tail(primaries)) = Tail(Stamps(primaries))
    BY <1>1, <2>1, StampsOf, StampTypes
  <2>3. Append(received["primaries"], Head(Stamps(primaries))) \o Tail(Stamps(primaries))
          = received["primaries"] \o Stamps(primaries)
    BY <2>1, <2>2, ItemsMove
  <2>4. Carried("primaries")' = received'["primaries"] \o Stamps(primaries')
    BY DEF Carried, Stamps
  <2>5. Carried("primaries") = received["primaries"] \o Stamps(primaries)
    BY DEF Carried
  <2> QED
    BY <1>1, <1>2, <2>2, <2>3, <2>4, <2>5
<1>4. Carried("errors")' = Carried("errors")
  BY <1>1, <1>2 DEF Carried, Stamps
<1>5. UNCHANGED <<Awaited("primaries"), Awaited("errors")>>
  BY <1>1 DEF Awaited
<1>6. generation.closed \in BOOLEAN /\ failed \in BOOLEAN
  BY InputsType DEF DeliveryInv, Base
<1>7. Kept("primaries")'
  BY <1>1, <1>3, <1>5, <1>6, StreamKept DEF DeliveryInv, Messages
<1>8. Kept("errors")'
  BY <1>1, <1>4, <1>5, <1>6, StreamKept DEF DeliveryInv, Messages
<1> QED
  BY <1>7, <1>8

\* Receiving an error moves it within its stream.
LEMMA RecvErrorKept ==
  ASSUME DeliveryInv, RecvError
  PROVE  Kept("primaries")' /\ Kept("errors")'
<1>1. /\ UNCHANGED <<generation, inbound, report, failed, held, inputs, primaries, receivers>>
      /\ errors # <<>> /\ errors' = Tail(errors)
      /\ received' = [received EXCEPT !["errors"] = Append(@, Head(errors))]
  BY DEF RecvError, RuntimeLeaves, Got
<1>2. /\ received'["errors"] = Append(received["errors"], Head(errors))
      /\ received'["primaries"] = received["primaries"]
  BY <1>1 DEF DeliveryInv, Base, TypeOK, Streams
<1>3. Carried("errors")' = Carried("errors")
  <2>1. received["errors"] \in Seq(Items) /\ errors \in Seq(Items)
    BY DEF DeliveryInv, Base, TypeOK
  <2>2. Append(received["errors"], Head(errors)) \o Tail(errors) = received["errors"] \o errors
    BY <1>1, <2>1, ItemsMove
  <2>3. Carried("errors") = received["errors"] \o errors
    BY CarriedType DEF DeliveryInv, Base
  <2>4. errors' \in Seq(Items)
    BY RecvErrorBase DEF DeliveryInv, Base, TypeOK
  <2>5. Carried("errors")' = received'["errors"] \o errors'
    BY <2>4, ErrorStamps DEF Carried, Stamps
  <2> QED
    BY <1>1, <1>2, <2>2, <2>3, <2>5
<1>4. Carried("primaries")' = Carried("primaries")
  BY <1>1, <1>2 DEF Carried, Stamps
<1>5. UNCHANGED <<Awaited("primaries"), Awaited("errors")>>
  BY <1>1 DEF Awaited
<1>6. generation.closed \in BOOLEAN /\ failed \in BOOLEAN
  BY InputsType DEF DeliveryInv, Base
<1>7. Kept("primaries")'
  BY <1>1, <1>4, <1>5, <1>6, StreamKept DEF DeliveryInv, Messages
<1>8. Kept("errors")'
  BY <1>1, <1>3, <1>5, <1>6, StreamKept DEF DeliveryInv, Messages
<1> QED
  BY <1>7, <1>8

\* The remaining steps do not touch the reliable streams.
LEMMA OtherStepsKept ==
  ASSUME DeliveryInv, Notice \/ ReturnCharge \/ RecvDiagnostic
  PROVE  Kept("primaries")' /\ Kept("errors")'
<1>1. /\ UNCHANGED <<generation, inbound, report, failed, held, inputs, primaries, errors, receivers>>
      /\ UNCHANGED <<received["primaries"], received["errors"]>>
  <2>1. CASE Notice
    BY <2>1 DEF Notice, reliable
  <2>2. CASE ReturnCharge
    BY <2>2 DEF ReturnCharge, RuntimeLeaves
  <2>3. CASE RecvDiagnostic
    BY <2>3 DEF RecvDiagnostic, RuntimeLeaves, Got, DeliveryInv, Base, TypeOK
  <2> QED
    BY <2>1, <2>2, <2>3
<1>2. UNCHANGED <<Awaited("primaries"), Awaited("errors"), Carried("primaries"), Carried("errors")>>
  BY <1>1 DEF Awaited, Carried, Stamps
<1>3. generation.closed \in BOOLEAN /\ failed \in BOOLEAN
  BY InputsType DEF DeliveryInv, Base
<1>4. Kept("primaries")'
  BY <1>1, <1>2, <1>3, StreamKept DEF DeliveryInv, Messages
<1>5. Kept("errors")'
  BY <1>1, <1>2, <1>3, StreamKept DEF DeliveryInv, Messages
<1> QED
  BY <1>4, <1>5

\* Dropping a receiver gives up its own stream and no other.
LEMMA DropReceiverKept ==
  ASSUME DeliveryInv, NEW stream \in Streams, DropReceiver(stream)
  PROVE  Kept("primaries")' /\ Kept("errors")'
<1>1. /\ UNCHANGED <<generation, inbound, report, failed, held, inputs, received>>
      /\ receivers' = receivers \ {stream}
      /\ primaries' = IF stream = "primaries" THEN <<>> ELSE primaries
      /\ errors' = IF stream = "errors" THEN <<>> ELSE errors
  BY DEF DropReceiver, RuntimeLeaves
<1>2. UNCHANGED <<Awaited("primaries"), Awaited("errors")>>
  BY <1>1 DEF Awaited
<1>3. Kept("primaries")'
  <2>1. CASE stream = "primaries"
    BY <1>1, <2>1 DEF Kept
  <2>2. CASE stream # "primaries"
    <3>1. Carried("primaries")' = Carried("primaries")
      BY <1>1, <2>2, CarriedSame
    <3> QED
      BY <1>1, <1>2, <2>2, <3>1 DEF DeliveryInv, Kept
  <2> QED
    BY <2>1, <2>2
<1>4. Kept("errors")'
  <2>1. CASE stream = "errors"
    BY <1>1, <2>1 DEF Kept
  <2>2. CASE stream # "errors"
    <3>1. Carried("errors")' = Carried("errors")
      BY <1>1, <2>2, CarriedSame
    <3> QED
      BY <1>1, <1>2, <2>2, <3>1 DEF DeliveryInv, Kept
  <2> QED
    BY <2>1, <2>2
<1> QED
  BY <1>3, <1>4

\* The first connection has nothing to deliver.
LEMMA InitDelivery == Init => DeliveryInv
<1> SUFFICES ASSUME Init PROVE DeliveryInv
  OBVIOUS
<1>1. Base
  BY InitBase
<1>2. /\ generation = [id |-> 1, closed |-> FALSE] /\ failed = FALSE /\ held = None
      /\ inbound = None /\ report = None
      /\ inputs = [g \in 1 .. MaxGenerations |-> [primaries |-> 0, errors |-> 0]]
      /\ primaries = <<>> /\ errors = <<>> /\ received = [s \in Streams |-> <<>>]
  BY DEF Init
<1>3. Carried("primaries") = <<>> /\ Carried("errors") = <<>>
  <2>1. received["primaries"] = <<>> /\ received["errors"] = <<>>
    BY <1>2 DEF Streams
  <2>2. Stamps(<<>>) = <<>>
    BY DEF Stamps
  <2> QED
    BY <1>2, <2>1, <2>2 DEF Carried
<1>4. Awaited("primaries") = None /\ Awaited("errors") = None
  BY <1>2 DEF Awaited
<1>5. inputs[generation.id]["primaries"] = 0 /\ inputs[generation.id]["errors"] = 0
  BY <1>2, Bounds
<1>6. Good(<<>>, generation.id, 0, None, generation.closed \/ failed)
  BY DEF Good, Whole, Complete
<1> QED
  BY <1>1, <1>3, <1>4, <1>5, <1>6 DEF DeliveryInv, Kept

\* Every step keeps the invariant.
LEMMA DeliveryKept ==
  ASSUME DeliveryInv, [Next]_vars
  PROVE  DeliveryInv'
<1>1. Base'
  BY BaseKept DEF DeliveryInv
<1>2. CASE UNCHANGED vars
  <2>1. UNCHANGED <<generation, failed, inputs, receivers>>
    BY <1>2 DEF vars
  <2>2. UNCHANGED <<Awaited("primaries"), Awaited("errors"), Carried("primaries"), Carried("errors")>>
    BY <1>2 DEF vars, Awaited, Carried, Stamps
  <2>3. Kept("primaries")' /\ Kept("errors")'
    BY <2>1, <2>2 DEF DeliveryInv, Kept
  <2> QED
    BY <1>1, <2>3 DEF DeliveryInv
<1>3. CASE Next
  <2>1. Kept("primaries")' /\ Kept("errors")'
    BY <1>3, ReadPrimaryKept, ReadViolationKept, OtherCloseKept, ChargePrimaryKept, SendPrimaryKept,
       DeliverErrorKept, FinishGenerationKept, RecvPrimaryKept, RecvErrorKept, OtherStepsKept,
       DropReceiverKept DEF Next
  <2> QED
    BY <1>1, <2>1 DEF DeliveryInv
<1> QED
  BY <1>2, <1>3

\* The invariant of the reliable streams holds in every behaviour.
LEMMA DeliveryAlways == Spec => []DeliveryInv
BY InitDelivery, DeliveryKept, PTL DEF Spec

\* The application's streams have no gap while their receivers exist, every byte
\* permit has one holder, and no queue exceeds its capacity (HsmsRuntime::publish,
\* Delivery::primary, InboundFull).
THEOREM DeliveryAlwaysWhole == Spec => []DeliveryIsWhole
<1>1. ASSUME DeliveryInv PROVE DeliveryIsWhole
  <2>1. ASSUME NEW stream \in receivers \ {"diagnostics"}
        PROVE  LET all == Carried(stream)
               IN  /\ all # <<>> => all[1].n = 1
                   /\ \A i \in 2 .. Len(all) : MayFollow(all[i - 1], all[i])
                   /\ pc = "round" => Complete(all, generation.id, inputs[generation.id][stream])
    <3>1. stream \in Messages
      BY <1>1 DEF DeliveryInv, Base, TypeOK, Streams, Messages
    <3>2. Good(Carried(stream), generation.id, inputs[generation.id][stream], Awaited(stream),
               generation.closed \/ failed)
      BY <1>1, <2>1, <3>1 DEF DeliveryInv, Kept, Messages
    <3>3. pc = "round" => Awaited(stream) = None /\ ~(generation.closed \/ failed)
      BY <1>1, <3>1, AtRound DEF DeliveryInv, Messages
    <3> QED
      BY <3>2, <3>3 DEF Good, Whole
  <2>2. NoSilentLoss
    BY <2>1 DEF NoSilentLoss
  <2>3. BytesAreReturned
    BY <1>1 DEF DeliveryInv, Base, Paid, Price, BytesAreReturned
  <2> QED
    BY <1>1, <2>2, <2>3 DEF DeliveryIsWhole, DeliveryInv, Base
<1> QED
  BY <1>1, DeliveryAlways, PTL

-----------------------------------------------------------------------------
(* Independence of the error stream.                                       *)

\* No step but the publication of an error takes one back: with room it is accepted
\* by its round, and while its receiver exists it is published.
LEMMA ErrorStep ==
  ASSUME DeliveryInv, [Next]_vars
  PROVE  /\ ( /\ inputs'[generation.id].errors > inputs[generation.id].errors
              /\ "errors" \in receivers /\ Len(errors) < ErrorCapacity ) => report' # None
         /\ ( report # None /\ report' = None /\ "errors" \in receivers ) =>
              errors' = Append(errors, report)
<1>0. inputs[generation.id].errors \in Nat /\ generation.id \in 1 .. MaxGenerations
  BY InputsType DEF DeliveryInv, Base
<1>1. CASE UNCHANGED <<inputs, report>>
  BY <1>0, <1>1
<1>2. CASE \E length \in Lengths : ReadPrimary(length)
  <2>1. /\ report' = report
        /\ inputs' = [inputs EXCEPT ![generation.id].primaries = @ + 1]
    BY <1>2 DEF ReadPrimary
  <2>2. inputs'[generation.id].errors = inputs[generation.id].errors
    BY <1>0, <2>1 DEF DeliveryInv, Base, TypeOK
  <2> QED
    BY <1>0, <2>1, <2>2
<1>3. CASE ReadViolation
  <2>1. /\ pc = "round" /\ UNCHANGED <<errors, receivers>>
        /\ report' = IF Room("errors", errors, ErrorCapacity) = 0 THEN None
                     ELSE [gen |-> generation.id, n |-> NextInput("errors")]
        /\ inputs' = [inputs EXCEPT ![generation.id].errors = @ + 1]
    BY <1>3 DEF ReadViolation, Round
  <2>2. report = None
    BY <2>1, AtRound DEF DeliveryInv
  <2>3. ASSUME "errors" \in receivers, Len(errors) < ErrorCapacity PROVE report' # None
    <3>1. Room("errors", errors, ErrorCapacity) # 0
      BY <2>3, RoomMeans DEF DeliveryInv, Base
    <3>2. report' = [gen |-> generation.id, n |-> inputs[generation.id].errors + 1]
      BY <2>1, <3>1 DEF NextInput
    <3>3. inputs'[generation.id].errors \in 0 .. MaxInputs
      BY <1>0, <1>3, ReadViolationBase DEF DeliveryInv, Base, TypeOK
    <3>4. inputs'[generation.id].errors = inputs[generation.id].errors + 1
      BY <1>0, <2>1 DEF DeliveryInv, Base, TypeOK
    <3>5. inputs[generation.id].errors + 1 \in 1 .. MaxInputs
      BY <1>0, <3>3, <3>4, Bounds
    <3>6. report' \in Items
      BY <1>0, <3>2, <3>5 DEF Items
    <3> QED
      BY <3>6, Nothing
  <2> QED
    BY <2>2, <2>3
<1>4. CASE DeliverError
  <2>1. inputs' = inputs
    BY <1>4 DEF DeliverError, PublishLeaves
  <2>2. ASSUME report # None, "errors" \in receivers PROVE errors' = Append(errors, report)
    <3>1. Room("errors", errors, ErrorCapacity) > 0
      BY <2>2, RoomMeans DEF DeliveryInv, Base, Phased
    <3> QED
      BY <1>4, <2>2, <3>1 DEF DeliverError
  <2> QED
    BY <1>0, <2>1, <2>2
<1>5. CASE OtherClose \/ ChargePrimary \/ SendPrimary \/ Notice \/ FinishGeneration
  BY <1>1, <1>5 DEF OtherClose, ChargePrimary, SendPrimary, Notice, FinishGeneration, PublishLeaves,
     reliable
<1>6. CASE RecvPrimary \/ ReturnCharge \/ RecvError \/ RecvDiagnostic
           \/ \E stream \in Streams : DropReceiver(stream)
  BY <1>1, <1>6 DEF RecvPrimary, ReturnCharge, RecvError, RecvDiagnostic, DropReceiver, RuntimeLeaves
<1>7. CASE UNCHANGED vars
  BY <1>1, <1>7 DEF vars
<1> QED
  BY <1>2, <1>3, <1>4, <1>5, <1>6, <1>7 DEF Next

\* Whatever happens to the Primary stream, a violation read while the error queue has
\* room is kept for publication, and published while its receiver exists
\* (Delivery::capacity, Delivery::error).
THEOREM ErrorsAlwaysIndependent == Spec => ErrorsAreIndependent
<1>1. DeliveryInv /\ [Next]_vars =>
        [/\ ( /\ inputs'[generation.id].errors > inputs[generation.id].errors
              /\ "errors" \in receivers /\ Len(errors) < ErrorCapacity ) => report' # None
         /\ ( report # None /\ report' = None /\ "errors" \in receivers ) =>
              errors' = Append(errors, report)]_vars
  BY ErrorStep
<1> QED
  BY <1>1, DeliveryAlways, PTL DEF Spec, ErrorsAreIndependent

-----------------------------------------------------------------------------
(* Diagnostics.                                                            *)

\* The numbers that reached the diagnostic channel, oldest first.
Numbers == received["diagnostics"] \o records

\* all accounts for the first n attempts: every number in it is the number of an
\* attempt, later ones are larger, and no gap is wider than what was dropped.
Accounts(all, n) ==
  /\ Len(all) <= n
  /\ \A i \in 1 .. Len(all) : all[i] < n /\ all[i] >= i - 1 /\ all[i] - (i - 1) <= n - Len(all)
  /\ \A i \in 2 .. Len(all) : all[i] > all[i - 1]

DropsOf(lost) == IF lost < DroppedLimit THEN lost ELSE DroppedLimit

Counted ==
  /\ sequence # None => sequence = attempts
  /\ "diagnostics" \in receivers =>
       Accounts(Numbers, attempts) /\ dropped = DropsOf(attempts - Len(Numbers))

\* A queued record carries the number of its attempt.
LEMMA AccountsSent ==
  ASSUME NEW all \in Seq(Nat), NEW n \in Nat, Accounts(all, n)
  PROVE  Accounts(Append(all, n), n + 1) /\ Len(Append(all, n)) = Len(all) + 1
<1> DEFINE more == Append(all, n)
<1>1. /\ more \in Seq(Nat) /\ Len(more) = Len(all) + 1 /\ more[Len(all) + 1] = n /\ Len(all) \in Nat
      /\ \A i \in 1 .. Len(all) : more[i] = all[i] /\ all[i] \in Nat
  OBVIOUS
<1>2. Len(all) <= n
  BY DEF Accounts
<1> HIDE DEF more
<1>3. ASSUME NEW i \in 1 .. Len(more)
      PROVE  more[i] < n + 1 /\ more[i] >= i - 1 /\ more[i] - (i - 1) <= (n + 1) - Len(more)
  <2>1. CASE i = Len(all) + 1
    BY <1>1, <1>2, <2>1
  <2>2. CASE i \in 1 .. Len(all)
    <3>1. all[i] < n /\ all[i] >= i - 1 /\ all[i] - (i - 1) <= n - Len(all)
      BY <2>2 DEF Accounts
    <3> QED
      BY <1>1, <2>2, <3>1
  <2> QED
    BY <1>1, <2>1, <2>2
<1>4. ASSUME NEW i \in 2 .. Len(more) PROVE more[i] > more[i - 1]
  <2>1. CASE i = Len(all) + 1
    <3>1. i - 1 \in 1 .. Len(all) /\ more[i - 1] = all[i - 1] /\ all[i - 1] < n /\ more[i] = n
      BY <1>1, <2>1 DEF Accounts
    <3> QED
      BY <1>1, <3>1
  <2>2. CASE i \in 2 .. Len(all)
    <3>1. all[i] > all[i - 1] /\ i - 1 \in 1 .. Len(all) /\ i \in 1 .. Len(all)
      BY <1>1, <2>2 DEF Accounts
    <3> QED
      BY <1>1, <3>1
  <2> QED
    BY <1>1, <2>1, <2>2
<1>5. Accounts(more, n + 1) /\ Len(more) = Len(all) + 1
  BY <1>1, <1>2, <1>3, <1>4 DEF Accounts
<1> QED
  BY <1>5 DEF more

\* A dropped record widens what may be missing by one.
LEMMA AccountsDropped ==
  ASSUME NEW all \in Seq(Nat), NEW n \in Nat, Accounts(all, n)
  PROVE  Accounts(all, n + 1)
<1>1. /\ Len(all) \in Nat
      /\ \A i \in 1 .. Len(all) : all[i] \in Nat
  OBVIOUS
<1> QED
  BY <1>1 DEF Accounts

\* The numbers are a sequence of naturals.
LEMMA NumbersType ==
  ASSUME TypeOK
  PROVE  /\ received["diagnostics"] \in Seq(Nat) /\ records \in Seq(Nat) /\ Numbers \in Seq(Nat)
         /\ attempts \in Nat
<1> DEFINE N == 0 .. (SequenceSpace - 1)
<1>1. received["diagnostics"] \in Seq(N) /\ records \in Seq(N) /\ attempts \in 0 .. MaxAttempts
  BY DEF TypeOK
<1>2. \A n \in N : n \in Nat
  BY Bounds
<1> HIDE DEF N
<1>3. received["diagnostics"] \in Seq(Nat) /\ records \in Seq(Nat)
  BY <1>1, <1>2
<1>4. Numbers \in Seq(Nat)
  BY <1>3 DEF Numbers
<1> QED
  BY <1>1, <1>3, <1>4, Bounds

\* Queueing extends the numbers at their end.
LEMMA NumbersMove ==
  \A got, queue \in Seq(Nat) : \A n \in Nat : got \o Append(queue, n) = Append(got \o queue, n)
<1>1. ASSUME NEW got \in Seq(Nat), NEW queue \in Seq(Nat), NEW n \in Nat
      PROVE  got \o Append(queue, n) = Append(got \o queue, n)
  BY MoveLast
<1> QED
  BY <1>1

\* DiagnosticPublisher::publish sends the record or counts it.
LEMMA PublishCounted ==
  ASSUME TypeOK, Counted, PublishDiagnostic, UNCHANGED <<receivers, received>>
  PROVE  Counted'
<1> DEFINE sent == sequence # None /\ Room("diagnostics", records, DiagnosticCapacity) > 0
<1>1. /\ attempts' = attempts + 1
      /\ records' = IF sent THEN Append(records, sequence) ELSE records
      /\ sequence' = IF sequence = None THEN None ELSE NextSequence(sent)
      /\ dropped' = IF sent THEN dropped ELSE OneMoreDropped
  BY DEF PublishDiagnostic
<1>2. received["diagnostics"] \in Seq(Nat) /\ records \in Seq(Nat) /\ Numbers \in Seq(Nat) /\ attempts \in Nat
  BY NumbersType
<1>3. sequence' # None => sequence' = attempts'
  BY <1>1 DEF Counted, NextSequence
<1>4. ASSUME "diagnostics" \in receivers
      PROVE  Accounts(Numbers', attempts') /\ dropped' = DropsOf(attempts' - Len(Numbers'))
  <2>1. Accounts(Numbers, attempts) /\ dropped = DropsOf(attempts - Len(Numbers))
    BY <1>4 DEF Counted
  <2>2. CASE sent
    <3>1. sequence = attempts
      BY <2>2 DEF Counted
    <3>2. Numbers' = Append(Numbers, attempts)
      <4>1. Numbers' = received["diagnostics"] \o Append(records, attempts)
        BY <1>1, <2>2, <3>1 DEF Numbers
      <4>2. received["diagnostics"] \o Append(records, attempts)
              = Append(received["diagnostics"] \o records, attempts)
        BY <1>2, NumbersMove
      <4> QED
        BY <4>1, <4>2 DEF Numbers
    <3>3. Accounts(Numbers', attempts') /\ Len(Numbers') = Len(Numbers) + 1
      BY <1>1, <1>2, <2>1, <3>2, AccountsSent
    <3>4. attempts' - Len(Numbers') = attempts - Len(Numbers)
      BY <1>1, <1>2, <3>3
    <3> QED
      BY <1>1, <2>1, <2>2, <3>3, <3>4
  <2>3. CASE ~sent
    <3>1. Numbers' = Numbers
      BY <1>1, <2>3 DEF Numbers
    <3>2. Accounts(Numbers', attempts')
      BY <1>1, <1>2, <2>1, <3>1, AccountsDropped
    <3>3. dropped' = OneMoreDropped
      BY <1>1, <2>3
    <3>4. Len(Numbers) \in Nat /\ Len(Numbers) <= attempts
      BY <1>2, <2>1 DEF Accounts
    <3>5. dropped' = DropsOf(attempts' - Len(Numbers'))
      BY <1>1, <1>2, <2>1, <3>1, <3>3, <3>4, Bounds DEF DropsOf, OneMoreDropped
    <3> QED
      BY <3>2, <3>5
  <2> QED
    BY <2>2, <2>3
<1> QED
  BY <1>3, <1>4 DEF Counted

\* Receiving a record moves it within its stream.
LEMMA RecvCounted ==
  ASSUME TypeOK, Counted, RecvDiagnostic
  PROVE  Counted'
<1>1. /\ UNCHANGED <<receivers, attempts, sequence, dropped>>
      /\ records # <<>> /\ records' = Tail(records)
      /\ received' = [received EXCEPT !["diagnostics"] = Append(@, Head(records))]
  BY DEF RecvDiagnostic, RuntimeLeaves, Got
<1>2. received'["diagnostics"] = Append(received["diagnostics"], Head(records))
  BY <1>1 DEF TypeOK, Streams
<1>3. received["diagnostics"] \in Seq(Nat) /\ records \in Seq(Nat)
  BY NumbersType
<1>4. Append(received["diagnostics"], Head(records)) \o Tail(records) = received["diagnostics"] \o records
  BY <1>1, <1>3, MoveHead
<1>5. Numbers' = Numbers
  BY <1>1, <1>2, <1>4 DEF Numbers
<1> QED
  BY <1>1, <1>5 DEF Counted

\* No other step concerns the diagnostics, and a dropped receiver gives them up.
LEMMA CountedKept ==
  ASSUME TypeOK, Counted, [Next]_vars
  PROVE  Counted'
<1>1. CASE /\ UNCHANGED <<records, sequence, dropped, attempts>>
           /\ received'["diagnostics"] = received["diagnostics"]
           /\ receivers' \subseteq receivers
  <2>1. Numbers' = Numbers
    BY <1>1 DEF Numbers
  <2> QED
    BY <1>1, <2>1 DEF Counted
<1>2. CASE Notice \/ FinishGeneration
  BY <1>2, PublishCounted DEF Notice, FinishGeneration
<1>3. CASE (\E length \in Lengths : ReadPrimary(length)) \/ ReadViolation \/ OtherClose
  BY <1>1, <1>3 DEF ReadPrimary, ReadViolation, OtherClose, Round, diagnostic
<1>4. CASE ChargePrimary \/ SendPrimary \/ DeliverError
  BY <1>1, <1>4 DEF ChargePrimary, SendPrimary, DeliverError, PublishLeaves, diagnostic
<1>5. CASE RecvPrimary \/ RecvError \/ ReturnCharge
  BY <1>1, <1>5 DEF RecvPrimary, RecvError, ReturnCharge, RuntimeLeaves, Got, TypeOK, Streams
<1>6. CASE RecvDiagnostic
  BY <1>6, RecvCounted
<1>7. ASSUME NEW stream \in Streams, DropReceiver(stream)
      PROVE  Counted'
  <2>1. /\ UNCHANGED <<sequence, dropped, attempts, received>> /\ receivers' = receivers \ {stream}
        /\ records' = IF stream = "diagnostics" THEN <<>> ELSE records
    BY <1>7 DEF DropReceiver, RuntimeLeaves
  <2>2. CASE stream = "diagnostics"
    BY <2>1, <2>2 DEF Counted
  <2>3. CASE stream # "diagnostics"
    BY <1>1, <2>1, <2>3
  <2> QED
    BY <2>2, <2>3
<1>8. CASE UNCHANGED vars
  BY <1>1, <1>8 DEF vars
<1> QED
  BY <1>2, <1>3, <1>4, <1>5, <1>6, <1>7, <1>8 DEF Next

\* While its receiver exists, every diagnostic is queued, received or counted as
\* dropped, and the numbers of the records show where (DiagnosticPublisher::publish).
THEOREM LossAlwaysCounted == Spec => []LossIsCounted
<1>1. Init => Counted
  <2> SUFFICES ASSUME Init PROVE Counted
    OBVIOUS
  <2>1. /\ records = <<>> /\ received["diagnostics"] = <<>> /\ attempts = 0 /\ sequence = 0
        /\ dropped = 0
    BY DEF Init, Streams
  <2>2. Numbers = <<>> /\ Len(Numbers) = 0
    BY <2>1 DEF Numbers
  <2>3. Accounts(Numbers, attempts)
    BY <2>1, <2>2 DEF Accounts
  <2>4. dropped = DropsOf(attempts - Len(Numbers))
    <3>3. attempts = 0
      BY <2>1
    <3>4. Len(Numbers) = 0
      BY <2>2
    <3>1. attempts - Len(Numbers) = 0
      BY ONLY <3>3, <3>4
    <3>2. DropsOf(0) = 0
      BY Bounds DEF DropsOf
    <3> QED
      BY <2>1, <3>1, <3>2
  <2> QED
    BY <2>1, <2>3, <2>4 DEF Counted
<1>2. DeliveryInv /\ Counted /\ [Next]_vars => Counted'
  BY CountedKept DEF DeliveryInv, Base
<1>3. DeliveryInv /\ Counted => LossIsCounted
  BY DEF Counted, Accounts, Numbers, DropsOf, LossIsCounted
<1> QED
  BY <1>1, <1>2, <1>3, DeliveryAlways, PTL DEF Spec

=============================================================================
