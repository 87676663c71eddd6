-------------------------- MODULE InboundStreamProofs --------------------------
(***************************************************************************)
(* Proofs about InboundStream: the reader owns no byte outside its         *)
(* reservations, and finds the frames of a stream however the bytes are    *)
(* cut into reads, for every stream, limit, budget and read size.          *)
(***************************************************************************)
EXTENDS InboundStream, FiniteSetTheorems, SequenceTheorems, TLAPS

Octets == 0 .. 255

\* The numbers of the configuration.
LEMMA Sizes ==
  /\ MaxMessageLength \in Nat /\ MaxMessageLength >= 10 /\ MaxMessageLength < 65536
  /\ PrefixLength = 4 /\ HeaderLength = 10
  /\ FrameBytesLimit \in Nat /\ FrameBytesLimit = MaxMessageLength + 4
  /\ T8 \in Nat \ {0} /\ Capacity \in Nat \ {0} /\ Scratch \in Nat \ {0}
  /\ WireBytes \in Nat /\ WireBytes >= FrameBytesLimit
BY LimitAssumption, ReaderAssumption DEF ValidReader, FrameBytesLimit, PrefixLength, HeaderLength

-----------------------------------------------------------------------------
(* The framer.                                                             *)

\* A declared length is a number.
LEMMA DeclaredType ==
  ASSUME NEW b \in Seq(Octets), Len(b) >= 4
  PROVE  Declared(b) \in Nat
<1>1. b[1] \in Octets /\ b[2] \in Octets /\ b[3] \in Octets /\ b[4] \in Octets
  OBVIOUS
<1>2. 256 * b[3] + b[4] \in Nat
  <2>1. b[3] \in Nat /\ b[4] \in Nat
    <3>1. \A x \in Octets : x \in Nat
      BY DEF Octets
    <3> QED
      BY <1>1, <3>1
  <2> QED
    BY ONLY <2>1
<1>3. 65536 \in Nat
  OBVIOUS
<1> QED
  BY ONLY <1>2, <1>3 DEF Declared

\* The four answers of HsmsFrameDecoder::decode.
LEMMA FramingCases ==
  ASSUME NEW b \in Seq(Octets)
  PROVE  \/ /\ Len(b) < 4
            /\ Framing(b) = [kind |-> "NeedMore", needed |-> 4 - Len(b)]
         \/ /\ Len(b) >= 4 /\ Declared(b) < 10
            /\ Framing(b) = [kind |-> "Fault", fault |-> "MessageLengthBelowHeader"]
         \/ /\ Len(b) >= 4 /\ Declared(b) > MaxMessageLength
            /\ Framing(b) = [kind |-> "Fault", fault |-> "MessageLengthAboveLimit"]
         \/ /\ Len(b) >= 4 /\ Declared(b) \in 10 .. MaxMessageLength /\ Len(b) < 4 + Declared(b)
            /\ Framing(b) = [kind |-> "NeedMore", needed |-> Declared(b) - (Len(b) - 4)]
         \/ /\ Len(b) >= 4 /\ Declared(b) \in 10 .. MaxMessageLength /\ Len(b) >= 4 + Declared(b)
            /\ Framing(b) = [kind |-> "Frame", length |-> Declared(b)]
<1>1. Len(b) \in Nat
  OBVIOUS
<1>2. CASE Len(b) < 4
  BY <1>2 DEF Framing, PrefixLength
<1>3. CASE Len(b) >= 4
  <2>1. Declared(b) \in Nat
    BY <1>3, DeclaredType
  <2>2. Framing(b) =
          IF Declared(b) < 10 THEN [kind |-> "Fault", fault |-> "MessageLengthBelowHeader"]
          ELSE IF Declared(b) > MaxMessageLength
          THEN [kind |-> "Fault", fault |-> "MessageLengthAboveLimit"]
          ELSE IF Len(b) - 4 < Declared(b)
          THEN [kind |-> "NeedMore", needed |-> Declared(b) - (Len(b) - 4)]
          ELSE [kind |-> "Frame", length |-> Declared(b)]
    BY <1>1, <1>3 DEF Framing, PrefixLength, HeaderLength
  <2>3. CASE Declared(b) < 10
    BY <1>3, <2>2, <2>3
  <2>4. CASE Declared(b) > MaxMessageLength
    BY <1>3, <2>1, <2>2, <2>4, Sizes
  <2>5. CASE Declared(b) \in 10 .. MaxMessageLength /\ Len(b) < 4 + Declared(b)
    BY <1>1, <1>3, <2>1, <2>2, <2>5, Sizes
  <2>6. CASE Declared(b) \in 10 .. MaxMessageLength /\ Len(b) >= 4 + Declared(b)
    BY <1>1, <1>3, <2>1, <2>2, <2>6, Sizes
  <2> QED
    BY <1>1, <2>1, <2>3, <2>4, <2>5, <2>6, Sizes
<1> QED
  BY <1>1, <1>2, <1>3

\* At most one frame: a partial prefix, or no more than what its length declares.
OneFrame(b) ==
  \/ Len(b) <= 4
  \/ Declared(b) \in 10 .. MaxMessageLength /\ Len(b) <= 4 + Declared(b)

\* One frame fits the reservation, and nothing is behind a complete one.
LEMMA OneFrameBounded ==
  ASSUME NEW b \in Seq(Octets), OneFrame(b)
  PROVE  /\ Len(b) <= FrameBytesLimit
         /\ Framing(b).kind = "Frame" =>
              /\ Framing(b).length = Declared(b) /\ Len(b) = 4 + Declared(b)
              /\ Declared(b) \in 10 .. MaxMessageLength
              /\ Rest(b, Framing(b).length) = <<>>
<1>1. Len(b) \in Nat
  OBVIOUS
<1>2. Len(b) <= FrameBytesLimit
  BY <1>1, Sizes DEF OneFrame
<1>3. ASSUME Framing(b).kind = "Frame"
      PROVE  /\ Framing(b).length = Declared(b) /\ Len(b) = 4 + Declared(b)
             /\ Declared(b) \in 10 .. MaxMessageLength
  <2>1. /\ Len(b) >= 4 /\ Declared(b) \in 10 .. MaxMessageLength /\ Len(b) >= 4 + Declared(b)
        /\ Framing(b).length = Declared(b)
    BY <1>3, FramingCases
  <2> QED
    BY <1>1, <2>1, Sizes DEF OneFrame
<1>4. ASSUME Framing(b).kind = "Frame"
      PROVE  Rest(b, Framing(b).length) = <<>>
  BY <1>1, <1>3, <1>4, Sizes DEF Rest, PrefixLength
<1> QED
  BY <1>2, <1>3, <1>4

\* Reading no more than the frame wants keeps it one frame.
LEMMA OneFrameGrows ==
  ASSUME NEW b \in Seq(Octets), OneFrame(b), Framing(b).kind = "NeedMore",
         NEW more \in Seq(Octets), Len(more) <= Framing(b).needed
  PROVE  /\ OneFrame(b \o more) /\ b \o more \in Seq(Octets)
         /\ Len(b \o more) = Len(b) + Len(more)
<1> DEFINE c == b \o more
<1>1. /\ c \in Seq(Octets) /\ Len(c) = Len(b) + Len(more) /\ Len(b) \in Nat /\ Len(more) \in Nat
      /\ \A i \in 1 .. Len(b) : c[i] = b[i]
  OBVIOUS
<1> HIDE DEF c
<1>2. CASE Len(b) < 4
  <2>1. Framing(b).needed = 4 - Len(b)
    BY <1>1, <1>2, FramingCases
  <2>2. Len(c) <= 4
    BY <1>1, <2>1
  <2> QED
    BY <1>1, <2>2 DEF OneFrame, c
<1>3. CASE Len(b) >= 4
  <2>1. /\ Declared(b) \in 10 .. MaxMessageLength
        /\ Framing(b).needed = Declared(b) - (Len(b) - 4)
    BY <1>1, <1>3, FramingCases
  <2>2. Declared(c) = Declared(b)
    BY <1>1, <1>3 DEF Declared
  <2>3. Len(c) <= 4 + Declared(c)
    BY <1>1, <2>1, <2>2, Sizes
  <2> QED
    BY <1>1, <2>1, <2>2, <2>3 DEF OneFrame, c
<1> QED
  BY <1>1, <1>2, <1>3

-----------------------------------------------------------------------------
(* Ownership.                                                              *)

\* What the decoder can make of a frame.
Verdicts == {DecodeFrame(HeaderOf(b), TextOf(b, n)) : b \in Seq(Octets), n \in Nat}

Reports == [size : 1 .. FrameBytesLimit, found : Verdicts]

InFlight == Len(reports) + Len(holding)

\* The types, and the reservations: every report in flight has room for a maximal
\* frame, and a reader that reads has room for one more.
OwnInv ==
  /\ stream \in Streams /\ sent \in 0 .. Len(Bytes) /\ taken \in 0 .. sent /\ closed \in BOOLEAN
  /\ worker \in {"reserve", "read", "ended"}
  /\ buffer \in Seq(Octets) /\ OneFrame(buffer)
  /\ progress \in 0 .. T8 \cup {None}
  /\ reports \in Seq(Reports) /\ holding \in Seq(Reports) /\ seen \in Seq(Verdicts)
  /\ owner \in {"running", "cancelled", "gone"} /\ silence \in 0 .. T8
  /\ InFlight * FrameBytesLimit <= WireBytes
  /\ worker = "read" \/ buffer # <<>> => (InFlight + 1) * FrameBytesLimit <= WireBytes
  /\ worker = "reserve" => buffer = <<>>

\* A stream is a byte string.
LEMMA StreamType ==
  ASSUME NEW s \in Streams
  PROVE  s.bytes \in Seq(Octets) /\ s.ends \in Seq(Nat) /\ Len(s.bytes) \in Nat
BY ReaderAssumption DEF IsStream, Octets

\* Products with the frame limit.
LEMMA Products ==
  ASSUME NEW k \in Nat
  PROVE  /\ k * FrameBytesLimit \in Nat
         /\ (k + 1) * FrameBytesLimit = k * FrameBytesLimit + FrameBytesLimit
         /\ k > 0 => (k - 1) * FrameBytesLimit <= k * FrameBytesLimit
BY Sizes

\* The queue holds no more than a maximal frame for each report.
LEMMA SizeBounded ==
  ASSUME NEW queue \in Seq(Reports)
  PROVE  Size(queue) \in Nat /\ Size(queue) <= Len(queue) * FrameBytesLimit
<1> DEFINE all == (1 .. Len(queue)) \X (1 .. FrameBytesLimit)
           some == {byte \in all : byte[2] <= queue[byte[1]].size}
<1>1. Len(queue) \in Nat
  OBVIOUS
<1>2. /\ IsFiniteSet(1 .. Len(queue)) /\ Cardinality(1 .. Len(queue)) = Len(queue)
      /\ IsFiniteSet(1 .. FrameBytesLimit) /\ Cardinality(1 .. FrameBytesLimit) = FrameBytesLimit
  <2>1. IsFiniteSet(1 .. Len(queue)) /\ Cardinality(1 .. Len(queue)) = Len(queue)
    BY <1>1, FS_Interval
  <2>2. FrameBytesLimit \in Nat
    BY Sizes
  <2>3. IsFiniteSet(1 .. FrameBytesLimit) /\ Cardinality(1 .. FrameBytesLimit) = FrameBytesLimit
    BY ONLY <2>2, FS_Interval
  <2> QED
    BY <2>1, <2>3
<1>3. IsFiniteSet(all) /\ Cardinality(all) = Len(queue) * FrameBytesLimit
  BY <1>2, FS_Product
<1>4. some \subseteq all /\ Size(queue) = Cardinality(some)
  BY DEF Size
<1> HIDE DEF all, some
<1>5. IsFiniteSet(some) /\ Cardinality(some) <= Cardinality(all)
  BY <1>3, <1>4, FS_Subset
<1>6. Cardinality(some) \in Nat
  BY <1>5, FS_CardinalityType
<1> QED
  BY <1>3, <1>4, <1>5, <1>6

\* Read takes bytes of the current frame only.
LEMMA ReadEffect ==
  ASSUME OwnInv, Read
  PROVE  \E n \in Nat \ {0} :
           /\ taken + n <= sent /\ taken' = taken + n
           /\ buffer' = buffer \o SubSeq(Bytes, taken + 1, taken + n)
           /\ SubSeq(Bytes, taken + 1, taken + n) \in Seq(Octets)
           /\ Len(SubSeq(Bytes, taken + 1, taken + n)) = n
           /\ n <= Framing(buffer).needed /\ Framing(buffer).kind = "NeedMore"
<1>1. PICK n \in 1 .. Wanted(Framing(buffer)) :
        /\ taken + n <= sent
        /\ buffer' = buffer \o SubSeq(Bytes, taken + 1, taken + n)
        /\ taken' = taken + n
  BY DEF Read
<1>2. Framing(buffer).kind = "NeedMore"
  BY DEF Read, Waiting
<1>3. Framing(buffer).needed \in Nat
  <2>1. buffer \in Seq(Octets) /\ Len(buffer) \in Nat
    BY DEF OwnInv
  <2>2. CASE Len(buffer) < 4
    BY <2>1, <2>2, FramingCases
  <2>3. CASE Len(buffer) >= 4
    <3>1. /\ Declared(buffer) \in 10 .. MaxMessageLength /\ Len(buffer) < 4 + Declared(buffer)
          /\ Framing(buffer).needed = Declared(buffer) - (Len(buffer) - 4)
      BY <1>2, <2>1, <2>3, FramingCases
    <3> QED
      BY <2>1, <2>3, <3>1, Sizes
  <2> QED
    BY <2>1, <2>2, <2>3
<1>4. n \in Nat \ {0} /\ n <= Framing(buffer).needed
  BY <1>3, Sizes DEF Wanted
<1>5. taken \in Nat /\ sent \in Nat /\ sent <= Len(Bytes) /\ Bytes \in Seq(Octets) /\ Len(Bytes) \in Nat
  BY StreamType DEF OwnInv, Bytes
<1> DEFINE more == SubSeq(Bytes, taken + 1, taken + n)
<1>6. more \in Seq(Octets) /\ Len(more) = n
  <2>1. taken + n <= Len(Bytes)
    BY <1>1, <1>4, <1>5
  <2> QED
    BY <1>4, <1>5, <2>1
<1> QED
  BY <1>1, <1>2, <1>4, <1>6

\* A report of a complete frame fits its reservation.
LEMMA CompleteFrameEffect ==
  ASSUME OwnInv, CompleteFrame
  PROVE  \E report \in Reports :
           /\ report.found = DecodeFrame(HeaderOf(buffer), TextOf(buffer, Framing(buffer).length))
           /\ reports' = Append(reports, report) /\ seen' = Append(seen, report.found)
           /\ buffer' = <<>> /\ buffer # <<>> /\ progress' = None /\ worker' = "reserve"
           /\ Framing(buffer).kind = "Frame"
           /\ UNCHANGED <<taken, result, stream, sent, closed, holding, owner, silence>>
<1> DEFINE f == Framing(buffer)
           report == [size |-> 4 + f.length, found |-> DecodeFrame(HeaderOf(buffer), TextOf(buffer, f.length))]
<1>1. /\ f.kind = "Frame" /\ buffer' = Rest(buffer, f.length)
      /\ reports' = Append(reports, report) /\ seen' = Append(seen, report.found)
      /\ progress' = None /\ worker' = "reserve"
      /\ UNCHANGED <<taken, result, stream, sent, closed, holding, owner, silence>>
  BY DEF CompleteFrame, WorkerLeaves, BoundaryProgress, PrefixLength
<1>2. buffer \in Seq(Octets) /\ OneFrame(buffer)
  BY DEF OwnInv
<1>3. /\ f.length = Declared(buffer) /\ Len(buffer) = 4 + Declared(buffer)
      /\ Declared(buffer) \in 10 .. MaxMessageLength /\ Rest(buffer, f.length) = <<>>
  BY <1>1, <1>2, OneFrameBounded
<1>4. 4 + f.length \in 1 .. FrameBytesLimit /\ f.length \in Nat /\ buffer # <<>>
  <2>1. Len(<<>>) = 0
    OBVIOUS
  <2> QED
    BY <1>3, <2>1, Sizes
<1>5. report.found \in Verdicts
  BY <1>2, <1>4 DEF Verdicts
<1>6. report \in Reports
  BY <1>4, <1>5 DEF Reports
<1> QED
  BY <1>1, <1>3, <1>4, <1>6

\* The initial reader owns nothing.
LEMMA InitOwn == Init => OwnInv
<1> SUFFICES ASSUME Init PROVE OwnInv
  OBVIOUS
<1>1. /\ stream \in Streams /\ sent = 0 /\ taken = 0 /\ closed = FALSE /\ worker = "reserve"
      /\ buffer = <<>> /\ progress = None /\ reports = <<>> /\ holding = <<>>
      /\ owner = "running" /\ seen = <<>> /\ silence = 0
  BY DEF Init
<1>2. /\ buffer \in Seq(Octets) /\ reports \in Seq(Reports) /\ holding \in Seq(Reports)
      /\ seen \in Seq(Verdicts) /\ Len(buffer) = 0 /\ InFlight = 0
  BY <1>1 DEF InFlight
<1>3. OneFrame(buffer)
  BY <1>2 DEF OneFrame
<1>4. Len(Bytes) \in Nat
  BY <1>1, StreamType DEF Bytes
<1>5. InFlight * FrameBytesLimit <= WireBytes /\ sent \in 0 .. Len(Bytes) /\ taken \in 0 .. sent
      /\ silence \in 0 .. T8
  BY <1>1, <1>2, <1>4, Sizes
<1> QED
  BY <1>1, <1>2, <1>3, <1>5 DEF OwnInv

\* Every step keeps the reservations.
LEMMA OwnKept ==
  ASSUME OwnInv, [Next]_vars
  PROVE  OwnInv'
<1>1. /\ stream \in Streams /\ Bytes \in Seq(Octets) /\ Len(Bytes) \in Nat
      /\ sent \in 0 .. Len(Bytes) /\ taken \in 0 .. sent /\ sent \in Nat /\ taken \in Nat
      /\ buffer \in Seq(Octets) /\ reports \in Seq(Reports) /\ holding \in Seq(Reports)
      /\ InFlight \in Nat /\ Len(reports) \in Nat /\ Len(holding) \in Nat
      /\ progress \in 0 .. T8 \cup {None} /\ silence \in 0 .. T8
  <2>1. stream \in Streams /\ Bytes \in Seq(Octets) /\ Len(Bytes) \in Nat
    BY StreamType DEF OwnInv, Bytes
  <2>2. reports \in Seq(Reports) /\ holding \in Seq(Reports)
    BY DEF OwnInv
  <2>3. Len(reports) \in Nat /\ Len(holding) \in Nat
    BY <2>2
  <2>4. InFlight \in Nat
    BY <2>3 DEF InFlight
  <2> QED
    BY <2>1, <2>2, <2>3, <2>4 DEF OwnInv
<1>2. CASE Arrive
  <2>1. sent' \in 0 .. Len(Bytes) /\ taken \in 0 .. sent' /\ sent' = sent + 1 /\ silence' \in 0 .. T8
    BY <1>1, <1>2, Sizes DEF Arrive
  <2> QED
    BY <1>1, <1>2, <2>1 DEF Arrive, OwnInv, Bytes, InFlight
<1>3. CASE PeerCloses
  BY <1>3 DEF PeerCloses, OwnInv, Bytes, InFlight
<1>4. CASE TakeReport
  <2>1. /\ reports # <<>> /\ reports' = Tail(reports) /\ holding' = Append(holding, Head(reports))
        /\ UNCHANGED <<stream, sent, taken, closed, worker, buffer, progress, owner, seen, silence>>
    BY <1>4 DEF TakeReport
  <2>2. /\ reports' \in Seq(Reports) /\ holding' \in Seq(Reports)
        /\ Len(reports') = Len(reports) - 1 /\ Len(holding') = Len(holding) + 1
    BY <1>1, <2>1
  <2>3. InFlight' = InFlight
    BY <1>1, <2>2 DEF InFlight
  <2> QED
    BY <2>1, <2>2, <2>3 DEF OwnInv, Bytes
<1>5. CASE DropReport
  <2>1. /\ holding # <<>> /\ holding' = Tail(holding)
        /\ UNCHANGED <<stream, sent, taken, closed, worker, buffer, progress, owner, seen, silence,
                       reports>>
    BY <1>5 DEF DropReport
  <2>2. holding' \in Seq(Reports) /\ Len(holding') = Len(holding) - 1 /\ Len(holding) > 0
    BY <1>1, <2>1
  <2>3. InFlight' = InFlight - 1 /\ InFlight > 0
    BY <1>1, <2>1, <2>2 DEF InFlight
  <2>4. /\ InFlight' * FrameBytesLimit <= InFlight * FrameBytesLimit
        /\ InFlight' * FrameBytesLimit \in Nat /\ InFlight * FrameBytesLimit \in Nat
        /\ (InFlight' + 1) * FrameBytesLimit <= (InFlight + 1) * FrameBytesLimit
        /\ (InFlight' + 1) * FrameBytesLimit \in Nat /\ (InFlight + 1) * FrameBytesLimit \in Nat
    <3>1. InFlight' \in Nat /\ InFlight' + 1 = InFlight
      BY <1>1, <2>3
    <3>2. /\ InFlight * FrameBytesLimit = InFlight' * FrameBytesLimit + FrameBytesLimit
          /\ InFlight' * FrameBytesLimit \in Nat
      BY <3>1, Products
    <3>3. (InFlight + 1) * FrameBytesLimit = InFlight * FrameBytesLimit + FrameBytesLimit
      BY <1>1, Products
    <3>4. FrameBytesLimit \in Nat
      BY Sizes
    <3> DEFINE a == InFlight' * FrameBytesLimit
               b == InFlight * FrameBytesLimit
               c == (InFlight + 1) * FrameBytesLimit
    <3>5. a \in Nat /\ b = a + FrameBytesLimit /\ c = b + FrameBytesLimit
      BY <3>2, <3>3
    <3>6. (InFlight' + 1) * FrameBytesLimit = b
      BY <3>1
    <3> HIDE DEF a, b, c
    <3>7. a <= b /\ b \in Nat /\ c \in Nat /\ b <= c
      BY ONLY <3>4, <3>5
    <3> QED
      BY <3>5, <3>6, <3>7 DEF a, b, c
  <2>5. /\ InFlight' * FrameBytesLimit <= WireBytes
        /\ worker' = "read" \/ buffer' # <<>> => (InFlight' + 1) * FrameBytesLimit <= WireBytes
    BY <2>1, <2>4, Sizes DEF OwnInv
  <2> QED
    BY <2>1, <2>2, <2>5 DEF OwnInv, Bytes
<1>6. CASE OwnerStops
  BY <1>6 DEF OwnerStops, OwnInv, Bytes, InFlight
<1>7. CASE Reserve
  BY <1>7 DEF Reserve, Reservable, WorkerLeaves, OwnInv, Bytes, InFlight
<1>8. CASE Abandon \/ FramingFault \/ TimeOut \/ EndOfStream \/ ReadFails
  <2>1. \E r : End(r)
    BY <1>8 DEF Abandon, FramingFault, TimeOut, EndOfStream, ReadFails
  <2> QED
    BY <2>1 DEF End, WorkerLeaves, OwnInv, Bytes, InFlight
<1>9. CASE CompleteFrame
  <2>1. PICK report \in Reports :
           /\ report.found = DecodeFrame(HeaderOf(buffer), TextOf(buffer, Framing(buffer).length))
           /\ reports' = Append(reports, report) /\ seen' = Append(seen, report.found)
           /\ buffer' = <<>> /\ buffer # <<>> /\ progress' = None /\ worker' = "reserve"
           /\ UNCHANGED <<taken, result, stream, sent, closed, holding, owner, silence>>
    BY <1>9, CompleteFrameEffect
  <2>2. reports' \in Seq(Reports) /\ Len(reports') = Len(reports) + 1
    BY <1>1, <2>1
  <2>3. InFlight' = InFlight + 1
    BY <1>1, <2>1, <2>2 DEF InFlight
  <2>4. InFlight' * FrameBytesLimit <= WireBytes
    BY <2>1, <2>3 DEF OwnInv
  <2>5. seen' \in Seq(Verdicts)
    BY <2>1 DEF OwnInv, Reports
  <2>6. buffer' \in Seq(Octets) /\ OneFrame(buffer')
    BY <2>1 DEF OneFrame
  <2> QED
    BY <2>1, <2>2, <2>4, <2>5, <2>6 DEF OwnInv, Bytes
<1>10. CASE Read
  <2>1. PICK n \in Nat \ {0} :
           /\ taken + n <= sent /\ taken' = taken + n
           /\ buffer' = buffer \o SubSeq(Bytes, taken + 1, taken + n)
           /\ SubSeq(Bytes, taken + 1, taken + n) \in Seq(Octets)
           /\ Len(SubSeq(Bytes, taken + 1, taken + n)) = n
           /\ n <= Framing(buffer).needed /\ Framing(buffer).kind = "NeedMore"
    BY <1>10, ReadEffect
  <2>2. OneFrame(buffer') /\ buffer' \in Seq(Octets)
    BY <1>1, <2>1, OneFrameGrows DEF OwnInv
  <2>3. /\ worker = "read" /\ progress' = 0
        /\ UNCHANGED <<worker, reports, seen, stream, sent, closed, holding, owner, silence>>
    BY <1>10 DEF Read, Waiting, WorkerLeaves, ReadProgress
  <2>4. taken' \in 0 .. sent /\ progress' \in 0 .. T8
    BY <1>1, <2>1, <2>3, Sizes
  <2> QED
    BY <2>2, <2>3, <2>4 DEF OwnInv, Bytes, InFlight
<1>11. CASE Tick
  <2>1. /\ progress # T8 /\ progress' = IF progress = None THEN None ELSE progress + 1
        /\ silence' = IF silence < T8 THEN silence + 1 ELSE silence
        /\ UNCHANGED <<stream, sent, taken, closed, worker, result, buffer, reports, holding, owner,
                       seen>>
    BY <1>11 DEF Tick
  <2>2. progress' \in 0 .. T8 \cup {None} /\ silence' \in 0 .. T8
    BY <1>1, <2>1, Sizes
  <2> QED
    BY <2>1, <2>2 DEF OwnInv, Bytes, InFlight
<1>12. CASE UNCHANGED vars
  BY <1>12 DEF vars, OwnInv, Bytes, InFlight
<1> QED
  BY <1>2, <1>3, <1>4, <1>5, <1>6, <1>7, <1>8, <1>9, <1>10, <1>11, <1>12 DEF Next, Worker

\* The reservations hold in every behaviour.
LEMMA OwnAlways == Spec => []OwnInv
BY InitOwn, OwnKept, PTL DEF Spec

\* Buffer and reports stay within the byte budget, whatever length the peer declares
\* and however slow the owner is (ReaderWorker::run, FrameReader::next).
THEOREM OwnershipAlwaysBounded == Spec => []OwnershipIsBounded
<1>1. ASSUME OwnInv PROVE OwnershipIsBounded
  <2> DEFINE queue == reports \o holding
  <2>1. /\ reports \in Seq(Reports) /\ holding \in Seq(Reports) /\ buffer \in Seq(Octets)
        /\ OneFrame(buffer)
    BY <1>1 DEF OwnInv
  <2>2. queue \in Seq(Reports) /\ Len(queue) = InFlight /\ InFlight \in Nat
    BY <2>1 DEF InFlight
  <2> HIDE DEF queue
  <2>3. Size(queue) \in Nat /\ Size(queue) <= InFlight * FrameBytesLimit
    BY <2>2, SizeBounded
  <2>4. Len(buffer) \in Nat /\ Len(buffer) <= FrameBytesLimit
    BY <2>1, OneFrameBounded
  <2>5. Len(buffer) + Size(queue) <= WireBytes
    <3>1. CASE buffer = <<>>
      <4>1. Len(buffer) = 0
        BY <3>1
      <4>2. InFlight * FrameBytesLimit <= WireBytes
        BY <1>1 DEF OwnInv
      <4> QED
        BY <2>2, <2>3, <4>1, <4>2, Products, Sizes
    <3>2. CASE buffer # <<>>
      <4>1. (InFlight + 1) * FrameBytesLimit <= WireBytes
        BY <1>1, <3>2 DEF OwnInv
      <4>2. InFlight * FrameBytesLimit \in Nat /\ (InFlight + 1) * FrameBytesLimit = InFlight * FrameBytesLimit + FrameBytesLimit
        BY <2>2, Products
      <4> QED
        BY <2>3, <2>4, <4>1, <4>2, Sizes
    <3> QED
      BY <3>1, <3>2
  <2>6. \A i \in 1 .. Len(queue) : queue[i].size <= FrameBytesLimit
    <3>1. ASSUME NEW i \in 1 .. Len(queue) PROVE queue[i].size <= FrameBytesLimit
      <4>1. queue[i] \in Reports
        BY <2>2
      <4> QED
        BY <4>1, Sizes DEF Reports
    <3> QED
      BY <3>1
  <2>7. Framing(buffer).kind = "Frame" => Rest(buffer, Framing(buffer).length) = <<>>
    BY <2>1, OneFrameBounded
  <2>8. worker = "reserve" => buffer = <<>>
    BY <1>1 DEF OwnInv
  <2> QED
    BY <2>5, <2>6, <2>7, <2>8 DEF OwnershipIsBounded, queue
<1> QED
  BY <1>1, OwnAlways, PTL

-----------------------------------------------------------------------------
(* Faithfulness.                                                           *)

Faults == {"MessageLengthBelowHeader", "MessageLengthAboveLimit"}

\* Where the frame under way begins: behind the last one reported.
Start == IF Len(seen) = 0 THEN 0 ELSE stream.ends[Len(seen)]

\* The reports so far are the first frames of the stream, and the buffer is what was
\* read of the next one.
Found ==
  /\ Decodes(stream)
  /\ Len(seen) <= Len(stream.ends)
  /\ \A i \in 1 .. Len(seen) : seen[i] = stream.means[i] /\ stream.means[i].type # "Fault"
  /\ Start <= taken /\ buffer = SubSeq(Bytes, Start + 1, taken)

\* What the end of the task says of the stream.
Ended ==
  /\ result # None <=> worker = "ended"
  /\ result \in Faults =>
       /\ Len(seen) < Len(stream.ends)
       /\ stream.means[Len(seen) + 1].type = "Fault"
       /\ stream.means[Len(seen) + 1].kind = result
  /\ result = "EndOfStream" => closed /\ (sent = Len(Bytes) => Len(seen) = Len(stream.ends))

\* T8 runs inside a frame only, and never longer than the peer was silent.
Timed ==
  /\ progress # None => buffer # <<>>
  /\ progress # None /\ taken = sent => progress <= silence
  /\ progress = T8 => silence = T8
  /\ result = "IntercharacterTimeout" => progress = T8

\* The cuts of a stream.
LEMMA StreamCuts ==
  ASSUME NEW s \in Streams
  PROVE  /\ s.ends \in Seq(Nat) /\ Len(s.ends) \in Nat /\ DOMAIN s.ends = 1 .. Len(s.ends)
         /\ \A i \in 1 .. Len(s.ends) : s.ends[i] \in Nat /\ s.ends[i] <= Len(s.bytes)
         /\ \A i, j \in 1 .. Len(s.ends) : i <= j => s.ends[i] <= s.ends[j]
         /\ Len(s.ends) = 0 => Len(s.bytes) = 0
         /\ Len(s.ends) # 0 => s.ends[Len(s.ends)] = Len(s.bytes)
<1>1. IsStream(s)
  BY ReaderAssumption
<1>2. s.ends \in Seq(Nat) /\ Len(s.ends) \in Nat /\ DOMAIN s.ends = 1 .. Len(s.ends)
  BY <1>1 DEF IsStream
<1>3. \A i, j \in 1 .. Len(s.ends) : i <= j => s.ends[i] <= s.ends[j]
  BY <1>1, <1>2 DEF IsStream
<1>4. Len(s.ends) = 0 => Len(s.bytes) = 0
  <2>1. Len(s.ends) = 0 => s.ends = <<>>
    BY <1>2
  <2>2. Len(<<>>) = 0
    OBVIOUS
  <2> QED
    BY <1>1, <2>1, <2>2 DEF IsStream
<1>5. Len(s.ends) # 0 => s.ends[Len(s.ends)] = Len(s.bytes)
  <2>1. Len(s.ends) # 0 => s.ends # <<>>
    BY <1>2
  <2> QED
    BY <1>1, <2>1 DEF IsStream
<1>6. ASSUME NEW i \in 1 .. Len(s.ends) PROVE s.ends[i] \in Nat /\ s.ends[i] <= Len(s.bytes)
  BY <1>2, <1>3, <1>5
<1> QED
  BY <1>2, <1>3, <1>4, <1>5, <1>6

\* One frame of a stream, cut out of its bytes.
LEMMA PieceType ==
  ASSUME NEW s \in Streams, Decodes(s), NEW i \in 1 .. Len(s.ends)
  PROVE  /\ Begin(s, i) \in Nat /\ Begin(s, i) <= s.ends[i] /\ s.ends[i] \in Nat
         /\ s.ends[i] <= Len(s.bytes)
         /\ Piece(s, i) \in Seq(Octets) /\ Len(Piece(s, i)) = s.ends[i] - Begin(s, i)
         /\ Len(Piece(s, i)) >= 4
         /\ \A j \in 1 .. Len(Piece(s, i)) : Piece(s, i)[j] = s.bytes[Begin(s, i) + j]
<1>1. Begin(s, i) \in Nat /\ Begin(s, i) <= s.ends[i] /\ s.ends[i] \in Nat /\ s.ends[i] <= Len(s.bytes)
  BY StreamCuts DEF Begin
<1>2. s.bytes \in Seq(Octets) /\ Len(s.bytes) \in Nat
  BY StreamType
<1> DEFINE b == Begin(s, i)
           e == s.ends[i]
<1> HIDE DEF b, e
<1>3. /\ Piece(s, i) = SubSeq(s.bytes, b + 1, e) /\ b \in Nat /\ e \in Nat /\ b <= e
      /\ e <= Len(s.bytes)
  BY <1>1 DEF Piece, b, e
<1>4. /\ Piece(s, i) \in Seq(Octets) /\ Len(Piece(s, i)) = e - b
      /\ \A j \in 1 .. Len(Piece(s, i)) : Piece(s, i)[j] = s.bytes[b + j]
  <2>1. SubSeq(s.bytes, b + 1, e) \in Seq(Octets) /\ Len(SubSeq(s.bytes, b + 1, e)) = e - b
    BY <1>2, <1>3
  <2>2. ASSUME NEW j \in 1 .. (e - b)
        PROVE  SubSeq(s.bytes, b + 1, e)[j] = s.bytes[b + j]
    BY <1>2, <1>3
  <2> QED
    BY <1>3, <2>1, <2>2
<1>5. Framing(Piece(s, i)).kind \in {"Fault", "Frame"}
  <2>1. i \in DOMAIN s.ends
    BY StreamCuts
  <2> QED
    BY <2>1 DEF Decodes
<1>6. Len(Piece(s, i)) >= 4
  BY <1>4, <1>5, FramingCases
<1> QED
  BY <1>1, <1>4, <1>6 DEF b, e

\* A stretch of bytes.
LEMMA Stretch ==
  ASSUME NEW bytes \in Seq(Octets), NEW from \in Nat, NEW to \in Nat, from <= to, to <= Len(bytes)
  PROVE  /\ SubSeq(bytes, from + 1, to) \in Seq(Octets)
         /\ Len(SubSeq(bytes, from + 1, to)) = to - from
         /\ \A j \in 1 .. (to - from) : SubSeq(bytes, from + 1, to)[j] = bytes[from + j]
OBVIOUS

\* What the bytes read so far say of the frame under way.
LEMMA BufferMatches ==
  ASSUME NEW s \in Streams, Decodes(s), NEW i \in 1 .. Len(s.ends),
         NEW n \in Nat, Begin(s, i) <= n, n <= Len(s.bytes)
  PROVE  LET b == SubSeq(s.bytes, Begin(s, i) + 1, n)
         IN  /\ b \in Seq(Octets) /\ Len(b) = n - Begin(s, i)
             /\ Len(b) >= 4 => Declared(b) = Declared(Piece(s, i))
             /\ Len(b) = Len(Piece(s, i)) => b = Piece(s, i) /\ n = s.ends[i]
<1> DEFINE from == Begin(s, i)
           to == s.ends[i]
           b == SubSeq(s.bytes, from + 1, n)
           p == Piece(s, i)
<1>1. /\ from \in Nat /\ to \in Nat /\ Len(p) = to - from /\ Len(p) >= 4
      /\ \A j \in 1 .. Len(p) : p[j] = s.bytes[from + j]
  BY PieceType
<1>2. p = SubSeq(s.bytes, from + 1, to)
  BY DEF Piece
<1>3. /\ b \in Seq(Octets) /\ Len(b) = n - from
      /\ \A j \in 1 .. (n - from) : b[j] = s.bytes[from + j]
  BY <1>1, StreamType, Stretch
<1>4. from <= n
  OBVIOUS
<1>5. b = SubSeq(s.bytes, from + 1, n)
  OBVIOUS
<1> HIDE DEF from, to, b, p
<1>6. ASSUME Len(b) >= 4 PROVE Declared(b) = Declared(p)
  <2>1. 4 <= n - from /\ 4 <= Len(p) /\ Len(p) \in Nat /\ n - from \in Nat
    BY <1>1, <1>3, <1>4, <1>6
  <2>2. \A j \in 1 .. 4 : b[j] = s.bytes[from + j] /\ p[j] = s.bytes[from + j]
    BY ONLY <1>1, <1>3, <2>1
  <2>3. b[1] = p[1] /\ b[2] = p[2] /\ b[3] = p[3] /\ b[4] = p[4]
    BY ONLY <2>2
  <2> QED
    BY ONLY <2>3 DEF Declared
<1>7. ASSUME Len(b) = Len(p) PROVE b = p /\ n = to
  <2>1. n = to
    BY <1>1, <1>3, <1>4, <1>7
  <2> QED
    BY ONLY <2>1, <1>2, <1>5
<1> QED
  BY <1>3, <1>6, <1>7 DEF from, to, b, p

\* Found, at the frame under way.
LEMMA UnderWay ==
  ASSUME OwnInv, Found
  PROVE  /\ Start \in Nat /\ taken \in Nat /\ taken <= Len(Bytes) /\ Len(Bytes) \in Nat
         /\ Len(seen) \in Nat /\ Len(stream.ends) \in Nat
         /\ Len(seen) = Len(stream.ends) => Start = Len(Bytes) /\ buffer = <<>> /\ taken = Len(Bytes)
         /\ Len(seen) < Len(stream.ends) =>
              Len(seen) + 1 \in 1 .. Len(stream.ends) /\ Start = Begin(stream, Len(seen) + 1)
<1>1. /\ stream \in Streams /\ Len(seen) \in Nat /\ Bytes = stream.bytes
      /\ Bytes \in Seq(Octets) /\ Len(Bytes) \in Nat
      /\ taken \in Nat /\ taken <= Len(Bytes) /\ Len(stream.ends) \in Nat
  <2>1. stream \in Streams
    BY DEF OwnInv
  <2>2. Bytes \in Seq(Octets) /\ Len(Bytes) \in Nat /\ Len(stream.ends) \in Nat
    BY <2>1, StreamType, StreamCuts DEF Bytes
  <2>3. Len(seen) \in Nat
    BY DEF OwnInv
  <2>4. taken \in Nat /\ taken <= Len(Bytes)
    BY <2>2 DEF OwnInv
  <2> QED
    BY <2>1, <2>2, <2>3, <2>4 DEF Bytes
<1>2. Start \in Nat
  BY <1>1, StreamCuts DEF Start, Found
<1>3. ASSUME Len(seen) = Len(stream.ends)
      PROVE  Start = Len(Bytes) /\ buffer = <<>> /\ taken = Len(Bytes)
  <2>1. Start = Len(Bytes)
    BY <1>1, <1>3, StreamCuts DEF Start
  <2>2. taken = Len(Bytes)
    BY <1>1, <2>1 DEF Found
  <2>3. buffer = SubSeq(Bytes, taken + 1, taken)
    BY <2>1, <2>2 DEF Found
  <2> QED
    BY <1>1, <2>1, <2>2, <2>3
<1>4. ASSUME Len(seen) < Len(stream.ends)
      PROVE  Len(seen) + 1 \in 1 .. Len(stream.ends) /\ Start = Begin(stream, Len(seen) + 1)
  BY <1>1, <1>4 DEF Start, Begin
<1> QED
  BY <1>1, <1>2, <1>3, <1>4

\* The answer of the framer to the bytes read so far is the meaning of the frame:
\* a complete frame is the sender's, and so is a fatal length.
LEMMA AnswerIsMeant ==
  ASSUME OwnInv, Found, Framing(buffer).kind \in {"Frame", "Fault"}
  PROVE  /\ Len(seen) < Len(stream.ends)
         /\ Framing(buffer).kind = "Frame" =>
              /\ buffer = Piece(stream, Len(seen) + 1) /\ taken = stream.ends[Len(seen) + 1]
              /\ stream.means[Len(seen) + 1].type # "Fault"
              /\ DecodeFrame(HeaderOf(buffer), TextOf(buffer, Framing(buffer).length))
                   = stream.means[Len(seen) + 1]
         /\ Framing(buffer).kind = "Fault" =>
              /\ stream.means[Len(seen) + 1].type = "Fault"
              /\ stream.means[Len(seen) + 1].kind = Framing(buffer).fault
<1> DEFINE i == Len(seen) + 1
           p == Piece(stream, i)
<1>1. buffer \in Seq(Octets) /\ OneFrame(buffer) /\ stream \in Streams
  BY DEF OwnInv
<1>2. Len(buffer) >= 4
  BY <1>1, FramingCases
<1>3. Len(seen) < Len(stream.ends)
  <2>1. Len(<<>>) = 0
    OBVIOUS
  <2> QED
    BY <1>2, <2>1, UnderWay DEF Found
<1>4. i \in 1 .. Len(stream.ends) /\ i \in DOMAIN stream.ends /\ Start = Begin(stream, i)
  BY <1>1, <1>3, UnderWay, StreamCuts
<1>5. buffer = SubSeq(stream.bytes, Begin(stream, i) + 1, taken)
  BY <1>4 DEF Found, Bytes
<1>6. taken \in Nat /\ Begin(stream, i) <= taken /\ taken <= Len(stream.bytes)
  BY <1>4, UnderWay DEF Found, Bytes
<1> HIDE DEF i
<1>7. /\ Declared(buffer) = Declared(p)
      /\ Len(buffer) = Len(p) => buffer = p /\ taken = stream.ends[i]
  <2>1. Decodes(stream)
    BY DEF Found
  <2>2. LET b == SubSeq(stream.bytes, Begin(stream, i) + 1, taken)
        IN  /\ Len(b) >= 4 => Declared(b) = Declared(p)
            /\ Len(b) = Len(p) => b = p /\ taken = stream.ends[i]
    BY <1>1, <1>4, <1>6, <2>1, BufferMatches
  <2> QED
    BY <1>2, <1>5, <2>2
<1>8. p \in Seq(Octets) /\ Len(p) >= 4 /\ Len(p) \in Nat
  BY <1>1, <1>4, PieceType DEF Found
<1>9. IF stream.means[i].type = "Fault"
      THEN Framing(p) = [kind |-> "Fault", fault |-> stream.means[i].kind]
      ELSE /\ Framing(p) = [kind |-> "Frame", length |-> Len(p) - 4]
           /\ DecodeFrame(HeaderOf(p), TextOf(p, Framing(p).length)) = stream.means[i]
  BY <1>4 DEF Found, Decodes, PrefixLength
<1> HIDE DEF p
<1>10. ASSUME Framing(buffer).kind = "Frame"
       PROVE  /\ buffer = p /\ taken = stream.ends[i] /\ stream.means[i].type # "Fault"
              /\ DecodeFrame(HeaderOf(buffer), TextOf(buffer, Framing(buffer).length)) = stream.means[i]
  <2>1. Declared(p) \in 10 .. MaxMessageLength /\ Len(buffer) = 4 + Declared(p)
    BY <1>1, <1>7, <1>10, OneFrameBounded
  <2>2. Framing(p).kind # "Fault"
    BY <1>8, <2>1, FramingCases, Sizes
  <2>3. stream.means[i].type # "Fault" /\ Framing(p) = [kind |-> "Frame", length |-> Len(p) - 4]
    BY <1>9, <2>2
  <2>4. Framing(p).length = Declared(p)
    BY <1>8, <2>3, FramingCases
  <2>5. Len(p) = Len(buffer)
    BY <1>8, <2>1, <2>3, <2>4
  <2>6. buffer = p /\ taken = stream.ends[i]
    BY <1>7, <2>5
  <2> QED
    BY <1>9, <2>3, <2>6
<1>11. ASSUME Framing(buffer).kind = "Fault"
       PROVE  stream.means[i].type = "Fault" /\ stream.means[i].kind = Framing(buffer).fault
  <2>1. Framing(p) = Framing(buffer)
    <3>a. Declared(p) \in Nat /\ Declared(buffer) \in Nat /\ Len(buffer) \in Nat
      BY <1>1, <1>2, <1>8, DeclaredType
    <3>1. CASE Declared(p) < 10
      <4>1. Framing(p) = [kind |-> "Fault", fault |-> "MessageLengthBelowHeader"]
        BY <1>8, <3>a, <3>1, FramingCases, Sizes
      <4>2. Declared(buffer) < 10
        BY <1>7, <3>1
      <4>3. Framing(buffer) = [kind |-> "Fault", fault |-> "MessageLengthBelowHeader"]
        BY <1>1, <1>2, <3>a, <4>2, FramingCases, Sizes
      <4> QED
        BY <4>1, <4>3
    <3>2. CASE Declared(p) > MaxMessageLength
      <4>1. Framing(p) = [kind |-> "Fault", fault |-> "MessageLengthAboveLimit"]
        BY <1>8, <3>a, <3>2, FramingCases, Sizes
      <4>2. Declared(buffer) > MaxMessageLength
        BY <1>7, <3>2
      <4>3. Framing(buffer) = [kind |-> "Fault", fault |-> "MessageLengthAboveLimit"]
        BY <1>1, <1>2, <3>a, <4>2, FramingCases, Sizes
      <4> QED
        BY <4>1, <4>3
    <3>3. Declared(buffer) < 10 \/ Declared(buffer) > MaxMessageLength
      BY <1>1, <1>11, FramingCases
    <3> QED
      BY <1>7, <3>1, <3>2, <3>3
  <2> QED
    BY <1>9, <1>11, <2>1
<1> QED
  BY <1>3, <1>10, <1>11 DEF i, p

\* At the end of the stream no frame of it is left half read: the framer would have
\* answered.
LEMMA NothingLeft ==
  ASSUME OwnInv, Found, taken = Len(Bytes), Framing(buffer).kind = "NeedMore"
  PROVE  Len(seen) = Len(stream.ends)
<1> SUFFICES ASSUME Len(seen) # Len(stream.ends) PROVE FALSE
  OBVIOUS
<1> DEFINE i == Len(seen) + 1
           p == Piece(stream, i)
<1>1. buffer \in Seq(Octets) /\ stream \in Streams /\ Decodes(stream)
  BY DEF OwnInv, Found
<1>2. Len(seen) < Len(stream.ends) /\ taken \in Nat /\ Len(stream.bytes) \in Nat
  BY UnderWay DEF Found, Bytes
<1>3. i \in 1 .. Len(stream.ends) /\ i \in DOMAIN stream.ends /\ Start = Begin(stream, i)
  BY <1>1, <1>2, UnderWay, StreamCuts
<1>4. buffer = SubSeq(stream.bytes, Begin(stream, i) + 1, taken) /\ Begin(stream, i) <= taken
  BY <1>3 DEF Found, Bytes
<1>5. taken = Len(stream.bytes)
  BY DEF Bytes
<1>6. IF stream.means[i].type = "Fault"
      THEN Framing(p) = [kind |-> "Fault", fault |-> stream.means[i].kind]
      ELSE Framing(p) = [kind |-> "Frame", length |-> Len(p) - 4]
  BY <1>1, <1>3 DEF Decodes, PrefixLength
<1> HIDE DEF i
<1>7. /\ p \in Seq(Octets) /\ Len(p) \in Nat /\ Len(p) >= 4
      /\ Len(p) = stream.ends[i] - Begin(stream, i) /\ stream.ends[i] <= Len(stream.bytes)
      /\ stream.ends[i] \in Nat /\ Begin(stream, i) \in Nat
  BY <1>1, <1>3, PieceType
<1> HIDE DEF p
<1>8. Len(buffer) = taken - Begin(stream, i) /\ (Len(buffer) >= 4 => Declared(buffer) = Declared(p))
  <2>1. LET b == SubSeq(stream.bytes, Begin(stream, i) + 1, taken)
        IN  Len(b) = taken - Begin(stream, i) /\ (Len(b) >= 4 => Declared(b) = Declared(p))
    BY <1>1, <1>2, <1>3, <1>4, <1>5, BufferMatches DEF p
  <2> QED
    BY <1>4, <2>1
<1>9. Len(buffer) >= Len(p)
  <2>1. taken \in Nat /\ stream.ends[i] \in Nat /\ Begin(stream, i) \in Nat /\ stream.ends[i] <= taken
    BY <1>2, <1>5, <1>7
  <2>2. Len(buffer) = taken - Begin(stream, i) /\ Len(p) = stream.ends[i] - Begin(stream, i)
    BY <1>7, <1>8
  <2> QED
    BY ONLY <2>1, <2>2
<1>10. Len(buffer) >= 4 /\ Declared(buffer) = Declared(p)
  BY <1>2, <1>7, <1>8, <1>9
<1>11. Declared(buffer) \in 10 .. MaxMessageLength /\ Len(buffer) < 4 + Declared(buffer)
  BY <1>1, <1>10, FramingCases
<1>12. Declared(p) \in 10 .. MaxMessageLength /\ Len(p) < 4 + Declared(p)
  BY <1>2, <1>7, <1>8, <1>9, <1>10, <1>11, Sizes
<1>13. Framing(p).kind = "NeedMore"
  BY <1>7, <1>12, FramingCases, Sizes
<1> QED
  BY <1>6, <1>13

\* Two adjacent stretches.
LEMMA Adjacent ==
  ASSUME NEW bytes \in Seq(Octets), NEW a \in Nat, NEW b \in Nat, NEW c \in Nat,
         a <= b, b <= c, c <= Len(bytes)
  PROVE  SubSeq(bytes, a + 1, b) \o SubSeq(bytes, b + 1, c) = SubSeq(bytes, a + 1, c)
<1> DEFINE x == SubSeq(bytes, a + 1, b)
           y == SubSeq(bytes, b + 1, c)
           z == SubSeq(bytes, a + 1, c)
<1>1. /\ x \in Seq(Octets) /\ Len(x) = b - a /\ \A j \in 1 .. (b - a) : x[j] = bytes[a + j]
      /\ y \in Seq(Octets) /\ Len(y) = c - b /\ \A j \in 1 .. (c - b) : y[j] = bytes[b + j]
      /\ z \in Seq(Octets) /\ Len(z) = c - a /\ \A j \in 1 .. (c - a) : z[j] = bytes[a + j]
  <2>1. b <= Len(bytes) /\ a <= c
    OBVIOUS
  <2> QED
    BY <2>1, Stretch
<1> HIDE DEF x, y, z
<1>2. /\ x \o y \in Seq(Octets) /\ Len(x \o y) = c - a
      /\ \A j \in 1 .. (c - a) : (x \o y)[j] = IF j <= b - a THEN x[j] ELSE y[j - (b - a)]
  <2>1. /\ x \o y \in Seq(Octets) /\ Len(x \o y) = Len(x) + Len(y)
        /\ \A j \in 1 .. (Len(x) + Len(y)) :
             (x \o y)[j] = IF j <= Len(x) THEN x[j] ELSE y[j - Len(x)]
    BY <1>1, ConcatProperties
  <2>2. Len(x) = b - a /\ Len(x) + Len(y) = c - a
    BY <1>1
  <2> QED
    BY <2>1, <2>2
<1>3. ASSUME NEW j \in 1 .. (c - a) PROVE (x \o y)[j] = z[j]
  <2>1. CASE j <= b - a
    BY <1>1, <1>2, <2>1
  <2>2. CASE ~(j <= b - a)
    <3>1. j - (b - a) \in 1 .. (c - b) /\ b + (j - (b - a)) = a + j
      BY <2>2
    <3> QED
      BY <1>1, <1>2, <2>2, <3>1
  <2> QED
    BY <2>1, <2>2
<1>4. x \o y = z
  <2>1. Len(x \o y) = Len(z) /\ \A j \in 1 .. Len(x \o y) : (x \o y)[j] = z[j]
    BY <1>1, <1>2, <1>3
  <2> QED
    BY <1>1, <1>2, <2>1, SeqEqual
<1> QED
  BY <1>4 DEF x, y, z

\* Every step keeps the reports the first frames of the stream.
LEMMA FoundKept ==
  ASSUME OwnInv, Found, [Next]_vars
  PROVE  Found'
<1>1. ASSUME UNCHANGED <<stream, taken, buffer, seen>> PROVE Found'
  BY <1>1 DEF Found, Start, Bytes
<1>2. CASE CompleteFrame
  <2>1. PICK report \in Reports :
           /\ report.found = DecodeFrame(HeaderOf(buffer), TextOf(buffer, Framing(buffer).length))
           /\ seen' = Append(seen, report.found) /\ buffer' = <<>>
           /\ Framing(buffer).kind = "Frame" /\ UNCHANGED <<taken, stream>>
    BY <1>2, CompleteFrameEffect
  <2> DEFINE i == Len(seen) + 1
  <2>2. /\ i <= Len(stream.ends) /\ taken = stream.ends[i] /\ stream.means[i].type # "Fault"
        /\ report.found = stream.means[i]
    <3>1. Len(seen) < Len(stream.ends) /\ Len(seen) \in Nat /\ Len(stream.ends) \in Nat
      BY <2>1, AnswerIsMeant, UnderWay
    <3> QED
      BY <2>1, <3>1, AnswerIsMeant
  <2>3. seen \in Seq(Verdicts) /\ Len(seen) \in Nat /\ i \in Nat
    BY DEF OwnInv
  <2>4. /\ Len(seen') = i /\ seen'[i] = stream.means[i]
        /\ \A j \in 1 .. Len(seen) : seen'[j] = seen[j]
    BY <2>1, <2>2, <2>3
  <2>5. \A j \in 1 .. Len(seen') : seen'[j] = stream.means[j] /\ stream.means[j].type # "Fault"
    BY <2>2, <2>3, <2>4 DEF Found
  <2>6. Start' = taken
    BY <2>1, <2>2, <2>3, <2>4 DEF Start
  <2>7. taken \in Nat /\ Bytes \in Seq(Octets) /\ SubSeq(Bytes, taken + 1, taken) = <<>>
    BY StreamType, UnderWay DEF OwnInv, Bytes
  <2>8. Bytes' = Bytes
    BY <2>1 DEF Bytes
  <2>9. Start' <= taken' /\ buffer' = SubSeq(Bytes', Start' + 1, taken')
    BY <2>1, <2>6, <2>7, <2>8
  <2>10. Len(seen') <= Len(stream.ends)
    BY <2>2, <2>4
  <2>11. Decodes(stream)
    BY DEF Found
  <2> QED
    BY <2>1, <2>5, <2>9, <2>10, <2>11 DEF Found
<1>3. CASE Read
  <2>1. PICK n \in Nat \ {0} :
           /\ taken + n <= sent /\ taken' = taken + n
           /\ buffer' = buffer \o SubSeq(Bytes, taken + 1, taken + n)
    BY <1>3, ReadEffect
  <2>2. UNCHANGED <<stream, seen>>
    BY <1>3 DEF Read, WorkerLeaves
  <2>3. /\ Bytes \in Seq(Octets) /\ Len(Bytes) \in Nat /\ taken \in Nat /\ sent \in Nat
        /\ sent <= Len(Bytes) /\ Start \in Nat
    BY StreamType, UnderWay DEF OwnInv, Bytes
  <2>4. Start <= taken /\ buffer = SubSeq(Bytes, Start + 1, taken)
    BY DEF Found
  <2>5. taken + n \in Nat /\ taken <= taken + n /\ taken + n <= Len(Bytes)
    BY <2>1, <2>3
  <2>6. buffer' = SubSeq(Bytes, Start + 1, taken + n)
    BY <2>1, <2>3, <2>4, <2>5, Adjacent
  <2>7. Start' = Start /\ Bytes' = Bytes
    BY <2>2 DEF Start, Bytes
  <2>8. Start' <= taken' /\ buffer' = SubSeq(Bytes', Start' + 1, taken')
    <3>1. Start <= taken + n
      BY <2>3, <2>4, <2>5
    <3> QED
      BY ONLY <2>1, <2>6, <2>7, <3>1
  <2> QED
    BY <2>2, <2>8 DEF Found
<1>4. CASE Arrive \/ PeerCloses \/ TakeReport \/ DropReport \/ OwnerStops \/ Tick
  BY <1>1, <1>4 DEF Arrive, PeerCloses, TakeReport, DropReport, OwnerStops, Tick
<1>5. CASE Reserve
  BY <1>1, <1>5 DEF Reserve, WorkerLeaves
<1>6. CASE Abandon \/ FramingFault \/ TimeOut \/ EndOfStream \/ ReadFails
  <2>1. \E r : End(r)
    BY <1>6 DEF Abandon, FramingFault, TimeOut, EndOfStream, ReadFails
  <2> QED
    BY <1>1, <2>1 DEF End, WorkerLeaves
<1>7. CASE UNCHANGED vars
  BY <1>1, <1>7 DEF vars
<1> QED
  BY <1>2, <1>3, <1>4, <1>5, <1>6, <1>7 DEF Next, Worker

\* A task that ended says the truth about the stream.
LEMMA EndedKept ==
  ASSUME OwnInv, Found, Ended, [Next]_vars
  PROVE  Ended'
<1>1. ASSUME UNCHANGED <<stream, seen, worker, result>>,
             closed' = closed \/ closed' = TRUE, sent' = sent \/ closed = FALSE
      PROVE  Ended'
  <2>1. CASE sent' = sent
    BY <1>1, <2>1 DEF Ended, Bytes
  <2>2. CASE closed = FALSE
    BY <1>1, <2>2 DEF Ended, Bytes
  <2> QED
    BY <1>1, <2>1, <2>2
<1>2. CASE Arrive \/ PeerCloses \/ TakeReport \/ DropReport \/ OwnerStops \/ Tick
  <2>1. /\ UNCHANGED <<stream, seen, worker, result>>
        /\ closed' = closed \/ closed' = TRUE
        /\ sent' = sent \/ closed = FALSE
    BY <1>2 DEF Arrive, PeerCloses, TakeReport, DropReport, OwnerStops, Tick, OwnInv
  <2> QED
    BY <1>1, <2>1
<1>3. CASE Reserve \/ CompleteFrame \/ Read
  <2>1. worker \in {"reserve", "read"} /\ worker' \in {"reserve", "read"} /\ result' = result
    BY <1>3 DEF Reserve, CompleteFrame, Read, Waiting
  <2>2. result = None /\ result' = None
    BY <2>1 DEF Ended
  <2> QED
    BY <2>1, <2>2, NoneAssumption DEF Ended, Faults, Failures
<1>4. CASE FramingFault
  <2>1. Framing(buffer).kind = "Fault" /\ Framing(buffer).fault \in Faults
    <3>1. buffer \in Seq(Octets) /\ Framing(buffer).kind = "Fault"
      BY <1>4 DEF FramingFault, OwnInv
    <3> QED
      BY <3>1, FramingCases DEF Faults
  <2>2. /\ worker' = "ended" /\ result' = Framing(buffer).fault
        /\ UNCHANGED <<stream, seen, sent, closed>>
    BY <1>4 DEF FramingFault, End, WorkerLeaves
  <2>3. /\ Len(seen) < Len(stream.ends)
        /\ stream.means[Len(seen) + 1].type = "Fault"
        /\ stream.means[Len(seen) + 1].kind = Framing(buffer).fault
    BY <2>1, AnswerIsMeant
  <2>4. result' # None /\ result' # "EndOfStream"
    BY <2>1, <2>2, NoneAssumption DEF Failures, Faults
  <2> QED
    BY <2>2, <2>3, <2>4 DEF Ended
<1>5. CASE EndOfStream
  <2>1. /\ worker' = "ended" /\ result' = "EndOfStream" /\ closed /\ taken = sent
        /\ UNCHANGED <<stream, seen, sent, closed>> /\ Framing(buffer).kind = "NeedMore"
    BY <1>5 DEF EndOfStream, Waiting, End, WorkerLeaves
  <2>2. sent = Len(Bytes) => Len(seen) = Len(stream.ends)
    BY <2>1, NothingLeft
  <2>3. result' # None /\ result' \notin Faults
    BY <2>1, NoneAssumption DEF Failures, Faults
  <2> QED
    BY <2>1, <2>2, <2>3 DEF Ended, Bytes
<1>6. CASE Abandon \/ TimeOut \/ ReadFails
  <2>1. \E r \in {"ConsumerGone", "Cancelled", "IntercharacterTimeout", "TransportFault"} : End(r)
    BY <1>6 DEF Abandon, TimeOut, ReadFails
  <2>2. /\ result' \in {"ConsumerGone", "Cancelled", "IntercharacterTimeout", "TransportFault"}
        /\ worker' = "ended"
    BY <2>1 DEF End
  <2>3. result' # None /\ result' \notin Faults /\ result' # "EndOfStream"
    BY <2>2, NoneAssumption DEF Failures, Faults
  <2> QED
    BY <2>2, <2>3 DEF Ended
<1>7. CASE UNCHANGED vars
  BY <1>1, <1>7 DEF vars
<1> QED
  BY <1>2, <1>3, <1>4, <1>5, <1>6, <1>7 DEF Next, Worker

\* The timer measures silence inside a frame.
LEMMA TimedKept ==
  ASSUME OwnInv, Ended, Timed, [Next]_vars
  PROVE  Timed'
<1>1. /\ T8 \in Nat \ {0} /\ None # T8 /\ None \notin Nat
      /\ progress \in 0 .. T8 \cup {None} /\ silence \in 0 .. T8
      /\ taken \in Nat /\ sent \in Nat /\ taken <= sent
  <2>1. taken \in Nat /\ sent \in Nat /\ taken <= sent
    BY StreamType DEF OwnInv, Bytes
  <2> QED
    BY <2>1, Sizes, NoneAssumption DEF Failures, OwnInv
<1>2. ASSUME UNCHANGED <<buffer, progress, taken, sent, silence, result>> PROVE Timed'
  BY <1>2 DEF Timed
<1>3. CASE Arrive
  <2>1. /\ sent' = sent + 1 /\ silence' = IF progress = T8 THEN silence ELSE 0
        /\ UNCHANGED <<buffer, progress, taken, result>>
    BY <1>3 DEF Arrive
  <2>2. taken' # sent'
    BY <1>1, <2>1
  <2> QED
    BY <2>1, <2>2 DEF Timed
<1>4. CASE PeerCloses \/ TakeReport \/ DropReport \/ OwnerStops
  BY <1>2, <1>4 DEF PeerCloses, TakeReport, DropReport, OwnerStops
<1>5. CASE Reserve
  BY <1>2, <1>5 DEF Reserve, WorkerLeaves
<1>6. CASE CompleteFrame
  <2>1. progress' = None /\ result' = None
    BY <1>6 DEF CompleteFrame, BoundaryProgress, Ended
  <2>2. None # "IntercharacterTimeout"
    BY NoneAssumption DEF Failures
  <2> QED
    BY <1>1, <2>1, <2>2 DEF Timed
<1>7. CASE Read
  <2>1. PICK n \in Nat \ {0} :
           /\ buffer' = buffer \o SubSeq(Bytes, taken + 1, taken + n)
           /\ SubSeq(Bytes, taken + 1, taken + n) \in Seq(Octets)
           /\ Len(SubSeq(Bytes, taken + 1, taken + n)) = n
    BY <1>7, ReadEffect
  <2>2. progress' = 0 /\ result' = None /\ silence' = silence
    BY <1>7 DEF Read, Waiting, ReadProgress, WorkerLeaves, Ended
  <2>3. buffer' # <<>>
    <3>1. buffer \in Seq(Octets)
      BY DEF OwnInv
    <3>2. buffer' \in Seq(Octets) /\ Len(buffer') = Len(buffer) + n /\ Len(buffer) \in Nat
      BY <2>1, <3>1
    <3>3. Len(<<>>) = 0
      OBVIOUS
    <3> QED
      BY <3>2, <3>3
  <2>4. None # "IntercharacterTimeout"
    BY NoneAssumption DEF Failures
  <2> QED
    BY <1>1, <2>2, <2>3, <2>4 DEF Timed
<1>8. CASE TimeOut
  BY <1>8 DEF TimeOut, End, WorkerLeaves, Timed
<1>9. CASE Abandon \/ FramingFault \/ EndOfStream \/ ReadFails
  <2>1. \E r : End(r) /\ r # "IntercharacterTimeout"
    <3>1. CASE FramingFault
      <4>1. buffer \in Seq(Octets) /\ Framing(buffer).kind = "Fault"
        BY <3>1 DEF FramingFault, OwnInv
      <4>2. Framing(buffer).fault # "IntercharacterTimeout"
        BY <4>1, FramingCases
      <4> QED
        BY <3>1, <4>2 DEF FramingFault
    <3>2. CASE Abandon \/ EndOfStream \/ ReadFails
      BY <3>2 DEF Abandon, EndOfStream, ReadFails
    <3> QED
      BY <1>9, <3>1, <3>2
  <2> QED
    BY <2>1 DEF End, WorkerLeaves, Timed
<1>10. CASE Tick
  <2>1. /\ progress # T8 /\ progress' = IF progress = None THEN None ELSE progress + 1
        /\ silence' = IF silence < T8 THEN silence + 1 ELSE silence
        /\ UNCHANGED <<sent, taken, result, buffer>> /\ result = None
    BY <1>10 DEF Tick, Waiting, Ended
  <2>2. CASE progress = None
    BY <1>1, <2>1, <2>2, NoneAssumption DEF Failures, Timed
  <2>3. CASE progress # None
    <3>1. worker = "read" /\ taken = sent
      BY <1>10, <2>3 DEF Tick, Waiting, OwnInv, Timed
    <3>2. progress <= silence /\ progress \in Nat /\ progress < T8 /\ silence \in 0 .. T8
      BY <1>1, <2>1, <2>3, <3>1 DEF Timed
    <3>3. progress' <= silence' /\ (progress' = T8 => silence' = T8)
      BY <1>1, <2>1, <2>3, <3>2
    <3>4. result' # "IntercharacterTimeout" /\ buffer' # <<>>
      BY <2>1, <2>3, NoneAssumption DEF Failures, Timed
    <3> QED
      BY <3>3, <3>4 DEF Timed
  <2> QED
    BY <2>2, <2>3
<1>11. CASE UNCHANGED vars
  BY <1>2, <1>11 DEF vars
<1> QED
  BY <1>3, <1>4, <1>5, <1>6, <1>7, <1>8, <1>9, <1>10, <1>11 DEF Next, Worker

\* Nothing is read or reported at first.
LEMMA InitFaithful ==
  ASSUME Init, \A s \in Streams : Decodes(s)
  PROVE  Found /\ Ended /\ Timed
<1>1. /\ stream \in Streams /\ taken = 0 /\ worker = "reserve" /\ result = None /\ buffer = <<>>
      /\ progress = None /\ seen = <<>>
  BY DEF Init
<1>2. Len(seen) = 0 /\ Start = 0
  BY <1>1 DEF Start
<1>3. Len(stream.ends) \in Nat /\ Bytes \in Seq(Octets) /\ SubSeq(Bytes, 1, 0) = <<>>
  BY <1>1, StreamType, StreamCuts DEF Bytes
<1>4. Found
  BY <1>1, <1>2, <1>3 DEF Found
<1>5. Ended
  BY <1>1, NoneAssumption DEF Failures, Ended, Faults
<1>6. Timed
  <2>1. None # T8 /\ None # "IntercharacterTimeout"
    BY Sizes, NoneAssumption DEF Failures
  <2> QED
    BY <1>1, <2>1 DEF Timed
<1> QED
  BY <1>4, <1>5, <1>6

\* However the bytes are cut into reads, the reports are the frames the peer sent
\* (FrameReader::next, HsmsFrameDecoder::decode, ReaderWorker::run), once framer,
\* validator and profile read each frame by itself as it was meant.
THEOREM StreamAlwaysFaithful ==
  (\A s \in Streams : Decodes(s)) /\ Spec => []StreamIsFaithful
<1> DEFINE FaithInv == Found /\ Ended /\ Timed
<1>1. Init /\ (\A s \in Streams : Decodes(s)) => FaithInv
  BY InitFaithful
<1>2. OwnInv /\ FaithInv /\ [Next]_vars => FaithInv'
  BY FoundKept, EndedKept, TimedKept
<1>3. OwnInv /\ FaithInv => StreamIsFaithful
  <2> SUFFICES ASSUME OwnInv, FaithInv PROVE StreamIsFaithful
    OBVIOUS
  <2>1. DOMAIN stream.ends = 1 .. Len(stream.ends) /\ Len(seen) \in Nat /\ Len(stream.ends) \in Nat
    BY UnderWay, StreamCuts DEF OwnInv
  <2>2. \A i \in 1 .. Len(seen) :
          i \in DOMAIN stream.ends /\ seen[i] = stream.means[i] /\ seen[i].type # "Fault"
    BY <2>1 DEF Found
  <2>3. result = "IntercharacterTimeout" => silence = T8 /\ buffer # <<>>
    <3>1. None # T8
      BY Sizes, NoneAssumption DEF Failures
    <3> QED
      BY <3>1 DEF Timed
  <2> QED
    BY <2>2, <2>3 DEF StreamIsFaithful, Found, Ended, Faults
<1> HIDE DEF FaithInv
<1>4. Spec => []OwnInv
  BY OwnAlways
<1> QED
  BY <1>1, <1>2, <1>3, <1>4, PTL DEF Spec

=============================================================================
