---------------------------- MODULE InboundStream -----------------------------
(***************************************************************************)
(* The inbound half of one connection: the peer's byte stream, FrameReader *)
(* with its T8 timer (src/hsms/generation/transport/io.rs), ReaderWorker   *)
(* with its reservations (transport/bounded_reader.rs) and the owner that  *)
(* consumes the reports.                                                   *)
(*                                                                         *)
(* A stream is [bytes, ends, means]: the bytes, and for each frame of the  *)
(* peer where it ends in them and what it means, which the reader must     *)
(* find however the bytes are cut into reads.                              *)
(* Time is in ticks; the reader is prompt: a tick passes only while it has *)
(* nothing to do but wait.                                                 *)
(***************************************************************************)
EXTENDS HsmsWire, FiniteSets

CONSTANTS
  None,
  Streams,       \* what a peer may send
  T8,            \* in ticks
  Capacity,      \* reports in flight
  WireBytes,     \* aggregate byte budget
  Scratch        \* size of one read

FrameBytesLimit == MaxMessageLength + PrefixLength

\* ReaderWorker::new.
ValidReader ==
  /\ T8 \in Nat \ {0} /\ Capacity \in Nat \ {0} /\ Scratch \in Nat \ {0}
  /\ WireBytes \in Nat /\ WireBytes >= FrameBytesLimit

\* A byte string, cut at increasing places, with one meaning for each piece.
IsStream(s) ==
  /\ s.bytes \in Seq(0 .. 255) /\ s.ends \in Seq(Nat) /\ DOMAIN s.means = DOMAIN s.ends
  /\ \A i, j \in DOMAIN s.ends : i <= j => s.ends[i] <= s.ends[j]
  /\ IF s.ends = <<>> THEN s.bytes = <<>> ELSE s.ends[Len(s.ends)] = Len(s.bytes)

ASSUME ReaderAssumption == ValidReader /\ \A s \in Streams : IsStream(s)

\* ReadFailure: why the task ends.
Failures ==
  {"MessageLengthBelowHeader", "MessageLengthAboveLimit", "IntercharacterTimeout", "EndOfStream",
   "TransportFault", "Cancelled", "ConsumerGone"}

\* Option::None is no failure and no number of ticks.
ASSUME NoneAssumption == None \notin Nat \cup Failures

VARIABLES
  stream,      \* what the peer sends
  sent,        \* bytes that have reached the socket
  taken,       \* bytes the reader has taken from it
  closed,      \* the peer closed its side
  worker,      \* reserve, read or ended
  result,      \* of the task
  buffer, progress,   \* progress: None, or ticks since the last read
  reports,     \* the report queue
  holding,     \* reports the owner still processes
  owner,       \* running, cancelled or gone
  seen,        \* history: everything that was reported
  silence      \* history: ticks since the last byte arrived, up to T8

vars == <<stream, sent, taken, closed, worker, result, buffer, progress, reports, holding, owner,
          seen, silence>>

\* All bytes of the stream.
Bytes == stream.bytes

Init ==
  /\ stream \in Streams /\ sent = 0 /\ taken = 0 /\ closed = FALSE
  /\ worker = "reserve" /\ result = None
  /\ buffer = <<>> /\ progress = None /\ reports = <<>> /\ holding = <<>>
  /\ owner = "running" /\ seen = <<>> /\ silence = 0

-----------------------------------------------------------------------------
(* The peer and the owner.                                                 *)

Arrive ==
  /\ ~closed /\ sent < Len(Bytes)
  /\ sent' = sent + 1
  /\ silence' = IF progress = T8 THEN silence ELSE 0   \* too late once T8 is due
  /\ UNCHANGED <<stream, taken, closed, worker, result, buffer, progress, reports, holding, owner,
                 seen>>

\* The peer closes at any byte.
PeerCloses ==
  /\ ~closed /\ closed' = TRUE
  /\ UNCHANGED <<stream, sent, taken, worker, result, buffer, progress, reports, holding, owner,
                 seen, silence>>

\* The owner takes a report, and its permits return when it is done with it.
TakeReport ==
  /\ owner # "gone" /\ reports # <<>>
  /\ reports' = Tail(reports) /\ holding' = Append(holding, Head(reports))
  /\ UNCHANGED <<stream, sent, taken, closed, worker, result, buffer, progress, owner, seen,
                 silence>>

DropReport ==
  /\ holding # <<>> /\ holding' = Tail(holding)
  /\ UNCHANGED <<stream, sent, taken, closed, worker, result, buffer, progress, reports, owner,
                 seen, silence>>

\* The owner cancels the task or drops the receiver.
OwnerStops ==
  /\ owner = "running" /\ owner' \in {"cancelled", "gone"}
  /\ UNCHANGED <<stream, sent, taken, closed, worker, result, buffer, progress, reports, holding,
                 seen, silence>>

-----------------------------------------------------------------------------
(* The worker.                                                             *)

WorkerLeaves == UNCHANGED <<stream, sent, closed, holding, owner, silence>>

End(r) ==
  /\ worker' = "ended" /\ result' = r
  /\ UNCHANGED <<taken, buffer, progress, reports, seen>>
  /\ WorkerLeaves

\* Mutant: only the queue is reserved, not the bytes of the frame.
Reservable_AnySize == Len(reports) + Len(holding) < Capacity

\* A slot, the bytes of a maximal frame and room in the queue.
Reservable ==
  /\ Len(reports) + Len(holding) < Capacity
  /\ (Len(reports) + Len(holding) + 1) * FrameBytesLimit <= WireBytes

\* run: everything a frame needs is reserved before its first byte is read.
Reserve ==
  /\ worker = "reserve" /\ owner = "running" /\ Reservable
  /\ worker' = "read"
  /\ UNCHANGED <<taken, result, buffer, progress, reports, seen>>
  /\ WorkerLeaves

Abandon ==
  \/ worker \in {"reserve", "read"} /\ owner = "gone" /\ End("ConsumerGone")
  \/ worker = "reserve" /\ owner = "cancelled" /\ End("Cancelled")
  \/ /\ worker = "read" /\ owner = "cancelled" /\ Framing(buffer).kind = "NeedMore"
     /\ End("Cancelled")

\* Mutant: T8 stays armed at a frame boundary.
BoundaryProgress_Armed == progress

\* The timer stops with a complete frame.
BoundaryProgress == None

\* FrameReader::next: one frame is complete.
CompleteFrame ==
  LET f == Framing(buffer)
  IN  /\ worker = "read" /\ owner # "gone" /\ f.kind = "Frame"
      /\ LET report == [size  |-> PrefixLength + f.length,
                        found |-> DecodeFrame(HeaderOf(buffer), TextOf(buffer, f.length))]
         IN  reports' = Append(reports, report) /\ seen' = Append(seen, report.found)
      /\ buffer' = Rest(buffer, f.length)
      /\ progress' = BoundaryProgress
      /\ worker' = "reserve"
      /\ UNCHANGED <<taken, result>>
      /\ WorkerLeaves

FramingFault ==
  /\ worker = "read" /\ owner # "gone" /\ Framing(buffer).kind = "Fault"
  /\ End(Framing(buffer).fault)

\* Only bytes of the current frame are read.
Wanted(f) == IF f.needed < Scratch THEN f.needed ELSE Scratch

\* Mutant: T8 starts with the body of a frame.
ReadProgress_BodyOnly(b) == IF Len(b) < PrefixLength THEN None ELSE 0

\* last_progress: T8 runs from every byte, those of a partial prefix included.
ReadProgress(b) == 0

\* The order of the select: cancellation, T8, then the socket.
Waiting == worker = "read" /\ owner = "running" /\ Framing(buffer).kind = "NeedMore"

Read ==
  /\ Waiting /\ progress # T8
  /\ \E n \in 1..Wanted(Framing(buffer)) :
       /\ taken + n <= sent
       /\ buffer' = buffer \o SubSeq(Bytes, taken + 1, taken + n)
       /\ taken' = taken + n
  /\ progress' = ReadProgress(buffer')
  /\ UNCHANGED <<worker, result, reports, seen>>
  /\ WorkerLeaves

TimeOut == Waiting /\ progress = T8 /\ End("IntercharacterTimeout")

EndOfStream == Waiting /\ progress # T8 /\ taken = sent /\ closed /\ End("EndOfStream")

\* A reset of the socket.
ReadFails == Waiting /\ progress # T8 /\ End("TransportFault")

\* A tick: the reader is at a reservation it cannot have, or waits for bytes.
Tick ==
  /\ \/ worker = "reserve" /\ owner = "running" /\ ~Reservable
     \/ Waiting /\ taken = sent /\ ~closed
  /\ progress # T8
  /\ silence < T8 \/ progress # None
  /\ silence' = IF silence < T8 THEN silence + 1 ELSE silence
  /\ progress' = IF progress = None THEN None ELSE progress + 1
  /\ UNCHANGED <<stream, sent, taken, closed, worker, result, buffer, reports, holding, owner, seen>>

Worker ==
  Reserve \/ Abandon \/ CompleteFrame \/ FramingFault \/ Read \/ TimeOut \/ EndOfStream \/ ReadFails

Next == Arrive \/ PeerCloses \/ TakeReport \/ DropReport \/ OwnerStops \/ Worker \/ Tick

Spec == Init /\ [][Next]_vars

\* The task and its timer run, and the owner consumes; nothing is asked of the
\* peer, which may stop in the middle of a frame.
Fairness ==
  /\ WF_vars(Reserve \/ Abandon \/ CompleteFrame \/ FramingFault \/ Read \/ TimeOut \/ EndOfStream)
  /\ WF_vars(TakeReport) /\ WF_vars(DropReport) /\ WF_vars(Tick)

FairSpec == Spec /\ Fairness

-----------------------------------------------------------------------------
(* Properties.                                                             *)

\* The bytes of frame i.
Begin(s, i) == IF i = 1 THEN 0 ELSE s.ends[i - 1]
Piece(s, i) == SubSeq(s.bytes, Begin(s, i) + 1, s.ends[i])

\* Framer, validator and profile make of each frame alone what its sender meant.
Decodes(s) ==
  \A i \in DOMAIN s.ends :
    LET f == Framing(Piece(s, i))
    IN  IF s.means[i].type = "Fault" THEN f = [kind |-> "Fault", fault |-> s.means[i].kind]
        ELSE /\ f = [kind |-> "Frame", length |-> Len(Piece(s, i)) - PrefixLength]
             /\ DecodeFrame(HeaderOf(Piece(s, i)), TextOf(Piece(s, i), f.length)) = s.means[i]

\* However the bytes are cut into reads, the reports are the frames of the
\* stream, each with the meaning its sender gave it, in order and without gaps;
\* a refused frame does not shift the ones behind it, and nothing follows a
\* fatal length.  T8 means silence inside a frame: pressure from the owner, however
\* long, and pauses between frames never end the connection.
StreamIsFaithful ==
  /\ Decodes(stream)
  /\ \A i \in 1 .. Len(seen) :
       i \in DOMAIN stream.ends /\ seen[i] = stream.means[i] /\ seen[i].type # "Fault"
  /\ result \in {"MessageLengthBelowHeader", "MessageLengthAboveLimit"} =>
       /\ Len(seen) < Len(stream.ends)
       /\ stream.means[Len(seen) + 1].type = "Fault"
       /\ stream.means[Len(seen) + 1].kind = result
  /\ result = "EndOfStream" /\ sent = Len(Bytes) => Len(seen) = Len(stream.ends)
  /\ result = "IntercharacterTimeout" => silence = T8 /\ buffer # <<>>

\* The bytes of the reports in flight and in the owner's hands.
Size(queue) ==
  Cardinality({byte \in (1 .. Len(queue)) \X (1 .. FrameBytesLimit) :
                 byte[2] <= queue[byte[1]].size})

\* The reader owns no byte outside its reservations: the buffer holds one frame
\* at most, and with the reports it stays within the budget whatever length the
\* peer declares.
OwnershipIsBounded ==
  /\ \A i \in 1 .. Len(reports \o holding) : (reports \o holding)[i].size <= FrameBytesLimit
  /\ Len(buffer) + Size(reports \o holding) <= WireBytes
  /\ worker = "reserve" => buffer = <<>>
  /\ Framing(buffer).kind = "Frame" => Rest(buffer, Framing(buffer).length) = <<>>

\* A frame that began ends in a report or ends the task.
BegunFramesEnd == buffer # <<>> ~> buffer = <<>> \/ worker = "ended"

=============================================================================
