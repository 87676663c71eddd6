------------------------------- MODULE HsmsPair -------------------------------
(***************************************************************************)
(* Two endpoints of this code talking to each other: two SessionCores, the *)
(* FIFO their Drivers and Writers keep between a batch and the socket, and *)
(* the two directions of one TCP connection.                               *)
(*                                                                         *)
(* SessionCore.tla lets the peer say anything.  Here the peer is the same  *)
(* code, so what the two sides believe of each other can be stated: both   *)
(* may select, deselect, separate and ask at once, a response may overtake *)
(* the report of its own request, and one side may close while frames of   *)
(* the other are still on their way.                                       *)
(***************************************************************************)
EXTENDS SessionCoreOps

CONSTANTS
  Sides,         \* the two endpoints
  Kinds,         \* commands the applications use
  Timers,        \* deadlines that may pass: t3, drain, t6, t7
  MaxCommands    \* bound: commands of both applications together

ReplyCommand == 0

ASSUME PairAssumption ==
  /\ \E a, b \in Sides : a # b /\ Sides = {a, b}
  /\ Kinds \subseteq CommandNames
  /\ Timers \subseteq {"t3", "drain", "t6", "t7"}
  /\ MaxCommands \in Nat /\ Commands = 0 .. MaxCommands
  /\ WriteSpace >= 2 /\ SystemBytesSpace >= 1   \* room for the Select of Init

VARIABLES
  cores,     \* the SessionCore of each side
  lane,      \* admitted frames of each side, not yet written
  net,       \* messages each side has written and its peer has not read
  unreported,\* WriteIds written whose outcome Core does not know yet
  link,      \* [phase, barrier]: open, closing behind its barrier, or ended
  status,    \* history: by side and command, "unused", "open" or its result
  asked,     \* history: the System Bytes of each request
  answered,  \* history: System Bytes each side answered with a Secondary
  refusals   \* history: what a side told its peer it should not have done

vars == <<cores, lane, net, unreported, link, status, asked, answered, refusals>>

Peer(s) == CHOOSE t \in Sides : t # s

AppCommands == Commands \ {ReplyCommand}

Connected == Begin(OnConnected(NewCore))

\* A Core that selected: its Select.req, if it wrote one, took System Bytes, and
\* so did no response; each took a WriteId.
Selected(requests, responses) ==
  [Connected EXCEPT !.state = "Selected", !.t7 = FALSE,
                    !.nextSys = requests, !.nextWrite = requests + responses]

\* A connection before either side selects, after one has, or after both have at once.
Init ==
  /\ \/ cores = [s \in Sides |-> Connected]
     \/ \E r \in Sides : cores = [s \in Sides |-> IF s = r THEN Selected(1, 0) ELSE Selected(0, 1)]
     \/ cores = [s \in Sides |-> Selected(1, 1)]
  /\ lane = [s \in Sides |-> <<>>]
  /\ net = [s \in Sides |-> <<>>]
  /\ unreported = [s \in Sides |-> <<>>]
  /\ link = [s \in Sides |-> [phase |-> "open", barrier |-> Immediate]]
  /\ status = [s \in Sides |-> [k \in AppCommands |-> "unused"]]
  /\ asked = [s \in Sides |-> [k \in AppCommands |-> None]]
  /\ answered = [s \in Sides |-> {}]
  /\ refusals = {}

-----------------------------------------------------------------------------
(* Driver: a batch of Core is applied in order.                            *)

InBatch(out, act) == {out[i] : i \in {j \in DOMAIN out : out[j].act = act}}

\* The frames of a batch, in the order it holds them.
Frames(out) ==
  LET at == Ascending({i \in DOMAIN out : out[i].act = "SendFrame"})
  IN  [j \in DOMAIN at |-> out[at[j]]]

\* Messages that tell the peer it broke the procedures.
Refusal(m) ==
  \/ m.type = "Reject.req"
  \/ m.type = "Deselect.rsp" /\ m.status = "NOT_SELECTED"
  \/ m.type = "Select.rsp" /\ m.status # "SUCCESS"

Results(s, c) ==
  [k \in AppCommands |->
     IF \E a \in InBatch(c.out, "CompleteCommand") : k \in a.commands
     THEN (CHOOSE a \in InBatch(c.out, "CompleteCommand") : k \in a.commands).result
     ELSE IF k \in DOMAIN c.open THEN "open" ELSE status[s][k]]

\* apply_action_batch: side s goes on as c.  The barrier of the first close stays.
Apply(s, c) ==
  LET closes == InBatch(c.out, "CloseGeneration")
  IN  /\ cores' = [cores EXCEPT ![s] = Begin(c)]
      /\ lane' = [lane EXCEPT ![s] = @ \o Frames(c.out)]
      /\ link' = [link EXCEPT ![s] =
                    IF @.phase = "open" /\ closes # {}
                    THEN [phase |-> "closing", barrier |-> (CHOOSE a \in closes : TRUE).barrier]
                    ELSE @]
      /\ status' = [status EXCEPT ![s] = Results(s, c)]
      /\ asked' = [asked EXCEPT ![s] = [k \in AppCommands |->
                     IF \E y \in DOMAIN c.data : c.data[y].command = k
                     THEN CHOOSE y \in DOMAIN c.data : c.data[y].command = k ELSE @[k]]]
      /\ answered' = [answered EXCEPT ![s] = @ \cup
                        {a.message.header.sys : a \in
                           {f \in InBatch(c.out, "SendFrame") :
                              f.message.type = "Data" /\ f.message.header.function % 2 = 0}}]
      /\ refusals' = refusals \cup {a.message.type : a \in
                                      {f \in InBatch(c.out, "SendFrame") : Refusal(f.message)}}
                              \cup {a.reason : a \in
                                      {x \in closes : x.reason \in {"ProtocolViolation",
                                                                    "RuntimeInvariant"}}}

Open(s) == link[s].phase = "open"

-----------------------------------------------------------------------------
(* Applications.                                                           *)

Started == {x \in Sides \X AppCommands : status[x[1]][x[2]] # "unused"}

\* Any side runs its next command.
Command(s, kind) ==
  /\ Open(s) /\ Cardinality(Started) < MaxCommands
  /\ \E k \in AppCommands :
       /\ status[s][k] = "unused" /\ \A j \in AppCommands : status[s][j] = "unused" => k <= j
       /\ Apply(s, OnCommand(cores[s], k, kind, [stream |-> 1, function |-> 1, body |-> FALSE]))
  /\ UNCHANGED <<net, unreported>>

\* The application uses a reply capability it still holds, for a Secondary only when
\* the Primary has one (normal_secondary_available).
Reply(s, intent) ==
  /\ Open(s) /\ ReplyCommand \notin DOMAIN cores[s].open
  /\ \E cap \in DOMAIN cores[s].replies :
       /\ intent = "Secondary" => cores[s].replies[cap].function < 255
       /\ Apply(s, OnReply(cores[s], ReplyCommand, cap, intent, FALSE, FALSE))
  /\ UNCHANGED <<net, unreported>>

-----------------------------------------------------------------------------
(* Writers, the connection and the clocks.                                 *)

\* The Writer writes the oldest frame; its report comes later.
Write(s) ==
  /\ link[s].phase # "ended" /\ lane[s] # <<>>
  /\ lane' = [lane EXCEPT ![s] = Tail(@)]
  /\ net' = [net EXCEPT ![s] = IF link[Peer(s)].phase = "ended" THEN @
                               ELSE Append(@, Head(lane[s]).message)]
  /\ unreported' = [unreported EXCEPT ![s] = Append(@, Head(lane[s]).write)]
  /\ UNCHANGED <<cores, link, status, asked, answered, refusals>>

\* The report reaches Core.
Report(s) ==
  /\ link[s].phase # "ended" /\ unreported[s] # <<>>
  /\ Apply(s, OnWriteOutcome(cores[s], Head(unreported[s]), "Committed", NothingDue))
  /\ unreported' = [unreported EXCEPT ![s] = Tail(@)]
  /\ UNCHANGED net

\* The Reader hands over the oldest message of the peer.
Receive(s) ==
  /\ Open(s) /\ net[Peer(s)] # <<>>
  /\ Apply(s, OnMessage(cores[s], Head(net[Peer(s)]), FALSE))
  /\ net' = [net EXCEPT ![Peer(s)] = Tail(@)]
  /\ UNCHANGED unreported

\* Deadlines that pass: T3 and the drain end an operation, T6 and T7 the session.
Dues(c) ==
  {[NothingDue EXCEPT !.t3 = {y}] :
     y \in {z \in DOMAIN c.data : "t3" \in Timers /\ c.data[z].armed}}
  \cup {[NothingDue EXCEPT !.drain = TRUE] : t \in {d \in Timers : d = "drain" /\ c.drain # None}}
  \cup {[NothingDue EXCEPT !.t6 = TRUE] :
          t \in {d \in Timers : d = "t6" /\ c.active # None /\ c.active.armed}}
  \cup {[NothingDue EXCEPT !.t7 = TRUE] : t \in {d \in Timers : d = "t7" /\ c.t7}}

Tick(s) ==
  /\ Open(s)
  /\ \E due \in Dues(cores[s]) : Apply(s, AdvanceTime(cores[s], due))
  /\ UNCHANGED <<net, unreported>>

\* The close barrier is passed: the socket closes and the Writer ends.
End(s) ==
  /\ link[s].phase = "closing" /\ link[s].barrier \notin DOMAIN cores[s].pending
  /\ LET c == FinalizeWriter(cores[s]) IN
       /\ cores' = [cores EXCEPT ![s] = Begin(c)]
       /\ status' = [status EXCEPT ![s] = Results(s, c)]
  /\ link' = [link EXCEPT ![s].phase = "ended"]
  /\ lane' = [lane EXCEPT ![s] = <<>>]
  /\ unreported' = [unreported EXCEPT ![s] = <<>>]
  /\ UNCHANGED <<net, asked, answered, refusals>>

\* The peer has closed: what it wrote may or may not have been read by then.
Lost(s) ==
  /\ Open(s) /\ link[Peer(s)].phase = "ended"
  /\ Apply(s, OnShutdown(cores[s], "TransportLost"))
  /\ UNCHANGED <<net, unreported>>

\* What a side does without its application.
Work(s) == Write(s) \/ Report(s) \/ Receive(s) \/ Tick(s) \/ End(s) \/ Lost(s)

Next ==
  \E s \in Sides :
    \/ \E kind \in Kinds : Command(s, kind)
    \/ \E intent \in {"Secondary", "Abort", "Abandon"} : Reply(s, intent)
    \/ Work(s)

Spec == Init /\ [][Next]_vars

-----------------------------------------------------------------------------
(* Properties.                                                             *)

\* A direction with nothing on its way.
Silent(s) == lane[s] = <<>> /\ net[s] = <<>>

\* The two sides agree.  Once nothing is on its way and no control procedure is
\* running, both believe the session Selected or both NotSelected, however their
\* Selects and Deselects crossed (receive_select_request, receive_deselect_request);
\* and neither ever does what the other has to refuse: no Reject.req, no refused
\* Select, no Deselect outside Selected and no protocol violation, so in particular
\* no Data reaches a side that has left Selected (progress_deselect, start_data).
PeersAgree ==
  /\ refusals = {}
  /\ (\A s \in Sides : Open(s) /\ Silent(s) /\ cores[s].active = None) =>
       \A s, t \in Sides : cores[s].state = cores[t].state

\* A request ends with a Secondary or an abort only if the peer's application
\* answered that very request, also when System Bytes of the two directions
\* coincide (receive_data).
RequestsMeanReplies ==
  \A s \in Sides, k \in AppCommands :
    asked[s][k] # None /\ status[s][k] \in {"Secondary", "TransactionAborted"} =>
      asked[s][k] \in answered[Peer(s)]

\* Something that will happen without the applications, T6 and T7: a frame to write
\* or to read, a report, a T3 or drain deadline, a close.
HasWork(s) ==
  \/ link[s].phase # "ended" /\ (lane[s] # <<>> \/ unreported[s] # <<>>)
  \/ Open(s) /\ (net[Peer(s)] # <<>> \/ link[Peer(s)].phase = "ended"
                  \/ \E due \in Dues(cores[s]) : ~due.t6 /\ ~due.t7)
  \/ link[s].phase = "closing" /\ link[s].barrier \notin DOMAIN cores[s].pending

\* The sides never end up waiting for each other: while a command of either is open,
\* one of them has something to do, however Deselects, requests and closes cross,
\* although no application ever replies and T6 and T7 never pass (progress_deselect).
NobodyIsStuck ==
  (\A s \in Sides : ~HasWork(s)) =>
    \A s \in Sides, k \in AppCommands : status[s][k] # "open"

=============================================================================
