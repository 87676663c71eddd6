--------------------------- MODULE GenerationSteps ---------------------------
(***************************************************************************)
(* What the endpoint relies on of one connection generation: the steps a   *)
(* GenerationRuntime (src/hsms/generation/runtime.rs) may take, seen from  *)
(* its owner.  A generation g has a requested drain, the reason it closes  *)
(* for, whether its transport is closed, the result of its cleanup and the *)
(* operations it has accepted and not yet answered.                        *)
(*                                                                         *)
(* GenerationContract makes this a specification, which GenerationRuntime  *)
(* implements; Endpoint runs on it.                                        *)
(***************************************************************************)
EXTENDS FiniteSets

CONSTANTS
  None,
  Operations,     \* operations the application may submit
  OwnReasons      \* why a generation may end without being asked to

\* from_stream: a connected generation owns no application operation.
NewGeneration ==
  [drain |-> None, closing |-> None, closed |-> FALSE, exit |-> None,
   owned |-> {}, seen |-> {}]

\* is_draining.
IsDraining(g) == g.drain # None \/ g.closing # None

\* begin_graceful_close: the first request owns the reason.
BeginGracefulClose(g, reason) == IF IsDraining(g) THEN g ELSE [g EXCEPT !.drain = reason]

\* What try_accept_control, _send, _request and _reply admit.
MayAdmit(g, reply) == g.closing = None /\ (reply \/ g.drain = None)

Admit(g, op) == [g EXCEPT !.owned = @ \cup {op}, !.seen = @ \cup {op}]

Settle(g, ops) == [g EXCEPT !.owned = @ \ ops]

\* The reason a round may close g with: the first one is kept.
CloseChoices(g) ==
  IF g.closing # None THEN {g.closing} ELSE OwnReasons \cup ({g.drain} \ {None})

Closing(g, ops, reason, closed) ==
  [Settle(g, ops) EXCEPT !.closing = reason, !.closed = closed]

\* step: answer operations, or begin to close, or close the transport.
Rounds(g) ==
  IF g.closed THEN {}
  ELSE {Settle(g, ops) : ops \in SUBSET g.owned}
       \cup {Closing(g, ops, r, c) : ops \in SUBSET g.owned, r \in CloseChoices(g), c \in BOOLEAN}

\* force_close: at once, but operations whose write is in flight stay open.
ForcedCloses(g, reason) ==
  {Closing(g, ops, IF g.closing = None THEN reason ELSE g.closing, TRUE) : ops \in SUBSET g.owned}

\* The reports that a cleanup applies while it waits for the tasks.
Reports(g) == IF g.closed /\ g.exit # "Clean" THEN {Settle(g, ops) : ops \in SUBSET g.owned} ELSE {}

\* finish and recover_cleanup: a clean exit has answered everything, a poisoned
\* one may keep operations that a task not known to have stopped may still write.
Exits(g) ==
  IF ~g.closed \/ g.exit = "Clean" THEN {}
  ELSE {[Settle(g, g.owned) EXCEPT !.exit = "Clean"]}
       \cup {[Settle(g, ops) EXCEPT !.exit = "Poisoned"] : ops \in SUBSET g.owned}

=============================================================================
