----------------------------- MODULE EndpointView -----------------------------
(***************************************************************************)
(* What an endpoint promises to whoever watches its snapshots              *)
(* (EndpointStateSnapshot, src/hsms/lifecycle/state.rs): one connection at *)
(* a time under identities that only grow, each of them seen draining and  *)
(* then reported before the next one opens, no connection without running  *)
(* intent, and no way out of a fault but a Stop.                           *)
(***************************************************************************)
EXTENDS Integers

CONSTANTS
  None,
  Generations,   \* identities of connections
  Reasons        \* ConnectionCloseReason

VARIABLE view    \* [desired, phase, slot, exit]

NoSlot == [kind |-> "None", gen |-> 0]

Empty == view.slot.kind = "None"

\* The latest identity that was reported.
Reported == IF view.exit = None THEN 0 ELSE view.exit.gen

Step(desired, phase, slot, exit) ==
  view' = [desired |-> desired, phase |-> phase, slot |-> slot, exit |-> exit]

Init == view = [desired |-> "Stopped", phase |-> "StoppedClean", slot |-> NoSlot, exit |-> None]

Start ==
  /\ Empty /\ view.phase = "StoppedClean"
  /\ Step("Running", "Running", NoSlot, view.exit)

Open ==
  \E g \in Generations :
    /\ Empty /\ view.phase = "Running" /\ g > Reported
    /\ Step("Running", "Running", [kind |-> "Open", gen |-> g], view.exit)

\* The connection begins to close, by itself, on a Disconnect or on a Stop.
Drain ==
  \E desired \in {view.desired, "Stopped"} :
    /\ view.slot.kind \in {"Open", "Draining"} /\ view.phase # "Faulted"
    /\ Step(desired, "Draining", [kind |-> "Draining", gen |-> view.slot.gen], view.exit)

Close ==
  \E reason \in Reasons, clean \in BOOLEAN :
    LET exit == [gen |-> view.slot.gen, reason |-> reason, clean |-> clean]
    IN  /\ view.slot.kind = "Draining" /\ view.phase = "Draining"
        /\ \/ clean /\ view.desired = "Running"
              /\ \E phase \in {"Running", "Faulted"} : Step("Running", phase, NoSlot, exit)
           \/ clean /\ view.desired = "Stopped" /\ Step("Stopped", "StoppedClean", NoSlot, exit)
           \/ ~clean /\ Step(view.desired, "Faulted", view.slot, exit)

\* A Stop tries to recover a connection that could not be cleaned up.
Recover ==
  \E clean \in BOOLEAN :
    /\ view.slot.kind = "Draining" /\ view.phase = "Faulted" /\ Reported = view.slot.gen
    /\ LET exit == [view.exit EXCEPT !.clean = clean]
       IN  IF clean THEN Step("Stopped", "StoppedClean", NoSlot, exit)
           ELSE Step("Stopped", "Faulted", view.slot, exit)

Fault == Empty /\ view.phase = "Running" /\ Step("Running", "Faulted", NoSlot, view.exit)

Stop == Empty /\ Step("Stopped", "StoppedClean", NoSlot, view.exit)

\* The runtime is dropped while it owns a connection.
Abandon == ~Empty /\ Step("Stopped", "Faulted", view.slot, view.exit)

Next == Start \/ Open \/ Drain \/ Close \/ Recover \/ Fault \/ Stop \/ Abandon

Spec == Init /\ [][Next]_view

=============================================================================
