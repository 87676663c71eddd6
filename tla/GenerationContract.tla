-------------------------- MODULE GenerationContract --------------------------
(***************************************************************************)
(* The promise of one generation to its owner, as a specification.         *)
(***************************************************************************)
EXTENDS GenerationSteps

CONSTANT DrainReasons     \* what the owner may ask a drain for

VARIABLE generation

Init == generation = NewGeneration

Accept ==
  \E op \in Operations \ generation.seen, reply \in BOOLEAN :
    /\ MayAdmit(generation, reply)
    /\ generation' = Admit(generation, op)

Drain == \E r \in DrainReasons : generation' = BeginGracefulClose(generation, r)

Run == generation' \in Rounds(generation)

Cleanup == generation' \in Reports(generation) \cup Exits(generation)

Next == Accept \/ Drain \/ Run \/ Cleanup

Spec == Init /\ [][Next]_generation

=============================================================================
