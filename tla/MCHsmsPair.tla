------------------------------ MODULE MCHsmsPair ------------------------------
(***************************************************************************)
(* Instances of HsmsPair for TLC.                                          *)
(***************************************************************************)
EXTENDS HsmsPair, TLC

CommandIds == 0 .. MaxCommands

\* Nothing tells the two sides apart.
Symmetry == Permutations(Sides)

=============================================================================
