---------------------------- MODULE MCTurnActivity ----------------------------
(***************************************************************************)
(* Instances of TurnActivity for TLC: the turns are interchangeable.       *)
(***************************************************************************)
EXTENDS TurnActivity, TLC

TurnSymmetry == Permutations(Turn)

=============================================================================
