---------------------------- MODULE MCNeuronCall ----------------------------
(***************************************************************************)
(* NeuronCall over two shapes, single steps and sequences of two steps, at *)
(* most three inputs between resets, for the class with every rule: a      *)
(* learnable scalar, and a single step that strict refuses.                *)
(***************************************************************************)
EXTENDS NeuronCall, TLC

CONSTANTS s1, s2

MCStepCells == 1 .. 5
MCSequenceCells == 6 .. 8
MCShapes == {s1, s2}
ShapeSymmetry == Permutations(MCShapes)
MCLengths == {2}
MCKinds == {"klif"}
=============================================================================
