-------------------------- MODULE MCNeuronDynamics --------------------------
(* Sequences of up to three steps over the residues of 19.                   *)
EXTENDS NeuronDynamics

MCLeaves == 0 .. 4
MCInputs == {2, 5, 8, 16}
MCVoltages == {1, 15}
MCParameters == {3, 12}
=============================================================================
