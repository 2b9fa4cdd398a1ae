-------------------------- MODULE NeuronAttributes --------------------------
(* The attributes a neuron and its kernels share.                          *)
EXTENDS Residues

CONSTANTS
  Threshold,      \* v_threshold
  ResetVoltage,   \* v_reset of a hard reset
  Tau,            \* the time constant of LIF and KLIF
  MembraneDecay,  \* of FedSNN's neuron
  Alpha,          \* of the ATan surrogate
  Pi

ASSUME AttributesAssumption ==
  /\ {Threshold, ResetVoltage, MembraneDecay, Alpha} \subseteq Number
  /\ {Tau, Pi} \subseteq Number \ {0}
=============================================================================
