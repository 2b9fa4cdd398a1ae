--------------------------- MODULE EagerDynamics ---------------------------
(* One time step of the PyTorch neurons (activation_based/neuron.py) and   *)
(* of FedSNN's decay LIF (fedsnn.py), with the derivatives autograd gives. *)
(*                                                                         *)
(* A call c has its operation op, hard for a reset to ResetVoltage, detach *)
(* for detach_reset, decay for decay_input and scale for scale_reset; p is *)
(* the learnable parameter: k of KLIF, the reciprocal time constant of     *)
(* PLIF.                                                                   *)
EXTENDS NeuronAttributes

\* The derivative of atan(pi / 2 * alpha * x) / pi + 1 / 2.
ATanDerivative(a) ==
  LET scale == (Pi \oslash 2) \otimes Alpha
      scaled == scale \otimes a
  IN  (scale \oslash Pi) \oslash (1 \oplus (scaled \otimes scaled))

\* Straight through: the Heaviside step forward, the derivative of the
\* primitive function backward.
Surrogate(x) ==
  [val |-> IF AtLeast(x.val, 0) THEN 1 ELSE 0,
   tan |-> [l \in Leaves |-> ATanDerivative(x.val) \otimes x.tan[l]]]

RestOf(c) == Const(IF c.hard THEN ResetVoltage ELSE 0)

IFCharge(v, x) == v ++ x

LIFCharge(c, v, x) ==
  IF c.decay
  THEN v ++ ((x -- (v -- RestOf(c))) // Const(Tau))
  ELSE (v -- ((v -- RestOf(c)) // Const(Tau))) ++ x

KLIFCharge(c, v, x, k) == Relu(k ** LIFCharge(c, v, x))

PLIFCharge(c, v, x, reciprocalTau) ==
  IF c.decay
  THEN v ++ ((x -- (v -- RestOf(c))) ** reciprocalTau)
  ELSE (v -- ((v -- RestOf(c)) ** reciprocalTau)) ++ x

NeuronalCharge(c, v, x, p) ==
  CASE c.op = "if" -> IFCharge(v, x)
    [] c.op = "lif" -> LIFCharge(c, v, x)
    [] c.op = "klif" -> KLIFCharge(c, v, x, p)
    [] c.op = "plif" -> PLIFCharge(c, v, x, p)

NeuronalFire(h) == Surrogate(h -- Const(Threshold))

\* The reset of a potential by a threshold, both as they are or over k.
ResetBy(c, voltage, threshold, spike) ==
  LET s == IF c.detach THEN Detach(spike) ELSE spike
  IN  IF c.hard
      THEN (s ** Const(ResetVoltage)) ++ ((Const(1) -- s) ** voltage)
      ELSE voltage -- (s ** threshold)

NeuronalReset(c, h, spike, p) ==
  IF c.op = "klif" /\ c.scale
  THEN ResetBy(c, h // p, Const(Threshold) // p, spike)
  ELSE ResetBy(c, h, Const(Threshold), spike)

SingleStep(c, v, x, p) ==
  LET h == NeuronalCharge(c, v, x, p)
      spike == NeuronalFire(h)
  IN  [spike |-> spike, v |-> NeuronalReset(c, h, spike, p)]

\* FedSNN's neuron: it starts at zero, and its soft reset is always detached.
DecayLIFStep(v, x) ==
  LET charged == (v ** Const(MembraneDecay)) ++ x
      spike == NeuronalFire(charged)
  IN  [spike |-> spike, v |-> charged -- (Detach(spike) ** Const(Threshold))]

EagerStep(c, v, x, p) ==
  IF c.op = "fedsnn" THEN DecayLIFStep(v, x) ELSE SingleStep(c, v, x, p)
=============================================================================
