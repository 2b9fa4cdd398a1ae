--------------------------- MODULE KernelDynamics ---------------------------
(* One time step of each fused kernel (native/aspy/op_kernel), forward and *)
(* backward, for one neuron.  A forward step returns the voltage register  *)
(* and what it kept in global memory at this time; a backward step takes   *)
(* that, the gradients given for this time and the carry, the gradient by  *)
(* the voltage after the step.                                             *)
EXTENDS NeuronAttributes

\* The attributes of a launch: a soft reset passes a reset voltage of zero.
ResetOf(c) == IF c.hard THEN ResetVoltage ELSE 0
ReciprocalTau == 1 \oslash Tau

\* Fault: the backward pass of a scaled reset keeps the threshold as it is.
MutEffectiveThreshold(c, k) == Threshold

EffectiveThreshold(c, k) == IF c.scale THEN Threshold \oslash k ELSE Threshold

\* Fault: a neuron at its threshold does not fire.
MutFired(h) == IF Above(h, Threshold) THEN 1 ELSE 0

Fired(h) == IF AtLeast(h, Threshold) THEN 1 ELSE 0

AfterReset(c, h) ==
  IF c.hard
  THEN IF Fired(h) = 1 THEN ResetOf(c) ELSE h
  ELSE h \ominus (Fired(h) \otimes Threshold)

\* The leaky charge of LIF and KLIF, with PLIF's rate in the place of 1 / tau.
Leaky(c, v, x, rate) ==
  LET above == v \ominus ResetOf(c)
  IN  IF c.decay
      THEN v \oplus ((x \ominus above) \otimes rate)
      ELSE (v \ominus (above \otimes rate)) \oplus x

IfForward(c, v, x) ==
  LET h == v \oplus x
  IN  [v |-> AfterReset(c, h),
       kept |-> [h |-> h, spike |-> Fired(h), v |-> AfterReset(c, h)]]

IfCompactForward(c, v, x) ==
  LET h == v \oplus x
  IN  [v |-> AfterReset(c, h), kept |-> [h |-> h, spike |-> Fired(h)]]

LifForward(c, v, x) ==
  LET h == Leaky(c, v, x, ReciprocalTau)
  IN  [v |-> AfterReset(c, h),
       kept |-> [h |-> h, spike |-> Fired(h), v |-> AfterReset(c, h)]]

LifCompactForward(c, v, x) ==
  LET h == Leaky(c, v, x, ReciprocalTau)
  IN  [v |-> AfterReset(c, h), kept |-> [h |-> h, spike |-> Fired(h)]]

PlifForward(c, v, x, reciprocalTau) ==
  LET h == Leaky(c, v, x, reciprocalTau)
  IN  [v |-> AfterReset(c, h),
       kept |-> [h |-> h, spike |-> Fired(h), v |-> AfterReset(c, h),
                 vPrev |-> v, x |-> x]]

\* A reset that scales divides what is left of the voltage by k.
KlifForward(c, v, x, k) ==
  LET raised == k \otimes Leaky(c, v, x, ReciprocalTau)
      h == IF Above(raised, 0) THEN raised ELSE 0
      left == IF (c.hard /\ Fired(h) = 1) \/ ~c.scale
              THEN AfterReset(c, h)
              ELSE AfterReset(c, h) \oslash k
  IN  [v |-> left,
       kept |-> [h |-> h, spike |-> Fired(h), v |-> left, vPrev |-> v, x |-> x]]

FedSNNForward(membrane, current) ==
  LET charged == (membrane \otimes MembraneDecay) \oplus current
  IN  [v |-> charged \ominus (Fired(charged) \otimes Threshold),
       kept |-> [h |-> charged, spike |-> Fired(charged)]]

ForwardStep(c, v, x, p) ==
  CASE c.op = "if" -> IF c.compact THEN IfCompactForward(c, v, x) ELSE IfForward(c, v, x)
    [] c.op = "lif" -> IF c.compact THEN LifCompactForward(c, v, x) ELSE LifForward(c, v, x)
    [] c.op = "plif" -> PlifForward(c, v, x, p)
    [] c.op = "klif" -> KlifForward(c, v, x, p)
    [] c.op = "fedsnn" -> FedSNNForward(v, x)

-----------------------------------------------------------------------------
Half == 1 \oslash 2

SurrogateGradient(h) ==
  LET scaled == (h \ominus Threshold) \otimes ((Pi \otimes Half) \otimes Alpha)
  IN  (Half \otimes Alpha) \oslash (1 \oplus (scaled \otimes scaled))

\* The derivative of the voltage after the reset by the voltage before it.
ResetGradient(c, kept) ==
  LET through == (ResetOf(c) \ominus kept.h) \otimes SurrogateGradient(kept.h)
  IN  CASE c.hard /\ c.detach -> 1 \ominus kept.spike
        [] c.hard /\ ~c.detach -> (1 \ominus kept.spike) \oplus through
        [] ~c.hard /\ c.detach -> 1
        [] OTHER -> 1 \ominus (Threshold \otimes SurrogateGradient(kept.h))

GradH(c, kept, gradSpike, post) ==
  (gradSpike \otimes SurrogateGradient(kept.h)) \oplus (post \otimes ResetGradient(c, kept))

InputScale(c, rate) == IF c.decay THEN rate ELSE 1

\* What leaves a backward step: the gradient of the input, the carry of the
\* step before, and the addition to the gradient of the parameter.
Charged(gradH, scale, decay, partial) ==
  [x |-> gradH \otimes scale, carry |-> gradH \otimes decay, partial |-> partial]

IfBackward(c, kept, grad, carry) ==
  Charged(GradH(c, kept, grad.spike, carry \oplus grad.v), 1, 1, 0)

IfCompactBackward(c, kept, grad, carry) ==
  Charged(GradH(c, kept, grad.spike, carry), 1, 1, 0)

LifBackward(c, kept, grad, carry) ==
  Charged(GradH(c, kept, grad.spike, carry \oplus grad.v),
          InputScale(c, ReciprocalTau), 1 \ominus ReciprocalTau, 0)

LifCompactBackward(c, kept, grad, carry) ==
  Charged(GradH(c, kept, grad.spike, carry),
          InputScale(c, ReciprocalTau), 1 \ominus ReciprocalTau, 0)

PlifBackward(c, kept, grad, carry, reciprocalTau) ==
  LET gradH == GradH(c, kept, grad.spike, carry \oplus grad.v)
      above == kept.vPrev \ominus ResetOf(c)
      slope == (IF c.decay THEN kept.x ELSE 0) \ominus above
  IN  Charged(gradH, InputScale(c, reciprocalTau), 1 \ominus reciprocalTau, slope \otimes gradH)

\* The reset that scales: its derivatives by h and by k.
ScaledResetGradient(c, kept, k) ==
  LET past == 1 \oslash k
      sg == SurrogateGradient(kept.h)
      left == IF c.hard THEN (1 \ominus kept.spike) \otimes past ELSE past
      through == IF c.hard THEN ResetOf(c) \ominus (kept.h \otimes past)
                 ELSE 0 \ominus EffectiveThreshold(c, k)
  IN  IF c.detach THEN left ELSE left \oplus (through \otimes sg)

ScaledResetByK(c, kept, k) ==
  LET squared == (1 \oslash k) \otimes (1 \oslash k)
  IN  IF c.hard
      THEN ((1 \ominus kept.spike) \otimes kept.h) \otimes (0 \ominus squared)
      ELSE ((kept.spike \otimes Threshold) \ominus kept.h) \otimes squared

KlifBackward(c, kept, grad, carry, k) ==
  LET post == carry \oplus grad.v
      resetGradient == IF c.scale THEN ScaledResetGradient(c, kept, k)
                       ELSE ResetGradient(c, kept)
      gradH == (grad.spike \otimes SurrogateGradient(kept.h)) \oplus (post \otimes resetGradient)
      raised == IF Above(kept.h, 0) THEN gradH ELSE 0
      before == Leaky(c, kept.vPrev, kept.x, ReciprocalTau)
      byReset == IF c.scale THEN ScaledResetByK(c, kept, k) \otimes post ELSE 0
  IN  Charged(raised \otimes k, InputScale(c, ReciprocalTau), 1 \ominus ReciprocalTau,
              byReset \oplus (before \otimes raised))

FedSNNBackward(kept, grad, carry) ==
  Charged((grad.spike \otimes SurrogateGradient(kept.h)) \oplus carry, 1, MembraneDecay, 0)

BackwardStep(c, kept, grad, carry, p) ==
  CASE c.op = "if" -> IF c.compact THEN IfCompactBackward(c, kept, grad, carry)
                      ELSE IfBackward(c, kept, grad, carry)
    [] c.op = "lif" -> IF c.compact THEN LifCompactBackward(c, kept, grad, carry)
                       ELSE LifBackward(c, kept, grad, carry)
    [] c.op = "plif" -> PlifBackward(c, kept, grad, carry, p)
    [] c.op = "klif" -> KlifBackward(c, kept, grad, carry, p)
    [] c.op = "fedsnn" -> FedSNNBackward(kept, grad, carry)
=============================================================================
