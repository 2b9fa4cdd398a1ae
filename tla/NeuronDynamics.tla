--------------------------- MODULE NeuronDynamics ---------------------------
(* A multi-step forward and its backward pass, run by the fused kernels    *)
(* and, next to them on the same inputs, by the PyTorch neuron.  The       *)
(* kernels keep what their backward pass needs and run it from the last    *)
(* step to the first; the eager run carries its derivatives along.         *)
EXTENDS EagerDynamics, KernelDynamics, Sequences

CONSTANTS
  Steps,        \* the most time steps of a sequence
  Inputs,       \* the values of an input
  Voltages,     \* the values of the initial voltage
  Parameters    \* the values of k, or of the reciprocal time constant

ASSUME DynamicsAssumption ==
  /\ Steps \in Nat \ {0}
  /\ Leaves = 0 .. Steps + 1
  /\ Inputs \subseteq Number
  /\ Voltages \subseteq Number
  /\ Parameters \subseteq Number \ {0}

\* The leaves: the initial voltage, the input of each step, the parameter.
VInit == 0
Parameter == Steps + 1

VARIABLES
  call,       \* the operation and its attributes
  eager,      \* what each step of the PyTorch neuron returned
  v,          \* its potential
  native,     \* what each step of the forward kernel kept
  voltage,    \* the voltage register of the forward kernel
  loss,       \* the gradients of the outputs
  carry,      \* the carry register of the backward kernel
  partial,    \* the gradient of the parameter it adds up
  gradX       \* the gradients of the inputs, last step first

vars == <<call, eager, v, native, voltage, loss, carry, partial, gradX>>

NoCall == [op |-> "none"]
NoLoss == [final |-> 0, steps |-> <<>>]

\* Requests the router lets pass: FedSNN's operation has no other attributes,
\* the compact kernels exist for IF and LIF, only KLIF scales its reset.
Calls ==
  {c \in [op : {"if", "lif", "plif", "klif", "fedsnn"}, hard : BOOLEAN, detach : BOOLEAN,
          decay : BOOLEAN, scale : BOOLEAN, compact : BOOLEAN, p : Parameters] :
     /\ c.compact => c.op \in {"if", "lif"}
     /\ c.scale => c.op = "klif"
     /\ c.decay => c.op \notin {"if", "fedsnn"}
     /\ c.op = "fedsnn" => ~c.hard /\ c.detach
     /\ c.op \notin {"plif", "klif"} => c.p = CHOOSE p \in Parameters : TRUE}

Init ==
  /\ call = NoCall
  /\ eager = <<>> /\ v = Const(0)
  /\ native = <<>> /\ voltage = 0
  /\ loss = NoLoss /\ carry = 0 /\ partial = 0 /\ gradX = <<>>

\* Both start from the initial voltage; FedSNN's neuron has none.
Begin(c, initial) ==
  /\ call = NoCall
  /\ c.op = "fedsnn" => initial = 0
  /\ call' = c
  /\ v' = IF c.op = "fedsnn" THEN Const(0) ELSE LeafOf(initial, VInit)
  /\ voltage' = initial
  /\ UNCHANGED <<eager, native, loss, carry, partial, gradX>>

Forward(x) ==
  /\ call # NoCall /\ loss = NoLoss /\ Len(native) < Steps
  /\ LET out == EagerStep(call, v, LeafOf(x, Len(eager) + 1), LeafOf(call.p, Parameter))
     IN  eager' = Append(eager, out) /\ v' = out.v
  /\ LET out == ForwardStep(call, voltage, x, call.p)
     IN  native' = Append(native, out.kept) /\ voltage' = out.v
  /\ UNCHANGED <<call, loss, carry, partial, gradX>>

\* The gradients of the outputs: one of them, which is all a linear backward
\* pass needs, or all at once.  A compact call returns no voltage sequence,
\* FedSNN's neither that nor a final voltage.
Losses(c, n) ==
  LET zero == [final |-> 0, steps |-> [t \in 1 .. n |-> [spike |-> 0, v |-> 0]]]
      sequence == ~c.compact /\ c.op # "fedsnn"
  IN  {[zero EXCEPT !.steps[t].spike = 1] : t \in 1 .. n}
      \cup {[zero EXCEPT !.steps[t].v = 1] : t \in IF sequence THEN 1 .. n ELSE {}}
      \cup (IF c.op = "fedsnn" THEN {} ELSE {[zero EXCEPT !.final = 1]})
      \cup (IF sequence
            THEN {[final |-> 2, steps |-> [t \in 1 .. n |-> [spike |-> t % P, v |-> (t + 2) % P]]]}
            ELSE {})

\* The backward kernels start from the gradient of the final voltage.
BeginBackward ==
  /\ native # <<>> /\ loss = NoLoss
  /\ loss' \in Losses(call, Len(native))
  /\ carry' = loss'.final
  /\ UNCHANGED <<call, eager, v, native, voltage, partial, gradX>>

Backward ==
  /\ loss # NoLoss /\ Len(gradX) < Len(native)
  /\ LET time == Len(native) - Len(gradX)
         out == BackwardStep(call, native[time], loss.steps[time], carry, call.p)
     IN  /\ gradX' = Append(gradX, out.x)
         /\ carry' = out.carry
         /\ partial' = partial \oplus out.partial
  /\ UNCHANGED <<call, eager, v, native, voltage, loss>>

Ended == loss # NoLoss /\ Len(gradX) = Len(native)

Return ==
  /\ Ended
  /\ call' = NoCall
  /\ eager' = <<>> /\ v' = Const(0)
  /\ native' = <<>> /\ voltage' = 0
  /\ loss' = NoLoss /\ carry' = 0 /\ partial' = 0 /\ gradX' = <<>>

Next ==
  \/ \E c \in Calls, initial \in Voltages \cup {0} : Begin(c, initial)
  \/ \E x \in Inputs : Forward(x)
  \/ BeginBackward
  \/ Backward
  \/ Return

Spec == Init /\ [][Next]_vars

-----------------------------------------------------------------------------
\* k is given to the kernel in eight lanes: its gradient is put into the first,
\* and the gradient of the expansion is the sum of the lanes.
GradK ==
  LET lanes == [lane \in 1 .. 8 |-> IF lane = 1 THEN partial ELSE 0]
  IN  Sums(lanes, 8)[8]

GradParameter == IF call.op = "klif" THEN GradK ELSE partial

\* What a step adds to the derivative of the loss by a leaf, and what autograd
\* returns for the leaf.
Contribution(leaf, t) ==
  (loss.steps[t].spike \otimes eager[t].spike.tan[leaf])
    \oplus (loss.steps[t].v \otimes eager[t].v.tan[leaf])

Contributions(leaf) == [t \in 1 .. Len(eager) |-> Contribution(leaf, t)]

Autograd(leaf) ==
  (loss.final \otimes v.tan[leaf]) \oplus Sums(Contributions(leaf), Len(eager))[Len(eager)]

-----------------------------------------------------------------------------
TypeOK ==
  /\ call \in Calls \cup {NoCall}
  /\ v \in Dual /\ voltage \in Number
  /\ carry \in Number /\ partial \in Number
  /\ gradX \in Seq(Number) /\ Len(gradX) <= Len(native)
  /\ Len(native) = Len(eager) /\ Len(native) <= Steps

\* A fused kernel fires when the PyTorch neuron does and leaves the voltages it
\* does, at every step of every operation and attribute.
ForwardIsEager ==
  /\ voltage = v.val
  /\ \A t \in 1 .. Len(native) :
       /\ native[t].spike = eager[t].spike.val
       /\ "v" \in DOMAIN native[t] => native[t].v = eager[t].v.val

\* The backward kernels return the gradients autograd computes for the
\* PyTorch neuron: of every input, of the initial voltage, of the parameter,
\* whatever outputs the loss depends on.
GradientIsAutograd ==
  Ended =>
    /\ \A t \in 1 .. Len(native) : gradX[Len(native) + 1 - t] = Autograd(t)
    /\ call.op # "fedsnn" => carry = Autograd(VInit)
    /\ call.op \in {"plif", "klif"} => GradParameter = Autograd(Parameter)
=============================================================================
