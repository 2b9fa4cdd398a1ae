------------------------- MODULE RecurrentReference -------------------------
(***************************************************************************)
(* What a recurrent network computes for one sequence, said without loops  *)
(* over steps: the specification that the modules of the two eager         *)
(* implementations (src/spikingjelly_npu/sequence/recurrent.py and         *)
(* src/spikingjelly_npu/activation_based/recurrent.py) are held against.   *)
(*                                                                         *)
(* A row of a state tensor is its history: where it started and what it    *)
(* was fed since, under which weights.  A network has layers and, in each, *)
(* one or two directions; state index (l - 1) * directions + d is of       *)
(* direction d of layer l.                                                 *)
(***************************************************************************)
EXTENDS Naturals, SequencesExt

CONSTANTS
  None,         \* no state, no call, no cell, no permutation, no result
  Zero          \* where a row of a default state starts

Row(part, start) == [part |-> part, start |-> start, fed |-> <<>>]
CellOf(row) == [row EXCEPT !.part = "c"]

StateIndexOf(net, l, d) == ((l - 1) * net.directions) + d

\* The row of direction d of layer l after it has read xs.
AfterReading(row, l, d, xs) ==
  LET read == IF d = 1 THEN xs ELSE Reverse(xs)
  IN  [row EXCEPT !.fed = @ \o [t \in DOMAIN read |-> [w |-> <<l, d>>, x |-> read[t]]]]

\* A direction's history after it has read k of the inputs in its own order.
ReadTo(row, l, d, xs, k) ==
  AfterReading(row, l, d,
    IF d = 1 THEN SubSeq(xs, 1, k) ELSE SubSeq(xs, Len(xs) - k + 1, Len(xs)))

\* What layer l makes of its inputs: at each of them both directions, each
\* after all it has read up to there.  start: the initial rows by state index.
LayerOf(net, start, l, xs) ==
  [t \in DOMAIN xs |->
    [parts |-> [d \in 1 .. net.directions |->
       ReadTo(start[StateIndexOf(net, l, d)], l, d, xs,
              IF d = 1 THEN t ELSE Len(xs) - t + 1)],
     dropped |-> net.dropout /\ l < net.layers]]

\* The inputs of each layer; those of layer net.layers + 1 are the output.
LayerInputs(net, start, xs) ==
  LET inputs[l \in 1 .. net.layers + 1] ==
        IF l = 1 THEN xs ELSE LayerOf(net, start, l - 1, inputs[l - 1])
  IN  inputs

ReferenceOutput(net, start, xs) == LayerInputs(net, start, xs)[net.layers + 1]

ReferenceFinal(net, start, xs) ==
  [i \in 1 .. net.layers * net.directions |->
    LET l == ((i - 1) \div net.directions) + 1
        d == ((i - 1) % net.directions) + 1
    IN  AfterReading(start[i], l, d, LayerInputs(net, start, xs)[l])]
=============================================================================
