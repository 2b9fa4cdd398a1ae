------------------------ MODULE MCSequenceRecurrent ------------------------
(***************************************************************************)
(* SequenceRecurrent over networks of up to two layers and two directions, *)
(* packed batches of up to three sequences of up to three steps in every   *)
(* order a sort may put them, and dense batches of equal ones.             *)
(***************************************************************************)
EXTENDS SequenceRecurrent

Longest == 3
Descends(lengths, order) ==
  \A p \in 2 .. Len(order) : lengths[order[p - 1]] >= lengths[order[p]]
Orders(n) == {p \in [1 .. n -> 1 .. n] : Range(p) = 1 .. n}
Identity(n) == [p \in 1 .. n |-> p]

Networks ==
  [lstm : BOOLEAN, layers : 1 .. 2, directions : 1 .. 2, dropout : BOOLEAN]
Small == [lstm |-> TRUE, layers |-> 1, directions |-> 1, dropout |-> FALSE]

Call(network, form, batchFirst, lengths, order, given) ==
  [lstm |-> network.lstm, layers |-> network.layers,
   directions |-> network.directions, dropout |-> network.dropout,
   form |-> form, batchFirst |-> batchFirst, lengths |-> lengths,
   sorted |-> order, given |-> given, fp32Npu |-> TRUE, defect |-> "none"]

Batches == UNION {[1 .. n -> 1 .. Longest] : n \in 1 .. 3}
PackedCalls ==
  {c \in {Call(n, "packed", FALSE, b, o, TRUE) :
           n \in {m \in Networks : ~m.dropout}, b \in Batches,
           o \in UNION {Orders(k) : k \in 1 .. 3}} :
     Len(c.sorted) = Len(c.lengths) /\ Descends(c.lengths, c.sorted)}
  \cup {Call(n, "packed", b, <<3, 1>>, None, g) :
         n \in Networks, b \in BOOLEAN, g \in BOOLEAN}
DenseCalls ==
  {Call(n, "dense", f, [s \in 1 .. b |-> t], None, g) :
     n \in Networks, f \in BOOLEAN, b \in 1 .. 2, t \in 1 .. Longest, g \in BOOLEAN}
  \cup {Call(n, "unbatched", f, <<t>>, None, TRUE) :
         n \in Networks, f \in BOOLEAN, t \in 1 .. Longest}
Faulty ==
  {[Call(Small, f, FALSE, <<2>>, None, TRUE) EXCEPT !.defect = d] :
     f \in {"packed", "dense", "unbatched"}, d \in {"input_dim", "hidden_dim", "shape"}}
  \cup {Call(Small, "dense", FALSE, <<0, 0>>, None, FALSE)}
  \cup {[Call(Small, "dense", FALSE, <<2>>, None, FALSE) EXCEPT !.fp32Npu = FALSE]}

MCCalls == PackedCalls \cup DenseCalls \cup Faulty
=============================================================================
