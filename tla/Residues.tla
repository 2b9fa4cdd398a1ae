------------------------------ MODULE Residues ------------------------------
(* Numbers for the dynamics of a neuron.  The residues of a prime P stand  *)
(* for the reals: sums, products and quotients are exact, so that two      *)
(* expressions agree for every value of their variables only if they are   *)
(* the same rational function.  Rounding is outside of this arithmetic.    *)
(* If P % 4 = 3 a sum 1 + a * a is never zero.                             *)
(*                                                                         *)
(* A dual is a number with its derivatives by the leaves of a computation: *)
(* what torch.autograd returns for it.                                     *)
EXTENDS Integers

CONSTANTS
  P,          \* the modulus
  Leaves      \* the tensors a gradient is taken by

Number == 0 .. P - 1

a \oplus b == (a + b) % P
a \ominus b == (a - b) % P
a \otimes b == (a * b) % P

\* P is an odd prime: every number but zero has a reciprocal.  The numbers have
\* no root of -1, as the reals have none.
ASSUME ResiduesAssumption ==
  /\ P \in Nat /\ P > 2
  /\ \A a \in Number \ {0} : \E b \in Number : a \otimes b = 1
  /\ \A a \in Number : 1 \oplus (a \otimes a) # 0

Reciprocal == [a \in Number \ {0} |-> CHOOSE b \in Number : a \otimes b = 1]
a \oslash b == a \otimes Reciprocal[b]

\* The sums of the first 0, 1, ... n values of f.
Sums(f, n) ==
  LET sum[t \in 0 .. n] == IF t = 0 THEN 0 ELSE sum[t - 1] \oplus f[t]
  IN  sum

\* The upper half of the residues are the negative numbers.
AtLeast(a, b) == 2 * (a \ominus b) < P
Above(a, b) == a # b /\ AtLeast(a, b)

Dual == [val : Number, tan : [Leaves -> Number]]
Const(a) == [val |-> a, tan |-> [l \in Leaves |-> 0]]
LeafOf(a, leaf) == [val |-> a, tan |-> [l \in Leaves |-> IF l = leaf THEN 1 ELSE 0]]

x ++ y ==
  [val |-> x.val \oplus y.val, tan |-> [l \in Leaves |-> x.tan[l] \oplus y.tan[l]]]
x -- y ==
  [val |-> x.val \ominus y.val, tan |-> [l \in Leaves |-> x.tan[l] \ominus y.tan[l]]]
x ** y ==
  [val |-> x.val \otimes y.val,
   tan |-> [l \in Leaves |-> (x.tan[l] \otimes y.val) \oplus (x.val \otimes y.tan[l])]]
x // y ==
  [val |-> x.val \oslash y.val,
   tan |-> [l \in Leaves |->
              ((x.tan[l] \otimes y.val) \ominus (x.val \otimes y.tan[l]))
                \oslash (y.val \otimes y.val)]]

\* torch.Tensor.detach, and torch.relu, whose derivative at zero is zero.
Detach(x) == Const(x.val)
Relu(x) == IF Above(x.val, 0) THEN x ELSE Const(0)
=============================================================================
