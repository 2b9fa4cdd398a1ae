------------------------ MODULE NeuronDynamicsProofs ------------------------
(* The fused kernels compute what the PyTorch neurons and autograd do,      *)
(* forward and backward, for every modulus, every value of the attributes   *)
(* and sequences of any length.                                             *)
EXTENDS NeuronDynamics, SequenceTheorems, WellFoundedInduction, TLAPS

\* The modulus is at least three.
LEMMA Modulus == P \in Nat /\ P > 2
  BY ResiduesAssumption

\* What a division by the modulus leaves.
LEMMA Division ==
  ASSUME NEW x \in Int
  PROVE  /\ x % P \in 0 .. P - 1
         /\ x = (P * (x \div P)) + (x % P)
         /\ x \div P \in Int
  BY Modulus, SMT

\* A number below the modulus is its own remainder.
LEMMA Small ==
  ASSUME NEW x \in 0 .. P - 1
  PROVE  x % P = x
  BY Modulus, SMT

\* Numbers that differ by a multiple of the modulus have one remainder.
LEMMA Shift ==
  ASSUME NEW x \in Int, NEW y \in Int, NEW q \in Int, y = x + (P * q)
  PROVE  y % P = x % P
<1> DEFINE z == (y \div P) - (x \div P) - q
<1>1. z \in Int
  BY Division
<1>2. P * z = (x % P) - (y % P)
  <2> DEFINE a == y \div P
             b == x \div P
  <2>1. a \in Int /\ b \in Int
    BY Division
  <2>2. P * (a - b - q) = ((P * a) - (P * b)) - (P * q)
    BY <2>1, Modulus, SMT
  <2>3. y = (P * a) + (y % P) /\ x = (P * b) + (x % P) /\ y % P \in Int /\ x % P \in Int
    BY Division, Modulus, SMT
  <2> QED
    BY <2>1, <2>2, <2>3, Modulus, SMT
<1>3. (x % P) - (y % P) < P /\ (x % P) - (y % P) > 0 - P
  BY Division, Modulus, SMT
<1>4. z = 0
  <2> HIDE DEF z
  <2>1. CASE z >= 1
    BY <1>1, <1>2, <1>3, <2>1, Modulus, SMT
  <2>2. CASE z <= 0 - 1
    BY <1>1, <1>2, <1>3, <2>2, Modulus, SMT
  <2> QED
    BY <1>1, <2>1, <2>2, SMT
<1> QED
  <2>1. P * 0 = (x % P) - (y % P)
    BY <1>2, <1>4
  <2>2. x % P \in Int /\ y % P \in Int
    BY Division, SMT
  <2> QED
    BY <2>1, <2>2, Modulus, SMT

-----------------------------------------------------------------------------
\* The residues are closed under sums, differences and products.
LEMMA Closed ==
  ASSUME NEW a \in Number, NEW b \in Number
  PROVE  a \oplus b \in Number /\ a \ominus b \in Number /\ a \otimes b \in Number
<1>1. a \in Int /\ b \in Int /\ a + b \in Int /\ a - b \in Int /\ a * b \in Int
  BY Modulus, SMT DEF Number
<1> QED
  BY <1>1, Division DEF Number, \oplus, \ominus, \otimes

\* Zero and one, and what they leave alone.
LEMMA Units ==
  /\ {0, 1} \subseteq Number
  /\ 1 \ominus 0 = 1 /\ 1 \ominus 1 = 0
  /\ \A a \in Number : /\ a \ominus 0 = a /\ 0 \oplus a = a /\ a \oplus 0 = a
                       /\ 1 \otimes a = a /\ 0 \otimes a = 0
<1>1. 0 \in 0 .. P - 1 /\ 1 \in 0 .. P - 1
  BY Modulus, SMT
<1>2. 0 % P = 0 /\ 1 % P = 1
  BY <1>1, Small
<1>3. ASSUME NEW a \in Number
      PROVE  /\ a \ominus 0 = a /\ 0 \oplus a = a /\ a \oplus 0 = a
             /\ 1 \otimes a = a /\ 0 \otimes a = 0
  <2>1. a - 0 = a /\ 0 + a = a /\ a + 0 = a /\ 1 * a = a /\ 0 * a = 0
    BY Modulus, SMT DEF Number
  <2> QED
    BY <2>1, <1>2, Small DEF Number, \oplus, \ominus, \otimes
<1>4. 1 \ominus 0 = 1 /\ 1 \ominus 1 = 0
  <2>1. 1 - 0 = 1 /\ 1 - 1 = 0
    BY SMT
  <2> QED
    BY <2>1, <1>2 DEF \ominus
<1> QED
  BY <1>1, <1>3, <1>4 DEF Number

\* Every number but zero divides.
LEMMA Quotients ==
  ASSUME NEW a \in Number, NEW b \in Number \ {0}
  PROVE  /\ Reciprocal[b] \in Number
         /\ a \oslash b = a \otimes Reciprocal[b]
         /\ a \oslash b \in Number
         /\ 1 \oslash b = Reciprocal[b]
<1>1. \E r \in Number : b \otimes r = 1
  BY ResiduesAssumption
<1>2. Reciprocal[b] = CHOOSE r \in Number : b \otimes r = 1
  BY DEF Reciprocal
<1>3. Reciprocal[b] \in Number
  BY <1>1, <1>2
<1>4. 1 \otimes Reciprocal[b] = Reciprocal[b]
  BY <1>3, Units
<1> QED
  BY <1>3, <1>4, Closed DEF \oslash

-----------------------------------------------------------------------------
(* Identities of residues hold because they hold of integers.  `Stands'    *)
(* builds the integer that stands for an expression, operator by operator. *)

Residue(i) == i % P
Stands(e, i) == i \in Int /\ e = Residue(i)

\* A number stands for itself.
LEMMA NumberStands ==
  ASSUME NEW a \in Number
  PROVE  a \in Int /\ Stands(a, a)
<1>1. a \in 0 .. P - 1
  BY DEF Number
<1>2. a \in Int
  BY <1>1, Modulus, SMT
<1> QED
  BY <1>1, <1>2, Small DEF Stands, Residue

\* An integer and its residue differ by a multiple of the modulus.
LEMMA ResidueOf ==
  ASSUME NEW i \in Int
  PROVE  Residue(i) \in Int /\ \E q \in Int : i = Residue(i) + (P * q)
<1> DEFINE m == i % P
           q == i \div P
<1>1. m \in 0 .. P - 1 /\ i = (P * q) + m /\ q \in Int
  BY Division
<1> HIDE DEF m, q
<1>2. m \in Int
  BY <1>1, Modulus, SMT
<1>3. i = m + (P * q)
  BY <1>1, <1>2, Modulus, SMT
<1> QED
  BY <1>1, <1>2, <1>3 DEF Residue, m

\* A residue may be taken before or after an operation.
LEMMA ResidueOps ==
  ASSUME NEW i \in Int, NEW j \in Int
  PROVE  /\ Residue(i) \oplus Residue(j) = Residue(i + j)
         /\ Residue(i) \ominus Residue(j) = Residue(i - j)
         /\ Residue(i) \otimes Residue(j) = Residue(i * j)
<1> DEFINE m == Residue(i)
           n == Residue(j)
<1>1. PICK s \in Int : i = m + (P * s)
  BY ResidueOf
<1>2. PICK t \in Int : j = n + (P * t)
  BY ResidueOf
<1>3. m \in Int /\ n \in Int /\ P \in Int
  BY ResidueOf, Modulus
<1> HIDE DEF m, n
<1>4. Residue(m + n) = Residue(i + j)
  <2>1. i + j = (m + n) + (P * (s + t))
    BY <1>1, <1>2, <1>3, SMT
  <2>2. m + n \in Int /\ i + j \in Int /\ s + t \in Int
    BY <1>3, SMT
  <2> QED
    BY <2>1, <2>2, Shift DEF Residue
<1>5. Residue(m - n) = Residue(i - j)
  <2>1. i - j = (m - n) + (P * (s - t))
    BY <1>1, <1>2, <1>3, SMT
  <2>2. m - n \in Int /\ i - j \in Int /\ s - t \in Int
    BY <1>3, SMT
  <2> QED
    BY <2>1, <2>2, Shift DEF Residue
<1>6. Residue(m * n) = Residue(i * j)
  <2> DEFINE q == ((m * t) + (s * n)) + (P * (s * t))
  <2>1. i * j = (m * n) + (P * (((m * t) + (s * n)) + (P * (s * t))))
    BY <1>1, <1>2, <1>3, SMT
  <2>2. m * n \in Int /\ i * j \in Int /\ q \in Int
    BY <1>3, SMT
  <2> HIDE DEF q
  <2>3. i * j = (m * n) + (P * q)
    BY <2>1 DEF q
  <2> QED
    BY <2>2, <2>3, Shift DEF Residue
<1> QED
  BY <1>4, <1>5, <1>6 DEF Residue, m, n, \oplus, \ominus, \otimes

\* Sums, differences and products stand for those of the integers.
LEMMA SumStands ==
  \A e, f, i, j : Stands(e, i) /\ Stands(f, j) => Stands(e \oplus f, i + j)
<1> SUFFICES ASSUME NEW e, NEW f, NEW i, NEW j, Stands(e, i), Stands(f, j)
             PROVE  Stands(e \oplus f, i + j)
  OBVIOUS
<1>1. i \in Int /\ j \in Int /\ e = Residue(i) /\ f = Residue(j)
  BY DEF Stands
<1>2. i + j \in Int
  BY <1>1
<1> QED
  BY <1>1, <1>2, ResidueOps DEF Stands

LEMMA DifferenceStands ==
  \A e, f, i, j : Stands(e, i) /\ Stands(f, j) => Stands(e \ominus f, i - j)
<1> SUFFICES ASSUME NEW e, NEW f, NEW i, NEW j, Stands(e, i), Stands(f, j)
             PROVE  Stands(e \ominus f, i - j)
  OBVIOUS
<1>1. i \in Int /\ j \in Int /\ e = Residue(i) /\ f = Residue(j)
  BY DEF Stands
<1>2. i - j \in Int
  BY <1>1
<1> QED
  BY <1>1, <1>2, ResidueOps DEF Stands

LEMMA ProductStands ==
  \A e, f, i, j : Stands(e, i) /\ Stands(f, j) => Stands(e \otimes f, i * j)
<1> SUFFICES ASSUME NEW e, NEW f, NEW i, NEW j, Stands(e, i), Stands(f, j)
             PROVE  Stands(e \otimes f, i * j)
  OBVIOUS
<1>1. i \in Int /\ j \in Int /\ e = Residue(i) /\ f = Residue(j)
  BY DEF Stands
<1>2. i * j \in Int
  BY <1>1
<1> QED
  BY <1>1, <1>2, ResidueOps DEF Stands

\* One integer stands for one residue.
LEMMA SameStands ==
  ASSUME NEW e, NEW f, NEW i, NEW j, Stands(e, i), Stands(f, j), i = j
  PROVE  e = f
  BY DEF Stands

\* A factor may be taken out of a difference.
LEMMA Distributes ==
  ASSUME NEW a \in Number, NEW b \in Number, NEW r \in Number
  PROVE  (a \otimes r) \ominus (b \otimes r) = (a \ominus b) \otimes r
<1>1. Stands(a, a) /\ Stands(b, b) /\ Stands(r, r)
  BY NumberStands
<1>2. Stands((a \otimes r) \ominus (b \otimes r), (a * r) - (b * r))
  BY <1>1, SumStands, DifferenceStands, ProductStands, Zenon
<1>3. Stands((a \ominus b) \otimes r, (a - b) * r)
  BY <1>1, SumStands, DifferenceStands, ProductStands, Zenon
<1>4. a \in Int /\ b \in Int /\ r \in Int
  BY NumberStands
<1>5. (a * r) - (b * r) = (a - b) * r
  BY <1>4, SMT
<1> QED
  BY <1>2, <1>3, <1>5, SameStands

\* The order of factors does not matter, nor that of summands.
LEMMA Commutes ==
  ASSUME NEW a \in Number, NEW b \in Number
  PROVE  a \otimes b = b \otimes a
<1>1. Stands(a, a) /\ Stands(b, b)
  BY NumberStands
<1>2. Stands(a \otimes b, a * b)
  BY <1>1, SumStands, DifferenceStands, ProductStands, Zenon
<1>3. Stands(b \otimes a, b * a)
  BY <1>1, SumStands, DifferenceStands, ProductStands, Zenon
<1>4. a \in Int /\ b \in Int
  BY NumberStands
<1>5. a * b = b * a
  BY <1>4, SMT
<1> QED
  BY <1>2, <1>3, <1>5, SameStands

LEMMA SumCommutes ==
  ASSUME NEW a \in Number, NEW b \in Number
  PROVE  a \oplus b = b \oplus a
<1>1. Stands(a, a) /\ Stands(b, b)
  BY NumberStands
<1>2. Stands(a \oplus b, a + b)
  BY <1>1, SumStands, DifferenceStands, ProductStands, Zenon
<1>3. Stands(b \oplus a, b + a)
  BY <1>1, SumStands, DifferenceStands, ProductStands, Zenon
<1>4. a \in Int /\ b \in Int
  BY NumberStands
<1>5. a + b = b + a
  BY <1>4, SMT
<1> QED
  BY <1>2, <1>3, <1>5, SameStands

LEMMA Associates ==
  ASSUME NEW a \in Number, NEW b \in Number, NEW r \in Number
  PROVE  (a \otimes b) \otimes r = a \otimes (b \otimes r)
<1>1. Stands(a, a) /\ Stands(b, b) /\ Stands(r, r)
  BY NumberStands
<1>2. Stands((a \otimes b) \otimes r, (a * b) * r)
  BY <1>1, SumStands, DifferenceStands, ProductStands, Zenon
<1>3. Stands(a \otimes (b \otimes r), a * (b * r))
  BY <1>1, SumStands, DifferenceStands, ProductStands, Zenon
<1>4. a \in Int /\ b \in Int /\ r \in Int
  BY NumberStands
<1>5. (a * b) * r = a * (b * r)
  BY <1>4, SMT
<1> QED
  BY <1>2, <1>3, <1>5, SameStands

\* Products of products.
LEMMA FourFactors ==
  ASSUME NEW a \in Number, NEW b \in Number, NEW r \in Number, NEW s \in Number
  PROVE  (a \otimes b) \otimes (r \otimes s) = (a \otimes r) \otimes (b \otimes s)
<1>1. Stands(a, a) /\ Stands(b, b) /\ Stands(r, r) /\ Stands(s, s)
  BY NumberStands
<1>2. Stands((a \otimes b) \otimes (r \otimes s), (a * b) * (r * s))
  BY <1>1, SumStands, DifferenceStands, ProductStands, Zenon
<1>3. Stands((a \otimes r) \otimes (b \otimes s), (a * r) * (b * s))
  BY <1>1, SumStands, DifferenceStands, ProductStands, Zenon
<1>4. a \in Int /\ b \in Int /\ r \in Int /\ s \in Int
  BY NumberStands
<1>5. (a * b) * (r * s) = (a * r) * (b * s)
  BY <1>4, SMT
<1> QED
  BY <1>2, <1>3, <1>5, SameStands

\* The derivative of a quotient, multiplied out.
LEMMA QuotientRule ==
  ASSUME NEW dx \in Number, NEW y \in Number, NEW x \in Number, NEW dy \in Number,
         NEW r \in Number
  PROVE  ((dx \otimes y) \ominus (x \otimes dy)) \otimes (r \otimes r)
           = ((dx \otimes (y \otimes r)) \otimes r) \ominus ((x \otimes dy) \otimes (r \otimes r))
<1>1. Stands(dx, dx) /\ Stands(y, y) /\ Stands(x, x) /\ Stands(dy, dy) /\ Stands(r, r)
  BY NumberStands
<1>2. Stands(((dx \otimes y) \ominus (x \otimes dy)) \otimes (r \otimes r),
             ((dx * y) - (x * dy)) * (r * r))
  BY <1>1, SumStands, DifferenceStands, ProductStands, Zenon
<1>3. Stands(((dx \otimes (y \otimes r)) \otimes r)
               \ominus ((x \otimes dy) \otimes (r \otimes r)),
             ((dx * (y * r)) * r) - ((x * dy) * (r * r)))
  BY <1>1, SumStands, DifferenceStands, ProductStands, Zenon
<1>4. dx \in Int /\ y \in Int /\ x \in Int /\ dy \in Int /\ r \in Int
  BY NumberStands
<1>5. ((dx * y) - (x * dy)) * (r * r) = ((dx * (y * r)) * r) - ((x * dy) * (r * r))
  BY <1>4, SMT
<1> QED
  BY <1>2, <1>3, <1>5, SameStands

\* A leaky charge moves the potential towards what is fed.
LEMMA DecayCharge ==
  ASSUME NEW dw \in Number, NEW dx \in Number, NEW r \in Number
  PROVE  dw \oplus ((dx \ominus dw) \otimes r)
           = ((1 \ominus r) \otimes dw) \oplus (r \otimes dx)
<1>1. Stands(dw, dw) /\ Stands(dx, dx) /\ Stands(r, r) /\ Stands(1, 1)
  BY NumberStands, Units
<1>2. Stands(dw \oplus ((dx \ominus dw) \otimes r), dw + ((dx - dw) * r))
  BY <1>1, SumStands, DifferenceStands, ProductStands, Zenon
<1>3. Stands(((1 \ominus r) \otimes dw) \oplus (r \otimes dx), ((1 - r) * dw) + (r * dx))
  BY <1>1, SumStands, DifferenceStands, ProductStands, Zenon
<1>4. dw \in Int /\ dx \in Int /\ r \in Int
  BY NumberStands
<1>5. dw + ((dx - dw) * r) = ((1 - r) * dw) + (r * dx)
  BY <1>4, SMT
<1> QED
  BY <1>2, <1>3, <1>5, SameStands

\* A leaky charge that feeds the whole input.
LEMMA LeakCharge ==
  ASSUME NEW dw \in Number, NEW dx \in Number, NEW r \in Number
  PROVE  (dw \ominus (dw \otimes r)) \oplus dx
           = ((1 \ominus r) \otimes dw) \oplus (1 \otimes dx)
<1>1. Stands(dw, dw) /\ Stands(dx, dx) /\ Stands(r, r) /\ Stands(1, 1)
  BY NumberStands, Units
<1>2. Stands((dw \ominus (dw \otimes r)) \oplus dx, (dw - (dw * r)) + dx)
  BY <1>1, SumStands, DifferenceStands, ProductStands, Zenon
<1>3. Stands(((1 \ominus r) \otimes dw) \oplus (1 \otimes dx), ((1 - r) * dw) + (1 * dx))
  BY <1>1, SumStands, DifferenceStands, ProductStands, Zenon
<1>4. dw \in Int /\ dx \in Int /\ r \in Int
  BY NumberStands
<1>5. (dw - (dw * r)) + dx = ((1 - r) * dw) + (1 * dx)
  BY <1>4, SMT
<1> QED
  BY <1>2, <1>3, <1>5, SameStands

\* The two with a rate that is learnt.
LEMMA DecayRateCharge ==
  ASSUME NEW dw \in Number, NEW dx \in Number, NEW r \in Number, NEW s \in Number,
         NEW dp \in Number
  PROVE  dw \oplus (((dx \ominus dw) \otimes r) \oplus (s \otimes dp))
           = (((1 \ominus r) \otimes dw) \oplus (r \otimes dx)) \oplus (s \otimes dp)
<1>1. /\ Stands(dw, dw) /\ Stands(dx, dx) /\ Stands(r, r) /\ Stands(s, s) /\ Stands(dp, dp)
      /\ Stands(1, 1)
  BY NumberStands, Units
<1>2. Stands(dw \oplus (((dx \ominus dw) \otimes r) \oplus (s \otimes dp)),
             dw + (((dx - dw) * r) + (s * dp)))
  BY <1>1, SumStands, DifferenceStands, ProductStands, Zenon
<1>3. Stands((((1 \ominus r) \otimes dw) \oplus (r \otimes dx)) \oplus (s \otimes dp),
             (((1 - r) * dw) + (r * dx)) + (s * dp))
  BY <1>1, SumStands, DifferenceStands, ProductStands, Zenon
<1>4. dw \in Int /\ dx \in Int /\ r \in Int /\ s \in Int /\ dp \in Int
  BY NumberStands
<1>5. dw + (((dx - dw) * r) + (s * dp)) = (((1 - r) * dw) + (r * dx)) + (s * dp)
  BY <1>4, SMT
<1> QED
  BY <1>2, <1>3, <1>5, SameStands

\* ... and one that feeds the whole input.
LEMMA LeakRateCharge ==
  ASSUME NEW dw \in Number, NEW dx \in Number, NEW r \in Number, NEW s \in Number,
         NEW dp \in Number
  PROVE  (dw \ominus ((dw \otimes r) \oplus (s \otimes dp))) \oplus dx
           = (((1 \ominus r) \otimes dw) \oplus (1 \otimes dx)) \oplus ((0 \ominus s) \otimes dp)
<1>1. /\ Stands(dw, dw) /\ Stands(dx, dx) /\ Stands(r, r) /\ Stands(s, s) /\ Stands(dp, dp)
      /\ Stands(0, 0) /\ Stands(1, 1)
  BY NumberStands, Units
<1>2. Stands((dw \ominus ((dw \otimes r) \oplus (s \otimes dp))) \oplus dx,
             (dw - ((dw * r) + (s * dp))) + dx)
  BY <1>1, SumStands, DifferenceStands, ProductStands, Zenon
<1>3. Stands((((1 \ominus r) \otimes dw) \oplus (1 \otimes dx))
               \oplus ((0 \ominus s) \otimes dp),
             (((1 - r) * dw) + (1 * dx)) + ((0 - s) * dp))
  BY <1>1, SumStands, DifferenceStands, ProductStands, Zenon
<1>4. dw \in Int /\ dx \in Int /\ r \in Int /\ s \in Int /\ dp \in Int
  BY NumberStands
<1>5. (dw - ((dw * r) + (s * dp))) + dx = (((1 - r) * dw) + (1 * dx)) + ((0 - s) * dp)
  BY <1>4, SMT
<1> QED
  BY <1>2, <1>3, <1>5, SameStands

\* A charge that is multiplied by k.
ScaledChargeRule(dw, dx, a, b, k, dk, x) ==
  (dk \otimes x) \oplus (k \otimes ((a \otimes dw) \oplus (b \otimes dx)))
    = (((k \otimes a) \otimes dw) \oplus ((k \otimes b) \otimes dx)) \oplus (x \otimes dk)

LEMMA ScaledCharge ==
  ASSUME NEW dw \in Number, NEW dx \in Number, NEW a \in Number, NEW b \in Number,
         NEW k \in Number, NEW dk \in Number, NEW x \in Number
  PROVE  ScaledChargeRule(dw, dx, a, b, k, dk, x)
<1>1. /\ Stands(dw, dw) /\ Stands(dx, dx) /\ Stands(a, a) /\ Stands(b, b) /\ Stands(k, k)
      /\ Stands(dk, dk) /\ Stands(x, x)
  BY NumberStands
<1>2. Stands((dk \otimes x) \oplus (k \otimes ((a \otimes dw) \oplus (b \otimes dx))),
             (dk * x) + (k * ((a * dw) + (b * dx))))
  BY <1>1, SumStands, DifferenceStands, ProductStands, Zenon
<1>3. Stands((((k \otimes a) \otimes dw) \oplus ((k \otimes b) \otimes dx))
               \oplus (x \otimes dk),
             (((k * a) * dw) + ((k * b) * dx)) + (x * dk))
  BY <1>1, SumStands, DifferenceStands, ProductStands, Zenon
<1>4. /\ dw \in Int /\ dx \in Int /\ a \in Int /\ b \in Int /\ k \in Int /\ dk \in Int
      /\ x \in Int
  BY NumberStands
<1>5. (dk * x) + (k * ((a * dw) + (b * dx))) = (((k * a) * dw) + ((k * b) * dx)) + (x * dk)
  BY <1>4, SMT
<1> QED
  BY <1>2, <1>3, <1>5, SameStands DEF ScaledChargeRule

\* A soft and a hard reset, by the derivative g of the spike.
LEMMA SoftReset ==
  ASSUME NEW dh \in Number, NEW g \in Number, NEW s \in Number, NEW h \in Number
  PROVE  dh \ominus (((g \otimes dh) \otimes h) \oplus (s \otimes 0))
           = (1 \ominus (h \otimes g)) \otimes dh
<1>1. /\ Stands(dh, dh) /\ Stands(g, g) /\ Stands(s, s) /\ Stands(h, h) /\ Stands(0, 0)
      /\ Stands(1, 1)
  BY NumberStands, Units
<1>2. Stands(dh \ominus (((g \otimes dh) \otimes h) \oplus (s \otimes 0)),
             dh - (((g * dh) * h) + (s * 0)))
  BY <1>1, SumStands, DifferenceStands, ProductStands, Zenon
<1>3. Stands((1 \ominus (h \otimes g)) \otimes dh, (1 - (h * g)) * dh)
  BY <1>1, SumStands, DifferenceStands, ProductStands, Zenon
<1>4. dh \in Int /\ g \in Int /\ s \in Int /\ h \in Int
  BY NumberStands
<1>5. dh - (((g * dh) * h) + (s * 0)) = (1 - (h * g)) * dh
  BY <1>4, SMT
<1> QED
  BY <1>2, <1>3, <1>5, SameStands

LEMMA HardReset ==
  ASSUME NEW dh \in Number, NEW g \in Number, NEW s \in Number, NEW h \in Number,
         NEW r \in Number
  PROVE  (((g \otimes dh) \otimes r) \oplus (s \otimes 0))
           \oplus (((0 \ominus (g \otimes dh)) \otimes h) \oplus ((1 \ominus s) \otimes dh))
           = ((1 \ominus s) \oplus ((r \ominus h) \otimes g)) \otimes dh
<1>1. /\ Stands(dh, dh) /\ Stands(g, g) /\ Stands(s, s) /\ Stands(h, h) /\ Stands(r, r)
      /\ Stands(0, 0) /\ Stands(1, 1)
  BY NumberStands, Units
<1>2. Stands((((g \otimes dh) \otimes r) \oplus (s \otimes 0))
               \oplus (((0 \ominus (g \otimes dh)) \otimes h)
                         \oplus ((1 \ominus s) \otimes dh)),
             (((g * dh) * r) + (s * 0)) + (((0 - (g * dh)) * h) + ((1 - s) * dh)))
  BY <1>1, SumStands, DifferenceStands, ProductStands, Zenon
<1>3. Stands(((1 \ominus s) \oplus ((r \ominus h) \otimes g)) \otimes dh,
             ((1 - s) + ((r - h) * g)) * dh)
  BY <1>1, SumStands, DifferenceStands, ProductStands, Zenon
<1>4. dh \in Int /\ g \in Int /\ s \in Int /\ h \in Int /\ r \in Int
  BY NumberStands
<1>5. (((g * dh) * r) + (s * 0)) + (((0 - (g * dh)) * h) + ((1 - s) * dh))
        = ((1 - s) + ((r - h) * g)) * dh
  BY <1>4, SMT
<1> QED
  BY <1>2, <1>3, <1>5, SameStands

\* The two where potential and threshold are divided by k, q its reciprocal.
SoftScaledResetRule(dh, dk, g, s, h, r, q) ==
  ((dh \otimes q) \ominus ((h \otimes dk) \otimes (q \otimes q)))
    \ominus (((g \otimes dh) \otimes (r \otimes q))
               \oplus (s \otimes (0 \ominus ((r \otimes dk) \otimes (q \otimes q)))))
    = ((q \oplus ((0 \ominus (r \otimes q)) \otimes g)) \otimes dh)
        \oplus ((((s \otimes r) \ominus h) \otimes (q \otimes q)) \otimes dk)

LEMMA SoftScaledReset ==
  ASSUME NEW dh \in Number, NEW dk \in Number, NEW g \in Number, NEW s \in Number,
         NEW h \in Number, NEW r \in Number, NEW q \in Number
  PROVE  SoftScaledResetRule(dh, dk, g, s, h, r, q)
<1>1. /\ Stands(dh, dh) /\ Stands(dk, dk) /\ Stands(g, g) /\ Stands(s, s) /\ Stands(h, h)
      /\ Stands(r, r) /\ Stands(q, q) /\ Stands(0, 0)
  BY NumberStands, Units
<1>2. Stands(((dh \otimes q) \ominus ((h \otimes dk) \otimes (q \otimes q)))
               \ominus (((g \otimes dh) \otimes (r \otimes q))
                          \oplus (s
                                    \otimes (0
                                               \ominus ((r \otimes dk)
                                                          \otimes (q \otimes q))))),
             ((dh * q) - ((h * dk) * (q * q)))
               - (((g * dh) * (r * q)) + (s * (0 - ((r * dk) * (q * q))))))
  BY <1>1, SumStands, DifferenceStands, ProductStands, Zenon
<1>3. Stands(((q \oplus ((0 \ominus (r \otimes q)) \otimes g)) \otimes dh)
               \oplus ((((s \otimes r) \ominus h) \otimes (q \otimes q)) \otimes dk),
             ((q + ((0 - (r * q)) * g)) * dh) + ((((s * r) - h) * (q * q)) * dk))
  BY <1>1, SumStands, DifferenceStands, ProductStands, Zenon
<1>4. /\ dh \in Int /\ dk \in Int /\ g \in Int /\ s \in Int /\ h \in Int /\ r \in Int
      /\ q \in Int
  BY NumberStands
<1>5. ((dh * q) - ((h * dk) * (q * q)))
        - (((g * dh) * (r * q)) + (s * (0 - ((r * dk) * (q * q)))))
        = ((q + ((0 - (r * q)) * g)) * dh) + ((((s * r) - h) * (q * q)) * dk)
  BY <1>4, SMT
<1> QED
  BY <1>2, <1>3, <1>5, SameStands DEF SoftScaledResetRule

HardScaledResetRule(dh, dk, g, s, h, r, q) ==
  (((g \otimes dh) \otimes r) \oplus (s \otimes 0))
    \oplus (((0 \ominus (g \otimes dh)) \otimes (h \otimes q))
              \oplus ((1 \ominus s)
                        \otimes ((dh \otimes q)
                                   \ominus ((h \otimes dk) \otimes (q \otimes q)))))
    = ((((1 \ominus s) \otimes q) \oplus ((r \ominus (h \otimes q)) \otimes g)) \otimes dh)
        \oplus ((((1 \ominus s) \otimes h) \otimes (0 \ominus (q \otimes q))) \otimes dk)

LEMMA HardScaledReset ==
  ASSUME NEW dh \in Number, NEW dk \in Number, NEW g \in Number, NEW s \in Number,
         NEW h \in Number, NEW r \in Number, NEW q \in Number
  PROVE  HardScaledResetRule(dh, dk, g, s, h, r, q)
<1>1. /\ Stands(dh, dh) /\ Stands(dk, dk) /\ Stands(g, g) /\ Stands(s, s) /\ Stands(h, h)
      /\ Stands(r, r) /\ Stands(q, q) /\ Stands(0, 0) /\ Stands(1, 1)
  BY NumberStands, Units
<1>2. Stands((((g \otimes dh) \otimes r) \oplus (s \otimes 0))
               \oplus (((0 \ominus (g \otimes dh)) \otimes (h \otimes q))
                         \oplus ((1 \ominus s)
                                   \otimes ((dh \otimes q)
                                              \ominus ((h \otimes dk)
                                                         \otimes (q \otimes q))))),
             (((g * dh) * r) + (s * 0))
               + (((0 - (g * dh)) * (h * q)) + ((1 - s) * ((dh * q) - ((h * dk) * (q * q))))))
  BY <1>1, SumStands, DifferenceStands, ProductStands, Zenon
<1>3. Stands(((((1 \ominus s) \otimes q) \oplus ((r \ominus (h \otimes q)) \otimes g))
                \otimes dh)
               \oplus ((((1 \ominus s) \otimes h) \otimes (0 \ominus (q \otimes q)))
                         \otimes dk),
             ((((1 - s) * q) + ((r - (h * q)) * g)) * dh)
               + ((((1 - s) * h) * (0 - (q * q))) * dk))
  BY <1>1, SumStands, DifferenceStands, ProductStands, Zenon
<1>4. /\ dh \in Int /\ dk \in Int /\ g \in Int /\ s \in Int /\ h \in Int /\ r \in Int
      /\ q \in Int
  BY NumberStands
<1>5. (((g * dh) * r) + (s * 0))
        + (((0 - (g * dh)) * (h * q)) + ((1 - s) * ((dh * q) - ((h * dk) * (q * q)))))
        = ((((1 - s) * q) + ((r - (h * q)) * g)) * dh) + ((((1 - s) * h) * (0 - (q * q))) * dk)
  BY <1>4, SMT
<1> QED
  BY <1>2, <1>3, <1>5, SameStands DEF HardScaledResetRule

\* What the loss owes to a step is what it owes to the charged potential h and,
\* where the reset scales, to the parameter.
LossThroughChargeRule(gs, gv, c, g, dh, r, k, dp) ==
  ((gs \otimes (g \otimes dh)) \oplus (gv \otimes ((r \otimes dh) \oplus (k \otimes dp))))
    \oplus (c \otimes ((r \otimes dh) \oplus (k \otimes dp)))
    = (((gs \otimes g) \oplus ((c \oplus gv) \otimes r)) \otimes dh)
        \oplus ((k \otimes (c \oplus gv)) \otimes dp)

LEMMA LossThroughCharge ==
  ASSUME NEW gs \in Number, NEW gv \in Number, NEW c \in Number, NEW g \in Number,
         NEW dh \in Number, NEW r \in Number, NEW k \in Number, NEW dp \in Number
  PROVE  LossThroughChargeRule(gs, gv, c, g, dh, r, k, dp)
<1>1. /\ Stands(gs, gs) /\ Stands(gv, gv) /\ Stands(c, c) /\ Stands(g, g) /\ Stands(dh, dh)
      /\ Stands(r, r) /\ Stands(k, k) /\ Stands(dp, dp)
  BY NumberStands
<1>2. Stands(((gs \otimes (g \otimes dh))
                \oplus (gv \otimes ((r \otimes dh) \oplus (k \otimes dp))))
               \oplus (c \otimes ((r \otimes dh) \oplus (k \otimes dp))),
             ((gs * (g * dh)) + (gv * ((r * dh) + (k * dp)))) + (c * ((r * dh) + (k * dp))))
  BY <1>1, SumStands, DifferenceStands, ProductStands, Zenon
<1>3. Stands((((gs \otimes g) \oplus ((c \oplus gv) \otimes r)) \otimes dh)
               \oplus ((k \otimes (c \oplus gv)) \otimes dp),
             (((gs * g) + ((c + gv) * r)) * dh) + ((k * (c + gv)) * dp))
  BY <1>1, SumStands, DifferenceStands, ProductStands, Zenon
<1>4. /\ gs \in Int /\ gv \in Int /\ c \in Int /\ g \in Int /\ dh \in Int /\ r \in Int
      /\ k \in Int /\ dp \in Int
  BY NumberStands
<1>5. ((gs * (g * dh)) + (gv * ((r * dh) + (k * dp)))) + (c * ((r * dh) + (k * dp)))
        = (((gs * g) + ((c + gv) * r)) * dh) + ((k * (c + gv)) * dp)
  BY <1>4, SMT
<1> QED
  BY <1>2, <1>3, <1>5, SameStands DEF LossThroughChargeRule

\* And that is what it owes to what charged it.
LossThroughSourcesRule(gh, a, b, m, dw, dx, dp, k) ==
  (gh \otimes (((a \otimes dw) \oplus (b \otimes dx)) \oplus (m \otimes dp)))
    \oplus (k \otimes dp)
    = (((gh \otimes b) \otimes dx) \oplus ((gh \otimes a) \otimes dw))
        \oplus ((k \oplus (m \otimes gh)) \otimes dp)

LEMMA LossThroughSources ==
  ASSUME NEW gh \in Number, NEW a \in Number, NEW b \in Number, NEW m \in Number,
         NEW dw \in Number, NEW dx \in Number, NEW dp \in Number, NEW k \in Number
  PROVE  LossThroughSourcesRule(gh, a, b, m, dw, dx, dp, k)
<1>1. /\ Stands(gh, gh) /\ Stands(a, a) /\ Stands(b, b) /\ Stands(m, m) /\ Stands(dw, dw)
      /\ Stands(dx, dx) /\ Stands(dp, dp) /\ Stands(k, k)
  BY NumberStands
<1>2. Stands((gh \otimes (((a \otimes dw) \oplus (b \otimes dx)) \oplus (m \otimes dp)))
               \oplus (k \otimes dp),
             (gh * (((a * dw) + (b * dx)) + (m * dp))) + (k * dp))
  BY <1>1, SumStands, DifferenceStands, ProductStands, Zenon
<1>3. Stands((((gh \otimes b) \otimes dx) \oplus ((gh \otimes a) \otimes dw))
               \oplus ((k \oplus (m \otimes gh)) \otimes dp),
             (((gh * b) * dx) + ((gh * a) * dw)) + ((k + (m * gh)) * dp))
  BY <1>1, SumStands, DifferenceStands, ProductStands, Zenon
<1>4. /\ gh \in Int /\ a \in Int /\ b \in Int /\ m \in Int /\ dw \in Int /\ dx \in Int
      /\ dp \in Int /\ k \in Int
  BY NumberStands
<1>5. (gh * (((a * dw) + (b * dx)) + (m * dp))) + (k * dp)
        = (((gh * b) * dx) + ((gh * a) * dw)) + ((k + (m * gh)) * dp)
  BY <1>4, SMT
<1> QED
  BY <1>2, <1>3, <1>5, SameStands DEF LossThroughSourcesRule

\* Summands of a balance in another order.
LEMMA Regroup ==
  ASSUME NEW a \in Number, NEW b \in Number, NEW r \in Number, NEW s \in Number,
         NEW u \in Number
  PROVE  (a \oplus b) \oplus ((r \oplus s) \oplus u)
           = (a \oplus s) \oplus (b \oplus (r \oplus u))
<1>1. Stands(a, a) /\ Stands(b, b) /\ Stands(r, r) /\ Stands(s, s) /\ Stands(u, u)
  BY NumberStands
<1>2. Stands((a \oplus b) \oplus ((r \oplus s) \oplus u), (a + b) + ((r + s) + u))
  BY <1>1, SumStands, DifferenceStands, ProductStands, Zenon
<1>3. Stands((a \oplus s) \oplus (b \oplus (r \oplus u)), (a + s) + (b + (r + u)))
  BY <1>1, SumStands, DifferenceStands, ProductStands, Zenon
<1>4. a \in Int /\ b \in Int /\ r \in Int /\ s \in Int /\ u \in Int
  BY NumberStands
<1>5. (a + b) + ((r + s) + u) = (a + s) + (b + (r + u))
  BY <1>4, SMT
<1> QED
  BY <1>2, <1>3, <1>5, SameStands

LEMMA RegroupFour ==
  ASSUME NEW a \in Number, NEW b \in Number, NEW r \in Number, NEW s \in Number
  PROVE  ((a \oplus b) \oplus r) \oplus s = (a \oplus s) \oplus (b \oplus r)
<1>1. Stands(a, a) /\ Stands(b, b) /\ Stands(r, r) /\ Stands(s, s)
  BY NumberStands
<1>2. Stands(((a \oplus b) \oplus r) \oplus s, ((a + b) + r) + s)
  BY <1>1, SumStands, DifferenceStands, ProductStands, Zenon
<1>3. Stands((a \oplus s) \oplus (b \oplus r), (a + s) + (b + r))
  BY <1>1, SumStands, DifferenceStands, ProductStands, Zenon
<1>4. a \in Int /\ b \in Int /\ r \in Int /\ s \in Int
  BY NumberStands
<1>5. ((a + b) + r) + s = (a + s) + (b + r)
  BY <1>4, SMT
<1> QED
  BY <1>2, <1>3, <1>5, SameStands

-----------------------------------------------------------------------------
\* The attributes are numbers, and so are those a launch derives from them.
LEMMA Attributes ==
  /\ {Threshold, ResetVoltage, MembraneDecay} \subseteq Number
  /\ Tau \in Number \ {0}
  /\ ReciprocalTau = Reciprocal[Tau] /\ ReciprocalTau \in Number
  /\ \A c : ResetOf(c) \in Number
<1>1. /\ {Threshold, ResetVoltage, MembraneDecay} \subseteq Number
      /\ Tau \in Number \ {0}
  BY AttributesAssumption
<1>2. 1 \oslash Tau = Reciprocal[Tau] /\ Reciprocal[Tau] \in Number
  BY <1>1, Units, Quotients
<1> QED
  BY <1>1, <1>2, Units DEF ReciprocalTau, ResetOf

\* The values of the duals the eager step computes.
LEMMA Values ==
  /\ \A x, y : /\ (x ++ y).val = x.val \oplus y.val
               /\ (x -- y).val = x.val \ominus y.val
               /\ (x ** y).val = x.val \otimes y.val
               /\ (x // y).val = x.val \oslash y.val
  /\ \A a : Const(a).val = a /\ \A l : LeafOf(a, l).val = a
  /\ \A x : Detach(x).val = x.val
  /\ \A x : Relu(x).val = IF Above(x.val, 0) THEN x.val ELSE 0
  /\ \A c : RestOf(c).val = ResetOf(c)
<1>1. \A x, y : /\ (x ++ y).val = x.val \oplus y.val
                /\ (x -- y).val = x.val \ominus y.val
                /\ (x ** y).val = x.val \otimes y.val
                /\ (x // y).val = x.val \oslash y.val
  BY DEF ++, --, **, //
<1>2. \A a : Const(a).val = a /\ \A l : LeafOf(a, l).val = a
  BY DEF Const, LeafOf
<1> QED
  BY <1>1, <1>2 DEF Detach, Relu, RestOf, ResetOf

\* A leaky charge is the same for both, whichever way the rate is given.
LEMMA LeakyAgrees ==
  ASSUME NEW c, NEW w, NEW x, w.val \in Number, x.val \in Number
  PROVE  LIFCharge(c, w, x).val = Leaky(c, w.val, x.val, ReciprocalTau)
<1> DEFINE above == w.val \ominus ResetOf(c)
<1>1. above \in Number /\ x.val \ominus above \in Number
  BY Attributes, Closed
<1>2. /\ above \oslash Tau = above \otimes ReciprocalTau
      /\ (x.val \ominus above) \oslash Tau = (x.val \ominus above) \otimes ReciprocalTau
  BY <1>1, Attributes, Quotients
<1>3. CASE c.decay
  <2>1. LIFCharge(c, w, x).val = w.val \oplus ((x.val \ominus above) \oslash Tau)
    BY <1>3, Values DEF LIFCharge
  <2> QED
    BY <1>2, <1>3, <2>1 DEF Leaky
<1>4. CASE ~c.decay
  <2>1. LIFCharge(c, w, x).val = (w.val \ominus (above \oslash Tau)) \oplus x.val
    BY <1>4, Values DEF LIFCharge
  <2> QED
    BY <1>2, <1>4, <2>1 DEF Leaky
<1> QED
  BY <1>3, <1>4

\* The charge with a rate that is learnt.
LEMMA ParametricAgrees ==
  ASSUME NEW c, NEW w, NEW x, NEW r
  PROVE  PLIFCharge(c, w, x, r).val = Leaky(c, w.val, x.val, r.val)
<1>1. CASE c.decay
  BY <1>1, Values DEF PLIFCharge, Leaky
<1>2. CASE ~c.decay
  BY <1>2, Values DEF PLIFCharge, Leaky
<1> QED
  BY <1>1, <1>2

\* A leaky charge is a number.
LEMMA LeakyIsNumber ==
  ASSUME NEW c, NEW w \in Number, NEW x \in Number, NEW r \in Number
  PROVE  Leaky(c, w, x, r) \in Number
<1> DEFINE above == w \ominus ResetOf(c)
<1>1. above \in Number /\ x \ominus above \in Number
  BY Attributes, Closed
<1>2. (x \ominus above) \otimes r \in Number /\ w \ominus (above \otimes r) \in Number
  BY <1>1, Closed
<1> QED
  BY <1>2, Closed DEF Leaky

\* Both compare with the threshold.
LEMMA FiresAgree ==
  ASSUME NEW h, h.val \in Number
  PROVE  NeuronalFire(h).val = Fired(h.val) /\ Fired(h.val) \in {0, 1}
<1>1. (h.val \ominus Threshold) \ominus 0 = h.val \ominus Threshold
  BY Attributes, Closed, Units
<1>2. NeuronalFire(h).val = IF AtLeast(h.val \ominus Threshold, 0) THEN 1 ELSE 0
  BY Values DEF NeuronalFire, Surrogate
<1> QED
  BY <1>1, <1>2 DEF Fired, AtLeast

\* An eager reset, by what the spike is.
LEMMA ResetValue ==
  ASSUME NEW c, NEW voltage0, NEW threshold, NEW spike,
         voltage0.val \in Number, spike.val \in {0, 1}
  PROVE  ResetBy(c, voltage0, threshold, spike).val =
           IF c.hard THEN IF spike.val = 1 THEN ResetVoltage ELSE voltage0.val
           ELSE voltage0.val \ominus (spike.val \otimes threshold.val)
<1> DEFINE s == IF c.detach THEN Detach(spike) ELSE spike
<1>1. s.val = spike.val
  BY Values
<1>2. CASE c.hard
  <2>1. ResetBy(c, voltage0, threshold, spike).val
          = (spike.val \otimes ResetVoltage) \oplus ((1 \ominus spike.val) \otimes voltage0.val)
    <3> HIDE DEF s
    <3>1. ((s ** Const(ResetVoltage)) ++ ((Const(1) -- s) ** voltage0)).val
            = (s.val \otimes ResetVoltage) \oplus ((1 \ominus s.val) \otimes voltage0.val)
      BY Values
    <3> QED
      BY <1>1, <1>2, <3>1 DEF ResetBy, s
  <2>2. CASE spike.val = 1
    BY <1>2, <2>1, <2>2, Units, Attributes
  <2>3. CASE spike.val = 0
    BY <1>2, <2>1, <2>3, Units, Attributes
  <2> QED
    BY <2>2, <2>3
<1>3. CASE ~c.hard
  <2> HIDE DEF s
  <2>1. (voltage0 -- (s ** threshold)).val = voltage0.val \ominus (s.val \otimes threshold.val)
    BY Values
  <2> QED
    BY <1>1, <1>3, <2>1 DEF ResetBy, s
<1> QED
  BY <1>2, <1>3

\* A reset as it is.
LEMMA PlainReset ==
  ASSUME NEW c, NEW h, h.val \in Number
  PROVE  /\ ResetBy(c, h, Const(Threshold), NeuronalFire(h)).val = AfterReset(c, h.val)
         /\ AfterReset(c, h.val) \in Number
<1>1. NeuronalFire(h).val = Fired(h.val) /\ Fired(h.val) \in {0, 1} /\ Fired(h.val) \in Number
  BY FiresAgree, Units
<1>2. Const(Threshold).val = Threshold
  BY Values
<1>3. ResetBy(c, h, Const(Threshold), NeuronalFire(h)).val =
        IF c.hard THEN IF Fired(h.val) = 1 THEN ResetVoltage ELSE h.val
        ELSE h.val \ominus (Fired(h.val) \otimes Threshold)
  BY <1>1, <1>2, ResetValue
<1>4. Fired(h.val) \otimes Threshold \in Number
  BY <1>1, Attributes, Closed
<1>5. h.val \ominus (Fired(h.val) \otimes Threshold) \in Number
  BY <1>4, Closed
<1> QED
  BY <1>3, <1>5, Attributes DEF AfterReset, ResetOf

\* KLIF divides the potential and the threshold by k before it subtracts, its
\* kernel the difference after.
LEMMA ScaledReset ==
  ASSUME NEW c, NEW h, NEW k, h.val \in Number, k.val \in Number \ {0}
  PROVE  LET left == IF c.hard /\ Fired(h.val) = 1 THEN AfterReset(c, h.val)
                     ELSE AfterReset(c, h.val) \oslash k.val
         IN  /\ ResetBy(c, h // k, Const(Threshold) // k, NeuronalFire(h)).val = left
             /\ left \in Number
<1> DEFINE f == Fired(h.val)
           scaled == h.val \oslash k.val
           threshold == Threshold \oslash k.val
<1>1. NeuronalFire(h).val = f /\ f \in {0, 1}
  BY FiresAgree
<1>2. (h // k).val = scaled /\ (Const(Threshold) // k).val = threshold
  BY Values
<1>3. scaled \in Number /\ threshold \in Number
  BY Attributes, Quotients
<1>4. ResetBy(c, h // k, Const(Threshold) // k, NeuronalFire(h)).val =
        IF c.hard THEN IF f = 1 THEN ResetVoltage ELSE scaled
        ELSE scaled \ominus (f \otimes threshold)
  <2> HIDE DEF f, scaled, threshold
  <2>1. (h // k).val \in Number /\ NeuronalFire(h).val \in {0, 1}
    BY <1>1, <1>2, <1>3
  <2> QED
    BY <1>1, <1>2, <2>1, ResetValue
<1>5. CASE c.hard
  BY <1>1, <1>3, <1>4, <1>5, Attributes DEF AfterReset, ResetOf
<1>6. CASE ~c.hard /\ f = 0
  <2>1. scaled \ominus (f \otimes threshold) = scaled
    BY <1>3, <1>6, Units
  <2>2. AfterReset(c, h.val) = h.val
    BY <1>6, Attributes, Units DEF AfterReset
  <2> QED
    BY <1>3, <1>4, <1>6, <2>1, <2>2
<1>7. CASE ~c.hard /\ f = 1
  <2> DEFINE r == Reciprocal[k.val]
  <2>1. r \in Number /\ scaled = h.val \otimes r /\ threshold = Threshold \otimes r
    BY Attributes, Quotients
  <2>2. scaled \ominus (f \otimes threshold) = scaled \ominus threshold
    BY <1>3, <1>7, Units
  <2>3. scaled \ominus threshold = (h.val \ominus Threshold) \otimes r
    BY <2>1, Attributes, Distributes
  <2>4. AfterReset(c, h.val) = h.val \ominus Threshold /\ h.val \ominus Threshold \in Number
    BY <1>7, Attributes, Units, Closed DEF AfterReset
  <2>5. AfterReset(c, h.val) \oslash k.val = (h.val \ominus Threshold) \otimes r
    BY <2>4, Quotients
  <2>6. AfterReset(c, h.val) \oslash k.val \in Number
    BY <2>4, Quotients
  <2> QED
    BY <1>4, <1>7, <2>2, <2>3, <2>5, <2>6
<1> QED
  BY <1>1, <1>5, <1>6, <1>7

-----------------------------------------------------------------------------
\* What a step of the kernel has to do with the step of the neuron.
Agrees(out, fused) ==
  /\ fused.v \in Number /\ out.v.val = fused.v
  /\ out.spike.val = fused.kept.spike
  /\ "v" \in DOMAIN fused.kept => fused.kept.v = fused.v

\* A step that charges to h, fires and resets.
LEMMA StepFromCharge ==
  ASSUME NEW c, NEW w, NEW x, NEW p, NEW fused,
         c.op \in {"if", "lif", "plif"},
         NeuronalCharge(c, w, x, p).val \in Number,
         fused.v = AfterReset(c, NeuronalCharge(c, w, x, p).val),
         fused.kept.spike = Fired(NeuronalCharge(c, w, x, p).val),
         "v" \in DOMAIN fused.kept => fused.kept.v = fused.v
  PROVE  Agrees(SingleStep(c, w, x, p), fused)
<1> DEFINE h == NeuronalCharge(c, w, x, p)
<1>1. SingleStep(c, w, x, p).spike = NeuronalFire(h)
  BY DEF SingleStep
<1>2. SingleStep(c, w, x, p).v = ResetBy(c, h, Const(Threshold), NeuronalFire(h))
  BY DEF SingleStep, NeuronalReset
<1> HIDE DEF h
<1>3. h.val \in Number
  BY DEF h
<1>4. NeuronalFire(h).val = Fired(h.val)
  BY <1>3, FiresAgree
<1>5. /\ ResetBy(c, h, Const(Threshold), NeuronalFire(h)).val = AfterReset(c, h.val)
      /\ AfterReset(c, h.val) \in Number
  BY <1>3, PlainReset
<1> QED
  BY <1>1, <1>2, <1>4, <1>5 DEF Agrees, h

\* Step by step: IF, ...
LEMMA IfAgrees ==
  ASSUME NEW c, NEW w, NEW x, NEW p, c.op = "if", w.val \in Number, x.val \in Number
  PROVE  /\ Agrees(SingleStep(c, w, x, p), IfForward(c, w.val, x.val))
         /\ Agrees(SingleStep(c, w, x, p), IfCompactForward(c, w.val, x.val))
<1> DEFINE h == w.val \oplus x.val
<1>1. NeuronalCharge(c, w, x, p).val = h /\ h \in Number
  BY Values, Closed DEF NeuronalCharge, IFCharge
<1> HIDE DEF h
<1>2. IfForward(c, w.val, x.val)
        = [v |-> AfterReset(c, h), kept |-> [h |-> h, spike |-> Fired(h), v |-> AfterReset(c, h)]]
  BY DEF IfForward, h
<1>3. IfCompactForward(c, w.val, x.val)
        = [v |-> AfterReset(c, h), kept |-> [h |-> h, spike |-> Fired(h)]]
  BY DEF IfCompactForward, h
<1> QED
  BY <1>1, <1>2, <1>3, StepFromCharge

\* ... LIF, ...
LEMMA LifAgrees ==
  ASSUME NEW c, NEW w, NEW x, NEW p, c.op = "lif", w.val \in Number, x.val \in Number
  PROVE  /\ Agrees(SingleStep(c, w, x, p), LifForward(c, w.val, x.val))
         /\ Agrees(SingleStep(c, w, x, p), LifCompactForward(c, w.val, x.val))
<1> DEFINE h == Leaky(c, w.val, x.val, ReciprocalTau)
<1>1. NeuronalCharge(c, w, x, p).val = h /\ h \in Number
  BY LeakyAgrees, LeakyIsNumber, Attributes DEF NeuronalCharge
<1> HIDE DEF h
<1>2. LifForward(c, w.val, x.val)
        = [v |-> AfterReset(c, h), kept |-> [h |-> h, spike |-> Fired(h), v |-> AfterReset(c, h)]]
  BY DEF LifForward, h
<1>3. LifCompactForward(c, w.val, x.val)
        = [v |-> AfterReset(c, h), kept |-> [h |-> h, spike |-> Fired(h)]]
  BY DEF LifCompactForward, h
<1> QED
  BY <1>1, <1>2, <1>3, StepFromCharge

\* ... PLIF, ...
LEMMA PlifAgrees ==
  ASSUME NEW c, NEW w, NEW x, NEW p,
         c.op = "plif", w.val \in Number, x.val \in Number, p.val \in Number
  PROVE  Agrees(SingleStep(c, w, x, p), PlifForward(c, w.val, x.val, p.val))
<1> DEFINE h == Leaky(c, w.val, x.val, p.val)
<1>1. NeuronalCharge(c, w, x, p).val = h /\ h \in Number
  BY ParametricAgrees, LeakyIsNumber DEF NeuronalCharge
<1> HIDE DEF h
<1>2. PlifForward(c, w.val, x.val, p.val)
        = [v |-> AfterReset(c, h),
           kept |-> [h |-> h, spike |-> Fired(h), v |-> AfterReset(c, h),
                     vPrev |-> w.val, x |-> x.val]]
  BY DEF PlifForward, h
<1> QED
  BY <1>1, <1>2, StepFromCharge

\* ... KLIF ...
LEMMA KlifAgrees ==
  ASSUME NEW c, NEW w, NEW x, NEW p,
         c.op = "klif", w.val \in Number, x.val \in Number, p.val \in Number \ {0}
  PROVE  Agrees(SingleStep(c, w, x, p), KlifForward(c, w.val, x.val, p.val))
<1> DEFINE charged == NeuronalCharge(c, w, x, p)
           raised == p.val \otimes Leaky(c, w.val, x.val, ReciprocalTau)
           h == IF Above(raised, 0) THEN raised ELSE 0
           left == IF (c.hard /\ Fired(h) = 1) \/ ~c.scale
                   THEN AfterReset(c, h)
                   ELSE AfterReset(c, h) \oslash p.val
<1>1. charged.val = h /\ h \in Number
  <2>1. LIFCharge(c, w, x).val = Leaky(c, w.val, x.val, ReciprocalTau)
    BY LeakyAgrees
  <2>2. charged.val = h
    BY <2>1, Values DEF NeuronalCharge, KLIFCharge
  <2>3. raised \in Number
    BY LeakyIsNumber, Attributes, Closed
  <2> QED
    BY <2>2, <2>3, Units
<1>2. KlifForward(c, w.val, x.val, p.val)
        = [v |-> left,
           kept |-> [h |-> h, spike |-> Fired(h), v |-> left, vPrev |-> w.val, x |-> x.val]]
  BY DEF KlifForward
<1>3. /\ SingleStep(c, w, x, p).spike = NeuronalFire(charged)
      /\ SingleStep(c, w, x, p).v = NeuronalReset(c, charged, NeuronalFire(charged), p)
  BY DEF SingleStep
<1>4. NeuronalFire(charged).val = Fired(h)
  BY <1>1, FiresAgree
<1>5. NeuronalReset(c, charged, NeuronalFire(charged), p).val = left /\ left \in Number
  <2> HIDE DEF h, charged
  <2>1. CASE c.scale
    <3>1. NeuronalReset(c, charged, NeuronalFire(charged), p)
            = ResetBy(c, charged // p, Const(Threshold) // p, NeuronalFire(charged))
      BY <2>1 DEF NeuronalReset
    <3> QED
      BY <1>1, <2>1, <3>1, ScaledReset
  <2>2. CASE ~c.scale
    <3>1. NeuronalReset(c, charged, NeuronalFire(charged), p)
            = ResetBy(c, charged, Const(Threshold), NeuronalFire(charged))
      BY <2>2 DEF NeuronalReset
    <3> QED
      BY <1>1, <2>2, <3>1, PlainReset
  <2> QED
    BY <2>1, <2>2
<1> HIDE DEF h, charged, left
<1> QED
  BY <1>2, <1>3, <1>4, <1>5 DEF Agrees

\* ... and FedSNN.
LEMMA FedSNNAgrees ==
  ASSUME NEW w, NEW x, w.val \in Number, x.val \in Number
  PROVE  Agrees(DecayLIFStep(w, x), FedSNNForward(w.val, x.val))
<1> DEFINE charged == (w ** Const(MembraneDecay)) ++ x
           h == (w.val \otimes MembraneDecay) \oplus x.val
           spike == NeuronalFire(charged)
<1>1. charged.val = h
  BY Values
<1>2. h \in Number
  BY Attributes, Closed
<1>3. DecayLIFStep(w, x) = [spike |-> spike, v |-> charged -- (Detach(spike) ** Const(Threshold))]
  BY DEF DecayLIFStep
<1>4. FedSNNForward(w.val, x.val)
        = [v |-> h \ominus (Fired(h) \otimes Threshold), kept |-> [h |-> h, spike |-> Fired(h)]]
  BY DEF FedSNNForward
<1> HIDE DEF charged, h
<1>5. spike.val = Fired(h) /\ Fired(h) \in Number
  BY <1>1, <1>2, FiresAgree, Units
<1> HIDE DEF spike
<1>6. (charged -- (Detach(spike) ** Const(Threshold))).val = h \ominus (Fired(h) \otimes Threshold)
  BY <1>1, <1>5, Values
<1>7. Fired(h) \otimes Threshold \in Number
  BY <1>5, Attributes, Closed
<1>8. h \ominus (Fired(h) \otimes Threshold) \in Number
  BY <1>2, <1>7, Closed
<1> QED
  BY <1>3, <1>4, <1>5, <1>6, <1>8 DEF Agrees

\* Whatever the call, the step of its kernel is the step of its neuron.
LEMMA StepAgrees ==
  ASSUME NEW c \in Calls, NEW w, NEW x, NEW p,
         w.val \in Number, x.val \in Number, p.val = c.p
  PROVE  Agrees(EagerStep(c, w, x, p), ForwardStep(c, w.val, x.val, c.p))
<1>1. /\ c.op \in {"if", "lif", "plif", "klif", "fedsnn"}
      /\ c.p \in Number \ {0}
  BY DynamicsAssumption DEF Calls
<1>2. CASE c.op = "if"
  BY <1>2, IfAgrees DEF EagerStep, ForwardStep
<1>3. CASE c.op = "lif"
  BY <1>3, LifAgrees DEF EagerStep, ForwardStep
<1>4. CASE c.op = "plif"
  BY <1>1, <1>4, PlifAgrees DEF EagerStep, ForwardStep
<1>5. CASE c.op = "klif"
  BY <1>1, <1>5, KlifAgrees DEF EagerStep, ForwardStep
<1>6. CASE c.op = "fedsnn"
  BY <1>6, FedSNNAgrees DEF EagerStep, ForwardStep
<1> QED
  BY <1>1, <1>2, <1>3, <1>4, <1>5, <1>6

-----------------------------------------------------------------------------
-----------------------------------------------------------------------------
(* The derivatives.                                                        *)

\* Zero and one as the second factor.
LEMMA UnitsOnTheRight == \A a \in Number : a \otimes 0 = 0 /\ a \otimes 1 = a
  BY Units, Commutes

\* What a number is multiplied by to be one: there is one such number, and
\* that of a square is a square.
LEMMA ReciprocalOf ==
  ASSUME NEW b \in Number \ {0}
  PROVE  Reciprocal[b] \in Number /\ b \otimes Reciprocal[b] = 1
<1>1. \E r \in Number : b \otimes r = 1
  BY ResiduesAssumption
<1>2. Reciprocal[b] = CHOOSE r \in Number : b \otimes r = 1
  BY DEF Reciprocal
<1> QED
  BY <1>1, <1>2

LEMMA OnlyReciprocal ==
  ASSUME NEW a \in Number \ {0}, NEW b \in Number, a \otimes b = 1
  PROVE  b = Reciprocal[a]
<1> DEFINE r == Reciprocal[a]
<1>1. r \in Number /\ a \otimes r = 1
  BY ReciprocalOf
<1> HIDE DEF r
<1>2. (b \otimes a) \otimes r = b
  BY <1>1, Associates, UnitsOnTheRight
<1>3. (b \otimes a) \otimes r = r
  BY <1>1, Commutes, Units
<1> QED
  BY <1>2, <1>3 DEF r

LEMMA ReciprocalOfSquare ==
  ASSUME NEW k \in Number \ {0}
  PROVE  /\ k \otimes k \in Number \ {0}
         /\ Reciprocal[k \otimes k] = Reciprocal[k] \otimes Reciprocal[k]
<1> DEFINE r == Reciprocal[k]
<1>1. r \in Number /\ k \otimes r = 1
  BY ReciprocalOf
<1> HIDE DEF r
<1>2. k \otimes k \in Number /\ r \otimes r \in Number
  BY <1>1, Closed
<1>3. (k \otimes k) \otimes (r \otimes r) = 1
  <2>1. (k \otimes k) \otimes (r \otimes r) = (k \otimes r) \otimes (k \otimes r)
    BY <1>1, FourFactors
  <2> QED
    BY <1>1, <2>1, Units
<1>4. k \otimes k # 0
  BY <1>2, <1>3, Units
<1> QED
  BY <1>2, <1>3, <1>4, OnlyReciprocal DEF r

\* The two forms of the surrogate's derivative.
LEMMA SurrogatesAgree ==
  ASSUME NEW h \in Number
  PROVE  /\ ATanDerivative(h \ominus Threshold) = SurrogateGradient(h)
         /\ SurrogateGradient(h) \in Number
<1> DEFINE q == Reciprocal[2]
           p == Reciprocal[Pi]
           scale == (Pi \otimes q) \otimes Alpha
           above == h \ominus Threshold
           scaled == above \otimes scale
           square == 1 \oplus (scaled \otimes scaled)
<1>1. /\ 2 \in Number \ {0} /\ Pi \in Number \ {0} /\ Alpha \in Number /\ Threshold \in Number
  BY Modulus, AttributesAssumption, SMT DEF Number
<1>2. /\ q \in Number /\ p \in Number /\ Pi \otimes p = 1
      /\ Pi \oslash 2 = Pi \otimes q /\ Half = q
  BY <1>1, ReciprocalOf, Quotients, Units DEF Half
<1>3. Pi \otimes q \in Number /\ q \otimes Alpha \in Number /\ above \in Number
  BY <1>1, <1>2, Closed
<1>4. scale \in Number
  BY <1>1, <1>3, Closed
<1>5. scaled \in Number /\ scale \otimes above = scaled
  BY <1>3, <1>4, Closed, Commutes
<1>6. square \in Number \ {0}
  <2>1. scaled \otimes scaled \in Number /\ square # 0
    BY <1>5, Closed, ResiduesAssumption
  <2> QED
    BY <2>1, Closed, Units
<1>7. scale \oslash Pi = q \otimes Alpha
  <2>1. scale \oslash Pi = scale \otimes p
    BY <1>1, <1>4, Quotients
  <2>2. scale \otimes p = p \otimes ((Pi \otimes q) \otimes Alpha)
    BY <1>2, <1>4, Commutes
  <2>3. (Pi \otimes q) \otimes Alpha = Pi \otimes (q \otimes Alpha)
    BY <1>1, <1>2, Associates
  <2>4. p \otimes (Pi \otimes (q \otimes Alpha)) = (p \otimes Pi) \otimes (q \otimes Alpha)
    BY <1>1, <1>2, <1>3, Associates
  <2>5. (p \otimes Pi) \otimes (q \otimes Alpha) = q \otimes Alpha
    BY <1>1, <1>2, <1>3, Commutes, Units
  <2> QED
    BY <2>1, <2>2, <2>3, <2>4, <2>5
<1>8. SurrogateGradient(h) = (q \otimes Alpha) \oslash square
  BY <1>2 DEF SurrogateGradient
<1>9. ATanDerivative(above) = (scale \oslash Pi) \oslash square
  <2>1. ATanDerivative(above) = (scale \oslash Pi)
          \oslash (1 \oplus ((scale \otimes above) \otimes (scale \otimes above)))
    BY <1>2 DEF ATanDerivative
  <2> QED
    BY <1>5, <2>1
<1>10. (q \otimes Alpha) \oslash square \in Number
  BY <1>3, <1>6, Quotients
<1> QED
  BY <1>7, <1>8, <1>9, <1>10

\* The operations on duals give duals.
LEMMA DualOps ==
  ASSUME NEW x \in Dual, NEW y \in Dual
  PROVE  /\ x ++ y \in Dual /\ x -- y \in Dual /\ x ** y \in Dual
         /\ y.val # 0 => x // y \in Dual
<1>1. /\ x.val \in Number /\ y.val \in Number
      /\ \A l \in Leaves : x.tan[l] \in Number /\ y.tan[l] \in Number
  BY DEF Dual
<1>2. x ++ y \in Dual
  BY <1>1, Closed DEF Dual, ++
<1>3. x -- y \in Dual
  BY <1>1, Closed DEF Dual, --
<1>4. x ** y \in Dual
  <2>1. \A l \in Leaves : (x.tan[l] \otimes y.val) \oplus (x.val \otimes y.tan[l]) \in Number
    BY <1>1, Closed
  <2> QED
    BY <1>1, <2>1, Closed DEF Dual, **
<1>5. ASSUME y.val # 0
      PROVE  x // y \in Dual
  <2>1. y.val \in Number \ {0} /\ y.val \otimes y.val \in Number \ {0}
    BY <1>1, <1>5, ReciprocalOfSquare
  <2>2. \A l \in Leaves : (x.tan[l] \otimes y.val) \ominus (x.val \otimes y.tan[l]) \in Number
    BY <1>1, Closed
  <2>3. \A l \in Leaves : ((x.tan[l] \otimes y.val) \ominus (x.val \otimes y.tan[l]))
                            \oslash (y.val \otimes y.val) \in Number
    BY <2>1, <2>2, Quotients
  <2>4. x.val \oslash y.val \in Number
    BY <1>1, <2>1, Quotients
  <2> QED
    BY <2>3, <2>4 DEF Dual, //
<1> QED
  BY <1>2, <1>3, <1>4, <1>5

\* Constants, leaves and what is detached or rectified are duals.
LEMMA DualLeaves ==
  /\ \A a \in Number : Const(a) \in Dual /\ \A l : LeafOf(a, l) \in Dual
  /\ \A x \in Dual : Detach(x) \in Dual /\ Relu(x) \in Dual
  /\ \A c : RestOf(c) \in Dual
<1>1. \A a \in Number : Const(a) \in Dual
  BY Units DEF Const, Dual
<1>2. \A a \in Number : \A l : LeafOf(a, l) \in Dual
  BY Units DEF LeafOf, Dual
<1>3. \A x \in Dual : x.val \in Number
  BY DEF Dual
<1>4. \A c : (IF c.hard THEN ResetVoltage ELSE 0) \in Number
  BY Attributes, Units
<1> QED
  BY <1>1, <1>2, <1>3, <1>4, Units DEF Detach, Relu, RestOf

\* The derivatives of the duals the eager step computes.
LEMMA Tangents ==
  ASSUME NEW l \in Leaves
  PROVE  /\ \A x, y : /\ (x ++ y).tan[l] = x.tan[l] \oplus y.tan[l]
                      /\ (x -- y).tan[l] = x.tan[l] \ominus y.tan[l]
                      /\ (x ** y).tan[l] = (x.tan[l] \otimes y.val) \oplus (x.val \otimes y.tan[l])
                      /\ (x // y).tan[l] =
                           ((x.tan[l] \otimes y.val) \ominus (x.val \otimes y.tan[l]))
                             \oslash (y.val \otimes y.val)
         /\ \A a : Const(a).tan[l] = 0
         /\ \A a, m : LeafOf(a, m).tan[l] = IF l = m THEN 1 ELSE 0
         /\ \A x : Detach(x).tan[l] = 0
         /\ \A x : Surrogate(x).tan[l] = ATanDerivative(x.val) \otimes x.tan[l]
         /\ \A c : RestOf(c).tan[l] = 0
<1>1. \A x, y : /\ (x ++ y).tan[l] = x.tan[l] \oplus y.tan[l]
                /\ (x -- y).tan[l] = x.tan[l] \ominus y.tan[l]
                /\ (x ** y).tan[l] = (x.tan[l] \otimes y.val) \oplus (x.val \otimes y.tan[l])
                /\ (x // y).tan[l] =
                     ((x.tan[l] \otimes y.val) \ominus (x.val \otimes y.tan[l]))
                       \oslash (y.val \otimes y.val)
  BY DEF ++, --, **, //
<1>2. \A a : Const(a).tan[l] = 0
  BY DEF Const
<1>3. \A a, m : LeafOf(a, m).tan[l] = IF l = m THEN 1 ELSE 0
  BY DEF LeafOf
<1>4. \A x : Surrogate(x).tan[l] = ATanDerivative(x.val) \otimes x.tan[l]
  BY DEF Surrogate
<1> QED
  BY <1>1, <1>2, <1>3, <1>4 DEF Detach, RestOf

\* What a dual consists of.
LEMMA Parts ==
  ASSUME NEW x \in Dual
  PROVE  x.val \in Number /\ \A l \in Leaves : x.tan[l] \in Number
  BY DEF Dual

\* The derivative of a quotient in terms of the reciprocal of its divisor.
LEMMA QuotientTangent ==
  ASSUME NEW x \in Dual, NEW y \in Dual, y.val # 0, NEW l \in Leaves
  PROVE  (x // y).tan[l] =
           (x.tan[l] \otimes Reciprocal[y.val])
             \ominus ((x.val \otimes y.tan[l])
                        \otimes (Reciprocal[y.val] \otimes Reciprocal[y.val]))
<1> DEFINE r == Reciprocal[y.val]
           d == (x.tan[l] \otimes y.val) \ominus (x.val \otimes y.tan[l])
<1>1. x.val \in Number /\ x.tan[l] \in Number /\ y.val \in Number \ {0} /\ y.tan[l] \in Number
  BY Parts
<1>2. r \in Number /\ y.val \otimes r = 1
  BY <1>1, ReciprocalOf
<1>3. d \in Number
  BY <1>1, Closed
<1>4. (x // y).tan[l] = d \oslash (y.val \otimes y.val)
  BY Tangents
<1>5. d \oslash (y.val \otimes y.val) = d \otimes (r \otimes r)
  BY <1>1, <1>3, Quotients, ReciprocalOfSquare
<1> HIDE DEF r
<1>6. d \otimes (r \otimes r)
        = ((x.tan[l] \otimes (y.val \otimes r)) \otimes r)
            \ominus ((x.val \otimes y.tan[l]) \otimes (r \otimes r))
  BY <1>1, <1>2, QuotientRule
<1> QED
  BY <1>1, <1>2, <1>4, <1>5, <1>6, UnitsOnTheRight DEF r

\* A quotient by a constant.
LEMMA ConstantQuotientTangent ==
  ASSUME NEW x \in Dual, NEW a \in Number \ {0}, NEW l \in Leaves
  PROVE  (x // Const(a)).tan[l] = x.tan[l] \otimes Reciprocal[a]
<1> DEFINE r == Reciprocal[a]
<1>1. x.val \in Number /\ x.tan[l] \in Number /\ r \in Number
  BY Parts, ReciprocalOf
<1>2. Const(a) \in Dual /\ Const(a).val = a /\ Const(a).tan[l] = 0
  BY DualLeaves, Values, Tangents
<1>3. (x // Const(a)).tan[l]
        = (x.tan[l] \otimes r) \ominus ((x.val \otimes 0) \otimes (r \otimes r))
  BY <1>2, QuotientTangent
<1> HIDE DEF r
<1>4. x.tan[l] \otimes r \in Number /\ r \otimes r \in Number
  BY <1>1, Closed
<1> QED
  BY <1>1, <1>3, <1>4, Units, UnitsOnTheRight DEF r

\* A spike depends on the potential through the surrogate.
LEMMA SpikeTangent ==
  ASSUME NEW h \in Dual
  PROVE  /\ NeuronalFire(h) \in Dual
         /\ \A l \in Leaves :
              NeuronalFire(h).tan[l] = SurrogateGradient(h.val) \otimes h.tan[l]
<1> DEFINE above == h -- Const(Threshold)
<1>1. /\ Const(Threshold) \in Dual /\ Const(Threshold).val = Threshold
      /\ h.val \in Number
  BY Attributes, DualLeaves, Values, Parts
<1>2. above \in Dual /\ above.val = h.val \ominus Threshold
  <2>1. above \in Dual
    BY <1>1, DualOps
  <2>2. above.val = h.val \ominus Const(Threshold).val
    BY Values
  <2> QED
    BY <1>1, <2>1, <2>2
<1>3. ASSUME NEW l \in Leaves
      PROVE  above.tan[l] = h.tan[l]
  BY <1>3, Tangents, Parts, Units
<1>4. ATanDerivative(above.val) = SurrogateGradient(h.val) /\ SurrogateGradient(h.val) \in Number
  BY <1>1, <1>2, SurrogatesAgree
<1> HIDE DEF above
<1>5. NeuronalFire(h) = Surrogate(above)
  BY DEF NeuronalFire, above
<1>6. Surrogate(above) \in Dual
  <2>1. \A l \in Leaves : ATanDerivative(above.val) \otimes above.tan[l] \in Number
    BY <1>2, <1>4, Parts, Closed
  <2>2. (IF AtLeast(above.val, 0) THEN 1 ELSE 0) \in Number
    BY Units
  <2> QED
    BY <2>1, <2>2 DEF Surrogate, Dual
<1> QED
  BY <1>3, <1>4, <1>5, <1>6, Tangents

\* The derivative of the spike a reset sees: none if it is detached.
SeenGradient(c, h) == IF c.detach THEN 0 ELSE SurrogateGradient(h.val)
SeenSpike(c, h) == IF c.detach THEN Detach(NeuronalFire(h)) ELSE NeuronalFire(h)

\* The spike a reset sees is a dual.
LEMMA SeenTangent ==
  ASSUME NEW c, NEW h \in Dual
  PROVE  /\ SeenSpike(c, h) \in Dual /\ SeenSpike(c, h).val = Fired(h.val)
         /\ SeenGradient(c, h) \in Number
         /\ \A l \in Leaves : SeenSpike(c, h).tan[l] = SeenGradient(c, h) \otimes h.tan[l]
<1>1. h.val \in Number /\ \A l \in Leaves : h.tan[l] \in Number
  BY Parts
<1>2. NeuronalFire(h) \in Dual /\ NeuronalFire(h).val = Fired(h.val)
  BY <1>1, SpikeTangent, FiresAgree
<1>3. Detach(NeuronalFire(h)) \in Dual /\ Detach(NeuronalFire(h)).val = Fired(h.val)
  BY <1>2, DualLeaves, Values
<1>4. SurrogateGradient(h.val) \in Number
  BY <1>1, SurrogatesAgree
<1>5. CASE c.detach
  BY <1>1, <1>3, <1>5, Tangents, Units DEF SeenSpike, SeenGradient
<1>6. CASE ~c.detach
  BY <1>2, <1>4, <1>6, SpikeTangent DEF SeenSpike, SeenGradient
<1> QED
  BY <1>5, <1>6

\* The derivative of a reset, by those of the potential and the threshold.
LEMMA ResetTangent ==
  ASSUME NEW c, NEW h \in Dual, NEW u \in Dual, NEW threshold \in Dual, NEW l \in Leaves
  PROVE  LET s == Fired(h.val)
             ds == SeenGradient(c, h) \otimes h.tan[l]
         IN  ResetBy(c, u, threshold, NeuronalFire(h)).tan[l] =
               IF c.hard
               THEN ((ds \otimes ResetVoltage) \oplus (s \otimes 0))
                      \oplus (((0 \ominus ds) \otimes u.val)
                                \oplus ((1 \ominus s) \otimes u.tan[l]))
               ELSE u.tan[l]
                      \ominus ((ds \otimes threshold.val) \oplus (s \otimes threshold.tan[l]))
<1> DEFINE seen == SeenSpike(c, h)
           s == Fired(h.val)
           ds == SeenGradient(c, h) \otimes h.tan[l]
<1>1. seen.val = s /\ seen.tan[l] = ds
  BY SeenTangent
<1>2. /\ Const(ResetVoltage).val = ResetVoltage /\ Const(ResetVoltage).tan[l] = 0
      /\ Const(1).val = 1 /\ Const(1).tan[l] = 0
  BY Values, Tangents
<1>3. ResetBy(c, u, threshold, NeuronalFire(h)) =
        IF c.hard THEN (seen ** Const(ResetVoltage)) ++ ((Const(1) -- seen) ** u)
        ELSE u -- (seen ** threshold)
  BY DEF ResetBy, SeenSpike
<1> HIDE DEF seen, s, ds
<1>4. (seen ** Const(ResetVoltage)).tan[l] = (ds \otimes ResetVoltage) \oplus (s \otimes 0)
  BY <1>1, <1>2, Tangents
<1>5. (Const(1) -- seen).val = 1 \ominus s /\ (Const(1) -- seen).tan[l] = 0 \ominus ds
  BY <1>1, <1>2, Tangents, Values
<1>6. ((Const(1) -- seen) ** u).tan[l]
        = ((0 \ominus ds) \otimes u.val) \oplus ((1 \ominus s) \otimes u.tan[l])
  BY <1>5, Tangents
<1>7. (seen ** threshold).tan[l] = (ds \otimes threshold.val) \oplus (s \otimes threshold.tan[l])
  BY <1>1, Tangents
<1> QED
  BY <1>3, <1>4, <1>6, <1>7, Tangents DEF s, ds

\* So is the potential the reset leaves.
LEMMA ResetIsDual ==
  ASSUME NEW c, NEW h \in Dual, NEW u \in Dual, NEW threshold \in Dual
  PROVE  ResetBy(c, u, threshold, NeuronalFire(h)) \in Dual
<1> DEFINE seen == SeenSpike(c, h)
<1>1. seen \in Dual
  BY SeenTangent
<1>2. Const(ResetVoltage) \in Dual /\ Const(1) \in Dual
  BY Attributes, Units, DualLeaves
<1>3. ResetBy(c, u, threshold, NeuronalFire(h)) =
        IF c.hard THEN (seen ** Const(ResetVoltage)) ++ ((Const(1) -- seen) ** u)
        ELSE u -- (seen ** threshold)
  BY DEF ResetBy, SeenSpike
<1> HIDE DEF seen
<1>4. /\ seen ** Const(ResetVoltage) \in Dual /\ Const(1) -- seen \in Dual
      /\ seen ** threshold \in Dual
  BY <1>1, <1>2, DualOps
<1>5. (Const(1) -- seen) ** u \in Dual
  BY <1>4, DualOps
<1> QED
  BY <1>3, <1>4, <1>5, DualOps

\* A reset as it is: the kernels' derivative of the reset is autograd's.
LEMMA PlainResetTangent ==
  ASSUME NEW c, NEW h \in Dual, NEW kept, kept.h = h.val, kept.spike = Fired(h.val)
  PROVE  /\ ResetBy(c, h, Const(Threshold), NeuronalFire(h)) \in Dual
         /\ ResetGradient(c, kept) \in Number
         /\ \A l \in Leaves :
              ResetBy(c, h, Const(Threshold), NeuronalFire(h)).tan[l]
                = ResetGradient(c, kept) \otimes h.tan[l]
<1> DEFINE g == SeenGradient(c, h)
           s == Fired(h.val)
           byHard == (1 \ominus s) \oplus ((ResetVoltage \ominus h.val) \otimes g)
           bySoft == 1 \ominus (Threshold \otimes g)
<1>1. /\ h.val \in Number /\ s \in Number /\ g \in Number
      /\ Threshold \in Number /\ ResetVoltage \in Number
      /\ SurrogateGradient(h.val) \in Number
  <2>1. h.val \in Number
    BY Parts
  <2> QED
    BY <2>1, SeenTangent, FiresAgree, Attributes, Units, SurrogatesAgree
<1>2. Const(Threshold) \in Dual /\ Const(Threshold).val = Threshold
      /\ \A l \in Leaves : Const(Threshold).tan[l] = 0
  BY <1>1, DualLeaves, Values, Tangents
<1>3. /\ 1 \ominus s \in Number /\ ResetVoltage \ominus h.val \in Number
      /\ Threshold \otimes g \in Number
  BY <1>1, Units, Closed
<1>4. (ResetVoltage \ominus h.val) \otimes g \in Number /\ bySoft \in Number
  BY <1>1, <1>3, Units, Closed
<1>5. byHard \in Number
  BY <1>3, <1>4, Closed
<1>6. ResetGradient(c, kept) = IF c.hard THEN byHard ELSE bySoft
  <2>1. c.detach => byHard = 1 \ominus s /\ bySoft = 1
    BY <1>1, <1>3, UnitsOnTheRight, Units DEF SeenGradient
  <2>2. ~c.detach => g = SurrogateGradient(h.val)
    BY DEF SeenGradient
  <2>3. CASE c.hard /\ c.detach
    BY <2>1, <2>3 DEF ResetGradient
  <2>4. CASE c.hard /\ ~c.detach
    BY <2>2, <2>4 DEF ResetGradient, ResetOf
  <2>5. CASE ~c.hard /\ c.detach
    BY <2>1, <2>5 DEF ResetGradient
  <2>6. CASE ~c.hard /\ ~c.detach
    BY <2>2, <2>6 DEF ResetGradient
  <2> QED
    BY <2>3, <2>4, <2>5, <2>6
<1>7. ASSUME NEW l \in Leaves
      PROVE  ResetBy(c, h, Const(Threshold), NeuronalFire(h)).tan[l]
               = (IF c.hard THEN byHard ELSE bySoft) \otimes h.tan[l]
  <2> DEFINE dh == h.tan[l]
  <2>1. dh \in Number
    BY Parts
  <2>2. ResetBy(c, h, Const(Threshold), NeuronalFire(h)).tan[l] =
          IF c.hard
          THEN (((g \otimes dh) \otimes ResetVoltage) \oplus (s \otimes 0))
                 \oplus (((0 \ominus (g \otimes dh)) \otimes h.val)
                           \oplus ((1 \ominus s) \otimes dh))
          ELSE dh \ominus (((g \otimes dh) \otimes Threshold) \oplus (s \otimes 0))
    BY <1>2, ResetTangent
  <2> HIDE DEF g, s, dh
  <2>3. (((g \otimes dh) \otimes ResetVoltage) \oplus (s \otimes 0))
          \oplus (((0 \ominus (g \otimes dh)) \otimes h.val) \oplus ((1 \ominus s) \otimes dh))
          = byHard \otimes dh
    BY <1>1, <2>1, HardReset
  <2>4. dh \ominus (((g \otimes dh) \otimes Threshold) \oplus (s \otimes 0)) = bySoft \otimes dh
    BY <1>1, <2>1, SoftReset
  <2> QED
    BY <2>2, <2>3, <2>4 DEF dh
<1> HIDE DEF byHard, bySoft
<1> QED
  BY <1>2, <1>4, <1>5, <1>6, <1>7, ResetIsDual

\* A reset over k, which depends on k as well.
LEMMA ScaledResetTangent ==
  ASSUME NEW c, c.scale, NEW h \in Dual, NEW p \in Dual, p.val # 0,
         NEW kept, kept.h = h.val, kept.spike = Fired(h.val)
  PROVE  LET after == ResetBy(c, h // p, Const(Threshold) // p, NeuronalFire(h))
             byH == ScaledResetGradient(c, kept, p.val)
             byK == ScaledResetByK(c, kept, p.val)
         IN  /\ after \in Dual /\ byH \in Number /\ byK \in Number
             /\ \A l \in Leaves :
                  after.tan[l] = (byH \otimes h.tan[l]) \oplus (byK \otimes p.tan[l])
<1> DEFINE g == SeenGradient(c, h)
           s == Fired(h.val)
           q == Reciprocal[p.val]
           qq == q \otimes q
           t == Threshold \otimes q
           hardByH == ((1 \ominus s) \otimes q)
                        \oplus ((ResetVoltage \ominus (h.val \otimes q)) \otimes g)
           softByH == q \oplus ((0 \ominus t) \otimes g)
           hardByK == ((1 \ominus s) \otimes h.val) \otimes (0 \ominus qq)
           softByK == ((s \otimes Threshold) \ominus h.val) \otimes qq
<1>1. /\ h.val \in Number /\ s \in Number /\ g \in Number
      /\ Threshold \in Number /\ ResetVoltage \in Number
      /\ SurrogateGradient(h.val) \in Number
      /\ p.val \in Number \ {0} /\ q \in Number /\ 0 \in Number /\ 1 \in Number
  <2>1. h.val \in Number /\ p.val \in Number \ {0}
    BY Parts
  <2> QED
    BY <2>1, SeenTangent, FiresAgree, Attributes, Units, SurrogatesAgree, ReciprocalOf
<1>2. /\ Const(Threshold) \in Dual /\ Const(Threshold).val = Threshold
      /\ \A l \in Leaves : Const(Threshold).tan[l] = 0
  BY <1>1, DualLeaves, Values, Tangents
<1>3. /\ h // p \in Dual /\ Const(Threshold) // p \in Dual
      /\ (h // p).val = h.val \otimes q /\ (Const(Threshold) // p).val = t
  <2>1. h.val \oslash p.val = h.val \otimes q /\ Threshold \oslash p.val = t
    BY <1>1, Quotients
  <2>2. h // p \in Dual /\ Const(Threshold) // p \in Dual
    BY <1>2, DualOps
  <2>3. /\ (h // p).val = h.val \oslash p.val
        /\ (Const(Threshold) // p).val = Const(Threshold).val \oslash p.val
    BY Values
  <2> QED
    BY <1>2, <2>1, <2>2, <2>3
<1>4. /\ qq \in Number /\ t \in Number /\ 1 \ominus s \in Number /\ h.val \otimes q \in Number
      /\ s \otimes Threshold \in Number
  BY <1>1, Closed
<1>5. /\ (1 \ominus s) \otimes q \in Number /\ ResetVoltage \ominus (h.val \otimes q) \in Number
      /\ 0 \ominus t \in Number /\ (1 \ominus s) \otimes h.val \in Number
      /\ 0 \ominus qq \in Number /\ (s \otimes Threshold) \ominus h.val \in Number
  BY <1>1, <1>4, Closed
<1>6. /\ (ResetVoltage \ominus (h.val \otimes q)) \otimes g \in Number
      /\ (0 \ominus t) \otimes g \in Number /\ hardByK \in Number /\ softByK \in Number
  BY <1>1, <1>4, <1>5, Closed
<1>7. hardByH \in Number /\ softByH \in Number
  BY <1>1, <1>5, <1>6, Closed
<1>8. /\ ScaledResetGradient(c, kept, p.val) = IF c.hard THEN hardByH ELSE softByH
      /\ ScaledResetByK(c, kept, p.val) = IF c.hard THEN hardByK ELSE softByK
  <2>1. 1 \oslash p.val = q /\ EffectiveThreshold(c, p.val) = t
    BY <1>1, Quotients DEF EffectiveThreshold
  <2>2. c.detach => hardByH = (1 \ominus s) \otimes q /\ softByH = q
    BY <1>1, <1>5, UnitsOnTheRight, Units DEF SeenGradient
  <2>3. ~c.detach => g = SurrogateGradient(h.val)
    BY DEF SeenGradient
  <2>4. ScaledResetByK(c, kept, p.val) = IF c.hard THEN hardByK ELSE softByK
    BY <2>1 DEF ScaledResetByK
  <2> DEFINE left == IF c.hard THEN (1 \ominus s) \otimes q ELSE q
             through == IF c.hard THEN ResetVoltage \ominus (h.val \otimes q) ELSE 0 \ominus t
  <2>5. ScaledResetGradient(c, kept, p.val)
          = IF c.detach THEN left ELSE left \oplus (through \otimes SurrogateGradient(h.val))
    <3>1. CASE c.hard
      <4>1. ResetOf(c) = ResetVoltage
        BY <3>1 DEF ResetOf
      <4> HIDE DEF q, s, t
      <4> QED
        BY <2>1, <3>1, <4>1 DEF ScaledResetGradient, s
    <3>2. CASE ~c.hard
      <4> HIDE DEF q, s, t
      <4> QED
        BY <2>1, <3>2 DEF ScaledResetGradient
    <3> QED
      BY <3>1, <3>2
  <2> HIDE DEF q, s, t, g
  <2>6. CASE c.hard
    BY <2>2, <2>3, <2>4, <2>5, <2>6
  <2>7. CASE ~c.hard
    BY <2>2, <2>3, <2>4, <2>5, <2>7
  <2> QED
    BY <2>6, <2>7
<1>9. ASSUME NEW l \in Leaves
      PROVE  ResetBy(c, h // p, Const(Threshold) // p, NeuronalFire(h)).tan[l] =
               IF c.hard THEN (hardByH \otimes h.tan[l]) \oplus (hardByK \otimes p.tan[l])
               ELSE (softByH \otimes h.tan[l]) \oplus (softByK \otimes p.tan[l])
  <2> DEFINE dh == h.tan[l]
             dk == p.tan[l]
             du == (dh \otimes q) \ominus ((h.val \otimes dk) \otimes qq)
             dt == 0 \ominus ((Threshold \otimes dk) \otimes qq)
  <2>1. dh \in Number /\ dk \in Number
    BY Parts
  <2>2. (h // p).tan[l] = du
    BY QuotientTangent
  <2>3. (Const(Threshold) // p).tan[l] = dt
    <3>1. (Const(Threshold) // p).tan[l]
            = (0 \otimes q) \ominus ((Threshold \otimes dk) \otimes qq)
      BY <1>2, QuotientTangent
    <3> QED
      BY <1>1, <3>1, Units
  <2>4. ResetBy(c, h // p, Const(Threshold) // p, NeuronalFire(h)).tan[l] =
          IF c.hard
          THEN (((g \otimes dh) \otimes ResetVoltage) \oplus (s \otimes 0))
                 \oplus (((0 \ominus (g \otimes dh)) \otimes (h.val \otimes q))
                          \oplus ((1 \ominus s) \otimes du))
          ELSE du \ominus (((g \otimes dh) \otimes t) \oplus (s \otimes dt))
    <3> HIDE DEF du, dt, t
    <3> QED
      BY <1>3, <2>2, <2>3, ResetTangent
  <2> HIDE DEF g, s, dh, dk, q
  <2>0. /\ dh \in Number /\ dk \in Number /\ g \in Number /\ s \in Number
        /\ h.val \in Number /\ Threshold \in Number /\ ResetVoltage \in Number /\ q \in Number
    BY <1>1, <2>1
  <2>5. (((g \otimes dh) \otimes ResetVoltage) \oplus (s \otimes 0))
          \oplus (((0 \ominus (g \otimes dh)) \otimes (h.val \otimes q))
                   \oplus ((1 \ominus s) \otimes du))
          = (hardByH \otimes dh) \oplus (hardByK \otimes dk)
    <3>1. HardScaledResetRule(dh, dk, g, s, h.val, ResetVoltage, q)
      BY <2>0, HardScaledReset
    <3> QED
      BY <3>1 DEF HardScaledResetRule
  <2>6. du \ominus (((g \otimes dh) \otimes t) \oplus (s \otimes dt))
          = (softByH \otimes dh) \oplus (softByK \otimes dk)
    <3>1. SoftScaledResetRule(dh, dk, g, s, h.val, Threshold, q)
      BY <2>0, SoftScaledReset
    <3> QED
      BY <3>1 DEF SoftScaledResetRule
  <2> QED
    BY <2>4, <2>5, <2>6 DEF dh, dk
<1> HIDE DEF hardByH, softByH, hardByK, softByK
<1> QED
  BY <1>3, <1>6, <1>7, <1>8, <1>9, ResetIsDual

-----------------------------------------------------------------------------
(* Charges.                                                                *)

\* How a charged potential depends on what it is charged from.
ChargedFrom(h, w, a, x, b, p, m) ==
  \A l \in Leaves :
    h.tan[l] = ((a \otimes w.tan[l]) \oplus (b \otimes x.tan[l])) \oplus (m \otimes p.tan[l])

\* The decay and the scale of the input.
LEMMA RatesAreNumbers ==
  ASSUME NEW c, NEW r \in Number
  PROVE  1 \ominus r \in Number /\ InputScale(c, r) \in Number
  BY Units, Closed DEF InputScale

\* What the leaky charges have in common.
LEMMA AboveRest ==
  ASSUME NEW c, NEW w \in Dual, NEW x \in Dual
  PROVE  /\ w -- RestOf(c) \in Dual /\ x -- (w -- RestOf(c)) \in Dual
         /\ (w -- RestOf(c)).val = w.val \ominus ResetOf(c)
         /\ (x -- (w -- RestOf(c))).val = x.val \ominus (w.val \ominus ResetOf(c))
         /\ w.val \ominus ResetOf(c) \in Number
         /\ x.val \ominus (w.val \ominus ResetOf(c)) \in Number
         /\ \A l \in Leaves : /\ (w -- RestOf(c)).tan[l] = w.tan[l]
                              /\ (x -- (w -- RestOf(c))).tan[l] = x.tan[l] \ominus w.tan[l]
<1> DEFINE u == w -- RestOf(c)
<1>1. RestOf(c) \in Dual /\ RestOf(c).val = ResetOf(c)
  BY DualLeaves, Values
<1>2. u \in Dual
  BY <1>1, DualOps
<1>3. u.val = w.val \ominus ResetOf(c)
  <2>1. u.val = w.val \ominus RestOf(c).val
    BY Values
  <2> QED
    BY <1>1, <2>1
<1>4. \A l \in Leaves : u.tan[l] = w.tan[l]
  BY Tangents, Parts, Units
<1> HIDE DEF u
<1>5. x -- u \in Dual
  BY <1>2, DualOps
<1>6. /\ (x -- u).val = x.val \ominus u.val
      /\ \A l \in Leaves : (x -- u).tan[l] = x.tan[l] \ominus u.tan[l]
  BY Values, Tangents
<1>7. u.val \in Number /\ x.val \ominus u.val \in Number
  BY <1>2, Parts, Closed
<1> QED
  BY <1>2, <1>3, <1>4, <1>5, <1>6, <1>7 DEF u

\* How the leaky charge depends on the potential and the input.
LEMMA LifChargeTangent ==
  ASSUME NEW c, NEW w \in Dual, NEW x \in Dual
  PROVE  /\ LIFCharge(c, w, x) \in Dual
         /\ \A l \in Leaves :
              LIFCharge(c, w, x).tan[l]
                = ((1 \ominus ReciprocalTau) \otimes w.tan[l])
                    \oplus (InputScale(c, ReciprocalTau) \otimes x.tan[l])
<1> DEFINE u == w -- RestOf(c)
           t == Const(Tau)
           r == ReciprocalTau
<1>1. u \in Dual /\ x -- u \in Dual
  BY AboveRest
<1>2. t \in Dual /\ t.val # 0 /\ Tau \in Number \ {0}
  BY Attributes, DualLeaves, Values
<1>3. u // t \in Dual /\ (x -- u) // t \in Dual
  BY <1>1, <1>2, DualOps
<1>4. ASSUME NEW l \in Leaves
      PROVE  /\ (u // t).tan[l] = w.tan[l] \otimes r
             /\ ((x -- u) // t).tan[l] = (x.tan[l] \ominus w.tan[l]) \otimes r
  <2>1. /\ (u // t).tan[l] = u.tan[l] \otimes Reciprocal[Tau]
        /\ ((x -- u) // t).tan[l] = (x -- u).tan[l] \otimes Reciprocal[Tau]
    BY <1>1, <1>2, ConstantQuotientTangent
  <2>2. u.tan[l] = w.tan[l] /\ (x -- u).tan[l] = x.tan[l] \ominus w.tan[l]
    BY AboveRest
  <2> QED
    BY <2>1, <2>2, Attributes
<1>5. r \in Number /\ \A l \in Leaves : w.tan[l] \in Number /\ x.tan[l] \in Number
  BY Attributes, Parts
<1>6. CASE c.decay
  <2>1. LIFCharge(c, w, x) = w ++ ((x -- u) // t)
    BY <1>6 DEF LIFCharge
  <2> HIDE DEF u, t, r
  <2>2. ASSUME NEW l \in Leaves
        PROVE  (w ++ ((x -- u) // t)).tan[l]
                 = ((1 \ominus r) \otimes w.tan[l]) \oplus (r \otimes x.tan[l])
    <3>1. (w ++ ((x -- u) // t)).tan[l]
            = w.tan[l] \oplus ((x.tan[l] \ominus w.tan[l]) \otimes r)
      BY <1>4, Tangents
    <3> QED
      BY <1>5, <3>1, DecayCharge
  <2>3. w ++ ((x -- u) // t) \in Dual
    BY <1>3, DualOps
  <2>4. InputScale(c, ReciprocalTau) = r
    BY <1>6 DEF InputScale, r
  <2> QED
    BY <2>1, <2>2, <2>3, <2>4 DEF r
<1>7. CASE ~c.decay
  <2>1. LIFCharge(c, w, x) = (w -- (u // t)) ++ x
    BY <1>7 DEF LIFCharge
  <2> HIDE DEF u, t, r
  <2>2. ASSUME NEW l \in Leaves
        PROVE  ((w -- (u // t)) ++ x).tan[l]
                 = ((1 \ominus r) \otimes w.tan[l]) \oplus (1 \otimes x.tan[l])
    <3>1. ((w -- (u // t)) ++ x).tan[l] = (w.tan[l] \ominus (w.tan[l] \otimes r)) \oplus x.tan[l]
      BY <1>4, Tangents
    <3> QED
      BY <1>5, <3>1, LeakCharge
  <2>3. w -- (u // t) \in Dual
    BY <1>3, DualOps
  <2>4. (w -- (u // t)) ++ x \in Dual
    BY <2>3, DualOps
  <2>5. InputScale(c, ReciprocalTau) = 1
    BY <1>7 DEF InputScale
  <2> QED
    BY <2>1, <2>2, <2>4, <2>5 DEF r
<1> QED
  BY <1>6, <1>7

\* What PLIF's charge changes by with the rate.
Slope(c, w, x) == (IF c.decay THEN x ELSE 0) \ominus (w \ominus ResetOf(c))

\* With a rate that is learnt it depends on the rate, too.
LEMMA PlifChargeTangent ==
  ASSUME NEW c, NEW w \in Dual, NEW x \in Dual, NEW p \in Dual
  PROVE  /\ PLIFCharge(c, w, x, p) \in Dual
         /\ Slope(c, w.val, x.val) \in Number
         /\ ChargedFrom(PLIFCharge(c, w, x, p), w, 1 \ominus p.val,
                        x, InputScale(c, p.val), p, Slope(c, w.val, x.val))
<1> DEFINE u == w -- RestOf(c)
           r == p.val
           above == w.val \ominus ResetOf(c)
<1>1. /\ u \in Dual /\ x -- u \in Dual /\ u.val = above /\ (x -- u).val = x.val \ominus above
      /\ above \in Number /\ x.val \ominus above \in Number
      /\ \A l \in Leaves : u.tan[l] = w.tan[l] /\ (x -- u).tan[l] = x.tan[l] \ominus w.tan[l]
  BY AboveRest
<1>2. /\ r \in Number
      /\ \A l \in Leaves : w.tan[l] \in Number /\ x.tan[l] \in Number /\ p.tan[l] \in Number
  BY Parts
<1>3. Slope(c, w.val, x.val) = IF c.decay THEN x.val \ominus above ELSE 0 \ominus above
  BY DEF Slope
<1>4. u ** p \in Dual /\ (x -- u) ** p \in Dual
  BY <1>1, DualOps
<1>5. 0 \ominus above \in Number
  BY <1>1, Units, Closed
<1>6. ASSUME NEW l \in Leaves
      PROVE  /\ (u ** p).tan[l] = (w.tan[l] \otimes r) \oplus (above \otimes p.tan[l])
             /\ ((x -- u) ** p).tan[l] = ((x.tan[l] \ominus w.tan[l]) \otimes r)
                                           \oplus ((x.val \ominus above) \otimes p.tan[l])
  <2> HIDE DEF u
  <2> QED
    BY <1>1, Tangents
<1>7. CASE c.decay
  <2>1. PLIFCharge(c, w, x, p) = w ++ ((x -- u) ** p)
    BY <1>7 DEF PLIFCharge
  <2> HIDE DEF u, r, above
  <2>2. ASSUME NEW l \in Leaves
        PROVE  (w ++ ((x -- u) ** p)).tan[l]
                 = (((1 \ominus r) \otimes w.tan[l]) \oplus (r \otimes x.tan[l]))
                     \oplus ((x.val \ominus above) \otimes p.tan[l])
    <3>1. (w ++ ((x -- u) ** p)).tan[l]
            = w.tan[l] \oplus (((x.tan[l] \ominus w.tan[l]) \otimes r)
                                 \oplus ((x.val \ominus above) \otimes p.tan[l]))
      BY <1>6, Tangents
    <3> QED
      BY <1>1, <1>2, <3>1, DecayRateCharge
  <2>3. w ++ ((x -- u) ** p) \in Dual
    BY <1>4, DualOps
  <2>4. InputScale(c, p.val) = r
    BY <1>7 DEF InputScale, r
  <2> QED
    BY <1>1, <1>3, <1>7, <2>1, <2>2, <2>3, <2>4 DEF ChargedFrom, r
<1>8. CASE ~c.decay
  <2>1. PLIFCharge(c, w, x, p) = (w -- (u ** p)) ++ x
    BY <1>8 DEF PLIFCharge
  <2> HIDE DEF u, r, above
  <2>2. ASSUME NEW l \in Leaves
        PROVE  ((w -- (u ** p)) ++ x).tan[l]
                 = (((1 \ominus r) \otimes w.tan[l]) \oplus (1 \otimes x.tan[l]))
                     \oplus ((0 \ominus above) \otimes p.tan[l])
    <3>1. ((w -- (u ** p)) ++ x).tan[l]
            = (w.tan[l] \ominus ((w.tan[l] \otimes r) \oplus (above \otimes p.tan[l])))
                \oplus x.tan[l]
      BY <1>6, Tangents
    <3> QED
      BY <1>1, <1>2, <3>1, LeakRateCharge
  <2>3. w -- (u ** p) \in Dual
    BY <1>4, DualOps
  <2>4. (w -- (u ** p)) ++ x \in Dual
    BY <2>3, DualOps
  <2>5. InputScale(c, p.val) = 1
    BY <1>8 DEF InputScale
  <2> QED
    BY <1>3, <1>5, <1>8, <2>1, <2>2, <2>4, <2>5 DEF ChargedFrom, r
<1> QED
  BY <1>7, <1>8

\* KLIF's rectifier lets all pass or nothing.
LEMMA KlifChargeTangent ==
  ASSUME NEW c, NEW w \in Dual, NEW x \in Dual, NEW k \in Dual
  PROVE  LET h == KLIFCharge(c, w, x, k)
             charge == LIFCharge(c, w, x).val
         IN  /\ h \in Dual
             /\ Above(h.val, 0) =>
                  ChargedFrom(h, w, k.val \otimes (1 \ominus ReciprocalTau),
                              x, k.val \otimes InputScale(c, ReciprocalTau), k, charge)
             /\ ~Above(h.val, 0) => ChargedFrom(h, w, 0, x, 0, k, 0)
<1> DEFINE y == LIFCharge(c, w, x)
           a == 1 \ominus ReciprocalTau
           b == InputScale(c, ReciprocalTau)
           z == k ** y
<1>1. /\ y \in Dual
      /\ \A l \in Leaves : y.tan[l] = (a \otimes w.tan[l]) \oplus (b \otimes x.tan[l])
  BY LifChargeTangent
<1>2. a \in Number /\ b \in Number
  BY RatesAreNumbers, Attributes
<1>3. KLIFCharge(c, w, x, k) = Relu(z)
  BY DEF KLIFCharge
<1>4. Relu(z) = IF Above(z.val, 0) THEN z ELSE Const(0)
  BY DEF Relu
<1> HIDE DEF y, a, b
<1>5. z \in Dual
  BY <1>1, DualOps
<1>6. ASSUME NEW l \in Leaves
      PROVE  z.tan[l] = (((k.val \otimes a) \otimes w.tan[l])
                           \oplus ((k.val \otimes b) \otimes x.tan[l]))
                          \oplus (y.val \otimes k.tan[l])
  <2>1. z.tan[l] = (k.tan[l] \otimes y.val) \oplus (k.val \otimes y.tan[l])
    BY Tangents
  <2>2. /\ w.tan[l] \in Number /\ x.tan[l] \in Number /\ k.tan[l] \in Number
        /\ k.val \in Number /\ y.val \in Number
    BY <1>1, Parts
  <2>3. ScaledChargeRule(w.tan[l], x.tan[l], a, b, k.val, k.tan[l], y.val)
    BY <1>2, <2>2, ScaledCharge
  <2> QED
    BY <1>1, <2>1, <2>3 DEF ScaledChargeRule
<1> HIDE DEF z
<1>7. CASE Above(z.val, 0)
  BY <1>3, <1>4, <1>5, <1>6, <1>7 DEF ChargedFrom, y, a, b
<1>8. CASE ~Above(z.val, 0)
  <2>1. Const(0) \in Dual /\ Const(0).val = 0 /\ ~Above(0, 0)
    BY DualLeaves, Units, Values DEF Above
  <2>2. ASSUME NEW l \in Leaves
        PROVE  Const(0).tan[l] = ((0 \otimes w.tan[l]) \oplus (0 \otimes x.tan[l]))
                                   \oplus (0 \otimes k.tan[l])
    BY Tangents, Parts, Units
  <2> QED
    BY <1>3, <1>4, <1>8, <2>1, <2>2 DEF ChargedFrom
<1> QED
  BY <1>7, <1>8

-----------------------------------------------------------------------------
(* One step backward.                                                      *)

\* What the loss owes to a step, through its outputs and through the potential
\* it leaves, is what the backward step assigns to its sources.
Balances(out, grad, post, back, w, x, p) ==
  /\ back.x \in Number /\ back.carry \in Number /\ back.partial \in Number
  /\ \A l \in Leaves :
       ((grad.spike \otimes out.spike.tan[l]) \oplus (grad.v \otimes out.v.tan[l]))
           \oplus (post \otimes out.v.tan[l])
         = ((back.x \otimes x.tan[l]) \oplus (back.carry \otimes w.tan[l]))
             \oplus (back.partial \otimes p.tan[l])

\* The gradient of the charged potential, and of the potential after the step.
AtH(g, byH, grad, post) ==
  (grad.spike \otimes g) \oplus ((post \oplus grad.v) \otimes byH)

\* How the potential a step leaves depends on the charged one, and on k.
ResetFrom(after, h, byH, p, byK) ==
  \A l \in Leaves : after.tan[l] = (byH \otimes h.tan[l]) \oplus (byK \otimes p.tan[l])

\* A backward step that assigns gh, the gradient of the charged potential, to
\* what that was charged from.
Assigns(back, gh, a, b, m, byK, all) ==
  /\ back.x = gh \otimes b /\ back.carry = gh \otimes a
  /\ back.partial = (byK \otimes all) \oplus (m \otimes gh)

\* A step whose charge and reset have these derivatives.
LEMMA BalanceOf ==
  ASSUME NEW w \in Dual, NEW x \in Dual, NEW p \in Dual, NEW h \in Dual,
         NEW a \in Number, NEW b \in Number, NEW m \in Number,
         ChargedFrom(h, w, a, x, b, p, m),
         NEW byH \in Number, NEW byK \in Number, NEW out, out.spike = NeuronalFire(h),
         ResetFrom(out.v, h, byH, p, byK),
         NEW grad, grad.spike \in Number, grad.v \in Number, NEW post \in Number, NEW back,
         Assigns(back, AtH(SurrogateGradient(h.val), byH, grad, post), a, b, m,
                 byK, post \oplus grad.v)
  PROVE  Balances(out, grad, post, back, w, x, p)
<1> DEFINE g == SurrogateGradient(h.val)
           all == post \oplus grad.v
           gh == AtH(g, byH, grad, post)
<1>1. g \in Number /\ all \in Number
  BY Parts, SurrogatesAgree, Closed
<1>2. grad.spike \otimes g \in Number /\ all \otimes byH \in Number /\ byK \otimes all \in Number
  BY <1>1, Closed
<1>3. gh \in Number
  BY <1>2, Closed DEF AtH
<1>4. gh \otimes b \in Number /\ gh \otimes a \in Number /\ m \otimes gh \in Number
  BY <1>3, Closed
<1>5. (byK \otimes all) \oplus (m \otimes gh) \in Number
  BY <1>2, <1>4, Closed
<1>6. ASSUME NEW l \in Leaves
      PROVE  ((grad.spike \otimes out.spike.tan[l]) \oplus (grad.v \otimes out.v.tan[l]))
                 \oplus (post \otimes out.v.tan[l])
               = ((back.x \otimes x.tan[l]) \oplus (back.carry \otimes w.tan[l]))
                   \oplus (back.partial \otimes p.tan[l])
  <2> DEFINE dh == h.tan[l]
             dw == w.tan[l]
             dx == x.tan[l]
             dp == p.tan[l]
             gs == grad.spike
             gv == grad.v
             byOut == (byH \otimes dh) \oplus (byK \otimes dp)
             k == byK \otimes all
  <2>1. /\ dh \in Number /\ dw \in Number /\ dx \in Number /\ dp \in Number
        /\ gs \in Number /\ gv \in Number
    BY Parts
  <2>2. out.spike.tan[l] = g \otimes dh /\ out.v.tan[l] = byOut
    BY SpikeTangent DEF ResetFrom
  <2>3. dh = ((a \otimes dw) \oplus (b \otimes dx)) \oplus (m \otimes dp)
    BY DEF ChargedFrom
  <2> HIDE DEF dh, dw, dx, dp, g, gs, gv
  <2>4. ((gs \otimes (g \otimes dh)) \oplus (gv \otimes byOut)) \oplus (post \otimes byOut)
          = (gh \otimes dh) \oplus (k \otimes dp)
    <3>1. LossThroughChargeRule(gs, gv, post, g, dh, byH, byK, dp)
      BY <1>1, <2>1, LossThroughCharge
    <3> QED
      BY <3>1 DEF LossThroughChargeRule, AtH, gs, gv
  <2> HIDE DEF gh, k, all
  <2>5. (gh \otimes (((a \otimes dw) \oplus (b \otimes dx)) \oplus (m \otimes dp)))
            \oplus (k \otimes dp)
          = (((gh \otimes b) \otimes dx) \oplus ((gh \otimes a) \otimes dw))
              \oplus ((k \oplus (m \otimes gh)) \otimes dp)
    <3>1. k \in Number /\ gh \in Number
      BY <1>2, <1>3 DEF k, all
    <3>2. LossThroughSourcesRule(gh, a, b, m, dw, dx, dp, k)
      BY <2>1, <3>1, LossThroughSources
    <3> QED
      BY <3>2 DEF LossThroughSourcesRule
  <2>6. /\ back.x = gh \otimes b /\ back.carry = gh \otimes a
        /\ back.partial = k \oplus (m \otimes gh)
    BY DEF Assigns, gh, g, k, all
  <2>7. ((gs \otimes out.spike.tan[l]) \oplus (gv \otimes out.v.tan[l]))
            \oplus (post \otimes out.v.tan[l])
          = ((gs \otimes (g \otimes dh)) \oplus (gv \otimes byOut)) \oplus (post \otimes byOut)
    BY <2>2
  <2> HIDE DEF byOut
  <2> QED
    BY <2>3, <2>4, <2>5, <2>6, <2>7 DEF dh, dw, dx, dp, gs, gv
<1> QED
  BY <1>4, <1>5, <1>6 DEF Assigns, Balances

\* A step of a neuron whose reset does not scale.
LEMMA PlainStepBalances ==
  ASSUME NEW c, c.op # "klif" \/ ~c.scale,
         NEW w \in Dual, NEW x \in Dual, NEW p \in Dual, NEW h \in Dual,
         h = NeuronalCharge(c, w, x, p),
         NEW a \in Number, NEW b \in Number, NEW m \in Number,
         ChargedFrom(h, w, a, x, b, p, m),
         NEW kept, kept.h = h.val, kept.spike = Fired(h.val),
         NEW grad, grad.spike \in Number, grad.v \in Number, NEW post \in Number, NEW back,
         LET gh == GradH(c, kept, grad.spike, post \oplus grad.v)
         IN  back.x = gh \otimes b /\ back.carry = gh \otimes a /\ back.partial = m \otimes gh
  PROVE  /\ SingleStep(c, w, x, p).v \in Dual
         /\ Balances(SingleStep(c, w, x, p), grad, post, back, w, x, p)
<1> DEFINE out == SingleStep(c, w, x, p)
           byH == ResetGradient(c, kept)
           gh == AtH(SurrogateGradient(h.val), byH, grad, post)
<1>1. /\ out.spike = NeuronalFire(h)
      /\ out.v = ResetBy(c, h, Const(Threshold), NeuronalFire(h))
  BY DEF SingleStep, NeuronalReset
<1>2. /\ out.v \in Dual /\ byH \in Number
      /\ \A l \in Leaves : out.v.tan[l] = byH \otimes h.tan[l]
  BY <1>1, PlainResetTangent
<1>3. GradH(c, kept, grad.spike, post \oplus grad.v) = gh
  BY DEF GradH, AtH
<1>4. /\ post \oplus grad.v \in Number /\ m \otimes gh \in Number
  <2>1. SurrogateGradient(h.val) \in Number /\ post \oplus grad.v \in Number
    BY Parts, SurrogatesAgree, Closed
  <2>2. /\ grad.spike \otimes SurrogateGradient(h.val) \in Number
        /\ (post \oplus grad.v) \otimes byH \in Number
    BY <1>2, <2>1, Closed
  <2>3. gh \in Number
    BY <2>2, Closed DEF AtH
  <2> QED
    BY <2>1, <2>3, Closed
<1> HIDE DEF out, byH
<1>5. ResetFrom(out.v, h, byH, p, 0)
  <2> SUFFICES ASSUME NEW l \in Leaves
               PROVE  out.v.tan[l] = (byH \otimes h.tan[l]) \oplus (0 \otimes p.tan[l])
    BY DEF ResetFrom
  <2>1. byH \otimes h.tan[l] \in Number /\ 0 \otimes p.tan[l] = 0
    BY <1>2, Parts, Closed, Units
  <2> QED
    BY <1>2, <2>1, Units
<1>6. Assigns(back, gh, a, b, m, 0, post \oplus grad.v)
  <2>1. back.x = gh \otimes b /\ back.carry = gh \otimes a /\ back.partial = m \otimes gh
    BY <1>3
  <2>2. (0 \otimes (post \oplus grad.v)) \oplus (m \otimes gh) = m \otimes gh
    BY <1>4, Units
  <2> QED
    BY <2>1, <2>2 DEF Assigns
<1>7. 0 \in Number
  BY Units
<1>8. Balances(out, grad, post, back, w, x, p)
  BY <1>1, <1>2, <1>5, <1>6, <1>7, BalanceOf
<1> QED
  BY <1>2, <1>8 DEF out

\* The gradient of the charged potential is a number.
LEMMA GradHIsNumber ==
  ASSUME NEW c, NEW h \in Dual, NEW kept, kept.h = h.val, kept.spike = Fired(h.val),
         NEW gs \in Number, NEW all \in Number
  PROVE  GradH(c, kept, gs, all) \in Number
<1>1. ResetGradient(c, kept) \in Number
  BY PlainResetTangent
<1>2. SurrogateGradient(h.val) \in Number
  BY Parts, SurrogatesAgree
<1>3. /\ gs \otimes SurrogateGradient(h.val) \in Number
      /\ all \otimes ResetGradient(c, kept) \in Number
  BY <1>1, <1>2, Closed
<1> QED
  BY <1>3, Closed DEF GradH

\* A neuron without a parameter: its kernel adds nothing to the gradient of one.
LEMMA UnlearntStepBalances ==
  ASSUME NEW c, c.op # "klif",
         NEW w \in Dual, NEW x \in Dual, NEW p \in Dual, NEW h \in Dual,
         h = NeuronalCharge(c, w, x, p),
         NEW a \in Number, NEW b \in Number,
         \A l \in Leaves : h.tan[l] = (a \otimes w.tan[l]) \oplus (b \otimes x.tan[l]),
         NEW kept, kept.h = h.val, kept.spike = Fired(h.val),
         NEW grad, grad.spike \in Number, grad.v \in Number, NEW post \in Number
  PROVE  /\ SingleStep(c, w, x, p).v \in Dual
         /\ Balances(SingleStep(c, w, x, p), grad, post,
                     Charged(GradH(c, kept, grad.spike, post \oplus grad.v), b, a, 0), w, x, p)
<1> DEFINE gh == GradH(c, kept, grad.spike, post \oplus grad.v)
           back == Charged(gh, b, a, 0)
<1>1. ChargedFrom(h, w, a, x, b, p, 0)
  <2> SUFFICES ASSUME NEW l \in Leaves
               PROVE  h.tan[l] = ((a \otimes w.tan[l]) \oplus (b \otimes x.tan[l]))
                                   \oplus (0 \otimes p.tan[l])
    BY DEF ChargedFrom
  <2>1. h.tan[l] \in Number /\ 0 \otimes p.tan[l] = 0
    BY Parts, Units
  <2> QED
    BY <2>1, Units
<1>2. gh \in Number
  BY Closed, GradHIsNumber
<1>3. back.x = gh \otimes b /\ back.carry = gh \otimes a /\ back.partial = 0 \otimes gh
  BY <1>2, Units DEF Charged
<1>4. 0 \in Number
  BY Units
<1> HIDE DEF back
<1> QED
  BY <1>1, <1>3, <1>4, PlainStepBalances DEF back

\* The backward step balances the step forward, kernel by kernel: of IF, where a
\* compact call has no gradient for the potentials of its steps, ...
LEMMA IfBalances ==
  ASSUME NEW c, c.op = "if", NEW w \in Dual, NEW x \in Dual, NEW p \in Dual,
         NEW grad, grad.spike \in Number, grad.v \in Number, NEW post \in Number
  PROVE  LET out == SingleStep(c, w, x, p)
         IN  /\ out.v \in Dual
             /\ Balances(out, grad, post,
                         IfBackward(c, IfForward(c, w.val, x.val).kept, grad, post), w, x, p)
             /\ grad.v = 0 =>
                  Balances(out, grad, post,
                           IfCompactBackward(c, IfCompactForward(c, w.val, x.val).kept, grad, post),
                           w, x, p)
<1> DEFINE h == w ++ x
           out == SingleStep(c, w, x, p)
           kept == IfForward(c, w.val, x.val).kept
           compact == IfCompactForward(c, w.val, x.val).kept
<1>1. h \in Dual /\ h.val = w.val \oplus x.val /\ h = NeuronalCharge(c, w, x, p)
  <2>1. h \in Dual
    BY DualOps
  <2>2. h.val = w.val \oplus x.val
    BY Values
  <2>3. h = NeuronalCharge(c, w, x, p)
    BY DEF NeuronalCharge, IFCharge
  <2> QED
    BY <2>1, <2>2, <2>3
<1>2. /\ kept.h = h.val /\ kept.spike = Fired(h.val)
      /\ compact.h = h.val /\ compact.spike = Fired(h.val)
  BY <1>1 DEF IfForward, IfCompactForward
<1>3. \A l \in Leaves : h.tan[l] = (1 \otimes w.tan[l]) \oplus (1 \otimes x.tan[l])
  BY Tangents, Parts, Units
<1>4. 1 \in Number /\ c.op # "klif"
  BY Units
<1> HIDE DEF h, out, kept, compact
<1>5. /\ out.v \in Dual
      /\ Balances(out, grad, post,
                  Charged(GradH(c, kept, grad.spike, post \oplus grad.v), 1, 1, 0), w, x, p)
      /\ Balances(out, grad, post,
                  Charged(GradH(c, compact, grad.spike, post \oplus grad.v), 1, 1, 0), w, x, p)
  BY <1>1, <1>2, <1>3, <1>4, UnlearntStepBalances DEF out
<1>6. Balances(out, grad, post, IfBackward(c, kept, grad, post), w, x, p)
  BY <1>5 DEF IfBackward
<1>7. grad.v = 0 => Balances(out, grad, post, IfCompactBackward(c, compact, grad, post), w, x, p)
  BY <1>5, Units DEF IfCompactBackward
<1> QED
  BY <1>5, <1>6, <1>7 DEF out, kept, compact

\* ... of LIF, ...
LEMMA LifBalances ==
  ASSUME NEW c, c.op = "lif", NEW w \in Dual, NEW x \in Dual, NEW p \in Dual,
         NEW grad, grad.spike \in Number, grad.v \in Number, NEW post \in Number
  PROVE  LET out == SingleStep(c, w, x, p)
         IN  /\ out.v \in Dual
             /\ Balances(out, grad, post,
                         LifBackward(c, LifForward(c, w.val, x.val).kept, grad, post), w, x, p)
             /\ grad.v = 0 =>
                  Balances(out, grad, post,
                           LifCompactBackward(c, LifCompactForward(c, w.val, x.val).kept, grad, post),
                           w, x, p)
<1> DEFINE h == LIFCharge(c, w, x)
           out == SingleStep(c, w, x, p)
           kept == LifForward(c, w.val, x.val).kept
           compact == LifCompactForward(c, w.val, x.val).kept
           a == 1 \ominus ReciprocalTau
           b == InputScale(c, ReciprocalTau)
<1>1. /\ h \in Dual /\ h = NeuronalCharge(c, w, x, p)
      /\ h.val = Leaky(c, w.val, x.val, ReciprocalTau)
  <2>1. h = NeuronalCharge(c, w, x, p)
    BY DEF NeuronalCharge
  <2>2. h.val = Leaky(c, w.val, x.val, ReciprocalTau)
    BY LeakyAgrees, Parts
  <2> QED
    BY <2>1, <2>2, LifChargeTangent
<1>2. /\ kept.h = h.val /\ kept.spike = Fired(h.val)
      /\ compact.h = h.val /\ compact.spike = Fired(h.val)
  BY <1>1 DEF LifForward, LifCompactForward
<1>3. \A l \in Leaves : h.tan[l] = (a \otimes w.tan[l]) \oplus (b \otimes x.tan[l])
  BY LifChargeTangent
<1>4. a \in Number /\ b \in Number /\ c.op # "klif"
  BY RatesAreNumbers, Attributes
<1> HIDE DEF h, out, kept, compact, a, b
<1>5. /\ out.v \in Dual
      /\ Balances(out, grad, post,
                  Charged(GradH(c, kept, grad.spike, post \oplus grad.v), b, a, 0), w, x, p)
      /\ Balances(out, grad, post,
                  Charged(GradH(c, compact, grad.spike, post \oplus grad.v), b, a, 0), w, x, p)
  BY <1>1, <1>2, <1>3, <1>4, UnlearntStepBalances DEF out
<1>6. Balances(out, grad, post, LifBackward(c, kept, grad, post), w, x, p)
  BY <1>5 DEF LifBackward, a, b
<1>7. grad.v = 0 => Balances(out, grad, post, LifCompactBackward(c, compact, grad, post), w, x, p)
  BY <1>5, Units DEF LifCompactBackward, a, b
<1> QED
  BY <1>5, <1>6, <1>7 DEF out, kept, compact

\* ... and of PLIF.
LEMMA PlifBalances ==
  ASSUME NEW c, c.op = "plif", NEW w \in Dual, NEW x \in Dual, NEW p \in Dual,
         NEW grad, grad.spike \in Number, grad.v \in Number, NEW post \in Number
  PROVE  LET out == SingleStep(c, w, x, p)
             kept == PlifForward(c, w.val, x.val, p.val).kept
         IN  /\ out.v \in Dual
             /\ Balances(out, grad, post, PlifBackward(c, kept, grad, post, p.val), w, x, p)
<1> DEFINE h == PLIFCharge(c, w, x, p)
           out == SingleStep(c, w, x, p)
           kept == PlifForward(c, w.val, x.val, p.val).kept
           a == 1 \ominus p.val
           b == InputScale(c, p.val)
           m == Slope(c, w.val, x.val)
           gh == GradH(c, kept, grad.spike, post \oplus grad.v)
           back == PlifBackward(c, kept, grad, post, p.val)
<1>1. /\ h \in Dual /\ h = NeuronalCharge(c, w, x, p)
      /\ h.val = Leaky(c, w.val, x.val, p.val)
  BY PlifChargeTangent, ParametricAgrees DEF NeuronalCharge
<1>2. /\ kept.h = h.val /\ kept.spike = Fired(h.val)
      /\ kept.vPrev = w.val /\ kept.x = x.val
  BY <1>1 DEF PlifForward
<1>3. ChargedFrom(h, w, a, x, b, p, m) /\ m \in Number
  BY PlifChargeTangent
<1>4. a \in Number /\ b \in Number /\ c.op # "klif"
  BY RatesAreNumbers, Parts
<1> HIDE DEF kept
<1>5. back.x = gh \otimes b /\ back.carry = gh \otimes a /\ back.partial = m \otimes gh
  <2>1. m = (IF c.decay THEN kept.x ELSE 0) \ominus (kept.vPrev \ominus ResetOf(c))
    BY <1>2 DEF Slope
  <2>2. back = Charged(gh, b, a, m \otimes gh)
    BY <2>1 DEF PlifBackward
  <2> HIDE DEF gh, a, b, m
  <2> QED
    BY <2>2 DEF Charged
<1> HIDE DEF h, out, a, b, m, back
<1> QED
  BY <1>1, <1>2, <1>3, <1>4, <1>5, PlainStepBalances DEF out, kept, back

\* KLIF's gradient of the charged potential passes the rectifier or not.
LEMMA KlifBalances ==
  ASSUME NEW c, c.op = "klif", NEW w \in Dual, NEW x \in Dual, NEW p \in Dual, p.val # 0,
         NEW grad, grad.spike \in Number, grad.v \in Number, NEW post \in Number
  PROVE  LET out == SingleStep(c, w, x, p)
             kept == KlifForward(c, w.val, x.val, p.val).kept
         IN  /\ out.v \in Dual
             /\ Balances(out, grad, post, KlifBackward(c, kept, grad, post, p.val), w, x, p)
<1> DEFINE h == KLIFCharge(c, w, x, p)
           charge == LIFCharge(c, w, x).val
           out == SingleStep(c, w, x, p)
           kept == KlifForward(c, w.val, x.val, p.val).kept
           a == 1 \ominus ReciprocalTau
           b == InputScale(c, ReciprocalTau)
           k == p.val
           all == post \oplus grad.v
           byH == IF c.scale THEN ScaledResetGradient(c, kept, k) ELSE ResetGradient(c, kept)
           byK == IF c.scale THEN ScaledResetByK(c, kept, k) ELSE 0
           gh == AtH(SurrogateGradient(h.val), byH, grad, post)
           raised == IF Above(h.val, 0) THEN gh ELSE 0
           back == KlifBackward(c, kept, grad, post, k)
<1>1. /\ h \in Dual
      /\ Above(h.val, 0) => ChargedFrom(h, w, k \otimes a, x, k \otimes b, p, charge)
      /\ ~Above(h.val, 0) => ChargedFrom(h, w, 0, x, 0, p, 0)
  BY KlifChargeTangent
<1>2. /\ charge = Leaky(c, w.val, x.val, ReciprocalTau) /\ charge \in Number
      /\ a \in Number /\ b \in Number /\ k \in Number \ {0} /\ 0 \in Number
  <2>1. w.val \in Number /\ x.val \in Number /\ k \in Number
    BY Parts
  <2> QED
    BY <2>1, LeakyAgrees, LeakyIsNumber, RatesAreNumbers, Attributes, Units
<1>3. kept.h = h.val /\ kept.spike = Fired(h.val) /\ kept.vPrev = w.val /\ kept.x = x.val
  <2>1. h.val = IF Above(k \otimes charge, 0) THEN k \otimes charge ELSE 0
    <3>1. h.val = IF Above((p ** LIFCharge(c, w, x)).val, 0)
                  THEN (p ** LIFCharge(c, w, x)).val ELSE 0
      BY Values DEF KLIFCharge
    <3> QED
      BY <3>1, Values
  <2> QED
    BY <1>2, <2>1 DEF KlifForward
<1>4. /\ out.spike = NeuronalFire(h) /\ out.v = NeuronalReset(c, h, NeuronalFire(h), p)
  BY DEF SingleStep, NeuronalCharge
<1> HIDE DEF h, charge, out, kept, a, b
<1>5. /\ out.v \in Dual /\ byH \in Number /\ byK \in Number
      /\ ResetFrom(out.v, h, byH, p, byK)
  <2>1. CASE c.scale
    <3>1. out.v = ResetBy(c, h // p, Const(Threshold) // p, NeuronalFire(h))
      BY <1>4, <2>1 DEF NeuronalReset
    <3> QED
      BY <1>1, <1>3, <2>1, <3>1, ScaledResetTangent DEF ResetFrom
  <2>2. CASE ~c.scale
    <3>1. out.v = ResetBy(c, h, Const(Threshold), NeuronalFire(h))
      BY <1>4, <2>2 DEF NeuronalReset
    <3>2. /\ out.v \in Dual /\ ResetGradient(c, kept) \in Number
          /\ \A l \in Leaves : out.v.tan[l] = ResetGradient(c, kept) \otimes h.tan[l]
      BY <1>1, <1>3, <3>1, PlainResetTangent
    <3>3. ASSUME NEW l \in Leaves
          PROVE  out.v.tan[l]
                   = (ResetGradient(c, kept) \otimes h.tan[l]) \oplus (0 \otimes p.tan[l])
      <4>1. out.v.tan[l] \in Number /\ 0 \otimes p.tan[l] = 0
        BY <3>2, Parts, Units
      <4> QED
        BY <3>2, <4>1, Units
    <3> QED
      BY <1>2, <2>2, <3>2, <3>3 DEF ResetFrom
  <2> QED
    BY <2>1, <2>2
<1>6. all \in Number /\ gh \in Number
  <2>1. SurrogateGradient(h.val) \in Number /\ all \in Number
    BY <1>1, Parts, SurrogatesAgree, Closed
  <2> HIDE DEF byH
  <2>2. grad.spike \otimes SurrogateGradient(h.val) \in Number /\ all \otimes byH \in Number
    BY <1>5, <2>1, Closed
  <2> QED
    BY <2>1, <2>2, Closed DEF AtH
<1>7. back = Charged(raised \otimes k, b, a, (byK \otimes all) \oplus (charge \otimes raised))
  <2>1. (IF c.scale THEN ScaledResetByK(c, kept, k) \otimes all ELSE 0) = byK \otimes all
    <3> HIDE DEF all
    <3> QED
      BY <1>6, Units
  <2>2. Leaky(c, kept.vPrev, kept.x, ReciprocalTau) = charge
    BY <1>2, <1>3
  <2>3. (grad.spike \otimes SurrogateGradient(kept.h)) \oplus (all \otimes byH) = gh
    BY <1>3 DEF AtH
  <2>4. (IF Above(kept.h, 0) THEN gh ELSE 0) = raised
    BY <1>3
  <2>5. back = LET gradH == (grad.spike \otimes SurrogateGradient(kept.h)) \oplus (all \otimes byH)
                   open == IF Above(kept.h, 0) THEN gradH ELSE 0
               IN  Charged(open \otimes k, b, a,
                           (IF c.scale THEN ScaledResetByK(c, kept, k) \otimes all ELSE 0)
                             \oplus (Leaky(c, kept.vPrev, kept.x, ReciprocalTau) \otimes open))
    BY DEF KlifBackward, a, b
  <2> HIDE DEF gh, raised, byK, byH, all, back
  <2> QED
    BY <2>1, <2>2, <2>3, <2>4, <2>5
<1>8. byK \otimes all \in Number
  BY <1>5, <1>6, Closed
<1>9. CASE Above(h.val, 0)
  <2>1. k \otimes a \in Number /\ k \otimes b \in Number
    BY <1>2, Closed
  <2>2. raised = gh
    BY <1>9
  <2> HIDE DEF gh, raised, byK, byH, all, back, k
  <2>3. /\ (gh \otimes k) \otimes b = gh \otimes (k \otimes b)
        /\ (gh \otimes k) \otimes a = gh \otimes (k \otimes a)
    BY <1>2, <1>6, Associates
  <2>4. Assigns(back, gh, k \otimes a, k \otimes b, charge, byK, all)
    BY <1>7, <2>2, <2>3 DEF Charged, Assigns
  <2>5. Balances(out, grad, post, back, w, x, p)
    BY <1>1, <1>2, <1>4, <1>5, <1>9, <2>1, <2>4, BalanceOf DEF gh, all
  <2> QED
    BY <1>5, <2>5 DEF out, kept, back, k
<1>10. CASE ~Above(h.val, 0)
  <2>1. raised = 0
    BY <1>10
  <2> HIDE DEF gh, raised, byK, byH, all, back, k
  <2>2. /\ (0 \otimes k) \otimes b = gh \otimes 0 /\ (0 \otimes k) \otimes a = gh \otimes 0
        /\ charge \otimes 0 = 0 \otimes gh
    BY <1>2, <1>6, Units, UnitsOnTheRight
  <2>3. Assigns(back, gh, 0, 0, 0, byK, all)
    BY <1>7, <2>1, <2>2 DEF Charged, Assigns
  <2>4. Balances(out, grad, post, back, w, x, p)
    BY <1>1, <1>2, <1>4, <1>5, <1>10, <2>3, BalanceOf DEF gh, all
  <2> QED
    BY <1>5, <2>4 DEF out, kept, back, k
<1> QED
  BY <1>9, <1>10

\* FedSNN's reset is detached, so its potential passes the gradient on as it is.
LEMMA FedSNNBalances ==
  ASSUME NEW w \in Dual, NEW x \in Dual, NEW p \in Dual,
         NEW grad, grad.spike \in Number, grad.v = 0, NEW post \in Number
  PROVE  LET out == DecayLIFStep(w, x)
             kept == FedSNNForward(w.val, x.val).kept
         IN  /\ out.v \in Dual
             /\ Balances(out, grad, post, FedSNNBackward(kept, grad, post), w, x, p)
<1> DEFINE h == (w ** Const(MembraneDecay)) ++ x
           out == DecayLIFStep(w, x)
           spike == NeuronalFire(h)
           kept == FedSNNForward(w.val, x.val).kept
           gh == AtH(SurrogateGradient(h.val), 1, grad, post)
           back == FedSNNBackward(kept, grad, post)
<1>1. /\ Const(MembraneDecay) \in Dual /\ Const(MembraneDecay).val = MembraneDecay
      /\ MembraneDecay \in Number /\ 0 \in Number /\ 1 \in Number
      /\ Const(Threshold) \in Dual
  BY Attributes, Units, DualLeaves, Values
<1>2. h \in Dual /\ h.val = (w.val \otimes MembraneDecay) \oplus x.val
  <2>1. w ** Const(MembraneDecay) \in Dual
    BY <1>1, DualOps
  <2>2. h \in Dual
    BY <2>1, DualOps
  <2>3. h.val = (w ** Const(MembraneDecay)).val \oplus x.val
    BY Values
  <2>4. (w ** Const(MembraneDecay)).val = w.val \otimes Const(MembraneDecay).val
    BY Values
  <2> QED
    BY <1>1, <2>2, <2>3, <2>4
<1>3. ChargedFrom(h, w, MembraneDecay, x, 1, p, 0)
  <2> SUFFICES ASSUME NEW l \in Leaves
               PROVE  h.tan[l] = ((MembraneDecay \otimes w.tan[l]) \oplus (1 \otimes x.tan[l]))
                                   \oplus (0 \otimes p.tan[l])
    BY DEF ChargedFrom
  <2>1. /\ w.val \in Number /\ w.tan[l] \in Number /\ x.tan[l] \in Number /\ p.tan[l] \in Number
        /\ h.tan[l] \in Number
    BY <1>2, Parts
  <2>2. h.tan[l] = (w ** Const(MembraneDecay)).tan[l] \oplus x.tan[l]
    BY Tangents
  <2>3. (w ** Const(MembraneDecay)).tan[l]
          = (w.tan[l] \otimes MembraneDecay) \oplus (w.val \otimes 0)
    BY <1>1, Tangents
  <2>4. w.tan[l] \otimes MembraneDecay \in Number
    BY <1>1, <2>1, Closed
  <2>5. (w ** Const(MembraneDecay)).tan[l] = MembraneDecay \otimes w.tan[l]
    BY <1>1, <2>1, <2>3, <2>4, Units, UnitsOnTheRight, Commutes
  <2> HIDE DEF h
  <2>6. h.tan[l] = (MembraneDecay \otimes w.tan[l]) \oplus (1 \otimes x.tan[l])
    BY <2>1, <2>2, <2>5, Units
  <2> QED
    BY <2>1, <2>6, Units
<1>4. kept.h = h.val /\ kept.spike = Fired(h.val)
  BY <1>2 DEF FedSNNForward
<1>5. out.spike = spike /\ out.v = h -- (Detach(spike) ** Const(Threshold))
  BY DEF DecayLIFStep
<1> HIDE DEF h, out, kept
<1>6. spike \in Dual /\ Detach(spike) \in Dual
  BY <1>2, SpikeTangent, DualLeaves
<1>7. Detach(spike) ** Const(Threshold) \in Dual
  BY <1>1, <1>6, DualOps
<1>8. out.v \in Dual
  BY <1>2, <1>5, <1>7, DualOps
<1>9. ResetFrom(out.v, h, 1, p, 0)
  <2> SUFFICES ASSUME NEW l \in Leaves
               PROVE  out.v.tan[l] = (1 \otimes h.tan[l]) \oplus (0 \otimes p.tan[l])
    BY DEF ResetFrom
  <2> DEFINE seen == Detach(spike)
  <2>1. /\ seen.val \in Number /\ Threshold \in Number
        /\ h.tan[l] \in Number /\ p.tan[l] \in Number
    BY <1>2, <1>6, Parts, Attributes
  <2>2. seen.tan[l] = 0 /\ Const(Threshold).val = Threshold /\ Const(Threshold).tan[l] = 0
    BY Values, Tangents
  <2> HIDE DEF seen
  <2>3. (seen ** Const(Threshold)).tan[l] = (0 \otimes Threshold) \oplus (seen.val \otimes 0)
    BY <2>2, Tangents
  <2>4. (seen ** Const(Threshold)).tan[l] = 0
    BY <1>1, <2>1, <2>3, Units, UnitsOnTheRight
  <2>5. out.v.tan[l] = h.tan[l] \ominus 0
    BY <1>5, <2>4, Tangents DEF seen
  <2> QED
    BY <2>1, <2>5, Units
<1>10. Assigns(back, gh, MembraneDecay, 1, 0, 0, post \oplus grad.v)
  <2>1. post \oplus grad.v = post /\ post \otimes 1 = post
    BY Units, UnitsOnTheRight
  <2>2. SurrogateGradient(h.val) \in Number
    BY <1>2, Parts, SurrogatesAgree
  <2>3. grad.spike \otimes SurrogateGradient(h.val) \in Number
    BY <2>2, Closed
  <2>4. gh = (grad.spike \otimes SurrogateGradient(h.val)) \oplus post /\ gh \in Number
    BY <2>1, <2>3, Closed DEF AtH
  <2>5. back = Charged(gh, 1, MembraneDecay, 0)
    BY <1>4, <2>4 DEF FedSNNBackward
  <2> HIDE DEF gh
  <2>6. (0 \otimes post) \oplus (0 \otimes gh) = 0
    BY <1>1, <2>4, Units
  <2> QED
    BY <2>1, <2>5, <2>6 DEF Charged, Assigns
<1>11. grad.v \in Number
  BY <1>1
<1>12. Balances(out, grad, post, back, w, x, p)
  BY <1>1, <1>2, <1>3, <1>5, <1>9, <1>10, <1>11, BalanceOf
<1> QED
  BY <1>8, <1>12 DEF out, kept

\* What a loss has gradients for: no sequence of potentials if none is returned.
Gives(c, grad) ==
  /\ grad.spike \in Number /\ grad.v \in Number
  /\ c.compact \/ c.op = "fedsnn" => grad.v = 0

\* Whatever the call, the backward step of its kernel balances the step of its
\* neuron.
LEMMA StepBalances ==
  ASSUME NEW c \in Calls, NEW w \in Dual, NEW x \in Dual, NEW p \in Dual, p.val = c.p,
         NEW grad, Gives(c, grad), NEW post \in Number
  PROVE  LET out == EagerStep(c, w, x, p)
             kept == ForwardStep(c, w.val, x.val, c.p).kept
         IN  /\ out.v \in Dual
             /\ Balances(out, grad, post, BackwardStep(c, kept, grad, post, c.p), w, x, p)
<1>1. /\ c.op \in {"if", "lif", "plif", "klif", "fedsnn"}
      /\ c.p # 0 /\ c.compact \in BOOLEAN
  BY DynamicsAssumption DEF Calls
<1>2. /\ grad.spike \in Number /\ grad.v \in Number
      /\ c.compact \/ c.op = "fedsnn" => grad.v = 0
  BY DEF Gives
<1>3. CASE c.op = "if"
  BY <1>1, <1>2, <1>3, IfBalances DEF EagerStep, ForwardStep, BackwardStep
<1>4. CASE c.op = "lif"
  BY <1>1, <1>2, <1>4, LifBalances DEF EagerStep, ForwardStep, BackwardStep
<1>5. CASE c.op = "plif"
  BY <1>1, <1>2, <1>5, PlifBalances DEF EagerStep, ForwardStep, BackwardStep
<1>6. CASE c.op = "klif"
  BY <1>1, <1>2, <1>6, KlifBalances DEF EagerStep, ForwardStep, BackwardStep
<1>7. CASE c.op = "fedsnn"
  BY <1>1, <1>2, <1>7, FedSNNBalances DEF EagerStep, ForwardStep, BackwardStep
<1> QED
  BY <1>1, <1>3, <1>4, <1>5, <1>6, <1>7

-----------------------------------------------------------------------------
\* Inductive: the call is one the router lets pass, and the steps the kernel
\* kept are those the neuron returned.
CallOK == call \in Calls \cup {NoCall}
Kept == \E S : native \in Seq(S) /\ eager \in Seq(S) /\ Len(native) = Len(eager)
IInv == CallOK /\ Kept /\ voltage \in Number /\ ForwardIsEager

\* It holds initially ...
LEMMA InitInv == Init => IInv
<1> SUFFICES ASSUME Init PROVE IInv
  OBVIOUS
<1>1. native = <<>> /\ eager = <<>> /\ call = NoCall /\ voltage = 0 /\ v = Const(0)
  BY DEF Init
<1>2. Kept
  BY <1>1, EmptySeq DEF Kept
<1>3. Len(native) = 0
  BY <1>1, EmptySeq
<1>4. ForwardIsEager
  BY <1>1, <1>3, Values, SMT DEF ForwardIsEager
<1> QED
  BY <1>1, <1>2, <1>4, Units DEF IInv, CallOK

\* ... and each step preserves it.
LEMMA BeginInv ==
  ASSUME IInv, NEW c \in Calls, NEW initial \in Voltages \cup {0}, Begin(c, initial)
  PROVE  IInv'
<1>1. initial \in Number
  BY DynamicsAssumption, Units
<1>2. /\ call' = c /\ voltage' = initial
      /\ native' = native /\ eager' = eager
      /\ v' = IF c.op = "fedsnn" THEN Const(0) ELSE LeafOf(initial, VInit)
      /\ c.op = "fedsnn" => initial = 0
  BY DEF Begin
<1>3. v'.val = initial
  BY <1>2, Values
<1> QED
  BY <1>1, <1>2, <1>3 DEF IInv, CallOK, Kept, ForwardIsEager

LEMMA ForwardInv ==
  ASSUME IInv, NEW x \in Inputs, Forward(x)
  PROVE  IInv'
<1> DEFINE out == EagerStep(call, v, LeafOf(x, Len(eager) + 1), LeafOf(call.p, Parameter))
           fused == ForwardStep(call, voltage, x, call.p)
<1>1. /\ call \in Calls /\ call' = call
      /\ eager' = Append(eager, out) /\ v' = out.v
      /\ native' = Append(native, fused.kept) /\ voltage' = fused.v
  BY DEF Forward, IInv, CallOK
<1>2. Agrees(out, fused)
  <2>1. v.val = voltage /\ voltage \in Number /\ x \in Number
    BY DynamicsAssumption DEF IInv, ForwardIsEager
  <2>2. LeafOf(x, Len(eager) + 1).val = x /\ LeafOf(call.p, Parameter).val = call.p
    BY Values
  <2> QED
    BY <1>1, <2>1, <2>2, StepAgrees
<1> HIDE DEF out, fused
<1>3. PICK S : native \in Seq(S) /\ eager \in Seq(S) /\ Len(native) = Len(eager)
  BY DEF IInv, Kept
<1> DEFINE T == S \cup {out, fused.kept}
<1>4. native \in Seq(T) /\ eager \in Seq(T) /\ Len(native) \in Nat
  BY <1>3, SeqMonotonic, LenProperties
<1>5. out \in T /\ fused.kept \in T
  OBVIOUS
<1> HIDE DEF T
<1>6. /\ native' \in Seq(T) /\ Len(native') = Len(native) + 1
      /\ \A t \in 1 .. Len(native) : native'[t] = native[t]
      /\ native'[Len(native) + 1] = fused.kept
  BY <1>1, <1>4, <1>5, AppendProperties
<1>7. /\ eager' \in Seq(T) /\ Len(eager') = Len(native) + 1
      /\ \A t \in 1 .. Len(native) : eager'[t] = eager[t]
      /\ eager'[Len(native) + 1] = out
  BY <1>1, <1>3, <1>4, <1>5, AppendProperties
<1>8. ForwardIsEager'
  <2>1. voltage' = v'.val
    BY <1>1, <1>2 DEF Agrees
  <2>2. ASSUME NEW t \in 1 .. Len(native')
        PROVE  /\ native'[t].spike = eager'[t].spike.val
               /\ "v" \in DOMAIN native'[t] => native'[t].v = eager'[t].v.val
    <3>1. CASE t \in 1 .. Len(native)
      BY <1>6, <1>7, <3>1 DEF IInv, ForwardIsEager
    <3>2. CASE t = Len(native) + 1
      BY <1>2, <1>6, <1>7, <3>2 DEF Agrees
    <3> QED
      BY <1>4, <1>6, <3>1, <3>2, SMT
  <2> QED
    BY <2>1, <2>2 DEF ForwardIsEager
<1>9. Kept'
  BY <1>6, <1>7 DEF Kept
<1> QED
  BY <1>1, <1>2, <1>8, <1>9 DEF IInv, CallOK, Agrees

LEMMA NextInv == IInv /\ [Next]_vars => IInv'
<1> SUFFICES ASSUME IInv, [Next]_vars PROVE IInv'
  OBVIOUS
<1>1. ASSUME NEW c \in Calls, NEW initial \in Voltages \cup {0}, Begin(c, initial) PROVE IInv'
  BY <1>1, BeginInv
<1>2. ASSUME NEW x \in Inputs, Forward(x) PROVE IInv'
  BY <1>2, ForwardInv
<1>3. CASE BeginBackward
  BY <1>3 DEF BeginBackward, IInv, CallOK, Kept, ForwardIsEager
<1>4. CASE Backward
  BY <1>4 DEF Backward, IInv, CallOK, Kept, ForwardIsEager
<1>5. CASE Return
  <2>1. Init'
    BY <1>5 DEF Return, Init
  <2>2. (Init => IInv)'
    BY InitInv, PTL
  <2> QED
    BY <2>1, <2>2
<1>6. CASE UNCHANGED vars
  BY <1>6 DEF vars, IInv, CallOK, Kept, ForwardIsEager
<1> QED
  BY <1>1, <1>2, <1>3, <1>4, <1>5, <1>6 DEF Next

\* Every fused forward kernel computes the spikes and the voltages of its
\* PyTorch neuron, with every attribute, for sequences of any length.
THEOREM ForwardAgrees == Spec => []ForwardIsEager
<1>1. IInv => ForwardIsEager
  BY DEF IInv
<1> QED
  BY <1>1, InitInv, NextInv, PTL DEF Spec

-----------------------------------------------------------------------------
\* Induction over the numbers, for a set.
LEMMA NatInductionOnSet ==
  ASSUME NEW S, 0 \in S, \A n \in Nat : n \in S => n + 1 \in S
  PROVE  Nat \subseteq S
<1> DEFINE T == Nat \ S
           R == {ss \in Nat \X Nat : ss[1] < ss[2]}
<1> SUFFICES ASSUME T # {} PROVE FALSE
  OBVIOUS
<1>1. IsWellFoundedOn(R, Nat)
  BY NatLessThanWellFounded DEF OpToRel
<1>2. PICK x \in T : \A y \in T : <<y, x>> \notin R
  <2> HIDE DEF R
  <2> QED
    BY <1>1, WFMin
<1>3. x \in Nat /\ x # 0 /\ x \notin S
  BY <1>2
<1>4. x - 1 \in Nat /\ x - 1 < x /\ (x - 1) + 1 = x
  BY <1>3
<1>5. x - 1 \in S
  BY <1>2, <1>3, <1>4
<1> QED
  BY <1>3, <1>4, <1>5

\* The sums of a function are defined, each by the one before it.
LEMMA SumsDef ==
  ASSUME NEW f, NEW n \in Nat
  PROVE  /\ Sums(f, n)[0] = 0
         /\ \A t \in 1 .. n : Sums(f, n)[t] = Sums(f, n)[t - 1] \oplus f[t]
<1> DEFINE body(g, t) == IF t = 0 THEN 0 ELSE g[t - 1] \oplus f[t]
           Defined == {m \in Nat : \E g : g = [t \in 0 .. m |-> body(g, t)]}
<1>1. 0 \in Defined
  <2> DEFINE g == [t \in 0 .. 0 |-> 0]
  <2>1. g = [t \in 0 .. 0 |-> body(g, t)]
    OBVIOUS
  <2> QED
    BY <2>1
<1>2. ASSUME NEW m \in Nat, m \in Defined
      PROVE  m + 1 \in Defined
  <2>1. PICK g : g = [t \in 0 .. m |-> body(g, t)]
    BY <1>2
  <2> DEFINE h == [t \in 0 .. m + 1 |-> body(g, t)]
  <2>2. \A t \in 0 .. m : g[t] = body(g, t)
    BY <2>1
  <2>3. \A t \in 0 .. m : h[t] = body(g, t)
    OBVIOUS
  <2>4. ASSUME NEW t \in 0 .. m + 1
        PROVE  body(g, t) = body(h, t)
    <3>1. CASE t = 0
      BY <3>1
    <3>2. CASE t # 0
      <4>1. t - 1 \in 0 .. m
        BY <3>2
      <4>2. g[t - 1] = h[t - 1]
        BY <2>2, <2>3, <4>1
      <4> QED
        BY <4>2
    <3> QED
      BY <3>1, <3>2
  <2>5. h = [t \in 0 .. m + 1 |-> body(h, t)]
    BY <2>4
  <2> HIDE DEF h
  <2> QED
    BY <2>5
<1>3. n \in Defined
  <2> HIDE DEF Defined
  <2> QED
    BY <1>1, <1>2, NatInductionOnSet
<1>4. PICK g : g = [t \in 0 .. n |-> body(g, t)]
  BY <1>3
<1> DEFINE sum == Sums(f, n)
<1>5. sum = [t \in 0 .. n |-> body(sum, t)]
  BY <1>4 DEF Sums
<1> HIDE DEF sum
<1>6. sum[0] = 0
  <2>1. 0 \in 0 .. n
    OBVIOUS
  <2> QED
    BY <1>5, <2>1
<1>7. ASSUME NEW t \in 1 .. n
      PROVE  sum[t] = sum[t - 1] \oplus f[t]
  <2>1. t \in 0 .. n /\ t # 0
    OBVIOUS
  <2> QED
    BY <1>5, <2>1
<1> QED
  BY <1>6, <1>7 DEF sum

\* Sums of numbers are numbers.
LEMMA SumsAreNumbers ==
  ASSUME NEW f, NEW n \in Nat, \A t \in 1 .. n : f[t] \in Number
  PROVE  \A t \in 0 .. n : Sums(f, n)[t] \in Number
<1> DEFINE S == {m \in Nat : m <= n => Sums(f, n)[m] \in Number}
<1>1. 0 \in S
  BY SumsDef, Units
<1>2. ASSUME NEW m \in Nat, m \in S
      PROVE  m + 1 \in S
  <2> SUFFICES ASSUME m + 1 <= n
               PROVE  Sums(f, n)[m + 1] \in Number
    BY <1>2
  <2>1. m <= n /\ m + 1 \in 1 .. n /\ (m + 1) - 1 = m
    OBVIOUS
  <2>2. Sums(f, n)[m + 1] = Sums(f, n)[m] \oplus f[m + 1]
    BY <2>1, SumsDef
  <2>3. Sums(f, n)[m] \in Number /\ f[m + 1] \in Number
    BY <1>2, <2>1
  <2> QED
    BY <2>2, <2>3, Closed
<1> HIDE DEF S
<1>3. Nat \subseteq S
  BY <1>1, <1>2, NatInductionOnSet
<1> QED
  BY <1>3 DEF S

\* The lanes of k but the first add nothing.
LEMMA LanesOfK == partial \in Number => GradK = partial
<1> SUFFICES ASSUME partial \in Number PROVE GradK = partial
  OBVIOUS
<1> DEFINE lanes == [lane \in 1 .. 8 |-> IF lane = 1 THEN partial ELSE 0]
           sum == Sums(lanes, 8)
<1>1. sum[0] = 0 /\ \A t \in 1 .. 8 : sum[t] = sum[t - 1] \oplus lanes[t]
  BY SumsDef
<1>2. GradK = sum[8]
  BY DEF GradK
<1>3. /\ sum[1] = sum[0] \oplus lanes[1]
      /\ sum[2] = sum[1] \oplus lanes[2] /\ sum[3] = sum[2] \oplus lanes[3]
      /\ sum[4] = sum[3] \oplus lanes[4] /\ sum[5] = sum[4] \oplus lanes[5]
      /\ sum[6] = sum[5] \oplus lanes[6] /\ sum[7] = sum[6] \oplus lanes[7]
      /\ sum[8] = sum[7] \oplus lanes[8]
  <2> HIDE DEF lanes, sum
  <2> QED
    BY <1>1
<1>4. lanes[1] = partial /\ \A lane \in 2 .. 8 : lanes[lane] = 0
  OBVIOUS
<1> HIDE DEF lanes, sum
<1>5. /\ lanes[2] = 0 /\ lanes[3] = 0 /\ lanes[4] = 0 /\ lanes[5] = 0
      /\ lanes[6] = 0 /\ lanes[7] = 0 /\ lanes[8] = 0
  BY <1>4
<1>6. 0 \oplus partial = partial /\ partial \oplus 0 = partial
  BY Units
<1> QED
  BY <1>1, <1>2, <1>3, <1>4, <1>5, <1>6

\* A step of a neuron keeps the derivatives within the numbers.
LEMMA StepIsDual ==
  ASSUME NEW c \in Calls, NEW w \in Dual, NEW x \in Dual, NEW p \in Dual, p.val = c.p
  PROVE  /\ EagerStep(c, w, x, p).spike \in Dual
         /\ EagerStep(c, w, x, p).v \in Dual
<1> DEFINE none == [spike |-> 0, v |-> 0]
<1>1. none.spike \in Number /\ none.v \in Number /\ none.v = 0 /\ 0 \in Number
  BY Units
<1>2. Gives(c, none)
  BY <1>1 DEF Gives
<1>3. EagerStep(c, w, x, p).v \in Dual
  BY <1>1, <1>2, StepBalances
<1>4. EagerStep(c, w, x, p).spike \in Dual
  <2>1. CASE c.op = "fedsnn"
    <3>1. Const(MembraneDecay) \in Dual
      BY Attributes, DualLeaves
    <3>2. w ** Const(MembraneDecay) \in Dual
      BY <3>1, DualOps
    <3>3. (w ** Const(MembraneDecay)) ++ x \in Dual
      BY <3>2, DualOps
    <3>4. NeuronalFire((w ** Const(MembraneDecay)) ++ x) \in Dual
      BY <3>3, SpikeTangent
    <3> QED
      BY <2>1, <3>4 DEF EagerStep, DecayLIFStep
  <2>2. CASE c.op # "fedsnn"
    <3>1. c.op \in {"if", "lif", "plif", "klif"}
      BY <2>2 DEF Calls
    <3>2. NeuronalCharge(c, w, x, p) \in Dual
      <4>1. CASE c.op = "if"
        BY <4>1, DualOps DEF NeuronalCharge, IFCharge
      <4>2. CASE c.op = "lif"
        BY <4>2, LifChargeTangent DEF NeuronalCharge
      <4>3. CASE c.op = "plif"
        BY <4>3, PlifChargeTangent DEF NeuronalCharge
      <4>4. CASE c.op = "klif"
        BY <4>4, KlifChargeTangent DEF NeuronalCharge
      <4> QED
        BY <3>1, <4>1, <4>2, <4>3, <4>4
    <3>3. NeuronalFire(NeuronalCharge(c, w, x, p)) \in Dual
      BY <3>2, SpikeTangent
    <3> QED
      BY <2>2, <3>3 DEF EagerStep, SingleStep
  <2> QED
    BY <2>1, <2>2
<1> QED
  BY <1>3, <1>4

-----------------------------------------------------------------------------
\* Inductive, for the gradients.  The potential after so many steps.
StartOf(initial) == IF call.op = "fedsnn" THEN Const(0) ELSE LeafOf(initial, VInit)
After(start, t) == IF t = 0 THEN start ELSE eager[t].v

\* Each step was the neuron's, from the potential the one before it left, and
\* the kernel kept what it computed from the same numbers.
StepRan(start, t) ==
  \E x \in Number :
    /\ eager[t] = EagerStep(call, After(start, t - 1), LeafOf(x, t), LeafOf(call.p, Parameter))
    /\ native[t] = ForwardStep(call, After(start, t - 1).val, x, call.p).kept

Ran(start) ==
  /\ v = After(start, Len(native))
  /\ \A t \in 1 .. Len(native) :
       eager[t].v \in Dual /\ eager[t].spike \in Dual /\ StepRan(start, t)

\* The gradient a leaf has so far, and what autograd would return for it: that,
\* what is still carried, and the contributions of the steps to come.
SoFar(l) ==
  IF l \in Len(native) + 1 - Len(gradX) .. Len(native) THEN gradX[Len(native) + 1 - l]
  ELSE IF l = Parameter THEN partial ELSE 0

Balanced(start) ==
  LET time == Len(native) - Len(gradX)
  IN  \A l \in Leaves :
        Autograd(l) = (Sums(Contributions(l), Len(native))[time]
                         \oplus (carry \otimes After(start, time).tan[l])) \oplus SoFar(l)

Registers ==
  /\ carry \in Number /\ partial \in Number
  /\ gradX \in Seq(Number) /\ Len(gradX) <= Len(native) /\ Len(native) <= Steps
  /\ call = NoCall => native = <<>> /\ v = Const(0)
  /\ loss = NoLoss => gradX = <<>> /\ partial = 0
  /\ native = <<>> => loss = NoLoss

\* The loss has a gradient for what the call returned.
LossOK ==
  /\ loss.final \in Number
  /\ \A t \in 1 .. Len(native) : Gives(call, loss.steps[t])

Traced ==
  call \in Calls =>
    \E initial \in Number :
      /\ Ran(StartOf(initial))
      /\ loss # NoLoss => LossOK /\ Balanced(StartOf(initial))

GInv == IInv /\ Registers /\ Traced

\* The gradients the outputs are given are numbers, and there is none for a
\* sequence of potentials the call does not return.
LEMMA LossesGive ==
  ASSUME NEW c \in Calls, NEW n \in Nat, NEW given \in Losses(c, n)
  PROVE  /\ given.final \in Number
         /\ \A t \in 1 .. n : Gives(c, given.steps[t])
<1> DEFINE zero == [final |-> 0, steps |-> [t \in 1 .. n |-> [spike |-> 0, v |-> 0]]]
           sequence == ~c.compact /\ c.op # "fedsnn"
           mixture == [final |-> 2,
                       steps |-> [t \in 1 .. n |-> [spike |-> t % P, v |-> (t + 2) % P]]]
<1>1. \/ \E t \in 1 .. n : given = [zero EXCEPT !.steps[t].spike = 1]
      \/ sequence /\ \E t \in 1 .. n : given = [zero EXCEPT !.steps[t].v = 1]
      \/ given = [zero EXCEPT !.final = 1]
      \/ sequence /\ given = mixture
  BY DEF Losses
<1>2. {0, 1, 2} \subseteq Number
  BY Units, Modulus, SMT DEF Number
<1>3. ASSUME NEW s \in 1 .. n, given = [zero EXCEPT !.steps[s].spike = 1]
      PROVE  given.final \in Number /\ \A t \in 1 .. n : Gives(c, given.steps[t])
  <2>1. given.final = 0
    BY <1>3
  <2>2. ASSUME NEW t \in 1 .. n
        PROVE  given.steps[t].spike \in {0, 1} /\ given.steps[t].v = 0
    BY <1>3
  <2> QED
    BY <1>2, <2>1, <2>2 DEF Gives
<1>4. ASSUME sequence, NEW s \in 1 .. n, given = [zero EXCEPT !.steps[s].v = 1]
      PROVE  given.final \in Number /\ \A t \in 1 .. n : Gives(c, given.steps[t])
  <2>1. given.final = 0
    BY <1>4
  <2>2. ASSUME NEW t \in 1 .. n
        PROVE  given.steps[t].spike = 0 /\ given.steps[t].v \in {0, 1}
    BY <1>4
  <2> QED
    BY <1>2, <1>4, <2>1, <2>2 DEF Gives
<1>5. ASSUME given = [zero EXCEPT !.final = 1]
      PROVE  given.final \in Number /\ \A t \in 1 .. n : Gives(c, given.steps[t])
  <2>1. given.final = 1
    BY <1>5
  <2>2. ASSUME NEW t \in 1 .. n
        PROVE  given.steps[t].spike = 0 /\ given.steps[t].v = 0
    BY <1>5
  <2> QED
    BY <1>2, <2>1, <2>2 DEF Gives
<1>6. ASSUME sequence, given = mixture
      PROVE  given.final \in Number /\ \A t \in 1 .. n : Gives(c, given.steps[t])
  <2>1. given.final = 2
    BY <1>6
  <2>2. ASSUME NEW t \in 1 .. n
        PROVE  given.steps[t].spike \in Number /\ given.steps[t].v \in Number
    <3>1. t \in Int /\ t + 2 \in Int
      OBVIOUS
    <3>2. t % P \in Number /\ (t + 2) % P \in Number
      BY <3>1, Division DEF Number
    <3> QED
      BY <1>6, <3>2
  <2> QED
    BY <1>2, <1>6, <2>1, <2>2 DEF Gives
<1> QED
  BY <1>1, <1>3, <1>4, <1>5, <1>6

\* It holds initially ...
LEMMA InitTraced == Init => GInv
<1> SUFFICES ASSUME Init PROVE GInv
  OBVIOUS
<1>1. IInv
  BY InitInv
<1>2. /\ native = <<>> /\ gradX = <<>> /\ carry = 0 /\ partial = 0
      /\ call = NoCall /\ loss = NoLoss /\ v = Const(0)
  BY DEF Init
<1>3. call \notin Calls
  BY <1>2 DEF Calls, NoCall
<1>4. Len(native) = 0 /\ Len(gradX) = 0 /\ gradX \in Seq(Number)
  BY <1>2, EmptySeq
<1>5. Registers
  BY <1>2, <1>4, Units, DynamicsAssumption DEF Registers
<1> QED
  BY <1>1, <1>3, <1>5 DEF GInv, Traced

\* ... and each step preserves it: a call begins with no step kept, ...
LEMMA BeginTraced ==
  ASSUME GInv, NEW c \in Calls, NEW initial \in Voltages \cup {0}, Begin(c, initial)
  PROVE  GInv'
<1>1. IInv'
  BY BeginInv DEF GInv
<1>2. /\ call = NoCall /\ call' = c
      /\ v' = IF c.op = "fedsnn" THEN Const(0) ELSE LeafOf(initial, VInit)
      /\ UNCHANGED <<eager, native, loss, carry, partial, gradX>>
  BY DEF Begin
<1>3. initial \in Number
  BY DynamicsAssumption, Units
<1>4. native = <<>> /\ Len(native) = 0
  BY <1>2, EmptySeq DEF GInv, Registers
<1>5. Registers'
  <2>1. c # NoCall
    BY DEF Calls, NoCall
  <2> QED
    BY <1>2, <1>4, <2>1 DEF GInv, Registers
<1>6. Ran(StartOf(initial))'
  BY <1>2, <1>4 DEF Ran, StartOf, After
<1>7. loss' = NoLoss
  BY <1>2, <1>4 DEF GInv, Registers, IInv
<1> QED
  BY <1>1, <1>3, <1>5, <1>6, <1>7 DEF GInv, Traced

\* The starting potential is a dual whose one leaf is the initial voltage.
LEMMA Starts ==
  ASSUME NEW initial \in Number
  PROVE  StartOf(initial) \in Dual
  BY DualLeaves, Units DEF StartOf

\* What stands in the invariants for the kept steps.
LEMMA Lengths ==
  ASSUME GInv
  PROVE  /\ Len(native) \in Nat /\ Len(eager) = Len(native)
         /\ Len(gradX) \in Nat /\ Len(gradX) <= Len(native)
         /\ Len(native) <= Steps /\ Steps \in Nat
<1>1. PICK S : native \in Seq(S) /\ eager \in Seq(S) /\ Len(native) = Len(eager)
  BY DEF GInv, IInv, Kept
<1>2. gradX \in Seq(Number) /\ Len(gradX) <= Len(native) /\ Len(native) <= Steps
  BY DEF GInv, Registers
<1> QED
  BY <1>1, <1>2, LenProperties, DynamicsAssumption

\* The potentials of a run are duals.
LEMMA AfterIsDual ==
  ASSUME GInv, NEW start \in Dual, Ran(start), NEW t \in 0 .. Len(native)
  PROVE  After(start, t) \in Dual
<1>1. CASE t = 0
  BY <1>1 DEF After
<1>2. CASE t # 0
  <2>1. t \in 1 .. Len(native)
    BY <1>2, Lengths
  <2> QED
    BY <1>2, <2>1 DEF After, Ran
<1> QED
  BY <1>1, <1>2

\* ... a step forward appends a step of each, ...
LEMMA ForwardTraced ==
  ASSUME GInv, NEW x \in Inputs, Forward(x)
  PROVE  GInv'
<1>1. PICK n \in Nat : n = Len(native)
  BY Lengths
<1> DEFINE out == EagerStep(call, v, LeafOf(x, n + 1), LeafOf(call.p, Parameter))
           kept == ForwardStep(call, voltage, x, call.p).kept
<1>2. IInv'
  BY ForwardInv DEF GInv
<1>3. /\ call \in Calls /\ call # NoCall /\ n < Steps /\ loss = NoLoss
      /\ eager' = Append(eager, out) /\ v' = out.v
      /\ native' = Append(native, kept)
      /\ UNCHANGED <<call, loss, carry, partial, gradX>>
  BY <1>1, Lengths DEF Forward, GInv, IInv, CallOK
<1>4. PICK S : native \in Seq(S) /\ eager \in Seq(S) /\ Len(native) = Len(eager)
  BY DEF GInv, IInv, Kept
<1> DEFINE T == S \cup {out, kept}
<1>5. native \in Seq(T) /\ eager \in Seq(T)
  BY <1>4, SeqMonotonic, LenProperties
<1>6. out \in T /\ kept \in T
  OBVIOUS
<1>7. PICK initial \in Number : Ran(StartOf(initial))
  BY <1>3 DEF GInv, Traced
<1>8. PICK start \in Dual : start = StartOf(initial)
  BY Starts
<1>9. v = After(start, n) /\ v \in Dual /\ v.val = voltage
  <2>1. v = After(start, n) /\ v.val = voltage
    BY <1>7, <1>8, <1>1 DEF Ran, GInv, IInv, ForwardIsEager
  <2>2. n \in 0 .. n
    OBVIOUS
  <2> QED
    BY <1>7, <1>8, <1>1, <2>1, <2>2, AfterIsDual
<1>10. x \in Number /\ LeafOf(x, n + 1) \in Dual
      /\ LeafOf(call.p, Parameter) \in Dual /\ LeafOf(call.p, Parameter).val = call.p
  <2>1. x \in Number /\ call.p \in Number
    BY <1>3, DynamicsAssumption DEF Calls
  <2> QED
    BY <2>1, DualLeaves, Values
<1>11. out.v \in Dual /\ out.spike \in Dual
  BY <1>3, <1>9, <1>10, StepIsDual
<1> HIDE DEF T, out, kept
<1>12. /\ Len(native') = n + 1 /\ native'[n + 1] = kept
       /\ \A t \in 1 .. n : native'[t] = native[t]
       /\ native' # <<>>
  BY <1>3, <1>5, <1>6, <1>1, AppendProperties
<1>13. /\ eager'[n + 1] = out
       /\ \A t \in 1 .. n : eager'[t] = eager[t]
  BY <1>3, <1>4, <1>5, <1>6, <1>1, AppendProperties
<1>14. \A t \in 0 .. n : After(start, t)' = After(start, t)
  <2> SUFFICES ASSUME NEW t \in 0 .. n PROVE After(start, t)' = After(start, t)
    OBVIOUS
  <2>1. CASE t = 0
    BY <1>8, <2>1 DEF After
  <2>2. CASE t # 0
    <3>1. t \in 1 .. n
      BY <2>2
    <3> QED
      BY <1>13, <2>2, <3>1 DEF After
  <2> QED
    BY <2>1, <2>2
<1>15. Ran(start)'
  <2> SUFFICES /\ v' = After(start, n + 1)'
               /\ \A t \in 1 .. n + 1 :
                    eager'[t].v \in Dual /\ eager'[t].spike \in Dual /\ StepRan(start, t)'
    BY <1>12 DEF Ran
  <2>1. v' = After(start, n + 1)'
    <3>1. n + 1 # 0
      OBVIOUS
    <3> QED
      BY <1>3, <1>13, <3>1 DEF After
  <2>2. ASSUME NEW t \in 1 .. n
        PROVE  eager'[t].v \in Dual /\ eager'[t].spike \in Dual /\ StepRan(start, t)'
    <3>1. eager[t].v \in Dual /\ eager[t].spike \in Dual /\ StepRan(start, t)
      BY <1>7, <1>8, <1>1 DEF Ran
    <3>2. t - 1 \in 0 .. n
      OBVIOUS
    <3>3. After(start, t - 1)' = After(start, t - 1)
      BY <1>14, <3>2
    <3>4. StepRan(start, t)'
      BY <1>3, <1>12, <1>13, <3>1, <3>3 DEF StepRan
    <3> QED
      BY <1>13, <3>1, <3>4
  <2>3. StepRan(start, n + 1)'
    <3>1. (n + 1) - 1 = n /\ n \in 0 .. n
      OBVIOUS
    <3>2. After(start, n)' = v
      BY <1>9, <1>14, <3>1
    <3>3. /\ eager'[n + 1] = EagerStep(call, v, LeafOf(x, n + 1), LeafOf(call.p, Parameter))
          /\ native'[n + 1] = ForwardStep(call, v.val, x, call.p).kept
      BY <1>9, <1>12, <1>13 DEF out, kept
    <3> QED
      BY <1>3, <1>10, <3>1, <3>2, <3>3 DEF StepRan
  <2>4. eager'[n + 1].v \in Dual /\ eager'[n + 1].spike \in Dual
    BY <1>11, <1>13
  <2>5. \A t \in 1 .. n + 1 : t \in 1 .. n \/ t = n + 1
    OBVIOUS
  <2> QED
    BY <2>1, <2>2, <2>3, <2>4, <2>5
<1>16. Registers'
  <2>1. Len(gradX) = 0 /\ Len(gradX)' = 0 /\ gradX \in Seq(Number)
    BY <1>3, EmptySeq DEF GInv, Registers
  <2>2. n + 1 <= Steps /\ 0 <= n + 1
    BY <1>3, <1>1, Lengths
  <2> QED
    BY <1>3, <1>12, <1>1, <2>1, <2>2 DEF GInv, Registers
<1>17. Traced'
  <2>1. start = StartOf(initial)'
    BY <1>3, <1>8 DEF StartOf
  <2>2. Ran(StartOf(initial))'
    BY <1>15, <2>1
  <2> QED
    BY <1>3, <2>2 DEF Traced
<1> QED
  BY <1>2, <1>16, <1>17 DEF GInv

\* What a step contributes to a derivative is a number.
LEMMA ContributionIsNumber ==
  ASSUME NEW grad, grad.spike \in Number, grad.v \in Number,
         NEW out, out.spike \in Dual, out.v \in Dual, NEW l \in Leaves
  PROVE  (grad.spike \otimes out.spike.tan[l]) \oplus (grad.v \otimes out.v.tan[l]) \in Number
<1>1. out.spike.tan[l] \in Number /\ out.v.tan[l] \in Number
  BY Parts
<1>2. /\ grad.spike \otimes out.spike.tan[l] \in Number
      /\ grad.v \otimes out.v.tan[l] \in Number
  BY <1>1, Closed
<1> QED
  BY <1>2, Closed

\* The contributions of the steps to a leaf are numbers, and so are their sums.
LEMMA ContributionsAreNumbers ==
  ASSUME GInv, LossOK, NEW start, Ran(start), NEW l \in Leaves
  PROVE  /\ \A t \in 1 .. Len(native) :
              /\ Contributions(l)[t] = Contribution(l, t)
              /\ Contribution(l, t) \in Number
         /\ \A t \in 0 .. Len(native) : Sums(Contributions(l), Len(native))[t] \in Number
<1> DEFINE n == Len(native)
<1>1. n \in Nat /\ Len(eager) = n
  BY Lengths
<1>2. ASSUME NEW t \in 1 .. n
      PROVE  Contributions(l)[t] = Contribution(l, t) /\ Contribution(l, t) \in Number
  <2>1. Contributions(l)[t] = Contribution(l, t)
    BY <1>1 DEF Contributions
  <2>2. loss.steps[t].spike \in Number /\ loss.steps[t].v \in Number
    BY DEF LossOK, Gives
  <2>3. eager[t].spike \in Dual /\ eager[t].v \in Dual
    BY DEF Ran
  <2> QED
    BY <2>1, <2>2, <2>3, ContributionIsNumber DEF Contribution
<1>3. \A t \in 0 .. n : Sums(Contributions(l), n)[t] \in Number
  <2>1. \A t \in 1 .. n : Contributions(l)[t] \in Number
    BY <1>2
  <2> HIDE DEF n
  <2> QED
    BY <1>1, <2>1, SumsAreNumbers
<1> QED
  BY <1>2, <1>3

\* Before the first step of the backward pass everything is carried or to come.
LEMMA BeginBackwardTraced ==
  ASSUME GInv, BeginBackward
  PROVE  GInv'
<1>1. /\ native # <<>> /\ loss = NoLoss
      /\ loss' \in Losses(call, Len(native)) /\ carry' = loss'.final
      /\ UNCHANGED <<call, eager, v, native, voltage, partial, gradX>>
  BY DEF BeginBackward
<1>2. IInv'
  BY <1>1 DEF GInv, IInv, CallOK, Kept, ForwardIsEager
<1>3. call \in Calls
  BY <1>1 DEF GInv, Registers, IInv, CallOK
<1>4. gradX = <<>> /\ partial = 0
  BY <1>1 DEF GInv, Registers
<1>5. PICK n \in Nat : n = Len(native) /\ n = Len(eager) /\ n <= Steps
  BY Lengths
<1>6. LossOK'
  <2>1. LossOK' = (/\ loss'.final \in Number
                   /\ \A t \in 1 .. n : Gives(call, loss'.steps[t]))
    BY <1>1, <1>5 DEF LossOK, Gives
  <2> QED
    BY <1>1, <1>3, <1>5, <2>1, LossesGive
<1>7. Registers'
  BY <1>1, <1>6 DEF GInv, Registers, LossOK
<1>8. PICK initial \in Number : Ran(StartOf(initial))
  BY <1>3 DEF GInv, Traced
<1>9. PICK start \in Dual : start = StartOf(initial)
  BY Starts
<1>10. Ran(start)' /\ start = StartOf(initial)'
  BY <1>1, <1>8, <1>9 DEF Ran, StepRan, After, StartOf
<1>11. v = After(start, n) /\ v \in Dual
  <2>1. v = After(start, n)
    BY <1>5, <1>8, <1>9 DEF Ran
  <2>2. n \in 0 .. Len(native)
    BY <1>5
  <2> QED
    BY <1>8, <1>9, <2>1, <2>2, AfterIsDual
<1>12. Balanced(start)'
  <2>1. Len(gradX) = 0 /\ n - 0 = n /\ n + 1 - 0 .. n = {}
    BY <1>4, EmptySeq
  <2>2. ASSUME NEW l \in Leaves
        PROVE  Autograd(l)' = ((Sums(Contributions(l), Len(native))[n])'
                                 \oplus (carry' \otimes v.tan[l])) \oplus 0
    <3> DEFINE sum == Sums(Contributions(l), Len(native))[n]
               last == loss'.final \otimes v.tan[l]
    <3>1. Autograd(l)' = last \oplus sum'
      BY <1>1, <1>5 DEF Autograd
    <3>2. last \in Number
      BY <1>6, <1>11, Parts, Closed DEF LossOK
    <3>3. sum' \in Number
      <4>1. \A t \in 1 .. n : Contributions(l)'[t] = Contribution(l, t)'
        BY <1>1, <1>5 DEF Contributions
      <4>2. ASSUME NEW t \in 1 .. n
            PROVE  Contributions(l)'[t] \in Number
        <5>1. loss'.steps[t].spike \in Number /\ loss'.steps[t].v \in Number
          BY <1>1, <1>5, <1>6 DEF LossOK, Gives
        <5>2. eager[t].spike \in Dual /\ eager[t].v \in Dual
          BY <1>5, <1>8, <1>9 DEF Ran
        <5> QED
          BY <1>1, <4>1, <5>1, <5>2, ContributionIsNumber DEF Contribution
      <4>3. \A t \in 0 .. n : Sums(Contributions(l)', n)[t] \in Number
        BY <4>2, SumsAreNumbers
      <4> QED
        BY <1>1, <1>5, <4>3
    <3> HIDE DEF sum, last
    <3>4. last \oplus sum' = sum' \oplus last /\ sum' \oplus last \in Number
      BY <3>2, <3>3, SumCommutes, Closed
    <3>5. Autograd(l)' = (sum' \oplus last) \oplus 0
      BY <3>1, <3>4, Units
    <3> QED
      BY <1>1, <3>5 DEF sum, last
  <2>3. ASSUME NEW l \in Leaves
        PROVE  SoFar(l)' = 0
    BY <1>1, <1>4, <1>5, <2>1 DEF SoFar
  <2>4. After(start, n)' = v
    BY <1>1, <1>11 DEF After
  <2> QED
    BY <1>1, <1>5, <2>1, <2>2, <2>3, <2>4 DEF Balanced
<1> QED
  BY <1>2, <1>3, <1>6, <1>7, <1>10, <1>12 DEF GInv, Traced

\* A backward step gives what was carried to the sources of its step: to the
\* potential before, to the input and to the parameter.
Moved(start, out, time, l) ==
  /\ out.x \in Number /\ out.carry \in Number /\ out.partial \in Number
  /\ Autograd(l)
       = (Sums(Contributions(l), Len(native))[time - 1]
            \oplus (out.carry \otimes After(start, time - 1).tan[l]))
           \oplus (SoFar(l) \oplus
                     ((out.x \otimes (IF l = time THEN 1 ELSE 0))
                        \oplus (out.partial \otimes (IF l = Parameter THEN 1 ELSE 0))))

LEMMA BackwardBalances ==
  ASSUME GInv, NEW start \in Dual, Ran(start), LossOK, Balanced(start), call \in Calls,
         NEW time \in 1 .. Len(native), time = Len(native) - Len(gradX),
         NEW out, out = BackwardStep(call, native[time], loss.steps[time], carry, call.p),
         NEW l \in Leaves
  PROVE  Moved(start, out, time, l)
<1> DEFINE w == After(start, time - 1)
           p == LeafOf(call.p, Parameter)
           grad == loss.steps[time]
           sums == Sums(Contributions(l), Len(native))
<1>1. PICK x \in Number :
        /\ eager[time] = EagerStep(call, w, LeafOf(x, time), p)
        /\ native[time] = ForwardStep(call, w.val, x, call.p).kept
  BY DEF Ran, StepRan
<1>2. w \in Dual
  <2>1. time - 1 \in 0 .. Len(native)
    BY Lengths
  <2> QED
    BY <2>1, AfterIsDual
<1>3. LeafOf(x, time) \in Dual /\ p \in Dual /\ p.val = call.p /\ LeafOf(x, time).val = x
  <2>1. call.p \in Number
    BY DynamicsAssumption DEF Calls
  <2> QED
    BY <2>1, DualLeaves, Values
<1>4. Gives(call, grad) /\ carry \in Number
  BY DEF LossOK, GInv, Registers
<1> HIDE DEF w, p, grad
<1>5. Balances(eager[time], grad, carry, out, w, LeafOf(x, time), p)
  BY <1>1, <1>2, <1>3, <1>4, StepBalances DEF grad
<1>6. out.x \in Number /\ out.carry \in Number /\ out.partial \in Number
  BY <1>5 DEF Balances
<1> DEFINE own == Contribution(l, time)
           after == carry \otimes eager[time].v.tan[l]
           dx == IF l = time THEN 1 ELSE 0
           dp == IF l = Parameter THEN 1 ELSE 0
           byX == out.x \otimes dx
           byV == out.carry \otimes w.tan[l]
           byP == out.partial \otimes dp
<1>7. own \oplus after = (byX \oplus byV) \oplus byP
  <2>1. LeafOf(x, time).tan[l] = dx /\ p.tan[l] = dp
    BY Tangents DEF p
  <2> QED
    BY <1>5, <2>1 DEF Balances, Contribution, grad
<1>8. sums[time] = sums[time - 1] \oplus own /\ sums[time - 1] \in Number /\ own \in Number
  <2>1. /\ Contributions(l)[time] = own /\ own \in Number
        /\ \A t \in 0 .. Len(native) : sums[t] \in Number
    BY ContributionsAreNumbers
  <2>2. Len(native) \in Nat /\ time - 1 \in 0 .. Len(native)
    BY Lengths
  <2>3. sums[time] = sums[time - 1] \oplus Contributions(l)[time]
    BY <2>2, SumsDef
  <2> HIDE DEF sums, own
  <2> QED
    BY <2>1, <2>2, <2>3
<1>9. Autograd(l) = (sums[time] \oplus after) \oplus SoFar(l)
  <2>1. time # 0
    OBVIOUS
  <2>2. After(start, time) = eager[time].v
    BY <2>1 DEF After
  <2> QED
    BY <2>2 DEF Balanced
<1>10. SoFar(l) \in Number
  <2>1. ASSUME l \in Len(native) + 1 - Len(gradX) .. Len(native)
        PROVE  gradX[Len(native) + 1 - l] \in Number
    <3>1. Len(native) + 1 - l \in 1 .. Len(gradX)
      BY <2>1, Lengths
    <3> QED
      BY <3>1, ElementOfSeq DEF GInv, Registers
  <2> QED
    BY <2>1, Units DEF SoFar, GInv, Registers
<1>11. after \in Number /\ byX \in Number /\ byV \in Number /\ byP \in Number
  <2>1. dx \in Number /\ dp \in Number
    BY Units
  <2>2. eager[time].v.tan[l] \in Number /\ w.tan[l] \in Number
    <3>1. eager[time].v \in Dual
      BY DEF Ran
    <3> QED
      BY <1>2, <3>1, Parts
  <2> HIDE DEF dx, dp
  <2> QED
    BY <1>4, <1>6, <2>1, <2>2, Closed
<1> HIDE DEF own, after, byX, byV, byP, sums
<1>12. ((sums[time - 1] \oplus own) \oplus after) \oplus SoFar(l)
         = (sums[time - 1] \oplus byV) \oplus (SoFar(l) \oplus (byX \oplus byP))
  <2> DEFINE before == sums[time - 1]
             rest == SoFar(l)
  <2>1. before \in Number /\ rest \in Number
    BY <1>8, <1>10
  <2> HIDE DEF before, rest
  <2>2. ((before \oplus own) \oplus after) \oplus rest
          = (before \oplus rest) \oplus (own \oplus after)
    BY <1>8, <1>11, <2>1, RegroupFour
  <2>3. (before \oplus rest) \oplus ((byX \oplus byV) \oplus byP)
          = (before \oplus byV) \oplus (rest \oplus (byX \oplus byP))
    BY <1>11, <2>1, Regroup
  <2> QED
    BY <1>7, <2>2, <2>3 DEF before, rest
<1> QED
  BY <1>6, <1>8, <1>9, <1>12 DEF Moved, byX, byV, byP, sums, w

\* ... and a step backward appends the gradient of an input.
LEMMA BackwardTraced ==
  ASSUME GInv, Backward
  PROVE  GInv'
<1>1. PICK n \in Nat : n = Len(native) /\ n = Len(eager) /\ n <= Steps
  BY Lengths
<1>2. PICK k \in Nat : k = Len(gradX)
  BY Lengths
<1>3. PICK time \in 1 .. n : time = n - k
  BY <1>1, <1>2 DEF Backward
<1>4. PICK out : out = BackwardStep(call, native[time], loss.steps[time], carry, call.p)
  OBVIOUS
<1>5. /\ loss # NoLoss
      /\ gradX' = Append(gradX, out.x) /\ carry' = out.carry
      /\ partial' = partial \oplus out.partial
      /\ UNCHANGED <<call, eager, v, native, voltage, loss>>
  BY <1>1, <1>2, <1>3, <1>4 DEF Backward
<1>6. IInv'
  BY <1>5 DEF GInv, IInv, CallOK, Kept, ForwardIsEager
<1>7. call \in Calls /\ native # <<>>
  BY <1>5 DEF GInv, Registers, IInv, CallOK
<1>8. PICK initial \in Number :
        Ran(StartOf(initial)) /\ LossOK /\ Balanced(StartOf(initial))
  BY <1>5, <1>7 DEF GInv, Traced
<1>9. PICK start \in Dual : start = StartOf(initial)
  BY Starts
<1>10. Ran(start)' /\ start = StartOf(initial)' /\ LossOK'
  BY <1>5, <1>8, <1>9 DEF Ran, StepRan, After, StartOf, LossOK, Gives
<1>11. ASSUME NEW l \in Leaves
       PROVE  Moved(start, out, time, l)
  <2>1. time \in 1 .. Len(native) /\ time = Len(native) - Len(gradX)
    BY <1>1, <1>2, <1>3
  <2>2. Ran(start) /\ LossOK /\ Balanced(start)
    BY <1>8, <1>9
  <2> QED
    BY <1>4, <1>7, <2>1, <2>2, BackwardBalances
<1>12. out.x \in Number /\ out.carry \in Number /\ out.partial \in Number
  <2>1. 0 \in Leaves
    BY DynamicsAssumption
  <2> QED
    BY <1>11, <2>1 DEF Moved
<1>13. /\ gradX \in Seq(Number) /\ partial \in Number
       /\ gradX' \in Seq(Number) /\ Len(gradX') = k + 1
       /\ \A i \in 1 .. k : gradX'[i] = gradX[i]
       /\ gradX'[k + 1] = out.x
  <2>1. gradX \in Seq(Number) /\ partial \in Number
    BY DEF GInv, Registers
  <2> QED
    BY <1>2, <1>5, <1>12, <2>1, AppendProperties
<1>14. Registers'
  <2>1. partial' \in Number
    BY <1>5, <1>12, <1>13, Closed
  <2>2. k + 1 <= n
    BY <1>3
  <2> QED
    BY <1>1, <1>5, <1>7, <1>12, <1>13, <2>1, <2>2 DEF GInv, Registers
<1>15. ASSUME NEW l \in Leaves
       PROVE  SoFar(l)' = SoFar(l) \oplus
                            ((out.x \otimes (IF l = time THEN 1 ELSE 0))
                               \oplus (out.partial \otimes (IF l = Parameter THEN 1 ELSE 0)))
  <2>1. /\ SoFar(l) = IF l \in time + 1 .. n THEN gradX[n + 1 - l]
                      ELSE IF l = Parameter THEN partial ELSE 0
        /\ SoFar(l)' = IF l \in time .. n THEN gradX'[n + 1 - l]
                       ELSE IF l = Parameter THEN partial' ELSE 0
    <3>1. n + 1 - k = time + 1 /\ n + 1 - (k + 1) = time
      BY <1>3
    <3> QED
      BY <1>1, <1>2, <1>5, <1>13, <3>1 DEF SoFar
  <2>2. l \in Int /\ Parameter \in Int /\ ~(Parameter <= n)
    BY <1>1, DynamicsAssumption DEF Parameter
  <2>3. CASE l = time
    <3>1. l \in time .. n /\ l \notin time + 1 .. n /\ l # Parameter /\ n + 1 - l = k + 1
      BY <1>3, <2>2, <2>3
    <3>2. SoFar(l)' = out.x /\ SoFar(l) = 0
      BY <1>13, <2>1, <3>1
    <3> QED
      BY <1>12, <2>3, <3>1, <3>2, Units, UnitsOnTheRight
  <2>4. CASE l = Parameter
    <3>1. l \notin time .. n /\ l \notin time + 1 .. n /\ l # time
      BY <1>3, <2>2, <2>4
    <3>2. SoFar(l)' = partial \oplus out.partial /\ SoFar(l) = partial
      BY <1>5, <2>1, <2>4, <3>1
    <3> QED
      BY <1>12, <2>4, <3>1, <3>2, Units, UnitsOnTheRight
  <2>5. CASE l # time /\ l # Parameter
    <3>1. /\ l \in time .. n <=> l \in time + 1 .. n
          /\ l \in time + 1 .. n => n + 1 - l \in 1 .. k
      BY <1>3, <2>2, <2>5
    <3>2. SoFar(l)' = SoFar(l)
      BY <1>13, <2>1, <2>5, <3>1
    <3>3. SoFar(l) \in Number
      <4>1. l \in time + 1 .. n => gradX[n + 1 - l] \in Number
        BY <1>2, <1>13, <3>1, ElementOfSeq
      <4> QED
        BY <2>1, <2>5, <4>1, Units
    <3>4. out.x \otimes 0 = 0 /\ out.partial \otimes 0 = 0
      BY <1>12, UnitsOnTheRight
    <3> QED
      BY <2>5, <3>2, <3>3, <3>4, Units
  <2> QED
    BY <2>3, <2>4, <2>5
<1>16. Balanced(start)'
  <2>1. n - (k + 1) = time - 1
    BY <1>3
  <2>2. ASSUME NEW l \in Leaves
        PROVE  /\ Autograd(l)' = Autograd(l)
               /\ Sums(Contributions(l), Len(native))' = Sums(Contributions(l), n)
    BY <1>1, <1>5 DEF Autograd, Contributions, Contribution
  <2>3. After(start, time - 1)' = After(start, time - 1)
    BY <1>5 DEF After
  <2> QED
    BY <1>1, <1>5, <1>11, <1>13, <1>15, <2>1, <2>2, <2>3 DEF Balanced, Moved
<1> QED
  BY <1>6, <1>8, <1>10, <1>14, <1>16 DEF GInv, Traced

LEMMA NextTraced == GInv /\ [Next]_vars => GInv'
<1> SUFFICES ASSUME GInv, [Next]_vars PROVE GInv'
  OBVIOUS
<1>1. ASSUME NEW c \in Calls, NEW initial \in Voltages \cup {0}, Begin(c, initial) PROVE GInv'
  BY <1>1, BeginTraced
<1>2. ASSUME NEW x \in Inputs, Forward(x) PROVE GInv'
  BY <1>2, ForwardTraced
<1>3. CASE BeginBackward
  BY <1>3, BeginBackwardTraced
<1>4. CASE Backward
  BY <1>4, BackwardTraced
<1>5. CASE Return
  <2>1. Init'
    BY <1>5 DEF Return, Init
  <2>2. (Init => GInv)'
    BY InitTraced, PTL
  <2> QED
    BY <2>1, <2>2
<1>6. CASE UNCHANGED vars
  <2>1. IInv'
    BY <1>6, NextInv DEF GInv
  <2>2. Registers'
    BY <1>6 DEF vars, GInv, Registers
  <2>3. ASSUME NEW initial \in Number
        PROVE  /\ Ran(StartOf(initial))' = Ran(StartOf(initial))
               /\ LossOK' = LossOK
               /\ Balanced(StartOf(initial))' = Balanced(StartOf(initial))
    <3>1. Ran(StartOf(initial))' = Ran(StartOf(initial))
      BY <1>6 DEF vars, Ran, StepRan, After, StartOf
    <3>2. LossOK' = LossOK
      BY <1>6 DEF vars, LossOK, Gives
    <3>3. \A l \in Leaves : /\ Autograd(l)' = Autograd(l)
                            /\ Contributions(l)' = Contributions(l)
                            /\ SoFar(l)' = SoFar(l)
      BY <1>6 DEF vars, Autograd, Contributions, Contribution, SoFar
    <3>4. Balanced(StartOf(initial))' = Balanced(StartOf(initial))
      BY <1>6, <3>3 DEF vars, Balanced, After, StartOf
    <3> QED
      BY <3>1, <3>2, <3>4
  <2>4. Traced'
    BY <1>6, <2>3 DEF vars, GInv, Traced
  <2> QED
    BY <2>1, <2>2, <2>4 DEF GInv
<1> QED
  BY <1>1, <1>2, <1>3, <1>4, <1>5, <1>6 DEF Next

\* When a backward pass has ended, nothing is to come and the carry is that of
\* the initial voltage.
LEMMA EndedIsBalanced == GInv => GradientIsAutograd
<1> SUFFICES ASSUME GInv, Ended
             PROVE  /\ \A t \in 1 .. Len(native) : gradX[Len(native) + 1 - t] = Autograd(t)
                    /\ call.op # "fedsnn" => carry = Autograd(VInit)
                    /\ call.op \in {"plif", "klif"} => GradParameter = Autograd(Parameter)
  BY DEF GradientIsAutograd
<1>1. /\ Len(native) \in Nat /\ Len(gradX) = Len(native) /\ loss # NoLoss
      /\ Len(native) <= Steps /\ Steps \in Nat
  BY Lengths DEF Ended
<1>2. /\ carry \in Number /\ partial \in Number /\ gradX \in Seq(Number) /\ call \in Calls
  BY <1>1 DEF GInv, Registers, IInv, CallOK
<1>3. PICK initial \in Number : Balanced(StartOf(initial))
  BY <1>1, <1>2 DEF GInv, Traced
<1>4. Len(native) - Len(gradX) = 0 /\ Len(native) + 1 - Len(gradX) = 1
  BY <1>1
<1>5. ASSUME NEW l \in Leaves
      PROVE  Autograd(l) = (carry \otimes StartOf(initial).tan[l]) \oplus SoFar(l)
  <2>1. Sums(Contributions(l), Len(native))[0] = 0
    BY <1>1, SumsDef
  <2>2. After(StartOf(initial), 0) = StartOf(initial)
    BY DEF After
  <2>3. Autograd(l) = (0 \oplus (carry \otimes StartOf(initial).tan[l])) \oplus SoFar(l)
    BY <1>3, <1>4, <2>1, <2>2 DEF Balanced
  <2>4. carry \otimes StartOf(initial).tan[l] \in Number
    BY <1>2, Starts, Parts, Closed
  <2> QED
    BY <2>3, <2>4, Units
<1>6. ASSUME NEW l \in Leaves
      PROVE  StartOf(initial).tan[l] = IF l = VInit /\ call.op # "fedsnn" THEN 1 ELSE 0
  BY Tangents DEF StartOf
<1>7. ASSUME NEW t \in 1 .. Len(native)
      PROVE  gradX[Len(native) + 1 - t] = Autograd(t)
  <2>1. t \in Leaves /\ t # VInit /\ Len(native) + 1 - t \in 1 .. Len(gradX)
    BY <1>1, DynamicsAssumption DEF VInit
  <2>2. SoFar(t) = gradX[Len(native) + 1 - t]
    BY <1>4 DEF SoFar
  <2>3. gradX[Len(native) + 1 - t] \in Number
    BY <1>2, <2>1, ElementOfSeq
  <2>4. Autograd(t) = (carry \otimes 0) \oplus SoFar(t)
    BY <1>5, <1>6, <2>1
  <2> QED
    BY <1>2, <2>2, <2>3, <2>4, Units, UnitsOnTheRight
<1>8. ASSUME call.op # "fedsnn"
      PROVE  carry = Autograd(VInit)
  <2>1. VInit \in Leaves /\ VInit \notin 1 .. Len(native) /\ VInit # Parameter
    BY <1>1, DynamicsAssumption DEF VInit, Parameter
  <2>2. SoFar(VInit) = 0
    BY <1>4, <2>1 DEF SoFar
  <2>3. Autograd(VInit) = (carry \otimes 1) \oplus 0
    BY <1>5, <1>6, <1>8, <2>1, <2>2
  <2> QED
    BY <1>2, <2>3, Units, UnitsOnTheRight
<1>9. GradParameter = Autograd(Parameter)
  <2>1. Parameter \in Leaves /\ Parameter \notin 1 .. Len(native) /\ Parameter # VInit
    BY <1>1, DynamicsAssumption DEF VInit, Parameter
  <2>2. SoFar(Parameter) = partial
    BY <1>4, <2>1 DEF SoFar
  <2>3. Autograd(Parameter) = (carry \otimes 0) \oplus partial
    BY <1>5, <1>6, <2>1, <2>2
  <2>4. GradParameter = partial
    BY <1>2, LanesOfK DEF GradParameter
  <2> QED
    BY <1>2, <2>3, <2>4, Units, UnitsOnTheRight
<1> QED
  BY <1>7, <1>8, <1>9

\* The fused backward kernels return what autograd computes for the PyTorch
\* neuron: the gradients of every input, of the initial voltage and of the
\* parameter, whichever output the loss is, and for their mixture, for sequences
\* of any length.
THEOREM GradientsAreAutograd == Spec => []GradientIsAutograd
  BY InitTraced, NextTraced, EndedIsBalanced, PTL DEF Spec

\* The derivatives the neuron carries along, the registers of the kernels and
\* the gradients they return are numbers.
THEOREM TypeCorrect == Spec => []TypeOK
<1>1. GInv => TypeOK
  <2> SUFFICES ASSUME GInv PROVE TypeOK
    OBVIOUS
  <2>1. v \in Dual
    <3>1. CASE call = NoCall
      BY <3>1, DualLeaves, Units DEF GInv, Registers
    <3>2. CASE call \in Calls
      <4>1. PICK initial \in Number : Ran(StartOf(initial))
        BY <3>2 DEF GInv, Traced
      <4>2. Len(native) \in 0 .. Len(native)
        BY Lengths
      <4>3. After(StartOf(initial), Len(native)) \in Dual
        BY <4>1, <4>2, Starts, AfterIsDual
      <4> QED
        BY <4>1, <4>3 DEF Ran
    <3> QED
      BY <3>1, <3>2 DEF GInv, IInv, CallOK
  <2> QED
    BY <2>1, Lengths DEF GInv, IInv, CallOK, Registers, TypeOK
<1> QED
  BY <1>1, InitTraced, NextTraced, PTL DEF Spec
=============================================================================
